---------------------------- MODULE AudioInProofs ----------------------------
(***************************************************************************)
(* Theorems about the two buffers that audio comes in by.                  *)
(*                                                                         *)
(* SoundRing, for fragments, frames and buffers of any size: the count,    *)
(* the head and the tail of the ring agree, it is a queue of samples, and  *)
(* the frames follow on each other.                                        *)
(*                                                                         *)
(* RtpReceive, for streams that start with any number and time stamp,      *)
(* frames and numbers of any size, and packets lost, late or repeated in   *)
(* any way: the statistics of a call are those of its stream, comfort      *)
(* noise is paced, and what is played is what was said, for every 16-bit   *)
(* sample.                                                                 *)
(***************************************************************************)
EXTENDS SoundRing, RtpReceive, FiniteSetTheorems, SequenceTheorems, TLAPS

----------------------------------------------------------------------------
(* Numbers that wrap *)

LEMMA DivMod ==
    \A x \in Int, n \in Nat \ {0} :
        /\ x = n * (x \div n) + (x % n)
        /\ x % n \in 0 .. n - 1 /\ x \div n \in Int
OBVIOUS

\* Quotient and remainder are unique
LEMMA DivModUnique ==
    ASSUME NEW n \in Nat \ {0}, NEW p \in Int, NEW q \in Int,
           NEW r \in 0 .. n - 1, NEW s \in 0 .. n - 1, n * p + r = n * q + s
    PROVE  r = s
<1>1. ASSUME NEW a \in Int, NEW b \in Int, a > b
      PROVE  n * a - n * b >= n
  <2>1. a - b \in Nat \ {0}
    BY <1>1
  <2>2. \A m, k \in Nat \ {0} : m * k >= m
    OBVIOUS
  <2>3. n * (a - b) >= n
    BY <2>1, <2>2
  <2>. QED  BY <2>3
<1>2. ~(p > q)
  BY <1>1
<1>3. ~(q > p)
  BY <1>1
<1>4. p = q
  BY <1>2, <1>3
<1>. QED  BY <1>4

\* Taking the remainder early changes nothing
LEMMA ModPlus ==
    ASSUME NEW n \in Nat \ {0}, NEW x \in Int, NEW y \in Int
    PROVE  ((x % n) + y) % n = (x + y) % n
<1>. DEFINE q == x \div n         r == x % n
            p == (r + y) \div n   u == (r + y) % n
            v == (x + y) \div n   w == (x + y) % n
<1>1. x = n * q + r /\ r \in 0 .. n - 1 /\ q \in Int
  BY DivMod
<1>2. r + y = n * p + u /\ u \in 0 .. n - 1 /\ p \in Int
  <2>1. r + y \in Int
    BY <1>1
  <2>. HIDE DEF r
  <2>. QED  BY <2>1, DivMod
<1>3. x + y = n * v + w /\ w \in 0 .. n - 1 /\ v \in Int
  <2>1. x + y \in Int
    OBVIOUS
  <2>. QED  BY <2>1, DivMod
<1>. HIDE DEF q, r, p, u, v, w
<1>4. q + p \in Int /\ n * (q + p) = n * q + n * p
  BY <1>1, <1>2
<1>5. n * (q + p) + u = n * v + w
  BY <1>1, <1>2, <1>3, <1>4
<1>6. u = w
  <2>. DEFINE z == q + p
  <2>1. z \in Int /\ n * z + u = n * v + w
    BY <1>4, <1>5
  <2>. HIDE DEF z
  <2>. QED  BY <1>2, <1>3, <2>1, DivModUnique
<1>. QED  BY <1>6 DEF u, w, r

\* A number that goes around at most once
LEMMA WrapOnce ==
    ASSUME NEW n \in Nat \ {0}, NEW r \in 0 .. n - 1, NEW d \in 0 .. n
    PROVE  (r + d) % n = IF r + d < n THEN r + d ELSE r + d - n
<1>1. CASE r + d < n
  BY <1>1
<1>2. CASE r + d >= n
  <2>1. r + d = n * 1 + (r + d - n) /\ r + d - n \in 0 .. n - 1
    BY <1>2
  <2>. DEFINE p == (r + d) \div n   u == (r + d) % n   s == r + d - n
  <2>2. r + d = n * p + u /\ u \in 0 .. n - 1 /\ p \in Int
    <3>1. r + d \in Int
      OBVIOUS
    <3>. QED  BY <3>1, DivMod
  <2>3. n * p + u = n * 1 + s /\ s \in 0 .. n - 1
    BY <2>1, <2>2
  <2>. HIDE DEF p, u, s
  <2>4. u = s
    BY <2>2, <2>3, DivModUnique
  <2>. QED  BY <1>2, <2>4 DEF u, s
<1>. QED  BY <1>1, <1>2

\* The same of numbers from 0 to top
LEMMA Wrap ==
    ASSUME NEW top \in Nat \ {0}, NEW x \in Int
    PROVE  x % (top + 1) \in 0 .. top
<1>. DEFINE n == top + 1
<1>1. n \in Nat \ {0} /\ 0 .. n - 1 = 0 .. top
  OBVIOUS
<1>. HIDE DEF n
<1>2. x % n \in 0 .. n - 1
  BY <1>1, DivMod
<1>. QED  BY <1>1, <1>2 DEF n

LEMMA WrapNone ==
    ASSUME NEW top \in Nat \ {0}, NEW a \in 0 .. top
    PROVE  (a + 0) % (top + 1) = a
<1>. DEFINE n == top + 1
<1>1. n \in Nat \ {0} /\ a \in 0 .. n - 1 /\ 0 \in 0 .. n /\ a + 0 < n /\ a + 0 = a
  OBVIOUS
<1>. HIDE DEF n
<1>2. (a + 0) % n = a
  BY <1>1, WrapOnce
<1>. QED  BY <1>2 DEF n

LEMMA WrapNext ==
    ASSUME NEW top \in Nat \ {0}, NEW a \in 0 .. top, NEW d \in Nat
    PROVE  (((a + d) % (top + 1)) + 1) % (top + 1) = (a + (d + 1)) % (top + 1)
<1>. DEFINE n == top + 1   x == a + d
<1>1. n \in Nat \ {0} /\ x \in Int /\ 1 \in Int /\ x + 1 = a + (d + 1)
  OBVIOUS
<1>. HIDE DEF n, x
<1>2. ((x % n) + 1) % n = (x + 1) % n
  BY <1>1, ModPlus
<1>. QED  BY <1>1, <1>2 DEF n, x

\* A number less than a full turn ahead
LEMMA WrapAhead ==
    ASSUME NEW top \in Nat \ {0}, NEW a \in 0 .. top, NEW d \in 0 .. top
    PROVE  (a + d) % (top + 1) = IF a + d <= top THEN a + d ELSE a + d - (top + 1)
<1>. DEFINE n == top + 1
<1>1. n \in Nat \ {0} /\ a \in 0 .. n - 1 /\ d \in 0 .. n /\ (a + d <= top <=> a + d < n)
  OBVIOUS
<1>. HIDE DEF n
<1>2. (a + d) % n = IF a + d < n THEN a + d ELSE a + d - n
  BY <1>1, WrapOnce
<1>. QED  BY <1>1, <1>2 DEF n

----------------------------------------------------------------------------
(* The ring of the microphone: types *)


LEMMA SizeType == Size \in Nat \ {0}
<1>1. \A m, n \in Nat \ {0} : m * n \in Nat \ {0}
  OBVIOUS
<1>. QED  BY <1>1, SizesAssumption DEF Size

LEMMA OfferType == \A size \in Offers : size \in Nat
<1>1. \A m, n \in Nat : m * n \in Nat
  OBVIOUS
<1>. QED  BY <1>1, SizesAssumption DEF Offers

\* A position taken on by no more than the size of the ring stays in it, behind by that
\* much or by the size less
LEMMA AdvancedWithin ==
    ASSUME NEW pos \in 0 .. Size - 1, NEW n \in 0 .. Size
    PROVE  /\ Advanced(pos, n) \in 0 .. Size - 1
           /\ Advanced(pos, n) = pos + n \/ Advanced(pos, n) = pos + n - Size
<1>. DEFINE S == Size
<1>0. S \in Nat \ {0} /\ pos \in 0 .. S - 1 /\ n \in 0 .. S
  BY SizeType
<1>1. CASE pos + n < S
  <2>1. (pos + n) % S = pos + n
    BY <1>0, <1>1
  <2>. QED  BY <1>0, <1>1, <2>1 DEF Advanced
<1>2. CASE pos + n = S
  <2>1. S % S = 0
    BY <1>0
  <2>. QED  BY <1>0, <1>2, <2>1 DEF Advanced
<1>3. CASE pos + n > S
  BY <1>0, <1>3 DEF Advanced
<1>. QED  BY <1>0, <1>1, <1>2, <1>3

LEMMA SampleOf == \A x \in Int : x % Samples \in Sample
BY SamplesAssumption DEF Sample

LEMMA SampleNat == Sample \subseteq Nat
BY SamplesAssumption DEF Sample

\* What is stored in the ring are samples
LEMMA StoredType ==
    ASSUME TypeOK, NEW pos \in Int, NEW n \in Int
    PROVE  Stored(ibuf, pos, n) \in [0 .. Size - 1 -> Sample \cup {Stale}]
<1>1. ibuf \in [0 .. Size - 1 -> Sample \cup {Stale}] /\ mic \in Nat
  BY SampleNat DEF TypeOK
<1>2. \A p \in 0 .. Size - 1 : (mic + p - pos) % Samples \in Sample
  BY <1>1, SampleOf, SizeType
<1>. QED  BY <1>1, <1>2 DEF Stored

\* The three ways to read the input leave samples in the ring
LEMMA ReadType ==
    ASSUME TypeOK, ihead \in 0 .. Size - 1, NEW size \in Nat,
           ReadStraight(size) \/ ReadAround(size) \/ ReadHalf(size)
    PROVE  /\ ibuf' \in [0 .. Size - 1 -> Sample \cup {Stale}]
           /\ mic' \in Sample /\ breaks' \in Nat
<1>. DEFINE Ring == [0 .. Size - 1 -> Sample \cup {Stale}]
<1>0. /\ ibuf \in Ring /\ mic \in Nat /\ breaks \in Nat
      /\ Size \in Nat /\ ihead \in Nat /\ ihead < Size
  BY SampleNat, SizeType DEF TypeOK
<1>s. ASSUME NEW less \in BOOLEAN, Short(less)  PROVE breaks' \in Nat
  BY <1>0, <1>s DEF Short
<1>1. CASE ReadStraight(size)
  <2>1. PICK len \in 0 .. size : /\ Short(len < size) /\ ibuf' = Stored(ibuf, ihead, len)
                                /\ mic' = (mic + len) % Samples
    BY <1>1 DEF ReadStraight
  <2>2. breaks' \in Nat
    BY <2>1, <1>0 DEF Short
  <2>. QED  BY <1>0, <2>1, <2>2, StoredType, SampleOf
<1>2. CASE ReadAround(size)
  <2>1. PICK len \in 0 .. size - (Size - ihead) :
           /\ Short(len < size - (Size - ihead))
           /\ ibuf' = [p \in DOMAIN ibuf |-> IF p >= ihead THEN (mic + p - ihead) % Samples
                                             ELSE IF p < len
                                             THEN (mic + (Size - ihead) + p) % Samples
                                             ELSE ibuf[p]]
           /\ mic' = (mic + (Size - ihead) + len) % Samples
    BY <1>2 DEF ReadAround
  <2>2. breaks' \in Nat
    BY <2>1, <1>0 DEF Short
  <2>3. \A p \in 0 .. Size - 1 : /\ (mic + p - ihead) % Samples \in Sample
                                 /\ (mic + (Size - ihead) + p) % Samples \in Sample
    BY <1>0, SampleOf
  <2>4. ibuf' \in Ring
    BY <1>0, <2>1, <2>3
  <2>. QED  BY <1>0, <2>1, <2>2, <2>4, SampleOf
<1>3. CASE ReadHalf(size)
  <2>1. /\ Short(TRUE) /\ ibuf' = Stored(ibuf, ihead, Size - ihead)
        /\ mic' = (mic + Size - ihead) % Samples
    BY <1>3 DEF ReadHalf
  <2>2. breaks' \in Nat
    BY <2>1, <1>0 DEF Short
  <2>. QED  BY <1>0, <2>1, <2>2, StoredType, SampleOf
<1>. QED  BY <1>1, <1>2, <1>3

LEMMA ReadKeeps == ASSUME RingConsistent, ReadInput  PROVE RingConsistent'
<1>0. /\ TypeOK /\ icnt \in 0 .. Size /\ ihead \in 0 .. Size - 1 /\ itail \in 0 .. Size - 1
      /\ ihead = itail + icnt \/ ihead = itail + icnt - Size
  BY DEF RingConsistent, TypeOK
<1>1. PICK avail \in Offers, size \in Offers :
        /\ Fits(size, avail)
        /\ \/ /\ ReadStraight(size) \/ ReadAround(size)
              /\ icnt' = icnt + size /\ ihead' = Advanced(ihead, size)
           \/ ReadHalf(size)
  BY DEF ReadInput
<1>2. size \in Nat /\ size <= Size - icnt /\ Size \in Nat
  BY <1>1, OfferType, SizeType DEF Fits, Remaining
<1>3. /\ ibuf' \in [0 .. Size - 1 -> Sample \cup {Stale}]
      /\ mic' \in Sample /\ breaks' \in Nat
  BY <1>0, <1>1, <1>2, ReadType
<1>4. /\ phase' = "take" /\ UNCHANGED <<itail, frame, due, wrapped>>
  BY DEF ReadInput
<1>5. CASE icnt' = icnt + size /\ ihead' = Advanced(ihead, size)
  <2>1. /\ ihead' \in 0 .. Size - 1
        /\ ihead' = ihead + size \/ ihead' = ihead + size - Size
    BY <1>0, <1>2, <1>5, AdvancedWithin
  <2>2. icnt' \in 0 .. Size /\ (ihead' = itail + icnt' \/ ihead' = itail + icnt' - Size)
    BY <1>0, <1>2, <1>5, <2>1
  <2>3. TypeOK'
    <3>1. /\ itail' \in 0 .. Size - 1 /\ icnt' \in Int
          /\ phase' \in {"read", "take"} /\ wrapped' \in BOOLEAN /\ due' \in Sample
      BY <1>0, <1>2, <1>4, <2>2 DEF TypeOK
    <3>. QED  BY <1>3, <2>1, <3>1 DEF TypeOK
  <2>4. itail' = itail
    BY <1>4
  <2>. QED  BY <2>2, <2>3, <2>4 DEF RingConsistent
<1>6. CASE ReadHalf(size)
  <2>1. icnt' = icnt /\ ihead' = ihead
    BY <1>6 DEF ReadHalf
  <2>. QED  BY <1>0, <1>2, <1>3, <1>4, <2>1 DEF RingConsistent, TypeOK
<1>. QED  BY <1>1, <1>5, <1>6

LEMMA TakeKeeps == ASSUME RingConsistent, TakeFrame  PROVE RingConsistent'
<1>0. /\ TypeOK /\ icnt \in 0 .. Size /\ ihead \in 0 .. Size - 1 /\ itail \in 0 .. Size - 1
      /\ ihead = itail + icnt \/ ihead = itail + icnt - Size
      /\ Size \in Nat /\ Frame \in Nat /\ Samples \in Nat \ {0} /\ due \in Nat
  BY SizeType, SizesAssumption, SamplesAssumption, SampleNat DEF RingConsistent, TypeOK
<1>1. /\ Frame <= icnt /\ icnt' = icnt - Frame /\ itail' = Advanced(itail, Frame)
      /\ UNCHANGED <<ibuf, ihead, phase, mic, breaks>>
      /\ due' = (due + Frame) % Samples /\ wrapped' \in BOOLEAN
  BY DEF TakeFrame
<1>2. /\ itail' \in 0 .. Size - 1
      /\ itail' = itail + Frame \/ itail' = itail + Frame - Size
  BY <1>0, <1>1, AdvancedWithin
<1>3. icnt' \in 0 .. Size /\ (ihead' = itail' + icnt' \/ ihead' = itail' + icnt' - Size)
  BY <1>0, <1>1, <1>2
<1>4. due' \in Sample
  BY <1>0, <1>1, SampleOf
<1>. QED  BY <1>0, <1>1, <1>2, <1>3, <1>4 DEF RingConsistent, TypeOK

LEMMA OthersKeep ==
    ASSUME RingConsistent, Taken \/ Flush \/ Reset \/ UNCHANGED vars
    PROVE  RingConsistent'
<1>0. TypeOK /\ mic \in Nat /\ Size \in Nat \ {0}
  BY SampleNat, SizeType DEF RingConsistent, TypeOK
<1>1. CASE Taken
  BY <1>0, <1>1 DEF Taken, indices, RingConsistent, TypeOK
<1>2. CASE Flush
  <2>1. PICK avail \in Offers : mic' = (mic + avail) % Samples
    BY <1>2 DEF Flush
  <2>2. mic' \in Sample
    BY <1>0, <2>1, OfferType, SampleOf
  <2>. QED  BY <1>0, <1>2, <2>2 DEF Flush, indices, RingConsistent, TypeOK
<1>3. CASE Reset
  BY <1>0, <1>3 DEF Reset, RingConsistent, TypeOK
<1>4. CASE UNCHANGED vars
  BY <1>4 DEF vars, RingConsistent, TypeOK
<1>. QED  BY <1>1, <1>2, <1>3, <1>4

\* For any sizes of fragments, frames and buffer, short and failing reads, flushes and
\* new cards: what is counted lies between tail and head, so no fragment is stored over
\* samples that were not taken and no frame is taken beyond them
THEOREM RingIsConsistent == Spec => []RingConsistent
<1>1. Init => RingConsistent
  <2>. SUFFICES ASSUME Init  PROVE RingConsistent
    OBVIOUS
  <2>0. 0 \in Sample /\ 0 \in 0 .. Size - 1 /\ 0 \in 0 .. Size /\ 0 \in Nat
    BY SizeType, SamplesAssumption DEF Sample
  <2>1. ibuf \in [0 .. Size - 1 -> Sample \cup {Stale}]
    BY DEF Init
  <2>2. /\ icnt = 0 /\ ihead = 0 /\ itail = 0 /\ phase = "read" /\ mic = 0 /\ breaks = 0
        /\ due = 0 /\ wrapped = FALSE
    BY DEF Init
  <2>3. TypeOK
    <3>1. icnt \in Int /\ ihead \in 0 .. Size - 1 /\ itail \in 0 .. Size - 1
      BY <2>0, <2>2
    <3>2. /\ phase \in {"read", "take"} /\ mic \in Sample /\ breaks \in Nat
          /\ wrapped \in BOOLEAN /\ due \in Sample
      BY <2>0, <2>2
    <3>. QED  BY <2>1, <3>1, <3>2, Zenon DEF TypeOK
  <2>. QED  BY <2>0, <2>2, <2>3 DEF RingConsistent
<1>2. RingConsistent /\ [Next]_vars => RingConsistent'
  BY ReadKeeps, TakeKeeps, OthersKeep DEF Next
<1>. QED  BY <1>1, <1>2, PTL DEF Spec

----------------------------------------------------------------------------
(* The ring is a queue *)

\* where the q-th of the samples that are counted is, or the next to come
Pos(q) == (itail + q) % Size

\* The places of a queue that is not longer than the ring are different ones
LEMMA Places ==
    ASSUME RingConsistent, NEW q \in 0 .. Size
    PROVE  /\ Pos(q) \in 0 .. Size - 1
           /\ Pos(q) = itail + q \/ Pos(q) = itail + q - Size
<1>1. Size \in Nat \ {0} /\ itail \in 0 .. Size - 1
  BY SizeType DEF RingConsistent, TypeOK
<1>. DEFINE S == Size
<1>2. S \in Nat \ {0} /\ itail \in 0 .. S - 1 /\ q \in 0 .. S
  BY <1>1
<1>3. (itail + q) % S = IF itail + q < S THEN itail + q ELSE itail + q - S
  <2>. HIDE DEF S
  <2>. QED  BY <1>2, WrapOnce
<1>. QED  BY <1>2, <1>3 DEF Pos

\* Positions are taken around the end by a remainder
LEMMA AdvancedIs ==
    ASSUME NEW pos \in 0 .. Size - 1, NEW n \in 0 .. Size
    PROVE  Advanced(pos, n) = (pos + n) % Size
<1>. DEFINE S == Size
<1>1. S \in Nat \ {0} /\ pos \in 0 .. S - 1 /\ n \in 0 .. S
  BY SizeType
<1>2. (pos + n) % S = IF pos + n < S THEN pos + n ELSE pos + n - S
  <2>. HIDE DEF S
  <2>. QED  BY <1>1, WrapOnce
<1>3. CASE pos + n <= S
  BY <1>3 DEF Advanced
<1>4. CASE pos + n > S
  BY <1>1, <1>2, <1>4 DEF Advanced
<1>. QED  BY <1>1, <1>3, <1>4

\* Reading the input leaves the samples that are counted alone, and puts what the
\* device gives behind them, in order
LEMMA ReadQueues ==
    ASSUME RingConsistent, NEW size \in Nat, size > 0, size <= Size - icnt,
           ReadStraight(size) \/ ReadAround(size) \/ ReadHalf(size)
    PROVE  /\ \A q \in 0 .. icnt - 1 : ibuf'[Pos(q)] = ibuf[Pos(q)]
           /\ breaks = 0 /\ breaks' = 0 =>
                /\ mic' = (mic + size) % Samples
                /\ \A j \in 0 .. size - 1 : ibuf'[Pos(icnt + j)] = (mic + j) % Samples
<1>0. /\ Size \in Nat \ {0} /\ itail \in 0 .. Size - 1 /\ ihead \in 0 .. Size - 1
      /\ icnt \in 0 .. Size /\ mic \in Int
      /\ ihead = itail + icnt \/ ihead = itail + icnt - Size
      /\ DOMAIN ibuf = 0 .. Size - 1
  BY SizeType, SampleNat DEF RingConsistent, TypeOK
<1>1. \A q \in 0 .. Size : /\ Pos(q) \in 0 .. Size - 1
                           /\ Pos(q) = itail + q \/ Pos(q) = itail + q - Size
  BY Places
<1>2. ASSUME NEW q \in 0 .. icnt - 1
      PROVE  /\ Pos(q) \in DOMAIN ibuf
             /\ ihead + size <= Size => ~(Pos(q) >= ihead /\ Pos(q) < ihead + size)
             /\ ihead + size > Size =>
                  ~(Pos(q) >= ihead) /\ ~(Pos(q) < size - (Size - ihead))
  <2>. DEFINE p == Pos(q)
  <2>1. q \in 0 .. Size /\ q < icnt /\ q >= 0 /\ q \in Int
    BY <1>0
  <2>2. p \in 0 .. Size - 1 /\ (p = itail + q \/ p = itail + q - Size)
    BY <1>1, <2>1
  <2>. HIDE DEF p
  <2>3. ihead + size <= Size => ~(p >= ihead /\ p < ihead + size)
    BY <1>0, <2>1, <2>2
  <2>4. ihead + size > Size => ~(p >= ihead) /\ ~(p < size - (Size - ihead))
    BY <1>0, <2>1, <2>2
  <2>. QED  BY <1>0, <2>2, <2>3, <2>4 DEF p
<1>3. ASSUME NEW j \in 0 .. size - 1
      PROVE  /\ Pos(icnt + j) \in DOMAIN ibuf
             /\ ihead + size <= Size => Pos(icnt + j) = ihead + j
             /\ ihead + size > Size =>
                  \/ Pos(icnt + j) >= ihead /\ Pos(icnt + j) = ihead + j
                  \/ /\ Pos(icnt + j) < ihead
                     /\ Pos(icnt + j) < size - (Size - ihead)
                     /\ (Size - ihead) + Pos(icnt + j) = j
  <2>. DEFINE p == Pos(icnt + j)
  <2>1. icnt + j \in 0 .. Size /\ j \in Int /\ j >= 0 /\ j < size
    BY <1>0
  <2>2. p \in 0 .. Size - 1 /\ (p = itail + (icnt + j) \/ p = itail + (icnt + j) - Size)
    BY <1>1, <2>1
  <2>. HIDE DEF p
  <2>3. ihead + size <= Size => p = ihead + j
    BY <1>0, <2>1, <2>2
  <2>4. ihead + size > Size =>
          \/ p >= ihead /\ p = ihead + j
          \/ p < ihead /\ p < size - (Size - ihead) /\ (Size - ihead) + p = j
    BY <1>0, <2>1, <2>2
  <2>. QED  BY <1>0, <2>2, <2>3, <2>4 DEF p
<1>4. CASE ReadStraight(size)
  <2>1. PICK len \in 0 .. size :
          /\ Short(len < size) /\ ibuf' = Stored(ibuf, ihead, len)
          /\ mic' = (mic + len) % Samples
    BY <1>4 DEF ReadStraight
  <2>2. ihead + size <= Size
    BY <1>4 DEF ReadStraight
  <2>3. ASSUME NEW q \in 0 .. icnt - 1
        PROVE  ibuf'[Pos(q)] = ibuf[Pos(q)]
    BY <1>0, <1>2, <2>1, <2>2 DEF Stored
  <2>4. ASSUME breaks = 0, breaks' = 0
        PROVE  /\ mic' = (mic + size) % Samples
               /\ \A j \in 0 .. size - 1 : ibuf'[Pos(icnt + j)] = (mic + j) % Samples
    <3>1. len = size
      BY <2>1, <2>4 DEF Short
    <3>2. ASSUME NEW j \in 0 .. size - 1
          PROVE  ibuf'[Pos(icnt + j)] = (mic + j) % Samples
      <4>1. Pos(icnt + j) = ihead + j /\ Pos(icnt + j) \in DOMAIN ibuf
        BY <1>3, <2>2
      <4>2. ibuf'[ihead + j] = (mic + (ihead + j) - ihead) % Samples
        BY <1>0, <2>1, <3>1, <4>1 DEF Stored
      <4>3. mic + (ihead + j) - ihead = mic + j
        BY <1>0
      <4>. QED  BY <4>1, <4>2, <4>3
    <3>. QED  BY <2>1, <3>1, <3>2
  <2>. QED  BY <2>3, <2>4
<1>5. CASE ReadAround(size)
  <2>1. PICK len \in 0 .. size - (Size - ihead) :
          /\ Short(len < size - (Size - ihead))
          /\ ibuf' = [p \in DOMAIN ibuf |-> IF p >= ihead THEN (mic + p - ihead) % Samples
                                            ELSE IF p < len
                                            THEN (mic + (Size - ihead) + p) % Samples
                                            ELSE ibuf[p]]
          /\ mic' = (mic + (Size - ihead) + len) % Samples
    BY <1>5 DEF ReadAround
  <2>2. ihead + size > Size
    BY <1>5 DEF ReadAround
  <2>3. ASSUME NEW q \in 0 .. icnt - 1
        PROVE  ibuf'[Pos(q)] = ibuf[Pos(q)]
    <3>1. /\ Pos(q) \in DOMAIN ibuf /\ ~(Pos(q) >= ihead)
          /\ ~(Pos(q) < size - (Size - ihead))
      BY <1>2, <2>2
    <3>2. ~(Pos(q) < len)
      BY <1>0, <3>1
    <3>. QED  BY <2>1, <3>1, <3>2
  <2>4. ASSUME breaks = 0, breaks' = 0
        PROVE  /\ mic' = (mic + size) % Samples
               /\ \A j \in 0 .. size - 1 : ibuf'[Pos(icnt + j)] = (mic + j) % Samples
    <3>1. len = size - (Size - ihead)
      <4>1. ~(len < size - (Size - ihead))
        BY <2>1, <2>4 DEF Short
      <4>. QED  BY <1>0, <2>2, <4>1
    <3>2. mic + (Size - ihead) + len = mic + size
      BY <1>0, <3>1
    <3>3. ASSUME NEW j \in 0 .. size - 1
          PROVE  ibuf'[Pos(icnt + j)] = (mic + j) % Samples
      <4>. DEFINE p == Pos(icnt + j)
      <4>1. p \in DOMAIN ibuf
        BY <1>3
      <4>2. \/ p >= ihead /\ p = ihead + j
            \/ p < ihead /\ p < len /\ (Size - ihead) + p = j
        BY <1>3, <2>2, <3>1
      <4>. HIDE DEF p
      <4>3. CASE p >= ihead /\ p = ihead + j
        <5>1. mic + p - ihead = mic + j
          BY <1>0, <4>3
        <5>2. ibuf'[p] = (mic + p - ihead) % Samples
          BY <2>1, <4>1, <4>3
        <5>. QED  BY <5>1, <5>2 DEF p
      <4>4. CASE p < ihead /\ p < len /\ (Size - ihead) + p = j
        <5>1. mic + (Size - ihead) + p = mic + j
          BY <1>0, <4>1, <4>4
        <5>2. ibuf'[p] = (mic + (Size - ihead) + p) % Samples
          BY <1>0, <2>1, <4>1, <4>4
        <5>. QED  BY <5>1, <5>2 DEF p
      <4>. QED  BY <4>2, <4>3, <4>4
    <3>. QED  BY <2>1, <3>2, <3>3
  <2>. QED  BY <2>3, <2>4
<1>6. CASE ReadHalf(size)
  <2>1. ihead + size > Size /\ Short(TRUE) /\ ibuf' = Stored(ibuf, ihead, Size - ihead)
    BY <1>6 DEF ReadHalf
  <2>2. ASSUME NEW q \in 0 .. icnt - 1
        PROVE  ibuf'[Pos(q)] = ibuf[Pos(q)]
    BY <1>0, <1>2, <2>1 DEF Stored
  <2>3. ~(breaks = 0 /\ breaks' = 0)
    BY <2>1 DEF Short
  <2>. QED  BY <2>2, <2>3
<1>. QED  BY <1>4, <1>5, <1>6

\* Taking a frame moves what is left to the front of the queue
LEMMA TakeShifts ==
    ASSUME RingConsistent, TakeFrame
    PROVE  /\ \A q \in 0 .. icnt - Frame : Pos(q)' = Pos(Frame + q)
           /\ ~wrapped' => \A i \in 1 .. Frame : frame'[i] = ibuf[Pos(i - 1)]
<1>0. /\ Size \in Nat \ {0} /\ itail \in 0 .. Size - 1 /\ icnt \in 0 .. Size
      /\ Frame \in Nat \ {0} /\ Frame <= icnt
  BY SizeType, SizesAssumption DEF RingConsistent, TypeOK, TakeFrame
<1>1. itail' = (itail + Frame) % Size
  <2>1. Frame \in 0 .. Size
    BY <1>0
  <2>. QED  BY <1>0, <2>1, AdvancedIs DEF TakeFrame
<1>2. ASSUME NEW q \in 0 .. icnt - Frame
      PROVE  Pos(q)' = Pos(Frame + q)
  <2>1. (((itail + Frame) % Size) + q) % Size = ((itail + Frame) + q) % Size
    <3>1. itail + Frame \in Int /\ q \in Int
      BY <1>0
    <3>. QED  BY <1>0, <3>1, ModPlus
  <2>2. (itail + Frame) + q = itail + (Frame + q)
    BY <1>0
  <2>. QED  BY <1>1, <2>1, <2>2 DEF Pos, Size
<1>3. ASSUME ~wrapped', NEW i \in 1 .. Frame
      PROVE  frame'[i] = ibuf[Pos(i - 1)]
  <2>1. frame' = Copied /\ itail + Frame <= Size
    <3>1. frame' = Copied /\ wrapped' = (itail + Frame > Size)
      BY DEF TakeFrame
    <3>2. ~(itail + Frame > Size)
      BY <1>3, <3>1, Zenon
    <3>. QED  BY <1>0, <3>1, <3>2
  <2>2. Copied[i] = ibuf[itail + i - 1]
    BY <2>1 DEF Copied
  <2>3. Pos(i - 1) = itail + i - 1
    <3>1. i - 1 \in 0 .. Size /\ itail + (i - 1) < Size
      BY <1>0, <2>1
    <3>2. Pos(i - 1) \in 0 .. Size - 1
          /\ (Pos(i - 1) = itail + (i - 1) \/ Pos(i - 1) = itail + (i - 1) - Size)
      BY <3>1, Places
    <3>. QED  BY <1>0, <3>1, <3>2
  <2>. QED  BY <2>1, <2>2, <2>3
<1>. QED  BY <1>2, <1>3

----------------------------------------------------------------------------
(* The frames follow on each other *)

\* the strengthening: as long as nothing was lost, what is counted are the samples
\* from the one that is due up to the next of the device
Queued ==
    breaks = 0 =>
        /\ mic = (due + icnt) % Samples
        /\ \A q \in 0 .. icnt - 1 : ibuf[Pos(q)] = (due + q) % Samples

\* Reading the input
LEMMA ReadQueued ==
    ASSUME RingConsistent, Queued, ReadInput PROVE Queued'
<1>0. /\ Size \in Nat \ {0} /\ icnt \in 0 .. Size /\ Samples \in Nat \ {0}
      /\ due \in Int /\ mic \in Int /\ breaks \in Nat
  BY SizeType, SampleNat, SamplesAssumption DEF RingConsistent, TypeOK
<1>1. PICK avail \in Offers, size \in Offers :
        /\ Fits(size, avail)
        /\ \/ /\ ReadStraight(size) \/ ReadAround(size)
              /\ icnt' = icnt + size /\ ihead' = Advanced(ihead, size)
           \/ ReadHalf(size)
  BY DEF ReadInput
<1>2. size \in Nat /\ size > 0 /\ size <= Size - icnt
  BY <1>1, OfferType DEF Fits, Remaining
<1>3. UNCHANGED <<itail, due>>
  BY DEF ReadInput
<1>4. SUFFICES ASSUME breaks' = 0
               PROVE  /\ mic' = (due + icnt') % Samples
                      /\ \A q \in 0 .. icnt' - 1 : ibuf'[Pos(q)] = (due + q) % Samples
  BY <1>3 DEF Queued, Pos
<1>5. breaks = 0 /\ icnt' = icnt + size
  BY <1>0, <1>1, <1>4 DEF ReadStraight, ReadAround, ReadHalf, Short
<1>6. /\ \A q \in 0 .. icnt - 1 : ibuf'[Pos(q)] = ibuf[Pos(q)]
      /\ mic' = (mic + size) % Samples
      /\ \A j \in 0 .. size - 1 : ibuf'[Pos(icnt + j)] = (mic + j) % Samples
  BY <1>1, <1>2, <1>4, <1>5, ReadQueues
<1>7. ASSUME NEW j \in Int
      PROVE  (mic + j) % Samples = (due + (icnt + j)) % Samples
  <2>1. mic = (due + icnt) % Samples
    BY <1>5 DEF Queued
  <2>2. due + icnt \in Int /\ (due + icnt) + j = due + (icnt + j)
    BY <1>0
  <2>3. (((due + icnt) % Samples) + j) % Samples = ((due + icnt) + j) % Samples
    BY <1>0, <2>2, ModPlus
  <2>. QED  BY <2>1, <2>2, <2>3
<1>8. mic' = (due + icnt') % Samples
  BY <1>2, <1>5, <1>6, <1>7
<1>9. ASSUME NEW q \in 0 .. icnt' - 1
      PROVE  ibuf'[Pos(q)] = (due + q) % Samples
  <2>1. CASE q < icnt
    <3>1. q \in 0 .. icnt - 1
      BY <1>0, <1>2, <1>5, <2>1
    <3>. QED  BY <1>5, <1>6, <3>1 DEF Queued
  <2>2. CASE q >= icnt
    <3>. DEFINE j == q - icnt
    <3>1. j \in 0 .. size - 1 /\ icnt + j = q /\ j \in Int
      BY <1>0, <1>2, <1>5, <2>2
    <3>. HIDE DEF j
    <3>. QED  BY <1>6, <1>7, <3>1
  <2>. QED  BY <1>0, <1>2, <1>5, <2>1, <2>2
<1>. QED  BY <1>8, <1>9

\* Taking a frame
LEMMA TakeQueued ==
    ASSUME RingConsistent, Queued, TakeFrame
    PROVE  /\ Queued'
           /\ breaks' = 0 /\ ~wrapped' =>
                \A i \in 1 .. Frame : (frame'[i] + Frame) % Samples = (due' + i - 1) % Samples
<1>0. /\ Size \in Nat \ {0} /\ icnt \in 0 .. Size /\ Samples \in Nat \ {0}
      /\ Frame \in Nat \ {0} /\ due \in Int
  BY SizeType, SampleNat, SamplesAssumption, SizesAssumption DEF RingConsistent, TypeOK
<1>1. /\ Frame <= icnt /\ icnt' = icnt - Frame /\ due' = (due + Frame) % Samples
      /\ UNCHANGED <<ibuf, mic, breaks>>
  BY DEF TakeFrame
<1>2. ASSUME NEW j \in Int
      PROVE  (due' + j) % Samples = (due + (Frame + j)) % Samples
  <2>1. due + Frame \in Int /\ (due + Frame) + j = due + (Frame + j)
    BY <1>0
  <2>2. (((due + Frame) % Samples) + j) % Samples = ((due + Frame) + j) % Samples
    BY <1>0, <2>1, ModPlus
  <2>. QED  BY <1>1, <2>1, <2>2
<1>3. ASSUME breaks = 0
      PROVE  /\ mic' = (due' + icnt') % Samples
             /\ \A q \in 0 .. icnt' - 1 : ibuf'[Pos(q)'] = (due' + q) % Samples
  <2>1. mic' = (due' + icnt') % Samples
    <3>1. icnt' \in Int /\ Frame + icnt' = icnt
      BY <1>0, <1>1
    <3>. QED  BY <1>1, <1>2, <1>3, <3>1 DEF Queued
  <2>2. ASSUME NEW q \in 0 .. icnt' - 1
        PROVE  ibuf'[Pos(q)'] = (due' + q) % Samples
    <3>1. q \in 0 .. icnt - Frame /\ Frame + q \in 0 .. icnt - 1 /\ q \in Int
      BY <1>0, <1>1
    <3>2. Pos(q)' = Pos(Frame + q)
      BY <3>1, TakeShifts
    <3>3. ibuf[Pos(Frame + q)] = (due + (Frame + q)) % Samples
      BY <1>3, <3>1 DEF Queued
    <3>. QED  BY <1>1, <1>2, <3>1, <3>2, <3>3
  <2>. QED  BY <2>1, <2>2
<1>4. Queued'
  BY <1>1, <1>3 DEF Queued, Pos
<1>5. ASSUME breaks' = 0, ~wrapped', NEW i \in 1 .. Frame
      PROVE  (frame'[i] + Frame) % Samples = (due' + i - 1) % Samples
  <2>. DEFINE j == i - 1
  <2>1. j \in 0 .. icnt - 1 /\ j \in Int
    BY <1>0, <1>1
  <2>2. frame'[i] = (due + j) % Samples
    BY <1>1, <1>5, <2>1, TakeShifts DEF Queued
  <2>3. (((due + j) % Samples) + Frame) % Samples = ((due + j) + Frame) % Samples
    <3>1. due + j \in Int /\ Frame \in Int
      BY <1>0, <2>1
    <3>. QED  BY <1>0, <3>1, ModPlus
  <2>4. (due' + j) % Samples = (due + (Frame + j)) % Samples
    BY <1>2, <2>1
  <2>5. (due + j) + Frame = due + (Frame + j)
    BY <1>0
  <2>6. due' + i - 1 = due' + j
    <3>1. due' \in Int
      BY <1>0, <1>1
    <3>. QED  BY <3>1
  <2>. QED  BY <2>2, <2>3, <2>4, <2>5, <2>6
<1>. QED  BY <1>4, <1>5

\* For any sizes of fragments, frames and buffer: while no read was short or failed and
\* nothing was flushed, a frame that does not go around the end of the ring starts with
\* the sample after the last one of the frame before, and goes on without a gap
THEOREM FramesAreInOrder == Spec => []FramesFollowOn
<1>. DEFINE IInv == RingConsistent /\ Queued /\ FramesFollowOn
<1>1. Init => Queued /\ FramesFollowOn
  <2>. SUFFICES ASSUME Init PROVE Queued /\ FramesFollowOn
    OBVIOUS
  <2>1. mic = 0 /\ due = 0 /\ icnt = 0 /\ frame = <<>> /\ 0 .. icnt - 1 = {}
    BY DEF Init
  <2>2. (0 + 0) % Samples = 0
    BY SamplesAssumption
  <2>. QED  BY <2>1, <2>2 DEF Queued, FramesFollowOn
<1>2. RingConsistent /\ Queued /\ FramesFollowOn /\ [Next]_vars => Queued' /\ FramesFollowOn'
  <2>. SUFFICES ASSUME RingConsistent, Queued, FramesFollowOn, [Next]_vars
                PROVE  Queued' /\ FramesFollowOn'
    OBVIOUS
  <2>0. breaks \in Nat
    BY DEF RingConsistent, TypeOK
  <2>1. CASE ReadInput
    <3>1. UNCHANGED <<due, frame, wrapped>> /\ (breaks' = 0 => breaks = 0)
      BY <2>0, <2>1 DEF ReadInput, ReadStraight, ReadAround, ReadHalf, Short
    <3>. QED  BY <2>1, <3>1, ReadQueued DEF FramesFollowOn
  <2>2. CASE TakeFrame
    BY <2>2, TakeQueued DEF FramesFollowOn
  <2>3. CASE Taken \/ UNCHANGED vars
    BY <2>3 DEF Taken, vars, indices, Queued, FramesFollowOn, Pos
  <2>4. CASE Flush
    BY <2>0, <2>4 DEF Flush, Queued, FramesFollowOn
  <2>5. CASE Reset
    <3>1. /\ frame' = <<>> /\ due' = mic /\ icnt' = 0 /\ UNCHANGED mic
          /\ 0 .. icnt' - 1 = {} /\ mic \in Sample
      BY <2>5 DEF Reset, RingConsistent, TypeOK
    <3>2. (mic + 0) % Samples = mic
      BY <3>1, SamplesAssumption DEF Sample
    <3>. QED  BY <3>1, <3>2 DEF Queued, FramesFollowOn
  <2>. QED  BY <2>1, <2>2, <2>3, <2>4, <2>5 DEF Next
<1>. QED  BY <1>1, <1>2, RingIsConsistent, PTL DEF Spec

----------------------------------------------------------------------------
(* The ring implements SampleFifo *)

\* What a ring holds is a sequence of samples
LEMMA QueueType ==
    ASSUME NEW ring \in [0 .. Size - 1 -> Sample \cup {Stale}],
           NEW n \in 0 .. Size, NEW t \in 0 .. Size - 1
    PROVE  LET c == [i \in 1 .. n |-> ring[(t + i - 1) % Size]]
           IN  /\ c \in Seq(Sample \cup {Stale}) /\ Len(c) = n
               /\ \A i \in 1 .. n : c[i] = ring[(t + (i - 1)) % Size]
<1>. DEFINE c == [i \in 1 .. n |-> ring[(t + i - 1) % Size]]
<1>1. Size \in Nat \ {0} /\ n \in Nat
  BY SizeType
<1>2. ASSUME NEW i \in 1 .. n
      PROVE  /\ t + i - 1 = t + (i - 1)
             /\ ring[(t + i - 1) % Size] \in Sample \cup {Stale}
  <2>1. t + i - 1 = t + (i - 1) /\ t + i - 1 \in Int
    BY <1>1
  <2>2. (t + i - 1) % Size \in 0 .. Size - 1
    BY <1>1, <2>1, DivMod
  <2>. QED  BY <2>1, <2>2
<1>3. c \in [1 .. n -> Sample \cup {Stale}]
  BY <1>2
<1>4. \A i \in 1 .. n : c[i] = ring[(t + (i - 1)) % Size]
  BY <1>2
<1>. HIDE DEF c
<1>5. c \in Seq(Sample \cup {Stale}) /\ Len(c) = n
  BY <1>1, <1>3
<1>. QED  BY <1>4, <1>5 DEF c

\* The contents of the ring
LEMMA ContentsIs ==
    ASSUME RingConsistent
    PROVE  /\ Contents \in Seq(Sample \cup {Stale}) /\ Len(Contents) = icnt
           /\ \A i \in 1 .. icnt : Contents[i] = ibuf[Pos(i - 1)]
BY QueueType DEF RingConsistent, TypeOK, Contents, Pos

\* The same after a step
LEMMA ContentsAre ==
    ASSUME RingConsistent'
    PROVE  /\ Contents' \in Seq(Sample \cup {Stale}) /\ Len(Contents') = icnt'
           /\ \A i \in 1 .. icnt' : Contents'[i] = ibuf'[Pos(i - 1)']
<1>1. /\ ibuf' \in [0 .. Size - 1 -> Sample \cup {Stale}]
      /\ icnt' \in 0 .. Size /\ itail' \in 0 .. Size - 1
  BY DEF RingConsistent, TypeOK, Size, Sample
<1>. QED  BY <1>1, QueueType DEF Contents, Pos, Size

\* soundcard_read_input() puts samples behind those that are there, or changes nothing
LEMMA ReadPuts ==
    ASSUME RingConsistent, RingConsistent', ReadInput
    PROVE  Fifo!Put \/ UNCHANGED Contents
<1>0. /\ icnt \in 0 .. Size /\ Size \in Nat \ {0} /\ UNCHANGED itail
      /\ icnt' \in 0 .. Size
  BY SizeType DEF RingConsistent, ReadInput, Size
<1>1. PICK avail \in Offers, size \in Offers :
        /\ Fits(size, avail)
        /\ \/ /\ ReadStraight(size) \/ ReadAround(size)
              /\ icnt' = icnt + size /\ ihead' = Advanced(ihead, size)
           \/ ReadHalf(size)
  BY DEF ReadInput
<1>2. size \in Nat /\ size > 0 /\ size <= Size - icnt
  BY <1>1, OfferType DEF Fits, Remaining
<1>3. /\ icnt' = icnt + size \/ icnt' = icnt
      /\ \A q \in 0 .. icnt - 1 : ibuf'[Pos(q)] = ibuf[Pos(q)]
  BY <1>1, <1>2, ReadQueues DEF ReadHalf
<1>4. /\ Contents \in Seq(Sample \cup {Stale}) /\ Len(Contents) = icnt
      /\ Contents' \in Seq(Sample \cup {Stale}) /\ Len(Contents') = icnt'
  BY ContentsIs, ContentsAre
<1>5. ASSUME NEW i \in 1 .. icnt
      PROVE  Contents'[i] = Contents[i]
  <2>1. i - 1 \in 0 .. icnt - 1 /\ i \in 1 .. icnt'
    BY <1>0, <1>2, <1>3
  <2>2. Pos(i - 1)' = Pos(i - 1)
    BY <1>0 DEF Pos, Size
  <2>. QED  BY <1>3, <2>1, <2>2, ContentsIs, ContentsAre
<1>6. CASE icnt' = icnt
  <2>1. Contents' = Contents
    BY <1>4, <1>5, <1>6, SeqEqual
  <2>. QED  BY <2>1
<1>7. CASE icnt' = icnt + size
  <2>1. SubSeq(Contents', 1, icnt) = Contents
    <3>1. /\ icnt \in Int /\ icnt <= icnt'
          /\ \A i \in 1 .. icnt : Contents'[i] \in Sample \cup {Stale}
      BY <1>0, <1>2, <1>4, <1>5, <1>7, ElementOfSeq
    <3>. DEFINE front == SubSeq(Contents', 1, icnt)
    <3>2. /\ front \in Seq(Sample \cup {Stale})
          /\ Len(front) = IF 1 <= icnt THEN icnt - 1 + 1 ELSE 0
          /\ \A i \in 1 .. icnt - 1 + 1 : front[i] = Contents'[1 + i - 1]
      BY <3>1, SubSeqProperties
    <3>. HIDE DEF front
    <3>3. Len(front) = Len(Contents)
      BY <1>0, <1>4, <3>2
    <3>4. ASSUME NEW i \in 1 .. Len(front) PROVE front[i] = Contents[i]
      <4>1. i \in 1 .. icnt - 1 + 1 /\ i \in 1 .. icnt /\ 1 + i - 1 = i
        BY <1>0, <1>4, <3>3
      <4>. QED  BY <1>5, <3>2, <4>1
    <3>5. front = Contents
      BY <1>4, <3>2, <3>3, <3>4, SeqEqual
    <3>. QED  BY <3>5 DEF front
  <2>2. size \in 1 .. Size /\ Len(Contents') <= Size
    BY <1>0, <1>2, <1>4
  <2>3. \A i \in 1 .. Len(Contents') : Contents'[i] \in Sample \cup {Stale}
    BY <1>4, ElementOfSeq
  <2>. QED  BY <1>4, <1>7, <2>1, <2>2, <2>3 DEF Fifo!Put
<1>. QED  BY <1>3, <1>6, <1>7

\* soundcard_read_frame() takes a frame off the front
LEMMA TakeGets ==
    ASSUME RingConsistent, RingConsistent', TakeFrame
    PROVE  Fifo!Get
<1>0. /\ icnt \in Int /\ Frame \in Nat \ {0} /\ Frame <= icnt
      /\ icnt' = icnt - Frame /\ UNCHANGED ibuf
  BY SizesAssumption DEF RingConsistent, TypeOK, TakeFrame
<1>1. /\ Contents \in Seq(Sample \cup {Stale}) /\ Len(Contents) = icnt
      /\ Contents' \in Seq(Sample \cup {Stale}) /\ Len(Contents') = icnt'
  BY ContentsIs, ContentsAre
<1>. DEFINE rest == SubSeq(Contents, Frame + 1, icnt)
<1>2. /\ rest \in Seq(Sample \cup {Stale})
      /\ Len(rest) = IF Frame + 1 <= icnt THEN icnt - (Frame + 1) + 1 ELSE 0
      /\ \A i \in 1 .. icnt - (Frame + 1) + 1 : rest[i] = Contents[Frame + 1 + i - 1]
  <2>1. /\ Frame + 1 \in Int
        /\ \A i \in Frame + 1 .. icnt : Contents[i] \in Sample \cup {Stale}
    BY <1>0, <1>1, ElementOfSeq
  <2>. QED  BY <1>0, <2>1, SubSeqProperties
<1>. HIDE DEF rest
<1>3. Len(rest) = icnt'
  BY <1>0, <1>2
<1>4. ASSUME NEW i \in 1 .. icnt' PROVE Contents'[i] = rest[i]
  <2>1. /\ i \in 1 .. icnt - (Frame + 1) + 1 /\ Frame + 1 + i - 1 = Frame + i
        /\ Frame + i \in 1 .. icnt /\ i - 1 \in 0 .. icnt - Frame
        /\ Frame + i - 1 = Frame + (i - 1)
    BY <1>0
  <2>2. Contents'[i] = ibuf[Pos(Frame + (i - 1))]
    <3>1. Contents'[i] = ibuf'[Pos(i - 1)']
      BY ContentsAre
    <3>2. Pos(i - 1)' = Pos(Frame + (i - 1))
      BY <2>1, TakeShifts
    <3>. QED  BY <1>0, <3>1, <3>2
  <2>3. Contents[Frame + i] = ibuf[Pos(Frame + (i - 1))]
    <3>. DEFINE k == Frame + i
    <3>1. k \in 1 .. icnt /\ k - 1 = Frame + (i - 1)
      BY <1>0, <2>1
    <3>. HIDE DEF k
    <3>2. Contents[k] = ibuf[Pos(k - 1)]
      BY <3>1, ContentsIs
    <3>. QED  BY <3>1, <3>2 DEF k
  <2>. QED  BY <1>2, <2>1, <2>2, <2>3
<1>5. Contents' = rest
  BY <1>1, <1>2, <1>3, <1>4, SeqEqual
<1>. QED  BY <1>0, <1>1, <1>5 DEF Fifo!Get, rest

\* For any sizes of fragments, frames and buffer, the ring is a queue: samples leave it
\* in the order they came, a frame at a time, and it never holds more than its size.
\* Every step is a Put, a Get, an Empty (a new card) or changes nothing.
THEOREM RingImplementsFifo == Spec => RingIsFifo
<1>1. Init => Fifo!Init
  <2>. SUFFICES ASSUME Init PROVE Contents = <<>>
    BY DEF Fifo!Init
  <2>1. icnt = 0 /\ 1 .. icnt = {}
    BY DEF Init
  <2>. QED  BY <2>1 DEF Contents
<1>2. RingConsistent /\ RingConsistent' /\ [Next]_vars => [Fifo!Next]_Contents
  <2>. SUFFICES ASSUME RingConsistent, RingConsistent', [Next]_vars
                PROVE  Fifo!Next \/ UNCHANGED Contents
    OBVIOUS
  <2>1. CASE ReadInput
    BY <2>1, ReadPuts DEF Fifo!Next
  <2>2. CASE TakeFrame
    BY <2>2, TakeGets DEF Fifo!Next
  <2>3. CASE Taken \/ Flush \/ UNCHANGED vars
    <3>1. UNCHANGED <<ibuf, icnt, itail>>
      BY <2>3 DEF Taken, Flush, vars, indices
    <3>. QED  BY <3>1 DEF Contents, Size
  <2>4. CASE Reset
    <3>1. Contents' \in Seq(Sample \cup {Stale}) /\ Len(Contents') = 0
      BY <2>4, ContentsAre DEF Reset
    <3>2. Contents' = <<>>
      BY <3>1, EmptySeq
    <3>. QED  BY <3>2 DEF Fifo!Next, Fifo!Empty
  <2>. QED  BY <2>1, <2>2, <2>3, <2>4 DEF Next
<1>. QED  BY <1>1, <1>2, RingIsConsistent, PTL DEF Spec, RingIsFifo, Fifo!Spec

----------------------------------------------------------------------------
(* The stream: the invariant *)

Codecs == {NoCodec, ULAW, ALAW}
Numbers == 0 .. SeqTop
Stamps == 0 .. TsTop

Types ==
    /\ codec \in Codecs
    /\ noise \in [on : BOOLEAN, last : Int]
    /\ since \in 0 .. MaxNoise /\ played \in Nat
    /\ stats \in [in : Nat, missing : Nat, jitter : Nat, last_seq : Numbers,
                  last_ts : Stamps, last_interarrival : Stamps]
    /\ seen \in [prev : [n : 0 .. MaxPackets, seq : Numbers, ts : Stamps],
                 gaps : Nat, wraps : Nat, inorder : BOOLEAN, steady : BOOLEAN]
    /\ far \in [codec : Codecs, says : Begins \cup {0}, n : 1 .. MaxPackets + 1,
                seq : Numbers, ts : Stamps]
    /\ \A p \in net : p.n \in 1 .. MaxPackets /\ p.seq \in Numbers /\ p.ts \in Stamps
    /\ IsFiniteSet(net) /\ Cardinality(net) <= MaxFlight

\* Comfort noise is where the frames played have brought it, and not ahead
NoiseInv == noise.on => noise.last = (played - 1) * Poll /\ noise.last <= since

\* q is numbered as many after p as it was sent after p
Numbered(p, q) == q.seq = (p.seq + (q.n - p.n)) % (SeqTop + 1)

\* The next packet sent is one frame later
Follows(p, q) == q.n = p.n + 1 => q.ts = (p.ts + Tick) % (TsTop + 1)

Counting == seen.prev # NoPacket

\* Numbers and time stamps of the packets on the way, of the next one and of the last counted
NumbersInv ==
    /\ \A p \in net : p.n < far.n /\ Numbered(p, far)
    /\ \A p, q \in net : p.n <= q.n => Numbered(p, q)
    /\ Counting => /\ seen.prev.n < far.n /\ Numbered(seen.prev, far)
                   /\ \A p \in net : seen.prev.n <= p.n => Numbered(seen.prev, p)

StampsInv ==
    /\ \A p \in net : p.pt # CN => Follows(p, far) /\ \A q \in net : Follows(p, q)
    /\ Counting => /\ Follows(seen.prev, far)
                   /\ \A p \in net : Follows(seen.prev, p)

\* The statistics remember the last packet; SeqTop and 0 stand for none
LastInv ==
    /\ stats.last_seq = IF Counting THEN seen.prev.seq ELSE SeqTop
    /\ stats.last_ts = IF Counting THEN seen.prev.ts ELSE 0

\* A wrap is one sample short, and once more when the next frame is its full length
SteadyInv ==
    seen.steady =>
        /\ stats.last_interarrival \in {0, Tick - 1, Tick}
        /\ stats.jitter + One(0 < stats.last_interarrival
                                /\ stats.last_interarrival = Tick - 1) <= 2 * seen.wraps

StreamInv ==
    /\ Types /\ NoiseInv /\ NumbersInv /\ StampsInv
    /\ LastInv /\ LossIsCounted /\ SteadyInv

LEMMA InvImplies ==
    ASSUME StreamInv
    PROVE  StatsAreTrue /\ NoiseIsPaced
<1>1. StreamTypeOK
  BY StreamAssumption DEF StreamInv, Types, StreamTypeOK, Codecs, Numbers, Stamps, StreamAssumption
<1>2. JitterOfSteady
  <2>1. ASSUME seen.steady PROVE stats.jitter <= 2 * seen.wraps
    BY <2>1 DEF StreamInv, SteadyInv, Types, One
  <2>. QED  BY <2>1 DEF JitterOfSteady
<1>3. NoiseIsPaced
  BY StreamAssumption DEF StreamInv, Types, NoiseInv, NoiseIsPaced, StreamAssumption
<1>. QED  BY <1>1, <1>2, <1>3 DEF StatsAreTrue, StreamInv

LEMMA InitInv == ASSUME StreamInit PROVE StreamInv
<1>1. Types
  <2>1. IsFiniteSet(net) /\ Cardinality(net) <= MaxFlight
    BY FS_EmptySet, StreamAssumption DEF StreamInit, StreamAssumption
  <2>2. stats \in [in : Nat, missing : Nat, jitter : Nat, last_seq : Numbers,
                  last_ts : Stamps, last_interarrival : Stamps]
    BY StreamAssumption DEF StreamInit, ClearedStats, Numbers, Stamps, StreamAssumption
  <2>3. seen \in [prev : [n : 0 .. MaxPackets, seq : Numbers, ts : Stamps],
                 gaps : Nat, wraps : Nat, inorder : BOOLEAN, steady : BOOLEAN]
    BY StreamAssumption DEF StreamInit, NothingSeen, NoPacket, Numbers, Stamps, StreamAssumption
  <2>4. far \in [codec : Codecs, says : Begins \cup {0}, n : 1 .. MaxPackets + 1,
                seq : Numbers, ts : Stamps]
    BY StreamAssumption DEF StreamInit, Codecs, Numbers, Stamps, StreamAssumption
  <2>. QED  BY <2>1, <2>2, <2>3, <2>4, StreamAssumption
            DEF Types, StreamInit, Off, Codecs, StreamAssumption
<1>2. NoiseInv /\ NumbersInv /\ StampsInv /\ LastInv
  BY DEF StreamInit, Off, NoiseInv, NumbersInv, StampsInv, LastInv, Counting,
         NothingSeen, ClearedStats
<1>3. LossIsCounted /\ SteadyInv
  BY DEF StreamInit, LossIsCounted, SteadyInv, NothingSeen, ClearedStats, One
<1>. QED  BY <1>1, <1>2, <1>3 DEF StreamInv

----------------------------------------------------------------------------
(* A packet is sent, and arrives or not *)

LEMMA FarSends ==
    ASSUME NEW f \in [codec : Codecs, says : Begins \cup {0}, n : 1 .. MaxPackets + 1,
                       seq : Numbers, ts : Stamps],
           NEW n \in 1 .. MaxPackets + 1, NEW s \in Numbers, NEW t \in Stamps,
           NEW g, g = [f EXCEPT !.n = n, !.seq = s, !.ts = t]
    PROVE  /\ g \in [codec : Codecs, says : Begins \cup {0}, n : 1 .. MaxPackets + 1,
                      seq : Numbers, ts : Stamps]
           /\ g.n = n /\ g.seq = s /\ g.ts = t
OBVIOUS

LEMMA SendsInv ==
    ASSUME StreamInv,
           NEW p, p.n = far.n, p.seq = far.seq, p.ts = far.ts,
           NEW ticks \in Nat, p.pt # CN => ticks = 1, Sends(p, ticks)
    PROVE  StreamInv'
<1>. DEFINE s == (far.seq + 1) % (SeqTop + 1)
            t == (far.ts + ticks * Tick) % (TsTop + 1)
<1>. USE StreamAssumption DEF StreamAssumption
<1>1. Types /\ NumbersInv /\ StampsInv
  BY DEF StreamInv
<1>2. /\ far.n \in 1 .. MaxPackets /\ far.seq \in Numbers /\ far.ts \in Stamps
      /\ net' \subseteq net \cup {p} /\ Cardinality(net') <= MaxFlight
      /\ UNCHANGED rtp
  BY <1>1 DEF Sends, Types
<1>3. s \in Numbers /\ t \in Stamps
  <2>1. far.seq + 1 \in Int /\ far.ts + ticks * Tick \in Int
    BY <1>2 DEF Numbers, Stamps
  <2>2. SeqTop \in Nat \ {0} /\ TsTop \in Nat \ {0}
    OBVIOUS
  <2>. QED  BY <2>1, <2>2, Wrap DEF Numbers, Stamps
<1>4. far' = [far EXCEPT !.n = far.n + 1, !.seq = s, !.ts = t]
  BY DEF Sends
<1>5. /\ far' \in [codec : Codecs, says : Begins \cup {0}, n : 1 .. MaxPackets + 1,
                   seq : Numbers, ts : Stamps]
      /\ far'.n = far.n + 1 /\ far'.seq = s /\ far'.ts = t
  <2>. HIDE DEF s, t
  <2>1. far.n + 1 \in 1 .. MaxPackets + 1
    BY <1>2
  <2>. QED  BY <1>1, <1>3, <1>4, <2>1, FarSends DEF Types
<1>6. Types'
  <2>1. IsFiniteSet(net')
    <3>1. IsFiniteSet(net \cup {p})
      BY <1>1, FS_Singleton, FS_Union DEF Types
    <3>. QED  BY <1>2, <3>1, FS_Subset
  <2>. QED  BY <1>1, <1>2, <1>5, <2>1 DEF Types, rtp
<1>7. ASSUME NEW q, q.n \in Int, q.seq \in Numbers, q.n <= far.n,
             q.n < far.n => Numbered(q, far), q.n = far.n => q.seq = far.seq
      PROVE  Numbered(q, far') /\ Numbered(q, p)
  <2>. DEFINE d == far.n - q.n
  <2>0. d \in Nat /\ far'.n - q.n = d + 1 /\ p.n - q.n = d
    BY <1>2, <1>5, <1>7
  <2>1. far.seq = (q.seq + d) % (SeqTop + 1)
    <3>1. CASE q.n < far.n
      BY <1>7, <3>1 DEF Numbered
    <3>2. CASE q.n = far.n
      <4>1. d = 0 /\ q.seq = far.seq /\ far.seq \in 0 .. SeqTop
        BY <1>2, <1>7, <3>2 DEF Numbers
      <4>3. (far.seq + 0) % (SeqTop + 1) = far.seq
        BY <4>1, WrapNone
      <4>. QED  BY <4>1, <4>3
    <3>. QED  BY <1>2, <1>7, <3>1, <3>2
  <2>2. s = (q.seq + (d + 1)) % (SeqTop + 1)
    <3>1. q.seq \in 0 .. SeqTop
      BY <1>7 DEF Numbers
    <3>2. s = (((q.seq + d) % (SeqTop + 1)) + 1) % (SeqTop + 1)
      BY <2>1
    <3>. HIDE DEF s, d
    <3>. QED  BY <2>0, <3>1, <3>2, WrapNext
  <2>. HIDE DEF s, d
  <2>. QED  BY <1>5, <2>0, <2>1, <2>2 DEF Numbered
<1>8. NumbersInv'
  <2>1. \A q \in net : q.n < far.n /\ Numbered(q, far') /\ Numbered(q, p)
    BY <1>1, <1>2, <1>7 DEF NumbersInv, Types
  <2>2. Numbered(p, far') /\ Numbered(p, p)
    BY <1>2, <1>7
  <2>3. Counting => seen.prev.n < far.n /\ Numbered(seen.prev, far') /\ Numbered(seen.prev, p)
    BY <1>1, <1>2, <1>7 DEF NumbersInv, Types
  <2>4. UNCHANGED seen
    BY <1>2 DEF rtp
  <2>5. \A q \in net' : q.n < far'.n /\ Numbered(q, far')
    BY <1>2, <1>5, <2>1, <2>2, <1>1 DEF Types
  <2>6. ASSUME NEW q \in net', NEW u \in net', q.n <= u.n PROVE Numbered(q, u)
    BY <1>1, <1>2, <2>1, <2>2, <2>6 DEF NumbersInv, Types
  <2>7. ASSUME Counting
        PROVE  /\ seen.prev.n < far'.n /\ Numbered(seen.prev, far')
               /\ \A q \in net' : seen.prev.n <= q.n => Numbered(seen.prev, q)
    <3>1. seen.prev.n < far'.n
      BY <1>1, <1>2, <1>5, <2>3, <2>7 DEF Types
    <3>. QED  BY <1>1, <1>2, <2>3, <2>7, <3>1 DEF NumbersInv
  <2>. QED  BY <2>4, <2>5, <2>6, <2>7 DEF NumbersInv, Counting, Numbered
<1>9. StampsInv'
  <2>1. \A q \in net : q.n < far.n
    BY <1>1 DEF NumbersInv
  <2>2. ASSUME NEW q, q.n \in Int, q.n < far.n, Follows(q, far)
        PROVE  Follows(q, far') /\ Follows(q, p)
    BY <1>2, <1>5, <2>2 DEF Follows
  <2>3. ASSUME p.pt # CN PROVE Follows(p, far')
    <3>1. ticks * Tick = Tick
      BY <2>3
    <3>. QED  BY <1>5, <3>1 DEF Follows
  <2>4. \A q \in net \cup {p} : Follows(p, q)
    BY <1>1, <1>2, <2>1 DEF Follows, Types
  <2>5. UNCHANGED seen
    BY <1>2 DEF rtp
  <2>6. ASSUME NEW q \in net', q.pt # CN
        PROVE  Follows(q, far') /\ \A u \in net' : Follows(q, u)
    <3>1. CASE q \in net
      <4>1. Follows(q, far') /\ Follows(q, p)
        BY <1>1, <2>1, <2>2, <2>6, <3>1 DEF StampsInv, Types
      <4>. QED  BY <1>1, <1>2, <2>6, <3>1, <4>1 DEF StampsInv
    <3>2. CASE q = p
      BY <1>2, <2>3, <2>4, <2>6, <3>2
    <3>. QED  BY <1>2, <3>1, <3>2
  <2>7. ASSUME Counting
        PROVE  Follows(seen.prev, far') /\ \A q \in net' : Follows(seen.prev, q)
    <3>1. seen.prev.n \in Int /\ seen.prev.n < far.n
      BY <1>1, <2>7 DEF NumbersInv, Types
    <3>2. Follows(seen.prev, far)
      BY <1>1, <2>7 DEF StampsInv
    <3>3. Follows(seen.prev, far') /\ Follows(seen.prev, p)
      BY <2>2, <3>1, <3>2
    <3>. QED  BY <1>1, <1>2, <2>7, <3>3 DEF StampsInv
  <2>. QED  BY <2>5, <2>6, <2>7 DEF StampsInv, Counting, Follows
<1>. QED  BY <1>2, <1>6, <1>8, <1>9
          DEF StreamInv, rtp, NoiseInv, LastInv, Counting, LossIsCounted, SteadyInv, One

----------------------------------------------------------------------------
(* A packet is received *)

\* Packets that are delivered leave the rest as it was
LEMMA NetShrinks ==
    ASSUME StreamInv, NEW p \in net, net' \in {net, net \ {p}}
    PROVE  /\ net' \subseteq net /\ IsFiniteSet(net') /\ Cardinality(net') <= MaxFlight
<1>1. IsFiniteSet(net) /\ Cardinality(net) <= MaxFlight
  BY DEF StreamInv, Types
<1>2. IsFiniteSet(net \ {p}) /\ Cardinality(net \ {p}) <= Cardinality(net)
  BY <1>1, FS_Subset
<1>3. Cardinality(net \ {p}) \in Nat /\ Cardinality(net) \in Nat
  BY <1>1, <1>2, FS_CardinalityType
<1>4. Cardinality(net \ {p}) <= MaxFlight
  BY <1>1, <1>2, <1>3, StreamAssumption DEF StreamAssumption
<1>. QED  BY <1>1, <1>2, <1>4

\* A gap is seen but behind number SeqTop
LEMMA MissingIsGap ==
    ASSUME StreamInv, NEW p \in net,
           Counting => p.n > seen.prev.n
    PROVE  Missing(p.seq) = One(Counting /\ p.n # seen.prev.n + 1
                                  /\ seen.prev.seq # SeqTop)
<1>. USE StreamAssumption DEF StreamAssumption
<1>1. CASE ~Counting
  BY <1>1 DEF StreamInv, LastInv, Missing, One
<1>2. CASE Counting /\ seen.prev.seq = SeqTop
  BY <1>2 DEF StreamInv, LastInv, Missing, One
<1>3. CASE Counting /\ seen.prev.seq # SeqTop
  <2>. DEFINE a == seen.prev.seq   d == p.n - seen.prev.n
  <2>1. a \in 0 .. SeqTop /\ a + 1 <= SeqTop /\ d \in 0 .. SeqTop /\ d > 0
        /\ (d = 1 <=> p.n = seen.prev.n + 1)
    BY <1>3 DEF StreamInv, Types, Numbers
  <2>2. p.seq = (a + d) % (SeqTop + 1)
    <3>1. seen.prev.n <= p.n
      BY <1>3 DEF StreamInv, Types
    <3>. QED  BY <1>3, <3>1 DEF StreamInv, NumbersInv, Numbered
  <2>3. stats.last_seq = a
    BY <1>3 DEF StreamInv, LastInv
  <2>. HIDE DEF a, d
  <2>4. p.seq = IF a + d <= SeqTop THEN a + d ELSE a + d - (SeqTop + 1)
    BY <2>1, <2>2, WrapAhead
  <2>5. p.seq = a + 1 <=> d = 1
    BY <2>1, <2>4
  <2>6. Missing(p.seq) = One(d # 1)
    BY <1>3, <2>1, <2>3, <2>5 DEF Missing, One, a
  <2>. QED  BY <1>3, <2>1, <2>6 DEF One
<1>. QED  BY <1>1, <1>2, <1>3

\* The next frame comes one Tick later, one sample less when its time stamp wraps
LEMMA NextInterarrival ==
    ASSUME StreamInv, NEW p \in net,
           Counting, p.n = seen.prev.n + 1
    PROVE  /\ p.ts >= seen.prev.ts => Interarrival(p.ts) = Tick
           /\ p.ts < seen.prev.ts => Interarrival(p.ts) = Tick - 1
           /\ seen.prev.ts = 0 => p.ts >= seen.prev.ts
<1>. USE StreamAssumption DEF StreamAssumption
<1>. DEFINE a == seen.prev.ts
<1>1. a \in 0 .. TsTop /\ stats.last_ts = a /\ p.ts \in 0 .. TsTop
  BY DEF StreamInv, Types, Stamps, LastInv
<1>2. p.ts = (a + Tick) % (TsTop + 1)
  BY DEF StreamInv, StampsInv, Follows
<1>. HIDE DEF a
<1>3. p.ts = IF a + Tick <= TsTop THEN a + Tick ELSE a + Tick - (TsTop + 1)
  BY <1>1, <1>2, WrapAhead
<1>4. CASE a + Tick <= TsTop
  <2>1. p.ts > a /\ p.ts - a = Tick
    BY <1>1, <1>3, <1>4
  <2>2. Interarrival(p.ts) = Tick
    BY <1>1, <2>1 DEF Interarrival
  <2>3. p.ts >= a /\ ~(p.ts < a)
    BY <1>1, <2>1
  <2>. QED  BY <2>2, <2>3 DEF a
<1>5. CASE a + Tick > TsTop
  <2>1. p.ts < a /\ a # 0 /\ TsTop - a + p.ts = Tick - 1 /\ ~(p.ts > a)
    BY <1>1, <1>3, <1>5
  <2>2. ((Tick - 1) + 0) % (TsTop + 1) = Tick - 1
    <3>1. Tick - 1 \in 0 .. TsTop /\ TsTop \in Nat \ {0}
      OBVIOUS
    <3>. DEFINE b == Tick - 1
    <3>. HIDE DEF b
    <3>2. (b + 0) % (TsTop + 1) = b
      BY <3>1, WrapNone DEF b
    <3>. QED  BY <3>2 DEF b
  <2>3. Interarrival(p.ts) = Tick - 1
    BY <1>1, <2>1, <2>2 DEF Interarrival
  <2>4. ~(p.ts >= a)
    BY <1>1, <2>1
  <2>. QED  BY <2>1, <2>3, <2>4 DEF a
<1>. QED  BY <1>1, <1>4, <1>5

LEMMA InterarrivalType ==
    ASSUME StreamInv, NEW p \in net
    PROVE  Interarrival(p.ts) \in Stamps
<1>. USE StreamAssumption DEF StreamAssumption
<1>1. p.ts \in 0 .. TsTop /\ stats.last_ts \in 0 .. TsTop
  BY DEF StreamInv, Types, Stamps
<1>2. (TsTop - stats.last_ts + p.ts) % (TsTop + 1) \in 0 .. TsTop
  <2>1. TsTop - stats.last_ts + p.ts \in Int /\ TsTop \in Nat \ {0}
    BY <1>1
  <2>. QED  BY <2>1, Wrap
<1>. QED  BY <1>1, <1>2 DEF Interarrival, Stamps

\* An average over 16 never falls below zero
LEMMA Smoothing ==
    ASSUME NEW j \in Nat, NEW d \in Int
    PROVE  /\ j + Magnitude(d) - ((j + 8) \div 16) \in Nat
           /\ j + Magnitude(d) - ((j + 8) \div 16) <= j + Magnitude(d)
BY DEF Magnitude

LEMMA JitterType ==
    ASSUME StreamInv, NEW p \in net
    PROVE  Jitter(p.ts) \in Nat
<1>1. /\ stats.jitter \in Nat
      /\ Interarrival(p.ts) - stats.last_interarrival \in Int
  BY InterarrivalType, StreamAssumption DEF StreamInv, Types, Stamps, StreamAssumption
<1>. QED  BY <1>1, Smoothing DEF Jitter

LEMMA VoiceInv ==
    ASSUME StreamInv, NEW p \in net, Voice(p),
           net' \in {net, net \ {p}}, UNCHANGED <<far, streams>>
    PROVE  StreamInv'
<1>. USE StreamAssumption DEF StreamAssumption
<1>1. Types /\ NumbersInv /\ StampsInv /\ LastInv /\ LossIsCounted /\ SteadyInv
  BY DEF StreamInv
<1>2. p.n \in 1 .. MaxPackets /\ p.seq \in Numbers /\ p.ts \in Stamps
  BY <1>1 DEF Types
<1>3. stats' = Counted(p) /\ seen' = Observed(p) /\ far' = far
  BY DEF Voice
<1>4. /\ stats'.missing = stats.missing + Missing(p.seq)
      /\ stats'.jitter = Jitter(p.ts)
      /\ stats'.last_seq = p.seq /\ stats'.last_ts = p.ts
      /\ stats'.last_interarrival = IF stats.last_ts > 0 THEN Interarrival(p.ts)
                                    ELSE stats.last_interarrival
  BY <1>3 DEF Counted
<1>5. /\ seen'.prev = [n |-> p.n, seq |-> p.seq, ts |-> p.ts]
      /\ seen'.gaps = seen.gaps + One(Counting /\ p.n # seen.prev.n + 1
                                               /\ seen.prev.seq # SeqTop)
      /\ seen'.wraps = seen.wraps + One(Counting /\ p.ts < seen.prev.ts)
      /\ seen'.inorder = (seen.inorder /\ (Counting => p.n > seen.prev.n))
      /\ seen'.steady = (seen.steady /\ (Counting => p.n = seen.prev.n + 1))
  BY <1>3 DEF Observed, Counting
<1>6. Counting' /\ seen'.prev.n = p.n /\ seen'.prev.seq = p.seq /\ seen'.prev.ts = p.ts
  BY <1>2, <1>5 DEF Counting, NoPacket
<1>7. Types'
  <2>1. stats' \in [in : Nat, missing : Nat, jitter : Nat, last_seq : Numbers,
                    last_ts : Stamps, last_interarrival : Stamps]
    <3>1. Missing(p.seq) \in Nat
      BY DEF Missing
    <3>2. Jitter(p.ts) \in Nat /\ Interarrival(p.ts) \in Stamps
      BY JitterType, InterarrivalType
    <3>. QED  BY <1>1, <1>2, <1>3, <3>1, <3>2 DEF Counted, Types
  <2>2. seen' \in [prev : [n : 0 .. MaxPackets, seq : Numbers, ts : Stamps],
                   gaps : Nat, wraps : Nat, inorder : BOOLEAN, steady : BOOLEAN]
    BY <1>1, <1>2, <1>3 DEF Observed, Types, One
  <2>3. net' \subseteq net /\ IsFiniteSet(net') /\ Cardinality(net') <= MaxFlight
    BY NetShrinks
  <2>. QED  BY <1>1, <1>3, <2>1, <2>2, <2>3 DEF Types, Voice, Off
<1>8. NoiseInv'
  BY DEF Voice, Off, NoiseInv
<1>9. p.pt # CN
  BY <1>1 DEF Types, Codecs, Voice, CN, NoCodec, ULAW, ALAW
<1>10. net' \subseteq net
  OBVIOUS
<1>11. NumbersInv'
  <2>1. ASSUME NEW q \in net', seen'.prev.n <= q.n PROVE Numbered(seen'.prev, q)
    BY <1>1, <1>6, <1>10, <2>1 DEF NumbersInv, Numbered
  <2>2. seen'.prev.n < far.n /\ Numbered(seen'.prev, far)
    BY <1>1, <1>6 DEF NumbersInv, Numbered
  <2>. QED  BY <1>1, <1>3, <1>10, <2>1, <2>2 DEF NumbersInv, Numbered
<1>12. StampsInv'
  <2>1. Follows(seen'.prev, far) /\ \A q \in net' : Follows(seen'.prev, q)
    BY <1>1, <1>6, <1>9, <1>10 DEF StampsInv, Follows
  <2>. QED  BY <1>1, <1>3, <1>10, <2>1 DEF StampsInv, Follows
<1>13. LastInv'
  BY <1>4, <1>6 DEF LastInv
<1>14. LossIsCounted'
  <2>1. ASSUME seen'.inorder PROVE stats'.missing = seen'.gaps
    <3>1. seen.inorder /\ (Counting => p.n > seen.prev.n)
      BY <1>5, <2>1
    <3>2. stats.missing = seen.gaps
      BY <1>1, <3>1 DEF LossIsCounted
    <3>. QED  BY <1>4, <1>5, <3>1, <3>2, MissingIsGap
  <2>. QED  BY <2>1 DEF LossIsCounted
<1>15. SteadyInv'
  <2>. DEFINE li == stats.last_interarrival   j == stats.jitter   w == seen.wraps
              ia == Interarrival(p.ts)
  <2>1. SUFFICES ASSUME seen'.steady
                 PROVE  /\ stats'.last_interarrival \in {0, Tick - 1, Tick}
                        /\ stats'.jitter + One(0 < stats'.last_interarrival
                                /\ stats'.last_interarrival = Tick - 1) <= 2 * seen'.wraps
    BY DEF SteadyInv, One
  <2>2. seen.steady /\ (Counting => p.n = seen.prev.n + 1)
    BY <1>5, <2>1
  <2>3. li \in {0, Tick - 1, Tick} /\ j + One(0 < li /\ li = Tick - 1) <= 2 * w
    BY <1>1, <2>2 DEF SteadyInv
  <2>4. j \in Nat /\ w \in Nat /\ li \in Nat /\ ia \in Nat
    BY <1>1, InterarrivalType DEF Types, Stamps
  <2>5. CASE stats.last_ts = 0
    <3>1. stats'.last_interarrival = li /\ stats'.jitter = j
      BY <1>4, <2>5 DEF Jitter
    <3>2. seen'.wraps \in Nat /\ seen'.wraps >= w
      BY <1>5, <2>4 DEF One
    <3>. QED  BY <2>3, <2>4, <3>1, <3>2 DEF One
  <2>6. CASE stats.last_ts # 0
    <3>1. Counting /\ p.n = seen.prev.n + 1 /\ stats.last_ts > 0
      BY <1>1, <2>2, <2>6 DEF LastInv, Types, Stamps
    <3>2. stats'.last_interarrival = ia
      BY <1>4, <3>1
    <3>3. stats'.jitter \in Nat
      BY <1>7 DEF Types
    <3>4. stats'.jitter <= IF li > 0 THEN j + Magnitude(ia - li) ELSE j
      <4>1. CASE li > 0
        <5>1. stats'.jitter = j + Magnitude(ia - li) - ((j + 8) \div 16)
          BY <1>4, <3>1, <4>1 DEF Jitter
        <5>2. ia - li \in Int
          BY <2>4
        <5>. HIDE DEF ia, li, j
        <5>. QED  BY <2>4, <4>1, <5>1, <5>2, Smoothing
      <4>2. CASE ~(li > 0)
        BY <1>4, <2>4, <4>2 DEF Jitter
      <4>. QED  BY <4>1, <4>2
    <3>5. CASE p.ts >= seen.prev.ts
      <4>1. ia = Tick
        BY <3>1, <3>5, NextInterarrival
      <4>2. seen'.wraps = w
        <5>1. ~(p.ts < seen.prev.ts)
          BY <1>1, <1>2, <3>5 DEF Types, Stamps
        <5>. QED  BY <1>5, <2>4, <5>1 DEF One
      <4>. HIDE DEF ia, li, j, w
      <4>. QED  BY <2>3, <2>4, <3>2, <3>3, <3>4, <4>1, <4>2 DEF One, Magnitude
    <3>6. CASE p.ts < seen.prev.ts
      <4>1. ia = Tick - 1
        BY <3>1, <3>6, NextInterarrival
      <4>2. seen'.wraps = w + 1
        BY <1>5, <3>1, <3>6 DEF One
      <4>. HIDE DEF ia, li, j, w
      <4>. QED  BY <2>3, <2>4, <3>2, <3>3, <3>4, <4>1, <4>2 DEF One, Magnitude
    <3>. QED  BY <1>1, <1>2, <3>5, <3>6 DEF Types, Stamps
  <2>. QED  BY <2>5, <2>6
<1>. QED  BY <1>7, <1>8, <1>11, <1>12, <1>13, <1>14, <1>15 DEF StreamInv

\* Comfort noise and packets that are left alone
LEMMA SilentInv ==
    ASSUME StreamInv, NEW p \in net, Noise(p) \/ Other(p),
           net' \in {net, net \ {p}}, UNCHANGED <<far, streams>>
    PROVE  StreamInv'
<1>. USE StreamAssumption DEF StreamAssumption
<1>1. UNCHANGED <<codec, stats, seen, far>> /\ net' \subseteq net
  BY DEF Noise, Other, rtp
<1>2. noise' \in [on : BOOLEAN, last : Int] /\ since' \in 0 .. MaxNoise
      /\ played' \in Nat /\ NoiseInv'
  <2>1. CASE UNCHANGED <<noise, since, played>>
    BY <2>1 DEF StreamInv, Types, NoiseInv
  <2>2. CASE noise' = [on |-> TRUE, last |-> 0] /\ since' = 0 /\ played' = 1
    <3>1. noise'.last = 0 /\ (played' - 1) * Poll = 0 /\ 0 <= since'
      BY <2>2
    <3>2. noise' \in [on : BOOLEAN, last : Int] /\ since' \in 0 .. MaxNoise
      BY <2>2
    <3>. QED  BY <2>2, <3>1, <3>2 DEF NoiseInv
  <2>. QED  BY <2>1, <2>2 DEF Noise, Other, rtp
<1>3. Types'
  <2>1. IsFiniteSet(net') /\ Cardinality(net') <= MaxFlight
    BY NetShrinks
  <2>. QED  BY <1>1, <1>2, <2>1 DEF StreamInv, Types
<1>4. NumbersInv' /\ StampsInv'
  BY <1>1 DEF StreamInv, NumbersInv, StampsInv, Numbered, Follows, Counting
<1>5. LastInv' /\ LossIsCounted' /\ SteadyInv'
  BY <1>1 DEF StreamInv, LastInv, LossIsCounted, SteadyInv, Counting, One
<1>. QED  BY <1>2, <1>3, <1>4, <1>5 DEF StreamInv

LEMMA NoiseMoves ==
    ASSUME NEW f \in [on : BOOLEAN, last : Int], NEW t \in Int,
           NEW g, g = [f EXCEPT !.last = t]
    PROVE  g \in [on : BOOLEAN, last : Int] /\ g.on = f.on /\ g.last = t
OBVIOUS

LEMMA PollInv ==
    ASSUME StreamInv, PollIdle
    PROVE  StreamInv'
<1>. USE StreamAssumption DEF StreamAssumption
<1>1. Types /\ NoiseInv /\ noise.on
  BY DEF StreamInv, PollIdle
<1>2. PICK late \in {1, Poll} : /\ since + late <= MaxNoise
                                /\ since' = since + late
                                /\ PlayNoise(since + late)
  BY DEF PollIdle
<1>3. since' \in 0 .. MaxNoise /\ since' > since
  BY <1>1, <1>2 DEF Types
<1>4. noise' \in [on : BOOLEAN, last : Int] /\ played' \in Nat /\ NoiseInv'
  <2>1. CASE since' - noise.last > Poll
    <3>1. played' = played + 1 /\ noise' = [noise EXCEPT !.last = @ + Poll]
      BY <1>2, <2>1 DEF PlayNoise
    <3>2. /\ noise' \in [on : BOOLEAN, last : Int]
          /\ noise'.on = noise.on /\ noise'.last = noise.last + Poll
      <4>1. noise \in [on : BOOLEAN, last : Int] /\ noise.last + Poll \in Int
        BY <1>1 DEF Types
      <4>2. noise' = [noise EXCEPT !.last = noise.last + Poll]
        BY <3>1
      <4>. QED  BY <4>1, <4>2, NoiseMoves
    <3>3. noise.last = (played - 1) * Poll
      BY <1>1 DEF NoiseInv
    <3>4. (played' - 1) * Poll = (played - 1) * Poll + Poll
      BY <1>1, <3>1 DEF Types
    <3>. QED  BY <1>1, <1>3, <2>1, <3>1, <3>2, <3>3, <3>4 DEF NoiseInv, Types
  <2>2. CASE ~(since' - noise.last > Poll)
    <3>1. UNCHANGED <<noise, played>>
      BY <1>2, <2>2 DEF PlayNoise
    <3>. QED  BY <1>1, <1>3, <3>1 DEF NoiseInv, Types
  <2>. QED  BY <2>1, <2>2
<1>5. UNCHANGED <<codec, stats, heard, seen, far, net>>
  BY DEF PollIdle
<1>6. Types'
  BY <1>1, <1>3, <1>4, <1>5 DEF Types
<1>7. NumbersInv' /\ StampsInv'
  BY <1>5 DEF StreamInv, NumbersInv, StampsInv, Numbered, Follows, Counting
<1>8. LastInv' /\ LossIsCounted' /\ SteadyInv'
  BY <1>5 DEF StreamInv, LastInv, LossIsCounted, SteadyInv, Counting, One
<1>. QED  BY <1>4, <1>6, <1>7, <1>8 DEF StreamInv

----------------------------------------------------------------------------
(* The call *)

LEMMA ConnectInv ==
    ASSUME StreamInv, Connect
    PROVE  StreamInv'
<1>. USE StreamAssumption DEF StreamAssumption
<1>1. Types /\ NoiseInv
  BY DEF StreamInv
<1>2. /\ stats' = ClearedStats /\ seen' = NothingSeen /\ net' = {}
      /\ UNCHANGED <<noise, since, played>>
  BY DEF Connect, StartSession
<1>3. PICK c \in {ULAW, ALAW}, b \in Begins, q \in FirstSeqs, t \in FirstTs :
        codec' = c /\ far' = [codec |-> c, says |-> b, n |-> 1, seq |-> q, ts |-> t]
  BY DEF Connect
<1>4. Types'
  <2>1. IsFiniteSet(net') /\ Cardinality(net') <= MaxFlight
    BY <1>2, FS_EmptySet
  <2>2. stats' \in [in : Nat, missing : Nat, jitter : Nat, last_seq : Numbers,
                    last_ts : Stamps, last_interarrival : Stamps]
    BY <1>2 DEF ClearedStats, Numbers, Stamps
  <2>3. seen' \in [prev : [n : 0 .. MaxPackets, seq : Numbers, ts : Stamps],
                   gaps : Nat, wraps : Nat, inorder : BOOLEAN, steady : BOOLEAN]
    BY <1>2 DEF NothingSeen, NoPacket, Numbers, Stamps
  <2>4. far' \in [codec : Codecs, says : Begins \cup {0}, n : 1 .. MaxPackets + 1,
                  seq : Numbers, ts : Stamps]
    BY <1>3 DEF Codecs, Numbers, Stamps
  <2>. QED  BY <1>1, <1>2, <1>3, <2>1, <2>2, <2>3, <2>4 DEF Types, Codecs
<1>5. NumbersInv' /\ StampsInv' /\ LastInv'
  BY <1>2 DEF NumbersInv, StampsInv, LastInv, Counting, NothingSeen, ClearedStats
<1>6. LossIsCounted' /\ SteadyInv'
  BY <1>2 DEF LossIsCounted, SteadyInv, NothingSeen, ClearedStats, One
<1>7. NoiseInv'
  BY <1>1, <1>2 DEF NoiseInv
<1>. QED  BY <1>4, <1>5, <1>6, <1>7 DEF StreamInv

LEMMA HangUpInv ==
    ASSUME StreamInv, HangUp
    PROVE  StreamInv'
<1>1. Types /\ NoiseInv
  BY DEF StreamInv
<1>2. codec' = NoCodec /\ UNCHANGED <<noise, stats, since, played, seen, net>>
  BY DEF HangUp
<1>3. far' = [far EXCEPT !.codec = NoCodec]
  BY DEF HangUp
<1>4. /\ far' \in [codec : Codecs, says : Begins \cup {0}, n : 1 .. MaxPackets + 1,
                   seq : Numbers, ts : Stamps]
      /\ far'.n = far.n /\ far'.seq = far.seq /\ far'.ts = far.ts
  BY <1>1, <1>3 DEF Types, Codecs
<1>5. Types' /\ NoiseInv'
  BY <1>1, <1>2, <1>4 DEF Types, Codecs, NoiseInv
<1>6. NumbersInv' /\ StampsInv'
  BY <1>2, <1>4 DEF StreamInv, NumbersInv, StampsInv, Numbered, Follows, Counting
<1>7. LastInv' /\ LossIsCounted' /\ SteadyInv'
  BY <1>2 DEF StreamInv, LastInv, LossIsCounted, SteadyInv, Counting, One
<1>. QED  BY <1>5, <1>6, <1>7 DEF StreamInv

----------------------------------------------------------------------------
(* The theorems *)

LEMMA NextInv ==
    ASSUME StreamInv, [StreamNext]_streamVars
    PROVE  StreamInv'
<1>1. CASE \E p \in net : Receive(p)
  <2>1. PICK p \in net : Receive(p)
    BY <1>1
  <2>2. net' \in {net, net \ {p}} /\ UNCHANGED <<far, streams>>
    BY <2>1 DEF Receive
  <2>3. CASE Voice(p)
    BY <2>2, <2>3, VoiceInv
  <2>4. CASE Noise(p) \/ Other(p)
    BY <2>2, <2>4, SilentInv
  <2>. QED  BY <2>1, <2>3, <2>4 DEF Receive
<1>2. ASSUME NEW pt, NEW said, NEW ticks \in Nat, pt # CN => ticks = 1,
             Sends(Packet(pt, said), ticks)
      PROVE  StreamInv'
  <2>. DEFINE p == Packet(pt, said)
  <2>1. p.n = far.n /\ p.seq = far.seq /\ p.ts = far.ts /\ p.pt = pt
    BY DEF Packet
  <2>2. Sends(p, ticks)
    BY <1>2
  <2>. HIDE DEF p
  <2>. QED  BY <1>2, <2>1, <2>2, SendsInv
<1>3. CASE Speaks \/ FallsSilent \/ Dials
  BY <1>2, <1>3 DEF Speaks, FallsSilent, Dials
<1>4. CASE UNCHANGED streamVars
  <2>1. UNCHANGED <<codec, noise, stats, far, net, since, played, seen>>
    BY <1>4 DEF streamVars
  <2>2. Types' /\ NoiseInv'
    BY <2>1 DEF StreamInv, Types, NoiseInv
  <2>3. NumbersInv' /\ StampsInv'
    BY <2>1 DEF StreamInv, NumbersInv, StampsInv, Numbered, Follows, Counting
  <2>4. LastInv' /\ LossIsCounted' /\ SteadyInv'
    BY <2>1 DEF StreamInv, LastInv, LossIsCounted, SteadyInv, Counting, One
  <2>. QED  BY <2>2, <2>3, <2>4 DEF StreamInv
<1>. QED  BY <1>1, <1>3, <1>4, PollInv, ConnectInv, HangUpInv DEF StreamNext

LEMMA StreamInvHolds == StreamSpec => []StreamInv
<1>1. StreamInit => StreamInv
  BY InitInv
<1>2. StreamInv /\ [StreamNext]_streamVars => StreamInv'
  BY NextInv
<1>. QED  BY <1>1, <1>2, PTL DEF StreamSpec

\* rtp_recv(), rtp_stats.c: while packets are counted in order, `packets missing' is
\* the number of gaps, and a stream without gaps has no jitter but for the wraps of
\* its time stamps, whatever number and time stamp it starts with, whatever the call
\* before left, and whatever the network loses, delays and repeats.
THEOREM StatisticsOfTheStream == StreamSpec => []StatsAreTrue
<1>1. StreamInv => StatsAreTrue
  BY InvImplies
<1>. QED  BY <1>1, StreamInvHolds, PTL

\* rtp_check_cn(): comfort noise is played a frame when it begins and no more than one
\* for each 20 ms since, however late the polls come and whatever else arrives.
THEOREM ComfortNoiseIsPaced == StreamSpec => []NoiseIsPaced
<1>1. StreamInv => NoiseIsPaced
  BY InvImplies
<1>. QED  BY <1>1, StreamInvHolds, PTL

----------------------------------------------------------------------------
(* The companding laws: a sample that is encoded and decoded comes back as *)
(* the middle of a step (mu-law) or its lower end (A-law)                  *)

\* The bytes of both laws: sign, segment and step
LEMMA CodeParts ==
    ASSUME NEW sign \in {0, 128}, NEW e \in 0 .. 7, NEW m \in 0 .. 15
    PROVE  LET code == sign + 16 * e + m
           IN  /\ (code \div 16) % 8 = e /\ code % 16 = m
               /\ code >= 128 <=> sign = 128
OBVIOUS

LEMMA HighBitIs ==
    ASSUME NEW n \in 1 .. 255
    PROVE  /\ n \in 1 .. 1 => HighBit(n) = 0
           /\ n \in 2 .. 3 => HighBit(n) = 1
           /\ n \in 4 .. 7 => HighBit(n) = 2
           /\ n \in 8 .. 15 => HighBit(n) = 3
           /\ n \in 16 .. 31 => HighBit(n) = 4
           /\ n \in 32 .. 63 => HighBit(n) = 5
           /\ n \in 64 .. 127 => HighBit(n) = 6
           /\ n \in 128 .. 255 => HighBit(n) = 7
<1>. DEFINE InBand(e) == (n >= 2 ^ e \/ e = 0) /\ n < 2 ^ (e + 1)
<1>1. HighBit(n) = CHOOSE e \in 0 .. 7 : InBand(e)
  BY DEF HighBit
<1>2. /\ InBand(0) <=> n \in 1 .. 1
      /\ InBand(1) <=> n \in 2 .. 3
      /\ InBand(2) <=> n \in 4 .. 7
      /\ InBand(3) <=> n \in 8 .. 15
      /\ InBand(4) <=> n \in 16 .. 31
      /\ InBand(5) <=> n \in 32 .. 63
      /\ InBand(6) <=> n \in 64 .. 127
      /\ InBand(7) <=> n \in 128 .. 255
  OBVIOUS
<1>. HIDE DEF InBand
<1>3. ASSUME NEW e \in 0 .. 7, InBand(e), \A d \in 0 .. 7 : InBand(d) => d = e
      PROVE  HighBit(n) = e
  BY <1>1, <1>3
<1>4. \A d \in 0 .. 7 : d \in {0, 1, 2, 3, 4, 5, 6, 7}
  OBVIOUS
<1>. QED  BY <1>2, <1>3, <1>4

LEMMA SegmentIs ==
    ASSUME NEW n \in Nat
    PROVE  /\ n <= 255 => Segment(n) = 0
           /\ n >= 256 /\ n <= 511 => Segment(n) = 1
           /\ n >= 512 /\ n <= 1023 => Segment(n) = 2
           /\ n >= 1024 /\ n <= 2047 => Segment(n) = 3
           /\ n >= 2048 /\ n <= 4095 => Segment(n) = 4
           /\ n >= 4096 /\ n <= 8191 => Segment(n) = 5
           /\ n >= 8192 /\ n <= 16383 => Segment(n) = 6
           /\ n >= 16384 /\ n <= 32767 => Segment(n) = 7
<1>. DEFINE InBand(seg) == /\ seg = 8 \/ n <= SegmentEnd(seg)
                         /\ \A k \in 0 .. (seg - 1) : n > SegmentEnd(k)
<1>1. Segment(n) = CHOOSE seg \in 0 .. 8 : InBand(seg)
  BY DEF Segment
<1>2. /\ SegmentEnd(0) = 255 /\ SegmentEnd(1) = 511 /\ SegmentEnd(2) = 1023
      /\ SegmentEnd(3) = 2047 /\ SegmentEnd(4) = 4095 /\ SegmentEnd(5) = 8191
      /\ SegmentEnd(6) = 16383 /\ SegmentEnd(7) = 32767
  BY DEF SegmentEnd
<1>3. \A k \in 0 .. 7 : SegmentEnd(k) \in Int
  <2>1. \A k \in 0 .. 7 : k \in {0, 1, 2, 3, 4, 5, 6, 7}
    OBVIOUS
  <2>. QED  BY <1>2, <2>1
<1>4. ASSUME NEW e \in 0 .. 7, n <= SegmentEnd(e), \A k \in 0 .. (e - 1) : n > SegmentEnd(k)
      PROVE  Segment(n) = e
  <2>1. e \in 0 .. 8 /\ InBand(e)
    BY <1>4
  <2>2. ASSUME NEW d \in 0 .. 8, InBand(d), d # e
        PROVE  FALSE
    <3>1. CASE d < e
      <4>1. d \in 0 .. (e - 1) /\ d # 8
        BY <3>1
      <4>. QED  BY <1>3, <1>4, <2>2, <4>1
    <3>2. CASE e < d
      <4>1. e \in 0 .. (d - 1)
        BY <3>2
      <4>. QED  BY <1>3, <1>4, <2>2, <4>1
    <3>. QED  BY <2>2, <3>1, <3>2
  <2>. HIDE DEF InBand
  <2>. QED  BY <1>1, <2>1, <2>2
<1>5. ASSUME n <= 255 PROVE Segment(n) = 0
  <2>1. n <= SegmentEnd(0)
    BY <1>2, <1>5
  <2>2. 0 \in 0 .. 7 /\ \A k \in 0 .. (0 - 1) : n > SegmentEnd(k)
    OBVIOUS
  <2>. QED  BY <1>4, <2>1, <2>2
<1>6. ASSUME n >= 256, n <= 511 PROVE Segment(n) = 1
  <2>1. /\ n <= SegmentEnd(1)
        /\ n > SegmentEnd(0)
    BY <1>2, <1>6
  <2>2. 1 \in 0 .. 7 /\ 0 .. (1 - 1) = {0}
    OBVIOUS
  <2>. QED  BY <1>4, <2>1, <2>2
<1>7. ASSUME n >= 512, n <= 1023 PROVE Segment(n) = 2
  <2>1. /\ n <= SegmentEnd(2)
        /\ n > SegmentEnd(0) /\ n > SegmentEnd(1)
    BY <1>2, <1>7
  <2>2. 2 \in 0 .. 7 /\ 0 .. (2 - 1) = {0, 1}
    OBVIOUS
  <2>. QED  BY <1>4, <2>1, <2>2
<1>8. ASSUME n >= 1024, n <= 2047 PROVE Segment(n) = 3
  <2>1. /\ n <= SegmentEnd(3)
        /\ n > SegmentEnd(0) /\ n > SegmentEnd(1) /\ n > SegmentEnd(2)
    BY <1>2, <1>8
  <2>2. 3 \in 0 .. 7 /\ 0 .. (3 - 1) = {0, 1, 2}
    OBVIOUS
  <2>. QED  BY <1>4, <2>1, <2>2
<1>9. ASSUME n >= 2048, n <= 4095 PROVE Segment(n) = 4
  <2>1. /\ n <= SegmentEnd(4)
        /\ n > SegmentEnd(0) /\ n > SegmentEnd(1) /\ n > SegmentEnd(2) /\ n > SegmentEnd(3)
    BY <1>2, <1>9
  <2>2. 4 \in 0 .. 7 /\ 0 .. (4 - 1) = {0, 1, 2, 3}
    OBVIOUS
  <2>. QED  BY <1>4, <2>1, <2>2
<1>10. ASSUME n >= 4096, n <= 8191 PROVE Segment(n) = 5
  <2>1. /\ n <= SegmentEnd(5)
        /\ n > SegmentEnd(0) /\ n > SegmentEnd(1) /\ n > SegmentEnd(2) /\ n > SegmentEnd(3)
        /\ n > SegmentEnd(4)
    BY <1>2, <1>10
  <2>2. 5 \in 0 .. 7 /\ 0 .. (5 - 1) = {0, 1, 2, 3, 4}
    OBVIOUS
  <2>. QED  BY <1>4, <2>1, <2>2
<1>11. ASSUME n >= 8192, n <= 16383 PROVE Segment(n) = 6
  <2>1. /\ n <= SegmentEnd(6)
        /\ n > SegmentEnd(0) /\ n > SegmentEnd(1) /\ n > SegmentEnd(2) /\ n > SegmentEnd(3)
        /\ n > SegmentEnd(4) /\ n > SegmentEnd(5)
    BY <1>2, <1>11
  <2>2. 6 \in 0 .. 7 /\ 0 .. (6 - 1) = {0, 1, 2, 3, 4, 5}
    OBVIOUS
  <2>. QED  BY <1>4, <2>1, <2>2
<1>12. ASSUME n >= 16384, n <= 32767 PROVE Segment(n) = 7
  <2>1. /\ n <= SegmentEnd(7)
        /\ n > SegmentEnd(0) /\ n > SegmentEnd(1) /\ n > SegmentEnd(2) /\ n > SegmentEnd(3)
        /\ n > SegmentEnd(4) /\ n > SegmentEnd(5) /\ n > SegmentEnd(6)
    BY <1>2, <1>12
  <2>2. 7 \in 0 .. 7 /\ 0 .. (7 - 1) = {0, 1, 2, 3, 4, 5, 6}
    OBVIOUS
  <2>. QED  BY <1>4, <2>1, <2>2
<1>. QED  BY <1>5, <1>6, <1>7, <1>8, <1>9, <1>10, <1>11, <1>12

Word16 == {s \in Int : -32768 <= s /\ s <= 32767}

Clipped(s) == IF Magnitude(s) > CLIP THEN CLIP ELSE Magnitude(s)

UlawSign(s) == IF s < 0 THEN 128 ELSE 0

\* A sample in segment e, whose steps are 8 p wide
LEMMA UlawStep ==
    ASSUME NEW p \in Nat \ {0}, NEW b \in Nat, 128 * p <= b, b < 256 * p
    PROVE  \E k \in 0 .. 15, r \in Nat :
               /\ (b \div (8 * p)) % 16 = k
               /\ r < 8 * p /\ b = 128 * p + k * (8 * p) + r
<1>. DEFINE t == 8 * p   q == b \div t   r == b % t
<1>1. t \in Nat \ {0} /\ 16 * t <= b /\ b < 32 * t
  OBVIOUS
<1>. HIDE DEF t
<1>2. b = t * q + r /\ r \in 0 .. t - 1 /\ q \in Int
  BY <1>1, DivMod
<1>. HIDE DEF q, r
<1>3. ~(q < 16)
  <2>1. ASSUME q < 16 PROVE FALSE
    <3>1. 15 - q \in Nat /\ \A x \in Nat : t * x >= 0
      BY <1>1, <1>2, <2>1
    <3>2. t * (15 - q) >= 0
      BY <3>1
    <3>3. t * q <= 15 * t
      BY <1>1, <1>2, <3>2
    <3>. QED  BY <1>1, <1>2, <3>3
  <2>. QED  BY <2>1
<1>4. ~(q > 31)
  <2>1. ASSUME q > 31 PROVE FALSE
    <3>1. q - 32 \in Nat /\ \A x \in Nat : t * x >= 0
      BY <1>1, <1>2, <2>1
    <3>2. t * (q - 32) >= 0
      BY <3>1
    <3>3. t * q >= 32 * t
      BY <1>1, <1>2, <3>2
    <3>. QED  BY <1>1, <1>2, <3>3
  <2>. QED  BY <2>1
<1>5. q - 16 \in 0 .. 15 /\ q % 16 = q - 16
  BY <1>2, <1>3, <1>4
<1>6. b = 16 * t + (q - 16) * t + r
  BY <1>1, <1>2
<1>7. 16 * t = 128 * p
  BY DEF t
<1>8. r \in Nat /\ r < t
  BY <1>1, <1>2
<1>. DEFINE k == q - 16
<1>9. k \in 0 .. 15 /\ (b \div t) % 16 = k /\ b = 128 * p + k * t + r
  BY <1>5, <1>6, <1>7 DEF q
<1>. HIDE DEF k
<1>. QED  BY <1>8, <1>9 DEF t

\* The powers of two of segment e
UlawPower(e, p) ==
    /\ p >= 1 /\ p <= 128 /\ 2 ^ e = p /\ 2 ^ (e + 3) = 8 * p
    /\ e = 7 => p = 128

AlawPower(e, p) ==
    /\ p >= 1 /\ p <= 64 /\ 2 ^ (e - 1) = p /\ 2 ^ (e + 3) = 8 * (2 * p)

LEMMA ClippedIs ==
    ASSUME NEW s \in Word16
    PROVE  /\ Magnitude(s) \in Nat /\ Magnitude(s) <= 32768
           /\ s = IF s < 0 THEN -Magnitude(s) ELSE Magnitude(s)
           /\ Clipped(s) \in Nat /\ Clipped(s) <= 32635
           /\ Clipped(s) = IF Magnitude(s) > 32635 THEN 32635 ELSE Magnitude(s)
<1>1. s \in Int /\ -32768 <= s /\ s <= 32767
  BY DEF Word16
<1>2. /\ Magnitude(s) \in Nat /\ Magnitude(s) <= 32768
      /\ s = IF s < 0 THEN -Magnitude(s) ELSE Magnitude(s)
  BY <1>1 DEF Magnitude
<1>3. Clipped(s) = IF Magnitude(s) > 32635 THEN 32635 ELSE Magnitude(s)
  BY DEF Clipped, CLIP
<1>. QED  BY <1>2, <1>3

LEMMA UlawSegment ==
    ASSUME NEW s \in Word16, NEW e \in 0 .. 7, NEW p \in Nat, UlawPower(e, p),
           HighBit((Clipped(s) + BIAS) \div 128) = e,
           128 * p <= Clipped(s) + BIAS, Clipped(s) + BIAS < 256 * p
    PROVE  Magnitude(Ulaw2Linear(Linear2Ulaw(s)) - s) <= 4 + Magnitude(s) \div 12
<1>. DEFINE b == Clipped(s) + BIAS   n == Magnitude(s)
<1>. USE DEF UlawPower
<1>1. /\ b \in Nat /\ n \in Nat /\ n <= 32768 /\ s = IF s < 0 THEN -n ELSE n
      /\ b = (IF n > 32635 THEN 32635 ELSE n) + 132
  <2>. HIDE DEF n
  <2>1. b = Clipped(s) + 132
    BY DEF BIAS
  <2>. QED  BY <2>1, ClippedIs DEF n
<1>2. PICK k \in 0 .. 15, r \in Nat :
        (b \div (8 * p)) % 16 = k /\ r < 8 * p /\ b = 128 * p + k * (8 * p) + r
  <2>1. b \in Nat /\ 128 * p <= b /\ b < 256 * p /\ p \in Nat \ {0}
    BY <1>1
  <2>. HIDE DEF b
  <2>. QED  BY <2>1, UlawStep
<1>. DEFINE code == UlawSign(s) + 16 * e + k
<1>3. Linear2Ulaw(s) = IF code = 255 THEN 253 ELSE code
  <2>1. (b \div 2 ^ (e + 3)) % 16 = k
    BY <1>2, Zenon
  <2>. DEFINE h == HighBit(b \div 128)   c == UlawSign(s) + 16 * h + ((b \div 2 ^ (h + 3)) % 16)
  <2>2. Linear2Ulaw(s) = IF c = 255 THEN 253 ELSE c
    BY DEF Linear2Ulaw, Clipped, UlawSign
  <2>3. h = e
    OBVIOUS
  <2>. HIDE DEF h, b
  <2>4. c = code
    BY <2>1, <2>3, Zenon
  <2>. HIDE DEF c, code
  <2>. QED  BY <2>2, <2>4
<1>4. ASSUME NEW m \in 0 .. 15
      PROVE  Ulaw2Linear(UlawSign(s) + 16 * e + m)
               = IF s < 0 THEN -(132 * (p - 1) + m * (8 * p)) ELSE 132 * (p - 1) + m * (8 * p)
  <2>. DEFINE c == UlawSign(s) + 16 * e + m
  <2>1. (c \div 16) % 8 = e /\ c % 16 = m /\ (c >= 128 <=> s < 0)
    <3>1. UlawSign(s) \in {0, 128} /\ (UlawSign(s) = 128 <=> s < 0)
      BY DEF UlawSign
    <3>. QED  BY <3>1, CodeParts
  <2>. HIDE DEF c
  <2>2. Ulaw2Linear(c) = IF s < 0 THEN -(132 * (p - 1) + m * (8 * p))
                                  ELSE 132 * (p - 1) + m * (8 * p)
    BY <2>1, Zenon DEF Ulaw2Linear, BIAS
  <2>. QED  BY <2>2 DEF c
<1>5. CASE code # 255
  <2>. DEFINE v == 132 * (p - 1) + k * (8 * p)   d == k * (8 * p)
  <2>1. Ulaw2Linear(Linear2Ulaw(s)) = IF s < 0 THEN -v ELSE v
    BY <1>2, <1>3, <1>4, <1>5
  <2>2. d \in Int /\ v = 132 * p - 132 + d /\ b = 128 * p + d + r
    BY <1>2
  <2>. HIDE DEF v, b, n, d
  <2>3. Magnitude(Ulaw2Linear(Linear2Ulaw(s)) - s) = Magnitude(v - n)
    BY <1>1, <2>1, <2>2 DEF Magnitude
  <2>4. Magnitude(v - n) <= 4 + n \div 12
    BY <1>1, <1>2, <2>2 DEF Magnitude
  <2>. QED  BY <2>3, <2>4 DEF n
<1>6. CASE code = 255
  <2>1. s < 0 /\ e = 7 /\ k = 15
    BY <1>2, <1>6 DEF UlawSign
  <2>2. p = 128
    BY <2>1
  <2>3. Linear2Ulaw(s) = UlawSign(s) + 16 * e + 13
    BY <1>3, <1>6, <2>1 DEF UlawSign
  <2>4. Ulaw2Linear(Linear2Ulaw(s)) = -(132 * (p - 1) + 13 * (8 * p))
    BY <1>4, <2>1, <2>3
  <2>5. Ulaw2Linear(Linear2Ulaw(s)) = -30076
    BY <2>2, <2>4
  <2>6. b >= 31744
    BY <1>2, <2>1, <2>2
  <2>. HIDE DEF b, n
  <2>7. n >= 31612 /\ s = -n
    BY <1>1, <2>1, <2>6
  <2>8. Magnitude(-30076 - s) <= 4 + n \div 12
    BY <1>1, <2>7 DEF Magnitude
  <2>. QED  BY <2>5, <2>8 DEF n
<1>. QED  BY <1>5, <1>6

LEMMA UlawRoundTrip ==
    ASSUME NEW s \in Word16
    PROVE  Magnitude(Ulaw2Linear(Linear2Ulaw(s)) - s) <= 4 + Magnitude(s) \div 12
<1>. DEFINE b == Clipped(s) + BIAS   n == b \div 128
            Goal == Magnitude(Ulaw2Linear(Linear2Ulaw(s)) - s) <= 4 + Magnitude(s) \div 12
<1>1. b \in Nat /\ 132 <= b /\ b <= 32767
  BY ClippedIs DEF BIAS
<1>2. n \in 1 .. 255 /\ 128 * n <= b /\ b < 128 * n + 128
  <2>. HIDE DEF b
  <2>. QED  BY <1>1
<1>3. ASSUME NEW e \in 0 .. 7, NEW p \in Nat, UlawPower(e, p),
             HighBit(n) = e, p <= n, n < 2 * p
      PROVE  Goal
  <2>1. 128 * p <= b /\ b < 256 * p
    <3>. HIDE DEF n, b
    <3>. QED  BY <1>1, <1>2, <1>3
  <2>. QED  BY <1>3, <2>1, UlawSegment
<1>. HIDE DEF n, Goal
<1>. SUFFICES Goal
  BY DEF Goal
<1>4. CASE n \in 1 .. 1
  <2>1. 0 \in 0 .. 7 /\ 1 \in Nat /\ UlawPower(0, 1)
    BY DEF UlawPower
  <2>2. HighBit(n) = 0 /\ 1 <= n /\ n < 2 * 1
    BY <1>2, <1>4, HighBitIs
  <2>. QED  BY <1>3, <2>1, <2>2, Zenon
<1>5. CASE n \in 2 .. 3
  <2>1. 1 \in 0 .. 7 /\ 2 \in Nat /\ UlawPower(1, 2)
    BY DEF UlawPower
  <2>2. HighBit(n) = 1 /\ 2 <= n /\ n < 2 * 2
    BY <1>2, <1>5, HighBitIs
  <2>. QED  BY <1>3, <2>1, <2>2, Zenon
<1>6. CASE n \in 4 .. 7
  <2>1. 2 \in 0 .. 7 /\ 4 \in Nat /\ UlawPower(2, 4)
    BY DEF UlawPower
  <2>2. HighBit(n) = 2 /\ 4 <= n /\ n < 2 * 4
    BY <1>2, <1>6, HighBitIs
  <2>. QED  BY <1>3, <2>1, <2>2, Zenon
<1>7. CASE n \in 8 .. 15
  <2>1. 3 \in 0 .. 7 /\ 8 \in Nat /\ UlawPower(3, 8)
    BY DEF UlawPower
  <2>2. HighBit(n) = 3 /\ 8 <= n /\ n < 2 * 8
    BY <1>2, <1>7, HighBitIs
  <2>. QED  BY <1>3, <2>1, <2>2, Zenon
<1>8. CASE n \in 16 .. 31
  <2>1. 4 \in 0 .. 7 /\ 16 \in Nat /\ UlawPower(4, 16)
    BY DEF UlawPower
  <2>2. HighBit(n) = 4 /\ 16 <= n /\ n < 2 * 16
    BY <1>2, <1>8, HighBitIs
  <2>. QED  BY <1>3, <2>1, <2>2, Zenon
<1>9. CASE n \in 32 .. 63
  <2>1. 5 \in 0 .. 7 /\ 32 \in Nat /\ UlawPower(5, 32)
    BY DEF UlawPower
  <2>2. HighBit(n) = 5 /\ 32 <= n /\ n < 2 * 32
    BY <1>2, <1>9, HighBitIs
  <2>. QED  BY <1>3, <2>1, <2>2, Zenon
<1>10. CASE n \in 64 .. 127
  <2>1. 6 \in 0 .. 7 /\ 64 \in Nat /\ UlawPower(6, 64)
    BY DEF UlawPower
  <2>2. HighBit(n) = 6 /\ 64 <= n /\ n < 2 * 64
    BY <1>2, <1>10, HighBitIs
  <2>. QED  BY <1>3, <2>1, <2>2, Zenon
<1>11. CASE n \in 128 .. 255
  <2>1. 7 \in 0 .. 7 /\ 128 \in Nat /\ UlawPower(7, 128)
    BY DEF UlawPower
  <2>2. HighBit(n) = 7 /\ 128 <= n /\ n < 2 * 128
    BY <1>2, <1>11, HighBitIs
  <2>. QED  BY <1>3, <2>1, <2>2, Zenon
<1>. QED  BY <1>2, <1>4, <1>5, <1>6, <1>7, <1>8, <1>9, <1>10, <1>11

\* A magnitude in segment 1 to 7, whose steps are 16 p wide
LEMMA AlawSegment ==
    ASSUME NEW s \in Word16, NEW e \in 1 .. 7, NEW p \in Nat, AlawPower(e, p),
           Segment(Magnitude(s)) = e,
           256 * p <= Magnitude(s), Magnitude(s) < 512 * p
    PROVE  Magnitude(Alaw2Linear(Linear2Alaw(s)) - s) <= 15 + Magnitude(s) \div 17
<1>. DEFINE n == Magnitude(s)   w == 2 * p   sign == IF s >= 0 THEN 128 ELSE 0
<1>. USE DEF AlawPower
<1>1. n \in Nat /\ s = IF s < 0 THEN -n ELSE n
  BY ClippedIs
<1>2. PICK k \in 0 .. 15, r \in Nat :
        (n \div (8 * w)) % 16 = k /\ r < 8 * w /\ n = 128 * w + k * (8 * w) + r
  <2>1. n \in Nat /\ w \in Nat \ {0} /\ 128 * w <= n /\ n < 256 * w
    BY <1>1
  <2>. HIDE DEF n, w
  <2>. QED  BY <2>1, UlawStep
<1>3. Linear2Alaw(s) = sign + 16 * e + k
  <2>. DEFINE h == Segment(n)
              shift == IF h = 0 THEN 4 ELSE h + 3
              c == sign + 16 * h + ((n \div 2 ^ shift) % 16)
  <2>1. Linear2Alaw(s) = c
    BY DEF Linear2Alaw
  <2>2. h = e /\ shift = e + 3
    OBVIOUS
  <2>3. (n \div 2 ^ (e + 3)) % 16 = k
    BY <1>2, Zenon
  <2>. HIDE DEF h, n, shift
  <2>4. c = sign + 16 * e + k
    BY <2>2, <2>3, Zenon
  <2>. QED  BY <2>1, <2>4
<1>. DEFINE v == (k * 16 + 256) * p   c == sign + 16 * e + k
<1>4. Alaw2Linear(c) = IF s >= 0 THEN v ELSE -v
  <2>1. (c \div 16) % 8 = e /\ c % 16 = k /\ (c >= 128 <=> s >= 0)
    <3>1. sign \in {0, 128} /\ (sign = 128 <=> s >= 0) /\ e \in 0 .. 7
      OBVIOUS
    <3>. HIDE DEF sign
    <3>. QED  BY <1>2, <3>1, CodeParts
  <2>2. e # 0
    OBVIOUS
  <2>. HIDE DEF c, sign
  <2>3. Alaw2Linear(c) = IF s >= 0 THEN (k * 16 + 256) * 2 ^ (e - 1)
                                   ELSE -((k * 16 + 256) * 2 ^ (e - 1))
    BY <2>1, <2>2, Zenon DEF Alaw2Linear
  <2>. QED  BY <2>3, Zenon
<1>5. v \in Int /\ n = v + r
  BY <1>1, <1>2
<1>6. Magnitude(v - n) <= 15 + n \div 17
  <2>1. r < 16 * p /\ 256 * p <= n
    BY <1>2
  <2>. HIDE DEF n, v, c
  <2>. QED  BY <1>1, <1>2, <1>5, <2>1 DEF Magnitude
<1>. HIDE DEF n, v, c
<1>7. Magnitude(Alaw2Linear(Linear2Alaw(s)) - s) = Magnitude(v - n)
  <2>1. Linear2Alaw(s) = c
    BY <1>3 DEF c
  <2>. QED  BY <1>1, <1>4, <1>5, <2>1 DEF Magnitude
<1>. QED  BY <1>6, <1>7 DEF n
LEMMA AlawLowest ==
    ASSUME NEW s \in Word16, Magnitude(s) <= 255
    PROVE  Magnitude(Alaw2Linear(Linear2Alaw(s)) - s) <= 15 + Magnitude(s) \div 17
<1>. DEFINE n == Magnitude(s)   sign == IF s >= 0 THEN 128 ELSE 0   k == n \div 16
            c == sign + 16 * 0 + k
<1>1. n \in Nat /\ n <= 255 /\ s = IF s < 0 THEN -n ELSE n
  BY ClippedIs
<1>2. k \in 0 .. 15 /\ k % 16 = k /\ n - 16 * k \in 0 .. 15
  <2>. HIDE DEF n
  <2>. QED  BY <1>1
<1>3. Linear2Alaw(s) = c
  <2>1. Segment(n) = 0 /\ 2 ^ 4 = 16
    BY <1>1, SegmentIs
  <2>2. Linear2Alaw(s) = sign + 16 * 0 + ((n \div 2 ^ 4) % 16)
    BY <2>1 DEF Linear2Alaw
  <2>. QED  BY <1>2, <2>1, <2>2
<1>4. (c \div 16) % 8 = 0 /\ c % 16 = k /\ (c >= 128 <=> s >= 0)
  <2>1. sign \in {0, 128} /\ (sign = 128 <=> s >= 0)
    OBVIOUS
  <2>. HIDE DEF sign, k
  <2>. QED  BY <1>2, <2>1, CodeParts
<1>. HIDE DEF c, k, n
<1>5. Alaw2Linear(c) = IF s >= 0 THEN k * 16 ELSE -(k * 16)
  BY <1>4 DEF Alaw2Linear
<1>6. Magnitude(Alaw2Linear(c) - s) <= 15
  BY <1>1, <1>2, <1>5 DEF Magnitude
<1>7. n \div 17 >= 0
  BY <1>1
<1>8. \A d \in Int : Magnitude(d) \in Int
  BY DEF Magnitude
<1>9. Alaw2Linear(c) - s \in Int
  BY <1>1, <1>2, <1>5
<1>. QED  BY <1>1, <1>3, <1>6, <1>7, <1>8, <1>9 DEF n

LEMMA AlawRoundTrip ==
    ASSUME NEW s \in Word16, Magnitude(s) <= 32767
    PROVE  Magnitude(Alaw2Linear(Linear2Alaw(s)) - s) <= 15 + Magnitude(s) \div 17
<1>. DEFINE n == Magnitude(s)
            Goal == Magnitude(Alaw2Linear(Linear2Alaw(s)) - s) <= 15 + Magnitude(s) \div 17
<1>1. n \in Nat /\ n <= 32767
  BY ClippedIs
<1>2. ASSUME n <= 255 PROVE Goal
  BY <1>2, AlawLowest
<1>3. ASSUME NEW e \in 1 .. 7, NEW p \in Nat, AlawPower(e, p),
             Segment(n) = e, 256 * p <= n, n < 512 * p
      PROVE  Goal
  <2>. HIDE DEF Goal, n
  <2>. SUFFICES Magnitude(Alaw2Linear(Linear2Alaw(s)) - s) <= 15 + Magnitude(s) \div 17
    BY DEF Goal
  <2>1. Segment(Magnitude(s)) = e /\ 256 * p <= Magnitude(s) /\ Magnitude(s) < 512 * p
    BY <1>3 DEF n
  <2>. QED  BY <1>3, <2>1, AlawSegment
<1>. HIDE DEF n, Goal
<1>. SUFFICES Goal
  BY DEF Goal
<1>4. CASE n >= 256 /\ n <= 511
  <2>1. 1 \in 1 .. 7 /\ 1 \in Nat /\ AlawPower(1, 1)
    BY DEF AlawPower
  <2>2. Segment(n) = 1 /\ 256 * 1 <= n /\ n < 512 * 1
    BY <1>1, <1>4, SegmentIs
  <2>. QED  BY <1>3, <2>1, <2>2
<1>5. CASE n >= 512 /\ n <= 1023
  <2>1. 2 \in 1 .. 7 /\ 2 \in Nat /\ AlawPower(2, 2)
    BY DEF AlawPower
  <2>2. Segment(n) = 2 /\ 256 * 2 <= n /\ n < 512 * 2
    BY <1>1, <1>5, SegmentIs
  <2>. QED  BY <1>3, <2>1, <2>2
<1>6. CASE n >= 1024 /\ n <= 2047
  <2>1. 3 \in 1 .. 7 /\ 4 \in Nat /\ AlawPower(3, 4)
    BY DEF AlawPower
  <2>2. Segment(n) = 3 /\ 256 * 4 <= n /\ n < 512 * 4
    BY <1>1, <1>6, SegmentIs
  <2>. QED  BY <1>3, <2>1, <2>2
<1>7. CASE n >= 2048 /\ n <= 4095
  <2>1. 4 \in 1 .. 7 /\ 8 \in Nat /\ AlawPower(4, 8)
    BY DEF AlawPower
  <2>2. Segment(n) = 4 /\ 256 * 8 <= n /\ n < 512 * 8
    BY <1>1, <1>7, SegmentIs
  <2>. QED  BY <1>3, <2>1, <2>2
<1>8. CASE n >= 4096 /\ n <= 8191
  <2>1. 5 \in 1 .. 7 /\ 16 \in Nat /\ AlawPower(5, 16)
    BY DEF AlawPower
  <2>2. Segment(n) = 5 /\ 256 * 16 <= n /\ n < 512 * 16
    BY <1>1, <1>8, SegmentIs
  <2>. QED  BY <1>3, <2>1, <2>2
<1>9. CASE n >= 8192 /\ n <= 16383
  <2>1. 6 \in 1 .. 7 /\ 32 \in Nat /\ AlawPower(6, 32)
    BY DEF AlawPower
  <2>2. Segment(n) = 6 /\ 256 * 32 <= n /\ n < 512 * 32
    BY <1>1, <1>9, SegmentIs
  <2>. QED  BY <1>3, <2>1, <2>2
<1>10. CASE n >= 16384 /\ n <= 32767
  <2>1. 7 \in 1 .. 7 /\ 64 \in Nat /\ AlawPower(7, 64)
    BY DEF AlawPower
  <2>2. Segment(n) = 7 /\ 256 * 64 <= n /\ n < 512 * 64
    BY <1>1, <1>10, SegmentIs
  <2>. QED  BY <1>3, <2>1, <2>2
<1>. QED  BY <1>1, <1>2, <1>4, <1>5, <1>6, <1>7, <1>8, <1>9, <1>10

----------------------------------------------------------------------------
(* What is played *)

\* A frame of one sample has length one
LEMMA OneLong ==
    ASSUME NEW f, f = [i \in 1 .. 1 |-> f[i]]
    PROVE  Len(f) = 1
<1>1. f \in Seq({f[1]})
  <2>1. 1 \in Nat /\ f \in [1 .. 1 -> {f[1]}]
    <3>1. \A i \in 1 .. 1 : i = 1
      OBVIOUS
    <3>2. \A i \in 1 .. 1 : f[i] \in {f[1]}
      BY <3>1
    <3>. DEFINE x == f[1]
    <3>3. f \in [1 .. 1 -> {x}]
      <4>. HIDE DEF x
      <4>. QED  BY <3>2 DEF x
    <3>. QED BY <3>3
  <2>. QED  BY <2>1, SeqDef
<1>2. Len(f) \in Nat /\ DOMAIN f = 1 .. Len(f)
  BY <1>1, LenProperties
<1>3. 1 .. 1 = 1 .. Len(f)
  BY <1>2
<1>. QED  BY <1>2, <1>3

LEMMA FrameComesBack ==
    ASSUME NEW s
    PROVE  /\ Decode(ULAW, Encode(ULAW, <<s>>, 1), 1)[1] = Ulaw2Linear(Linear2Ulaw(s))
           /\ Decode(ALAW, Encode(ALAW, <<s>>, 1), 1)[1] = Alaw2Linear(Linear2Alaw(s))
<1>. DEFINE f == UlawEncode(<<s>>, 1)   g == AlawEncode(<<s>>, 1)
<1>1. Len(<<s>>) = 1 /\ Fitting(<<s>>, 1) = 1 .. 1
  BY DEF Fitting
<1>2. /\ f = [i \in 1 .. 1 |-> f[i]] /\ f[1] = Linear2Ulaw(s)
      /\ g = [i \in 1 .. 1 |-> g[i]] /\ g[1] = Linear2Alaw(s)
  BY <1>1 DEF UlawEncode, AlawEncode
<1>. HIDE DEF f, g
<1>3. Len(f) = 1 /\ Len(g) = 1
  BY <1>2, OneLong
<1>4. Fitting(f, 1) = 1 .. 1 /\ Fitting(g, 1) = 1 .. 1
  BY <1>3 DEF Fitting
<1>5. UlawDecode(f, 1)[1] = Ulaw2Linear(f[1]) /\ AlawDecode(g, 1)[1] = Alaw2Linear(g[1])
  BY <1>4 DEF UlawDecode, AlawDecode
<1>. QED  BY <1>2, <1>5 DEF f, g, Encode, Decode, ULAW, ALAW

\* Voice on the way carries what was said, in its law
PayloadInv ==
    /\ \A p \in net :
         /\ p.pt # NoCodec
         /\ p.pt \in {ULAW, ALAW} =>
              p.said \in Word16 /\ p.payload = Encode(p.pt, <<p.said>>, 1)
    /\ far.codec # NoCodec => far.says \in Begins

SoundInv == PayloadInv /\ SoundComesThrough

LEMMA SoundNext ==
    ASSUME StreamInv, SoundInv, [StreamNext]_streamVars
    PROVE  SoundInv'
<1>1. Types
  BY DEF StreamInv
<1>2. ASSUME NEW pt, NEW said, NEW ticks, Sends(Packet(pt, said), ticks),
             pt # NoCodec, pt \in {ULAW, ALAW} => pt = far.codec /\ said \in Word16
      PROVE  SoundInv'
  <2>1. /\ net' \subseteq net \cup {Packet(pt, said)} /\ UNCHANGED heard
        /\ far'.codec = far.codec /\ far'.says = far.says
    BY <1>1, <1>2 DEF Sends, rtp, Types
  <2>. DEFINE p == Packet(pt, said)
  <2>2. p.pt = pt /\ p.said = said /\ p.payload = Encode(far.codec, <<said>>, 1)
    BY DEF Packet
  <2>. HIDE DEF p
  <2>3. /\ p.pt # NoCodec
        /\ p.pt \in {ULAW, ALAW} =>
             p.said \in Word16 /\ p.payload = Encode(p.pt, <<p.said>>, 1)
    BY <1>2, <2>2
  <2>4. PayloadInv'
    BY <2>1, <2>3 DEF SoundInv, PayloadInv, p
  <2>. QED  BY <2>1, <2>4 DEF SoundInv, SoundComesThrough
<1>3. CASE Speaks
  <2>1. far.codec # NoCodec /\ far.n \in 1 .. MaxPackets
    BY <1>1, <1>3 DEF Speaks, Sends, Types
  <2>2. Speech[far.says + far.n] \in Word16
    BY <2>1, SpeechAssumption DEF SoundInv, PayloadInv, SpeechAssumption, Word16
  <2>. QED  BY <1>2, <1>3, <2>1, <2>2 DEF Speaks
<1>4. CASE FallsSilent \/ Dials
  BY <1>2, <1>4 DEF FallsSilent, Dials, CN, DTMF, ULAW, ALAW, NoCodec
<1>5. CASE \E p \in net : Receive(p)
  <2>1. PICK p \in net : Receive(p)
    BY <1>5
  <2>2. net' \subseteq net /\ UNCHANGED far
    BY <2>1 DEF Receive
  <2>3. PayloadInv'
    BY <2>2 DEF SoundInv, PayloadInv
  <2>4. CASE Voice(p)
    <3>1. /\ codec \in {ULAW, ALAW} /\ p.pt = codec
          /\ heard' = [codec |-> codec, said |-> p.said,
                       played |-> Decode(codec, p.payload, 1)[1]]
      <4>1. p.pt = codec /\ heard' = [codec |-> codec, said |-> p.said,
                                      played |-> Decode(codec, p.payload, 1)[1]]
        BY <2>4 DEF Voice
      <4>2. p.pt # NoCodec
        BY DEF SoundInv, PayloadInv
      <4>. QED  BY <1>1, <4>1, <4>2 DEF Types, Codecs
    <3>2. p.said \in Word16 /\ p.payload = Encode(codec, <<p.said>>, 1)
      BY <3>1 DEF SoundInv, PayloadInv
    <3>3. /\ heard'.codec = codec /\ heard'.said = p.said
          /\ heard'.played = Decode(codec, Encode(codec, <<p.said>>, 1), 1)[1]
      BY <3>1, <3>2
    <3>4. CASE codec = ULAW
      <4>1. Magnitude(heard'.played - heard'.said) <= 4 + Magnitude(heard'.said) \div 12
        BY <3>2, <3>3, <3>4, FrameComesBack, UlawRoundTrip
      <4>2. ULAW # ALAW
        BY DEF ULAW, ALAW
      <4>. QED  BY <2>3, <3>3, <3>4, <4>1, <4>2 DEF SoundInv, SoundComesThrough
    <3>5. CASE codec = ALAW
      <4>1. ASSUME heard'.said # -32768
            PROVE  Magnitude(heard'.played - heard'.said) <= 15 + Magnitude(heard'.said) \div 17
        <5>1. Magnitude(p.said) <= 32767
          <6>1. p.said \in Int /\ -32768 <= p.said /\ p.said <= 32767
            BY <3>2 DEF Word16
          <6>. QED  BY <3>3, <4>1, <6>1 DEF Magnitude
        <5>. QED  BY <3>2, <3>3, <3>5, <5>1, FrameComesBack, AlawRoundTrip
      <4>2. ULAW # ALAW
        BY DEF ULAW, ALAW
      <4>. QED  BY <2>3, <3>3, <3>5, <4>1, <4>2 DEF SoundInv, SoundComesThrough
    <3>. QED  BY <3>1, <3>4, <3>5
  <2>5. CASE Noise(p) \/ Other(p)
    <3>1. UNCHANGED heard
      BY <2>5 DEF Noise, Other, rtp
    <3>. QED  BY <2>3, <3>1 DEF SoundInv, SoundComesThrough
  <2>. QED  BY <2>1, <2>4, <2>5 DEF Receive
<1>6. CASE PollIdle \/ UNCHANGED streamVars
  BY <1>6 DEF PollIdle, streamVars, SoundInv, PayloadInv, SoundComesThrough
<1>7. CASE Connect
  BY <1>7 DEF Connect, SoundInv, PayloadInv, SoundComesThrough
<1>8. CASE HangUp
  <2>1. far'.codec = NoCodec /\ UNCHANGED <<heard, net>>
    BY <1>1, <1>8 DEF HangUp, Types
  <2>. QED  BY <2>1 DEF SoundInv, PayloadInv, SoundComesThrough
<1>. QED  BY <1>3, <1>4, <1>5, <1>6, <1>7, <1>8 DEF StreamNext

\* codec_encode(), codec_decode() and the tables of codec_ulaw.c and codec_alaw.c: the
\* sample that is played differs from the one that was said, whichever of the 65536 it
\* is, by no more than the steps of the law at its level; only -32768 in A-law, which
\* fits in no segment, is lost.
THEOREM SoundIsKept == StreamSpec => []SoundComesThrough
<1>1. StreamInit => SoundInv
  <2>1. ASSUME StreamInit PROVE SoundInv
    <3>1. PayloadInv
      BY <2>1 DEF StreamInit, PayloadInv
    <3>2. heard.codec = NoCodec /\ heard.said = 0 /\ heard.played = 0
      BY <2>1 DEF StreamInit, Silence
    <3>3. SoundComesThrough
      BY <3>2 DEF SoundComesThrough, Magnitude
    <3>. QED  BY <3>1, <3>3 DEF SoundInv
  <2>. QED  BY <2>1
<1>2. StreamInv /\ SoundInv /\ [StreamNext]_streamVars => SoundInv'
  BY SoundNext
<1>3. SoundInv => SoundComesThrough
  BY DEF SoundInv
<1>. QED  BY <1>1, <1>2, <1>3, StreamInvHolds, PTL DEF StreamSpec
=============================================================================
