------------------------- MODULE SoundDevicesProofs -------------------------
(***************************************************************************)
(* Theorems about SoundDevices, for any devices and number of descriptors: *)
(* what is played on is open, the SIP thread does not hang in a write, and *)
(* no descriptor is lost but those of recordings that were cut off.        *)
(***************************************************************************)
EXTENDS SoundDevices, FiniteSetTheorems, WellFoundedInduction, TLAPS

----------------------------------------------------------------------------
(* Descriptors *)

Things == Devices \cup {Record, Closed}

Tables == [Fds -> Things]

Numbers == Fds \cup {None, 0}

\* A set of numbers has a smallest
LEMMA LeastIs ==
    ASSUME NEW S, S \subseteq Nat, S # {}
    PROVE  Min(S) \in S
<1>1. \E x \in S : \A y \in S : ~(<<y, x>> \in OpToRel(<, Nat))
  BY NatLessThanWellFounded, WFMin
<1>2. PICK x \in S : \A y \in S : ~(<<y, x>> \in OpToRel(<, Nat))
  BY <1>1
<1>3. \A y \in S : x =< y
  <2>. SUFFICES ASSUME NEW y \in S  PROVE x =< y
    OBVIOUS
  <2>1. <<y, x>> \in Nat \X Nat /\ ~(<<y, x>> \in OpToRel(<, Nat))
    BY <1>2
  <2>2. ~(y < x)
    BY <2>1 DEF OpToRel
  <2>. QED  BY <2>2
<1>. QED  BY <1>3 DEF Min

LEMMA FdsAre == Fds \subseteq Nat /\ None \notin Fds /\ 0 \notin Fds /\ None # 0
                /\ None \in Int /\ ~(None >= 0) /\ \A fd \in Fds : fd > 2 /\ fd >= 0
BY BoundsAssumption DEF Fds, None, BoundsAssumption

LEMMA NamesAre ==
    /\ Record # Closed /\ Record \notin Devices /\ Closed \notin Devices
    /\ Null \notin Devices /\ NoDevice \notin Devices /\ Default \in Devices
<1>1. Record # Closed
  <2>. SUFFICES ASSUME Record = Closed  PROVE FALSE
    OBVIOUS
  <2>1. {Null, NoDevice, Record, Closed} = {Null} \cup {NoDevice} \cup {Record}
    OBVIOUS
  <2>2. ASSUME NEW S, NEW x, IsFiniteSet(S), NEW n \in Nat, Cardinality(S) <= n
        PROVE  IsFiniteSet(S \cup {x}) /\ Cardinality(S \cup {x}) <= n + 1
    <3>1. Cardinality(S) \in Nat
      BY <2>2, FS_CardinalityType
    <3>2. /\ IsFiniteSet(S \cup {x})
          /\ Cardinality(S \cup {x}) = IF x \in S THEN Cardinality(S) ELSE Cardinality(S) + 1
      BY <2>2, FS_AddElement
    <3>. QED  BY <2>2, <3>1, <3>2
  <2>3. /\ IsFiniteSet({Null}) /\ Cardinality({Null}) <= 1
    <3>1. IsFiniteSet({Null}) /\ Cardinality({Null}) = 1
      BY FS_Singleton
    <3>. QED  BY <3>1
  <2>. DEFINE A == {Null}
              B == A \cup {NoDevice}
              C == B \cup {Record}
  <2>6. IsFiniteSet(A) /\ Cardinality(A) <= 1
    BY <2>3
  <2>7. IsFiniteSet(B) /\ Cardinality(B) <= 1 + 1
    <3>. HIDE DEF A
    <3>. QED  BY <2>2, <2>6
  <2>8. IsFiniteSet(C) /\ Cardinality(C) <= 1 + 1 + 1
    <3>. HIDE DEF B
    <3>1. 1 + 1 \in Nat
      OBVIOUS
    <3>. QED  BY <2>2, <2>7, <3>1
  <2>4. Cardinality({Null} \cup {NoDevice} \cup {Record}) <= 1 + 1 + 1
    BY <2>8
  <2>9. Cardinality({Null, NoDevice, Record, Closed}) = 4
    BY NamesAssumption DEF NamesAssumption
  <2>10. 4 <= 3
    BY <2>1, <2>4, <2>9
  <2>. QED  BY <2>10
<1>. QED  BY <1>1, NamesAssumption DEF NamesAssumption

\* The lowest free descriptor is free
LEMMA LowestIs ==
    ASSUME NEW table \in Tables, Room(table)
    PROVE  Lowest(table) \in Fds /\ table[Lowest(table)] = Closed
<1>. DEFINE free == {fd \in Fds : table[fd] = Closed}
<1>1. free \subseteq Nat /\ free # {}
  BY FdsAre DEF Room
<1>2. Min(free) \in free
  <2>. HIDE DEF free
  <2>. QED  BY <1>1, LeastIs
<1>. QED  BY <1>2 DEF Lowest

\* Opening and closing
LEMMA OpenedIs ==
    ASSUME NEW table \in Tables, Room(table), NEW what \in Things
    PROVE  /\ Opened(table, what) \in Tables
           /\ Opened(table, what)[Lowest(table)] = what
           /\ \A fd \in Fds \ {Lowest(table)} : Opened(table, what)[fd] = table[fd]
BY LowestIs DEF Opened, Tables

LEMMA CloseIs ==
    ASSUME opened \in Tables, NEW fd \in Numbers
    PROVE  /\ Close(fd) \in Tables
           /\ fd \in Fds => Close(fd)[fd] = Closed
           /\ \A other \in Fds \ {fd} : Close(fd)[other] = opened[other]
BY DEF Close, Tables, Things

----------------------------------------------------------------------------
(* One of the two devices is exchanged *)

Descriptor(d) == d.fd \in Numbers /\ d.device \in Names /\ d.none \in BOOLEAN

\* A device without a name has no descriptor, and only one at its beginning is zero
Fits(d) == (d.device = NoDevice => d.fd \notin Fds) /\ (d.fd = 0 => d.device = NoDevice)

\* What a descriptor of a device refers to is the device
Upright(table, d) == d.fd \in Fds => table[d.fd] = d.device /\ d.device \in Devices

\* What the other device lends
Lent(d) == IF d.device = NoDevice THEN None ELSE d.fd

\* m becomes n, and the other device t becomes u, when m is exchanged for device
Exchange(m, t, n, u, device) ==
    /\ n.device = device /\ u.device = t.device /\ u.none = t.none
    /\ n.none \in BOOLEAN /\ device \in Names
    /\ \/ /\ opened' = Close(m.fd) /\ n.fd = None /\ u.fd = Lent(t) /\ n.none = TRUE
       \/ /\ opened' = Close(m.fd) /\ device = t.device /\ Lent(t) >= 0
          /\ n.fd = Lent(t) /\ u.fd = Lent(t)
       \/ /\ device \in Devices /\ Room(Close(m.fd)) /\ ~(device = t.device /\ Lent(t) >= 0)
          /\ opened' = Opened(Close(m.fd), device)
          /\ n.fd = Lowest(Close(m.fd))
          /\ u.fd = IF device = t.device THEN Lowest(Close(m.fd)) ELSE Lent(t)

LEMMA LentIs ==
    ASSUME NEW t, Descriptor(t), Fits(t)
    PROVE  /\ Lent(t) = None \/ (Lent(t) \in Fds /\ Lent(t) = t.fd /\ t.device # NoDevice)
           /\ Lent(t) >= 0 => Lent(t) \in Fds
           /\ t.fd \in Fds => Lent(t) = t.fd
BY FdsAre DEF Descriptor, Fits, Lent, Numbers

\* Types, and devices without a name
LEMMA ExchangeTypes ==
    ASSUME opened \in Tables, NEW m, NEW t, NEW n, NEW u, NEW device,
           Descriptor(m), Descriptor(t), Fits(m), Fits(t), Exchange(m, t, n, u, device)
    PROVE  /\ opened' \in Tables /\ Descriptor(n) /\ Descriptor(u) /\ Fits(n) /\ Fits(u)
           /\ ~n.none => n.fd \in Fds
           /\ t.fd \in Fds => u.fd = t.fd
           /\ u.fd # 0
<1>0. /\ m.fd \in Numbers /\ Close(m.fd) \in Tables
      /\ Lent(t) = None \/ (Lent(t) \in Fds /\ Lent(t) = t.fd /\ t.device # NoDevice)
      /\ Lent(t) >= 0 => Lent(t) \in Fds
      /\ t.fd \in Fds => Lent(t) = t.fd
  BY CloseIs, LentIs DEF Descriptor
<1>n. /\ n.device = device /\ u.device = t.device /\ u.none = t.none
      /\ n.none \in BOOLEAN /\ device \in Names /\ t.device \in Names /\ t.none \in BOOLEAN
  BY DEF Exchange, Descriptor
<1>1. CASE opened' = Close(m.fd) /\ n.fd = None /\ u.fd = Lent(t) /\ n.none = TRUE
  BY <1>0, <1>n, <1>1, FdsAre DEF Descriptor, Fits, Numbers
<1>2. CASE /\ opened' = Close(m.fd) /\ device = t.device /\ Lent(t) >= 0
           /\ n.fd = Lent(t) /\ u.fd = Lent(t)
  BY <1>0, <1>n, <1>2, FdsAre DEF Descriptor, Fits, Numbers
<1>3. CASE /\ device \in Devices /\ Room(Close(m.fd)) /\ ~(device = t.device /\ Lent(t) >= 0)
           /\ opened' = Opened(Close(m.fd), device)
           /\ n.fd = Lowest(Close(m.fd))
           /\ u.fd = IF device = t.device THEN Lowest(Close(m.fd)) ELSE Lent(t)
  <2>1. opened' \in Tables /\ Lowest(Close(m.fd)) \in Fds
    BY <1>0, <1>3, OpenedIs, LowestIs DEF Things
  <2>2. device # NoDevice
    BY <1>3, NamesAre
  <2>3. t.fd \in Fds => u.fd = t.fd
    BY <1>0, <1>3, FdsAre
  <2>. QED  BY <1>0, <1>n, <1>3, <2>1, <2>2, <2>3, FdsAre DEF Descriptor, Fits, Numbers
<1>. QED  BY <1>1, <1>2, <1>3 DEF Exchange

\* As long as they do not share a descriptor, both are open, and so is the recording
LEMMA ExchangeUpright ==
    ASSUME opened \in Tables, NEW m, NEW t, NEW n, NEW u, NEW device,
           Descriptor(m), Descriptor(t), Fits(m), Fits(t), Exchange(m, t, n, u, device),
           Upright(opened, m), Upright(opened, t), ~(m.fd = t.fd /\ m.fd \in Fds)
    PROVE  /\ Upright(opened', n) /\ Upright(opened', u)
           /\ \A fd \in Fds : opened[fd] = Record => opened'[fd] = Record
<1>. DEFINE table == Close(m.fd)
<1>0. /\ m.fd \in Numbers /\ table \in Tables
      /\ Lent(t) = None \/ (Lent(t) \in Fds /\ Lent(t) = t.fd /\ t.device # NoDevice)
      /\ Lent(t) >= 0 => Lent(t) \in Fds
      /\ t.fd \in Fds => Lent(t) = t.fd
  BY CloseIs, LentIs DEF Descriptor
<1>1. \A fd \in Fds : fd # m.fd => table[fd] = opened[fd]
  BY <1>0, CloseIs
<1>2. \A fd \in Fds : opened[fd] = Record => table[fd] = Record
  <2>. SUFFICES ASSUME NEW fd \in Fds, opened[fd] = Record  PROVE table[fd] = Record
    OBVIOUS
  <2>1. fd # m.fd
    BY NamesAre DEF Upright
  <2>. QED  BY <1>1, <2>1
<1>3. Lent(t) \in Fds => table[Lent(t)] = t.device /\ t.device \in Devices
  <2>. SUFFICES ASSUME Lent(t) \in Fds
                PROVE  table[Lent(t)] = t.device /\ t.device \in Devices
    OBVIOUS
  <2>. HIDE DEF table
  <2>1. Lent(t) = t.fd /\ t.fd \in Fds
    BY <1>0, FdsAre
  <2>2. t.fd # m.fd
    BY <2>1
  <2>3. table[t.fd] = opened[t.fd]
    BY <1>1, <2>1, <2>2
  <2>4. opened[t.fd] = t.device /\ t.device \in Devices
    BY <2>1 DEF Upright
  <2>. QED  BY <2>1, <2>3, <2>4
<1>n. n.device = device /\ u.device = t.device
  BY DEF Exchange
<1>4. CASE opened' = table /\ n.fd = None /\ u.fd = Lent(t)
  <2>1. Upright(opened', n)
    BY <1>4, FdsAre DEF Upright
  <2>2. Upright(opened', u)
    BY <1>3, <1>4, <1>n DEF Upright
  <2>. QED  BY <1>2, <1>4, <2>1, <2>2
<1>5. CASE opened' = table /\ device = t.device /\ n.fd = Lent(t) /\ u.fd = Lent(t)
  BY <1>2, <1>3, <1>5, <1>n DEF Upright
<1>6. CASE /\ device \in Devices /\ Room(table) /\ ~(device = t.device /\ Lent(t) >= 0)
           /\ opened' = Opened(table, device)
           /\ n.fd = Lowest(table)
           /\ u.fd = IF device = t.device THEN Lowest(table) ELSE Lent(t)
  <2>. HIDE DEF table
  <2>1. /\ Lowest(table) \in Fds /\ table[Lowest(table)] = Closed
        /\ opened'[Lowest(table)] = device
        /\ \A fd \in Fds : fd # Lowest(table) => opened'[fd] = table[fd]
    BY <1>0, <1>6, LowestIs, OpenedIs DEF Things
  <2>2. Lent(t) \in Fds => Lent(t) # Lowest(table) /\ opened'[Lent(t)] = t.device
    BY <1>3, <2>1, NamesAre
  <2>3. Upright(opened', n) /\ Upright(opened', u)
    BY <1>3, <1>6, <1>n, <2>1, <2>2 DEF Upright
  <2>4. \A fd \in Fds : opened[fd] = Record => opened'[fd] = Record
    BY <1>2, <2>1, NamesAre
  <2>. QED  BY <2>3, <2>4
<1>. QED  BY <1>4, <1>5, <1>6 DEF Exchange

\* A descriptor that was open and held is closed, or is still held
InUse(table) == {fd \in Fds : table[fd] # Closed}

LEMMA ExchangeLoses ==
    ASSUME opened \in Tables, NEW m, NEW t, NEW n, NEW u, NEW device,
           Descriptor(m), Descriptor(t), Fits(m), Fits(t), Exchange(m, t, n, u, device)
    PROVE  InUse(opened') \ {n.fd, u.fd} \subseteq InUse(opened) \ {m.fd, t.fd}
<1>. DEFINE table == Close(m.fd)
<1>. SUFFICES ASSUME NEW fd \in Fds, opened'[fd] # Closed, fd # n.fd, fd # u.fd
              PROVE  opened[fd] # Closed /\ fd # m.fd /\ fd # t.fd
  BY DEF InUse
<1>0. m.fd \in Numbers /\ table \in Tables /\ (t.fd \in Fds => u.fd = t.fd)
  BY CloseIs, ExchangeTypes DEF Descriptor
<1>1. table[fd] # Closed
  <2>1. CASE opened' = table
    BY <2>1
  <2>2. CASE Room(table) /\ device \in Devices /\ opened' = Opened(table, device)
             /\ n.fd = Lowest(table)
    <3>. HIDE DEF table
    <3>. QED  BY <1>0, <2>2, OpenedIs DEF Things
  <2>. QED  BY <2>1, <2>2 DEF Exchange
<1>2. fd # m.fd /\ opened[fd] # Closed
  <2>1. fd # m.fd
    BY <1>0, <1>1, CloseIs
  <2>. QED  BY <1>0, <1>1, <2>1, CloseIs
<1>. QED  BY <1>0, <1>2
----------------------------------------------------------------------------
(* soundcard_init() and ringtone_device_init() exchange *)

LEMMA TypesAre ==
    ASSUME TypeOK
    PROVE  /\ opened \in Tables /\ Descriptor(card) /\ Descriptor(ring)
           /\ card = [device |-> card.device, fd |-> card.fd, none |-> card.none]
           /\ ring = [device |-> ring.device, fd |-> ring.fd, none |-> ring.none,
                      data |-> ring.data]
           /\ ring.data \in BOOLEAN /\ rec.fd \in Numbers /\ rec.on \in BOOLEAN
           /\ rec = [fd |-> rec.fd, on |-> rec.on]
           /\ rec.on => rec.fd \in Fds
BY DEF TypeOK, Device, Tables, Things, Descriptor, Numbers

LEMMA MixedIs ==
    ASSUME NEW device, NEW done, NEW failed,
           CardInit(device, done, failed) \/ RingInit(device, done, failed)
    PROVE  mixed' = (mixed \/ Shared)
BY Zenon DEF CardInit, RingInit

LEMMA CardIsExchanged ==
    ASSUME TypeOK, NEW device \in Names, NEW done, NEW failed,
           CardInit(device, done, failed)
    PROVE  /\ Exchange(card, ring, card', ring', device)
           /\ user' \in {done, failed}
           /\ card' = [device |-> card'.device, fd |-> card'.fd, none |-> card'.none]
           /\ ring' = [device |-> ring'.device, fd |-> ring'.fd, none |-> ring'.none,
                       data |-> ring.data]
<1>. DEFINE table == Close(card.fd)
            other == IF ring.device = NoDevice THEN [ring EXCEPT !.fd = None] ELSE ring
            bare  == [device |-> device, fd |-> None, none |-> TRUE]
            same  == device = ring.device
            IsOther == ring' = [device |-> ring.device, fd |-> Lent(ring),
                                none |-> ring.none, data |-> ring.data]
<1>1. other = [device |-> ring.device, fd |-> Lent(ring), none |-> ring.none,
               data |-> ring.data]
  BY TypesAre DEF Lent
<1>2. other.fd = Lent(ring)
  BY <1>1
<1>. HIDE DEF table, other
<1>4. CASE opened' = table /\ card' = bare /\ ring' = other /\ user' \in {done, failed}
  <2>1. /\ card' = [device |-> device, fd |-> None, none |-> TRUE]
        /\ IsOther
    BY <1>1, <1>4
  <2>2. Exchange(card, ring, card', ring', device)
    BY <1>4, <2>1 DEF Exchange, table
  <2>. QED  BY <1>4, <2>1, <2>2
<1>5. CASE /\ same /\ other.fd >= 0 /\ opened' = table /\ ring' = other
           /\ card' = [bare EXCEPT !.fd = other.fd, !.none = ~IsSound(table, other.fd)]
           /\ user' \in {done, failed}
  <2>1. /\ card' = [device |-> device, fd |-> Lent(ring),
                    none |-> ~IsSound(table, Lent(ring))]
        /\ IsOther
    BY <1>1, <1>2, <1>5
  <2>2. (~IsSound(table, Lent(ring))) \in BOOLEAN
    BY Zenon DEF IsSound
  <2>3. Exchange(card, ring, card', ring', device)
    BY <1>2, <1>5, <2>1, <2>2 DEF Exchange, table
  <2>4. user' \in {done, failed}
    BY <1>5
  <2>. QED  BY <2>1, <2>3, <2>4
<1>6. CASE /\ device \in Devices /\ ~(same /\ other.fd >= 0) /\ Room(table)
           /\ opened' = Opened(table, device)
           /\ card' = [bare EXCEPT !.fd = Lowest(table), !.none = FALSE]
           /\ ring' = IF same THEN [other EXCEPT !.fd = Lowest(table)] ELSE other
           /\ user' = done
  <2>1. /\ card' = [device |-> device, fd |-> Lowest(table), none |-> FALSE]
        /\ ring' = [device |-> ring.device,
                    fd |-> IF same THEN Lowest(table) ELSE Lent(ring),
                    none |-> ring.none, data |-> ring.data]
    BY <1>1, <1>6
  <2>2. Exchange(card, ring, card', ring', device)
    BY <1>2, <1>6, <2>1 DEF Exchange, table
  <2>3. user' \in {done, failed}
    BY <1>6
  <2>. QED  BY <2>1, <2>2, <2>3
<1>7. \/ opened' = table /\ card' = bare /\ ring' = other /\ user' \in {done, failed}
      \/ /\ same /\ other.fd >= 0 /\ opened' = table /\ ring' = other
         /\ card' = [bare EXCEPT !.fd = other.fd, !.none = ~IsSound(table, other.fd)]
         /\ user' \in {done, failed}
      \/ /\ device \in Devices /\ ~(same /\ other.fd >= 0) /\ Room(table)
         /\ opened' = Opened(table, device)
         /\ card' = [bare EXCEPT !.fd = Lowest(table), !.none = FALSE]
         /\ ring' = IF same THEN [other EXCEPT !.fd = Lowest(table)] ELSE other
         /\ user' = done
  BY DEF CardInit, table, other
<1>. QED  BY <1>4, <1>5, <1>6, <1>7

LEMMA RingIsExchanged ==
    ASSUME TypeOK, NEW device \in Names, NEW done, NEW failed,
           RingInit(device, done, failed)
    PROVE  /\ Exchange(ring, card, ring', card', device)
           /\ user' \in {done, failed}
           /\ card' = [device |-> card'.device, fd |-> card'.fd, none |-> card'.none]
           /\ ring' = [device |-> ring'.device, fd |-> ring'.fd, none |-> ring'.none,
                       data |-> ring.data]
<1>. DEFINE table == Close(ring.fd)
            other == IF card.device = NoDevice THEN [card EXCEPT !.fd = None] ELSE card
            bare  == [ring EXCEPT !.device = device, !.fd = None, !.none = TRUE]
            same  == device = card.device
            silent == ~ring.data
            Becomes(fd, none) == ring' = [device |-> device, fd |-> fd, none |-> none,
                                          data |-> ring.data]
            IsOther == card' = [device |-> card.device, fd |-> Lent(card),
                                none |-> card.none]
<1>0. ring \in [device : Names, fd : Fds \cup {None, 0}, none : BOOLEAN, data : BOOLEAN]
  BY DEF TypeOK
<1>1. other = [device |-> card.device, fd |-> Lent(card), none |-> card.none]
  BY TypesAre DEF Lent
<1>2. other.fd = Lent(card)
  BY <1>1
<1>3. silent \in BOOLEAN
  BY Zenon
<1>4. ring' = bare => Becomes(None, TRUE)
  <2>. SUFFICES ASSUME ring' = bare  PROVE Becomes(None, TRUE)
    OBVIOUS
  <2>. QED  BY <1>0
<1>5. ASSUME NEW fd, NEW none, ring' = [bare EXCEPT !.fd = fd, !.none = none]
      PROVE  Becomes(fd, none)
  BY <1>0, <1>5
<1>. HIDE DEF table, other, bare, silent
<1>6. CASE opened' = table /\ Becomes(None, TRUE) /\ card' = other
           /\ user' \in {done, failed}
  <2>1. IsOther
    BY <1>1, <1>6
  <2>2. Exchange(ring, card, ring', card', device)
    BY <1>6, <2>1 DEF Exchange, table
  <2>. QED  BY <1>6, <2>1, <2>2
<1>7. CASE /\ same /\ other.fd >= 0 /\ opened' = table /\ card' = other
           /\ Becomes(other.fd, silent) /\ user' \in {done, failed}
  <2>1. IsOther
    BY <1>1, <1>7
  <2>2. Exchange(ring, card, ring', card', device)
    BY <1>2, <1>3, <1>7, <2>1 DEF Exchange, table
  <2>. QED  BY <1>7, <2>1, <2>2
<1>8. CASE /\ device \in Devices /\ ~(same /\ other.fd >= 0) /\ Room(table)
           /\ opened' = Opened(table, device) /\ Becomes(Lowest(table), silent)
           /\ card' = IF same THEN [other EXCEPT !.fd = Lowest(table)] ELSE other
           /\ user' = done
  <2>1. card' = [device |-> card.device,
                 fd |-> IF same THEN Lowest(table) ELSE Lent(card),
                 none |-> card.none]
    BY <1>1, <1>8
  <2>2. Exchange(ring, card, ring', card', device)
    BY <1>2, <1>3, <1>8, <2>1 DEF Exchange, table
  <2>. QED  BY <1>8, <2>1, <2>2
<1>9. \/ opened' = table /\ ring' = bare /\ card' = other /\ user' \in {done, failed}
      \/ /\ same /\ other.fd >= 0 /\ opened' = table /\ card' = other
         /\ ring' = [bare EXCEPT !.fd = other.fd, !.none = silent]
         /\ user' \in {done, failed}
      \/ /\ device \in Devices /\ ~(same /\ other.fd >= 0) /\ Room(table)
         /\ opened' = Opened(table, device)
         /\ ring' = [bare EXCEPT !.fd = Lowest(table), !.none = silent]
         /\ card' = IF same THEN [other EXCEPT !.fd = Lowest(table)] ELSE other
         /\ user' = done
  BY Zenon DEF RingInit, table, other, bare, silent
<1>10. ring' = [bare EXCEPT !.fd = other.fd, !.none = silent] => Becomes(other.fd, silent)
  BY <1>5, Zenon
<1>11. ring' = [bare EXCEPT !.fd = Lowest(table), !.none = silent]
       => Becomes(Lowest(table), silent)
  BY <1>5, Zenon
<1>. HIDE DEF Becomes
<1>. QED  BY <1>6, <1>7, <1>8, <1>9, <1>4, <1>10, <1>11, Zenon
----------------------------------------------------------------------------
(* The invariant *)

Kept == {card.fd, ring.fd} \cup IF rec.on THEN {rec.fd} ELSE {}

\* The configuration is being read
Beginning == user.at \in {"start card", "card default", "start ring", "ring default",
                          "start file"}

\* The ring tone's device was not tried yet
Unrung == user.at \in {"start card", "card default", "start ring"}

\* What holds until a descriptor that both devices had is given up by one of them
Sane ==
    /\ Upright(opened, card) /\ Upright(opened, ring)
    /\ rec.on => opened[rec.fd] = Record
    /\ user.at # "start card" /\ ~card.none => card.fd \in Fds
    /\ ~Unrung /\ ~ring.none => ring.fd \in Fds
    /\ sip = "record" /\ ~raced => rec.on

Losses == Cardinality(InUse(opened) \ Kept) =< cuts

DevInv ==
    /\ TypeOK
    /\ Fits(card) /\ Fits(ring)
    /\ Beginning => sip = "start"
    /\ user.at = "gtk ring" => user.device \in Devices /\ ring.fd # 0
    /\ sip = "stuck" => mixed
    /\ strays => mixed \/ raced
    /\ ~mixed => Sane
    /\ Losses

\* A set of descriptors is finite, and a part of it has no more members
LEMMA FewerFds ==
    ASSUME NEW S, NEW T, S \subseteq T, T \subseteq Fds
    PROVE  /\ Cardinality(S) \in Nat /\ Cardinality(T) \in Nat
           /\ Cardinality(S) =< Cardinality(T)
<1>1. IsFiniteSet(Fds)
  BY FS_Interval, BoundsAssumption DEF Fds, BoundsAssumption
<1>2. IsFiniteSet(T)
  BY <1>1, FS_Subset
<1>3. IsFiniteSet(S) /\ Cardinality(S) =< Cardinality(T)
  BY <1>2, FS_Subset
<1>. QED  BY <1>2, <1>3, FS_CardinalityType

\* Nothing is lost as long as nothing leaves Kept but what is closed
LEMMA NothingLost ==
    ASSUME Losses, cuts \in Nat, cuts' = cuts,
           InUse(opened') \ Kept' \subseteq InUse(opened) \ Kept
    PROVE  Losses'
<1>. DEFINE S == InUse(opened') \ Kept'
            T == InUse(opened) \ Kept
<1>1. S \subseteq T /\ T \subseteq Fds
  BY DEF InUse
<1>. HIDE DEF S, T
<1>2. Cardinality(S) \in Nat /\ Cardinality(T) \in Nat /\ Cardinality(S) =< Cardinality(T)
  BY <1>1, FewerFds
<1>3. Cardinality(T) =< cuts
  BY DEF T, Losses
<1>4. Cardinality(S) =< cuts'
  BY <1>2, <1>3
<1>5. InUse(opened)' = InUse(opened')
  BY DEF InUse
<1>. QED  BY <1>4, <1>5 DEF S, Losses

LEMMA DevInvInit == Init => DevInv
<1>. SUFFICES ASSUME Init  PROVE DevInv
  OBVIOUS
<1>1. TypeOK
  BY FdsAre DEF Init, TypeOK, Device, Names, Then
<1>2. Fits(card) /\ Fits(ring)
  BY FdsAre DEF Init, Fits
<1>3. /\ Beginning => sip = "start"
      /\ user.at = "gtk ring" => user.device \in Devices /\ ring.fd # 0
      /\ sip = "stuck" => mixed
      /\ strays => mixed \/ raced
  BY DEF Init, Then
<1>4. Sane
  BY FdsAre DEF Init, Sane, Upright, Then, Unrung
<1>5. Losses
  <2>1. InUse(opened) \ Kept = {}
    BY DEF Init, InUse
  <2>2. Cardinality(InUse(opened) \ Kept) = 0
    BY <2>1, FS_EmptySet, Zenon
  <2>3. cuts = 0
    BY DEF Init
  <2>. QED  BY <2>2, <2>3 DEF Losses
<1>. QED  BY <1>1, <1>2, <1>3, <1>4, <1>5 DEF DevInv

\* What the user thread may be about to do next
Follows(next) ==
    /\ next.at \in {"start card", "card default", "start ring", "ring default",
                    "start file", "rest", "card again", "ring again", "gtk ring"}
    /\ next.device \in Names
    /\ next.at = "gtk ring" => next.device \in Devices

Plain(next) == Follows(next) /\ next.at # "gtk ring"

CardTried == user.at # "start card"

Settled == UNCHANGED <<rec, cn, gtk, sip, raced, strays, cuts>>

\* An exchange of the sound card
LEMMA CardStep ==
    ASSUME DevInv, NEW device \in Names, NEW done, NEW failed,
           CardInit(device, done, failed), Follows(done), Follows(failed), Settled,
           Beginning' => sip = "start", Unrung => Unrung'
    PROVE  DevInv'
<1>0. TypeOK /\ Fits(card) /\ Fits(ring)
  BY DEF DevInv
<1>1. /\ Exchange(card, ring, card', ring', device)
      /\ user' \in {done, failed}
      /\ card' = [device |-> card'.device, fd |-> card'.fd, none |-> card'.none]
      /\ ring' = [device |-> ring'.device, fd |-> ring'.fd, none |-> ring'.none,
                  data |-> ring.data]
  BY <1>0, CardIsExchanged
<1>2. mixed' = (mixed \/ Shared)
  BY MixedIs
<1>3. opened \in Tables /\ Descriptor(card) /\ Descriptor(ring) /\ ring.data \in BOOLEAN
  BY <1>0, TypesAre
<1>4. /\ opened' \in Tables /\ Descriptor(card') /\ Descriptor(ring')
      /\ Fits(card') /\ Fits(ring')
      /\ ~card'.none => card'.fd \in Fds
      /\ ring.fd \in Fds => ring'.fd = ring.fd
      /\ ring'.fd # 0
  BY <1>0, <1>1, <1>3, ExchangeTypes
<1>5. TypeOK'
  <2>1. opened' \in [Fds -> Devices \cup {Record, Closed}]
    BY <1>4 DEF Tables, Things
  <2>2. card' \in Device
    BY <1>1, <1>4 DEF Descriptor, Device, Numbers
  <2>3. ring' \in [device : Names, fd : Fds \cup {None, 0}, none : BOOLEAN, data : BOOLEAN]
    BY <1>1, <1>3, <1>4 DEF Descriptor, Numbers
  <2>4. user'.device \in Names
        /\ user'.at \in {"start card", "card default", "start ring", "ring default",
                         "start file", "rest", "card again", "ring again", "gtk ring"}
    BY <1>1 DEF Follows
  <2>5. /\ rec' \in [fd : Fds \cup {None, 0}, on : BOOLEAN]
        /\ rec'.on => rec'.fd \in Fds
        /\ cn' \in BOOLEAN /\ gtk' \in BOOLEAN /\ raced' \in BOOLEAN /\ strays' \in BOOLEAN
        /\ sip' \in {"start", "rest", "record", "ringing", "stuck"} /\ cuts' \in Nat
    BY <1>0 DEF TypeOK, Settled
  <2>6. mixed' \in BOOLEAN
    BY <1>2, Zenon
  <2>. QED  BY <2>1, <2>2, <2>3, <2>4, <2>5, <2>6 DEF TypeOK
<1>6. user'.at = "gtk ring" => user'.device \in Devices /\ ring'.fd # 0
  BY <1>1, <1>4 DEF Follows
<1>7. sip' = "stuck" => mixed'
  BY <1>2, Zenon DEF DevInv, Settled
<1>8. strays' => mixed' \/ raced'
  BY <1>2, Zenon DEF DevInv, Settled
<1>9. ~mixed' => Sane'
  <2>. SUFFICES ASSUME ~mixed'  PROVE Sane'
    OBVIOUS
  <2>1. ~mixed /\ ~Shared
    BY <1>2, Zenon
  <2>2. Sane
    BY <2>1 DEF DevInv
  <2>3. /\ Upright(opened', card') /\ Upright(opened', ring')
        /\ \A fd \in Fds : opened[fd] = Record => opened'[fd] = Record
    BY <1>0, <1>1, <1>3, <2>1, <2>2, ExchangeUpright DEF Sane, Shared
  <2>4. rec'.on => opened'[rec'.fd] = Record
    BY <1>0, <2>2, <2>3 DEF Sane, Settled, TypeOK
  <2>5. ~Unrung' /\ ~ring'.none => ring'.fd \in Fds
    BY <1>1, <1>4, <2>2 DEF Sane, Exchange
  <2>6. sip' = "record" /\ ~raced' => rec'.on
    BY <2>2 DEF Sane, Settled
  <2>7. Upright(opened, card)' /\ Upright(opened, ring)'
    BY <2>3 DEF Upright
  <2>. QED  BY <1>4, <2>4, <2>5, <2>6, <2>7 DEF Sane
<1>10. Losses'
  <2>1. InUse(opened') \ {card'.fd, ring'.fd} \subseteq InUse(opened) \ {card.fd, ring.fd}
    BY <1>0, <1>1, <1>3, ExchangeLoses
  <2>2. InUse(opened') \ Kept' \subseteq InUse(opened) \ Kept
    BY <2>1 DEF Kept, Settled
  <2>. QED  BY <1>0, <2>2, NothingLost DEF DevInv, TypeOK, Settled
<1>11. Fits(card)' /\ Fits(ring)'
  BY <1>4 DEF Fits
<1>12. Beginning' => sip' = "start"
  BY DEF Settled
<1>. QED  BY <1>5, <1>6, <1>7, <1>8, <1>9, <1>10, <1>11, <1>12 DEF DevInv

\* An exchange of the ring tone's device
LEMMA RingStep ==
    ASSUME DevInv, NEW device \in Names, NEW done, NEW failed,
           RingInit(device, done, failed), Plain(done), Plain(failed), Settled,
           Beginning' => sip = "start", CardTried
    PROVE  DevInv'
<1>0. TypeOK /\ Fits(card) /\ Fits(ring)
  BY DEF DevInv
<1>1. /\ Exchange(ring, card, ring', card', device)
      /\ user' \in {done, failed}
      /\ card' = [device |-> card'.device, fd |-> card'.fd, none |-> card'.none]
      /\ ring' = [device |-> ring'.device, fd |-> ring'.fd, none |-> ring'.none,
                  data |-> ring.data]
  BY <1>0, RingIsExchanged
<1>2. mixed' = (mixed \/ Shared)
  BY MixedIs
<1>3. opened \in Tables /\ Descriptor(card) /\ Descriptor(ring) /\ ring.data \in BOOLEAN
  BY <1>0, TypesAre
<1>4. /\ opened' \in Tables /\ Descriptor(card') /\ Descriptor(ring')
      /\ Fits(card') /\ Fits(ring')
      /\ ~ring'.none => ring'.fd \in Fds
      /\ card.fd \in Fds => card'.fd = card.fd
  <2>1. Exchange(ring, card, ring', card', device) /\ Fits(ring) /\ Fits(card)
    BY <1>0, <1>1
  <2>2. /\ opened' \in Tables /\ Descriptor(ring') /\ Descriptor(card')
        /\ Fits(ring') /\ Fits(card')
        /\ ~ring'.none => ring'.fd \in Fds
        /\ card.fd \in Fds => card'.fd = card.fd
    BY <1>3, <2>1, ExchangeTypes, SMTT(60)
  <2>. QED  BY <2>2
<1>5. TypeOK'
  <2>1. opened' \in [Fds -> Devices \cup {Record, Closed}]
    BY <1>4 DEF Tables, Things
  <2>2. card' \in Device
    BY <1>1, <1>4 DEF Descriptor, Device, Numbers
  <2>3. ring' \in [device : Names, fd : Fds \cup {None, 0}, none : BOOLEAN, data : BOOLEAN]
    <3>1. ring'.device \in Names /\ ring'.fd \in Fds \cup {None, 0} /\ ring'.none \in BOOLEAN
      BY <1>4 DEF Descriptor, Numbers
    <3>2. ring.data \in BOOLEAN
      BY <1>3
    <3>. QED  BY <1>1, <3>1, <3>2
  <2>4. user'.device \in Names
        /\ user'.at \in {"start card", "card default", "start ring", "ring default",
                         "start file", "rest", "card again", "ring again", "gtk ring"}
    BY <1>1 DEF Plain, Follows
  <2>5. /\ rec' \in [fd : Fds \cup {None, 0}, on : BOOLEAN]
        /\ rec'.on => rec'.fd \in Fds
        /\ cn' \in BOOLEAN /\ gtk' \in BOOLEAN /\ raced' \in BOOLEAN /\ strays' \in BOOLEAN
        /\ sip' \in {"start", "rest", "record", "ringing", "stuck"} /\ cuts' \in Nat
    BY <1>0 DEF TypeOK, Settled
  <2>6. mixed' \in BOOLEAN
    BY <1>2, Zenon
  <2>. QED  BY <2>1, <2>2, <2>3, <2>4, <2>5, <2>6 DEF TypeOK
<1>6. user'.at = "gtk ring" => user'.device \in Devices /\ ring'.fd # 0
  BY <1>1 DEF Plain
<1>7. sip' = "stuck" => mixed'
  BY <1>2, Zenon DEF DevInv, Settled
<1>8. strays' => mixed' \/ raced'
  BY <1>2, Zenon DEF DevInv, Settled
<1>9. ~mixed' => Sane'
  <2>. SUFFICES ASSUME ~mixed'  PROVE Sane'
    OBVIOUS
  <2>1. ~mixed /\ ~Shared
    BY <1>2, Zenon
  <2>2. Sane
    BY <2>1 DEF DevInv
  <2>3. /\ Upright(opened', card') /\ Upright(opened', ring')
        /\ \A fd \in Fds : opened[fd] = Record => opened'[fd] = Record
    BY <1>0, <1>1, <1>3, <2>1, <2>2, ExchangeUpright DEF Sane, Shared
  <2>4. rec'.on => opened'[rec'.fd] = Record
    BY <1>0, <2>2, <2>3 DEF Sane, Settled, TypeOK
  <2>5. ~card'.none => card'.fd \in Fds
    BY <1>1, <1>4, <2>2 DEF Sane, Exchange, CardTried
  <2>6. sip' = "record" /\ ~raced' => rec'.on
    BY <2>2 DEF Sane, Settled
  <2>7. Upright(opened, card)' /\ Upright(opened, ring)'
    BY <2>3 DEF Upright
  <2>. QED  BY <1>4, <2>4, <2>5, <2>6, <2>7 DEF Sane
<1>10. Losses'
  <2>1. InUse(opened') \ {ring'.fd, card'.fd} \subseteq InUse(opened) \ {ring.fd, card.fd}
    BY <1>0, <1>1, <1>3, ExchangeLoses
  <2>2. InUse(opened') \ Kept' \subseteq InUse(opened) \ Kept
    BY <2>1 DEF Kept, Settled
  <2>. QED  BY <1>0, <2>2, NothingLost DEF DevInv, TypeOK, Settled
<1>11. Fits(card)' /\ Fits(ring)'
  BY <1>4 DEF Fits
<1>12. Beginning' => sip' = "start"
  BY DEF Settled
<1>. QED  BY <1>5, <1>6, <1>7, <1>8, <1>9, <1>10, <1>11, <1>12 DEF DevInv
----------------------------------------------------------------------------
(* The user thread *)

LEMMA UserIs ==
    ASSUME NEW device, NEW done, NEW failed,
           CardInit(device, done, failed) \/ RingInit(device, done, failed)
    PROVE  user' \in {done, failed}
<1>1. CASE CardInit(device, done, failed)
  <2>1. user' = done \/ user' = failed
    BY <1>1 DEF CardInit
  <2>. QED  BY <2>1
<1>2. CASE RingInit(device, done, failed)
  <2>1. user' = done \/ user' = failed
    BY <1>2 DEF RingInit
  <2>. QED  BY <2>1
<1>. QED  BY <1>1, <1>2

LEMMA PlacesAre ==
    /\ Rest = Then("rest", NoDevice)
    /\ NoDevice \in Names /\ Default \in Names /\ Devices \subseteq Names
BY NamesAre DEF Then, Rest, Names

LEMMA StartupStep ==
    ASSUME DevInv, Startup, Settled
    PROVE  DevInv'
<1>. USE PlacesAre
<1>1. ASSUME NEW device \in Names, user.at = "start card",
             CardInit(device, Then("start ring", NoDevice), Then("card default", NoDevice))
      PROVE  DevInv'
  <2>1. Follows(Then("start ring", NoDevice)) /\ Follows(Then("card default", NoDevice))
    BY DEF Follows, Then
  <2>2. user' \in {Then("start ring", NoDevice), Then("card default", NoDevice)}
    BY <1>1, UserIs
  <2>3. user'.at = "start ring" \/ user'.at = "card default"
    <3>1. Then("start ring", NoDevice).at = "start ring"
          /\ Then("card default", NoDevice).at = "card default"
      BY DEF Then
    <3>. QED  BY <2>2, <3>1
  <2>4. Unrung'
    BY <2>3 DEF Unrung
  <2>5. sip = "start"
    BY <1>1 DEF DevInv, Beginning
  <2>. QED  BY <1>1, <2>1, <2>4, <2>5, CardStep
<1>2. ASSUME user.at = "card default",
             CardInit(Default, Then("start ring", NoDevice), Then("start ring", NoDevice))
      PROVE  DevInv'
  <2>1. Follows(Then("start ring", NoDevice))
    BY DEF Follows, Then
  <2>2. user' = Then("start ring", NoDevice)
    BY <1>2, UserIs
  <2>3. Unrung' /\ sip = "start"
    BY <1>2, <2>2 DEF Unrung, DevInv, Beginning, Then
  <2>. QED  BY <1>2, <2>1, <2>3, CardStep
<1>3. ASSUME NEW device \in Names, user.at = "start ring",
             RingInit(device, Then("start file", NoDevice), Then("ring default", NoDevice))
      PROVE  DevInv'
  <2>1. Plain(Then("start file", NoDevice)) /\ Plain(Then("ring default", NoDevice))
    BY DEF Plain, Follows, Then
  <2>2. CardTried /\ sip = "start"
    BY <1>3 DEF CardTried, DevInv, Beginning
  <2>. QED  BY <1>3, <2>1, <2>2, RingStep
<1>4. ASSUME user.at = "ring default",
             RingInit(Default, Then("start file", NoDevice), Then("start file", NoDevice))
      PROVE  DevInv'
  <2>1. Plain(Then("start file", NoDevice))
    BY DEF Plain, Follows, Then
  <2>2. CardTried /\ sip = "start"
    BY <1>4 DEF CardTried, DevInv, Beginning
  <2>. QED  BY <1>4, <2>1, <2>2, RingStep
<1>. QED  BY <1>1, <1>2, <1>3, <1>4 DEF Startup

\* A command of the user thread exchanges a device outside of the beginning
LEMMA CommandStep ==
    ASSUME DevInv, NEW device \in Names, NEW done, NEW failed, Settled,
           ~Beginning, done.at \notin {"start card", "card default", "start ring",
                                       "ring default", "start file"},
           failed.at \notin {"start card", "card default", "start ring",
                             "ring default", "start file"},
           \/ CardInit(device, done, failed) /\ Follows(done) /\ Follows(failed)
           \/ RingInit(device, done, failed) /\ Plain(done) /\ Plain(failed)
    PROVE  DevInv'
<1>1. user' \in {done, failed}
  BY UserIs
<1>2. ~Beginning' /\ ~Unrung /\ CardTried
  BY <1>1 DEF Beginning, Unrung, CardTried
<1>3. CASE CardInit(device, done, failed) /\ Follows(done) /\ Follows(failed)
  BY <1>2, <1>3, CardStep
<1>4. CASE RingInit(device, done, failed) /\ Plain(done) /\ Plain(failed)
  BY <1>2, <1>4, RingStep
<1>. QED  BY <1>3, <1>4

LEMMA RenameStep ==
    ASSUME DevInv, GtkRename, Settled
    PROVE  DevInv'
<1>1. TypeOK /\ Fits(card) /\ Fits(ring)
  BY DEF DevInv
<1>2. user.at = "gtk ring" /\ user.device \in Devices /\ ring.fd # 0
  BY DEF GtkRename, InCommand, DevInv
<1>3. ring' = [device |-> user.device, fd |-> ring.fd, none |-> ring.none,
               data |-> ring.data]
  BY <1>1, TypesAre DEF GtkRename
<1>4. /\ user' = Then("rest", NoDevice) /\ mixed' = TRUE
      /\ opened' = opened /\ card' = card
  BY PlacesAre DEF GtkRename
<1>5. TypeOK'
  <2>1. /\ ring.fd \in Fds \cup {None, 0} /\ ring.none \in BOOLEAN /\ ring.data \in BOOLEAN
        /\ user.device \in Names
    BY <1>1, <1>2, PlacesAre DEF TypeOK
  <2>2. ring' \in [device : Names, fd : Fds \cup {None, 0}, none : BOOLEAN, data : BOOLEAN]
    BY <1>3, <2>1
  <2>3. user'.at = "rest" /\ user'.device \in Names
    BY <1>4, PlacesAre DEF Then
  <2>. QED  BY <1>1, <1>4, <2>2, <2>3 DEF TypeOK, Settled
<1>6. Fits(card)' /\ Fits(ring)'
  BY <1>1, <1>2, <1>3, <1>4, NamesAre DEF Fits
<1>7. /\ Beginning' => sip' = "start"
      /\ user'.at # "gtk ring"
  BY <1>4 DEF Beginning, Then
<1>8. Losses'
  <2>1. ring'.fd = ring.fd
    BY <1>3
  <2>2. InUse(opened') \ Kept' \subseteq InUse(opened) \ Kept
    BY <1>4, <2>1 DEF Kept, Settled
  <2>. QED  BY <1>1, <2>2, NothingLost DEF DevInv, TypeOK, Settled
<1>. QED  BY <1>4, <1>5, <1>6, <1>7, <1>8 DEF DevInv

LEMMA SettingStep ==
    ASSUME DevInv, Setting
    PROVE  DevInv'
<1>0. Settled
  BY DEF Setting, Settled
<1>d. user.device \in Names /\ card.device \in Names /\ ring.device \in Names
  BY DEF DevInv, TypeOK, Device
<1>r. Plain(Rest) /\ Rest.at = "rest"
  BY PlacesAre DEF Plain, Follows, Then
<1>1. CASE Startup
  BY <1>0, <1>1, StartupStep
<1>2. CASE SetCard
  <2>1. ~Beginning
    BY <1>2 DEF SetCard, InCommand, Beginning
  <2>2. Follows(Then("card again", card.device))
        /\ Then("card again", card.device).at = "card again"
    BY <1>d, PlacesAre DEF Follows, Then
  <2>3. PICK device \in Names : CardInit(device, Rest, Then("card again", card.device))
    BY <1>2 DEF SetCard
  <2>. QED  BY <1>0, <1>r, <2>1, <2>2, <2>3, CommandStep DEF Plain
<1>3. CASE CardAgain
  <2>1. ~Beginning /\ CardInit(user.device, Rest, Rest)
    BY <1>3 DEF CardAgain, InCommand, Beginning
  <2>. QED  BY <1>0, <1>d, <1>r, <2>1, CommandStep DEF Plain
<1>4. CASE SetRing
  <2>1. ~Beginning
    BY <1>4 DEF SetRing, InCommand, Beginning
  <2>2. Plain(Then("ring again", ring.device))
        /\ Then("ring again", ring.device).at = "ring again"
    BY <1>d, PlacesAre DEF Plain, Follows, Then
  <2>3. PICK device \in Names : RingInit(device, Rest, Then("ring again", ring.device))
    BY <1>4 DEF SetRing
  <2>. QED  BY <1>0, <1>r, <2>1, <2>2, <2>3, CommandStep
<1>5. CASE RingAgain
  <2>1. ~Beginning /\ RingInit(user.device, Rest, Rest)
    BY <1>5 DEF RingAgain, InCommand, Beginning
  <2>. QED  BY <1>0, <1>d, <1>r, <2>1, CommandStep
<1>6. CASE GtkSetRing
  <2>1. ~Beginning
    BY <1>6 DEF GtkSetRing, InCommand, Beginning
  <2>2. PICK device \in Devices :
            CardInit(device, Then("gtk ring", device), Then("card again", ring.device))
    BY <1>6 DEF GtkSetRing
  <2>3. /\ Follows(Then("gtk ring", device)) /\ Follows(Then("card again", ring.device))
        /\ Then("gtk ring", device).at = "gtk ring"
        /\ Then("card again", ring.device).at = "card again"
        /\ device \in Names
    BY <1>d, PlacesAre DEF Follows, Then
  <2>. QED  BY <1>0, <2>1, <2>2, <2>3, CommandStep
<1>7. CASE GtkRename
  BY <1>0, <1>7, RenameStep
<1>. QED  BY <1>1, <1>2, <1>3, <1>4, <1>5, <1>6, <1>7 DEF Setting
\* Nothing changes of the descriptors and what has them
LEMMA NothingOpened ==
    ASSUME DevInv, UNCHANGED <<opened, card, ring, rec, cuts>>
    PROVE  /\ Fits(card)' /\ Fits(ring)' /\ Losses'
           /\ Upright(opened, card) => Upright(opened, card)'
           /\ Upright(opened, ring) => Upright(opened, ring)'
           /\ (rec.on => opened[rec.fd] = Record) => (rec.on => opened[rec.fd] = Record)'
<1>1. InUse(opened') \ Kept' \subseteq InUse(opened) \ Kept
  BY DEF Kept
<1>2. Losses'
  BY <1>1, NothingLost DEF DevInv, TypeOK
<1>. QED  BY <1>2 DEF DevInv, Fits, Upright

LEMMA SetRingFileStep ==
    ASSUME DevInv, SetRingFile
    PROVE  DevInv'
<1>1. TypeOK /\ Fits(card) /\ Fits(ring)
  BY DEF DevInv
<1>2. PICK loaded \in BOOLEAN :
          ring' = [ring EXCEPT !.data = loaded, !.none = ~(loaded /\ ring.fd > 2)]
  BY DEF SetRingFile
<1>. DEFINE none == ~(loaded /\ ring.fd > 2)
<1>n. none \in BOOLEAN
  BY Zenon
<1>f. ~none => ring.fd > 2
  OBVIOUS
<1>0. ring \in [device : Names, fd : Fds \cup {None, 0}, none : BOOLEAN, data : BOOLEAN]
  BY <1>1 DEF TypeOK
<1>. HIDE DEF none
<1>2a. ring' = [ring EXCEPT !.data = loaded, !.none = none]
  BY <1>2 DEF none
<1>3. ring' = [device |-> ring.device, fd |-> ring.fd, none |-> none, data |-> loaded]
  BY <1>0, <1>2a
<1>4. /\ user' = Rest
      /\ UNCHANGED <<opened, card, rec, cn, gtk, sip, mixed, strays, cuts>>
  BY DEF SetRingFile
<1>5. raced' = (raced \/ sip = "ringing")
  BY Zenon DEF SetRingFile
<1>6. user'.at = "rest" /\ user'.device \in Names
  BY <1>4, PlacesAre DEF Rest
<1>7. TypeOK'
  <2>1. ring' \in [device : Names, fd : Fds \cup {None, 0}, none : BOOLEAN, data : BOOLEAN]
    BY <1>0, <1>n, <1>3
  <2>2. raced' \in BOOLEAN
    BY <1>5, Zenon
  <2>. QED  BY <1>1, <1>4, <1>6, <2>1, <2>2 DEF TypeOK
<1>8. Fits(card)' /\ Fits(ring)'
  BY <1>1, <1>3, <1>4 DEF Fits
<1>9. strays' => mixed' \/ raced'
  BY <1>4, <1>5, Zenon DEF DevInv
<1>10. ~mixed' => Sane'
  <2>. SUFFICES ASSUME ~mixed'  PROVE Sane'
    OBVIOUS
  <2>1. Sane
    BY <1>4 DEF DevInv
  <2>2. Upright(opened, card)' /\ Upright(opened, ring)'
    BY <1>3, <1>4, <2>1 DEF Sane, Upright
  <2>3. (rec.on => opened[rec.fd] = Record)'
    BY <1>4, <2>1 DEF Sane
  <2>4. user.at # "start card"
    BY DEF SetRingFile, InCommand
  <2>5. ~card'.none => card'.fd \in Fds
    BY <1>4, <2>1, <2>4 DEF Sane
  <2>6. ~ring'.none => ring'.fd \in Fds
    <3>1. ~none => ring.fd \in Fds
      BY <1>0, <1>f DEF None
    <3>2. ring'.none = none /\ ring'.fd = ring.fd
      BY <1>3
    <3>. QED  BY <3>1, <3>2
  <2>7. (sip = "record" /\ ~raced => rec.on)'
    <3>1. ~raced' => ~raced
      BY <1>5, Zenon
    <3>. QED  BY <1>4, <2>1, <3>1 DEF Sane
  <2>. QED  BY <2>2, <2>3, <2>5, <2>6, <2>7 DEF Sane
<1>11. Losses'
  <2>1. ring'.fd = ring.fd
    BY <1>3
  <2>2. InUse(opened') \ Kept' \subseteq InUse(opened) \ Kept
    BY <1>4, <2>1 DEF Kept
  <2>. QED  BY <1>1, <1>4, <2>2, NothingLost DEF DevInv, TypeOK
<1>12. Beginning' => sip' = "start"
  BY <1>6 DEF Beginning
<1>13. sip' = "stuck" => mixed'
  BY <1>4 DEF DevInv
<1>. QED  BY <1>6, <1>7, <1>8, <1>9, <1>10, <1>11, <1>12, <1>13 DEF DevInv

LEMMA RecordStartStep ==
    ASSUME DevInv, RecordStart, UNCHANGED <<card, ring, cn, user, gtk, sip, history>>
    PROVE  DevInv'
<1>1. TypeOK /\ opened \in Tables /\ rec.on = FALSE /\ Room(opened) /\ user.at = "rest"
  BY TypesAre DEF DevInv, RecordStart, InCommand, TypeOK
<1>2. UNCHANGED <<card, ring, cn, user, gtk, sip, mixed, raced, strays, cuts>>
  BY DEF history
<1>3. /\ opened' \in Tables
      /\ \/ rec' = [fd |-> 0, on |-> FALSE] /\ opened' = opened
         \/ /\ rec' = [fd |-> Lowest(opened), on |-> TRUE] /\ Lowest(opened) \in Fds
            /\ opened[Lowest(opened)] = Closed
            /\ opened'[Lowest(opened)] = Record
            /\ \A fd \in Fds \ {Lowest(opened)} : opened'[fd] = opened[fd]
  <2>1. CASE opened' = opened /\ rec' = [fd |-> 0, on |-> FALSE]
    BY <1>1, <2>1
  <2>2. CASE opened' = Opened(opened, Record) /\ rec' = [fd |-> Lowest(opened), on |-> TRUE]
    <3>1. Record \in Things
      BY DEF Things
    <3>2. /\ Opened(opened, Record) \in Tables
          /\ Opened(opened, Record)[Lowest(opened)] = Record
          /\ \A fd \in Fds \ {Lowest(opened)} : Opened(opened, Record)[fd] = opened[fd]
      BY <1>1, <3>1, OpenedIs
    <3>3. Lowest(opened) \in Fds /\ opened[Lowest(opened)] = Closed
      BY <1>1, LowestIs
    <3>. QED  BY <2>2, <3>2, <3>3
  <2>. QED  BY <2>1, <2>2 DEF RecordStart
<1>4. TypeOK'
  <2>1. rec' \in [fd : Fds \cup {None, 0}, on : BOOLEAN] /\ (rec'.on => rec'.fd \in Fds)
    <3>1. CASE rec' = [fd |-> 0, on |-> FALSE]
      BY <3>1
    <3>2. CASE rec' = [fd |-> Lowest(opened), on |-> TRUE] /\ Lowest(opened) \in Fds
      BY <3>2
    <3>. QED  BY <1>3, <3>1, <3>2
  <2>2. opened' \in [Fds -> Devices \cup {Record, Closed}]
    BY <1>3 DEF Tables, Things
  <2>. QED  BY <1>1, <1>2, <2>1, <2>2 DEF TypeOK
<1>5. ~mixed' => Sane'
  <2>. SUFFICES ASSUME ~mixed'  PROVE Sane'
    OBVIOUS
  <2>1. Sane
    BY <1>2 DEF DevInv
  <2>2. \A fd \in Fds : opened[fd] # Closed => opened'[fd] = opened[fd]
    BY <1>3
  <2>3. Upright(opened, card)' /\ Upright(opened, ring)'
    BY <1>2, <2>1, <2>2, NamesAre DEF Sane, Upright
  <2>4. (rec.on => opened[rec.fd] = Record)'
    BY <1>3
  <2>5. (sip = "record" /\ ~raced => rec.on)'
    BY <1>1, <1>2, <2>1 DEF Sane
  <2>. QED  BY <1>2, <2>1, <2>3, <2>4, <2>5 DEF Sane, Unrung
<1>6. Losses'
  <2>1. InUse(opened') \ Kept' \subseteq InUse(opened) \ Kept
    BY <1>1, <1>2, <1>3 DEF Kept, InUse
  <2>. QED  BY <1>1, <1>2, <2>1, NothingLost DEF DevInv, TypeOK
<1>. QED  BY <1>2, <1>4, <1>5, <1>6 DEF DevInv, Fits, Beginning

LEMMA RecordStopStep ==
    ASSUME DevInv, RecordStop
    PROVE  DevInv'
<1>1. /\ TypeOK /\ opened \in Tables /\ rec.on = TRUE /\ rec.fd \in Fds /\ user.at = "rest"
      /\ rec.fd \in Numbers
  BY TypesAre DEF DevInv, RecordStop, InCommand, TypeOK
<1>2. /\ UNCHANGED <<card, ring, cn, user, gtk, sip, mixed, strays, cuts>>
      /\ rec' = [fd |-> None, on |-> FALSE]
  BY DEF RecordStop
<1>3. raced' = (raced \/ sip = "record")
  BY Zenon DEF RecordStop
<1>4. /\ opened' \in Tables /\ opened'[rec.fd] = Closed
      /\ \A fd \in Fds \ {rec.fd} : opened'[fd] = opened[fd]
  BY <1>1, CloseIs DEF RecordStop
<1>5. TypeOK'
  <2>1. rec' \in [fd : Fds \cup {None, 0}, on : BOOLEAN] /\ ~rec'.on
    BY <1>2
  <2>2. opened' \in [Fds -> Devices \cup {Record, Closed}]
    BY <1>4 DEF Tables, Things
  <2>3. raced' \in BOOLEAN
    BY <1>3, Zenon
  <2>. QED  BY <1>1, <1>2, <2>1, <2>2, <2>3 DEF TypeOK
<1>6. ~mixed' => Sane'
  <2>. SUFFICES ASSUME ~mixed'  PROVE Sane'
    OBVIOUS
  <2>1. Sane
    BY <1>2 DEF DevInv
  <2>2. card.fd # rec.fd /\ ring.fd # rec.fd
    BY <1>1, <2>1, NamesAre DEF Sane, Upright
  <2>3. Upright(opened, card)' /\ Upright(opened, ring)'
    BY <1>2, <1>4, <2>1, <2>2 DEF Sane, Upright
  <2>4. (rec.on => opened[rec.fd] = Record)'
    BY <1>2
  <2>5. (sip = "record" /\ ~raced => rec.on)'
    <3>1. sip = "record" => raced'
      BY <1>3, Zenon
    <3>. QED  BY <1>2, <3>1
  <2>. QED  BY <1>2, <2>1, <2>3, <2>4, <2>5 DEF Sane, Unrung
<1>7. Losses'
  <2>1. InUse(opened') \ Kept' \subseteq InUse(opened) \ Kept
    BY <1>1, <1>2, <1>4 DEF Kept, InUse
  <2>. QED  BY <1>1, <1>2, <2>1, NothingLost DEF DevInv, TypeOK
<1>8. strays' => mixed' \/ raced'
  BY <1>2, <1>3, Zenon DEF DevInv
<1>. QED  BY <1>2, <1>5, <1>6, <1>7, <1>8 DEF DevInv, Fits, Beginning
----------------------------------------------------------------------------
(* The SIP thread *)

\* What it plays on is a sound device, or the devices were mixed up
LEMMA CardSounds ==
    ASSUME DevInv, sip = "rest", NEW next, sip' \in After(card, next)
    PROVE  sip' = next \/ (sip' = "stuck" /\ mixed)
<1>1. SUFFICES ASSUME ~mixed  PROVE After(card, next) = {next}
  BY DEF After
<1>2. Sane /\ user.at # "start card"
  BY <1>1 DEF DevInv, Beginning
<1>3. card.none \/ IsSound(opened, card.fd)
  BY <1>2 DEF Sane, Upright, IsSound
<1>. QED  BY <1>3 DEF After

LEMMA RingSounds ==
    ASSUME DevInv, sip = "rest", NEW next, sip' \in After(ring, next)
    PROVE  sip' = next \/ (sip' = "stuck" /\ mixed)
<1>1. SUFFICES ASSUME ~mixed  PROVE After(ring, next) = {next}
  BY DEF After
<1>2. Sane /\ ~Unrung
  BY <1>1 DEF DevInv, Beginning, Unrung
<1>3. ring.none \/ IsSound(opened, ring.fd)
  BY <1>2 DEF Sane, Upright, IsSound
<1>. QED  BY <1>3 DEF After

\* A step of the thread that only plays, or begins to record
LEMMA PlayStep ==
    ASSUME DevInv, UNCHANGED <<opened, card, ring, rec, user, gtk, history>>,
           cn' \in BOOLEAN, ~Beginning,
           \/ sip' \in {"rest", "ringing"}
           \/ sip' = "record" /\ rec.on
           \/ sip' = "stuck" /\ mixed
    PROVE  DevInv'
<1>1. UNCHANGED <<mixed, raced, strays, cuts>>
  BY DEF history
<1>2. TypeOK'
  <2>1. sip' \in {"start", "rest", "record", "ringing", "stuck"}
    OBVIOUS
  <2>2. TypeOK
    BY DEF DevInv
  <2>. QED  BY <1>1, <2>1, <2>2 DEF TypeOK
<1>3. Fits(card)' /\ Fits(ring)' /\ Losses'
  BY <1>1, NothingOpened
<1>4. ~mixed' => Sane'
  <2>. SUFFICES ASSUME ~mixed'  PROVE Sane'
    OBVIOUS
  <2>1. Sane
    BY <1>1 DEF DevInv
  <2>2. Upright(opened, card)' /\ Upright(opened, ring)'
    BY <2>1 DEF Sane, Upright
  <2>3. (sip = "record" /\ ~raced => rec.on)'
    OBVIOUS
  <2>. QED  BY <2>1, <2>2, <2>3 DEF Sane, Unrung
<1>. QED  BY <1>1, <1>2, <1>3, <1>4 DEF DevInv, Beginning

LEMMA WriteRecordStep ==
    ASSUME DevInv, WriteRecord
    PROVE  DevInv'
<1>1. /\ UNCHANGED <<opened, card, ring, rec, cn, user, gtk, mixed, raced, cuts>>
      /\ sip = "record" /\ sip' = "rest" /\ ~Beginning
  BY DEF WriteRecord, DevInv
<1>2. strays' = (strays \/ Target(rec.fd) \in Devices)
  BY Zenon DEF WriteRecord
<1>3. strays' \in BOOLEAN
  BY <1>2, Zenon
<1>4. TypeOK'
  BY <1>1, <1>3 DEF DevInv, TypeOK
<1>5. Fits(card)' /\ Fits(ring)' /\ Losses'
  BY <1>1, NothingOpened
<1>6. ~mixed' => Sane'
  BY <1>1 DEF DevInv, Sane, Upright, Unrung
<1>7. ~mixed /\ ~raced => Target(rec.fd) \notin Devices
  <2>. SUFFICES ASSUME ~mixed, ~raced  PROVE Target(rec.fd) \notin Devices
    OBVIOUS
  <2>1. rec.on /\ opened[rec.fd] = Record /\ rec.fd \in Fds
    BY <1>1 DEF DevInv, Sane, TypeOK
  <2>. QED  BY <2>1, NamesAre DEF Target
<1>8. strays' => mixed' \/ raced'
  <2>1. strays => mixed \/ raced
    BY DEF DevInv
  <2>2. mixed' = mixed /\ raced' = raced
    BY <1>1
  <2>. QED  BY <1>2, <1>7, <2>1, <2>2, Zenon
<1>. QED  BY <1>1, <1>4, <1>5, <1>6, <1>8 DEF DevInv, Beginning

\* The one loss: a recording is cut off, and counted
LEMMA CallEndsStep ==
    ASSUME DevInv, CallEnds
    PROVE  DevInv'
<1>1. /\ TypeOK /\ rec.on = TRUE /\ rec.fd \in Fds /\ sip = "rest"
      /\ rec = [fd |-> rec.fd, on |-> rec.on]
  BY TypesAre DEF DevInv, CallEnds, TypeOK
<1>2. /\ UNCHANGED <<opened, card, ring, cn, user, gtk, sip, mixed, raced, strays>>
      /\ cuts' = cuts + 1 /\ cuts \in Nat
  BY <1>1 DEF CallEnds, TypeOK
<1>3. rec' = [fd |-> rec.fd, on |-> FALSE]
  <2>1. rec \in [fd : Fds \cup {None, 0}, on : BOOLEAN]
    BY <1>1 DEF TypeOK
  <2>2. rec' = [rec EXCEPT !.on = FALSE]
    BY DEF CallEnds
  <2>. QED  BY <2>1, <2>2
<1>4. TypeOK'
  <2>1. rec' \in [fd : Fds \cup {None, 0}, on : BOOLEAN] /\ ~rec'.on
    BY <1>1, <1>3 DEF TypeOK
  <2>2. cuts' \in Nat
    BY <1>2
  <2>3. UNCHANGED <<opened, card, ring, cn, user, gtk, sip, mixed, raced, strays>>
    BY <1>2
  <2>. QED  BY <1>1, <2>1, <2>2, <2>3 DEF TypeOK
<1>5. ~mixed' => Sane'
  BY <1>1, <1>2, <1>3 DEF DevInv, Sane, Upright, Unrung
<1>6. Losses'
  <2>. DEFINE S == InUse(opened) \ Kept
              T == InUse(opened') \ Kept'
  <2>1. T \subseteq S \cup {rec.fd} /\ S \subseteq Fds /\ S \cup {rec.fd} \subseteq Fds
    BY <1>1, <1>2 DEF Kept, InUse
  <2>2. Cardinality(S) =< cuts
    BY DEF DevInv, Losses
  <2>. HIDE DEF S, T
  <2>3. IsFiniteSet(S)
    <3>1. IsFiniteSet(Fds)
      BY FS_Interval, BoundsAssumption DEF Fds, BoundsAssumption
    <3>. QED  BY <2>1, <3>1, FS_Subset
  <2>4. Cardinality(S) \in Nat /\ Cardinality(T) \in Nat
        /\ Cardinality(T) =< Cardinality(S \cup {rec.fd})
        /\ Cardinality(S \cup {rec.fd}) \in Nat
    BY <2>1, FewerFds
  <2>5. Cardinality(S \cup {rec.fd}) =< Cardinality(S) + 1
    <3>1. Cardinality(S \cup {rec.fd})
              = IF rec.fd \in S THEN Cardinality(S) ELSE Cardinality(S) + 1
      BY <2>3, FS_AddElement
    <3>. QED  BY <2>4, <3>1
  <2>6. Cardinality(T) =< cuts'
    BY <1>2, <2>2, <2>4, <2>5
  <2>. QED  BY <2>6 DEF T, Losses, InUse
<1>. QED  BY <1>2, <1>4, <1>5, <1>6 DEF DevInv, Fits, Beginning
LEMMA SipThreadStep ==
    ASSUME DevInv, SipThread
    PROVE  DevInv'
<1>b. sip # "start" => ~Beginning
  BY DEF DevInv
<1>c. cn \in BOOLEAN /\ rec.on \in BOOLEAN
  BY DEF DevInv, TypeOK
<1>1. CASE ThreadStarts
  <2>1. ~Beginning
    BY <1>1 DEF ThreadStarts, Beginning
  <2>. QED  BY <1>1, <1>c, <2>1, PlayStep DEF ThreadStarts
<1>2. CASE ReceiveVoice
  <2>. DEFINE next == IF rec.on THEN "record" ELSE "rest"
  <2>1. sip' = next \/ (sip' = "stuck" /\ mixed)
    <3>1. sip = "rest" /\ sip' \in After(card, next)
      BY <1>2 DEF ReceiveVoice
    <3>. HIDE DEF next
    <3>. QED  BY <3>1, CardSounds
  <2>2. cn' \in BOOLEAN /\ ~Beginning
        /\ UNCHANGED <<opened, card, ring, rec, user, gtk, history>>
    BY <1>2, <1>b DEF ReceiveVoice
  <2>. QED  BY <2>1, <2>2, PlayStep
<1>3. CASE WriteRecord
  BY <1>3, WriteRecordStep
<1>4. CASE ReceiveNoise
  <2>1. sip' = "rest" \/ (sip' = "stuck" /\ mixed)
    <3>1. sip = "rest" /\ sip' \in After(card, "rest")
      BY <1>4 DEF ReceiveNoise
    <3>. QED  BY <3>1, CardSounds
  <2>2. cn' \in BOOLEAN /\ ~Beginning
        /\ UNCHANGED <<opened, card, ring, rec, user, gtk, history>>
    BY <1>4, <1>b DEF ReceiveNoise
  <2>. QED  BY <2>1, <2>2, PlayStep
<1>5. CASE PlayNoise
  <2>1. sip' = "rest" \/ (sip' = "stuck" /\ mixed)
    <3>1. sip = "rest" /\ sip' \in After(card, "rest")
      BY <1>5 DEF PlayNoise
    <3>. QED  BY <3>1, CardSounds
  <2>2. cn' \in BOOLEAN /\ ~Beginning
        /\ UNCHANGED <<opened, card, ring, rec, user, gtk, history>>
    BY <1>5, <1>b, <1>c DEF PlayNoise
  <2>. QED  BY <2>1, <2>2, PlayStep
<1>6. CASE Ring
  <2>1. sip' = "ringing" \/ (sip' = "stuck" /\ mixed)
    <3>1. sip = "rest" /\ sip' \in After(ring, "ringing")
      BY <1>6 DEF Ring
    <3>. QED  BY <3>1, RingSounds
  <2>2. cn' \in BOOLEAN /\ ~Beginning
        /\ UNCHANGED <<opened, card, ring, rec, user, gtk, history>>
    BY <1>6, <1>b, <1>c DEF Ring
  <2>. QED  BY <2>1, <2>2, PlayStep
<1>7. CASE RingEnds
  BY <1>7, <1>b, <1>c, PlayStep DEF RingEnds
<1>8. CASE CallEnds
  BY <1>8, CallEndsStep
<1>. QED  BY <1>1, <1>2, <1>3, <1>4, <1>5, <1>6, <1>7, <1>8 DEF SipThread

LEMMA DevInvNext == DevInv /\ [Next]_vars => DevInv'
<1>. SUFFICES ASSUME DevInv, [Next]_vars  PROVE DevInv'
  OBVIOUS
<1>1. CASE Setting
  BY <1>1, SettingStep
<1>2. CASE SetRingFile
  BY <1>2, SetRingFileStep
<1>3. CASE RecordStart /\ UNCHANGED <<card, ring, cn, user, gtk, sip, history>>
  BY <1>3, RecordStartStep
<1>4. CASE RecordStop
  BY <1>4, RecordStopStep
<1>5. CASE SipThread
  BY <1>5, SipThreadStep
<1>6. CASE UNCHANGED vars
  <2>1. UNCHANGED <<opened, card, ring, rec, cn, user, gtk, sip, mixed, raced, strays, cuts>>
    BY <1>6 DEF vars
  <2>2. TypeOK'
    BY <2>1 DEF DevInv, TypeOK
  <2>3. Fits(card)' /\ Fits(ring)' /\ Losses'
    BY <2>1, NothingOpened
  <2>4. ~mixed' => Sane'
    BY <2>1 DEF DevInv, Sane, Upright, Unrung
  <2>. QED  BY <2>1, <2>2, <2>3, <2>4 DEF DevInv, Beginning
<1>. QED  BY <1>1, <1>2, <1>3, <1>4, <1>5, <1>6 DEF Next, Recording

\* The invariant that the theorems follow from
THEOREM DevInvHolds == Spec => []DevInv
BY DevInvInit, DevInvNext, PTL DEF Spec

\* What the user agent plays on is open, and is the device it was named, until one of
\* two devices that shared a descriptor gives it up: soundcard_init() and
\* ringtone_device_init() close, lend and open in every order
THEOREM DevicesStayOpen == Spec => []DeviceIsOpen
<1>1. DevInv => DeviceIsOpen
  <2>. SUFFICES ASSUME DevInv, Started, ~mixed
                PROVE  /\ ~card.none => Target(card.fd) = card.device
                       /\ ~ring.none => Target(ring.fd) = ring.device
    BY DEF DeviceIsOpen, DevInv
  <2>1. Sane /\ user.at # "start card" /\ ~Unrung
    BY DEF DevInv, Started, Beginning, Unrung
  <2>. QED  BY <2>1 DEF Sane, Upright, Target
<1>. QED  BY <1>1, DevInvHolds, PTL

\* The SIP thread hangs in soundcard_write() or ringtone_write() only on devices that
\* were mixed up, and voice strays from its record file only if they were, or if the
\* recording ended between the test of rtp_recv() and its write
THEOREM TheSipThreadGoesOn == Spec => []ThreadGoesOn
<1>1. DevInv => ThreadGoesOn
  BY DEF DevInv, ThreadGoesOn
<1>. QED  BY <1>1, DevInvHolds, PTL

\* Whatever is set, recorded and exchanged, the open descriptors that nothing names any
\* more are no more than the recordings that ended with their call
THEOREM NoDescriptorIsLost == Spec => []OnlyCutRecordingsLeak
<1>1. DevInv => OnlyCutRecordingsLeak
  <2>. SUFFICES ASSUME DevInv  PROVE OnlyCutRecordingsLeak
    OBVIOUS
  <2>. DEFINE S == {fd \in Fds : opened[fd] # Closed} \ Held
              T == InUse(opened) \ Kept
  <2>1. S \subseteq T /\ T \subseteq Fds
    BY DEF InUse, Held, Kept
  <2>2. Cardinality(T) =< cuts /\ cuts \in Nat
    BY DEF DevInv, Losses, TypeOK
  <2>. HIDE DEF S, T
  <2>3. Cardinality(S) \in Nat /\ Cardinality(T) \in Nat
        /\ Cardinality(S) =< Cardinality(T)
    BY <2>1, FewerFds
  <2>4. Cardinality(S) =< cuts
    BY <2>2, <2>3
  <2>. QED  BY <2>4 DEF S, OnlyCutRecordingsLeak
<1>. QED  BY <1>1, DevInvHolds, PTL
=============================================================================
