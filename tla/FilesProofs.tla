---------------------------- MODULE FilesProofs ----------------------------
(***************************************************************************)
(* Proofs about what the program keeps between its runs.                   *)
(*                                                                         *)
(* Settings: through any number of starts, ends, faults and kills, one     *)
(* complete file survives a file that is not finished, and what was chosen *)
(* comes back.                                                             *)
(*                                                                         *)
(* CallHistory: however two threads meet in history_insert_event(), the    *)
(* list ends, and if they do not meet it has every event, the newest       *)
(* first.  The two share no variable; each theorem is about one of them.   *)
(***************************************************************************)
EXTENDS Settings, CallHistory, FiniteSetTheorems, WellFoundedInduction, TLAPS

\* While no file is being written, an unfinished one leaves a complete one behind, and
\* before that the config file itself is complete.  While one is, the backup is.
Survives ==
    /\ torn \in Nat
    /\ phase \notin {"create", "write"} /\ torn = 0 => Complete(file)
    /\ phase \notin {"create", "write"} /\ torn = 1 => Complete(file) \/ Complete(backup)
    /\ phase \in {"create", "write"} /\ torn = 0 => Complete(backup)

LEMMA NoneIsTorn == ~Complete(None)
BY DEF Complete

\* A step that leaves the files, their number and the kind of the phase
LEMMA SameFiles ==
    ASSUME Survives, UNCHANGED <<file, backup, torn>>,
           phase' \in {"create", "write"} <=> phase \in {"create", "write"}
    PROVE  Survives'
BY DEF Survives, Complete

\* Starts, and the steps up to the commands
LEMMA StartKeeps ==
    ASSUME Survives, Start \/ FileCreated \/ Load \/ LoadBackup \/ Argument \/ Apply \/ Set
    PROVE  Survives'
<1>1. CASE Start
  <2>1. backup' = backup /\ torn' = torn /\ phase = "off"
    BY <1>1 DEF Start
  <2>2. CASE ~noconfig' /\ file = None
    <3>1. phase' = "create"
      BY <1>1, <2>2 DEF Start
    <3>2. torn # 0
      BY <2>1, <2>2, NoneIsTorn DEF Survives
    <3>. QED  BY <2>1, <3>1, <3>2 DEF Survives
  <2>3. CASE ~(~noconfig' /\ file = None)
    <3>1. file' = file /\ phase' \notin {"create", "write"}
      BY <1>1, <2>3 DEF Start
    <3>. QED  BY <2>1, <3>1, SameFiles
  <2>. QED  BY <2>2, <2>3
<1>2. CASE FileCreated
  <2>1. phase' = "load" /\ torn' = 0 /\ Complete(file) /\ file' = file
    BY <1>2 DEF FileCreated, files
  <2>. QED  BY <2>1 DEF Survives, Complete
<1>3. CASE Load \/ LoadBackup
  <2>1. UNCHANGED <<file, backup, torn>> /\ phase = "load" /\ phase' \in {"args", "off"}
    BY <1>3 DEF Load, LoadBackup, files, history
  <2>. QED  BY <2>1, SameFiles
<1>4. CASE Argument \/ Set
  BY <1>4, SameFiles DEF Argument, Set, files
<1>5. CASE Apply
  <2>1. UNCHANGED <<file, backup, torn>> /\ phase = "args" /\ phase' = "run"
    BY <1>5 DEF Apply, files
  <2>. QED  BY <2>1, SameFiles
<1>. QED  BY <1>1, <1>2, <1>3, <1>4, <1>5

\* The file is written, or not finished
LEMMA EndKeeps ==
    ASSUME Survives, WriteLine \/ Quit \/ CannotCreate \/ FileWritten \/ Kill
    PROVE  Survives'
<1>1. CASE WriteLine
  <2>1. phase \in {"create", "write"} /\ UNCHANGED <<phase, backup, torn>>
    BY <1>1 DEF WriteLine, history
  <2>. QED  BY <2>1 DEF Survives, Complete
<1>2. CASE Quit
  <2>1. phase = "run" /\ torn' = torn
    BY <1>2 DEF Quit, history
  <2>2. CASE noconfig
    <3>1. phase' = "off" /\ UNCHANGED <<file, backup>>
      BY <1>2, <2>2 DEF Quit, files
    <3>. QED  BY <2>1, <3>1, SameFiles
  <2>3. CASE ~noconfig
    <3>1. phase' = "write" /\ backup' = file
      BY <1>2, <2>3 DEF Quit
    <3>. QED  BY <2>1, <3>1 DEF Survives, Complete
  <2>. QED  BY <2>2, <2>3
<1>3. CASE CannotCreate
  <2>1. phase = "run" /\ phase' = "off" /\ torn' = torn + 1 /\ backup' = file
    BY <1>3 DEF CannotCreate
  <2>. QED  BY <2>1 DEF Survives, Complete
<1>4. CASE FileWritten
  <2>1. phase' = "off" /\ torn' = 0 /\ Complete(file) /\ file' = file
    BY <1>4 DEF FileWritten, files
  <2>. QED  BY <2>1 DEF Survives, Complete
<1>5. CASE Kill
  <2>1. phase' = "off" /\ UNCHANGED <<file, backup>>
    BY <1>5 DEF Kill, files
  <2>2. CASE phase \in {"create", "write"}
    <3>1. torn' = torn + 1
      BY <1>5, <2>2 DEF Kill
    <3>. QED  BY <2>1, <2>2, <3>1 DEF Survives, Complete
  <2>3. CASE phase \notin {"create", "write"}
    <3>1. torn' = torn
      BY <1>5, <2>3 DEF Kill
    <3>. QED  BY <2>1, <2>3, <3>1, SameFiles
  <2>. QED  BY <2>2, <2>3
<1>. QED  BY <1>1, <1>2, <1>3, <1>4, <1>5

\* However often the program starts, ends or is killed, the config file or its backup is
\* complete, unless two files in a row were not finished
THEOREM CompleteFileSurvives == Spec => []OneIsComplete
<1>1. Init => Survives
  BY DEF Init, Survives
<1>2. Survives /\ [Next]_vars => Survives'
  <2>1. Survives /\ UNCHANGED vars => Survives'
    BY SameFiles DEF vars
  <2>. QED  BY <2>1, StartKeeps, EndKeeps DEF Next
<1>3. Survives => OneIsComplete
  BY DEF Survives, OneIsComplete, Writing
<1>. QED  BY <1>1, <1>2, <1>3, PTL DEF Spec

----------------------------------------------------------------------------
(* Keys, values and lines *)

LEMMA KeysAre ==
    /\ Len(Keys) \in Nat \ {0} /\ DOMAIN Keys = 1 .. Len(Keys)
    /\ Key = {"debug", "log", "nat", "if_name", "sip_port", "rtp_port", "stun_server",
              "remote_uri", "register_uri", "outbound_proxy_host", "outbound_proxy_port",
              "soundcard", "ringtone_device", "ringtone_file", "dns"}
<1>0. Len(Keys) = 15
  BY DEF Keys
<1>2. Len(Keys) \in Nat /\ DOMAIN Keys = 1 .. Len(Keys) /\ DOMAIN Keys = 1 .. 15
  BY <1>0 DEF Keys
<1>3. Key = {Keys[1], Keys[2], Keys[3], Keys[4], Keys[5], Keys[6], Keys[7], Keys[8],
             Keys[9], Keys[10], Keys[11], Keys[12], Keys[13], Keys[14], Keys[15]}
  <2>1. \A i \in 1 .. 15 : \/ i = 1 \/ i = 2 \/ i = 3 \/ i = 4 \/ i = 5 \/ i = 6 \/ i = 7
                           \/ i = 8 \/ i = 9 \/ i = 10 \/ i = 11 \/ i = 12 \/ i = 13
                           \/ i = 14 \/ i = 15
    OBVIOUS
  <2>2. DOMAIN Keys = {1, 2, 3, 4, 5, 6, 7, 8, 9, 10, 11, 12, 13, 14, 15}
    <3>1. 1 .. 15 = {1, 2, 3, 4, 5, 6, 7, 8, 9, 10, 11, 12, 13, 14, 15}
      BY <2>1
    <3>. QED  BY <1>2, <3>1
  <2>3. Key = {Keys[i] : i \in {1, 2, 3, 4, 5, 6, 7, 8, 9, 10, 11, 12, 13, 14, 15}}
    BY <2>2 DEF Key
  <2>. HIDE DEF Keys, Key
  <2>. QED  BY <2>3
<1>. QED  BY <1>0, <1>2, <1>3 DEF Keys

\* A setting for every key
AllValues == UNION {Values(k) : k \in Key}

Records == {r \in [Key -> AllValues] : \A k \in Key : r[k] \in Values(k)}

LEMMA ValuesOfKeys ==
    /\ \A k \in Key : {Defaults[k], Created[k], "lo", ""} \subseteq Values(k)
    /\ \A k \in Key : Choices[k] \subseteq Values(k)
    /\ "eth0" \in Values("if_name")
    /\ \A k \in Key : \A v \in Values(k) : v \in AllValues
    /\ ArgumentKeys \subseteq Key /\ CommandKeys \subseteq Key
    /\ {"if_name", "soundcard", "ringtone_device", "ringtone_file"} \subseteq Key
<1>1. \A k \in Key : {Defaults[k], Created[k], "lo", ""} \subseteq Values(k)
  BY DEF Values
<1>2. \A k \in Key : Choices[k] \subseteq Values(k)
  BY DEF Values
<1>3. Created["if_name"] = "eth0"
  BY DEF Created, Defaults
<1>4. "eth0" \in Values("if_name")
  BY <1>3 DEF Values
<1>5. \A k \in Key : \A v \in Values(k) : v \in AllValues
  BY DEF AllValues
<1>6. /\ ArgumentKeys \subseteq Key /\ CommandKeys \subseteq Key
      /\ {"if_name", "soundcard", "ringtone_device", "ringtone_file"} \subseteq Key
  BY KeysAre DEF ArgumentKeys, CommandKeys
<1>. QED  BY <1>1, <1>2, <1>4, <1>5, <1>6

\* Changing one setting
LEMMA Change ==
    ASSUME NEW r \in Records, NEW k \in Key, NEW v \in Values(k)
    PROVE  /\ [r EXCEPT ![k] = v] \in Records
           /\ [r EXCEPT ![k] = v][k] = v
           /\ \A j \in Key \ {k} : [r EXCEPT ![k] = v][j] = r[j]
BY ValuesOfKeys DEF Records

\* The values the program starts from, and those of a file that it creates
LEMMA GivenRecords == Defaults \in Records /\ Created \in Records
<1>1. Defaults = [k \in Key |-> Defaults[k]]
  BY KeysAre DEF Defaults
<1>2. Created = [k \in Key |-> Created[k]]
  BY KeysAre DEF Created, Defaults
<1>. QED  BY <1>1, <1>2, ValuesOfKeys DEF Records

\* What a line makes of a value
LEMMA LineGives ==
    ASSUME NEW k \in Key, NEW v \in Values(k)
    PROVE  /\ Written(k, v) \in Values(k)
           /\ Written(k, v) \in {v, "eth0", ""}
           /\ \A before : Parsed(k, v, before) \in {v, before}
           /\ Parsed(k, Written(k, v), Defaults[k]) \in {v, Defaults[k], "eth0"}
BY ValuesOfKeys DEF Written, Parsed

\* A value that is chosen, and can be written, comes back
Survivor(k, v) == Parsed(k, Written(k, v), Defaults[k]) = v

LEMMA ChoicesComeBack ==
    ASSUME NEW k \in Key, NEW v \in Choices[k], Written(k, v) = v, ~OutOfRange(v)
    PROVE  Survivor(k, v) /\ (k = "if_name" => v # "")
<1>1. v = "" => Defaults[k] = ""
  <2>1. CASE k \in {"stun_server", "remote_uri", "register_uri", "outbound_proxy_host"}
    <3>1. /\ Defaults["stun_server"] = "" /\ Defaults["remote_uri"] = ""
          /\ Defaults["register_uri"] = "" /\ Defaults["outbound_proxy_host"] = ""
      BY Zenon DEF Defaults
    <3>. QED  BY <2>1, <3>1
  <2>2. /\ Choices["debug"] = {"on", "off"}
        /\ Choices["log"] = {"info", "error"}
        /\ Choices["nat"] = {"on", "off"}
        /\ Choices["if_name"] = {"eth0", "eth1"}
        /\ Choices["sip_port"] = {"5060", "5070", "70000"}
        /\ Choices["rtp_port"] = {"5004", "6000"}
        /\ Choices["outbound_proxy_port"] = {"-1", "5070", "70000"}
        /\ Choices["soundcard"] = {"/dev/dsp", "/dev/dsp1"}
        /\ Choices["ringtone_device"] = {"/dev/dsp", "/dev/dsp1"}
        /\ Choices["ringtone_file"] = {"ring.wav", "own.wav"}
        /\ Choices["dns"] = {"yes", "no"}
    BY Zenon DEF Choices
  <2>3. CASE k \in {"debug", "log", "nat", "if_name", "sip_port", "rtp_port",
                  "outbound_proxy_port", "soundcard", "ringtone_device", "ringtone_file", "dns"}
    BY <2>2, <2>3
  <2>. QED  BY <2>1, <2>3, KeysAre
<1>2. k = "dns" /\ v # "no" => Defaults[k] = v
  BY DEF Choices, Defaults
<1>3. k = "if_name" => v # ""
  <2>1. Choices["if_name"] = {"eth0", "eth1"}
    BY DEF Choices
  <2>. QED  BY <2>1
<1>. QED  BY <1>1, <1>2, <1>3 DEF Survivor, Parsed

LEMMA CreatedComesBack ==
    \A k \in Key \ {"outbound_proxy_port"} :
        Survivor(k, Created[k]) /\ Parsed(k, Created[k], Defaults[k]) = Created[k]
<1>. SUFFICES ASSUME NEW k \in Key \ {"outbound_proxy_port"}
              PROVE  Survivor(k, Created[k]) /\ Parsed(k, Created[k], Defaults[k]) = Created[k]
  OBVIOUS
<1>1. ~OutOfRange(Created[k]) /\ Created[k] # "lo"
  <2>0. /\ Created["debug"] = "on" /\ Created["log"] = "info"
        /\ Created["nat"] = "on" /\ Created["if_name"] = "eth0"
        /\ Created["sip_port"] = "5060" /\ Created["rtp_port"] = "5004"
        /\ Created["stun_server"] = "counterpath" /\ Created["remote_uri"] = "613@fwd"
        /\ Created["register_uri"] = "276140@fwd" /\ Created["outbound_proxy_host"] = ""
        /\ Created["soundcard"] = "/dev/dsp" /\ Created["ringtone_device"] = "/dev/dsp"
        /\ Created["ringtone_file"] = "ring.wav" /\ Created["dns"] = "yes"
    BY Zenon DEF Created, Defaults
  <2>1. Created[k] \in {"on", "info", "eth0", "5060", "5004", "counterpath", "613@fwd",
                        "276140@fwd", "", "/dev/dsp", "ring.wav", "yes"}
    BY <2>0, KeysAre
  <2>. QED  BY <2>1 DEF OutOfRange
<1>2. Created[k] = "" => Defaults[k] = ""
  BY KeysAre DEF Created, Defaults
<1>3. k = "dns" => Defaults[k] = Created[k]
  BY DEF Created, Defaults
<1>. QED  BY <1>1, <1>2, <1>3 DEF Survivor, Parsed, Written

----------------------------------------------------------------------------
(* Types *)

Intents == [of : Records, hurt : SUBSET Key]

LineFiles == [lines : 0 .. Len(Keys), of : Records]

Counts == [starts : 0 .. MaxStarts, changes : 0 .. MaxChanges, faults : 0 .. MaxFaults]

Types ==
    /\ phase \in {"off", "create", "load", "args", "run", "write"}
    /\ noconfig \in BOOLEAN /\ old \in BOOLEAN /\ torn \in Nat /\ count \in Counts
    /\ config \in Records /\ ua \in Records /\ chosen \in Intents /\ kept \in Intents
    /\ file = None \/ file \in LineFiles
    /\ backup = None \/ backup \in LineFiles
    /\ phase \in {"create", "write"} => file \in LineFiles

LEMMA TypesAreOK == ASSUME Types  PROVE TypeOK
<1>1. \A r \in Records : \A k \in Key : r[k] \in Values(k)
  BY DEF Records
<1>2. \A f : f = None \/ f \in LineFiles => FileOK(f)
  BY <1>1 DEF FileOK, LineFiles
<1>3. \A conf \in {chosen, kept} : conf.hurt \subseteq Key /\ \A k \in Key : conf.of[k] \in Values(k)
  BY <1>1 DEF Types, Intents
<1>4. {noconfig, old} \subseteq BOOLEAN
  BY DEF Types
<1>. QED  BY <1>1, <1>2, <1>3, <1>4 DEF Types, TypeOK, Counts

\* Reading the lines of a file
LEMMA LoadedIs ==
    ASSUME NEW f, f = None \/ f \in LineFiles, NEW before \in Records
    PROVE  /\ Loaded(f, before) \in Records
           /\ \A k \in Key : Loaded(f, before)[k] =
                  IF \E i \in 1 .. f.lines : Keys[i] = k THEN Parsed(k, f.of[k], before[k])
                  ELSE before[k]
<1>1. \A k \in Key : Loaded(f, before)[k] =
          IF \E i \in 1 .. f.lines : Keys[i] = k THEN Parsed(k, f.of[k], before[k])
          ELSE before[k]
  BY DEF Loaded
<1>2. ASSUME NEW k \in Key  PROVE Loaded(f, before)[k] \in Values(k)
  <2>1. before[k] \in Values(k)
    BY DEF Records
  <2>2. CASE \E i \in 1 .. f.lines : Keys[i] = k
    <3>1. f \in LineFiles
      BY <2>2 DEF None
    <3>2. f.of[k] \in Values(k)
      BY <3>1 DEF LineFiles, Records
    <3>3. Parsed(k, f.of[k], before[k]) \in {f.of[k], before[k]}
      BY <3>2, LineGives
    <3>. QED  BY <1>1, <2>1, <2>2, <3>2, <3>3
  <2>3. CASE ~\E i \in 1 .. f.lines : Keys[i] = k
    BY <1>1, <2>1, <2>3
  <2>. QED  BY <2>2, <2>3
<1>3. Loaded(f, before) \in [Key -> AllValues]
  <2>1. \A k \in Key : Loaded(f, before)[k] \in AllValues
    BY <1>2, ValuesOfKeys
  <2>2. Loaded(f, before) = [k \in Key |-> Loaded(f, before)[k]]
    BY DEF Loaded
  <2>. QED  BY <2>1, <2>2
<1>. QED  BY <1>1, <1>2, <1>3 DEF Records

\* What the devices make of the settings
Devices == {"if_name", "soundcard", "ringtone_device", "ringtone_file"}

LEMMA AppliedIs ==
    ASSUME config \in Records, NEW down \in SUBSET Devices, NEW silent \in BOOLEAN
    PROVE  /\ Applied(down, silent) \in Records
           /\ \A k \in down : Applied(down, silent)[k] \in {Defaults[k], "lo", "eth0", ""}
           /\ \A k \in Key \ down :
                  Applied(down, silent)[k] = (IF k = "if_name" /\ config[k] = "" THEN "eth0"
                                              ELSE config[k])
<1>1. \A k \in Key :
          Applied(down, silent)[k] =
              (IF k = "if_name" /\ k \in down THEN "lo"
               ELSE IF k = "if_name" /\ config[k] = "" THEN "eth0"
               ELSE IF k = "ringtone_file" /\ k \in down /\ silent THEN ""
               ELSE IF k \in down THEN Defaults[k]
               ELSE config[k])
  BY DEF Applied
<1>2. down \subseteq Key
  BY ValuesOfKeys DEF Devices
<1>3. \A k \in Key : config[k] \in Values(k)
  BY DEF Records
<1>4. \A k \in Key : Applied(down, silent)[k] \in Values(k)
  BY <1>1, <1>3, ValuesOfKeys
<1>5. Applied(down, silent) \in [Key -> AllValues]
  <2>1. Applied(down, silent) = [k \in Key |-> Applied(down, silent)[k]]
    BY DEF Applied
  <2>. QED  BY <1>4, <2>1, ValuesOfKeys
<1>6. Applied(down, silent) \in Records
  BY <1>4, <1>5 DEF Records
<1>7. ASSUME NEW k \in down  PROVE Applied(down, silent)[k] \in {Defaults[k], "lo", "eth0", ""}
  BY <1>1, <1>2
<1>8. ASSUME NEW k \in Key \ down
      PROVE  Applied(down, silent)[k] = (IF k = "if_name" /\ config[k] = "" THEN "eth0"
                                         ELSE config[k])
  BY <1>1
<1>. QED  BY <1>6, <1>7, <1>8

LEMMA WrittenIs ==
    ASSUME NEW r \in Records
    PROVE  /\ WrittenRecord(r) \in Records
           /\ \A k \in Key : WrittenRecord(r)[k] = Written(k, r[k])
<1>1. \A k \in Key : WrittenRecord(r)[k] = Written(k, r[k])
  BY DEF WrittenRecord
<1>2. \A k \in Key : WrittenRecord(r)[k] \in Values(k)
  BY <1>1, LineGives DEF Records
<1>3. WrittenRecord(r) = [k \in Key |-> WrittenRecord(r)[k]]
  BY DEF WrittenRecord
<1>4. \A k \in Key : WrittenRecord(r)[k] \in AllValues
  BY <1>2, ValuesOfKeys
<1>5. WrittenRecord(r) \in [Key -> AllValues]
  BY <1>3, <1>4
<1>. QED  BY <1>1, <1>2, <1>5 DEF Records

LEMMA FreshIs == \A r \in Records : Fresh(r) \in LineFiles /\ Fresh(r).of = r
BY KeysAre DEF Fresh, LineFiles

\* One more of something that is counted, and bounded
LEMMA CountsGo ==
    ASSUME count \in Counts
    PROVE  /\ count.starts < MaxStarts => [count EXCEPT !.starts = @ + 1] \in Counts
           /\ count.changes < MaxChanges => [count EXCEPT !.changes = @ + 1] \in Counts
           /\ \A n \in Nat : count.faults + n <= MaxFaults => [count EXCEPT !.faults = @ + n] \in Counts
BY BoundsAssumption DEF Counts, BoundsAssumption

LEMMA FaultsCount == ASSUME count \in Counts, NEW n \in Nat, Fault(n)  PROVE count' \in Counts
BY CountsGo DEF Fault

\* A choice
LEMMA ChoiceIs ==
    ASSUME chosen \in Intents, count \in Counts, NEW k \in Key, NEW v \in Choices[k], Choose(k, v)
    PROVE  /\ chosen' \in Intents /\ count' \in Counts
           /\ chosen'.of[k] = v
           /\ \A j \in Key \ {k} : chosen'.of[j] = chosen.of[j]
           /\ \A j \in Key \ {k} : j \in chosen'.hurt <=> j \in chosen.hurt
           /\ k \in chosen'.hurt \/ (Written(k, v) = v /\ ~OutOfRange(v))
<1>1. v \in Values(k) /\ chosen.of \in Records /\ chosen.hurt \in SUBSET Key
  BY ValuesOfKeys DEF Intents
<1>2. [chosen.of EXCEPT ![k] = v] \in Records
  BY <1>1, Change
<1>3. /\ chosen'.of = [chosen.of EXCEPT ![k] = v]
      /\ chosen'.hurt = IF Written(k, v) = v /\ ~OutOfRange(v) THEN chosen.hurt \ {k}
                        ELSE chosen.hurt \cup {k}
      /\ chosen' = [of |-> chosen'.of, hurt |-> chosen'.hurt]
  BY DEF Choose
<1>4. chosen' \in Intents
  BY <1>1, <1>2, <1>3 DEF Intents
<1>5. count' \in Counts
  BY CountsGo DEF Choose
<1>6. chosen'.of[k] = v /\ \A j \in Key \ {k} : chosen'.of[j] = chosen.of[j]
  BY <1>1, <1>3, Change
<1>. QED  BY <1>3, <1>4, <1>5, <1>6

\* More keys are hurt
LEMMA HurtIs ==
    ASSUME NEW conf \in Intents, NEW more \in SUBSET Key
    PROVE  /\ [conf EXCEPT !.hurt = @ \cup more] \in Intents
           /\ [conf EXCEPT !.hurt = @ \cup more].of = conf.of
           /\ [conf EXCEPT !.hurt = @ \cup more].hurt = conf.hurt \cup more
BY DEF Intents

LEMMA TypesInductive == ASSUME Types, [Next]_vars  PROVE Types'
<1>0. /\ count \in Counts /\ torn \in Nat /\ old \in BOOLEAN /\ config \in Records
      /\ file = None \/ file \in LineFiles
      /\ backup = None \/ backup \in LineFiles
  BY DEF Types
<1>1. CASE Start
  <2>1. count' \in Counts
    BY <1>0, <1>1, CountsGo DEF Start
  <2>2. file' = file \/ (phase' = "create" /\ file' = Fresh(Created))
    BY <1>1 DEF Start
  <2>3. phase' \in {"create", "args", "load"} /\ (phase' = "create" => file' = Fresh(Created))
    BY <1>1 DEF Start
  <2>. QED  BY <1>1, <2>1, <2>2, <2>3, GivenRecords, FreshIs DEF Start, Types
<1>2. CASE WriteLine
  <2>1. file \in LineFiles /\ file.lines # Len(Keys)
    <3>1. file \in LineFiles /\ ~Complete(file)
      BY <1>2 DEF WriteLine, Types
    <3>2. CASE file = None
      BY <3>1, <3>2, KeysAre DEF None, LineFiles, Records
    <3>3. CASE file # None
      BY <3>1, <3>3 DEF Complete
    <3>. QED  BY <3>2, <3>3
  <2>2. file' \in LineFiles
    BY <1>2, <2>1, KeysAre DEF WriteLine, LineFiles
  <2>. QED  BY <1>2, <2>2 DEF WriteLine, Types, history
<1>3. CASE FileCreated \/ FileWritten
  BY <1>3 DEF FileCreated, FileWritten, Types, files
<1>4. CASE Load
  <2>1. config' \in Records
    BY <1>0, <1>4, LoadedIs DEF Load
  <2>. QED  BY <1>4, <2>1 DEF Load, Types, files, history
<1>5. CASE LoadBackup
  <2>1. config' \in Records /\ old' \in BOOLEAN /\ phase' \in {"args", "off"}
    <3>1. Loaded(backup, config) \in Records
      BY <1>0, LoadedIs
    <3>2. \/ config' = Loaded(backup, config) /\ phase' = "args" /\ old' = TRUE
          \/ phase' = "off" /\ config' = config /\ old' = old
      BY <1>5 DEF LoadBackup
    <3>. QED  BY <1>0, <3>1, <3>2
  <2>2. count' \in Counts
    BY <1>0, <1>5, FaultsCount DEF LoadBackup
  <2>. QED  BY <1>5, <2>1, <2>2 DEF LoadBackup, Types, files
<1>6. CASE Argument
  <2>1. PICK k \in ArgumentKeys : \E v \in Choices[k] :
            Choose(k, v) /\ config' = [config EXCEPT ![k] = v]
    BY <1>6 DEF Argument
  <2>2. PICK v \in Choices[k] : Choose(k, v) /\ config' = [config EXCEPT ![k] = v]
    BY <2>1
  <2>3. k \in Key /\ v \in Values(k)
    BY ValuesOfKeys
  <2>4. config' \in Records
    BY <1>0, <2>2, <2>3, Change
  <2>5. chosen' \in Intents /\ count' \in Counts
    BY <2>2, <2>3, ChoiceIs DEF Types
  <2>. QED  BY <1>6, <2>4, <2>5 DEF Argument, Types, files
<1>7. CASE Set
  <2>1. PICK k \in CommandKeys : \E v \in Choices[k] :
            Choose(k, v) /\ ua' = [ua EXCEPT ![k] = v]
    BY <1>7 DEF Set
  <2>2. PICK v \in Choices[k] : Choose(k, v) /\ ua' = [ua EXCEPT ![k] = v]
    BY <2>1
  <2>3. k \in Key /\ v \in Values(k)
    BY ValuesOfKeys
  <2>4. ua' \in Records
    BY <2>2, <2>3, Change DEF Types
  <2>5. chosen' \in Intents /\ count' \in Counts
    BY <2>2, <2>3, ChoiceIs DEF Types
  <2>. QED  BY <1>7, <2>4, <2>5 DEF Set, Types, files
<1>8. CASE Apply
  <2>1. PICK down \in SUBSET Devices :
            /\ Fault(Cardinality(down))
            /\ \E silent \in BOOLEAN : ua' = Applied(down, silent)
            /\ chosen' = [chosen EXCEPT !.hurt = @ \cup down]
    BY <1>8, Zenon DEF Apply, Devices
  <2>2. ua' \in Records
    <3>1. PICK silent \in BOOLEAN : ua' = Applied(down, silent)
      BY <2>1
    <3>. QED  BY <1>0, <3>1, AppliedIs
  <2>3. chosen' \in Intents
    <3>1. down \in SUBSET Key /\ chosen \in Intents
      BY ValuesOfKeys DEF Types, Devices
    <3>. QED  BY <2>1, <3>1, HurtIs
  <2>4. Cardinality(down) \in Nat
    <3>1. IsFiniteSet(Devices)
      <4>0. IsFiniteSet({})
        BY FS_EmptySet
      <4>1. \A S, x : IsFiniteSet(S) => IsFiniteSet(S \cup {x})
        BY FS_AddElement
      <4>2. Devices = {} \cup {"if_name"} \cup {"soundcard"} \cup {"ringtone_device"}
                         \cup {"ringtone_file"}
        BY DEF Devices
      <4>. QED  BY <4>0, <4>1, <4>2
    <3>. QED  BY <3>1, FS_Subset, FS_CardinalityType
  <2>5. count' \in Counts
    BY <1>0, <2>1, <2>4, FaultsCount
  <2>. QED  BY <1>8, <2>2, <2>3, <2>5 DEF Apply, Types, files
<1>9. CASE Quit
  <2>1. \/ phase' = "off" /\ file' = file /\ backup' = backup
        \/ phase' = "write" /\ backup' = file /\ file' = Fresh(WrittenRecord(ua))
    BY <1>9 DEF Quit, files
  <2>2. Fresh(WrittenRecord(ua)) \in LineFiles
    BY WrittenIs, FreshIs DEF Types
  <2>. QED  BY <1>9, <2>1, <2>2 DEF Quit, Types, history
<1>10. CASE CannotCreate
  <2>1. count' \in Counts
    BY <1>0, <1>10, FaultsCount DEF CannotCreate
  <2>2. kept' \in Intents
    BY <1>10 DEF CannotCreate, Types, Intents
  <2>. QED  BY <1>10, <2>1, <2>2 DEF CannotCreate, Types
<1>11. CASE Kill
  <2>1. count' \in Counts
    BY <1>0, <1>11, FaultsCount DEF Kill
  <2>2. kept' \in Intents /\ torn' \in Nat
    <3>1. CASE phase \in {"create", "write"}
      <4>1. file \in LineFiles /\ file.lines \in Nat
        BY <3>1, KeysAre DEF Types, LineFiles
      <4>2. {Keys[i] : i \in file.lines + 1 .. Len(Keys)} \subseteq Key
        BY <4>1, KeysAre DEF Key
      <4>3. torn' = torn + 1 /\ chosen \in Intents
            /\ kept' = [chosen EXCEPT !.hurt = @ \cup {Keys[i] : i \in file.lines + 1 .. Len(Keys)}]
        BY <1>11, <3>1 DEF Kill, Types
      <4>4. kept' \in Intents
        BY <4>2, <4>3, HurtIs
      <4>. QED  BY <1>0, <4>3, <4>4
    <3>2. CASE phase \notin {"create", "write"}
      BY <1>0, <1>11, <3>2 DEF Kill, Types
    <3>. QED  BY <3>1, <3>2
  <2>. QED  BY <1>11, <2>1, <2>2 DEF Kill, Types, files
<1>12. CASE UNCHANGED vars
  BY <1>12 DEF vars, Types
<1>. QED
  BY <1>1, <1>2, <1>3, <1>4, <1>5, <1>6, <1>7, <1>8, <1>9, <1>10, <1>11, <1>12 DEF Next

----------------------------------------------------------------------------
(* What the user chose *)

Fallback(k) == {Defaults[k], Created[k], "eth0", "lo", ""}

\* v is what was chosen for k, or stands for it after a fault
Agrees(conf, k, v) == v = conf.of[k] \/ (k \in conf.hurt /\ v \in Fallback(k))

\* What was chosen comes back from a file, unless it was hurt
Sound(conf) == conf.of["if_name"] # "" /\ \A k \in Key \ conf.hurt : Survivor(k, conf.of[k])

\* What comes back from all lines of a file, and from those that were written
Comes(conf, record) == \A k \in Key : Agrees(conf, k, Parsed(k, record[k], Defaults[k]))

Reads(conf, f) == \A k \in Key : Agrees(conf, k, Loaded(f, Defaults)[k])

\* The file that is being written will give back what is chosen now, the one on disk
\* what was chosen when it was written, and so will one that is created
OnDisk ==
    IF phase \in {"create", "write"} THEN Comes(chosen, file.of)
    ELSE IF file = None THEN Comes(kept, Created)
    ELSE Reads(kept, file)

Intended ==
    /\ Sound(chosen) /\ Sound(kept)
    /\ phase \in {"create", "load", "write"} => ~noconfig
    /\ phase \in {"create", "load"} => config = Defaults /\ chosen = kept
    /\ phase = "load" => file # None
    /\ phase = "args" /\ ~noconfig => \A k \in Key : Agrees(chosen, k, config[k])
    /\ phase = "run" /\ ~noconfig => \A k \in Key : Agrees(chosen, k, ua[k])
    /\ OnDisk

SettingsInv == Types /\ (~old => Intended)

\* Once more keys are hurt, what agreed still does, and a fallback does for those
LEMMA HurtAgrees ==
    ASSUME NEW conf \in Intents, NEW d \in Intents, conf.of = d.of, conf.hurt \subseteq d.hurt
    PROVE  /\ Sound(conf) => Sound(d)
           /\ \A k \in Key : \A v : Agrees(conf, k, v) => Agrees(d, k, v)
           /\ \A k \in d.hurt : \A v \in Fallback(k) : Agrees(d, k, v)
BY DEF Sound, Agrees

LEMMA EverythingHurt ==
    ASSUME NEW conf \in Intents, conf.hurt = Key
    PROVE  Comes(conf, Created)
<1>. SUFFICES ASSUME NEW k \in Key
              PROVE  Agrees(conf, k, Parsed(k, Created[k], Defaults[k]))
  BY DEF Comes
<1>1. Parsed(k, Created[k], Defaults[k]) \in {Created[k], Defaults[k]}
  BY LineGives, ValuesOfKeys
<1>. QED  BY <1>1 DEF Agrees, Fallback

\* A complete file gives back all of its lines, and one that is not those it has
LEMMA ReadsLines ==
    ASSUME NEW conf \in Intents, NEW f \in LineFiles, Comes(conf, f.of)
    PROVE  /\ f.lines = Len(Keys) => Reads(conf, f)
           /\ \A d \in Intents :
                  /\ d.of = conf.of
                  /\ d.hurt = conf.hurt \cup {Keys[i] : i \in f.lines + 1 .. Len(Keys)}
                  => Reads(d, f)
<1>0. Defaults \in Records /\ f.lines \in 0 .. Len(Keys)
  BY GivenRecords DEF LineFiles
<1>1. ASSUME NEW k \in Key, \E i \in 1 .. f.lines : Keys[i] = k
      PROVE  Loaded(f, Defaults)[k] = Parsed(k, f.of[k], Defaults[k])
  BY <1>0, <1>1, LoadedIs
<1>2. ASSUME NEW k \in Key, ~\E i \in 1 .. f.lines : Keys[i] = k
      PROVE  /\ Loaded(f, Defaults)[k] = Defaults[k]
             /\ k \in {Keys[i] : i \in f.lines + 1 .. Len(Keys)}
  <2>1. Loaded(f, Defaults)[k] = Defaults[k]
    BY <1>0, <1>2, LoadedIs
  <2>2. PICK i \in 1 .. Len(Keys) : Keys[i] = k
    BY KeysAre DEF Key
  <2>3. i \in f.lines + 1 .. Len(Keys)
    BY <1>0, <1>2, <2>2, KeysAre
  <2>. QED  BY <2>1, <2>2, <2>3
<1>3. ASSUME f.lines = Len(Keys)  PROVE Reads(conf, f)
  <2>1. ASSUME NEW k \in Key  PROVE Agrees(conf, k, Loaded(f, Defaults)[k])
    <3>1. \E i \in 1 .. f.lines : Keys[i] = k
      BY <1>3, KeysAre DEF Key
    <3>. QED  BY <1>1, <3>1 DEF Comes
  <2>. QED  BY <2>1 DEF Reads
<1>4. ASSUME NEW d \in Intents, d.of = conf.of,
             d.hurt = conf.hurt \cup {Keys[i] : i \in f.lines + 1 .. Len(Keys)}
      PROVE  Reads(d, f)
  <2>1. ASSUME NEW k \in Key  PROVE Agrees(d, k, Loaded(f, Defaults)[k])
    <3>1. CASE \E i \in 1 .. f.lines : Keys[i] = k
      BY <1>1, <1>4, <3>1, HurtAgrees DEF Comes
    <3>2. CASE ~\E i \in 1 .. f.lines : Keys[i] = k
      <4>1. Loaded(f, Defaults)[k] = Defaults[k] /\ k \in d.hurt
        BY <1>2, <1>4, <3>2
      <4>. QED  BY <4>1 DEF Agrees, Fallback
    <3>. QED  BY <3>1, <3>2
  <2>. QED  BY <2>1 DEF Reads
<1>. QED  BY <1>3, <1>4

\* What is in force when the program ends comes back from the file it writes
LEMMA WrittenComes ==
    ASSUME NEW conf \in Intents, NEW r \in Records, Sound(conf), \A k \in Key : Agrees(conf, k, r[k])
    PROVE  Comes(conf, WrittenRecord(r))
<1>. SUFFICES ASSUME NEW k \in Key
              PROVE  Agrees(conf, k, Parsed(k, Written(k, r[k]), Defaults[k]))
  BY WrittenIs DEF Comes
<1>1. r[k] \in Values(k)
  BY DEF Records
<1>2. Parsed(k, Written(k, r[k]), Defaults[k]) \in {r[k], Defaults[k], "eth0"}
  BY <1>1, LineGives
<1>3. CASE k \in conf.hurt
  BY <1>2, <1>3 DEF Agrees, Fallback
<1>4. CASE k \notin conf.hurt
  <2>1. r[k] = conf.of[k]
    BY <1>4 DEF Agrees
  <2>2. Survivor(k, conf.of[k])
    BY <1>4 DEF Sound
  <2>. QED  BY <2>1, <2>2 DEF Survivor, Agrees
<1>. QED  BY <1>3, <1>4

\* A choice is sound, and the others stay
LEMMA ChoiceAgrees ==
    ASSUME chosen \in Intents, count \in Counts, Sound(chosen),
           NEW k \in Key, NEW v \in Choices[k], Choose(k, v)
    PROVE  /\ Sound(chosen')
           /\ Agrees(chosen', k, v)
           /\ \A j \in Key \ {k} : \A w : Agrees(chosen, j, w) => Agrees(chosen', j, w)
<1>. DEFINE d == chosen'
<1>1. /\ d.of[k] = v
      /\ \A j \in Key \ {k} : d.of[j] = chosen.of[j] /\ (j \in d.hurt <=> j \in chosen.hurt)
      /\ k \in d.hurt \/ (Written(k, v) = v /\ ~OutOfRange(v))
      /\ d \in Intents
  BY ChoiceIs
<1>. HIDE DEF d
<1>2. Agrees(d, k, v) /\ \A j \in Key \ {k} : \A w : Agrees(chosen, j, w) => Agrees(d, j, w)
  BY <1>1 DEF Agrees
<1>3. \A j \in Key \ d.hurt : Survivor(j, d.of[j])
  BY <1>1, ChoicesComeBack DEF Sound
<1>4. d.of["if_name"] # ""
  <2>1. "if_name" \in Key
    BY ValuesOfKeys
  <2>2. CASE k = "if_name"
    <3>1. Choices["if_name"] = {"eth0", "eth1"}
      BY DEF Choices
    <3>. QED  BY <1>1, <2>2, <3>1
  <2>3. CASE k # "if_name"
    BY <1>1, <2>1, <2>3 DEF Sound
  <2>. QED  BY <2>2, <2>3
<1>. QED  BY <1>2, <1>3, <1>4 DEF d, Sound, Agrees

\* What is on disk is not touched
LEMMA SameDisk ==
    ASSUME OnDisk, UNCHANGED <<file, kept>>,
           phase \notin {"create", "write"}, phase' \notin {"create", "write"}
    PROVE  OnDisk'
BY DEF OnDisk

LEMMA StartIntends ==
    ASSUME Types, Intended, Start \/ WriteLine \/ FileCreated \/ Load
    PROVE  Intended'
<1>0. chosen \in Intents /\ kept \in Intents
  BY DEF Types
<1>1. CASE Start
  <2>1. /\ phase = "off" /\ config' = Defaults /\ chosen' = kept /\ kept' = kept
    BY <1>1 DEF Start
  <2>2. CASE ~noconfig' /\ file = None
    <3>1. phase' = "create" /\ file' = Fresh(Created)
      BY <1>1, <2>2 DEF Start
    <3>2. Comes(kept, Created) /\ file'.of = Created
      BY <2>1, <2>2, <3>1, FreshIs, GivenRecords DEF Intended, OnDisk
    <3>3. OnDisk'
      BY <2>1, <3>1, <3>2 DEF OnDisk
    <3>. QED  BY <2>1, <2>2, <3>1, <3>3 DEF Intended
  <2>3. CASE noconfig'
    <3>1. phase' = "args" /\ file' = file
      BY <1>1, <2>3 DEF Start
    <3>. QED  BY <2>1, <2>3, <3>1, SameDisk DEF Intended
  <2>4. CASE ~noconfig' /\ file # None
    <3>1. phase' = "load" /\ file' = file
      BY <1>1, <2>4 DEF Start
    <3>. QED  BY <2>1, <2>4, <3>1, SameDisk DEF Intended
  <2>5. noconfig' \in BOOLEAN
    BY <1>1 DEF Start
  <2>. QED  BY <2>2, <2>3, <2>4, <2>5
<1>2. CASE WriteLine
  <2>1. phase \in {"create", "write"} /\ file \in LineFiles
    BY <1>2 DEF WriteLine, Types
  <2>2. file'.of = file.of
    BY <1>2, <2>1 DEF WriteLine, LineFiles
  <2>. QED  BY <1>2, <2>1, <2>2 DEF WriteLine, history, Intended, OnDisk
<1>3. CASE FileCreated
  <2>1. /\ phase = "create" /\ phase' = "load" /\ file' = file /\ Complete(file)
        /\ UNCHANGED <<noconfig, config, chosen, kept>>
    BY <1>3 DEF FileCreated, files
  <2>2. file # None /\ file.lines = Len(Keys) /\ file \in LineFiles
    BY <2>1 DEF Complete, Types
  <2>3. Reads(kept, file)
    BY <1>0, <2>1, <2>2, ReadsLines DEF Intended, OnDisk
  <2>4. OnDisk'
    BY <2>1, <2>2, <2>3 DEF OnDisk
  <2>. QED  BY <2>1, <2>2, <2>4 DEF Intended
<1>4. CASE Load
  <2>1. /\ phase = "load" /\ phase' = "args" /\ config' = Loaded(file, Defaults)
        /\ UNCHANGED <<noconfig, file, chosen, kept>>
    BY <1>4 DEF Load, files, history, Intended
  <2>2. \A k \in Key : Agrees(chosen', k, config'[k])
    BY <2>1 DEF Intended, OnDisk, Reads
  <2>. QED  BY <2>1, <2>2, SameDisk DEF Intended
<1>. QED  BY <1>1, <1>2, <1>3, <1>4

LEMMA RunIntends ==
    ASSUME Types, Intended, Argument \/ Apply \/ Set
    PROVE  Intended'
<1>0. chosen \in Intents /\ kept \in Intents /\ count \in Counts /\ config \in Records /\ ua \in Records
  BY DEF Types
<1>1. CASE Argument
  <2>1. PICK k \in ArgumentKeys : \E v \in Choices[k] :
            Choose(k, v) /\ config' = [config EXCEPT ![k] = v]
    BY <1>1 DEF Argument
  <2>2. PICK v \in Choices[k] : Choose(k, v) /\ config' = [config EXCEPT ![k] = v]
    BY <2>1
  <2>3. k \in Key /\ v \in Values(k)
    BY ValuesOfKeys
  <2>4. phase = "args" /\ UNCHANGED <<phase, noconfig, file, kept>>
    BY <1>1 DEF Argument, files
  <2>5. Sound(chosen')
    BY <1>0, <2>2, <2>3, ChoiceAgrees DEF Intended
  <2>6. ASSUME ~noconfig, NEW j \in Key  PROVE Agrees(chosen', j, config'[j])
    <3>1. Agrees(chosen, j, config[j])
      BY <2>4, <2>6 DEF Intended
    <3>. QED  BY <1>0, <2>2, <2>3, <3>1, Change, ChoiceAgrees DEF Intended
  <2>. QED  BY <2>4, <2>5, <2>6, SameDisk DEF Intended
<1>2. CASE Set
  <2>1. PICK k \in CommandKeys : \E v \in Choices[k] :
            Choose(k, v) /\ ua' = [ua EXCEPT ![k] = v]
    BY <1>2 DEF Set
  <2>2. PICK v \in Choices[k] : Choose(k, v) /\ ua' = [ua EXCEPT ![k] = v]
    BY <2>1
  <2>3. k \in Key /\ v \in Values(k)
    BY ValuesOfKeys
  <2>4. phase = "run" /\ UNCHANGED <<phase, noconfig, file, kept>>
    BY <1>2 DEF Set, files
  <2>5. Sound(chosen')
    BY <1>0, <2>2, <2>3, ChoiceAgrees DEF Intended
  <2>6. ASSUME ~noconfig, NEW j \in Key  PROVE Agrees(chosen', j, ua'[j])
    <3>1. Agrees(chosen, j, ua[j])
      BY <2>4, <2>6 DEF Intended
    <3>. QED  BY <1>0, <2>2, <2>3, <3>1, Change, ChoiceAgrees DEF Intended
  <2>. QED  BY <2>4, <2>5, <2>6, SameDisk DEF Intended
<1>3. CASE Apply
  <2>1. PICK down \in SUBSET Devices :
            /\ \E silent \in BOOLEAN : ua' = Applied(down, silent)
            /\ chosen' = [chosen EXCEPT !.hurt = @ \cup down]
    BY <1>3, Zenon DEF Apply, Devices
  <2>2. PICK silent \in BOOLEAN : ua' = Applied(down, silent)
    BY <2>1
  <2>3. down \in SUBSET Key
    BY ValuesOfKeys DEF Devices
  <2>4. /\ chosen' \in Intents /\ chosen'.of = chosen.of
        /\ chosen'.hurt = chosen.hurt \cup down
    BY <1>0, <2>1, <2>3, HurtIs
  <2>5. phase = "args" /\ phase' = "run" /\ UNCHANGED <<noconfig, file, kept>>
    BY <1>3 DEF Apply, files
  <2>6. Sound(chosen')
    BY <1>0, <2>4, HurtAgrees DEF Intended
  <2>8. /\ \A k \in down : ua'[k] \in {Defaults[k], "lo", "eth0", ""}
        /\ \A k \in Key \ down :
               ua'[k] = (IF k = "if_name" /\ config[k] = "" THEN "eth0" ELSE config[k])
    BY <1>0, <2>2, AppliedIs
  <2>7. ASSUME ~noconfig, NEW k \in Key  PROVE Agrees(chosen', k, ua'[k])
    <3>1. Agrees(chosen, k, config[k])
      BY <2>5, <2>7 DEF Intended
    <3>2. CASE k \in down
      BY <2>4, <2>8, <3>2 DEF Agrees, Fallback
    <3>3. CASE k \notin down
      <4>1. CASE ua'[k] = config[k]
        BY <1>0, <2>4, <3>1, <4>1, HurtAgrees
      <4>2. CASE k = "if_name" /\ config[k] = "" /\ ua'[k] = "eth0"
        <5>1. k \in chosen.hurt
          BY <3>1, <4>2 DEF Agrees, Intended, Sound
        <5>. QED  BY <2>4, <4>2, <5>1 DEF Agrees, Fallback
      <4>. QED  BY <2>8, <3>3, <4>1, <4>2
    <3>. QED  BY <3>2, <3>3
  <2>. QED  BY <2>5, <2>6, <2>7, SameDisk DEF Intended
<1>. QED  BY <1>1, <1>2, <1>3

LEMMA EndIntends ==
    ASSUME Types, Intended, Quit \/ CannotCreate \/ FileWritten \/ Kill
    PROVE  Intended'
<1>0. chosen \in Intents /\ kept \in Intents /\ ua \in Records
  BY DEF Types
<1>1. CASE Quit
  <2>1. phase = "run" /\ UNCHANGED <<noconfig, config, ua, chosen, kept>>
    BY <1>1 DEF Quit, history
  <2>2. CASE noconfig
    <3>1. phase' = "off" /\ file' = file
      BY <1>1, <2>2 DEF Quit, files
    <3>. QED  BY <2>1, <3>1, SameDisk DEF Intended
  <2>3. CASE ~noconfig
    <3>1. phase' = "write" /\ file' = Fresh(WrittenRecord(ua))
      BY <1>1, <2>3 DEF Quit
    <3>2. file'.of = WrittenRecord(ua)
      BY <1>0, <3>1, WrittenIs, FreshIs
    <3>3. Comes(chosen, WrittenRecord(ua))
      BY <1>0, <2>1, <2>3, WrittenComes DEF Intended
    <3>. QED  BY <2>1, <2>3, <3>1, <3>2, <3>3 DEF Intended, OnDisk
  <2>. QED  BY <2>2, <2>3
<1>2. CASE CannotCreate
  <2>1. /\ phase = "run" /\ phase' = "off" /\ file' = None /\ chosen' = chosen
        /\ kept' = [chosen EXCEPT !.hurt = Key]
    BY <1>2 DEF CannotCreate
  <2>2. kept' \in Intents /\ kept'.of = chosen.of /\ kept'.hurt = Key
    BY <1>0, <2>1 DEF Intents
  <2>3. Comes(kept', Created)
    BY <2>2, EverythingHurt
  <2>4. Sound(kept')
    BY <1>0, <2>2, HurtAgrees DEF Intended, Intents
  <2>. QED  BY <2>1, <2>3, <2>4 DEF Intended, OnDisk
<1>3. CASE FileWritten
  <2>1. /\ phase = "write" /\ phase' = "off" /\ file' = file /\ Complete(file)
        /\ chosen' = chosen /\ kept' = chosen
    BY <1>3 DEF FileWritten, files
  <2>2. file # None /\ file.lines = Len(Keys) /\ file \in LineFiles
    BY <2>1 DEF Complete, Types
  <2>3. Reads(chosen, file)
    BY <1>0, <2>1, <2>2, ReadsLines DEF Intended, OnDisk
  <2>. QED  BY <2>1, <2>2, <2>3 DEF Intended, OnDisk
<1>4. CASE Kill
  <2>1. phase' = "off" /\ file' = file /\ chosen' = chosen
    BY <1>4 DEF Kill, files
  <2>2. CASE phase \in {"create", "write"}
    <3>. DEFINE missing == {Keys[i] : i \in file.lines + 1 .. Len(Keys)}
    <3>1. file \in LineFiles /\ file.lines \in Nat
      BY <2>2, KeysAre DEF Types, LineFiles
    <3>2. missing \in SUBSET Key
      BY <3>1, KeysAre DEF Key
    <3>3. kept' = [chosen EXCEPT !.hurt = @ \cup missing]
      BY <1>4, <2>2 DEF Kill
    <3>4. kept' \in Intents /\ kept'.of = chosen.of /\ kept'.hurt = chosen.hurt \cup missing
      BY <1>0, <3>2, <3>3, HurtIs
    <3>5. Reads(kept', file)
      BY <1>0, <2>2, <3>1, <3>4, ReadsLines DEF Intended, OnDisk
    <3>6. file = None => Comes(kept', Created)
      <4>1. ASSUME file = None  PROVE kept'.hurt = Key
        <5>1. file.lines = 0
          BY <4>1 DEF None
        <5>2. Key \subseteq missing
          BY <5>1, KeysAre DEF Key
        <5>. QED  BY <3>2, <3>4, <5>2, <1>0 DEF Intents
      <4>. QED  BY <3>4, <4>1, EverythingHurt
    <3>7. Sound(kept')
      BY <1>0, <3>4, HurtAgrees DEF Intended
    <3>. QED  BY <2>1, <3>5, <3>6, <3>7 DEF Intended, OnDisk
  <2>3. CASE phase \notin {"create", "write"}
    <3>1. kept' = kept
      BY <1>4, <2>3 DEF Kill
    <3>. QED  BY <2>1, <2>3, <3>1, SameDisk DEF Intended
  <2>. QED  BY <2>2, <2>3
<1>. QED  BY <1>1, <1>2, <1>3, <1>4

\* However often the program starts, ends or is killed, and whatever is set meanwhile,
\* what is in force is what was chosen last, and for a setting that a fault hurt a
\* default, until the backup has to be read
THEOREM SettingsComeBack == Spec => []SettingsKept
<1>1. Init => SettingsInv
  <2>. SUFFICES ASSUME Init  PROVE SettingsInv
    OBVIOUS
  <2>1. /\ phase = "off" /\ noconfig = FALSE /\ config = Defaults /\ ua = Defaults
        /\ file = None /\ backup = None /\ torn = 2 /\ old = FALSE
        /\ count = [starts |-> 0, changes |-> 0, faults |-> 0]
        /\ chosen = [of |-> Created, hurt |-> {"outbound_proxy_port"}] /\ kept = chosen
    BY DEF Init
  <2>2. "outbound_proxy_port" \in Key
    BY KeysAre
  <2>3. chosen \in Intents /\ chosen.of = Created /\ chosen.hurt = {"outbound_proxy_port"}
    BY <2>1, <2>2, GivenRecords DEF Intents
  <2>4. count \in Counts
    BY <2>1, BoundsAssumption DEF Counts, BoundsAssumption
  <2>5. Types
    BY <2>1, <2>3, <2>4, GivenRecords DEF Types
  <2>6. Sound(chosen)
    <3>1. Created["if_name"] = "eth0"
      BY Zenon DEF Created, Defaults
    <3>2. \A k \in Key \ {"outbound_proxy_port"} : Survivor(k, Created[k])
      BY CreatedComesBack
    <3>. QED  BY <2>3, <3>1, <3>2 DEF Sound
  <2>7. Comes(kept, Created)
    <3>1. ASSUME NEW k \in Key
          PROVE  Agrees(chosen, k, Parsed(k, Created[k], Defaults[k]))
      <4>1. Parsed(k, Created[k], Defaults[k]) \in {Created[k], Defaults[k]}
        <5>1. Created[k] \in Values(k)
          BY ValuesOfKeys
        <5>. QED  BY <5>1, LineGives
      <4>2. k # "outbound_proxy_port" => Parsed(k, Created[k], Defaults[k]) = Created[k]
        BY CreatedComesBack
      <4>. QED  BY <2>3, <4>1, <4>2 DEF Agrees, Fallback
    <3>. QED  BY <2>1, <3>1 DEF Comes
  <2>. QED  BY <2>1, <2>5, <2>6, <2>7 DEF SettingsInv, Intended, OnDisk
<1>2. SettingsInv /\ [Next]_vars => SettingsInv'
  <2>. SUFFICES ASSUME SettingsInv, [Next]_vars  PROVE SettingsInv'
    OBVIOUS
  <2>1. Types'
    BY TypesInductive DEF SettingsInv
  <2>2. ASSUME ~old'  PROVE Intended'
    <3>1. CASE LoadBackup
      <4>1. phase = "load" /\ phase' = "off" /\ config' = config
            /\ UNCHANGED <<noconfig, file, chosen, kept, old>>
        BY <2>2, <3>1 DEF LoadBackup, files
      <4>. QED  BY <2>2, <4>1, SameDisk DEF SettingsInv, Intended
    <3>2. CASE UNCHANGED vars
      <4>1. Types /\ Intended
        BY <2>2, <3>2 DEF SettingsInv, vars
      <4>. QED  BY <3>2, <4>1 DEF vars, Intended, OnDisk
    <3>3. CASE ~LoadBackup /\ Next
      <4>1. old' = old
        BY <3>3 DEF Next, Start, WriteLine, FileCreated, Load, Argument, Apply, Set, Quit,
                    CannotCreate, FileWritten, Kill, history
      <4>. QED  BY <2>2, <3>3, <4>1, StartIntends, RunIntends, EndIntends DEF SettingsInv, Next
    <3>. QED  BY <3>1, <3>2, <3>3
  <2>. QED  BY <2>1, <2>2 DEF SettingsInv
<1>3. SettingsInv => SettingsKept
  BY TypesAreOK DEF SettingsInv, Intended, SettingsKept, Agrees, Fallback
<1>. QED  BY <1>1, <1>2, <1>3, PTL DEF Spec

----------------------------------------------------------------------------
(* The list in the hands of two threads *)

\* Events whose insertion began, and those that are in the list or were lost from it
Pending == {e[t] : t \in {u \in Threads : pc[u] # "rest"}}
Linked == added \ Pending

\* Where a thread's event has no next one yet
Alone == {"empty", "first", "newer", "front", "walk", "last", "older", "splice"}

\* A thread that inserts, at each place
Inserts(t) ==
    /\ pc[t] # "rest" => e[t] \in added
    /\ pc[t] \in Alone => next[e[t]] = Null
    /\ pc[t] \in {"newer", "front", "walk"} => head # Null
    /\ pc[t] \in {"last", "older", "splice", "link"} => c[t] \in Linked
    /\ pc[t] \in {"older", "splice"} => next[c[t]] # Null

\* Nothing leads to an event before it is linked
PointersOK ==
    /\ head \in Linked \cup {Null}
    /\ \A i \in added : next[i] \in Linked \cup {Null}
    /\ \A t \in Threads : Inserts(t)
    /\ \A t, u \in Threads :
         pc[t] # "rest" /\ pc[u] # "rest" /\ t # u => e[t] # e[u]
    /\ stage = "off" => \A t \in Threads : pc[t] = "rest"

\* The further down the list, the lower: also an event that is about to be linked
Descends(rank) ==
    /\ \A i \in added : next[i] # Null => rank[next[i]] < rank[i]
    /\ \A t \in Threads : pc[t] = "link" => rank[e[t]] < rank[c[t]]
    /\ stage = "write" =>
         /\ \A i, j \in DOMAIN saved : i < j => rank[saved[j]] < rank[saved[i]]
         /\ walk # Null => \A i \in DOMAIN saved : rank[walk] < rank[saved[i]]

Ordered == \E rank \in [Event -> Nat] : Descends(rank)

\* Along the next pointers nobody stays in a set for ever
Acyclic == \A S \in SUBSET Event : S # {} => \E i \in S : next[i] \notin S

Distinct(s) == \A i, j \in DOMAIN s : s[i] = s[j] => i = j

\* What is in a file was in a list
FilesOK ==
    /\ Distinct(saved) /\ Distinct(older)
    /\ stage = "read" => Distinct(unread) /\ Members(unread) \cap added = {}
    /\ stage = "write" => Members(saved) \subseteq Linked /\ walk \in Linked \cup {Null}
    /\ Members(saved) \cup Members(older) \cup Members(unread) \cup added \subseteq Used

\* A thread that inserts while the other does not is at the right place
Closed(S) == \A i \in S : next[i] # Null => next[i] \in S

Placing(t) ==
    /\ pc[t] = "first" => head = Null
    /\ pc[t] \in {"front", "head"} => head # Null /\ time[e[t]] > time[head]
    /\ pc[t] = "head" => next[e[t]] = head
    /\ pc[t] = "walk" => time[e[t]] <= time[head]
    /\ pc[t] \in {"last", "older", "splice", "link"} => time[e[t]] <= time[c[t]]
    /\ pc[t] = "splice" => time[e[t]] > time[next[c[t]]]
    /\ pc[t] = "link" =>
         /\ next[e[t]] = next[c[t]]
         /\ next[c[t]] # Null => time[next[c[t]]] <= time[e[t]]

Whole ==
    /\ \E t \in Threads : pc[t] = "rest"
    /\ \A i \in Linked : next[i] # Null => time[next[i]] <= time[i]
    /\ \A S \in SUBSET Event :
         Closed(S) /\ (head # Null => head \in S) => Linked \subseteq S
    /\ \A t \in Threads : Placing(t)

HistoryInv ==
    /\ HistoryTypeOK
    /\ PointersOK
    /\ Ordered
    /\ Acyclic
    /\ FilesOK
    /\ ~met /\ stage # "off" => Whole

----------------------------------------------------------------------------
(* The path that Listed follows *)

\* The numbers of a set have a least one
LEMMA LeastNumber ==
    ASSUME NEW S, S \subseteq Nat, S # {}
    PROVE  \E x \in S : \A y \in S : x <= y
<1>1. PICK x \in S : \A y \in S : ~(<<y, x>> \in OpToRel(<, Nat))
  BY NatLessThanWellFounded, WFMin
<1>2. ASSUME NEW y \in S  PROVE x <= y
  <2>1. <<y, x>> \in Nat \X Nat /\ ~(<<y, x>> \in OpToRel(<, Nat))
    BY <1>1
  <2>2. ~(y < x)
    BY <2>1 DEF OpToRel
  <2> QED
    BY <2>2
<1> QED
  BY <1>2

Steps(i, at, k) ==
    /\ at = [n \in 0 .. k |-> at[n]]
    /\ at[0] = i
    /\ \A n \in 1 .. k : at[n] = IF at[n - 1] = Null THEN Null ELSE next[at[n - 1]]

LEMMA PathExists ==
    ASSUME NEW i, NEW k \in Nat
    PROVE  \E at : Steps(i, at, k)
<1> DEFINE Bad == {n \in Nat : ~ \E at : Steps(i, at, n)}
<1>1. SUFFICES ASSUME Bad # {} PROVE FALSE
  OBVIOUS
<1>2. PICK n \in Bad : \A m \in Bad : n <= m
  BY <1>1, LeastNumber
<1>3. CASE n = 0
  <2>1. Steps(i, [m \in 0 .. 0 |-> i], 0)
    BY DEF Steps
  <2> QED
    BY <1>2, <1>3, <2>1
<1>4. CASE n # 0
  <2>1. n \in Nat /\ n - 1 \in Nat /\ n - 1 \notin Bad
    BY <1>2, <1>4
  <2>2. PICK at : Steps(i, at, n - 1)
    BY <2>1
  <2> DEFINE more == [m \in 0 .. n |-> IF m < n THEN at[m]
                                       ELSE IF at[n - 1] = Null THEN Null ELSE next[at[n - 1]]]
  <2>3. Steps(i, more, n)
    <3>1. more = [m \in 0 .. n |-> more[m]] /\ more[0] = i
      BY <1>4, <2>1, <2>2 DEF Steps
    <3>2. ASSUME NEW m \in 1 .. n
          PROVE  more[m] = IF more[m - 1] = Null THEN Null ELSE next[more[m - 1]]
      <4>1. more[m - 1] = at[m - 1]
        BY <2>1
      <4>2. CASE m = n
        BY <2>1, <4>1, <4>2
      <4>3. CASE m # n
        <5>1. m \in 1 .. n - 1 /\ more[m] = at[m]
          BY <2>1, <4>3
        <5> QED
          BY <2>2, <4>1, <5>1 DEF Steps
      <4> QED
        BY <4>2, <4>3
    <3> QED
      BY <3>1, <3>2 DEF Steps
  <2> QED
    BY <1>2, <2>3
<1> QED
  BY <1>3, <1>4

LEMMA FromSteps ==
    ASSUME NEW i
    PROVE  Steps(i, From(i), MaxEvents)
<1> DEFINE F(at) == [n \in 0 .. MaxEvents |->
              IF n = 0 THEN i ELSE IF at[n - 1] = Null THEN Null ELSE next[at[n - 1]]]
<1>1. From(i) = CHOOSE at : at = F(at)
  BY DEF From
<1>2. PICK at : Steps(i, at, MaxEvents)
  BY PathExists, HistoryAssumption
<1>0. MaxEvents \in Nat
  BY HistoryAssumption
<1>3. at = F(at)
  <2>1. \A n \in 0 .. MaxEvents : at[n] = F(at)[n]
    <3>1. SUFFICES ASSUME NEW n \in 0 .. MaxEvents  PROVE at[n] = F(at)[n]
      OBVIOUS
    <3>2. CASE n = 0
      BY <1>2, <3>2 DEF Steps
    <3>3. CASE n # 0
      <4>1. n \in 1 .. MaxEvents
        BY <1>0, <3>3
      <4> QED
        BY <1>2, <4>1 DEF Steps
    <3> QED
      BY <3>2, <3>3
  <2>2. at = [n \in 0 .. MaxEvents |-> at[n]] /\ F(at) = [n \in 0 .. MaxEvents |-> F(at)[n]]
    BY <1>2 DEF Steps
  <2> QED
    BY <2>1, <2>2, Zenon
<1> HIDE DEF F
<1>4. From(i) = F(From(i))
  BY <1>1, <1>3, Zenon
<1> USE DEF F
<1>5. From(i) = [n \in 0 .. MaxEvents |-> From(i)[n]]
  BY <1>4, Zenon
<1>6. \A n \in 0 .. MaxEvents : From(i)[n] = F(From(i))[n]
  BY <1>4, Zenon
<1>7. From(i)[0] = i
  BY <1>0, <1>6
<1>8. \A n \in 1 .. MaxEvents :
         From(i)[n] = IF From(i)[n - 1] = Null THEN Null ELSE next[From(i)[n - 1]]
  BY <1>0, <1>6
<1> QED
  BY <1>5, <1>7, <1>8 DEF Steps

\* A path that ended stays at its end
LEMMA PathOver ==
    ASSUME NEW i, NEW k \in Nat, NEW at, Steps(i, at, k),
           NEW n \in 0 .. k, NEW m \in n .. k, at[n] = Null
    PROVE  at[m] = Null
<1> DEFINE T == {x \in n .. k : at[x] # Null}
<1>1. SUFFICES ASSUME T # {}  PROVE FALSE
  OBVIOUS
<1>2. PICK x \in T : \A y \in T : x <= y
  <2>1. T \subseteq Nat
    OBVIOUS
  <2> QED
    BY <1>1, <2>1, LeastNumber
<1>3. x \in 1 .. k /\ x - 1 \in n .. k /\ x - 1 \notin T
  BY <1>2
<1> QED
  BY <1>2, <1>3 DEF Steps

\* A path does not leave a closed set
LEMMA PathStays ==
    ASSUME NEW i, NEW k \in Nat, NEW at, Steps(i, at, k),
           NEW S, Closed(S), i \in S \cup {Null}, NEW n \in 0 .. k
    PROVE  at[n] \in S \cup {Null}
<1> DEFINE T == {x \in 0 .. k : at[x] \notin S \cup {Null}}
<1>1. SUFFICES ASSUME T # {}  PROVE FALSE
  OBVIOUS
<1>2. PICK x \in T : \A y \in T : x <= y
  <2>1. T \subseteq Nat
    OBVIOUS
  <2> QED
    BY <1>1, <2>1, LeastNumber
<1>3. x # 0
  BY <1>2 DEF Steps
<1>4. x \in 1 .. k /\ x - 1 \in 0 .. k /\ x - 1 \notin T
  BY <1>2, <1>3
<1> QED
  BY <1>2, <1>4 DEF Steps, Closed

\* As many steps as there are events lead to the end of the list, or around in it
LEMMA AcyclicEnds ==
    ASSUME next \in [Event -> Event \cup {Null}], Acyclic, NEW i \in Event
    PROVE  Ends(i)
<1> DEFINE at == From(i)
<1>0. MaxEvents \in Nat /\ Steps(i, at, MaxEvents)
  BY HistoryAssumption, FromSteps
<1> HIDE DEF at
<1>1. SUFFICES ASSUME at[MaxEvents] # Null  PROVE FALSE
  BY DEF Ends, at
<1>2. \A n \in 0 .. MaxEvents : at[n] # Null
  <2>1. SUFFICES ASSUME NEW n \in 0 .. MaxEvents, at[n] = Null  PROVE FALSE
    OBVIOUS
  <2>2. MaxEvents \in n .. MaxEvents
    BY <1>0
  <2> QED
    BY <1>0, <1>1, <2>1, <2>2, PathOver
<1>3. \A n \in 0 .. MaxEvents : at[n] \in Event
  <2>1. Closed(Event)
    BY DEF Closed
  <2> QED
    BY <1>0, <1>2, <2>1, PathStays
<1>4. \E m, n \in 0 .. MaxEvents : m < n /\ at[m] = at[n]
  <2> DEFINE f == [n \in 0 .. MaxEvents |-> at[n]]
  <2>1. /\ IsFiniteSet(0 .. MaxEvents) /\ Cardinality(0 .. MaxEvents) = MaxEvents + 1
        /\ IsFiniteSet(Event) /\ Cardinality(Event) = MaxEvents
    BY <1>0, FS_Interval DEF Event
  <2>2. f \in [0 .. MaxEvents -> Event]
    BY <1>3
  <2>3. Cardinality(Event) < Cardinality(0 .. MaxEvents)
    BY <1>0, <2>1
  <2> HIDE DEF f
  <2> DEFINE D == 0 .. MaxEvents
  <2>7. IsFiniteSet(D) /\ IsFiniteSet(Event) /\ Cardinality(Event) < Cardinality(D)
        /\ f \in [D -> Event]
    BY <2>1, <2>2, <2>3
  <2> HIDE DEF D
  <2>8. \E m, n \in D : m # n /\ f[m] = f[n]
    BY <2>7, FS_PigeonHole
  <2>4. PICK m, n \in 0 .. MaxEvents : m # n /\ f[m] = f[n]
    BY <2>8 DEF D
  <2>5. at[m] = at[n]
    BY <2>4 DEF f
  <2>6. m < n \/ n < m
    BY <2>4
  <2> QED
    BY <2>5, <2>6
<1>5. PICK m, n \in 0 .. MaxEvents : m < n /\ at[m] = at[n]
  BY <1>4
<1> DEFINE S == {at[k] : k \in m .. n - 1}
<1>6. S \in SUBSET Event /\ S # {}
  <2>1. m \in m .. n - 1 /\ m .. n - 1 \subseteq 0 .. MaxEvents
    BY <1>0, <1>5
  <2> QED
    BY <1>3, <2>1
<1>7. ASSUME NEW k \in m .. n - 1  PROVE next[at[k]] \in S
  <2>1. k \in 0 .. MaxEvents /\ k + 1 \in 1 .. MaxEvents /\ (k + 1) - 1 = k
    BY <1>0, <1>5
  <2>2. next[at[k]] = at[k + 1]
    BY <1>0, <1>2, <2>1 DEF Steps
  <2>3. CASE k + 1 = n
    <3>1. m \in m .. n - 1
      BY <1>5
    <3> QED
      BY <1>5, <2>2, <2>3, <3>1
  <2>4. CASE k + 1 # n
    <3>1. k + 1 \in m .. n - 1
      BY <1>5, <2>4
    <3> QED
      BY <2>2, <3>1
  <2> QED
    BY <2>3, <2>4
<1> QED
  BY <1>6, <1>7 DEF Acyclic

\* What Listed is, once the path from the head ends
LEMMA ListedIs ==
    ASSUME From(head)[MaxEvents] = Null
    PROVE  \E n \in 0 .. MaxEvents :
             /\ From(head)[n] = Null
             /\ \A m \in 0 .. n - 1 : From(head)[m] # Null
             /\ Listed = [k \in 1 .. n |-> From(head)[k - 1]]
<1> DEFINE at == From(head)
           Length(n) == at[n] = Null /\ \A m \in 0 .. n - 1 : at[m] # Null
           length == CHOOSE n \in 0 .. MaxEvents : Length(n)
           T == {n \in 0 .. MaxEvents : at[n] = Null}
<1>0. MaxEvents \in Nat
  BY HistoryAssumption
<1>1. PICK n \in T : \A m \in T : n <= m
  <2>1. T \subseteq Nat /\ MaxEvents \in T
    BY <1>0
  <2> QED
    BY <2>1, LeastNumber
<1>2. n \in 0 .. MaxEvents /\ Length(n)
  <2>1. ASSUME NEW m \in 0 .. n - 1  PROVE at[m] # Null
    <3>1. m \in 0 .. MaxEvents /\ ~(n <= m)
      BY <1>0, <1>1
    <3> QED
      BY <1>1, <3>1
  <2> QED
    BY <1>1, <2>1
<1>3. length \in 0 .. MaxEvents /\ Length(length)
  BY <1>2, Zenon
<1>4. Listed = [k \in 1 .. length |-> at[k - 1]]
  BY DEF Listed
<1> HIDE DEF length
<1> QED
  BY <1>3, <1>4

----------------------------------------------------------------------------
(* Steps: types and pointers *)

\* What a place says of the arguments of its thread
LEMMA PlaceTypes ==
    ASSUME HistoryTypeOK, PointersOK, NEW t \in Threads
    PROVE  /\ pc[t] # "rest" => e[t] \in Event
           /\ pc[t] \in {"newer", "front", "walk"} => head \in Event
           /\ pc[t] \in {"last", "older", "splice", "link"} => c[t] \in Event
           /\ pc[t] \in {"older", "splice"} => next[c[t]] \in Event
BY DEF HistoryTypeOK, PointersOK, Inserts, Linked

LEMMA InsertTypes ==
    ASSUME HistoryTypeOK, PointersOK, NEW t \in Threads, Insert(t)
    PROVE  HistoryTypeOK'
<1>1. UNCHANGED <<stage, unread, walk, runs, saved, older, time, now, added, met, alone, e>>
  BY DEF Insert, program, disk, IsEmpty, First, Newer, Front, LinkHead, Walk, IsLast, Older,
     Splice, Link, Unlinked
<1>2. pc' \in [Threads -> Places]
  BY DEF Insert, IsEmpty, First, Newer, Front, LinkHead, Walk, IsLast, Older,
     Splice, Link, Go, Places, HistoryTypeOK
<1>3. c' \in [Threads -> Event \cup {Null}]
  BY PlaceTypes DEF Insert, IsEmpty, First, Newer, Front, LinkHead, Walk, IsLast, Older,
     Splice, Link, HistoryTypeOK
<1>4. head' \in Event \cup {Null}
  BY PlaceTypes DEF Insert, IsEmpty, First, Newer, Front, LinkHead, Walk, IsLast, Older,
     Splice, Link, HistoryTypeOK, Unlinked
<1>5. next' \in [Event -> Event \cup {Null}]
  BY PlaceTypes DEF Insert, IsEmpty, First, Newer, Front, LinkHead, Walk, IsLast, Older,
     Splice, Link, HistoryTypeOK, Unlinked
<1> QED
  BY <1>1, <1>2, <1>3, <1>4, <1>5 DEF HistoryTypeOK

LEMMA BeginTypes ==
    ASSUME HistoryTypeOK, NEW t \in Threads, NEW i \in Event, Begin(t, i)
    PROVE  /\ pc' \in [Threads -> Places] /\ e' \in [Threads -> Event \cup {Null}] /\ c' = c
           /\ next' \in [Event -> Event \cup {Null}] /\ met' \in BOOLEAN
BY DEF HistoryTypeOK, Begin, Go, Places

LEMMA TypesKept ==
    ASSUME HistoryTypeOK, PointersOK, HistoryNext
    PROVE  HistoryTypeOK'
<1>1. ASSUME NEW t \in Threads, AddEvent(t)  PROVE HistoryTypeOK'
  <2>1. PICK i \in Event : /\ Begin(t, i) /\ time' = [time EXCEPT ![i] = now]
                           /\ added' = added \cup {i}
    BY <1>1, Zenon DEF AddEvent
  <2>2. /\ UNCHANGED <<stage, unread, walk, runs, saved, older, head, now>> /\ alone' = FALSE
    BY <1>1, Zenon DEF AddEvent, program, disk
  <2>3. /\ pc' \in [Threads -> Places] /\ e' \in [Threads -> Event \cup {Null}] /\ c' = c
        /\ next' \in [Event -> Event \cup {Null}] /\ met' \in BOOLEAN
    BY <2>1, BeginTypes
  <2>4. time' \in [Event -> 0 .. MaxTime]
    BY <2>1 DEF HistoryTypeOK
  <2>5. {met', alone'} \subseteq BOOLEAN /\ added' \subseteq Event
    BY <2>1, <2>2, <2>3 DEF HistoryTypeOK
  <2>6. {unread', saved', older'} \subseteq Seq(Event)
    BY <2>2 DEF HistoryTypeOK
  <2>7. /\ stage' \in {"off", "read", "run", "write"}
        /\ head' \in Event \cup {Null} /\ now' \in 1 .. MaxTime
        /\ walk' \in Event \cup {Null} /\ runs' \in 0 .. MaxRuns
        /\ c' \in [Threads -> Event \cup {Null}]
    BY <2>2, <2>3 DEF HistoryTypeOK
  <2> QED
    BY <2>3, <2>4, <2>5, <2>6, <2>7, Zenon DEF HistoryTypeOK
<1>2. CASE RunStarts
  <2>1. runs' \in 0 .. MaxRuns
    BY <1>2, HistoryAssumption DEF RunStarts, HistoryTypeOK
  <2>2. {unread', saved', older'} \subseteq Seq(Event) /\ {met', alone'} \subseteq BOOLEAN
    BY <1>2 DEF RunStarts, disk, HistoryTypeOK
  <2> QED
    BY <1>2, <2>1, <2>2 DEF RunStarts, local, HistoryTypeOK
<1>3. CASE ReadLine
  <2>1. Head(unread) \in Event /\ Tail(unread) \in Seq(Event) /\ "user" \in Threads
    BY <1>3 DEF ReadLine, HistoryTypeOK, Threads
  <2>2. Begin("user", Head(unread))
    BY <1>3 DEF ReadLine
  <2> QED
    BY <1>3, <2>1, <2>2, BeginTypes DEF ReadLine, disk, HistoryTypeOK
<1>4. CASE ReadEnds
  BY <1>4 DEF ReadEnds, local, disk, HistoryTypeOK
<1>5. CASE ReadBackup
  BY <1>5 DEF ReadBackup, local, disk, HistoryTypeOK
<1>6. CASE WriteStarts
  <2>1. <<>> \in Seq(Event)
    OBVIOUS
  <2> QED
    BY <1>6, <2>1 DEF WriteStarts, local, HistoryTypeOK
<1>7. CASE WriteEvent
  BY <1>7 DEF WriteEvent, local, HistoryTypeOK
<1>8. CASE Exit
  BY <1>8 DEF Exit, disk, HistoryTypeOK, Places
<1>9. CASE Tick
  BY <1>9, HistoryAssumption DEF Tick, local, disk, program, HistoryTypeOK
<1> QED
  BY <1>1, <1>2, <1>3, <1>4, <1>5, <1>6, <1>7, <1>8, <1>9, InsertTypes DEF HistoryNext

\* A thread goes on with its event, ends with it, or begins with a new one
LEMMA GoesOn ==
    ASSUME HistoryTypeOK, NEW t \in Threads, NEW where, where # "rest", pc[t] # "rest",
           pc' = [pc EXCEPT ![t] = where], UNCHANGED <<e, added>>
    PROVE  Pending' = Pending /\ Linked' = Linked
<1>1. \A u \in Threads : pc'[u] # "rest" <=> pc[u] # "rest"
  BY DEF HistoryTypeOK
<1> QED
  BY <1>1 DEF Pending, Linked

LEMMA GoesOff ==
    ASSUME HistoryTypeOK, PointersOK, NEW t \in Threads, pc[t] # "rest",
           pc' = [pc EXCEPT ![t] = "rest"], UNCHANGED <<e, added>>
    PROVE  Linked' = Linked \cup {e[t]} /\ Pending' = Pending \ {e[t]}
<1>1. \A u \in Threads : pc'[u] # "rest" <=> pc[u] # "rest" /\ u # t
  BY DEF HistoryTypeOK
<1>2. Pending' = {e[u] : u \in {v \in Threads : pc[v] # "rest" /\ v # t}}
  BY <1>1 DEF Pending
<1>3. Pending' = Pending \ {e[t]}
  BY <1>2 DEF Pending, PointersOK
<1>4. e[t] \in added
  BY DEF PointersOK, Inserts
<1> QED
  BY <1>3, <1>4 DEF Linked

LEMMA GoesIn ==
    ASSUME HistoryTypeOK, NEW t \in Threads, NEW i \in Event \ added,
           Begin(t, i), added' = added \cup {i}
    PROVE  Linked' = Linked /\ Pending' = Pending \cup {i}
<1>1. /\ pc[t] = "rest" /\ pc'[t] # "rest" /\ e'[t] = i
      /\ \A u \in Threads : u # t => pc'[u] = pc[u] /\ e'[u] = e[u]
  BY DEF Begin, Go, HistoryTypeOK
<1>2. Pending' = Pending \cup {i}
  BY <1>1 DEF Pending
<1> QED
  BY <1>2 DEF Linked

\* The other thread's place stays what it was
LEMMA OtherInserts ==
    ASSUME NEW u \in Threads, Inserts(u),
           pc'[u] = pc[u], e'[u] = e[u], c'[u] = c[u],
           added \subseteq added', Linked \subseteq Linked', head # Null => head' # Null,
           pc[u] \in Alone => next'[e[u]] = next[e[u]],
           c[u] \in Linked /\ next[c[u]] # Null => next'[c[u]] # Null
    PROVE  Inserts(u)'
BY DEF Inserts, Alone

\* The places of a thread that inserts, and what it changes there
Placed(t) ==
    /\ pc[t] # "rest" /\ e[t] \in added /\ e[t] \in Pending /\ e[t] \in Event /\ e[t] # Null
    /\ e[t] \notin Linked
    /\ \A u \in Threads : u # t => pc'[u] = pc[u] /\ c'[u] = c[u]
    /\ \A u \in Threads : u # t /\ pc[u] # "rest" => e[u] # e[t]
    /\ UNCHANGED <<stage, unread, walk, runs, saved, older, time, now, added, met, alone, e>>

LEMMA InsertPlaced ==
    ASSUME HistoryTypeOK, PointersOK, NEW t \in Threads, Insert(t)
    PROVE  Placed(t)
<1>1. UNCHANGED <<stage, unread, walk, runs, saved, older, time, now, added, met, alone, e>>
  BY DEF Insert, program, disk, IsEmpty, First, Newer, Front, LinkHead, Walk, IsLast, Older,
     Splice, Link, Unlinked
<1>2. pc[t] # "rest"
  BY DEF Insert, IsEmpty, First, Newer, Front, LinkHead, Walk, IsLast, Older, Splice, Link
<1>3. \A u \in Threads : u # t => pc'[u] = pc[u]
  BY DEF Insert, IsEmpty, First, Newer, Front, LinkHead, Walk, IsLast, Older,
     Splice, Link, Go, HistoryTypeOK
<1>4. \A u \in Threads : u # t => c'[u] = c[u]
  BY DEF Insert, IsEmpty, First, Newer, Front, LinkHead, Walk, IsLast, Older,
     Splice, Link, HistoryTypeOK
<1>5. e[t] \in Event /\ e[t] \in added /\ e[t] \in Pending
  BY <1>2, PlaceTypes DEF PointersOK, Inserts, Pending
<1>6. e[t] # Null /\ e[t] \notin Linked
  BY <1>5 DEF Linked, Event, Null
<1> QED
  BY <1>1, <1>2, <1>3, <1>4, <1>5, <1>6 DEF Placed, PointersOK

LEMMA PointersMade ==
    ASSUME HistoryTypeOK, PointersOK, NEW t \in Threads, Placed(t), Inserts(t)',
           Linked \subseteq Linked', head' \in Linked' \cup {Null}, head # Null => head' # Null,
           \A i \in added : next'[i] \in Linked' \cup {Null},
           \A i \in added : i # e[t] /\ next[i] # Null => next'[i] # Null,
           \A i \in added : i # e[t] /\ i \notin Linked => next'[i] = next[i]
    PROVE  PointersOK'
<1>1. ASSUME NEW u \in Threads, u # t  PROVE Inserts(u)'
  <2>1. /\ pc'[u] = pc[u] /\ e'[u] = e[u] /\ c'[u] = c[u] /\ added' = added /\ Inserts(u)
        /\ pc[u] # "rest" => e[u] # e[t]
    BY <1>1 DEF Placed, PointersOK
  <2>2. pc[u] \in Alone => next'[e[u]] = next[e[u]]
    <3>1. pc[u] \in Alone => pc[u] # "rest"
      BY DEF Alone
    <3>2. pc[u] # "rest" => e[u] \in added /\ e[u] \in Pending
      BY <2>1 DEF Inserts, Pending
    <3> QED
      BY <2>1, <3>1, <3>2 DEF Linked
  <2>3. c[u] \in Linked /\ next[c[u]] # Null => next'[c[u]] # Null
    BY DEF Placed, Linked
  <2> QED
    BY <2>1, <2>2, <2>3, OtherInserts
<1>2. stage = "off" => FALSE
  BY DEF Placed, PointersOK
<1>3. \A u, v \in Threads : pc'[u] # "rest" /\ pc'[v] # "rest" /\ u # v => e'[u] # e'[v]
  BY DEF Placed, PointersOK
<1> QED
  BY <1>1, <1>2, <1>3 DEF PointersOK, Placed

LEMMA InsertPointers ==
    ASSUME HistoryTypeOK, PointersOK, NEW t \in Threads, Insert(t)
    PROVE  PointersOK'
<1>0. Placed(t) /\ Inserts(t)
  BY InsertPlaced DEF PointersOK
<1>t. next \in [Event -> Event \cup {Null}] /\ pc \in [Threads -> Places]
      /\ c \in [Threads -> Event \cup {Null}] /\ e \in [Threads -> Event \cup {Null}]
      /\ added \subseteq Event /\ Linked \subseteq added /\ Null \notin Event
  BY DEF HistoryTypeOK, Linked, Event, Null
<1>p. /\ head \in Linked \cup {Null}
      /\ \A i \in added : next[i] \in Linked \cup {Null}
  BY DEF PointersOK
\* The list stays what it is
<1>1. CASE IsEmpty(t) \/ Newer(t) \/ Walk(t) \/ IsLast(t) \/ Older(t)
  <2>1. UNCHANGED <<head, next>>
    BY <1>1 DEF IsEmpty, Newer, Walk, IsLast, Older, Unlinked
  <2>2. Linked' = Linked
    BY <1>0, <1>1, GoesOn DEF Placed, IsEmpty, Newer, Walk, IsLast, Older, Go
  <2>3. Inserts(t)'
    BY <1>0, <1>1, <1>t, <1>p, <2>1, <2>2
       DEF Placed, Inserts, Alone, IsEmpty, Newer, Walk, IsLast, Older, Go
  <2> QED
    BY <1>0, <1>t, <1>p, <2>1, <2>2, <2>3, PointersMade
\* The event gets the next one
<1>2. CASE Front(t) \/ Splice(t)
  <2>1. head' = head /\ \A i \in Event : i # e[t] => next'[i] = next[i]
    BY <1>t, <1>2 DEF Front, Splice
  <2>2. Linked' = Linked
    BY <1>0, <1>2, GoesOn DEF Placed, Front, Splice, Go
  <2>3. next'[e[t]] \in Linked \cup {Null}
    BY <1>0, <1>t, <1>p, <1>2 DEF Front, Splice, Placed, Inserts
  <2>4. Inserts(t)'
    BY <1>0, <1>t, <1>2, <2>2 DEF Placed, Inserts, Alone, Front, Splice, Go
  <2> QED
    BY <1>0, <1>t, <1>p, <2>1, <2>2, <2>3, <2>4, PointersMade
\* The event is linked
<1>3. CASE First(t) \/ LinkHead(t) \/ Link(t)
  <2>1. Linked' = Linked \cup {e[t]}
    BY <1>0, <1>3, GoesOff DEF Placed, First, LinkHead, Link, Go
  <2>2. Inserts(t)'
    BY <1>0, <1>t, <1>3 DEF Placed, Inserts, Alone, First, LinkHead, Link, Go
  <2>3. CASE First(t) \/ LinkHead(t)
    <3>1. head' = e[t] /\ next' = next
      BY <2>3 DEF First, LinkHead
    <3> QED
      BY <1>0, <1>t, <1>p, <2>1, <2>2, <3>1, PointersMade DEF Placed
  <2>4. CASE Link(t)
    <3>1. head' = head /\ next' = [next EXCEPT ![c[t]] = e[t]] /\ c[t] \in Linked
      BY <1>0, <2>4 DEF Link, Inserts
    <3>2. \A i \in added : next'[i] = IF i = c[t] THEN e[t] ELSE next[i]
      BY <1>t, <3>1
    <3> QED
      BY <1>0, <1>t, <1>p, <2>1, <2>2, <3>1, <3>2, PointersMade DEF Placed
  <2> QED
    BY <1>3, <2>3, <2>4
<1> QED
  BY <1>1, <1>2, <1>3 DEF Insert

LEMMA BeginPointers ==
    ASSUME HistoryTypeOK, PointersOK, NEW t \in Threads, NEW i \in Event \ added,
           Begin(t, i), added' = added \cup {i}, head' = head, stage' = stage, stage # "off"
    PROVE  PointersOK'
<1>0. /\ next \in [Event -> Event \cup {Null}] /\ Linked \subseteq added /\ added \subseteq Event
  BY DEF HistoryTypeOK, Linked
<1>1. Linked' = Linked
  BY GoesIn
<1>2. /\ pc'[t] = "empty" /\ e'[t] = i /\ pc[t] = "rest" /\ c' = c
      /\ \A u \in Threads : u # t => pc'[u] = pc[u] /\ e'[u] = e[u]
      /\ next'[i] = Null /\ \A x \in added : next'[x] = next[x]
  BY <1>0 DEF Begin, Go, HistoryTypeOK
<1>3. Inserts(t)'
  BY <1>2 DEF Inserts, Alone
<1>4. ASSUME NEW u \in Threads, u # t  PROVE Inserts(u)'
  <2>1. Inserts(u) /\ (pc[u] \in Alone => next'[e[u]] = next[e[u]])
    BY <1>2 DEF PointersOK, Inserts, Alone
  <2>2. c[u] \in Linked /\ next[c[u]] # Null => next'[c[u]] # Null
    BY <1>0, <1>2
  <2> QED
    BY <1>1, <1>2, <1>4, <2>1, <2>2, OtherInserts
<1>5. \A x \in added' : next'[x] \in Linked' \cup {Null}
  BY <1>1, <1>2 DEF PointersOK
<1>6. \A u \in Threads : pc[u] # "rest" => e[u] # i
  BY DEF PointersOK, Inserts
<1>7. \A u, v \in Threads : pc'[u] # "rest" /\ pc'[v] # "rest" /\ u # v => e'[u] # e'[v]
  BY <1>2, <1>6 DEF PointersOK
<1> QED
  BY <1>1, <1>3, <1>4, <1>5, <1>7 DEF PointersOK

\* The event a thread begins with is not in the list
LEMMA NewEvents ==
    ASSUME HistoryTypeOK, FilesOK
    PROVE  /\ \A i \in Event : Used = 1 .. i - 1 => i \notin added /\ i \notin Used
           /\ stage = "read" /\ unread # <<>> => Head(unread) \in Event \ added
<1>1. ASSUME NEW i \in Event, Used = 1 .. i - 1  PROVE i \notin added /\ i \notin Used
  <2>1. i \notin Used
    BY <1>1, HistoryAssumption DEF Event
  <2> QED
    BY <2>1 DEF FilesOK
<1>2. ASSUME stage = "read", unread # <<>>  PROVE Head(unread) \in Event \ added
  <2>1. unread \in Seq(Event) /\ Len(unread) > 0 /\ Head(unread) = unread[1]
    BY <1>2 DEF HistoryTypeOK
  <2>2. 1 \in DOMAIN unread
    BY <2>1
  <2> QED
    BY <1>2, <2>1, <2>2 DEF FilesOK, Members
<1> QED
  BY <1>1, <1>2

LEMMA PointersKept ==
    ASSUME HistoryTypeOK, PointersOK, FilesOK, HistoryNext
    PROVE  PointersOK'
<1>1. ASSUME NEW t \in Threads, AddEvent(t)  PROVE PointersOK'
  <2>1. PICK i \in Event : Used = 1 .. i - 1 /\ Begin(t, i) /\ added' = added \cup {i}
    BY <1>1, Zenon DEF AddEvent
  <2>2. head' = head /\ stage' = stage /\ stage # "off"
    BY <1>1, Zenon DEF AddEvent, program
  <2> QED
    BY <2>1, <2>2, NewEvents, BeginPointers
<1>2. CASE ReadLine
  <2>1. /\ Begin("user", Head(unread)) /\ added' = added \cup {Head(unread)}
        /\ head' = head /\ stage' = stage /\ stage = "read" /\ "user" \in Threads
    BY <1>2 DEF ReadLine, Threads
  <2> QED
    BY <1>2, <2>1, NewEvents, BeginPointers DEF ReadLine
<1>3. CASE RunStarts
  <2>1. pc' = pc /\ added' = {} /\ head' = Null /\ \A t \in Threads : pc[t] = "rest"
    BY <1>3 DEF RunStarts, local, PointersOK
  <2> QED
    BY <2>1 DEF PointersOK, Inserts, Alone
<1>4. CASE Exit
  <2>1. /\ \A t \in Threads : pc'[t] = "rest"
        /\ UNCHANGED <<head, next, added>>
    BY <1>4 DEF Exit
  <2>2. Linked' = added /\ Linked \subseteq added
    BY <2>1 DEF Linked, Pending
  <2> QED
    BY <2>1, <2>2 DEF PointersOK, Inserts, Alone
<1>5. CASE ReadEnds \/ ReadBackup \/ WriteStarts \/ WriteEvent \/ Tick
  <2>1. UNCHANGED <<head, next, pc, e, c, added>> /\ (stage' = "off" => stage = "off")
    BY <1>5 DEF ReadEnds, ReadBackup, WriteStarts, WriteEvent, Tick, local, program
  <2>2. Linked' = Linked
    BY <2>1 DEF Linked, Pending
  <2> QED
    BY <2>1, <2>2 DEF PointersOK, Inserts
<1> QED
  BY <1>1, <1>2, <1>3, <1>4, <1>5, InsertPointers DEF HistoryNext

----------------------------------------------------------------------------
(* Steps: the order of the list *)

\* Event x is put in just below event y
PutIn(rank, x, y) ==
    [i \in Event |-> IF i = x THEN rank[y]
                     ELSE IF rank[i] >= rank[y] THEN rank[i] + 1 ELSE rank[i]]

LEMMA PutInOrder ==
    ASSUME NEW rank \in [Event -> Nat], NEW x \in Event, NEW y \in Event, x # y
    PROVE  /\ PutIn(rank, x, y) \in [Event -> Nat]
           /\ \A i, j \in Event \ {x} :
                rank[i] < rank[j] => PutIn(rank, x, y)[i] < PutIn(rank, x, y)[j]
           /\ PutIn(rank, x, y)[x] < PutIn(rank, x, y)[y]
           /\ \A i \in Event \ {x} : rank[i] < rank[y] => PutIn(rank, x, y)[i] < PutIn(rank, x, y)[x]
BY DEF PutIn

\* The event of t takes its place, or the order stays
LEMMA OrderMade ==
    ASSUME HistoryTypeOK, PointersOK, FilesOK, NEW t \in Threads, Placed(t), PointersOK',
           NEW rank \in [Event -> Nat], Descends(rank), NEW to \in [Event -> Nat],
           \A i, j \in Event \ {e[t]} : rank[i] < rank[j] => to[i] < to[j],
           \A i \in added \ {e[t]} : next'[i] = next[i],
           next'[e[t]] # Null => to[next'[e[t]]] < to[e[t]],
           pc'[t] = "link" => to[e[t]] < to[c'[t]]
    PROVE  Ordered'
<1>0. /\ next \in [Event -> Event \cup {Null}] /\ added \subseteq Event /\ e[t] \in Event
      /\ Linked \subseteq added /\ e[t] \notin Linked
  BY DEF HistoryTypeOK, Linked, Placed
<1>1. ASSUME NEW i \in added, next'[i] # Null  PROVE to[next'[i]] < to[i]
  <2>1. CASE i = e[t]
    BY <1>1, <2>1
  <2>2. CASE i # e[t]
    <3>1. next[i] \in Linked
      BY <1>1, <2>2 DEF PointersOK
    <3>2. next[i] \in Event \ {e[t]} /\ i \in Event \ {e[t]} /\ rank[next[i]] < rank[i]
      BY <1>0, <1>1, <2>2, <3>1 DEF Descends
    <3> QED
      BY <1>1, <2>2, <3>2
  <2> QED
    BY <2>1, <2>2
<1>2. ASSUME NEW u \in Threads, pc'[u] = "link"  PROVE to[e'[u]] < to[c'[u]]
  <2>1. CASE u = t
    BY <1>2, <2>1 DEF Placed
  <2>2. CASE u # t
    <3>1. pc[u] = "link" /\ c'[u] = c[u] /\ e'[u] = e[u] /\ e[u] # e[t]
      BY <1>2, <2>2 DEF Placed
    <3>2. e[u] \in Event \ {e[t]} /\ c[u] \in Event \ {e[t]}
      BY <1>0, <3>1 DEF PointersOK, Inserts
    <3> QED
      BY <3>1, <3>2 DEF Descends
  <2> QED
    BY <2>1, <2>2
<1>3. ASSUME stage' = "write"
      PROVE  /\ \A i, j \in DOMAIN saved : i < j => to[saved[j]] < to[saved[i]]
             /\ walk # Null => \A i \in DOMAIN saved : to[walk] < to[saved[i]]
  <2>1. stage = "write"
    BY <1>3 DEF Placed
  <2>2. \A i \in DOMAIN saved : saved[i] \in Event \ {e[t]}
    BY <1>0, <2>1 DEF FilesOK, Members
  <2>3. walk # Null => walk \in Event \ {e[t]}
    BY <1>0, <2>1 DEF FilesOK
  <2> QED
    BY <2>1, <2>2, <2>3 DEF Descends
<1> QED
  BY <1>1, <1>2, <1>3 DEF Placed, Ordered, Descends

LEMMA InsertOrder ==
    ASSUME HistoryTypeOK, PointersOK, FilesOK, Ordered, NEW t \in Threads, Insert(t)
    PROVE  Ordered'
<1>0. Placed(t) /\ Inserts(t) /\ PointersOK'
  BY InsertPlaced, InsertPointers DEF PointersOK
<1>t. /\ next \in [Event -> Event \cup {Null}] /\ pc \in [Threads -> Places]
      /\ c \in [Threads -> Event \cup {Null}] /\ e \in [Threads -> Event \cup {Null}]
      /\ added \subseteq Event /\ Linked \subseteq added /\ Null \notin Event
      /\ e[t] \in Event /\ e[t] \notin Linked
  BY <1>0 DEF HistoryTypeOK, Linked, Event, Null, Placed
<1>p. /\ head \in Linked \cup {Null}
      /\ \A i \in added : next[i] \in Linked \cup {Null}
  BY DEF PointersOK
<1>r. PICK rank \in [Event -> Nat] : Descends(rank)
  BY DEF Ordered
\* Nothing new is about to be linked
<1>1. CASE IsEmpty(t) \/ Newer(t) \/ Walk(t) \/ Older(t) \/ First(t) \/ LinkHead(t)
  <2>1. next' = next /\ pc'[t] # "link"
    BY <1>t, <1>1 DEF IsEmpty, Newer, Walk, Older, First, LinkHead, Unlinked, Go
  <2>2. next'[e[t]] # Null => rank[next'[e[t]]] < rank[e[t]]
    BY <1>0, <1>r, <2>1 DEF Descends, Placed
  <2> QED
    BY <1>0, <1>r, <2>1, <2>2, OrderMade
\* At the front
<1>2. CASE Front(t)
  <2> DEFINE to == [rank EXCEPT ![e[t]] = rank[head] + 1]
  <2>1. /\ head \in Event /\ next' = [next EXCEPT ![e[t]] = head] /\ pc'[t] = "head"
        /\ head # e[t]
    BY <1>0, <1>t, <1>p, <1>2 DEF Front, Go, Inserts
  <2>2. /\ to \in [Event -> Nat]
        /\ \A i \in Event \ {e[t]} : to[i] = rank[i]
        /\ next'[e[t]] = head /\ to[head] < to[e[t]]
    BY <1>t, <1>r, <2>1
  <2> HIDE DEF to
  <2>3. \A i \in added \ {e[t]} : next'[i] = next[i]
    BY <1>t, <2>1
  <2> QED
    BY <1>0, <1>r, <2>1, <2>2, <2>3, OrderMade
\* Below the event c
<1>3. CASE IsLast(t) \/ Splice(t)
  <2> DEFINE to == PutIn(rank, e[t], c[t])
  <2>1. /\ c[t] \in Event /\ c[t] \in Linked /\ c[t] # e[t] /\ c' = c
        /\ next[c[t]] # Null => next[c[t]] \in Event \ {e[t]} /\ rank[next[c[t]]] < rank[c[t]]
    BY <1>0, <1>t, <1>p, <1>r, <1>3 DEF IsLast, Splice, Inserts, Descends
  <2>2. /\ to \in [Event -> Nat]
        /\ \A i, j \in Event \ {e[t]} : rank[i] < rank[j] => to[i] < to[j]
        /\ to[e[t]] < to[c[t]]
        /\ \A i \in Event \ {e[t]} : rank[i] < rank[c[t]] => to[i] < to[e[t]]
    BY <1>t, <1>r, <2>1, PutInOrder
  <2> HIDE DEF to
  <2>3. \A i \in added \ {e[t]} : next'[i] = next[i]
    BY <1>t, <1>3 DEF IsLast, Splice, Unlinked
  <2>4. next'[e[t]] # Null => to[next'[e[t]]] < to[e[t]]
    <3>1. CASE IsLast(t)
      BY <1>0, <3>1 DEF IsLast, Unlinked, Inserts, Alone
    <3>2. CASE Splice(t)
      BY <1>t, <2>1, <2>2, <3>2 DEF Splice
    <3> QED
      BY <1>3, <3>1, <3>2
  <2> QED
    BY <1>0, <1>r, <2>1, <2>2, <2>3, <2>4, OrderMade
\* Linked
<1>4. CASE Link(t)
  <2>1. /\ next' = [next EXCEPT ![c[t]] = e[t]] /\ c' = c /\ c[t] \in Linked /\ pc[t] = "link"
        /\ pc'[t] = "rest" /\ \A u \in Threads : u # t => pc'[u] = pc[u]
    BY <1>0, <1>t, <1>4 DEF Link, Inserts, Go
  <2>2. rank[e[t]] < rank[c[t]]
    BY <1>r, <2>1 DEF Descends
  <2>3. \A i \in added : next'[i] # Null => rank[next'[i]] < rank[i]
    BY <1>t, <1>r, <2>1, <2>2 DEF Descends
  <2>4. \A u \in Threads : pc'[u] = "link" => rank[e'[u]] < rank[c'[u]]
    BY <1>0, <1>r, <2>1 DEF Descends, Placed
  <2>5. Descends(rank)'
    BY <1>0, <1>r, <2>3, <2>4 DEF Descends, Placed
  <2> QED
    BY <1>r, <2>5 DEF Ordered
<1> QED
  BY <1>1, <1>2, <1>3, <1>4 DEF Insert

LEMMA BeginOrder ==
    ASSUME HistoryTypeOK, PointersOK, Ordered, NEW t \in Threads, NEW i \in Event \ added,
           Begin(t, i), added' = added \cup {i}, UNCHANGED <<stage, saved, walk>>
    PROVE  Ordered'
<1>1. PICK rank \in [Event -> Nat] : Descends(rank)
  BY DEF Ordered
<1>2. /\ pc'[t] = "empty" /\ c' = c
      /\ \A u \in Threads : u # t => pc'[u] = pc[u] /\ e'[u] = e[u]
      /\ next'[i] = Null /\ \A x \in added : next'[x] = next[x]
  BY DEF Begin, Go, HistoryTypeOK
<1>3. \A x \in added' : next'[x] # Null => rank[next'[x]] < rank[x]
  BY <1>1, <1>2 DEF Descends
<1>4. \A u \in Threads : pc'[u] = "link" => rank[e'[u]] < rank[c'[u]]
  BY <1>1, <1>2 DEF Descends
<1> QED
  BY <1>1, <1>3, <1>4 DEF Ordered, Descends

\* An event written is above the one that is next
LEMMA WriteOrder ==
    ASSUME HistoryTypeOK, PointersOK, FilesOK, Ordered, WriteEvent
    PROVE  Ordered'
<1>1. PICK rank \in [Event -> Nat] : Descends(rank)
  BY DEF Ordered
<1>2. /\ stage = "write" /\ stage' = stage /\ saved' = Append(saved, walk) /\ walk' = next[walk]
      /\ UNCHANGED <<next, pc, e, c, added>>
  BY DEF WriteEvent, local
<1>3. /\ saved \in Seq(Event) /\ walk \in Event /\ walk \in added
      /\ next[walk] # Null => next[walk] \in Event /\ rank[next[walk]] < rank[walk]
  BY <1>1, <1>2 DEF WriteEvent, HistoryTypeOK, FilesOK, Linked, Descends
<1>4. /\ \A i, j \in DOMAIN saved : i < j => rank[saved[j]] < rank[saved[i]]
      /\ \A i \in DOMAIN saved : rank[walk] < rank[saved[i]]
  BY <1>2 , <1>1 DEF Descends, WriteEvent
<1>5. /\ DOMAIN saved' = 1 .. Len(saved) + 1 /\ DOMAIN saved = 1 .. Len(saved)
      /\ Len(saved) \in Nat /\ saved'[Len(saved) + 1] = walk
      /\ \A i \in DOMAIN saved : saved'[i] = saved[i]
  BY <1>2, <1>3
<1>6. \A i \in DOMAIN saved' : i \in DOMAIN saved \/ i = Len(saved) + 1
  BY <1>5
<1>7. \A i, j \in DOMAIN saved' : i < j => rank[saved'[j]] < rank[saved'[i]]
  <2>1. SUFFICES ASSUME NEW i \in DOMAIN saved', NEW j \in DOMAIN saved', i < j
                 PROVE  rank[saved'[j]] < rank[saved'[i]]
    OBVIOUS
  <2>2. i \in DOMAIN saved
    BY <1>5, <2>1
  <2>3. CASE j \in DOMAIN saved
    BY <1>4, <1>5, <2>1, <2>2, <2>3
  <2>4. CASE j = Len(saved) + 1
    BY <1>4, <1>5, <2>2, <2>4
  <2> QED
    BY <1>6, <2>3, <2>4
<1>8. ASSUME walk' # Null, NEW i \in DOMAIN saved'  PROVE rank[walk'] < rank[saved'[i]]
  <2>1. /\ rank[walk'] < rank[walk] /\ walk' \in Event
    BY <1>2, <1>3, <1>8
  <2>2. CASE i \in DOMAIN saved
    <3>1. rank[walk] < rank[saved[i]] /\ saved[i] \in Event
      BY <1>3, <1>4, <2>2
    <3> QED
      BY <1>3, <1>5, <2>1, <2>2, <3>1
  <2>3. CASE i = Len(saved) + 1
    BY <1>5, <2>1, <2>3
  <2> QED
    BY <1>6, <2>2, <2>3
<1> QED
  BY <1>1, <1>2, <1>7, <1>8 DEF Ordered, Descends

LEMMA OrderKept ==
    ASSUME HistoryTypeOK, PointersOK, FilesOK, Ordered, HistoryNext
    PROVE  Ordered'
<1>0. PICK rank \in [Event -> Nat] : Descends(rank)
  BY DEF Ordered
<1>1. ASSUME NEW t \in Threads, AddEvent(t)  PROVE Ordered'
  <2>1. PICK i \in Event : Used = 1 .. i - 1 /\ Begin(t, i) /\ added' = added \cup {i}
    BY <1>1, Zenon DEF AddEvent
  <2>2. UNCHANGED <<stage, saved, walk>>
    BY <1>1, Zenon DEF AddEvent, program, disk
  <2> QED
    BY <2>1, <2>2, NewEvents, BeginOrder
<1>2. CASE ReadLine
  <2>1. /\ Begin("user", Head(unread)) /\ added' = added \cup {Head(unread)}
        /\ UNCHANGED <<stage, saved, walk>> /\ "user" \in Threads
    BY <1>2 DEF ReadLine, Threads, disk
  <2> QED
    BY <1>2, <2>1, NewEvents, BeginOrder DEF ReadLine
<1>3. CASE RunStarts
  <2>1. pc' = pc /\ added' = {} /\ stage' = "read" /\ \A t \in Threads : pc[t] = "rest"
    BY <1>3 DEF RunStarts, local, PointersOK
  <2> QED
    BY <1>0, <2>1 DEF Ordered, Descends
<1>4. CASE Exit
  <2>1. /\ \A t \in Threads : pc'[t] = "rest"
        /\ UNCHANGED <<next, added>> /\ stage' = "off"
    BY <1>4 DEF Exit
  <2> QED
    BY <1>0, <2>1 DEF Ordered, Descends
<1>5. CASE WriteStarts
  <2>1. /\ UNCHANGED <<next, pc, e, c, added>> /\ saved' = <<>>
    BY <1>5 DEF WriteStarts, local
  <2> QED
    BY <1>0, <2>1 DEF Ordered, Descends
<1>6. CASE ReadEnds \/ ReadBackup \/ Tick
  <2>1. UNCHANGED <<next, pc, e, c, added, saved, walk>> /\ (stage' = "write" => stage = "write")
    BY <1>6 DEF ReadEnds, ReadBackup, Tick, local, program, disk
  <2> QED
    BY <1>0, <2>1 DEF Ordered, Descends
<1> QED
  BY <1>1, <1>2, <1>3, <1>4, <1>5, <1>6, InsertOrder, WriteOrder DEF HistoryNext

\* A list in order has no circle, and the events that are in none keep theirs ended
LEMMA AcyclicFrom ==
    ASSUME HistoryTypeOK', PointersOK', Ordered', Acyclic,
           \A i \in Event \ added' : next'[i] = next[i]
    PROVE  Acyclic'
<1>1. SUFFICES ASSUME NEW S \in SUBSET Event, S # {}  PROVE \E i \in S : next'[i] \notin S
  BY DEF Acyclic
<1>2. PICK rank \in [Event -> Nat] :
         \A i \in added' : next'[i] # Null => rank[next'[i]] < rank[i]
  BY DEF Ordered, Descends
<1>3. CASE S \cap added' = {}
  BY <1>1, <1>3 DEF Acyclic
<1>4. CASE S \cap added' # {}
  <2> DEFINE T == {rank[i] : i \in S \cap added'}
  <2>1. T \subseteq Nat /\ T # {}
    BY <1>2, <1>4
  <2>2. PICK x \in T : \A y \in T : x <= y
    BY <2>1, LeastNumber
  <2>3. PICK i \in S \cap added' : rank[i] = x
    BY <2>2
  <2>4. next'[i] \notin S
    <3>1. SUFFICES ASSUME next'[i] \in S  PROVE FALSE
      OBVIOUS
    <3>2. next'[i] # Null /\ next'[i] \in added' /\ rank[next'[i]] < rank[i]
      BY <1>2, <2>3, <3>1 DEF PointersOK, Linked, Event, Null
    <3>3. rank[next'[i]] \in T /\ rank[next'[i]] \in Nat /\ rank[i] \in Nat
      BY <1>2, <2>3, <3>1, <3>2
    <3> QED
      BY <2>2, <2>3, <3>2, <3>3
  <2> QED
    BY <2>3, <2>4
<1> QED
  BY <1>3, <1>4

LEMMA AcyclicKept ==
    ASSUME HistoryTypeOK, PointersOK, Ordered, FilesOK, Acyclic, HistoryNext
    PROVE  Acyclic'
<1>1. HistoryTypeOK' /\ PointersOK' /\ Ordered'
  BY TypesKept, PointersKept, OrderKept
<1>2. \A i \in Event \ added' : next'[i] = next[i]
  <2>1. next \in [Event -> Event \cup {Null}]
    BY DEF HistoryTypeOK
  <2>2. ASSUME NEW t \in Threads, Insert(t)  PROVE \A i \in Event \ added' : next'[i] = next[i]
    <3>1. Placed(t) /\ Inserts(t)
      BY <2>2, InsertPlaced DEF PointersOK
    <3> QED
      BY <2>1, <2>2, <3>1 DEF Placed, Inserts, Linked, Insert, IsEmpty, First, Newer, Front,
         LinkHead, Walk, IsLast, Older, Splice, Link, Unlinked
  <2>3. ASSUME NEW t \in Threads, NEW i, Begin(t, i), added' = added \cup {i}
        PROVE  \A x \in Event \ added' : next'[x] = next[x]
    BY <2>1, <2>3 DEF Begin
  <2>4. ASSUME NEW t \in Threads, AddEvent(t)
        PROVE  \A x \in Event \ added' : next'[x] = next[x]
    BY <2>3, <2>4, Zenon DEF AddEvent
  <2>5. CASE ReadLine
    <3>1. "user" \in Threads
      BY DEF Threads
    <3> QED
      BY <2>3, <2>5, <3>1, Zenon DEF ReadLine
  <2>6. CASE RunStarts \/ ReadEnds \/ ReadBackup \/ WriteStarts \/ WriteEvent \/ Exit \/ Tick
    BY <2>6, Zenon DEF RunStarts, ReadEnds, ReadBackup, WriteStarts, WriteEvent, Exit, Tick
  <2> QED
    BY <2>2, <2>4, <2>5, <2>6 DEF HistoryNext
<1> QED
  BY <1>1, <1>2, AcyclicFrom

----------------------------------------------------------------------------
(* Steps: the files *)

LEMMA TailOf ==
    ASSUME NEW S, NEW s \in Seq(S), s # <<>>, Distinct(s)
    PROVE  /\ Distinct(Tail(s)) /\ Members(Tail(s)) \subseteq Members(s)
           /\ Head(s) \in Members(s) /\ Head(s) \notin Members(Tail(s))
<1>1. /\ Len(s) \in Nat /\ Len(s) > 0 /\ DOMAIN s = 1 .. Len(s) /\ Head(s) = s[1]
      /\ DOMAIN Tail(s) = 1 .. Len(s) - 1
      /\ \A i \in DOMAIN Tail(s) : Tail(s)[i] = s[i + 1] /\ i + 1 \in DOMAIN s /\ i + 1 # 1
  OBVIOUS
<1>2. 1 \in DOMAIN s
  BY <1>1
<1>3. Distinct(Tail(s))
  <2>1. SUFFICES ASSUME NEW i \in DOMAIN Tail(s), NEW j \in DOMAIN Tail(s),
                        Tail(s)[i] = Tail(s)[j]
                 PROVE  i = j
    BY DEF Distinct
  <2>2. i + 1 = j + 1 /\ i \in Int /\ j \in Int
    BY <1>1, <2>1 DEF Distinct
  <2> QED
    BY <2>2
<1>4. Head(s) \notin Members(Tail(s))
  BY <1>1, <1>2 DEF Distinct, Members
<1>5. Members(Tail(s)) \subseteq Members(s) /\ Head(s) \in Members(s)
  BY <1>1, <1>2 DEF Members
<1> QED
  BY <1>3, <1>4, <1>5

LEMMA FilesKept ==
    ASSUME HistoryTypeOK, PointersOK, Ordered, FilesOK, HistoryNext
    PROVE  FilesOK'
<1>t. /\ {unread, saved, older} \subseteq Seq(Event) /\ time \in [Event -> 0 .. MaxTime]
      /\ now \in 1 .. MaxTime
  BY DEF HistoryTypeOK
<1>1. ASSUME NEW t \in Threads, Insert(t)  PROVE FilesOK'
  <2>1. Placed(t)
    BY <1>1, InsertPlaced
  <2>2. Linked \subseteq Linked'
    <3>1. Pending' \subseteq Pending
      <4>1. \A u \in Threads : pc'[u] # "rest" => pc[u] # "rest" /\ e'[u] = e[u]
        BY <2>1 DEF Placed
      <4> QED
        BY <4>1 DEF Pending
    <3> QED
      BY <2>1, <3>1 DEF Linked, Placed
  <2> QED
    BY <2>1, <2>2 DEF Placed, FilesOK, Members, Distinct, Used
<1>2. ASSUME NEW t \in Threads, AddEvent(t)  PROVE FilesOK'
  <2>1. PICK i \in Event : /\ Used = 1 .. i - 1 /\ Begin(t, i) /\ added' = added \cup {i}
                           /\ time' = [time EXCEPT ![i] = now]
    BY <1>2, Zenon DEF AddEvent
  <2>2. UNCHANGED <<stage, saved, older, unread, walk>>
    BY <1>2, Zenon DEF AddEvent, program, disk
  <2>3. i \notin added /\ i \notin Used
    BY <2>1, NewEvents
  <2>4. Used' = Used \cup {i}
    BY <1>t, <2>1 DEF Used
  <2>5. Linked' = Linked
    BY <2>1, <2>3, GoesIn
  <2> QED
    BY <2>1, <2>2, <2>3, <2>4, <2>5 DEF FilesOK, Members, Distinct
<1>3. CASE ReadLine
  <2>1. /\ Begin("user", Head(unread)) /\ added' = added \cup {Head(unread)}
        /\ UNCHANGED <<stage, saved, older, walk, time>> /\ "user" \in Threads /\ stage = "read"
        /\ unread # <<>> /\ unread' = Tail(unread)
    BY <1>3 DEF ReadLine, Threads, disk
  <2>2. Used' = Used
    BY <2>1 DEF Used
  <2>3. /\ Distinct(unread) /\ Members(unread) \cap added = {} /\ unread \in Seq(Event)
        /\ Members(unread) \subseteq Used
    BY <1>t, <2>1 DEF FilesOK
  <2>4. /\ Distinct(unread') /\ Members(unread') \subseteq Members(unread)
        /\ Head(unread) \in Members(unread) /\ Head(unread) \notin Members(unread')
    BY <2>1, <2>3, TailOf
  <2>5. stage' # "write" /\ Members(saved)' = Members(saved) /\ Members(older)' = Members(older)
        /\ Distinct(saved)' /\ Distinct(older)' /\ added \subseteq Used
        /\ Members(saved) \cup Members(older) \subseteq Used
    BY <2>1 DEF FilesOK, Members, Distinct
  <2>6. Members(unread)' = Members(unread') /\ (Distinct(unread') => Distinct(unread)')
    BY DEF Members, Distinct
  <2> QED
    BY <2>1, <2>2, <2>3, <2>4, <2>5, <2>6 DEF FilesOK
<1>4. CASE RunStarts
  <2>1. /\ stage' = "read" /\ unread' = saved /\ added' = {} /\ UNCHANGED <<saved, older, time>>
    BY <1>4 DEF RunStarts, disk
  <2> QED
    BY <2>1 DEF FilesOK, Members, Distinct, Used
<1>5. CASE ReadBackup
  <2>1. /\ stage' = "read" /\ unread' = older /\ added = {}
        /\ UNCHANGED <<saved, older, time, added>>
    BY <1>5 DEF ReadBackup, disk
  <2> QED
    BY <2>1 DEF FilesOK, Members, Distinct, Used
<1>6. CASE WriteStarts
  <2>1. /\ stage' = "write" /\ older' = saved /\ saved' = <<>> /\ walk' = head
        /\ UNCHANGED <<unread, time, added, pc, e>>
    BY <1>6 DEF WriteStarts, local
  <2>2. Linked' = Linked /\ Used' = Used
    BY <2>1 DEF Linked, Pending, Used
  <2> QED
    BY <2>1, <2>2 DEF FilesOK, Members, Distinct, PointersOK
<1>7. CASE WriteEvent
  <2>1. /\ stage = "write" /\ stage' = "write" /\ saved' = Append(saved, walk) /\ walk' = next[walk]
        /\ walk # Null /\ UNCHANGED <<unread, older, time, added, pc, e>>
    BY <1>7 DEF WriteEvent, local
  <2>2. Linked' = Linked /\ Used' = Used /\ Linked \subseteq added /\ added \subseteq Event
    BY <2>1 DEF Linked, Pending, Used, HistoryTypeOK
  <2>3. walk \in Linked /\ walk' \in Linked \cup {Null}
    BY <2>1, <2>2 DEF FilesOK, PointersOK
  <2>4. Members(saved') = Members(saved) \cup {walk}
    <3>1. /\ DOMAIN saved' = 1 .. Len(saved) + 1 /\ DOMAIN saved = 1 .. Len(saved)
          /\ Len(saved) \in Nat /\ saved'[Len(saved) + 1] = walk
          /\ \A i \in DOMAIN saved : saved'[i] = saved[i]
      BY <1>t, <2>1, <2>2, <2>3
    <3>2. \A i \in DOMAIN saved' : i \in DOMAIN saved \/ i = Len(saved) + 1
      BY <3>1
    <3>3. \A i \in DOMAIN saved : i \in DOMAIN saved'
      BY <3>1
    <3>4. Len(saved) + 1 \in DOMAIN saved'
      BY <3>1
    <3> QED
      BY <3>1, <3>2, <3>3, <3>4 DEF Members
  <2>5. Distinct(saved')
    <3>1. PICK rank \in [Event -> Nat] :
             \A i, j \in DOMAIN saved' : i < j => rank[saved'[j]] < rank[saved'[i]]
      BY <1>7, <2>1, WriteOrder DEF Ordered, Descends
    <3>2. saved' \in Seq(Event)
      BY <1>t, <2>1, <2>2, <2>3
    <3>3. SUFFICES ASSUME NEW i \in DOMAIN saved', NEW j \in DOMAIN saved', saved'[i] = saved'[j],
                          i # j
                   PROVE  FALSE
      BY DEF Distinct
    <3>4. i \in Int /\ j \in Int /\ saved'[i] \in Event
      BY <3>2
    <3>5. i < j \/ j < i
      BY <3>3, <3>4
    <3>6. rank[saved'[i]] < rank[saved'[i]]
      BY <3>1, <3>3, <3>5
    <3> QED
      BY <3>1, <3>4, <3>6
  <2>6. Members(saved)' = Members(saved') /\ (Distinct(saved') => Distinct(saved)')
    BY DEF Members, Distinct
  <2> QED
    BY <2>1, <2>2, <2>3, <2>4, <2>5, <2>6 DEF FilesOK, Members, Distinct
<1>8. CASE ReadEnds \/ Exit \/ Tick
  <2>1. /\ UNCHANGED <<saved, older, unread, walk, time, added>>
        /\ stage' = stage \/ stage' \notin {"read", "write"}
        /\ stage' = "write" => UNCHANGED <<pc, e>>
    BY <1>8 DEF ReadEnds, Exit, Tick, local, disk, program
  <2>2. stage' = "write" => Linked' = Linked
    BY <2>1 DEF Linked, Pending
  <2> QED
    BY <2>1, <2>2 DEF FilesOK, Members, Distinct, Used
<1> QED
  BY <1>1, <1>2, <1>3, <1>4, <1>5, <1>6, <1>7, <1>8 DEF HistoryNext

----------------------------------------------------------------------------
(* Steps: what one thread alone makes of the list *)

\* What the list has is reached from the head as long as it can be within the list
Reached == \A S \in SUBSET Event : Closed(S) /\ (head # Null => head \in S) => Linked \subseteq S

\* Sets that are closed after a step are closed before it, as far as the list goes
LEMMA ReachedBefore ==
    ASSUME HistoryTypeOK, PointersOK, Reached, NEW S \in SUBSET Event,
           head # Null => head \in S,
           \A i \in S \cap Linked : next[i] # Null => next[i] \in S
    PROVE  Linked \subseteq S
<1>1. Linked \subseteq added /\ added \subseteq Event
  BY DEF Linked, HistoryTypeOK
<1>2. Closed(S \cap Linked)
  BY <1>1 DEF Closed, PointersOK
<1>3. head # Null => head \in S \cap Linked
  BY DEF PointersOK
<1> QED
  BY <1>1, <1>2, <1>3 DEF Reached

LEMMA InsertWhole ==
    ASSUME HistoryTypeOK, PointersOK, Whole, NEW t \in Threads, Insert(t)
    PROVE  Whole'
<1>0. Placed(t) /\ Inserts(t) /\ Placing(t) /\ PointersOK' /\ HistoryTypeOK'
  BY InsertPlaced, InsertPointers, InsertTypes DEF PointersOK, Whole
<1>t. /\ next \in [Event -> Event \cup {Null}] /\ pc \in [Threads -> Places]
      /\ c \in [Threads -> Event \cup {Null}] /\ e \in [Threads -> Event \cup {Null}]
      /\ time \in [Event -> 0 .. MaxTime] /\ time' = time /\ e' = e
      /\ added \subseteq Event /\ Linked \subseteq added /\ Null \notin Event
      /\ e[t] \in Event /\ e[t] \notin Linked
  BY <1>0 DEF HistoryTypeOK, Linked, Event, Null, Placed
<1>p. /\ head \in Linked \cup {Null}
      /\ \A i \in added : next[i] \in Linked \cup {Null}
      /\ \A i \in Linked : next[i] # Null => time[next[i]] <= time[i]
      /\ Reached
  BY DEF PointersOK, Whole, Reached
<1>n. \A i \in Event : time[i] \in Int
  BY <1>t
<1>u. \A u \in Threads : u # t => pc'[u] = "rest"
  BY <1>0 DEF Whole, Placed, Threads
<1>w. SUFFICES /\ \A i \in Linked' : next'[i] # Null => time[next'[i]] <= time[i]
               /\ Reached'
               /\ Placing(t)'
  <2>1. \E u \in Threads : pc'[u] = "rest"
    BY <1>u DEF Threads
  <2>2. \A u \in Threads : u # t => Placing(u)'
    BY <1>u DEF Placing
  <2> QED
    BY <1>t, <2>1, <2>2 DEF Whole, Reached
\* The list stays what it is
<1>1. CASE IsEmpty(t) \/ Newer(t) \/ Walk(t) \/ IsLast(t) \/ Older(t)
  <2>1. UNCHANGED <<head, next>>
    BY <1>1 DEF IsEmpty, Newer, Walk, IsLast, Older, Unlinked
  <2>2. Linked' = Linked
    BY <1>0, <1>1, GoesOn DEF Placed, IsEmpty, Newer, Walk, IsLast, Older, Go
  <2>3. Reached'
    BY <1>p, <2>1, <2>2 DEF Reached, Closed
  <2>4. Placing(t)'
    <3>0. /\ pc[t] \in {"newer", "front", "walk"} => head \in Event
          /\ pc[t] \in {"last", "older", "splice", "link"} => c[t] \in Event
          /\ pc[t] \in {"older", "splice"} => next[c[t]] \in Event
      BY PlaceTypes
    <3>1. CASE IsEmpty(t)
      BY <1>t, <2>1, <3>1 DEF Placing, IsEmpty, Go
    <3>2. CASE Newer(t)
      BY <1>0, <1>t, <1>n, <2>1, <3>0, <3>2 DEF Placing, Newer, IsNewest, Go, Inserts
    <3>3. CASE Walk(t)
      BY <1>0, <1>t, <2>1, <3>3 DEF Placing, Walk, Go
    <3>4. CASE IsLast(t)
      BY <1>0, <1>t, <2>1, <3>4 DEF Placing, IsLast, Go, Inserts, Alone
    <3>5. CASE Older(t)
      BY <1>0, <1>t, <1>n, <2>1, <3>0, <3>5 DEF Placing, Older, Go, Inserts
    <3> QED
      BY <1>1, <3>1, <3>2, <3>3, <3>4, <3>5
  <2> QED
    BY <1>p, <2>1, <2>2, <2>3, <2>4
\* The event gets the next one
<1>2. CASE Front(t) \/ Splice(t)
  <2>1. head' = head /\ \A i \in Event : i # e[t] => next'[i] = next[i]
    BY <1>t, <1>2 DEF Front, Splice
  <2>2. Linked' = Linked
    BY <1>0, <1>2, GoesOn DEF Placed, Front, Splice, Go
  <2>3. \A i \in Linked : next'[i] = next[i]
    BY <1>t, <2>1
  <2>4. ASSUME NEW S \in SUBSET Event, Closed(S)', head' # Null => head' \in S
        PROVE  Linked \subseteq S
    <3>1. \A i \in S \cap Linked : next[i] # Null => next[i] \in S
      BY <2>3, <2>4 DEF Closed
    <3> QED
      BY <1>p, <2>1, <2>4, <3>1, ReachedBefore
  <2>5. Reached'
    BY <2>2, <2>4 DEF Reached
  <2>6. Placing(t)'
    <3>1. CASE Front(t)
      BY <1>0, <1>t, <2>1, <3>1 DEF Placing, Front, Go, Inserts
    <3>2. CASE Splice(t)
      <4>1. /\ c[t] \in Linked /\ next[c[t]] \in Event /\ c' = c /\ pc'[t] = "link"
            /\ next'[e[t]] = next[c[t]] /\ c[t] # e[t] /\ c[t] \in Event
            /\ time[e[t]] <= time[c[t]] /\ time[next[c[t]]] < time[e[t]]
        BY <1>0, <1>t, <1>n, <3>2, PlaceTypes DEF Placing, Splice, Go, Inserts
      <4>2. next'[c[t]] = next[c[t]]
        BY <2>1, <4>1
      <4> QED
        BY <1>t, <1>n, <4>1, <4>2 DEF Placing
    <3> QED
      BY <1>2, <3>1, <3>2
  <2> QED
    BY <1>p, <2>2, <2>3, <2>5, <2>6
\* The event is linked
<1>3. CASE First(t) \/ LinkHead(t) \/ Link(t)
  <2>1. Linked' = Linked \cup {e[t]}
    BY <1>0, <1>3, GoesOff DEF Placed, First, LinkHead, Link, Go
  <2>2. Placing(t)'
    BY <1>t, <1>3 DEF Placing, First, LinkHead, Link, Go
  <2>3. CASE First(t)
    <3>1. head = Null /\ head' = e[t] /\ next' = next /\ next[e[t]] = Null
      BY <1>0, <2>3 DEF First, Placing, Inserts, Alone
    <3>2. Linked = {}
      <4>1. {} \in SUBSET Event /\ Closed({})
        BY DEF Closed
      <4> QED
        BY <1>p, <3>1, <4>1 DEF Reached
    <3>3. Reached'
      <4>1. Linked' = {e[t]} /\ head' # Null
        BY <1>t, <2>1, <3>1, <3>2
      <4> QED
        BY <3>1, <4>1 DEF Reached
    <3> QED
      BY <2>1, <2>2, <3>1, <3>2, <3>3
  <2>4. CASE LinkHead(t)
    <3>1. /\ head # Null /\ head' = e[t] /\ next' = next /\ next[e[t]] = head
          /\ time[head] < time[e[t]]
      BY <1>0, <1>t, <1>p, <1>n, <2>4 DEF LinkHead, Placing
    <3>2. ASSUME NEW S \in SUBSET Event, Closed(S)', head' # Null => head' \in S
          PROVE  Linked' \subseteq S
      <4>1. e[t] \in S
        BY <1>t, <3>1, <3>2
      <4>2. head \in S /\ \A i \in S : next[i] # Null => next[i] \in S
        BY <3>1, <3>2, <4>1 DEF Closed
      <4> QED
        BY <1>p, <2>1, <4>1, <4>2, ReachedBefore
    <3>3. Reached'
      BY <3>2 DEF Reached
    <3>4. time[head] <= time[e[t]]
      BY <1>t, <1>p, <1>n, <3>1
    <3> QED
      BY <1>p, <2>1, <2>2, <3>1, <3>3, <3>4
  <2>5. CASE Link(t)
    <3>1. /\ head' = head /\ next' = [next EXCEPT ![c[t]] = e[t]] /\ c[t] \in Linked
          /\ c[t] # e[t] /\ next[e[t]] = next[c[t]] /\ time[e[t]] <= time[c[t]]
          /\ next[c[t]] # Null => time[next[c[t]]] <= time[e[t]]
      BY <1>0, <1>t, <2>5 DEF Link, Inserts, Placing
    <3>2. /\ next'[c[t]] = e[t] /\ next'[e[t]] = next[c[t]]
          /\ \A i \in Event : i # c[t] => next'[i] = next[i]
      BY <1>t, <3>1
    <3>3. ASSUME NEW S \in SUBSET Event, Closed(S)', head' # Null => head' \in S
          PROVE  Linked' \subseteq S
      <4>0. \A i \in S : next'[i] # Null => next'[i] \in S
        BY <3>3 DEF Closed
      <4>1. c[t] \in S => e[t] \in S /\ (next[c[t]] # Null => next[c[t]] \in S)
        BY <1>t, <3>2, <4>0
      <4>2. \A i \in S : next[i] # Null => next[i] \in S
        BY <3>2, <4>0, <4>1
      <4>3. Linked \subseteq S
        BY <1>p, <3>1, <3>3, <4>2, ReachedBefore
      <4> QED
        BY <2>1, <3>1, <4>1, <4>3
    <3>4. Reached'
      BY <3>3 DEF Reached
    <3>5. ASSUME NEW i \in Linked', next'[i] # Null  PROVE time[next'[i]] <= time[i]
      <4>1. CASE i = c[t]
        BY <3>1, <3>2, <4>1
      <4>2. CASE i = e[t]
        BY <3>1, <3>2, <3>5, <4>2
      <4>3. CASE i \in Linked /\ i # c[t]
        <5>1. i \in Event
          BY <1>t, <4>3
        <5> QED
          BY <1>p, <3>2, <3>5, <4>3, <5>1
      <4> QED
        BY <2>1, <3>5, <4>1, <4>2, <4>3
    <3> QED
      BY <2>2, <3>4, <3>5
  <2> QED
    BY <1>3, <2>3, <2>4, <2>5
<1> QED
  BY <1>1, <1>2, <1>3 DEF Insert

LEMMA BeginWhole ==
    ASSUME HistoryTypeOK, PointersOK, ~met => Whole, ~met',
           NEW t \in Threads, NEW i \in Event \ added,
           Begin(t, i), added' = added \cup {i}, head' = head,
           \A x \in added : time'[x] = time[x]
    PROVE  Whole'
<1>0. /\ next \in [Event -> Event \cup {Null}] /\ added \subseteq Event /\ Linked \subseteq added
      /\ i \notin added /\ head \in Linked \cup {Null}
      /\ \A x \in added : next[x] \in Linked \cup {Null}
  BY DEF HistoryTypeOK, Linked, PointersOK
<1>1. /\ ~met /\ pc[Other(t)] = "rest" /\ pc'[t] = "empty"
      /\ \A u \in Threads : u # t => pc'[u] = pc[u]
      /\ \A x \in added : next'[x] = next[x]
  BY <1>0 DEF Begin, Go, HistoryTypeOK
<1>2. Linked' = Linked
  BY GoesIn
<1>3. Other(t) \in Threads /\ Other(t) # t /\ \A u \in Threads : u # t => u = Other(t)
  BY DEF Other, Threads
<1>4. /\ \E u \in Threads : pc'[u] = "rest"
      /\ \A u \in Threads : Placing(u)'
  BY <1>1, <1>3 DEF Placing
<1>5. \A x \in Linked' : next'[x] # Null => time'[next'[x]] <= time'[x]
  BY <1>0, <1>1, <1>2 DEF Whole
<1>6. ASSUME NEW S \in SUBSET Event, Closed(S)', head' # Null => head' \in S
      PROVE  Linked' \subseteq S
  <2>1. \A x \in S \cap Linked : next[x] # Null => next[x] \in S
    BY <1>0, <1>1, <1>6 DEF Closed
  <2>2. Reached
    BY <1>1 DEF Whole, Reached
  <2> QED
    BY <1>2, <1>6, <2>1, <2>2, ReachedBefore
<1> QED
  BY <1>4, <1>5, <1>6 DEF Whole

LEMMA WholeKept ==
    ASSUME HistoryTypeOK, PointersOK, FilesOK, ~met /\ stage # "off" => Whole,
           ~met', stage' # "off", HistoryNext
    PROVE  Whole'
<1>1. ASSUME NEW t \in Threads, Insert(t)  PROVE Whole'
  <2>1. ~met /\ stage # "off"
    BY <1>1, InsertPlaced DEF Placed
  <2> QED
    BY <1>1, <2>1, InsertWhole
<1>2. ASSUME NEW t \in Threads, AddEvent(t)  PROVE Whole'
  <2>1. PICK i \in Event : /\ Used = 1 .. i - 1 /\ Begin(t, i) /\ added' = added \cup {i}
                           /\ time' = [time EXCEPT ![i] = now]
    BY <1>2, Zenon DEF AddEvent
  <2>2. head' = head /\ stage' = stage
    BY <1>2, Zenon DEF AddEvent, program
  <2>3. i \in Event \ added
    BY <2>1, NewEvents
  <2>4. \A x \in added : time'[x] = time[x]
    BY <2>1, <2>3 DEF HistoryTypeOK
  <2> QED
    BY <2>1, <2>2, <2>3, <2>4, BeginWhole
<1>3. CASE ReadLine
  <2>1. /\ Begin("user", Head(unread)) /\ added' = added \cup {Head(unread)} /\ head' = head
        /\ time' = time /\ "user" \in Threads /\ stage = "read" /\ unread # <<>>
    BY <1>3 DEF ReadLine, Threads
  <2> QED
    BY <2>1, NewEvents, BeginWhole
<1>4. CASE RunStarts
  <2>1. pc' = pc /\ added' = {} /\ head' = Null /\ \A t \in Threads : pc[t] = "rest"
    BY <1>4 DEF RunStarts, local, PointersOK
  <2>2. Linked' = {}
    BY <2>1 DEF Linked
  <2> QED
    BY <2>1, <2>2 DEF Whole, Placing, Threads
<1>5. CASE ReadEnds \/ ReadBackup \/ WriteStarts \/ WriteEvent \/ Tick
  <2>1. UNCHANGED <<head, next, pc, e, c, added, time, met>> /\ stage # "off"
    BY <1>5 DEF ReadEnds, ReadBackup, WriteStarts, WriteEvent, Tick, local, program
  <2>2. Linked' = Linked
    BY <2>1 DEF Linked, Pending
  <2> QED
    BY <2>1, <2>2 DEF Whole, Placing, Closed
<1> QED
  BY <1>1, <1>2, <1>3, <1>4, <1>5 DEF HistoryNext, Exit

----------------------------------------------------------------------------
(* The invariant and what follows *)

LEMMA HistoryBegins ==
    ASSUME HistoryInit
    PROVE  HistoryInv
<1>1. HistoryTypeOK
  <2>1. now \in 1 .. MaxTime /\ runs \in 0 .. MaxRuns /\ 0 \in 0 .. MaxTime
    BY HistoryAssumption DEF HistoryInit
  <2>2. {unread, saved, older} \subseteq Seq(Event) /\ {met, alone} \subseteq BOOLEAN
    <3>1. <<>> \in Seq(Event)
      OBVIOUS
    <3>2. {unread, saved, older} \subseteq Seq(Event)
      BY <3>1, Zenon DEF HistoryInit
    <3>3. {met, alone} \subseteq BOOLEAN
      BY Zenon DEF HistoryInit
    <3> QED
      BY <3>2, <3>3
  <2>3. /\ next \in [Event -> Event \cup {Null}] /\ time \in [Event -> 0 .. MaxTime]
        /\ pc \in [Threads -> Places] /\ added \subseteq Event
        /\ stage \in {"off", "read", "run", "write"}
        /\ e \in [Threads -> Event \cup {Null}] /\ c \in [Threads -> Event \cup {Null}]
    BY <2>1 DEF HistoryInit, Places
  <2> QED
    BY <2>1, <2>2, <2>3 DEF HistoryInit, HistoryTypeOK
<1>2. PointersOK
  BY DEF HistoryInit, PointersOK, Inserts, Alone
<1>3. Ordered
  <2>1. [i \in Event |-> 0] \in [Event -> Nat]
    OBVIOUS
  <2> QED
    BY <2>1 DEF Ordered, Descends, HistoryInit
<1>4. Acyclic
  <2>1. Null \notin Event /\ \A i \in Event : next[i] = Null
    BY HistoryAssumption DEF HistoryInit, Event, Null
  <2> QED
    BY <2>1 DEF Acyclic
<1>5. FilesOK
  BY DEF HistoryInit, FilesOK, Members, Distinct
<1> QED
  BY <1>1, <1>2, <1>3, <1>4, <1>5 DEF HistoryInv, HistoryInit

LEMMA HistoryKeeps ==
    ASSUME HistoryInv, [HistoryNext]_historyVars
    PROVE  HistoryInv'
<1>1. CASE UNCHANGED historyVars
  <2>1. /\ UNCHANGED <<stage, head, next, time, now, pc, e, c, unread>>
        /\ UNCHANGED <<walk, saved, older, runs, added, met, alone>>
    BY <1>1 DEF historyVars
  <2>2. Linked' = Linked /\ Used' = Used
    BY <2>1 DEF Linked, Pending, Used
  <2>3. HistoryTypeOK'
    BY <2>1 DEF HistoryInv, HistoryTypeOK
  <2>4. PointersOK'
    BY <2>1, <2>2 DEF HistoryInv, PointersOK, Inserts
  <2>5. Ordered'
    <3>1. PICK rank \in [Event -> Nat] : Descends(rank)
      BY DEF HistoryInv, Ordered
    <3>2. Descends(rank)'
      BY <2>1, <3>1 DEF Descends
    <3> QED
      BY <3>2 DEF Ordered
  <2>6. Acyclic' /\ FilesOK'
    BY <2>1, <2>2 DEF HistoryInv, Acyclic, FilesOK, Distinct, Members
  <2>7. ~met' /\ stage' # "off" => Whole'
    BY <2>1, <2>2 DEF HistoryInv, Whole, Placing, Closed
  <2> QED
    BY <2>3, <2>4, <2>5, <2>6, <2>7 DEF HistoryInv
<1>2. CASE HistoryNext
  BY <1>2, TypesKept, PointersKept, OrderKept, AcyclicKept, FilesKept, WholeKept DEF HistoryInv
<1> QED
  BY <1>1, <1>2

LEMMA HistoryHolds ==
    ASSUME HistoryInv
    PROVE  ListIsHistory
<1>t. /\ HistoryTypeOK /\ next \in [Event -> Event \cup {Null}] /\ time \in [Event -> 0 .. MaxTime]
      /\ PointersOK /\ Acyclic /\ head \in Event \cup {Null} /\ added \subseteq Event
      /\ MaxEvents \in Nat
  BY HistoryAssumption DEF HistoryInv, HistoryTypeOK
<1>1. ListEnds
  BY <1>t, AcyclicEnds DEF ListEnds
<1>2. ASSUME stage # "off", AtRest, ~met
      PROVE  Members(Listed) = added /\ Sorted(Listed)
  <2>0. Whole /\ Linked = added
    BY <1>2 DEF HistoryInv, AtRest, Linked, Pending
  <2> DEFINE at == From(head)
  <2>1. Steps(head, at, MaxEvents)
    BY FromSteps
  <2>e. head \in Event => at[MaxEvents] = Null
    BY <1>1 DEF ListEnds, Ends
  <2> HIDE DEF at
  <2>2. at[MaxEvents] = Null
    <3>1. CASE head = Null
      <4>1. at[0] = Null
        BY <2>1, <3>1, Zenon DEF Steps
      <4>2. MaxEvents \in Nat /\ 0 \in 0 .. MaxEvents /\ MaxEvents \in 0 .. MaxEvents
        BY <1>t
      <4> QED
        BY <2>1, <4>1, <4>2, PathOver, Zenon
    <3> QED
      BY <1>t, <2>e, <3>1
  <2>3. PICK n \in 0 .. MaxEvents : /\ at[n] = Null
                                    /\ \A m \in 0 .. n - 1 : at[m] # Null
                                    /\ Listed = [k \in 1 .. n |-> at[k - 1]]
    BY <2>2, ListedIs DEF at
  <2>4. \A m \in 0 .. n - 1 : at[m] \in added /\ m \in 0 .. MaxEvents
    <3>1. Closed(added) /\ head \in added \cup {Null}
      BY <1>t, <2>0 DEF PointersOK, Closed
    <3>2. ASSUME NEW m \in 0 .. n - 1  PROVE at[m] \in added /\ m \in 0 .. MaxEvents
      <4>1. m \in 0 .. MaxEvents
        BY <1>t
      <4>2. at[m] \in added \cup {Null}
        BY <1>t, <2>1, <3>1, <4>1, PathStays
      <4> QED
        BY <2>3, <4>1, <4>2
    <3> QED
      BY <3>2
  <2>5. \A m \in 1 .. n : at[m] = next[at[m - 1]]
    <3>1. ASSUME NEW m \in 1 .. n  PROVE at[m] = next[at[m - 1]]
      <4>1. m \in 1 .. MaxEvents /\ m - 1 \in 0 .. n - 1
        BY <1>t
      <4> QED
        BY <2>1, <2>3, <4>1 DEF Steps
    <3> QED
      BY <3>1
  <2>6. Members(Listed) = added
    <3> DEFINE S == {at[m] : m \in 0 .. n - 1}
    <3>1. S \in SUBSET Event /\ S \subseteq added
      BY <1>t, <2>4
    <3>2. ASSUME NEW m \in 0 .. n - 1, next[at[m]] # Null  PROVE next[at[m]] \in S
      <4>1. m + 1 \in 1 .. n /\ (m + 1) - 1 = m
        BY <1>t
      <4>2. at[m + 1] = next[at[m]]
        BY <2>5, <4>1
      <4>3. m + 1 # n
        BY <2>3, <3>2, <4>2
      <4>4. m + 1 \in 0 .. n - 1
        BY <4>1, <4>3
      <4> QED
        BY <4>2, <4>4
    <3>3. head # Null => head \in S
      <4>1. at[0] = head
        BY <2>1 DEF Steps
      <4>2. head # Null => 0 \in 0 .. n - 1
        BY <1>t, <2>3, <4>1
      <4> QED
        BY <4>1, <4>2
    <3>4. added \subseteq S
      <4>1. Closed(S)
        BY <3>2 DEF Closed
      <4> HIDE DEF S
      <4> QED
        BY <2>0, <3>1, <3>3, <4>1 DEF Whole
    <3>5. Members(Listed) = S
      <4>1. DOMAIN Listed = 1 .. n /\ \A k \in 1 .. n : Listed[k] = at[k - 1] /\ k - 1 \in 0 .. n - 1
        BY <1>t, <2>3
      <4>2. \A m \in 0 .. n - 1 : m + 1 \in 1 .. n /\ at[m] = at[(m + 1) - 1]
        <5>1. ASSUME NEW m \in 0 .. n - 1  PROVE m + 1 \in 1 .. n /\ (m + 1) - 1 = m
          BY <1>t
        <5> QED
          BY <5>1
      <4>3. \A m \in 0 .. n - 1 : at[m] = Listed[m + 1]
        BY <4>1, <4>2
      <4>4. Members(Listed) \subseteq S
        BY <4>1 DEF Members
      <4>5. S \subseteq Members(Listed)
        BY <4>1, <4>2, <4>3 DEF Members
      <4> QED
        BY <4>4, <4>5
    <3> QED
      BY <3>1, <3>4, <3>5
  <2>7. Sorted(Listed)
    <3>1. SUFFICES ASSUME NEW i \in 1 .. n, NEW j \in 1 .. n, i < j
                   PROVE  time[at[i - 1]] >= time[at[j - 1]]
      BY <2>3 DEF Sorted
    <3> DEFINE T == {m \in i .. n - 1 : ~(time[at[i - 1]] >= time[at[m]])}
    <3>2. SUFFICES ASSUME T # {}  PROVE FALSE
      <4>1. j - 1 \in i .. n - 1
        BY <1>t, <3>1
      <4> QED
        BY <4>1
    <3>3. PICK m \in T : \A y \in T : m <= y
      <4>1. T \subseteq Nat
        BY <1>t
      <4> QED
        BY <3>2, <4>1, LeastNumber
    <3>4. /\ m \in 1 .. n - 1 /\ m - 1 \in 0 .. n - 1 /\ i - 1 \in 0 .. n - 1 /\ m \in 0 .. n - 1
          /\ m \in 1 .. n
      BY <1>t, <3>1, <3>3
    <3>5. time[at[m]] <= time[at[m - 1]]
      <4>1. at[m] = next[at[m - 1]] /\ at[m - 1] \in Linked /\ next[at[m - 1]] # Null
        BY <2>0, <2>3, <2>4, <2>5, <3>4
      <4> QED
        BY <2>0, <4>1 DEF Whole
    <3>6. time[at[i - 1]] >= time[at[m - 1]]
      <4>1. CASE m = i
        <5>1. time[at[i - 1]] \in Int
          BY <1>t, <2>4, <3>4
        <5> QED
          BY <4>1, <5>1
      <4>2. CASE m # i
        <5>1. m - 1 \in i .. n - 1 /\ ~(m <= m - 1)
          BY <1>t, <3>3, <4>2
        <5> QED
          BY <3>3, <5>1
      <4> QED
        BY <4>1, <4>2
    <3>7. time[at[i - 1]] \in Int /\ time[at[m]] \in Int /\ time[at[m - 1]] \in Int
      BY <1>t, <2>4, <3>4
    <3> QED
      BY <3>3, <3>5, <3>6, <3>7
  <2> QED
    BY <2>6, <2>7
<1> QED
  BY <1>t, <1>1, <1>2 DEF ListIsHistory

\* history_insert_event() has no lock: however the two threads meet in it, in any
\* number of runs, the list ends; and if they did not meet in this run it has
\* every event that was added, the newest first.
THEOREM HistoryIsInOrder == HistorySpec => []ListIsHistory
<1>1. HistoryInit => HistoryInv
  BY HistoryBegins
<1>2. HistoryInv /\ [HistoryNext]_historyVars => HistoryInv'
  BY HistoryKeeps
<1>3. HistoryInv => ListIsHistory
  BY HistoryHolds
<1> QED
  BY <1>1, <1>2, <1>3, PTL DEF HistorySpec
=============================================================================
