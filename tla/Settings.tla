------------------------------ MODULE Settings ------------------------------
(***************************************************************************)
(* The settings over the starts and ends of the program: defaults, config  *)
(* file, command line arguments, what the devices found at start make of   *)
(* them, commands, and the config file written at the end, with the one    *)
(* before it renamed to a backup.  The program may be killed at any time.  *)
(*                                                                         *)
(* A file is the record its lines were taken from and how many of them it  *)
(* has.  The lines have the same order when the file is created and when   *)
(* it is written.                                                          *)
(***************************************************************************)
EXTENDS Naturals, Sequences, FiniteSets

CONSTANTS MaxStarts,  \* bound: starts of the program
          MaxChanges, \* bound: arguments and commands
          MaxFaults   \* bound: kills, devices that are not there, files that cannot be opened

ASSUME BoundsAssumption == MaxStarts \in Nat /\ MaxChanges \in Nat /\ MaxFaults \in Nat

VARIABLES
    phase,    \* of main()
    noconfig, \* -noconfig was given
    config,   \* the config structure
    ua,       \* the settings in the user agent
    file,     \* the config file
    backup,   \* the one with a ~
    count,    \* starts, changes and faults so far
    \* history, which no action looks at
    chosen,   \* what the user chose, with the keys that were hurt by a fault
    kept,     \* the same when the file was written last
    torn,     \* files that were not finished since the last complete one
    old       \* the backup was read

files == <<file, backup>>
history == <<chosen, kept, torn, old>>
vars == <<phase, noconfig, config, ua, file, backup, count, chosen, kept, torn, old>>

----------------------------------------------------------------------------
(* Keys and values *)

Keys == <<"debug", "log", "nat", "if_name", "sip_port", "rtp_port", "stun_server",
          "remote_uri", "register_uri", "outbound_proxy_host", "outbound_proxy_port",
          "soundcard", "ringtone_device", "ringtone_file", "dns">>

Key == {Keys[i] : i \in DOMAIN Keys}

\* Values that stand for all those a user may choose; a port may be out of range
Choices ==
    [debug |-> {"on", "off"}, log |-> {"info", "error"}, nat |-> {"on", "off"},
     if_name |-> {"eth0", "eth1"}, sip_port |-> {"5060", "5070", "70000"},
     rtp_port |-> {"5004", "6000"}, stun_server |-> {"", "counterpath", "stun"},
     remote_uri |-> {"", "613@fwd", "friend"}, register_uri |-> {"", "276140@fwd", "me"},
     outbound_proxy_host |-> {"", "proxy"}, outbound_proxy_port |-> {"-1", "5070", "70000"},
     soundcard |-> {"/dev/dsp", "/dev/dsp1"}, ringtone_device |-> {"/dev/dsp", "/dev/dsp1"},
     ringtone_file |-> {"ring.wav", "own.wav"}, dns |-> {"yes", "no"}]

\* Command line arguments set some of the keys, commands some others
ArgumentKeys == {"if_name", "sip_port", "rtp_port", "stun_server", "soundcard",
                 "ringtone_device", "ringtone_file", "dns"}

CommandKeys == {"debug", "log", "nat", "stun_server", "remote_uri", "register_uri",
                "outbound_proxy_host", "outbound_proxy_port", "soundcard",
                "ringtone_device", "ringtone_file"}

\* config_init()
Defaults ==
    [debug |-> "on", log |-> "info", nat |-> "on", if_name |-> "", sip_port |-> "5060",
     rtp_port |-> "5004", stun_server |-> "", remote_uri |-> "", register_uri |-> "",
     outbound_proxy_host |-> "", outbound_proxy_port |-> "-1", soundcard |-> "/dev/dsp",
     ringtone_device |-> "/dev/dsp", ringtone_file |-> "ring.wav", dns |-> "yes"]

\* config_file_create()
Created ==
    [Defaults EXCEPT !.if_name = "eth0", !.stun_server = "counterpath", !.remote_uri = "613@fwd",
                     !.register_uri = "276140@fwd", !.outbound_proxy_port = ""]

OutOfRange(port) == port \in {"70000", "-1"}

----------------------------------------------------------------------------
(* Files *)

None == [lines |-> 0, of |-> <<>>]

Complete(f) == f # None /\ f.lines = Len(Keys)

Fresh(record) == [lines |-> 0, of |-> record]

\* config_file_write(): the value of a line
Written(k, v) ==
    IF k = "if_name" /\ v = "lo" THEN "eth0"
    ELSE IF k = "outbound_proxy_port" /\ OutOfRange(v) THEN ""
    ELSE v

WrittenRecord(r) == [k \in Key |-> Written(k, r[k])]

\* The dns line is only read when it says yes
Parsed_NoDns(k, value, before) == IF value = "" \/ k = "dns" THEN before ELSE value

\* config_file_parse_line(): the setting after a line
Parsed(k, value, before) ==
    IF value = "" THEN before
    ELSE IF k \in {"sip_port", "rtp_port", "outbound_proxy_port"} /\ OutOfRange(value) THEN before
    ELSE IF k = "dns" /\ value # "no" THEN before
    ELSE value

\* The settings after all lines of a file
Loaded(f, before) ==
    [k \in Key |-> IF \E i \in 1 .. f.lines : Keys[i] = k THEN Parsed(k, f.of[k], before[k])
                   ELSE before[k]]

----------------------------------------------------------------------------
(* Start *)

Fault(n) == count.faults + n <= MaxFaults /\ count' = [count EXCEPT !.faults = @ + n]

\* config_init() and config_check_noconfig(); a missing file is to be created
Start ==
    /\ phase = "off" /\ count.starts < MaxStarts
    /\ noconfig' \in BOOLEAN
    /\ config' = Defaults
    /\ IF ~noconfig' /\ file = None THEN phase' = "create" /\ file' = Fresh(Created)
       ELSE phase' = (IF noconfig' THEN "args" ELSE "load") /\ UNCHANGED file
    /\ count' = [count EXCEPT !.starts = @ + 1]
    /\ chosen' = kept
    /\ UNCHANGED <<ua, backup, kept, torn, old>>

\* config_file_create() or config_file_write(), a line of it
WriteLine ==
    /\ phase \in {"create", "write"} /\ ~Complete(file)
    /\ file' = [file EXCEPT !.lines = @ + 1]
    /\ UNCHANGED <<phase, noconfig, config, ua, backup, count, history>>

FileCreated ==
    /\ phase = "create" /\ Complete(file)
    /\ phase' = "load" /\ torn' = 0
    /\ UNCHANGED <<noconfig, config, ua, files, count, chosen, kept, old>>

\* config_file_read()
Load ==
    /\ phase = "load"
    /\ config' = Loaded(file, config)
    /\ phase' = "args"
    /\ UNCHANGED <<noconfig, ua, files, count, history>>

\* The file cannot be opened: the backup is read, or the program gives up
LoadBackup ==
    /\ phase = "load" /\ Fault(1)
    /\ IF backup # None
       THEN config' = Loaded(backup, config) /\ phase' = "args" /\ old' = TRUE
       ELSE phase' = "off" /\ UNCHANGED <<config, old>>
    /\ UNCHANGED <<noconfig, ua, files, chosen, kept, torn>>

\* The user chooses v for k; a port out of range does not survive the config file
Choose(k, v) ==
    /\ count.changes < MaxChanges
    /\ count' = [count EXCEPT !.changes = @ + 1]
    /\ chosen' = [of |-> [chosen.of EXCEPT ![k] = v],
                  hurt |-> IF Written(k, v) = v /\ ~OutOfRange(v) THEN chosen.hurt \ {k}
                           ELSE chosen.hurt \cup {k}]

\* config_check_cli_args(), an argument of it
Argument ==
    /\ phase = "args"
    /\ \E k \in ArgumentKeys : \E v \in Choices[k] \ {config[k]} :
           /\ Choose(k, v)
           /\ config' = [config EXCEPT ![k] = v]
    /\ UNCHANGED <<phase, noconfig, ua, files, kept, torn, old>>

\* config_apply(), sip_init(): what is configured but not there gives way to a default,
\* the name of an interface to "lo", and a ring tone that cannot be loaded to none
Applied(down, silent) ==
    [k \in Key |->
        IF k = "if_name" /\ k \in down THEN "lo"
        ELSE IF k = "if_name" /\ config[k] = "" THEN "eth0"
        ELSE IF k = "ringtone_file" /\ k \in down /\ silent THEN ""
        ELSE IF k \in down THEN Defaults[k]
        ELSE config[k]]

Apply ==
    /\ phase = "args"
    /\ \E down \in SUBSET {"if_name", "soundcard", "ringtone_device", "ringtone_file"} :
           /\ Fault(Cardinality(down))
           /\ \E silent \in BOOLEAN : ua' = Applied(down, silent)
           /\ chosen' = [chosen EXCEPT !.hurt = @ \cup down]
    /\ phase' = "run"
    /\ UNCHANGED <<noconfig, config, files, kept, torn, old>>

----------------------------------------------------------------------------
(* Run and end *)

\* A command that changes a setting
Set ==
    /\ phase = "run"
    /\ \E k \in CommandKeys : \E v \in Choices[k] \ {ua[k]} :
           /\ Choose(k, v)
           /\ ua' = [ua EXCEPT ![k] = v]
    /\ UNCHANGED <<phase, noconfig, config, files, kept, torn, old>>

\* The new file is opened without renaming the one before
Quit_NoRename ==
    /\ phase = "run"
    /\ phase' = "write" /\ file' = Fresh(WrittenRecord(ua))
    /\ UNCHANGED <<noconfig, config, ua, backup, count, history>>

\* The end of main(): config_file_write() up to the open of the new file
Quit ==
    /\ phase = "run"
    /\ IF noconfig THEN phase' = "off" /\ UNCHANGED files
       ELSE phase' = "write" /\ backup' = file /\ file' = Fresh(WrittenRecord(ua))
    /\ UNCHANGED <<noconfig, config, ua, count, history>>

\* The new file cannot be created; the one before was renamed already
CannotCreate ==
    /\ phase = "run" /\ ~noconfig /\ Fault(1)
    /\ backup' = file /\ file' = None
    /\ phase' = "off"
    /\ kept' = [chosen EXCEPT !.hurt = Key] /\ torn' = torn + 1
    /\ UNCHANGED <<noconfig, config, ua, chosen, old>>

FileWritten ==
    /\ phase = "write" /\ Complete(file)
    /\ phase' = "off" /\ kept' = chosen /\ torn' = 0
    /\ UNCHANGED <<noconfig, config, ua, files, count, chosen, old>>

\* The process is killed: the lines that were written stay
Kill ==
    /\ phase # "off" /\ Fault(1)
    /\ phase' = "off"
    /\ IF phase \in {"create", "write"}
       THEN /\ torn' = torn + 1
            /\ LET missing == {Keys[i] : i \in file.lines + 1 .. Len(Keys)}
               IN  kept' = [chosen EXCEPT !.hurt = @ \cup missing]
       ELSE UNCHANGED <<torn, kept>>
    /\ UNCHANGED <<noconfig, config, ua, files, chosen, old>>

Init ==
    /\ phase = "off" /\ noconfig = FALSE
    /\ config = Defaults /\ ua = Defaults
    /\ file = None /\ backup = None
    /\ count = [starts |-> 0, changes |-> 0, faults |-> 0]
    /\ chosen = [of |-> Created, hurt |-> {"outbound_proxy_port"}] /\ kept = chosen
    /\ torn = 2 /\ old = FALSE

Next == Start \/ WriteLine \/ FileCreated \/ Load \/ LoadBackup \/ Argument \/ Apply
        \/ Set \/ Quit \/ CannotCreate \/ FileWritten \/ Kill

Spec == Init /\ [][Next]_vars

----------------------------------------------------------------------------

Values(k) == Choices[k] \cup {Defaults[k], Created[k], "lo", ""}

FileOK(f) == f = None \/ (f.lines \in 0 .. Len(Keys) /\ \A k \in Key : f.of[k] \in Values(k))

\* Types of the variables
TypeOK ==
    /\ phase \in {"off", "create", "load", "args", "run", "write"}
    /\ {noconfig, old} \subseteq BOOLEAN
    /\ \A k \in Key : config[k] \in Values(k) /\ ua[k] \in Values(k)
    /\ FileOK(file) /\ FileOK(backup)
    /\ \A c \in {chosen, kept} : c.hurt \subseteq Key /\ \A k \in Key : c.of[k] \in Values(k)
    /\ count \in [starts : 0 .. MaxStarts, changes : 0 .. MaxChanges, faults : 0 .. MaxFaults]
    /\ torn \in Nat

\* A setting that was chosen, in a file, by an argument or by a command, is in force
\* after any number of ends and starts, unless a fault hurt it: its device was not
\* there at a start, its port was out of range, or its line was not written.  Then a
\* default is in force, and not something else.
SettingsKept ==
    /\ TypeOK
    /\ phase = "run" /\ ~noconfig /\ ~old =>
           \A k \in Key : \/ ua[k] = chosen.of[k]
                          \/ k \in chosen.hurt /\ ua[k] \in {Defaults[k], Created[k], "eth0", "lo", ""}

Writing == IF phase \in {"create", "write"} THEN 1 ELSE 0

\* Once a file is complete, one that is not finished, by a kill at any of its lines,
\* leaves a complete one behind. (It is not read then, and the next end of the program
\* throws it away.)
OneIsComplete == torn + Writing < 2 => Complete(file) \/ Complete(backup)
=============================================================================
