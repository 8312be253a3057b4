---------------------------- MODULE SoundDevices ----------------------------
(***************************************************************************)
(* The devices of the user agent: the sound card, the device the ring tone *)
(* is played on, which may be the same, and the file a call is recorded    *)
(* to.  They are opened, closed and exchanged by the user thread, and      *)
(* written by the SIP thread, which holds file descriptors: numbers that   *)
(* the system gives out again once they are closed.                        *)
(***************************************************************************)
EXTENDS Integers, FiniteSets, FiniteSetsExt

CONSTANTS Devices,   \* sound devices
          Default,   \* SOUNDCARD_DEVICE and RINGTONE_DEVICE
          Null,      \* "/dev/null"
          NoDevice,  \* ""
          Record,    \* a record file
          Closed,    \* what a closed descriptor refers to
          MaxFd,     \* bound: largest descriptor; the first that is free is 3
          MaxCuts    \* bound: recordings that a call takes with it

ASSUME NamesAssumption ==
    /\ Default \in Devices
    /\ Cardinality({Null, NoDevice, Record, Closed}) = 4
    /\ Devices \cap {Null, NoDevice, Record, Closed} = {}

ASSUME BoundsAssumption == MaxFd \in Nat /\ MaxCuts \in Nat

VARIABLES
    opened,  \* what each descriptor refers to
    card,    \* ua->soundcard: device, fd, no_soundcard (none)
    ring,    \* ua->ringtone: device, fd, no_ringtone (none), wdata # NULL (data)
    rec,     \* ua->recordfd, and SUAF_RECORDING (on)
    cn,      \* RTPF_CN_ENABLED
    user,    \* what is left of the user thread's command
    gtk,     \* the interface is GTK, and not the CLI
    sip,     \* where the SIP thread is
    \* history, which no action looks at
    mixed,   \* one descriptor served both devices and one of them gave it up, or a
             \* device was renamed
    raced,   \* a command touched what the SIP thread was using
    strays,  \* samples of a recording went elsewhere
    cuts     \* recordings that were cut off by the end of their call

history == <<mixed, raced, strays, cuts>>
vars == <<opened, card, ring, rec, cn, user, gtk, sip, mixed,
          raced, strays, cuts>>

----------------------------------------------------------------------------

Fds == 3 .. MaxFd

\* No descriptor
None == -1

Target(fd) == IF fd \in Fds THEN opened[fd] ELSE Closed

\* The old descriptor is forgotten
Close_Forgotten(fd) == opened

\* close(), of a descriptor that may be closed already or be another's by now;
\* 0 to 2 are left alone
Close(fd) == IF fd \in Fds THEN [opened EXCEPT ![fd] = Closed] ELSE opened

Lowest(table) == Min({fd \in Fds : table[fd] = Closed})

Room(table) == \E fd \in Fds : table[fd] = Closed

Opened(table, what) == [table EXCEPT ![Lowest(table)] = what]

IsSound(table, fd) == fd \in Fds /\ table[fd] \in Devices

\* The two devices have the same descriptor
Shared == card.fd = ring.fd /\ card.fd \in Fds

----------------------------------------------------------------------------
(* soundcard_init() and ringtone_device_init().  The device is opened unless it is
   the other one's, which then lends its descriptor.  The comparison with the other
   in the clear functions comes after the name was erased: it finds two devices
   equal that are both unnamed, and no others. *)

\* soundcard_init(); user' tells how it ended
CardInit(device, done, failed) ==
    LET table == Close(card.fd)
        other == IF ring.device = NoDevice THEN [ring EXCEPT !.fd = None] ELSE ring
        same  == device = ring.device
        bare  == [device |-> device, fd |-> None, none |-> TRUE]
    IN  /\ \/ /\ device = Null
              /\ opened' = table /\ card' = bare /\ ring' = other /\ user' = done
           \/ /\ device # Null /\ same /\ other.fd >= 0
              /\ opened' = table /\ ring' = other
              /\ card' = [bare EXCEPT !.fd = other.fd, !.none = ~IsSound(table, other.fd)]
              /\ user' = IF IsSound(table, other.fd) THEN done ELSE failed
           \/ /\ device # Null /\ ~(same /\ other.fd >= 0)
              /\ opened' = table /\ card' = bare /\ ring' = other /\ user' = failed
           \/ /\ device \in Devices /\ ~(same /\ other.fd >= 0) /\ Room(table)
              /\ opened' = Opened(table, device)
              /\ card' = [bare EXCEPT !.fd = Lowest(table), !.none = FALSE]
              /\ ring' = IF same THEN [other EXCEPT !.fd = Lowest(table)] ELSE other
              /\ user' = done
        /\ mixed' = (mixed \/ Shared)

\* ringtone_device_init(); no_ringtone also depends on the ring tone being loaded
RingInit(device, done, failed) ==
    LET table == Close(ring.fd)
        other == IF card.device = NoDevice THEN [card EXCEPT !.fd = None] ELSE card
        same  == device = card.device
        bare  == [ring EXCEPT !.device = device, !.fd = None, !.none = TRUE]
    IN  /\ \/ /\ device = Null
              /\ opened' = table /\ ring' = bare /\ card' = other /\ user' = done
           \/ /\ device # Null /\ same /\ other.fd >= 0
              /\ opened' = table /\ card' = other
              /\ ring' = [bare EXCEPT !.fd = other.fd, !.none = ~ring.data]
              /\ user' = done
           \/ /\ device # Null /\ ~(same /\ other.fd >= 0)
              /\ opened' = table /\ ring' = bare /\ card' = other /\ user' = failed
           \/ /\ device \in Devices /\ ~(same /\ other.fd >= 0) /\ Room(table)
              /\ opened' = Opened(table, device)
              /\ ring' = [bare EXCEPT !.fd = Lowest(table), !.none = ~ring.data]
              /\ card' = IF same THEN [other EXCEPT !.fd = Lowest(table)] ELSE other
              /\ user' = done
        /\ mixed' = (mixed \/ Shared)

----------------------------------------------------------------------------
(* The user thread *)

Names == Devices \cup {Null, NoDevice}

Rest == [at |-> "rest", device |-> NoDevice]

Then(at, device) == [at |-> at, device |-> device]

InCommand(at) == user.at = at /\ sip # "stuck"

\* config_set_audio(): a device that cannot be used is exchanged for the default
Startup ==
    \/ /\ user.at = "start card"
       /\ \E device \in Names \ {NoDevice} :
              CardInit(device, Then("start ring", NoDevice), Then("card default", NoDevice))
    \/ /\ user.at = "card default"
       /\ CardInit(Default, Then("start ring", NoDevice), Then("start ring", NoDevice))
    \/ /\ user.at = "start ring"
       /\ \E device \in Names \ {NoDevice} :
              RingInit(device, Then("start file", NoDevice), Then("ring default", NoDevice))
    \/ /\ user.at = "ring default"
       /\ RingInit(Default, Then("start file", NoDevice), Then("start file", NoDevice))

\* soundcard device; the settings dialog does the same
SetCard ==
    /\ InCommand("rest")
    /\ \E device \in Names : CardInit(device, Rest, Then("card again", card.device))

\* A device that could not be used is exchanged for the one before
CardAgain ==
    /\ InCommand("card again")
    /\ CardInit(user.device, Rest, Rest)

\* ringtone device
SetRing ==
    /\ InCommand("rest") /\ ~gtk
    /\ \E device \in Names : RingInit(device, Rest, Then("ring again", ring.device))

RingAgain ==
    /\ InCommand("ring again")
    /\ RingInit(user.device, Rest, Rest)

\* The dialog for the ring tone's device tries it as the sound card
GtkSetRing ==
    /\ InCommand("rest") /\ gtk
    /\ \E device \in Devices :
           CardInit(device, Then("gtk ring", device), Then("card again", ring.device))

\* and only exchanges the name
GtkRename ==
    /\ InCommand("gtk ring")
    /\ ring' = [ring EXCEPT !.device = user.device]
    /\ mixed' = TRUE
    /\ user' = Rest
    /\ UNCHANGED <<opened, card>>

\* A ring tone is played once there is one, on whatever descriptor
SetRingFile_Untested ==
    /\ InCommand("rest") \/ InCommand("start file")
    /\ \E loaded \in BOOLEAN : ring' = [ring EXCEPT !.data = loaded, !.none = ~loaded]
    /\ raced' = (raced \/ sip = "ringing")
    /\ user' = Rest
    /\ UNCHANGED <<opened, card, rec, cn, sip, gtk, mixed, strays, cuts>>

\* ringtone_file_init(), for a file that wav_load() takes or not; at the start the
\* descriptor is there already
SetRingFile ==
    /\ InCommand("rest") \/ InCommand("start file")
    /\ \E loaded \in BOOLEAN :
           ring' = [ring EXCEPT !.data = loaded, !.none = ~(loaded /\ ring.fd > 2)]
    /\ raced' = (raced \/ sip = "ringing")
    /\ user' = Rest
    /\ UNCHANGED <<opened, card, rec, cn, gtk, sip, mixed, strays, cuts>>

\* record start: the file is created and its header is written, or it is closed
RecordStart ==
    /\ InCommand("rest") /\ ~rec.on /\ Room(opened)
    /\ \/ opened' = Opened(opened, Record) /\ rec' = [fd |-> Lowest(opened), on |-> TRUE]
       \/ opened' = opened /\ rec' = [fd |-> 0, on |-> FALSE]

\* record stop; the header is completed through a descriptor of its own
RecordStop ==
    /\ InCommand("rest") /\ rec.on
    /\ rec' = [fd |-> None, on |-> FALSE]
    /\ opened' = Close(rec.fd)
    /\ raced' = (raced \/ sip = "record")
    /\ UNCHANGED <<card, ring, cn, user, gtk, sip, mixed, strays, cuts>>

----------------------------------------------------------------------------
(* The SIP thread *)

\* no_soundcard and no_ringtone are not looked at
After_Untested(device, next) ==
    IF IsSound(opened, device.fd) THEN {next} ELSE {next, "stuck"}

\* soundcard_write() and ringtone_write() ask a descriptor that is no sound device
\* for room: what they read was never set, and they may ask for ever
After(device, next) ==
    IF device.none \/ device.fd < 0 \/ IsSound(opened, device.fd) THEN {next}
    ELSE {next, "stuck"}

\* rtp_recv(): a packet of the codec ends the comfort noise, is decoded, played, and,
\* if a recording is going on, recorded
ReceiveVoice ==
    /\ sip = "rest"
    /\ cn' = FALSE
    /\ sip' \in After(card, IF rec.on THEN "record" ELSE "rest")
    /\ UNCHANGED <<opened, card, ring, rec, user, gtk, history>>

\* The write of rtp_recv() to the record file, after its test of the flag
WriteRecord ==
    /\ sip = "record"
    /\ strays' = (strays \/ Target(rec.fd) \in Devices)
    /\ sip' = "rest"
    /\ UNCHANGED <<opened, card, ring, rec, cn, user, gtk, mixed, raced, cuts>>

\* rtp_recv(): the first comfort noise packet
ReceiveNoise ==
    /\ sip = "rest" /\ ~cn
    /\ cn' = TRUE
    /\ sip' \in After(card, "rest")
    /\ UNCHANGED <<opened, card, ring, rec, user, gtk, history>>

\* rtp_check_cn(): silence is played until a packet of the codec comes
PlayNoise ==
    /\ sip = "rest" /\ cn
    /\ sip' \in After(card, "rest") \ {"rest"}
    /\ UNCHANGED <<opened, card, ring, rec, cn, user, gtk, history>>

\* sip_ringing_thread_func() every three seconds
Ring ==
    /\ sip = "rest"
    /\ ~ring.none /\ ring.fd >= 0
    /\ sip' \in After(ring, "ringing")
    /\ UNCHANGED <<opened, card, ring, rec, cn, user, gtk, history>>

RingEnds ==
    /\ sip = "ringing"
    /\ sip' = "rest"
    /\ UNCHANGED <<opened, card, ring, rec, cn, user, gtk, history>>

\* sip_user_agent_clear(): the recording is no longer one, but its file stays open
CallEnds ==
    /\ sip = "rest" /\ rec.on /\ cuts < MaxCuts
    /\ rec' = [rec EXCEPT !.on = FALSE]
    /\ cuts' = cuts + 1
    /\ UNCHANGED <<opened, card, ring, cn, user, gtk, sip, mixed, raced, strays>>

----------------------------------------------------------------------------

\* sip_user_agent_init(): all is zero, and no command is given before the devices
\* of the configuration were tried
Init ==
    /\ opened = [fd \in Fds |-> Closed]
    /\ card = [device |-> NoDevice, fd |-> 0, none |-> FALSE]
    /\ ring = [device |-> NoDevice, fd |-> 0, none |-> FALSE, data |-> FALSE]
    /\ rec = [fd |-> None, on |-> FALSE]
    /\ cn = FALSE /\ gtk \in BOOLEAN
    /\ user = Then("start card", NoDevice) /\ sip = "start"
    /\ mixed = FALSE /\ raced = FALSE /\ strays = FALSE /\ cuts = 0

\* The SIP thread is created when the configuration was read
ThreadStarts ==
    /\ sip = "start" /\ user.at = "rest"
    /\ sip' = "rest"
    /\ UNCHANGED <<opened, card, ring, rec, cn, user, gtk, history>>

Setting ==
    /\ Startup \/ SetCard \/ CardAgain \/ SetRing \/ RingAgain \/ GtkSetRing \/ GtkRename
    /\ UNCHANGED <<rec, cn, gtk, sip, raced, strays, cuts>>

Recording ==
    \/ RecordStart /\ UNCHANGED <<card, ring, cn, user, gtk, sip, history>>
    \/ RecordStop

SipThread == ThreadStarts \/ ReceiveVoice \/ WriteRecord \/ ReceiveNoise \/ PlayNoise
             \/ Ring \/ RingEnds \/ CallEnds

Next == Setting \/ SetRingFile \/ Recording \/ SipThread

Spec == Init /\ [][Next]_vars

----------------------------------------------------------------------------

Device == [device : Names, fd : Fds \cup {None, 0}, none : BOOLEAN]

\* Types of the variables; a recording has a descriptor
TypeOK ==
    /\ opened \in [Fds -> Devices \cup {Record, Closed}]
    /\ card \in Device
    /\ ring \in [device : Names, fd : Fds \cup {None, 0}, none : BOOLEAN, data : BOOLEAN]
    /\ rec \in [fd : Fds \cup {None, 0}, on : BOOLEAN]
    /\ rec.on => rec.fd \in Fds
    /\ {cn, gtk} \subseteq BOOLEAN
    /\ user.at \in {"start card", "card default", "start ring", "ring default", "start file",
                    "rest", "card again", "ring again", "gtk ring"}
    /\ user.device \in Names
    /\ sip \in {"start", "rest", "record", "ringing", "stuck"}
    /\ {mixed, raced, strays} \subseteq BOOLEAN /\ cuts \in Nat

Started == sip # "start"

\* A device that is played on is open, as itself, as long as the two never shared a
\* descriptor that one of them gave up.  (When they did, the other writes to a closed
\* descriptor, or to whatever file was opened next.)
DeviceIsOpen ==
    /\ TypeOK
    /\ Started /\ ~mixed =>
        /\ ~card.none => Target(card.fd) = card.device
        /\ ~ring.none => Target(ring.fd) = ring.device

\* The SIP thread does not hang in a write, and voice is not recorded to a sound
\* device, unless devices were mixed up or the recording ended between test and write
ThreadGoesOn == (sip = "stuck" => mixed) /\ (strays => mixed \/ raced)

Held == {card.fd, ring.fd, rec.fd}

\* No descriptor is lost, but for the record file of a call that ended while it was
\* recorded: record stop no longer closes it
OnlyCutRecordingsLeak ==
    Cardinality({fd \in Fds : opened[fd] # Closed} \ Held) <= cuts
=============================================================================
