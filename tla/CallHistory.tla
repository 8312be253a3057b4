---------------------------- MODULE CallHistory -----------------------------
(***************************************************************************)
(* The call history: a list of events, the newest first, which the SIP     *)
(* thread and the user thread both add to without a lock, and its file,    *)
(* read when the SIP thread already runs and written while it still does.  *)
(* An event is added in the steps of history_insert_event(), each of which *)
(* reads or writes the list once.                                          *)
(*                                                                         *)
(* history_clear() is not modelled: nothing calls it.                      *)
(***************************************************************************)
EXTENDS Naturals, Sequences

CONSTANTS MaxEvents, \* bound: events
          MaxTime,   \* bound: of the clock, in seconds
          MaxRuns    \* bound: starts of the program

ASSUME HistoryAssumption ==
    MaxEvents \in Nat /\ MaxTime \in Nat \ {0} /\ MaxRuns \in Nat

VARIABLES
    stage,  \* of main()
    head,   \* history_event_list
    next,   \* of each event
    time,   \* of each event
    now,    \* time()
    pc,     \* where each thread is in history_insert_event()
    e, c,   \* its arguments and variables
    unread, \* the lines of the file that are not read yet
    walk,   \* the event history_write_file() is at
    saved,  \* the events in the file
    older,  \* the file before
    runs,   \* starts so far
    \* history, which no action looks at
    added,  \* events that were added and, with the file, were not thrown away
    met,    \* the threads were adding at the same time
    alone   \* nothing was added since the start, but for the file

local == <<pc, e, c>>
disk == <<saved, older>>
program == <<stage, unread, walk, runs>>
historyVars == <<stage, head, next, time, now, pc, e, c, unread, walk, saved, older, runs,
                 added, met, alone>>

----------------------------------------------------------------------------

Threads == {"sip", "user"}

Null == 0
Event == 1 .. MaxEvents

Other(t) == IF t = "sip" THEN "user" ELSE "sip"

\* Events were used up from 1 on
Used == {i \in Event : time[i] > 0}

\* The list from event i on, as far as there are events
From(i) ==
    LET at[n \in 0 .. MaxEvents] ==
            IF n = 0 THEN i ELSE IF at[n - 1] = Null THEN Null ELSE next[at[n - 1]]
    IN  at

Ends(i) == From(i)[MaxEvents] = Null

Listed ==
    LET at == From(head)
        length == CHOOSE n \in 0 .. MaxEvents : at[n] = Null /\ \A m \in 0 .. n - 1 : at[m] # Null
    IN  [n \in 1 .. length |-> at[n - 1]]

Sorted(s) == \A i, j \in DOMAIN s : i < j => time[s[i]] >= time[s[j]]

Members(s) == {s[i] : i \in DOMAIN s}

----------------------------------------------------------------------------
(* history_insert_event() *)

Go(t, where) == pc' = [pc EXCEPT ![t] = where]

\* Thread t starts to insert event i
Begin(t, i) ==
    /\ pc[t] = "rest"
    /\ Go(t, "empty")
    /\ e' = [e EXCEPT ![t] = i]
    /\ next' = [next EXCEPT ![i] = Null]
    /\ met' = (met \/ pc[Other(t)] # "rest")
    /\ UNCHANGED c

Unlinked == UNCHANGED <<head, next>>

IsEmpty(t) ==
    /\ pc[t] = "empty"
    /\ Go(t, IF head = Null THEN "first" ELSE "newer")
    /\ Unlinked /\ UNCHANGED <<e, c>>

First(t) ==
    /\ pc[t] = "first"
    /\ head' = e[t]
    /\ Go(t, "rest") /\ UNCHANGED <<next, e, c>>

\* An event is put before those of the same second
IsNewest_OrAsNew(t) == time[e[t]] >= time[head]

IsNewest(t) == time[e[t]] > time[head]

Newer(t) ==
    /\ pc[t] = "newer"
    /\ Go(t, IF IsNewest(t) THEN "front" ELSE "walk")
    /\ Unlinked /\ UNCHANGED <<e, c>>

Front(t) ==
    /\ pc[t] = "front"
    /\ next' = [next EXCEPT ![e[t]] = head]
    /\ Go(t, "head") /\ UNCHANGED <<head, e, c>>

LinkHead(t) ==
    /\ pc[t] = "head"
    /\ head' = e[t]
    /\ Go(t, "rest") /\ UNCHANGED <<next, e, c>>

Walk(t) ==
    /\ pc[t] = "walk"
    /\ c' = [c EXCEPT ![t] = head]
    /\ Go(t, "last") /\ Unlinked /\ UNCHANGED e

IsLast(t) ==
    /\ pc[t] = "last"
    /\ Go(t, IF next[c[t]] = Null THEN "link" ELSE "older")
    /\ Unlinked /\ UNCHANGED <<e, c>>

\* The place is found, or the loop goes on
Older(t) ==
    /\ pc[t] = "older"
    /\ IF time[e[t]] > time[next[c[t]]] THEN Go(t, "splice") /\ UNCHANGED c
       ELSE Go(t, "last") /\ c' = [c EXCEPT ![t] = next[c[t]]]
    /\ Unlinked /\ UNCHANGED e

\* The event that follows is dropped
Splice_Forgotten(t) ==
    /\ pc[t] = "splice"
    /\ Go(t, "link") /\ UNCHANGED <<head, next, e, c>>

Splice(t) ==
    /\ pc[t] = "splice"
    /\ next' = [next EXCEPT ![e[t]] = next[c[t]]]
    /\ Go(t, "link") /\ UNCHANGED <<head, e, c>>

Link(t) ==
    /\ pc[t] = "link"
    /\ next' = [next EXCEPT ![c[t]] = e[t]]
    /\ Go(t, "rest") /\ UNCHANGED <<head, e, c>>

\* A step of thread t
Insert(t) ==
    /\ \/ IsEmpty(t) \/ First(t) \/ Newer(t) \/ Front(t) \/ LinkHead(t)
       \/ Walk(t) \/ IsLast(t) \/ Older(t) \/ Splice(t) \/ Link(t)
    /\ UNCHANGED <<program, disk, time, now, added, met, alone>>

----------------------------------------------------------------------------
(* main() and the calls *)

\* history_init(); the SIP thread runs already. The clock may have been set.
RunStarts ==
    /\ stage = "off" /\ runs < MaxRuns
    /\ runs' = runs + 1
    /\ stage' = "read" /\ unread' = saved
    /\ head' = Null
    /\ now' \in 1 .. MaxTime
    /\ added' = {} /\ alone' = TRUE /\ met' = FALSE
    /\ UNCHANGED <<next, time, local, walk, disk>>

\* history_read_file(), a line
ReadLine ==
    /\ stage = "read" /\ unread # <<>>
    /\ Begin("user", Head(unread))
    /\ unread' = Tail(unread)
    /\ added' = added \cup {Head(unread)}
    /\ UNCHANGED <<stage, head, time, now, walk, disk, runs, alone>>

ReadEnds ==
    /\ stage = "read" /\ unread = <<>> /\ pc["user"] = "rest"
    /\ stage' = "run"
    /\ UNCHANGED <<head, next, time, now, local, unread, walk, disk, runs, added, met, alone>>

\* The file cannot be opened: history_read_file() takes the backup
ReadBackup ==
    /\ stage = "read" /\ unread = saved /\ pc["user"] = "rest" /\ added = {}
    /\ unread' = older /\ saved # <<>>
    /\ UNCHANGED <<stage, head, next, time, now, local, walk, disk, runs, added, met, alone>>

\* history_add_event(), by the SIP thread from the start, by the user in commands
AddEvent(t) ==
    /\ stage = "run" \/ (t = "sip" /\ stage # "off")
    /\ \E i \in Event :
           /\ Used = 1 .. i - 1
           /\ Begin(t, i)
           /\ time' = [time EXCEPT ![i] = now]
           /\ added' = added \cup {i}
    /\ alone' = FALSE
    /\ UNCHANGED <<program, disk, head, now>>

\* history_write_file() up to the first event; the old file was renamed
WriteStarts ==
    /\ stage = "run" /\ pc["user"] = "rest"
    /\ stage' = "write" /\ walk' = head
    /\ older' = saved /\ saved' = <<>>
    /\ UNCHANGED <<head, next, time, now, local, unread, runs, added, met, alone>>

WriteEvent ==
    /\ stage = "write" /\ walk # Null
    /\ saved' = Append(saved, walk)
    /\ walk' = next[walk]
    /\ UNCHANGED <<stage, head, next, time, now, local, unread, older, runs, added, met, alone>>

\* The end of the program, or a kill: the SIP thread is wherever it was
Exit ==
    /\ stage # "off"
    /\ stage' = "off"
    /\ pc' = [t \in Threads |-> "rest"]
    /\ UNCHANGED <<head, next, time, now, e, c, unread, walk, disk, runs, added, met, alone>>

Tick ==
    /\ now < MaxTime /\ now' = now + 1
    /\ UNCHANGED <<program, disk, head, next, time, local, added, met, alone>>

HistoryInit ==
    /\ stage = "off" /\ head = Null
    /\ next = [i \in Event |-> Null] /\ time = [i \in Event |-> 0] /\ now = 1
    /\ pc = [t \in Threads |-> "rest"]
    /\ e = [t \in Threads |-> Null] /\ c = [t \in Threads |-> Null]
    /\ unread = <<>> /\ walk = Null /\ saved = <<>> /\ older = <<>> /\ runs = 0
    /\ added = {} /\ met = FALSE /\ alone = TRUE

HistoryNext ==
    \/ \E t \in Threads : Insert(t) \/ AddEvent(t)
    \/ RunStarts \/ ReadLine \/ ReadEnds \/ ReadBackup \/ WriteStarts \/ WriteEvent \/ Exit \/ Tick

HistorySpec == HistoryInit /\ [][HistoryNext]_historyVars

----------------------------------------------------------------------------

Places == {"rest", "empty", "first", "newer", "front", "head", "walk", "last", "older",
           "splice", "link"}

\* Types of the variables
HistoryTypeOK ==
    /\ stage \in {"off", "read", "run", "write"}
    /\ head \in Event \cup {Null} /\ next \in [Event -> Event \cup {Null}]
    /\ time \in [Event -> 0 .. MaxTime] /\ now \in 1 .. MaxTime
    /\ pc \in [Threads -> Places]
    /\ e \in [Threads -> Event \cup {Null}] /\ c \in [Threads -> Event \cup {Null}]
    /\ {unread, saved, older} \subseteq Seq(Event)
    /\ walk \in Event \cup {Null} /\ runs \in 0 .. MaxRuns
    /\ added \subseteq Event /\ {met, alone} \subseteq BOOLEAN

\* However the two threads meet in it, the list has an end: nobody who walks it goes
\* around for ever
ListEnds == \A i \in Event : Ends(i)

AtRest == \A t \in Threads : pc[t] = "rest"

\* The list has an end, however the threads met, and if they did not it has what was
\* added, the newest first
ListIsHistory ==
    /\ HistoryTypeOK
    /\ ListEnds
    /\ stage # "off" /\ AtRest /\ ~met => Members(Listed) = added /\ Sorted(Listed)

\* What was written in order comes back in that order, also events of the same second
FileRestores ==
    stage = "run" /\ alone /\ ~met /\ Sorted(saved) /\ added = Members(saved) => Listed = saved
=============================================================================
