------------------------------- MODULE ViaList -------------------------------
(***************************************************************************)
(* The linked lists of sip_via.c: the stack of unused Via entries and the  *)
(* lists of the Via headers of one message.  An entry is a number, 0 the   *)
(* null pointer; a memory holds the head of the stack and, per entry, its  *)
(* next pointer and the address its Via header names.  Nothing reads prev. *)
(***************************************************************************)
EXTENDS Naturals, Sequences

CONSTANTS MaxVias,  \* MAX_VIAS
          Hosts,    \* addresses a Via header may name
          NoHost    \* an entry that names none

ASSUME ViaListAssumption == MaxVias \in Nat \ {0} /\ NoHost \notin Hosts

Null == 0
Entries == 1 .. MaxVias
Pointers == Entries \cup {Null}

Memory == [top : Pointers, next : [Entries -> Pointers],
           host : [Entries -> Hosts \cup {NoHost}]]

\* sip_via_stack_init() pushes every entry of the pool
StackInit == [top |-> MaxVias, next |-> [e \in Entries |-> e - 1],
              host |-> [e \in Entries |-> NoHost]]

Push(mem, e) == [mem EXCEPT !.top = e, !.next[e] = mem.top, !.host[e] = NoHost]

\* The rest of sip_via_pop() once it read the entry e: the head of the stack
\* is read again, and may be another entry by now
Take(mem, e) ==
    [[mem EXCEPT !.top = IF @ = Null THEN @ ELSE mem.next[@]]
         EXCEPT !.next[e] = IF mem.top = Null THEN @ ELSE Null]

\* The entries a walk along the next pointers meets before it ends or repeats
RECURSIVE WalkFrom(_, _, _)
WalkFrom(mem, e, walked) ==
    IF e = Null \/ \E i \in DOMAIN walked : walked[i] = e THEN walked
    ELSE WalkFrom(mem, mem.next[e], Append(walked, e))

Walk(mem, head) == WalkFrom(mem, head, <<>>)
Members(mem, head) == {Walk(mem, head)[i] : i \in DOMAIN Walk(mem, head)}

Ends(mem, head) ==
    LET w == Walk(mem, head)
    IN  head = Null \/ mem.next[w[Len(w)]] = Null

HostsOf(mem, head) ==
    [i \in DOMAIN Walk(mem, head) |-> mem.host[Walk(mem, head)[i]]]

\* sip_free_via_hdrs() on the list at e; it never ends when the memory and
\* the entry it is at are those of an earlier pass
RECURSIVE FreeFrom(_, _, _)
FreeFrom(mem, e, passes) ==
    IF e = Null THEN [mem |-> mem, hung |-> FALSE]
    ELSE IF <<mem, e>> \in passes THEN [mem |-> mem, hung |-> TRUE]
    ELSE FreeFrom(Push(mem, e), mem.next[e], passes \cup {<<mem, e>>})

FreeVias_KeepsFirst(mem, head) ==
    FreeFrom(mem, IF head = Null THEN Null ELSE mem.next[head], {})
FreeVias(mem, head) == FreeFrom(mem, head, {})

\* sip_via_list_insert_tail()
Linked_AtHead(mem, head, e) == [mem EXCEPT !.next[e] = head]
Linked(mem, head, e) ==
    IF head = Null THEN [mem EXCEPT !.next[e] = Null]
    ELSE LET w == Walk(mem, head)
         IN  [[mem EXCEPT !.next[e] = Null] EXCEPT !.next[w[Len(w)]] = e]

\* sip_via_parse(): a Via header is malformed, or its host is not an address
\* and cannot be resolved to one, or it parses
ViaParses(v) == v.form = "address"

\* The loop over the Via headers of a message, common to
\* sip_parse_via_hdrs() and sip_uas_get_hdrs(), which append to a list
RECURSIVE TakeVias(_, _)
TakeVias(at, vias) ==
    IF vias = <<>> THEN at
    ELSE IF at.mem.top = Null THEN [at EXCEPT !.ok = FALSE]
    ELSE LET e == at.mem.top
             v == Head(vias)
             m == Take(at.mem, e)
         IN  IF ~ViaParses(v)
             THEN [at EXCEPT !.mem = Push(m, e), !.ok = FALSE]
             ELSE TakeVias([at EXCEPT
                              !.mem = Linked([m EXCEPT !.host[e] = v.host], at.head, e),
                              !.head = IF @ = Null THEN e ELSE @],
                           Tail(vias))

\* The list starts empty, in the message's own variable or the dialog's
NewVias(mem, vias) == TakeVias([mem |-> mem, head |-> Null, ok |-> TRUE], vias)

============================================================================
