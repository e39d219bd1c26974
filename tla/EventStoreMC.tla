---------------------------- MODULE EventStoreMC ----------------------------
(***************************************************************************)
(* Small instances of EventStore: accounts A and B; an event of A stored   *)
(* with its calendar entry, and in some runs a link of B to it.            *)
(***************************************************************************)
EXTENDS EventStore, TLC

CONSTANTS A, B, e1, e2, l1, t1, t2, p1, p2

MCSymmetry == Permutations(Requests)

MCEvent(a, i, c) ==
    [acct |-> a, id |-> i, kind |-> "REGULAR", target |-> <<a, i>>,
     data |-> [status |-> "CONFIRMED", times |-> t1, pocs |-> p1,
               debrief |-> {}, cal |-> c],
     extra |-> Nothing]

MCLink(a, i, tgt, c) ==
    [acct |-> a, id |-> i, kind |-> "LINKED", target |-> tgt,
     data |-> [Nothing EXCEPT !.times = t1, !.cal = c],
     extra |-> Nothing]

MCEntry(a, k) == [on |-> a, by |-> k, for |-> k]

\* The event and a link to it in B.
MCLinked == [k \in {e1, l1} |->
    IF k = e1 THEN MCEvent(A, 1, MCEntry(A, e1))
    ELSE MCLink(B, 1, <<A, 1>>, MCEntry(B, l1))]
MCLinkedEntries == {MCEntry(A, e1), MCEntry(B, l1)}

\* Two events of A and a link of B to the second.
MCLinkedToSecond == [k \in {e1, e2, l1} |->
    IF k = e1 THEN MCEvent(A, 1, MCEntry(A, e1))
    ELSE IF k = e2 THEN MCEvent(A, 2, MCEntry(A, e2))
    ELSE MCLink(B, 1, <<A, 2>>, MCEntry(B, l1))]
MCLinkedToSecondEntries == {MCEntry(A, e1), MCEntry(A, e2), MCEntry(B, l1)}

MCOp(n, a, i, b, to, item) ==
    [name |-> n, acct |-> a, id |-> i, body |-> b, to |-> to, item |-> item]

Full(s, t) == [Nothing EXCEPT !.status = s, !.times = t, !.pocs = p1]
Status(s) == [Nothing EXCEPT !.status = s]
Retime(t) == [Nothing EXCEPT !.times = t]
Pocs(p) == [Nothing EXCEPT !.pocs = p]

Add(a) == MCOp("add", a, 1, Full("CONFIRMED", t2), a, Undef)
AddDraft(a) == MCOp("add", a, 1, Full("DRAFT", t1), a, Undef)
Copy(a, i) == MCOp("copy", a, i, [Nothing EXCEPT !.status = "CONFIRMED", !.times = t2], a, Undef)
Link(a, i, to) == MCOp("link", a, i, Nothing, to, Undef)
Set(a, i, b) == MCOp("set", a, i, b, a, Undef)
Delete(a, i) == MCOp("delete", a, i, Nothing, a, Undef)
Debrief(a, i) == MCOp("addDebrief", a, i, Nothing, a, Undef)
Undebrief(a, i, r) == MCOp("deleteDebrief", a, i, Nothing, a, r)

\* Every operation, but no link of an account to an event of its own: making
\* one takes the event's own entry off the calendar.
MCEverything ==
    {Add(A), AddDraft(A), Copy(A, 1), Copy(B, 1), Link(A, 1, B),
     Set(A, 1, Status("CANCELLED")), Set(A, 1, Status("DRAFT")),
     Set(A, 1, Retime(t2)), Set(A, 1, Pocs(p2)),
     Set(B, 1, Status("CANCELLED")), Set(B, 1, Retime(t2)),
     Delete(A, 1), Delete(B, 1), Debrief(A, 1)}
    \union {Undebrief(A, 1, r) : r \in Requests}

\* Creations, with everything else going on at the same time.
MCCreating ==
    {Add(A), Link(A, 1, A), Link(A, 1, B), Delete(A, 1), Set(A, 1, Retime(t2))}

\* Saves and deletions, one at a time, with creations going on at the same time.
MCSaving ==
    {Add(A), Debrief(A, 1), Set(A, 1, Status("CANCELLED")),
     Set(B, 1, Status("CANCELLED")), Delete(A, 1), Delete(A, 2), Delete(B, 1)}
    \union {Undebrief(A, 1, r) : r \in Requests}

\* A few operations of every kind.
MCLive == {AddDraft(A), Copy(B, 1), Link(A, 1, B), Delete(A, 1), Debrief(A, 1),
           Set(A, 1, Retime(t2)), Set(B, 1, Pocs(p2))}

\* The last event of A goes and another account's member links one in.
MCReuse == {Delete(A, 2), Link(A, 1, A), Set(A, 1, Retime(t2))}

Everywhere == Main \union Tapped
Saving == Savers \union {"delete"}

\* Creations that do not overlap each other, and remote calls that fail.
MCCreate == <<[menu |-> MCCreating, serial |-> {Creators},
               failing |-> {"calendar", "remove", "links"}]>>

\* Saves and deletions that do not overlap each other, with writes that fail; every
\* operation, one request at a time.
MCSave == <<[menu |-> MCSaving, serial |-> {Creators, Saving},
             failing |-> {"calendar", "insert", "patch", "remove", "linkCalendar"}],
            [menu |-> MCEverything, serial |-> {OpNames}, failing |-> {}]>>

\* Requests that overlap in every way, with any call but a streamed query failing.
MCLiving == <<[menu |-> MCLive, serial |-> {}, failing |-> Everywhere \ Streamed]>>

MCReusing == <<[menu |-> MCReuse, serial |-> {OpNames}, failing |-> {}]>>
=============================================================================
