---------------------------- MODULE AttendanceMC ----------------------------
(***************************************************************************)
(* Small instances of Attendance: references x and y, documents e and f    *)
(* for events and l for a link to the event x.                             *)
(***************************************************************************)
EXTENDS Attendance, TLC

CONSTANTS x, y, e, f, l, m1, m2, n1, n2

MCSymmetry == Permutations(Requests)

MCTarget == l :> x

\* An event may be closed for sign-ups.
MCOpen == [hours |-> <<10, 12>>, open |-> TRUE]
MCClosed == [hours |-> <<10, 12>>, open |-> FALSE]
MCEvents == {MCOpen, MCClosed}
MCOneEvent == {MCOpen}

\* Shifts that exceed the event, end before it and are the whole event.
MCLong == <<9, 14>>
MCEarly == <<8, 9>>
MCWhole == <<10, 12>>
MCShifts == {MCLong, MCEarly, MCWhole}

MCOp(name, at, members, manager, shift, note) ==
    [name |-> name, event |-> at, members |-> members, manager |-> manager,
     shift |-> shift, note |-> note]

SignUp(at, m, manager) == MCOp("add", at, <<m>>, manager, Undef, n1)
Bulk(at, members) == MCOp("addBulk", at, members, TRUE, Undef, n1)
Note(at, m, n) == MCOp("modify", at, <<m>>, TRUE, Undef, n)
Shift(at, m) == MCOp("modify", at, <<m>>, TRUE, MCEarly, Undef)
Delete(at, m) == MCOp("delete", at, <<m>>, TRUE, Undef, Undef)

\* Sign-ups at the event and at the link, alone and in lists, by members and by
\* managers, with a change and a deletion.
MCSigning ==
    {SignUp(x, m1, TRUE), SignUp(y, m1, FALSE), Bulk(y, <<m2, m1>>),
     Delete(x, m1), Shift(x, m1), MCOp("modify", x, <<m1>>, FALSE, MCEarly, Undef)}

\* Changes of one record, with sign-ups and deletions going on.
MCChanging ==
    {Bulk(x, <<m1, m2>>), Note(x, m1, n2), Delete(x, m1),
     Shift(x, m1)}

MCNone == {}
MCSignUps == {SignUps}
MCSignUpsAndChanges == {SignUps, {"modify"}}
MCMailing == {"mail"} \union Streamed
MCNotStreamed == Main \ Streamed
MCAll == WorldOps
MCLeaving == {"delete"}
=============================================================================
