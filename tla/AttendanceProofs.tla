-------------------------- MODULE AttendanceProofs --------------------------
(***************************************************************************)
(* A member has one record for an event as long as sign-ups of the same    *)
(* member do not overlap, whatever else goes on, whichever calls fail and  *)
(* however events come and go.  Everyone on a list is signed up if the     *)
(* event stays.  Answered changes of a note stay as long as changes of one *)
(* record do not overlap either.                                           *)
(***************************************************************************)
EXTENDS Attendance, TLAPS

\* Where a request has the event in hand.
Looked == {"resolve", "attend", "insert", "mail", "find", "check", "patch", "remove"}

\* What a request has in hand where it needs it.
Control ==
    /\ \A k \in Keys : ref[k] # NoRef => detail[k] \in Details
    /\ \A r \in Requests :
          /\ pc[r] = "idle" => turn[r] = 1
          /\ pc[r] \in Looked => view[r] \in Views
          /\ pc[r] \in {"check", "patch"} => found[r] \in Records
          /\ pc[r] \in {"attend", "insert"} => op[r].name \in SignUps

IInv == TypeOK /\ Control

-----------------------------------------------------------------------------
(* What requests have in hand *)

\* A request that has come in asks for an operation and is at a member of its list.
LEMMA InHand ==
    ASSUME TypeOK, NEW r \in Requests, pc[r] # "idle"
    PROVE  /\ op[r] \in Ops
           /\ op[r].members \in Seq(Members)
           /\ turn[r] \in 1..Len(op[r].members)
           /\ Member(r) \in Members
           /\ Member(r) \in About(op[r])
<1>1. op[r] \in Ops /\ turn[r] \in 1..Len(op[r].members)
  BY MenuOK DEF TypeOK
<1>2. op[r].members \in Seq(Members)
  BY <1>1 DEF Ops
<1>. QED
  BY <1>1, <1>2 DEF Member, About

\* Only what request r has in hand changes.
Only(r) ==
    /\ pc' = [pc EXCEPT ![r] = pc'[r]] /\ turn' = [turn EXCEPT ![r] = turn'[r]]
    /\ view' = [view EXCEPT ![r] = view'[r]] /\ found' = [found EXCEPT ![r] = found'[r]]
    /\ round' = [round EXCEPT ![r] = round'[r]]
    /\ UNCHANGED <<world, op>>

\* What request r has in hand afterwards is of the right kind.
Fits(r) ==
    /\ pc'[r] \in Labels \ {"idle"} /\ turn'[r] \in 1..Len(op[r].members)
    /\ view'[r] \in Views \union {NoView} /\ found'[r] \in Records \union {NoRef}
    /\ round'[r] \in {1, 2}
    /\ pc'[r] \in Looked => view'[r] \in Views
    /\ pc'[r] \in {"check", "patch"} => found'[r] \in Records
    /\ pc'[r] \in {"attend", "insert"} => op[r].name \in SignUps

\* A step of request r to another place, with what it has in hand there.
LEMMA Advance ==
    ASSUME IInv, NEW r \in Requests, pc[r] # "idle", Only(r), Fits(r),
           recs' \subseteq Records
    PROVE  IInv'
<1>. USE DEF Only, Fits
<1>1. op[r].members \in Seq(Members)
  BY InHand DEF IInv
<1>2. turn'[r] \in Nat \ {0}
  BY <1>1
<1>3. TypeOK'
  <2>1. /\ ref' \in [Keys -> Refs \union {NoRef}]
        /\ detail' \in [Keys -> Details \union {NoDetail}]
        /\ recs' \subseteq Records
        /\ op' \in [Requests -> {Undef} \union Ops]
    BY DEF IInv, TypeOK, world
  <2>2. /\ pc' \in [Requests -> Labels]
        /\ round' \in [Requests -> {1, 2}]
        /\ view' \in [Requests -> Views \union {NoView}]
        /\ turn' \in [Requests -> Nat \ {0}]
        /\ found' \in [Requests -> Records \union {NoRef}]
    BY <1>2 DEF IInv, TypeOK
  <2>3. ASSUME NEW s \in Requests, pc'[s] # "idle"
        PROVE  op'[s] \in Menu /\ turn'[s] \in 1..Len(op'[s].members)
    BY <2>3 DEF IInv, TypeOK
  <2>. QED
    BY <2>1, <2>2, <2>3 DEF TypeOK
<1>4. Control'
  <2>1. \A k \in Keys : ref'[k] # NoRef => detail'[k] \in Details
    BY DEF IInv, Control, world
  <2>2. ASSUME NEW s \in Requests
        PROVE  /\ pc'[s] = "idle" => turn'[s] = 1
               /\ pc'[s] \in Looked => view'[s] \in Views
               /\ pc'[s] \in {"check", "patch"} => found'[s] \in Records
               /\ pc'[s] \in {"attend", "insert"} => op'[s].name \in SignUps
    BY DEF IInv, TypeOK, Control
  <2>. QED
    BY <2>1, <2>2 DEF Control
<1>. QED
  BY <1>3, <1>4 DEF IInv

\* Setting a place to what is there changes nothing.
LEMMA Same ==
    ASSUME TypeOK, NEW r \in Requests
    PROVE  /\ turn = [turn EXCEPT ![r] = turn[r]]
           /\ view = [view EXCEPT ![r] = view[r]]
           /\ found = [found EXCEPT ![r] = found[r]]
           /\ round = [round EXCEPT ![r] = round[r]]
           /\ turn[r] \in Nat \ {0} /\ view[r] \in Views \union {NoView}
           /\ found[r] \in Records \union {NoRef} /\ round[r] \in {1, 2}
           /\ pc[r] \in Labels
BY DEF TypeOK

\* A step that changes nothing but the place and the collection.
LEMMA Moved ==
    ASSUME IInv, NEW r \in Requests, pc[r] # "idle",
           NEW place \in Labels \ {"idle"}, Goto(r, place),
           place \in Looked => view[r] \in Views,
           place \in {"check", "patch"} => found[r] \in Records,
           place \in {"attend", "insert"} => op[r].name \in SignUps,
           UNCHANGED <<world, op, turn, view, found, round>>, recs' \subseteq Records
    PROVE  IInv'
<1>1. turn[r] \in 1..Len(op[r].members)
  BY InHand DEF IInv
<1>2. pc' = [pc EXCEPT ![r] = pc'[r]] /\ pc'[r] = place
  BY DEF Goto, IInv, TypeOK
<1>3. Only(r)
  BY <1>2, Same DEF IInv, Only
<1>4. Fits(r)
  BY <1>1, <1>2, Same DEF IInv, Fits
<1>. QED
  BY <1>3, <1>4, Advance

\* A list goes on with its next member or to its end.
LEMMA NextMemberIInv ==
    ASSUME IInv, NEW r \in Requests, pc[r] \in Looked, op[r].name = "addBulk",
           NextMember(r), UNCHANGED <<world, recs, op, round, view, found>>
    PROVE  IInv'
<1>1. pc[r] # "idle" /\ view[r] \in Views /\ recs \subseteq Records
  BY DEF IInv, TypeOK, Control, Looked
<1>2. turn[r] \in 1..Len(op[r].members) /\ op[r].members \in Seq(Members)
  BY <1>1, InHand DEF IInv
<1>3. CASE turn[r] < Len(op[r].members)
  <2>1. /\ Goto(r, "resolve") \/ Goto(r, "attend")
        /\ turn' = [turn EXCEPT ![r] = turn[r] + 1]
    BY <1>3 DEF NextMember
  <2>2. /\ pc' = [pc EXCEPT ![r] = pc'[r]] /\ pc'[r] \in {"resolve", "attend"}
        /\ turn'[r] = turn[r] + 1
    BY <2>1 DEF Goto, IInv, TypeOK
  <2>3. Only(r)
    BY <2>1, <2>2, Same DEF IInv, Only
  <2>4. Fits(r)
    BY <1>1, <1>2, <1>3, <2>2, Same DEF IInv, Fits, Labels, Main, SignUps
  <2>. QED
    BY <1>1, <2>3, <2>4, Advance
<1>4. CASE ~(turn[r] < Len(op[r].members))
  BY <1>1, <1>4, Moved DEF NextMember, Labels, Looked
<1>. QED
  BY <1>3, <1>4

\* A request gives up, or its list goes on.
LEMMA GiveUpIInv ==
    ASSUME IInv, NEW r \in Requests, pc[r] \in {"read"} \union Looked,
           GiveUp(r), UNCHANGED <<world, recs>>
    PROVE  IInv'
<1>1. pc[r] # "idle" /\ recs \subseteq Records
  BY DEF IInv, TypeOK, Looked
<1>2. CASE NotFound(r)
  BY <1>1, <1>2, Moved DEF NotFound, locals, Labels, Ended, Looked
<1>3. CASE op[r].name = "addBulk" /\ round[r] = 2 /\ pc[r] = "read"
  BY <1>1, <1>3, Moved DEF GiveUp, Labels, Looked
<1>4. CASE op[r].name = "addBulk" /\ round[r] = 2 /\ pc[r] # "read"
  BY <1>1, <1>4, NextMemberIInv DEF GiveUp
<1>. QED
  BY <1>2, <1>3, <1>4 DEF GiveUp

-----------------------------------------------------------------------------
(* IInv is inductive *)

\* Nobody has asked for anything.
LEMMA InitIInv == Init => IInv
BY SetsOK DEF Init, IInv, TypeOK, Control, Labels, Looked

\* An operation is taken from the menu, and the list begins with its first member.
LEMMA ArriveIInv ==
    ASSUME IInv, NEW r \in Requests, Arrive(r)
    PROVE  IInv'
<1>1. PICK o \in Menu : op' = [op EXCEPT ![r] = o]
  BY DEF Arrive
<1>2. o \in Ops /\ Len(o.members) >= 1 /\ o.members \in Seq(Members)
  BY MenuOK DEF Ops
<1>3. pc[r] = "idle" /\ pc' = [pc EXCEPT ![r] = "read"] /\ UNCHANGED <<world, recs, round, view, turn, found>>
  BY DEF Arrive, Goto
<1>4. turn[r] = 1 /\ turn[r] \in 1..Len(o.members)
  BY <1>2, <1>3 DEF IInv, Control
<1>5. TypeOK'
  BY <1>1, <1>2, <1>3, <1>4 DEF IInv, TypeOK, world, Labels, Main
<1>6. Control'
  BY <1>1, <1>3 DEF IInv, TypeOK, Control, world, Looked
<1>. QED
  BY <1>5, <1>6 DEF IInv

\* The event that getEvent finds is stored, so that it has its details.
LEMMA ReadIInv ==
    ASSUME IInv, NEW r \in Requests, Read(r)
    PROVE  IInv'
<1>1. pc[r] = "read" /\ UNCHANGED <<world, recs>>
  BY DEF Read
<1>2. CASE GiveUp(r)
  BY <1>1, <1>2, GiveUpIInv
<1>3. CASE ~GiveUp(r)
  <2>1. PICK k \in Keys :
           /\ At(op[r].event) = {k}
           /\ view' = [view EXCEPT ![r] =
                 [docs |-> view[r].docs \union {k}, ref |-> ref[k], linked |-> k \in Links,
                  home |-> IF k \in Links THEN Target[k] ELSE ref[k],
                  hours |-> detail[k].hours, open |-> detail[k].open]]
           /\ Goto(r, IF k \in Links THEN "resolve" ELSE WithEvent(r))
           /\ UNCHANGED <<op, round, turn, found>>
    BY <1>3 DEF Read
  <2>2. op[r] \in Ops /\ turn[r] \in 1..Len(op[r].members)
    BY <1>1, InHand DEF IInv
  <2>3. ref[k] = op[r].event /\ op[r].event \in Refs
    BY <2>1, <2>2 DEF At, Ops
  <2>4. detail[k] \in Details
    BY <2>3, SetsOK DEF IInv, Control
  <2>5. view[r].docs \subseteq Keys
    <3>1. view[r] \in Views \/ view[r] = NoView
      BY Same DEF IInv
    <3>2. view[r] \in Views => view[r].docs \subseteq Keys
      BY DEF Views
    <3>3. NoView.docs = {}
      BY DEF NoView
    <3>. QED
      BY <3>1, <3>2, <3>3
  <2>6. view'[r] \in Views
    <3>1. (IF k \in Links THEN Target[k] ELSE ref[k]) \in Refs
      BY <2>3, SetsOK
    <3>2. detail[k].hours \in Hours /\ detail[k].open \in BOOLEAN
      BY <2>4 DEF Details
    <3>3. view'[r] = [docs |-> view[r].docs \union {k}, ref |-> ref[k], linked |-> k \in Links,
                      home |-> IF k \in Links THEN Target[k] ELSE ref[k],
                      hours |-> detail[k].hours, open |-> detail[k].open]
      BY <2>1 DEF IInv, TypeOK
    <3>4. (k \in Links) \in BOOLEAN /\ view[r].docs \union {k} \in SUBSET Keys
      BY <2>5
    <3>. QED
      BY <3>1, <3>2, <3>3, <3>4, <2>3 DEF Views
  <2>7. /\ pc' = [pc EXCEPT ![r] = pc'[r]]
        /\ pc'[r] \in {"resolve", "attend", "find"}
        /\ pc'[r] = "attend" => op[r].name \in SignUps
    BY <2>1 DEF Goto, WithEvent, IInv, TypeOK
  <2>8. Only(r)
    BY <1>1, <2>1, <2>7, Same DEF IInv, TypeOK, Only
  <2>9. Fits(r)
    BY <2>1, <2>2, <2>6, <2>7, Same DEF IInv, Fits, Labels, Main
  <2>. QED
    BY <1>1, <2>8, <2>9, Advance DEF IInv, TypeOK
<1>. QED
  BY <1>2, <1>3

\* Resolving a link keeps the view a view.
LEMMA ResolveIInv ==
    ASSUME IInv, NEW r \in Requests, Resolve(r)
    PROVE  IInv'
<1>1. pc[r] = "resolve" /\ UNCHANGED <<world, recs>>
  BY DEF Resolve
<1>2. CASE GiveUp(r)
  BY <1>1, <1>2, GiveUpIInv DEF Looked
<1>3. CASE ~GiveUp(r)
  <2>1. PICK k \in Keys \ Links :
           /\ At(view[r].home) = {k}
           /\ view' = [view EXCEPT ![r].open = detail[k].open, ![r].docs = @ \union {k}]
           /\ Goto(r, WithEvent(r))
           /\ UNCHANGED <<op, round, turn, found>>
    BY <1>3 DEF Resolve
  <2>2. view[r] \in Views /\ turn[r] \in 1..Len(op[r].members)
    BY <1>1, InHand DEF IInv, Control, Looked
  <2>3. ref[k] # NoRef
    BY <2>1, <2>2, SetsOK DEF At, Views
  <2>4. detail[k].open \in BOOLEAN
    BY <2>3 DEF IInv, Control, Details
  <2>5. view' = [view EXCEPT ![r] = view'[r]]
        /\ view'[r] = [view[r] EXCEPT !.open = detail[k].open, !.docs = @ \union {k}]
    BY <2>1 DEF IInv, TypeOK
  <2>6. view'[r] \in Views
    <3>1. view[r].docs \union {k} \in SUBSET Keys
      BY <2>2 DEF Views
    <3>2. view'[r] = [docs |-> view[r].docs \union {k}, ref |-> view[r].ref,
                      home |-> view[r].home, linked |-> view[r].linked,
                      hours |-> view[r].hours, open |-> detail[k].open]
      BY <2>2, <2>5 DEF Views
    <3>. QED
      BY <2>2, <2>4, <3>1, <3>2 DEF Views
  <2>7. /\ pc' = [pc EXCEPT ![r] = pc'[r]]
        /\ pc'[r] \in {"attend", "find"}
        /\ pc'[r] = "attend" => op[r].name \in SignUps
    BY <2>1 DEF Goto, WithEvent, IInv, TypeOK
  <2>8. Only(r)
    BY <1>1, <2>1, <2>5, <2>7, Same DEF IInv, Only
  <2>9. Fits(r)
    BY <2>1, <2>2, <2>6, <2>7, Same DEF IInv, Fits, Labels, Main
  <2>. QED
    BY <1>1, <2>8, <2>9, Advance DEF IInv, TypeOK
<1>. QED
  BY <1>2, <1>3

\* The check of a sign-up only moves the request.
LEMMA AttendIInv ==
    ASSUME IInv, NEW r \in Requests, Attend(r)
    PROVE  IInv'
<1>1. /\ pc[r] = "attend" /\ UNCHANGED <<world, recs>> /\ recs \subseteq Records
      /\ view[r] \in Views /\ op[r].name \in SignUps
  BY DEF Attend, IInv, TypeOK, Control, Looked
<1>2. CASE GiveUp(r)
  BY <1>1, <1>2, GiveUpIInv DEF Looked
<1>3. CASE Goto(r, "insert") /\ UNCHANGED locals
  BY <1>1, <1>3, Moved DEF locals, Labels, Main, Looked
<1>4. CASE /\ round' = [round EXCEPT ![r] = 2] /\ Goto(r, "read")
           /\ UNCHANGED <<op, view, turn, found>>
  <2>1. turn[r] \in 1..Len(op[r].members)
    BY <1>1, InHand DEF IInv
  <2>2. Only(r)
    BY <1>1, <1>4, Same DEF IInv, TypeOK, Goto, Only
  <2>3. Fits(r)
    BY <1>1, <1>4, <2>1, Same DEF IInv, TypeOK, Goto, Fits, Labels, Main, Looked
  <2>. QED
    BY <1>1, <2>2, <2>3, Advance
<1>. QED
  BY <1>2, <1>3, <1>4 DEF Attend

\* The shift that is stored is a pair of times.
LEMMA ShiftTyped ==
    ASSUME NEW hours \in Hours, NEW shift \in {Undef} \union Shifts
    PROVE  ShiftTime(hours, shift) \in Int \X Int
<1>1. hours \in Int \X Int
  BY DEF Hours
<1>2. CASE shift = Undef
  BY <1>1, <1>2 DEF ShiftTime
<1>3. CASE shift # Undef
  <2>1. shift \in Int \X Int
    BY <1>3, SetsOK
  <2>. QED
    BY <1>1, <1>3, <2>1 DEF ShiftTime, Least, Greatest
<1>. QED
  BY <1>2, <1>3

\* The record that is added is one, and belongs to a sign-up.
LEMMA InsertIInv ==
    ASSUME IInv, NEW r \in Requests, Insert(r)
    PROVE  IInv'
<1>1. /\ pc[r] = "insert" /\ Goto(r, "mail") /\ UNCHANGED <<world, op, round, view, turn, found>>
      /\ view[r] \in Views
  BY DEF Insert, IInv, Control, Looked
<1>2. /\ op[r] \in Ops /\ Member(r) \in Members /\ turn[r] \in Nat
  BY <1>1, InHand, Same DEF IInv
<1>3. /\ op[r].shift \in {Undef} \union Shifts /\ op[r].note \in {Undef} \union Notes
  BY <1>2 DEF Ops
<1>4. view[r].home \in Refs /\ view[r].hours \in Hours
  BY <1>1 DEF Views
<1>5. ShiftTime(view[r].hours, op[r].shift) \in Int \X Int
  BY <1>3, <1>4, ShiftTyped
<1>6. [by |-> <<r, turn[r]>>, ref |-> view[r].home, member |-> Member(r),
       note |-> op[r].note, shift |-> ShiftTime(view[r].hours, op[r].shift)] \in Records
  BY <1>2, <1>3, <1>4, <1>5 DEF Records
<1>7. recs' \subseteq Records
  BY <1>6 DEF Insert, IInv, TypeOK
<1>. QED
  BY <1>1, <1>7, Moved DEF Labels, Main, Looked

\* A member of the list, or the whole request, is done.
LEMMA MailIInv ==
    ASSUME IInv, NEW r \in Requests, Mail(r)
    PROVE  IInv'
<1>1. pc[r] = "mail" /\ recs \subseteq Records
  BY DEF Mail, IInv, TypeOK
<1>2. CASE op[r].name = "addBulk"
  BY <1>1, <1>2, NextMemberIInv DEF Mail, Looked
<1>3. CASE op[r].name # "addBulk"
  BY <1>1, <1>3, Moved DEF Mail, Labels, Ended, Looked
<1>. QED
  BY <1>2, <1>3

\* The end of a list.
LEMMA ListIInv ==
    ASSUME IInv, NEW r \in Requests, List(r)
    PROVE  IInv'
<1>1. pc[r] = "list" /\ recs' \subseteq Records
  BY DEF List, IInv, TypeOK
<1>. QED
  BY <1>1, Moved DEF List, locals, Labels, Ended, Looked

\* What is found is a record.
LEMMA FindIInv ==
    ASSUME IInv, NEW r \in Requests, Find(r)
    PROVE  IInv'
<1>1. /\ pc[r] = "find" /\ UNCHANGED <<world, recs, op, round, view, turn>>
      /\ recs \subseteq Records /\ view[r] \in Views
  BY DEF Find, IInv, TypeOK, Control, Looked
<1>2. ASSUME NEW a \in recs, found' = [found EXCEPT ![r] = a], Goto(r, "check")
      PROVE  IInv'
  <2>1. turn[r] \in 1..Len(op[r].members)
    BY <1>1, InHand DEF IInv
  <2>2. Only(r)
    BY <1>1, <1>2, Same DEF IInv, TypeOK, Goto, Only
  <2>3. Fits(r)
    BY <1>1, <1>2, <2>1, Same DEF IInv, TypeOK, Goto, Fits, Labels, Main
  <2>. QED
    BY <1>1, <2>2, <2>3, Advance
<1>3. CASE UNCHANGED found /\ Goto(r, IF op[r].name = "modify" THEN "done" ELSE "failed")
  BY <1>1, <1>3, Moved DEF Labels, Ended, Looked
<1>. QED
  BY <1>2, <1>3 DEF Find, RecordsOf

\* The checks of a change or a deletion only move the request.
LEMMA CheckIInv ==
    ASSUME IInv, NEW r \in Requests, Check(r)
    PROVE  IInv'
<1>1. /\ pc[r] = "check" /\ UNCHANGED <<world, recs>> /\ recs \subseteq Records
      /\ view[r] \in Views /\ found[r] \in Records
  BY DEF Check, IInv, TypeOK, Control, Looked
<1>2. UNCHANGED locals /\ (Goto(r, "patch") \/ Goto(r, "remove") \/ Goto(r, "failed"))
  BY DEF Check, NotFound
<1>. QED
  BY <1>1, <1>2, Moved DEF locals, Labels, Main, Ended, Looked

\* A changed record is a record: only its note and its shift change.
LEMMA ChangedTyped ==
    ASSUME IInv, NEW r \in Requests, pc[r] = "patch", NEW a \in Records
    PROVE  /\ Changed(r, a) \in Records
           /\ Changed(r, a).by = a.by /\ Changed(r, a).ref = a.ref
           /\ Changed(r, a).member = a.member
<1>1. op[r] \in Ops /\ found[r] \in Records
  BY InHand DEF IInv, Control
<1>2. Or(op[r].note, found[r].note) \in {Undef} \union Notes
  BY <1>1 DEF Or, Ops, Records
<1>3. Or(op[r].shift, found[r].shift) \in Int \X Int
  BY <1>1, SetsOK DEF Or, Ops, Records
<1>. QED
  BY <1>2, <1>3 DEF Changed, Records

\* A patch changes records, one into one.
LEMMA PatchEffect ==
    ASSUME IInv, NEW r \in Requests, Patch(r)
    PROVE  /\ recs' \subseteq Records
           /\ \A b \in recs' : \E a \in recs :
                 /\ b.by = a.by /\ b.ref = a.ref /\ b.member = a.member
                 /\ b = IF a.ref = found[r].ref /\ a.member = found[r].member
                        THEN Changed(r, a) ELSE a
<1>1. pc[r] = "patch" /\ recs \subseteq Records /\ recs' = Patched(r)
  BY DEF Patch, IInv, TypeOK
<1>. QED
  BY <1>1, ChangedTyped DEF Patched

\* The end of a change or a deletion.
LEMMA PatchRemoveIInv ==
    ASSUME IInv, NEW r \in Requests, Patch(r) \/ Remove(r)
    PROVE  IInv'
<1>1. /\ pc[r] \in {"patch", "remove"} /\ Goto(r, "done")
      /\ UNCHANGED <<world, op, round, view, turn, found>>
  BY DEF Patch, Remove
<1>2. recs' \subseteq Records
  BY PatchEffect DEF Remove, IInv, TypeOK
<1>. QED
  BY <1>1, <1>2, Moved DEF Labels, Ended, Looked

\* A call fails.
LEMMA FailIInv ==
    ASSUME IInv, NEW r \in Requests, Fail(r)
    PROVE  IInv'
<1>1. pc[r] \in {"read"} \union Looked
  BY DEF Fail, Main, Looked
<1>. QED
  BY <1>1, GiveUpIInv DEF Fail

\* A process ends and its requests are lost.
LEMMA CrashIInv ==
    ASSUME IInv, NEW r \in Requests, Crash(r)
    PROVE  IInv'
<1>1. /\ UNCHANGED <<ref, detail, recs, op, round, view, turn, found>>
      /\ pc[r] # "idle"
      /\ \A s \in Requests : (pc'[s] = "lost" /\ pc[s] # "idle") \/ pc'[s] = pc[s]
      /\ pc' \in [Requests -> {"lost"} \union Labels]
  BY DEF Crash, world, locals, Active, Streamed, IInv, TypeOK
<1>2. TypeOK'
  BY <1>1 DEF IInv, TypeOK, Labels, Ended
<1>3. Control'
  BY <1>1 DEF IInv, Control, Looked
<1>. QED
  BY <1>2, <1>3 DEF IInv

\* Events come and go with their details.
LEMMA WorldIInv ==
    ASSUME IInv, World
    PROVE  IInv'
<1>1. UNCHANGED <<recs, pc, op, round, view, turn, found>>
  BY DEF World, CreateEvent, DeleteEvent, SaveEvent
<1>2. /\ ref' \in [Keys -> Refs \union {NoRef}]
      /\ detail' \in [Keys -> Details \union {NoDetail}]
      /\ \A k \in Keys : ref'[k] # NoRef => detail'[k] \in Details
  <2>1. PICK k \in Keys : CreateEvent(k) \/ DeleteEvent(k) \/ SaveEvent(k)
    BY DEF World
  <2>. USE SetsOK DEF IInv, TypeOK, Control
  <2>2. CASE CreateEvent(k)
    BY <2>2 DEF CreateEvent, Catalogue!Take
  <2>3. CASE DeleteEvent(k)
    BY <2>3 DEF DeleteEvent, Catalogue!Drop
  <2>4. CASE SaveEvent(k)
    BY <2>4 DEF SaveEvent
  <2>. QED
    BY <2>1, <2>2, <2>3, <2>4
<1>3. TypeOK'
  BY <1>1, <1>2 DEF IInv, TypeOK
<1>4. Control'
  BY <1>1, <1>2 DEF IInv, Control
<1>. QED
  BY <1>3, <1>4 DEF IInv

\* IInv is inductive.
LEMMA NextIInv == IInv /\ [Next]_vars => IInv'
<1>. SUFFICES ASSUME IInv, [Next]_vars PROVE IInv'
  OBVIOUS
<1>1. CASE UNCHANGED vars
  BY <1>1 DEF vars, IInv, TypeOK, Control
<1>2. CASE World
  BY <1>2, WorldIInv
<1>3. ASSUME NEW r \in Requests, Step(r)
      PROVE  IInv'
  BY <1>3, ReadIInv, ResolveIInv, AttendIInv, InsertIInv, MailIInv, ListIInv, FindIInv,
     CheckIInv, PatchRemoveIInv DEF Step
<1>4. ASSUME NEW r \in Requests, Arrive(r) \/ Fail(r) \/ Crash(r)
      PROVE  IInv'
  BY <1>4, ArriveIInv, FailIInv, CrashIInv
<1>. QED
  BY <1>1, <1>2, <1>3, <1>4 DEF Next, Rest

\* Events, records and requests keep their shape, whatever is asked and whatever
\* fails.
THEOREM AttendanceTyped == Spec => []TypeOK
<1>1. IInv => TypeOK
  BY DEF IInv
<1>. QED
  BY <1>1, InitIInv, NextIInv, PTL DEF Spec

-----------------------------------------------------------------------------
(* Records come by sign-ups only *)

\* Every step but an insertion leaves the owners of records as they are.
LEMMA StepOnlyAdds ==
    ASSUME IInv, [Next]_vars, NEW a \in recs'
    PROVE  \/ \E b \in recs : b.by = a.by /\ b.ref = a.ref /\ b.member = a.member
           \/ pc[a.by[1]] = "insert"
<1>1. CASE a \in recs
  BY <1>1
<1>2. ASSUME NEW r \in Requests, Insert(r), a \notin recs
      PROVE  pc[a.by[1]] = "insert"
  <2>1. a.by = <<r, turn[r]>> /\ pc[r] = "insert"
    BY <1>2 DEF Insert
  <2>. QED
    BY <2>1
<1>3. ASSUME NEW r \in Requests, Patch(r)
      PROVE  \E b \in recs : b.by = a.by /\ b.ref = a.ref /\ b.member = a.member
  BY <1>3, PatchEffect
<1>4. CASE \A r \in Requests : ~Insert(r) /\ ~Patch(r)
  <2>1. recs' \subseteq recs
    BY <1>4 DEF Next, Rest, World, CreateEvent, DeleteEvent, SaveEvent, Arrive, Step, Read, Resolve,
                Attend, Mail, List, Find, Check, Remove, Fail, Crash, vars
  <2>. QED
    BY <2>1
<1>. QED
  BY <1>1, <1>2, <1>3, <1>4

\* Changes and deletions, overlapping or not, add no record and give none to
\* another member or event.
THEOREM OnlySignUpsAdd == Spec => SignUpsOnlyAdd
<1>1. IInv /\ [Next]_vars =>
        [\A a \in recs' :
            \/ \E b \in recs : b.by = a.by /\ b.ref = a.ref /\ b.member = a.member
            \/ pc[a.by[1]] = "insert"]_vars
  BY StepOnlyAdds
<1>. QED
  BY <1>1, InitIInv, NextIInv, PTL DEF Spec, SignUpsOnlyAdd

-----------------------------------------------------------------------------
(* One record for a member and an event *)

\* Sign-ups of the same member do not overlap.
SignUpsApart == \E g \in Serial : SignUps \subseteq g

\* Active sign-ups are for different members.
OneSignUp ==
    \A r, s \in Requests :
        /\ Active(r) /\ op[r].name \in SignUps
        /\ Active(s) /\ op[s].name \in SignUps
        /\ About(op[r]) \intersect About(op[s]) # {}
        => r = s

\* What the check of a sign-up found still holds when its record is added.
StillFree ==
    \A r \in Requests :
        pc[r] = "insert" =>
            \A a \in recs : ~(a.ref = view[r].home /\ a.member = Member(r))

RecInv == IInv /\ OneRecord /\ OneSignUp /\ StillFree

\* Requests that end, and requests that go on with what they were asked, leave
\* active sign-ups as they are.
LEMMA SignUpsStay ==
    ASSUME OneSignUp, op' = op, \A s \in Requests : Active(s)' => Active(s)
    PROVE  OneSignUp'
<1>. SUFFICES ASSUME NEW r \in Requests, NEW s \in Requests,
                     Active(r)', op'[r].name \in SignUps,
                     Active(s)', op'[s].name \in SignUps,
                     About(op'[r]) \intersect About(op'[s]) # {}
              PROVE  r = s
  BY DEF OneSignUp
<1>1. Active(r) /\ Active(s)
  OBVIOUS
<1>2. About(op[r]) \intersect About(op[s]) # {}
  OBVIOUS
<1>. QED
  BY <1>1, <1>2 DEF OneSignUp

\* A step that brings no record of another member or event, and nobody to an
\* insertion whose record is there.
LEMMA NoNewOwner ==
    ASSUME RecInv, IInv', NEW r \in Requests,
           \A b \in recs' : \E a \in recs : b.ref = a.ref /\ b.member = a.member,
           OneRecord', op' = op, pc[r] # "idle",
           \A s \in Requests \ {r} : /\ pc'[s] = pc[s] /\ view'[s] = view[s]
                                     /\ turn'[s] = turn[s],
           pc'[r] = "insert" =>
              \A a \in recs : ~(a.ref = view'[r].home /\ a.member = op[r].members[turn'[r]]),
           pc[r] \notin Ended
    PROVE  RecInv'
<1>1. OneSignUp'
  BY SignUpsStay DEF RecInv, Active, Ended
<1>2. StillFree'
  BY DEF RecInv, StillFree, Member
<1>. QED
  BY <1>1, <1>2 DEF RecInv

\* Only a sign-up that has found no record goes on to the insertion.
LEMMA ToInsert ==
    ASSUME IInv, NEW r \in Requests, Step(r) \/ Fail(r), pc'[r] = "insert"
    PROVE  /\ UNCHANGED <<view, turn>> /\ pc[r] = "attend"
           /\ RecordsOf(view[r].home, Member(r)) = {}
BY DEF IInv, TypeOK, Step, Read, Resolve, Attend, Insert, Mail, List, Find, Check, Patch, Remove,
       Fail, GiveUp, NotFound, NextMember, Goto, WithEvent, Refused, locals, Ended

\* A step is of one request.
LEMMA StepOfOne ==
    ASSUME TypeOK, NEW r \in Requests, Step(r) \/ Fail(r)
    PROVE  /\ op' = op /\ pc[r] # "idle" /\ pc[r] \notin Ended
           /\ \A s \in Requests \ {r} : /\ pc'[s] = pc[s] /\ view'[s] = view[s]
                                         /\ turn'[s] = turn[s]
<1>1. pc[r] \in Main \union {"list"}
  BY DEF Step, Read, Resolve, Attend, Insert, Mail, List, Find, Check, Patch, Remove, Fail, Main
<1>2. op' = op
  BY DEF Step, Read, Resolve, Attend, Insert, Mail, List, Find, Check, Patch, Remove, Fail,
         GiveUp, NotFound, locals
<1>3. \A s \in Requests \ {r} : pc'[s] = pc[s]
  BY DEF TypeOK, Step, Read, Resolve, Attend, Insert, Mail, List, Find, Check, Patch, Remove, Fail,
         GiveUp, NotFound, NextMember, Goto
<1>4. \A s \in Requests \ {r} : view'[s] = view[s] /\ turn'[s] = turn[s]
  BY DEF TypeOK, Step, Read, Resolve, Attend, Insert, Mail, List, Find, Check, Patch, Remove, Fail,
         GiveUp, NotFound, NextMember, locals
<1>. QED
  BY <1>1, <1>2, <1>3, <1>4 DEF Main, Ended

\* Steps that add nothing: a patch keeps the owners, so no two records meet.
LEMMA QuietRecInv ==
    ASSUME RecInv, NEW r \in Requests, Step(r) \/ Fail(r), ~Insert(r)
    PROVE  RecInv'
<1>1. IInv'
  BY NextIInv DEF RecInv, Next
<1>2. \A b \in recs' : \E a \in recs : b.ref = a.ref /\ b.member = a.member
  <2>1. CASE Patch(r)
    BY <2>1, PatchEffect DEF RecInv
  <2>2. CASE ~Patch(r)
    <3>1. recs' \subseteq recs
      BY <2>2 DEF Step, Read, Resolve, Attend, Mail, List, Find, Check, Remove, Fail
    <3>. QED
      BY <3>1
  <2>. QED
    BY <2>1, <2>2
<1>3. OneRecord'
  <2>1. CASE Patch(r)
    <3>1. SUFFICES ASSUME NEW b1 \in recs', NEW b2 \in recs',
                          b1.ref = b2.ref, b1.member = b2.member
                   PROVE  b1 = b2
      BY DEF OneRecord
    <3>2. PICK a1 \in recs :
             /\ b1.ref = a1.ref /\ b1.member = a1.member
             /\ b1 = IF a1.ref = found[r].ref /\ a1.member = found[r].member
                     THEN Changed(r, a1) ELSE a1
      BY <2>1, PatchEffect DEF RecInv
    <3>3. PICK a2 \in recs :
             /\ b2.ref = a2.ref /\ b2.member = a2.member
             /\ b2 = IF a2.ref = found[r].ref /\ a2.member = found[r].member
                     THEN Changed(r, a2) ELSE a2
      BY <2>1, PatchEffect DEF RecInv
    <3>4. a1 = a2
      BY <3>1, <3>2, <3>3 DEF RecInv, OneRecord
    <3>. QED
      BY <3>2, <3>3, <3>4
  <2>2. CASE ~Patch(r)
    <3>1. recs' \subseteq recs
      BY <2>2 DEF Step, Read, Resolve, Attend, Mail, List, Find, Check, Remove, Fail
    <3>. QED
      BY <3>1 DEF RecInv, OneRecord
  <2>. QED
    BY <2>1, <2>2
<1>4. pc'[r] = "insert" =>
         \A a \in recs : ~(a.ref = view'[r].home /\ a.member = op[r].members[turn'[r]])
  BY ToInsert DEF RecInv, RecordsOf, Member
<1>. QED
  BY <1>1, <1>2, <1>3, <1>4, StepOfOne, NoNewOwner DEF RecInv, IInv

\* An insertion: the record is the first of its member for the event, and no
\* other sign-up is for that member.
LEMMA InsertRecInv ==
    ASSUME RecInv, NEW r \in Requests, Insert(r)
    PROVE  RecInv'
<1>1. IInv'
  BY NextIInv DEF RecInv, Next, Step
<1>2. PICK new :
         /\ recs' = recs \union {new} /\ new.ref = view[r].home /\ new.member = Member(r)
  <2>. DEFINE added == [by |-> <<r, turn[r]>>, ref |-> view[r].home, member |-> Member(r),
                        note |-> op[r].note,
                        shift |-> ShiftTime(view[r].hours, op[r].shift)]
  <2>1. recs' = recs \union {added}
    BY DEF Insert
  <2>2. added.ref = view[r].home /\ added.member = Member(r)
    OBVIOUS
  <2>. QED
    BY <2>1, <2>2
<1>3. /\ pc[r] = "insert" /\ pc' = [pc EXCEPT ![r] = "mail"]
      /\ UNCHANGED <<op, view, turn>> /\ pc \in [Requests -> Labels]
  BY DEF Insert, Goto, RecInv, IInv, TypeOK
<1>4. OneRecord'
  BY <1>2, <1>3 DEF RecInv, OneRecord, StillFree
<1>5. OneSignUp'
  BY <1>3, SignUpsStay DEF RecInv, Active, Ended
<1>6. StillFree'
  <2>1. SUFFICES ASSUME NEW s \in Requests, pc'[s] = "insert",
                        new.ref = view[s].home, new.member = Member(s)
                 PROVE  FALSE
    BY <1>2, <1>3 DEF RecInv, StillFree, Member
  <2>2. s # r /\ pc[s] = "insert"
    BY <1>3, <2>1
  <2>3. Member(r) = Member(s) /\ Member(r) \in About(op[r]) /\ Member(s) \in About(op[s])
    BY <1>2, <1>3, <2>1, <2>2, InHand DEF RecInv, IInv
  <2>4. op[r].name \in SignUps /\ op[s].name \in SignUps
    BY <1>3, <2>2 DEF RecInv, IInv, Control
  <2>5. Active(r) /\ Active(s)
    BY <1>3, <2>2 DEF Active, Ended
  <2>. QED
    BY <2>2, <2>3, <2>4, <2>5 DEF RecInv, OneSignUp
<1>. QED
  BY <1>1, <1>4, <1>5, <1>6 DEF RecInv

\* A sign-up comes in only if none is active for one of its members.
LEMMA ArriveRecInv ==
    ASSUME SignUpsApart, RecInv, NEW r \in Requests, Arrive(r)
    PROVE  RecInv'
<1>1. IInv'
  BY NextIInv DEF RecInv, Next
<1>2. PICK g \in Serial : SignUps \subseteq g
  BY DEF SignUpsApart
<1>3. PICK o \in Menu :
         /\ o.name \in g => \A s \in Requests : Active(s) /\ op[s].name \in g
                                        => About(op[s]) \intersect About(o) = {}
         /\ op' = [op EXCEPT ![r] = o]
  BY <1>2 DEF Arrive
<1>4. /\ pc[r] = "idle" /\ pc' = [pc EXCEPT ![r] = "read"]
      /\ UNCHANGED <<recs, view, turn>>
      /\ pc \in [Requests -> Labels] /\ op \in [Requests -> {Undef} \union Ops]
  BY DEF Arrive, Goto, RecInv, IInv, TypeOK
<1>5. OneSignUp'
  <2>1. ASSUME NEW s \in Requests, Active(s), op[s].name \in SignUps, o.name \in SignUps
        PROVE  About(op[s]) \intersect About(o) = {}
    BY <1>2, <1>3, <2>1
  <2>2. SUFFICES ASSUME NEW s1 \in Requests, NEW s2 \in Requests, s1 # s2,
                        Active(s1)', op'[s1].name \in SignUps,
                        Active(s2)', op'[s2].name \in SignUps,
                        About(op'[s1]) \intersect About(op'[s2]) # {}
                 PROVE  FALSE
    BY DEF OneSignUp
  <2>3. CASE s1 # r /\ s2 # r
    <3>1. Active(s1) /\ Active(s2) /\ op'[s1] = op[s1] /\ op'[s2] = op[s2]
      BY <1>3, <1>4, <2>2, <2>3 DEF Active
    <3>. QED
      BY <2>2, <3>1 DEF RecInv, OneSignUp
  <2>4. CASE s1 = r \/ s2 = r
    <3>1. PICK s \in {s1, s2} : s # r
      BY <2>2
    <3>2. /\ op'[r] = o /\ op'[s] = op[s] /\ Active(s) /\ s \in Requests
          /\ op[s].name \in SignUps /\ o.name \in SignUps
      BY <1>3, <1>4, <2>2, <2>4, <3>1 DEF Active
    <3>3. About(op[s]) \intersect About(o) # {}
      BY <2>2, <2>4, <3>1, <3>2
    <3>. QED
      BY <2>1, <3>2, <3>3
  <2>. QED
    BY <2>3, <2>4
<1>6. OneRecord' /\ StillFree'
  BY <1>3, <1>4 DEF RecInv, OneRecord, StillFree, Member
<1>. QED
  BY <1>1, <1>5, <1>6 DEF RecInv

\* Nothing that happens to events, and no process that ends, touches a record.
LEMMA RestRecInv ==
    ASSUME RecInv, World \/ (\E r \in Requests : Crash(r)) \/ UNCHANGED vars
    PROVE  RecInv'
<1>1. IInv'
  BY NextIInv DEF RecInv, Next
<1>2. /\ UNCHANGED <<recs, op, view, turn>>
      /\ \A s \in Requests : pc'[s] = "lost" \/ pc'[s] = pc[s]
  BY DEF World, CreateEvent, DeleteEvent, SaveEvent, Crash, world, locals, vars
<1>3. OneSignUp'
  BY <1>2, SignUpsStay DEF RecInv, Active, Ended
<1>4. OneRecord' /\ StillFree'
  BY <1>2 DEF RecInv, OneRecord, StillFree, Member
<1>. QED
  BY <1>1, <1>3, <1>4 DEF RecInv

\* A member has one record for an event, whether signed up at the event or at a
\* link, alone or in a list, by a manager or not, where sign-ups of the same member
\* do not overlap; events may come and go and any call may fail.
THEOREM OneRecordEach ==
    ASSUME SignUpsApart
    PROVE  Spec => []OneRecord
<1>1. Init => RecInv
  BY InitIInv DEF Init, RecInv, OneRecord, OneSignUp, StillFree, Active
<1>2. RecInv /\ [Next]_vars => RecInv'
  BY QuietRecInv, InsertRecInv, ArriveRecInv, RestRecInv DEF Next, Rest, Step
<1>3. RecInv => OneRecord
  BY DEF RecInv
<1>. QED
  BY <1>1, <1>2, <1>3, PTL DEF Spec

-----------------------------------------------------------------------------
(* Everyone who is on a list is signed up.  While the event that a request   *)
(* has read stays, it is what the request finds again, and what its link     *)
(* resolves to; so only the sign-up itself can be refused, and it is for who *)
(* is there already.                                                         *)

\* No call that a list needs to go on with fails.
CallsMade == {"read", "resolve", "insert"} \intersect Failing = {}

\* A reference is of one event, and whatever has been read has been stored.
Once == \A j, k \in Keys : ref[j] = ref[k] /\ ref[j] # NoRef => j = k
Known == \A r \in Requests : \A k \in view[r].docs : k \in Keys /\ detail[k] # NoDetail

Stays(r) == \A k \in view[r].docs : ref[k] # NoRef

DeletionAsked(m) ==
    \E s \in Requests : pc[s] # "idle" /\ op[s].name = "delete" /\ m \in About(op[s])
Served(x, m) == RecordsOf(x, m) # {} \/ DeletionAsked(m)

\* The places that only sign-ups, or only changes, come to.
Ways(r) ==
    /\ pc[r] \in {"find", "check", "patch", "remove"} => op[r].name \notin SignUps
    /\ pc[r] = "remove" => op[r].name = "delete"
    /\ pc[r] \in {"insert", "mail", "list"} => round[r] = 2 /\ op[r].name \in SignUps
    /\ pc[r] = "list" => op[r].name = "addBulk"
    /\ pc[r] = "resolve" => view[r].linked
    /\ pc[r] \in {"idle", "read"} \/ round[r] = 1 => turn[r] = 1
    /\ pc[r] = "idle" => round[r] = 1
    /\ pc[r] # "idle" /\ op[r].name = "addBulk" /\ round[r] = 2 => op[r].manager

\* What the request has read of the event, and of the one that a link names, is still so.
Anchored(r) ==
    /\ \E k \in view[r].docs :
          /\ ref[k] = op[r].event /\ view[r].linked = (k \in Links)
          /\ view[r].home = IF k \in Links THEN Target[k] ELSE ref[k]
    /\ view[r].linked /\ (pc[r] # "resolve" \/ round[r] = 2) =>
          \E j \in view[r].docs : j \notin Links /\ ref[j] = view[r].home

\* The positions of the list that a sign-up is done with.
Behind(r) ==
    IF pc[r] \in {"list", "done"} THEN 1..Len(op[r].members)
    ELSE IF pc[r] = "mail" THEN 1..turn[r] ELSE 1..(turn[r] - 1)

Signed(r) ==
    pc[r] \notin {"idle", "failed", "lost"} /\ op[r].name \in SignUps /\ Stays(r) =>
        /\ pc[r] # "read" \/ round[r] = 2 => Anchored(r)
        /\ \A i \in Behind(r) : Served(view[r].home, op[r].members[i])

SignedInv == IInv /\ Once /\ Known /\ \A r \in Requests : Ways(r) /\ Signed(r)

\* References are taken once and details stay.
LEMMA WorldOnce ==
    ASSUME IInv, Once, [Next]_vars
    PROVE  /\ Once'
           /\ \A k \in Keys : detail[k] # NoDetail =>
                 /\ detail'[k] # NoDetail
                 /\ ref'[k] # NoRef => ref[k] # NoRef /\ ref'[k] = ref[k]
<1>. DEFINE Kept == \A k \in Keys : detail[k] # NoDetail =>
                       /\ detail'[k] # NoDetail
                       /\ ref'[k] # NoRef => ref[k] # NoRef /\ ref'[k] = ref[k]
<1>1. CASE UNCHANGED world
  BY <1>1 DEF world, Once
<1>2. ASSUME NEW k \in Keys, CreateEvent(k) PROVE Once' /\ Kept
  <2>1. PICK x \in Refs : Catalogue!Take(k, x)
    BY <1>2 DEF CreateEvent
  <2>2. /\ ref' = [ref EXCEPT ![k] = x] /\ \A j \in Keys : ref[j] # x
        /\ ref \in [Keys -> Refs \union {NoRef}]
    BY <2>1 DEF Catalogue!Take, Catalogue!Free, IInv, TypeOK
  <2>3. Once'
    BY <2>2 DEF Once
  <2>4. Kept
    BY <1>2, <2>2 DEF CreateEvent, IInv, TypeOK
  <2>. QED
    BY <2>3, <2>4
<1>3. ASSUME NEW k \in Keys, DeleteEvent(k) PROVE Once' /\ Kept
  BY <1>3 DEF DeleteEvent, Catalogue!Drop, Once, IInv, TypeOK
<1>4. ASSUME NEW k \in Keys, SaveEvent(k) PROVE Once' /\ Kept
  <2>1. /\ ref' = ref /\ \A j \in Keys : detail'[j] = detail[j] \/ detail'[j] \in Events
    BY <1>4 DEF SaveEvent, IInv, TypeOK
  <2>. QED
    BY <2>1, SetsOK DEF Once
<1>5. CASE ~World
  BY <1>1, <1>5 DEF Next, Rest, vars, world, Arrive, Step, Read, Resolve, Attend, Insert, Mail, List,
                    Find, Check, Patch, Remove, Fail, Crash
<1>. QED
  BY <1>2, <1>3, <1>4, <1>5 DEF World

\* What request s has read stays known, and if it stays to the end it has not changed.
LEMMA StaysBack ==
    ASSUME IInv, Once, Known, [Next]_vars, NEW s \in Requests, view'[s] = view[s]
    PROVE  /\ \A k \in view[s].docs : k \in Keys /\ detail'[k] # NoDetail
           /\ Stays(s)' => Stays(s) /\ \A k \in view[s].docs : ref'[k] = ref[k]
BY WorldOnce DEF Known, Stays

\* Who is served stays so, or has been asked to go.
LEMMA ServedStays ==
    ASSUME IInv, \A r \in Requests : Ways(r), [Next]_vars, NEW x, NEW m, Served(x, m)
    PROVE  Served(x, m)'
<1>1. ASSUME DeletionAsked(m) PROVE DeletionAsked(m)'
  <2>1. PICK s \in Requests : pc[s] # "idle" /\ op[s].name = "delete" /\ m \in About(op[s])
    BY <1>1 DEF DeletionAsked
  <2>2. pc'[s] # "idle" /\ op'[s] = op[s]
    <3>1. CASE UNCHANGED vars \/ World
      BY <2>1, <3>1 DEF vars, World, CreateEvent, DeleteEvent, SaveEvent
    <3>2. ASSUME NEW r \in Requests, Step(r) \/ Fail(r)
          PROVE  pc'[s] # "idle" /\ op'[s] = op[s]
      <4>1. op' = op /\ (s # r => pc'[s] = pc[s])
        BY <3>2, StepOfOne DEF IInv
      <4>2. pc'[r] # "idle"
        BY <3>2 DEF IInv, TypeOK, Step, Read, Resolve, Attend, Insert, Mail, List, Find, Check, Patch,
                    Remove, Fail, GiveUp, NotFound, NextMember, Goto, WithEvent
      <4>. QED
        BY <2>1, <4>1, <4>2
    <3>3. ASSUME NEW r \in Requests, Arrive(r)
          PROVE  pc'[s] # "idle" /\ op'[s] = op[s]
      BY <2>1, <3>3 DEF Arrive, Goto, IInv, TypeOK
    <3>4. ASSUME NEW r \in Requests, Crash(r)
          PROVE  pc'[s] # "idle" /\ op'[s] = op[s]
      BY <2>1, <3>4 DEF Crash, locals
    <3>. QED
      BY <3>1, <3>2, <3>3, <3>4 DEF Next, Rest
  <2>. QED
    BY <2>1, <2>2 DEF DeletionAsked
<1>2. ASSUME NEW a \in RecordsOf(x, m) PROVE Served(x, m)'
  <2>0. a \in recs /\ a.ref = x /\ a.member = m
    BY <1>2 DEF RecordsOf
  <2>1. ASSUME NEW r \in Requests, Remove(r), a \notin recs' PROVE DeletionAsked(m)
    <3>1. pc[r] = "remove" /\ Member(r) = m
      BY <2>0, <2>1 DEF Remove, RecordsOf
    <3>. QED
      BY <3>1, InHand DEF IInv, Ways, DeletionAsked
  <2>2. ASSUME NEW r \in Requests, Patch(r) PROVE RecordsOf(x, m)' # {}
    <3>1. PICK b \in recs' : b.ref = a.ref /\ b.member = a.member
      <4>. DEFINE b == IF a.ref = found[r].ref /\ a.member = found[r].member
                       THEN Changed(r, a) ELSE a
      <4>1. b \in recs'
        BY <2>0, <2>2 DEF Patch, Patched
      <4>2. b.ref = a.ref /\ b.member = a.member
        BY <2>0, <2>2, ChangedTyped DEF Patch, IInv, TypeOK
      <4>. QED
        BY <4>1, <4>2
    <3>. QED
      BY <2>0, <3>1 DEF RecordsOf
  <2>3. CASE a \in recs'
    BY <2>0, <2>3 DEF Served, RecordsOf
  <2>4. CASE \A r \in Requests : ~Patch(r) /\ ~Remove(r)
    <3>1. recs \subseteq recs'
      BY <2>4 DEF Next, Rest, World, CreateEvent, DeleteEvent, SaveEvent, Arrive, Step, Read, Resolve,
                  Attend, Insert, Mail, List, Find, Check, Fail, Crash, vars
    <3>. QED
      BY <2>0, <2>3, <3>1
  <2>. QED
    BY <1>1, <2>1, <2>2, <2>3, <2>4 DEF Served
<1>. QED
  BY <1>1, <1>2 DEF Served

\* A request whose hands nobody has touched.
LEMMA Untouched ==
    ASSUME SignedInv, [Next]_vars, NEW s \in Requests,
           view'[s] = view[s], turn'[s] = turn[s], round'[s] = round[s], op'[s] = op[s],
           pc'[s] = pc[s] \/ (pc'[s] \in {"lost", "failed"} /\ pc[s] # "idle")
    PROVE  Ways(s)' /\ Signed(s)'
<1>1. Ways(s)'
  BY DEF SignedInv, Ways
<1>2. CASE pc'[s] # pc[s]
  <2>1. pc'[s] \in {"lost", "failed"}
    BY <1>2
  <2>. QED
    BY <1>1, <2>1 DEF Signed
<1>3. CASE pc'[s] = pc[s]
  <2>. SUFFICES ASSUME pc[s] \notin {"idle", "failed", "lost"}, op[s].name \in SignUps, Stays(s)'
                PROVE  /\ pc[s] # "read" \/ round[s] = 2 => Anchored(s)'
                       /\ \A i \in Behind(s) : Served(view[s].home, op[s].members[i])'
    <3>1. Behind(s)' = Behind(s)
      BY <1>3 DEF Behind
    <3>. QED
      BY <1>1, <1>3, <3>1 DEF Signed
  <2>1. Stays(s) /\ \A k \in view[s].docs : ref'[k] = ref[k]
    BY StaysBack DEF SignedInv
  <2>2. Signed(s)
    BY DEF SignedInv
  <2>3. ASSUME pc[s] # "read" \/ round[s] = 2 PROVE Anchored(s)'
    <3>1. Anchored(s)
      BY <2>1, <2>2, <2>3 DEF Signed
    <3>. QED
      BY <1>3, <2>1, <3>1 DEF Anchored
  <2>4. ASSUME NEW i \in Behind(s) PROVE Served(view[s].home, op[s].members[i])'
    BY <2>1, <2>2, ServedStays DEF Signed, SignedInv
  <2>. QED
    BY <2>3, <2>4
<1>. QED
  BY <1>1, <1>2, <1>3

\* A sign-up goes on with the list when it is done with a member of it.
LEMMA NextMemberSigned ==
    ASSUME SignedInv, [Next]_vars, NEW r \in Requests, NextMember(r),
           UNCHANGED <<ref, op, round, view>>, round[r] = 2, op[r].name = "addBulk",
           pc[r] \in {"resolve", "attend", "mail"},
           Stays(r) => Served(view[r].home, Member(r))
    PROVE  Ways(r)' /\ Signed(r)'
<1>1. /\ turn[r] \in 1..Len(op[r].members) /\ op[r].members \in Seq(Members)
      /\ pc \in [Requests -> Labels] /\ turn \in [Requests -> Nat \ {0}]
  BY InHand DEF SignedInv, IInv, TypeOK
<1>2. op[r].manager /\ op[r].name \in SignUps
  BY DEF SignedInv, Ways, SignUps
<1>3. \/ /\ pc'[r] \in {"resolve", "attend"} /\ turn'[r] = turn[r] + 1
         /\ pc'[r] = "resolve" => view[r].linked
      \/ /\ pc'[r] = "list" /\ turn'[r] = turn[r] /\ turn[r] = Len(op[r].members)
  BY <1>1 DEF NextMember, Goto
<1>4. Ways(r)'
  BY <1>2, <1>3 DEF Ways
<1>5. ASSUME Stays(r) PROVE Anchored(r)' /\ \A i \in Behind(r)' : Served(view[r].home, op[r].members[i])'
  <2>1. Anchored(r) /\ \A i \in Behind(r) : Served(view[r].home, op[r].members[i])
    BY <1>2, <1>5 DEF SignedInv, Signed
  <2>2. Anchored(r)'
    BY <2>1 DEF Anchored
  <2>3. \A i \in 1..turn[r] : Served(view[r].home, op[r].members[i])
    <3>1. 1..(turn[r] - 1) \subseteq Behind(r) /\ \A i \in 1..turn[r] : i = turn[r] \/ i \in 1..(turn[r] - 1)
      BY <1>1 DEF Behind
    <3>. QED
      BY <1>5, <2>1, <3>1 DEF Member
  <2>4. \A i \in 1..turn[r] : Served(view[r].home, op[r].members[i])'
    BY <2>3, ServedStays DEF SignedInv
  <2>5. Behind(r)' = 1..turn[r]
    BY <1>1, <1>3 DEF Behind
  <2>. QED
    BY <2>2, <2>4, <2>5
<1>6. Stays(r)' => Stays(r)
  BY DEF Stays
<1>7. Signed(r)'
  BY <1>5, <1>6 DEF Signed
<1>. QED
  BY <1>4, <1>7

\* The second time a request reads the event, it finds the one that it has read, if that
\* stays; and the first time it has none.
LEMMA ReadSigned ==
    ASSUME SignedInv, NEW r \in Requests, Read(r)
    PROVE  Ways(r)' /\ Signed(r)'
<1>1. /\ pc[r] = "read" /\ turn[r] = 1 /\ UNCHANGED <<ref, recs, op, round>>
      /\ pc \in [Requests -> Labels] /\ op[r] \in Ops /\ [Next]_vars
  <2>1. pc[r] = "read" /\ UNCHANGED <<ref, recs, op, round>>
    BY DEF Read, world, GiveUp, NotFound, locals
  <2>. QED
    BY <2>1, InHand DEF SignedInv, Ways, IInv, TypeOK, Next, Step
<1>2. ASSUME NEW k \in Keys, At(op[r].event) = {k},
             view' = [view EXCEPT ![r] =
                [docs |-> view[r].docs \union {k}, ref |-> ref[k], linked |-> k \in Links,
                 home |-> IF k \in Links THEN Target[k] ELSE ref[k],
                 hours |-> detail[k].hours, open |-> detail[k].open]],
             Goto(r, IF k \in Links THEN "resolve" ELSE WithEvent(r)),
             UNCHANGED <<op, round, turn, found>>
      PROVE  Ways(r)' /\ Signed(r)'
  <2>1. /\ view'[r].docs = view[r].docs \union {k} /\ view'[r].linked = (k \in Links)
        /\ view'[r].home = IF k \in Links THEN Target[k] ELSE ref[k]
    BY <1>2 DEF SignedInv, IInv, TypeOK
  <2>2. /\ pc'[r] = IF k \in Links THEN "resolve" ELSE WithEvent(r)
        /\ turn'[r] = 1
    BY <1>1, <1>2 DEF Goto
  <2>3. Ways(r)'
    BY <1>1, <2>1, <2>2 DEF SignedInv, Ways, WithEvent
  <2>4. ref[k] = op[r].event
    BY <1>2 DEF At
  <2>5. ASSUME round[r] = 2, Stays(r), op[r].name \in SignUps, k \in Links
        PROVE  \E j \in view[r].docs : j \notin Links /\ ref[j] = Target[k]
    <3>1. Anchored(r)
      BY <1>1, <2>5 DEF SignedInv, Signed
    <3>2. PICK h \in view[r].docs :
             /\ ref[h] = op[r].event /\ view[r].linked = (h \in Links)
             /\ view[r].home = IF h \in Links THEN Target[h] ELSE ref[h]
      BY <3>1 DEF Anchored
    <3>3. h = k
      BY <1>2, <3>2 DEF At, SignedInv, Known
    <3>. QED
      BY <1>1, <2>5, <3>1, <3>2, <3>3 DEF Anchored
  <2>6. Stays(r)' => Stays(r)
    BY <1>1, <2>1 DEF Stays
  <2>7. ASSUME op[r].name \in SignUps, Stays(r) PROVE Anchored(r)'
    <3>1. k \in view'[r].docs /\ ref'[k] = op'[r].event
      BY <1>1, <2>1, <2>4
    <3>2. (pc'[r] = "resolve" /\ round[r] # 2) \/ round[r] = 2 \/ k \notin Links
      BY <2>2
    <3>. QED
      BY <1>1, <2>1, <2>4, <2>5, <2>7, <3>1, <3>2 DEF Anchored
  <2>8. pc'[r] \in {"resolve", "attend", "find"}
    BY <2>2 DEF WithEvent
  <2>9. Behind(r)' = {}
    BY <2>2, <2>8 DEF Behind
  <2>. QED
    BY <1>1, <2>3, <2>6, <2>7, <2>9 DEF Signed
<1>3. ASSUME ~\E k \in Keys : At(op[r].event) = {k}, GiveUp(r)
      PROVE  Ways(r)' /\ Signed(r)'
  <2>1. CASE NotFound(r)
    <3>1. pc'[r] = "failed" /\ UNCHANGED <<view, turn, round, op>>
      BY <1>1, <2>1 DEF NotFound, Goto, locals
    <3>. QED
      BY <1>1, <3>1, Untouched
  <2>2. CASE op[r].name = "addBulk" /\ round[r] = 2 /\ ~NotFound(r)
    <3>1. pc'[r] = "list" /\ UNCHANGED <<view, turn>>
      BY <1>1, <1>3, <2>2 DEF GiveUp, Goto
    <3>2. Ways(r)'
      BY <1>1, <2>2, <3>1 DEF SignedInv, Ways, SignUps
    <3>3. ~Stays(r)
      <4>1. SUFFICES ASSUME Stays(r) PROVE FALSE
        OBVIOUS
      <4>2. Anchored(r)
        BY <1>1, <2>2, <4>1 DEF SignedInv, Signed, SignUps
      <4>3. PICK k \in view[r].docs : ref[k] = op[r].event
        BY <4>2 DEF Anchored
      <4>4. ref[k] # NoRef /\ k \in Keys
        BY <4>1, <4>3 DEF Stays, SignedInv, Known
      <4>5. At(op[r].event) = {k}
        BY <4>3, <4>4 DEF At, SignedInv, Once
      <4>. QED
        BY <1>3, <4>4, <4>5
    <3>. QED
      BY <1>1, <3>1, <3>2, <3>3 DEF Signed, Stays
  <2>. QED
    BY <1>3, <2>1, <2>2 DEF GiveUp
<1>. QED
  BY <1>2, <1>3 DEF Read

\* So does the event that a link names.
LEMMA ResolveSigned ==
    ASSUME SignedInv, NEW r \in Requests, Resolve(r)
    PROVE  Ways(r)' /\ Signed(r)'
<1>1. /\ pc[r] = "resolve" /\ UNCHANGED <<ref, recs, op, round>>
      /\ pc \in [Requests -> Labels] /\ op[r] \in Ops /\ [Next]_vars /\ view[r] \in Views
  <2>1. pc[r] = "resolve" /\ UNCHANGED <<ref, recs, op, round>>
    BY DEF Resolve, world, GiveUp, NotFound, locals
  <2>. QED
    BY <2>1, InHand DEF SignedInv, IInv, TypeOK, Control, Looked, Next, Step
<1>2. ASSUME NEW k \in Keys \ Links, At(view[r].home) = {k},
             view' = [view EXCEPT ![r].open = detail[k].open, ![r].docs = @ \union {k}],
             Goto(r, WithEvent(r)), UNCHANGED <<op, round, turn, found>>
      PROVE  Ways(r)' /\ Signed(r)'
  <2>1. /\ view'[r].docs = view[r].docs \union {k} /\ view'[r].linked = view[r].linked
        /\ view'[r].home = view[r].home
    BY <1>1, <1>2 DEF SignedInv, IInv, TypeOK, Views
  <2>2. pc'[r] = WithEvent(r)
    BY <1>1, <1>2 DEF Goto
  <2>3. Ways(r)'
    BY <1>1, <1>2, <2>2 DEF SignedInv, Ways, WithEvent
  <2>4. ref[k] = view[r].home
    BY <1>2 DEF At
  <2>5. Stays(r)' => Stays(r)
    BY <1>1, <2>1 DEF Stays
  <2>6. ASSUME op[r].name \in SignUps, Stays(r) PROVE Anchored(r)'
    <3>1. Anchored(r)
      BY <1>1, <2>6 DEF SignedInv, Signed
    <3>2. \E j \in view'[r].docs : j \notin Links /\ ref[j] = view'[r].home
      BY <1>2, <2>1, <2>4
    <3>3. \E h \in view'[r].docs :
             /\ ref[h] = op[r].event /\ view'[r].linked = (h \in Links)
             /\ view'[r].home = IF h \in Links THEN Target[h] ELSE ref[h]
      BY <2>1, <3>1 DEF Anchored
    <3>. QED
      BY <1>1, <1>2, <3>2, <3>3 DEF Anchored
  <2>7. pc'[r] \in {"attend", "find"} /\ turn'[r] = turn[r]
    BY <1>2, <2>2 DEF WithEvent
  <2>8. Behind(r)' = Behind(r)
    BY <1>1, <1>2, <2>7 DEF Behind
  <2>9. ASSUME op[r].name \in SignUps, Stays(r)
        PROVE  \A i \in Behind(r) : Served(view[r].home, op[r].members[i])'
    <3>1. \A i \in Behind(r) : Served(view[r].home, op[r].members[i])
      BY <1>1, <2>9 DEF SignedInv, Signed
    <3>2. view'[r].home = view[r].home /\ op' = op
      BY <1>1, <2>1
    <3>. QED
      BY <1>1, <3>1, <3>2, ServedStays DEF SignedInv
  <2>. QED
    BY <1>1, <2>1, <2>3, <2>5, <2>6, <2>8, <2>9 DEF Signed
<1>3. ASSUME ~\E k \in Keys \ Links : At(view[r].home) = {k}, GiveUp(r)
      PROVE  Ways(r)' /\ Signed(r)'
  <2>1. CASE NotFound(r)
    <3>1. pc'[r] = "failed" /\ UNCHANGED <<view, turn, round, op>>
      BY <1>1, <2>1 DEF NotFound, Goto, locals
    <3>. QED
      BY <1>1, <3>1, Untouched
  <2>2. CASE op[r].name = "addBulk" /\ round[r] = 2 /\ ~NotFound(r)
    <3>1. NextMember(r) /\ UNCHANGED <<view, op, round>>
      BY <1>1, <1>3, <2>2 DEF GiveUp
    <3>2. ~Stays(r)
      <4>1. SUFFICES ASSUME Stays(r) PROVE FALSE
        OBVIOUS
      <4>2. Anchored(r)
        BY <1>1, <2>2, <4>1 DEF SignedInv, Signed, SignUps
      <4>3. PICK j \in view[r].docs : j \notin Links /\ ref[j] = view[r].home
        BY <1>1, <2>2, <4>2 DEF Anchored, SignedInv, Ways
      <4>4. ref[j] # NoRef /\ j \in Keys
        BY <4>1, <4>3 DEF Stays, SignedInv, Known
      <4>5. At(view[r].home) = {j}
        BY <4>3, <4>4 DEF At, SignedInv, Once
      <4>. QED
        BY <1>3, <4>3, <4>4, <4>5
    <3>. QED
      BY <1>1, <2>2, <3>1, <3>2, NextMemberSigned
  <2>. QED
    BY <1>3, <2>1, <2>2 DEF GiveUp
<1>. QED
  BY <1>2, <1>3 DEF Resolve

\* Who cannot be signed up is signed up already: the handler has let only managers
\* send lists, and they are not refused for anything else.
LEMMA AttendSigned ==
    ASSUME SignedInv, NEW r \in Requests, Attend(r)
    PROVE  Ways(r)' /\ Signed(r)'
<1>1. /\ pc[r] = "attend" /\ UNCHANGED <<ref, recs, op, view>> /\ [Next]_vars
      /\ pc \in [Requests -> Labels] /\ round \in [Requests -> {1, 2}]
      /\ op[r].name \in SignUps
  <2>1. pc[r] = "attend" /\ UNCHANGED <<ref, recs, op, view>>
    BY DEF Attend, world, GiveUp, NotFound, locals
  <2>. QED
    BY <2>1 DEF SignedInv, IInv, TypeOK, Control, Next, Step
<1>2. Stays(r) => Anchored(r) /\ \A i \in Behind(r) : Served(view[r].home, op[r].members[i])'
  <2>1. Stays(r) => Anchored(r) /\ \A i \in Behind(r) : Served(view[r].home, op[r].members[i])
    BY <1>1 DEF SignedInv, Signed
  <2>. QED
    BY <1>1, <2>1, ServedStays DEF SignedInv
<1>3. CASE Admitted(r) /\ round[r] = 1 /\ round' = [round EXCEPT ![r] = 2] /\ Goto(r, "read") /\ turn' = turn
  <2>1. pc'[r] = "read" /\ round'[r] = 2
    BY <1>1, <1>3 DEF Goto
  <2>2. Ways(r)'
    <3>1. op[r].name = "addBulk" => op[r].manager
      BY <1>1, <1>3 DEF Admitted
    <3>. QED
      BY <1>1, <1>3, <2>1, <3>1 DEF SignedInv, Ways
  <2>3. Behind(r)' = Behind(r) /\ (Stays(r)' <=> Stays(r)) /\ (Anchored(r) => Anchored(r)')
    BY <1>1, <1>3, <2>1 DEF Behind, Stays, Anchored
  <2>. QED
    BY <1>1, <1>2, <2>1, <2>2, <2>3 DEF Signed
<1>4. CASE round[r] = 2 /\ Goto(r, "insert") /\ UNCHANGED <<round, turn>>
  <2>1. pc'[r] = "insert"
    BY <1>1, <1>4 DEF Goto
  <2>2. Ways(r)'
    BY <1>1, <1>4, <2>1 DEF SignedInv, Ways
  <2>3. Behind(r)' = Behind(r) /\ (Stays(r)' <=> Stays(r)) /\ (Anchored(r) => Anchored(r)')
    BY <1>1, <1>4, <2>1 DEF Behind, Stays, Anchored
  <2>. QED
    BY <1>1, <1>2, <2>1, <2>2, <2>3 DEF Signed
<1>5. CASE NotFound(r)
  <2>1. pc'[r] = "failed" /\ UNCHANGED <<view, turn, round, op>>
    BY <1>1, <1>5 DEF NotFound, Goto, locals
  <2>. QED
    BY <1>1, <2>1, Untouched
<1>6. CASE GiveUp(r) /\ ~NotFound(r) /\ IF round[r] = 1 THEN ~Admitted(r) ELSE Refused(r)
  <2>1. /\ op[r].name = "addBulk" /\ round[r] = 2 /\ NextMember(r) /\ UNCHANGED <<view, op, round>>
        /\ Refused(r)
    BY <1>1, <1>6 DEF GiveUp
  <2>2. op[r].manager
    BY <1>1, <2>1 DEF SignedInv, Ways
  <2>3. Served(view[r].home, Member(r))
    BY <2>1, <2>2 DEF Refused, Served
  <2>. QED
    BY <1>1, <2>1, <2>3, NextMemberSigned
<1>. QED
  BY <1>3, <1>4, <1>5, <1>6 DEF Attend, locals

\* The record is there when it has been added.
LEMMA InsertSigned ==
    ASSUME SignedInv, NEW r \in Requests, Insert(r)
    PROVE  Ways(r)' /\ Signed(r)'
<1>1. /\ pc[r] = "insert" /\ pc'[r] = "mail" /\ UNCHANGED <<ref, op, round, view, turn>> /\ [Next]_vars
      /\ turn[r] \in Nat \ {0}
  BY DEF Insert, Goto, world, SignedInv, IInv, TypeOK, Next, Step
<1>2. Ways(r)'
  BY <1>1 DEF SignedInv, Ways
<1>3. Served(view[r].home, Member(r))'
  <2>. DEFINE new == [by |-> <<r, turn[r]>>, ref |-> view[r].home, member |-> Member(r),
                      note |-> op[r].note, shift |-> ShiftTime(view[r].hours, op[r].shift)]
  <2>1. new \in recs' /\ new.ref = view[r].home /\ new.member = Member(r)
    BY DEF Insert
  <2>. QED
    BY <1>1, <2>1 DEF Served, RecordsOf, Member
<1>4. ASSUME Stays(r), op[r].name \in SignUps
      PROVE  Anchored(r)' /\ \A i \in Behind(r)' : Served(view[r].home, op[r].members[i])'
  <2>1. Anchored(r) /\ \A i \in Behind(r) : Served(view[r].home, op[r].members[i])
    BY <1>1, <1>4 DEF SignedInv, Signed
  <2>2. \A i \in Behind(r) : Served(view[r].home, op[r].members[i])'
    BY <1>1, <2>1, ServedStays DEF SignedInv
  <2>3. \A i \in Behind(r)' : i \in Behind(r) \/ i = turn[r]
    BY <1>1 DEF Behind
  <2>4. \A i \in Behind(r)' : Served(view[r].home, op[r].members[i])'
    BY <1>1, <1>3, <2>2, <2>3 DEF Member
  <2>. QED
    BY <1>1, <2>1, <2>4 DEF Anchored
<1>. QED
  BY <1>1, <1>2, <1>4 DEF Signed, Stays

\* The mail may fail: the list goes on all the same.
LEMMA MailSigned ==
    ASSUME SignedInv, NEW r \in Requests, pc[r] = "mail",
           Mail(r) \/ (Fail(r) /\ ~NotFound(r))
    PROVE  Ways(r)' /\ Signed(r)'
<1>1. /\ UNCHANGED <<ref, recs, op, round, view>> /\ [Next]_vars
      /\ pc \in [Requests -> Labels] /\ op[r].name \in SignUps /\ round[r] = 2
      /\ turn[r] \in 1..Len(op[r].members) /\ op[r] \in Menu /\ op[r].members \in Seq(Members)
  <2>1. UNCHANGED <<ref, recs, op, round, view>>
    BY DEF Mail, Fail, GiveUp, world
  <2>. QED
    BY <2>1, InHand DEF SignedInv, Ways, IInv, TypeOK, Next, Step
<1>2. ASSUME Stays(r) PROVE Anchored(r) /\ \A i \in 1..turn[r] : Served(view[r].home, op[r].members[i])
  BY <1>1, <1>2 DEF SignedInv, Signed, Behind
<1>3. CASE op[r].name = "addBulk"
  <2>1. NextMember(r)
    BY <1>1, <1>3 DEF Mail, Fail, GiveUp
  <2>2. Stays(r) => Served(view[r].home, Member(r))
    BY <1>1, <1>2 DEF Member
  <2>. QED
    BY <1>1, <1>3, <2>1, <2>2, NextMemberSigned
<1>4. CASE op[r].name # "addBulk"
  <2>1. pc'[r] = "done" /\ turn' = turn
    BY <1>1, <1>4 DEF Mail, Fail, GiveUp, Goto
  <2>2. Len(op[r].members) = 1 /\ turn[r] = 1
    <3>1. Len(op[r].members) = 1
      BY <1>1, <1>4, MenuOK
    <3>2. turn[r] \in 1..1
      BY <1>1, <3>1
    <3>. QED
      BY <3>1, <3>2
  <2>3. Ways(r)'
    BY <1>1, <1>4, <2>1, <2>2 DEF Ways
  <2>4. ASSUME Stays(r) PROVE Anchored(r)' /\ \A i \in Behind(r)' : Served(view[r].home, op[r].members[i])'
    <3>1. \A i \in 1..turn[r] : Served(view[r].home, op[r].members[i])'
      BY <1>1, <1>2, <2>4, ServedStays DEF SignedInv
    <3>2. Behind(r)' = 1..turn[r]
      BY <1>1, <2>1, <2>2 DEF Behind
    <3>. QED
      BY <1>1, <1>2, <2>1, <2>4, <3>1, <3>2 DEF Anchored
  <2>. QED
    BY <1>1, <2>1, <2>3, <2>4 DEF Signed, Stays
<1>. QED
  BY <1>3, <1>4

\* Whatever a request does, it stays on its ways and keeps what it holds.
LEMMA StepSigned ==
    ASSUME CallsMade, SignedInv, NEW r \in Requests, Step(r) \/ Fail(r)
    PROVE  Ways(r)' /\ Signed(r)'
<1>1. [Next]_vars /\ pc \in [Requests -> Labels] /\ round[r] \in {1, 2}
  BY DEF Next, SignedInv, IInv, TypeOK
<1>2. CASE Read(r) \/ Resolve(r) \/ Attend(r) \/ Insert(r) \/ Mail(r)
  BY <1>2, ReadSigned, ResolveSigned, AttendSigned, InsertSigned, MailSigned DEF Mail
<1>3. CASE List(r)
  <2>1. /\ pc[r] = "list" /\ pc'[r] = "done" /\ UNCHANGED <<ref, recs, op, round, view, turn>>
        /\ op[r].name \in SignUps
    BY <1>1, <1>3 DEF List, Goto, locals, world, SignedInv, Ways
  <2>2. Ways(r)'
    BY <2>1 DEF SignedInv, Ways
  <2>3. Behind(r)' = Behind(r)
    BY <2>1 DEF Behind
  <2>4. ASSUME Stays(r) PROVE Anchored(r)' /\ \A i \in Behind(r) : Served(view[r].home, op[r].members[i])'
    <3>1. Anchored(r) /\ \A i \in Behind(r) : Served(view[r].home, op[r].members[i])
      BY <2>1, <2>4 DEF SignedInv, Signed
    <3>2. \A i \in Behind(r) : Served(view[r].home, op[r].members[i])'
      BY <1>1, <2>1, <3>1, ServedStays DEF SignedInv
    <3>. QED
      BY <2>1, <3>1, <3>2 DEF Anchored
  <2>. QED
    BY <2>1, <2>2, <2>3, <2>4 DEF Signed, Stays
<1>4. CASE Find(r) \/ Check(r) \/ Patch(r) \/ Remove(r)
  <2>1. /\ pc[r] \in {"find", "check", "patch", "remove"} /\ UNCHANGED <<op, round, view, turn>>
        /\ pc'[r] \in {"check", "patch", "remove", "done", "failed"}
        /\ pc'[r] = "remove" => op[r].name # "modify"
        /\ op[r].name \notin SignUps /\ op[r] \in Ops
    BY <1>1, <1>4, InHand DEF Find, Check, Patch, Remove, NotFound, Goto, locals, SignedInv, Ways, IInv
  <2>2. pc'[r] = "remove" => op[r].name = "delete"
    BY <2>1 DEF Ops, OpNames, SignUps
  <2>3. Ways(r)'
    BY <2>1, <2>2 DEF SignedInv, Ways
  <2>. QED
    BY <2>1, <2>3 DEF Signed
<1>5. CASE Fail(r)
  <2>1. pc[r] \in {"mail", "find", "check", "patch", "remove"}
    BY <1>5 DEF Fail, CallsMade, Main, Streamed
  <2>2. CASE NotFound(r)
    <3>1. pc'[r] = "failed" /\ UNCHANGED <<view, turn, round, op>>
      BY <1>1, <2>2 DEF NotFound, Goto, locals
    <3>. QED
      BY <1>1, <2>1, <3>1, Untouched
  <2>3. CASE ~NotFound(r)
    <3>1. op[r].name \in SignUps
      BY <1>5, <2>3 DEF Fail, GiveUp, SignUps
    <3>2. pc[r] = "mail"
      BY <2>1, <3>1 DEF SignedInv, Ways
    <3>. QED
      BY <1>5, <2>3, <3>2, MailSigned
  <2>. QED
    BY <2>2, <2>3
<1>. QED
  BY <1>2, <1>3, <1>4, <1>5 DEF Step

\* What requests have read has been stored.
LEMMA NextKnown ==
    ASSUME IInv, Once, Known, [Next]_vars
    PROVE  Known'
<1>. SUFFICES ASSUME NEW r \in Requests, NEW k \in view'[r].docs PROVE k \in Keys /\ detail'[k] # NoDetail
  BY DEF Known
<1>1. CASE k \in view[r].docs
  BY <1>1, WorldOnce DEF Known
<1>2. CASE k \notin view[r].docs
  <2>1. PICK s \in Requests : Read(s) \/ Resolve(s)
    BY <1>2 DEF Next, Rest, vars, World, CreateEvent, DeleteEvent, SaveEvent, Arrive, Step, Attend,
                Insert, Mail, List, Find, Check, Patch, Remove, Fail, Crash, GiveUp, NotFound, locals
  <2>2. s = r
    BY <1>2, <2>1 DEF Read, Resolve, GiveUp, NotFound, locals, IInv, TypeOK
  <2>3. k \in Keys /\ ref[k] # NoRef
    <3>1. CASE Read(r)
      <4>1. PICK j \in Keys :
               /\ At(op[r].event) = {j}
               /\ view' = [view EXCEPT ![r] =
                     [docs |-> view[r].docs \union {j}, ref |-> ref[j], linked |-> j \in Links,
                      home |-> IF j \in Links THEN Target[j] ELSE ref[j],
                      hours |-> detail[j].hours, open |-> detail[j].open]]
        BY <1>2, <3>1 DEF Read, GiveUp, NotFound, locals
      <4>2. k = j
        BY <1>2, <4>1 DEF IInv, TypeOK
      <4>3. ref[j] = op[r].event /\ op[r] \in Ops
        BY <3>1, <4>1, InHand DEF At, Read, IInv
      <4>. QED
        BY <4>1, <4>2, <4>3, SetsOK DEF Ops
    <3>2. CASE Resolve(r)
      <4>0. view[r] \in Views
        BY <3>2 DEF Resolve, IInv, Control, Looked
      <4>1. PICK j \in Keys \ Links :
               /\ At(view[r].home) = {j}
               /\ view' = [view EXCEPT ![r].open = detail[j].open, ![r].docs = @ \union {j}]
        BY <1>2, <3>2 DEF Resolve, GiveUp, NotFound, locals
      <4>2. k = j
        BY <1>2, <4>0, <4>1 DEF IInv, TypeOK, Views
      <4>. QED
        BY <4>0, <4>1, <4>2, SetsOK DEF At, Views
    <3>. QED
      BY <2>1, <2>2, <3>1, <3>2
  <2>4. detail[k] # NoDetail
    BY <2>3, SetsOK DEF IInv, Control
  <2>. QED
    BY <2>3, <2>4, WorldOnce
<1>. QED
  BY <1>1, <1>2

\* SignedInv is inductive.
LEMMA NextSigned ==
    ASSUME CallsMade
    PROVE  SignedInv /\ [Next]_vars => SignedInv'
<1>. SUFFICES ASSUME SignedInv, [Next]_vars PROVE SignedInv'
  OBVIOUS
<1>1. IInv' /\ Once' /\ Known'
  BY NextIInv, WorldOnce, NextKnown DEF SignedInv
<1>2. ASSUME NEW s \in Requests PROVE Ways(s)' /\ Signed(s)'
  <2>1. CASE UNCHANGED vars \/ World
    <3>1. UNCHANGED <<view, turn, round, op, pc>>
      BY <2>1 DEF vars, World, CreateEvent, DeleteEvent, SaveEvent
    <3>. QED
      BY <3>1, Untouched
  <2>2. ASSUME NEW r \in Requests, Step(r) \/ Fail(r) PROVE Ways(s)' /\ Signed(s)'
    <3>1. CASE r = s
      BY <2>2, <3>1, StepSigned
    <3>2. CASE r # s
      <4>1. /\ op' = op /\ pc'[s] = pc[s] /\ view'[s] = view[s] /\ turn'[s] = turn[s]
        BY <2>2, <3>2, StepOfOne DEF SignedInv, IInv
      <4>2. round'[s] = round[s]
        BY <2>2, <3>2 DEF SignedInv, IInv, TypeOK, Step, Read, Resolve, Attend, Insert, Mail, List, Find,
              Check, Patch, Remove, Fail, GiveUp, NotFound, locals
      <4>. QED
        BY <4>1, <4>2, Untouched
    <3>. QED
      BY <3>1, <3>2
  <2>3. ASSUME NEW r \in Requests, Arrive(r) PROVE Ways(s)' /\ Signed(s)'
    <3>1. UNCHANGED <<view, turn, round>>
      BY <2>3 DEF Arrive
    <3>2. CASE r = s
      <4>1. pc[r] = "idle" /\ pc'[r] = "read" /\ round[r] = 1 /\ turn[r] = 1
        BY <2>3, <3>2 DEF Arrive, Goto, SignedInv, Ways, IInv, TypeOK
      <4>2. Behind(r)' = {}
        BY <3>1, <4>1 DEF Behind
      <4>. QED
        BY <3>1, <3>2, <4>1, <4>2 DEF Signed, Ways
    <3>3. CASE r # s
      <4>1. op'[s] = op[s] /\ pc'[s] = pc[s]
        BY <2>3, <3>3 DEF Arrive, Goto, SignedInv, IInv, TypeOK
      <4>. QED
        BY <3>1, <4>1, Untouched
    <3>. QED
      BY <3>2, <3>3
  <2>4. ASSUME NEW r \in Requests, Crash(r) PROVE Ways(s)' /\ Signed(s)'
    <3>1. /\ UNCHANGED <<view, turn, round, op>>
          /\ pc'[s] = pc[s] \/ (pc'[s] = "lost" /\ pc[s] # "idle")
      BY <2>4 DEF Crash, locals, Active, Streamed
    <3>. QED
      BY <3>1, Untouched
  <2>. QED
    BY <2>1, <2>2, <2>3, <2>4 DEF Next, Rest
<1>. QED
  BY <1>1, <1>2 DEF SignedInv

\* Every member of a list, and whoever signs up alone, is in attendance when the request
\* has been answered, if the event and the one that it links to stay and nobody asks to delete the record: whatever
\* else is signed up, changed and deleted meanwhile, and whether or not the mails go out,
\* as long as the calls of the list itself are made.
THEOREM AllSignedUp ==
    ASSUME CallsMade
    PROVE  Spec => []EveryoneSignedUp
<1>1. Init => SignedInv
  <2>. SUFFICES ASSUME Init PROVE SignedInv
    OBVIOUS
  <2>1. \A r \in Requests : pc[r] = "idle" /\ round[r] = 1 /\ turn[r] = 1 /\ view[r].docs = {}
    BY DEF Init, NoView
  <2>2. Once /\ Known
    BY <2>1 DEF Init, Once, Known
  <2>3. \A r \in Requests : Ways(r) /\ Signed(r)
    BY <2>1 DEF Ways, Signed
  <2>. QED
    BY <2>2, <2>3, InitIInv DEF SignedInv
<1>2. SignedInv => EveryoneSignedUp
  <2>. SUFFICES ASSUME SignedInv, NEW r \in Requests, pc[r] = "done", op[r].name \in SignUps,
                       \A k \in view[r].docs : ref[k] # NoRef, NEW m \in About(op[r])
                PROVE  \/ RecordsOf(view[r].home, m) # {}
                       \/ \E s \in Requests : pc[s] # "idle" /\ op[s].name = "delete" /\ m \in About(op[s])
    BY DEF EveryoneSignedUp
  <2>1. PICK i \in 1..Len(op[r].members) : m = op[r].members[i]
    BY DEF About
  <2>2. Stays(r) /\ i \in Behind(r)
    BY DEF Stays, Behind
  <2>3. Served(view[r].home, m)
    BY <2>1, <2>2 DEF SignedInv, Signed
  <2>. QED
    BY <2>3 DEF Served, DeletionAsked
<1>. QED
  BY <1>1, <1>2, NextSigned, PTL DEF Spec

-----------------------------------------------------------------------------
(* Changes stay.  A change writes back the note that it has read, so that it *)
(* matters that the record has not been changed since; and that records are  *)
(* not confused, neither two of them nor one that is gone and one that has   *)
(* come in its place.                                                        *)

\* Changes of the record of a member do not overlap.
ChangesApart == \E g \in Serial : "modify" \in g

OneChange ==
    \A r, s \in Requests :
        /\ Active(r) /\ op[r].name = "modify"
        /\ Active(s) /\ op[s].name = "modify"
        /\ About(op[r]) \intersect About(op[s]) # {}
        => r = s

\* The record for that request and position has been added, or never will be.
Spent(b) ==
    /\ pc[b[1]] # "idle"
    /\ \/ b[2] < turn[b[1]]
       \/ b[2] = turn[b[1]] /\ pc[b[1]] \in {"mail", "list"} \union Ended

\* Each record was added once, by a request that is past it.
Added ==
    /\ \A a \in recs : Spent(a.by)
    /\ \A a, b \in recs : a.by = b.by => a = b

\* What a request has found is of its member, and is there as it was, apart from the note
\* and the shift, or gone for good.
Traced(r) ==
    /\ found[r] \in Records /\ Spent(found[r].by)
    /\ op[r].name \notin SignUps /\ found[r].member \in About(op[r])
    /\ \A a \in recs : a.by = found[r].by => a.ref = found[r].ref /\ a.member = found[r].member

Lasting == {"check", "patch", "remove"} \union Ended
Finding(r) ==
    /\ pc[r] = "find" => op[r].name \notin SignUps
    /\ pc[r] = "patch" => op[r].name = "modify"
    /\ pc[r] = "remove" => op[r].name \notin SignUps \union {"modify"}
    /\ pc[r] \notin Lasting => found[r] = NoRef
    /\ pc[r] \in {"check", "patch"} \/ found[r] # NoRef => Traced(r)

\* An answered change of a note that nobody else has asked to change.
Noted(r) ==
    /\ pc[r] = "done" /\ op[r].name = "modify" /\ op[r].note # Undef
    /\ found[r] # NoRef
    /\ ~\E s \in Requests \ {r} :
          /\ pc[s] # "idle" /\ op[s].name = "modify" /\ op[s].note # Undef
          /\ About(op[s]) = About(op[r])
Keeping(r) == \A a \in recs : a.by = found[r].by => a.note = op[r].note

\* Who changes the record of another change has read it since.
Rereads(r, s) ==
    /\ pc[s] \in {"check", "patch"} /\ op[s].name = "modify"
    /\ found[s].ref = found[r].ref /\ found[s].member = found[r].member
    => \A a \in recs : a.by = found[r].by => found[s].note = op[r].note

KeepInv ==
    /\ RecInv /\ OneChange /\ Added
    /\ \A r \in Requests : Finding(r) /\ (Noted(r) => Keeping(r))
    /\ \A r, s \in Requests : r # s /\ Noted(r) => Rereads(r, s)

\* A change is of one member.
LEMMA OneMember ==
    ASSUME TypeOK, NEW r \in Requests, pc[r] # "idle", op[r].name = "modify",
           NEW m \in About(op[r])
    PROVE  About(op[r]) = {m}
<1>1. op[r] \in Menu
  BY DEF TypeOK
<1>2. Len(op[r].members) = 1
  BY <1>1, MenuOK DEF SignUps
<1>. QED
  BY <1>2 DEF About

\* Requests go on.
LEMMA Onward ==
    ASSUME IInv, NEW s \in Requests, [Next]_vars, pc[s] # "idle"
    PROVE  /\ pc'[s] # "idle" /\ op'[s] = op[s] /\ turn'[s] >= turn[s]
           /\ pc[s] \in Ended => pc'[s] = pc[s] /\ turn'[s] = turn[s]
           /\ pc[s] \in {"mail", "list"} /\ turn'[s] = turn[s] => pc'[s] \in {"mail", "list"} \union Ended
<1>. DEFINE Goal == /\ pc'[s] # "idle" /\ op'[s] = op[s] /\ turn'[s] >= turn[s]
                    /\ pc[s] \in Ended => pc'[s] = pc[s] /\ turn'[s] = turn[s]
                    /\ pc[s] \in {"mail", "list"} /\ turn'[s] = turn[s] => pc'[s] \in {"mail", "list"} \union Ended
<1>0. turn[s] \in Nat /\ pc \in [Requests -> Labels] /\ turn \in [Requests -> Nat \ {0}]
  BY DEF IInv, TypeOK
<1>1. CASE UNCHANGED vars \/ World
  <2>1. UNCHANGED <<pc, op, turn>>
    BY <1>1 DEF vars, World, CreateEvent, DeleteEvent, SaveEvent
  <2>. QED
    BY <1>0, <2>1
<1>2. ASSUME NEW r \in Requests, Step(r) \/ Fail(r) PROVE Goal
  <2>1. /\ op' = op /\ pc[r] \notin Ended /\ (s # r => pc'[s] = pc[s] /\ turn'[s] = turn[s])
    BY <1>2, StepOfOne DEF IInv
  <2>2. pc'[r] # "idle"
    BY <1>0, <1>2 DEF Step, Read, Resolve, Attend, Insert, Mail, List, Find, Check, Patch,
                Remove, Fail, GiveUp, NotFound, NextMember, Goto, WithEvent
  <2>3. turn'[r] = turn[r] \/ turn'[r] = turn[r] + 1
    BY <1>0, <1>2 DEF Step, Read, Resolve, Attend, Insert, Mail, List, Find, Check, Patch,
                Remove, Fail, GiveUp, NotFound, NextMember, locals
  <2>4. ASSUME pc[r] \in {"mail", "list"}, turn'[r] = turn[r]
        PROVE  pc'[r] \in {"mail", "list"} \union Ended
    <3>1. Mail(r) \/ List(r) \/ GiveUp(r)
      BY <1>2, <2>4 DEF Step, Read, Resolve, Attend, Insert, Find, Check, Patch, Remove, Fail
    <3>. QED
      BY <1>0, <2>4, <3>1 DEF Mail, List, GiveUp, NotFound, NextMember, Goto, Ended
  <2>. QED
    BY <1>0, <2>1, <2>2, <2>3, <2>4
<1>3. ASSUME NEW r \in Requests, Arrive(r) PROVE Goal
  BY <1>0, <1>3 DEF Arrive, Goto, IInv, TypeOK
<1>4. ASSUME NEW r \in Requests, Crash(r) PROVE Goal
  BY <1>0, <1>4 DEF Crash, locals, Ended, Active, Streamed
<1>. QED
  BY <1>1, <1>2, <1>3, <1>4 DEF Next, Rest

\* What has been added is not added again.
LEMMA SpentStays ==
    ASSUME IInv, [Next]_vars, NEW b \in Requests \X Nat, Spent(b)
    PROVE  Spent(b)'
<1>1. b[1] \in Requests /\ b[2] \in Nat /\ pc[b[1]] # "idle"
  BY DEF Spent
<1>2. turn[b[1]] \in Nat /\ turn'[b[1]] \in Nat
  BY <1>1, NextIInv DEF IInv, TypeOK
<1>. QED
  BY <1>1, <1>2, Onward DEF Spent

\* Records are changed in their notes and shifts; an insertion adds one that nobody has found.
LEMMA WhatComes ==
    ASSUME IInv, [Next]_vars
    PROVE  \/ recs' \subseteq recs
           \/ \E r \in Requests : Patch(r)
           \/ \E r \in Requests : \E new \in Records :
                 /\ Insert(r) /\ recs' = recs \union {new}
                 /\ new.by = <<r, turn[r]>> /\ ~Spent(new.by) /\ Spent(new.by)'
<1>1. ASSUME NEW r \in Requests, Insert(r)
      PROVE  \E new \in Records :
                /\ recs' = recs \union {new}
                /\ new.by = <<r, turn[r]>> /\ ~Spent(new.by) /\ Spent(new.by)'
  <2>1. PICK new \in Records : recs' = recs \union {new} /\ new.by = <<r, turn[r]>>
    <3>. DEFINE added == [by |-> <<r, turn[r]>>, ref |-> view[r].home, member |-> Member(r),
                          note |-> op[r].note, shift |-> ShiftTime(view[r].hours, op[r].shift)]
    <3>1. recs' = recs \union {added} /\ added.by = <<r, turn[r]>>
      BY <1>1 DEF Insert
    <3>2. IInv'
      BY NextIInv
    <3>3. added \in Records
      BY <3>1, <3>2 DEF IInv, TypeOK
    <3>. HIDE DEF added
    <3>. QED
      BY <3>1, <3>3
  <2>2. pc[r] = "insert" /\ pc'[r] = "mail" /\ turn' = turn /\ turn[r] \in Nat
    BY <1>1 DEF Insert, Goto, IInv, TypeOK
  <2>3. ~Spent(new.by) /\ Spent(new.by)'
    BY <2>1, <2>2 DEF Spent, Ended
  <2>. QED
    BY <2>1, <2>3
<1>2. CASE \A r \in Requests : ~Insert(r) /\ ~Patch(r)
  BY <1>2 DEF Next, Rest, World, CreateEvent, DeleteEvent, SaveEvent, Arrive, Step, Read, Resolve,
              Attend, Mail, List, Find, Check, Remove, Fail, Crash, vars
<1>. QED
  BY <1>1, <1>2

\* A record that has been added before is there as it was, or with another note and shift.
LEMMA WasThere ==
    ASSUME IInv, [Next]_vars, NEW a \in recs', Spent(a.by)
    PROVE  \E b \in recs : b.by = a.by /\ b.ref = a.ref /\ b.member = a.member
BY WhatComes, PatchEffect

\* Each record is still added once.
LEMMA NextAdded ==
    ASSUME IInv, Added, [Next]_vars
    PROVE  Added'
<1>0. \A a \in recs : a.by \in Requests \X Nat
  BY DEF IInv, TypeOK, Records
<1>1. CASE recs' \subseteq recs
  BY <1>0, <1>1, SpentStays DEF Added
<1>2. ASSUME NEW r \in Requests, Patch(r) PROVE Added'
  <2>1. ASSUME NEW a \in recs' PROVE Spent(a.by)'
    <3>1. PICK b \in recs : a.by = b.by
      BY <1>2, PatchEffect
    <3>. QED
      BY <1>0, <3>1, SpentStays DEF Added
  <2>2. ASSUME NEW a \in recs', NEW b \in recs', a.by = b.by PROVE a = b
    <3>1. PICK c \in recs : /\ a.by = c.by
                            /\ a = IF c.ref = found[r].ref /\ c.member = found[r].member
                                   THEN Changed(r, c) ELSE c
      BY <1>2, PatchEffect
    <3>2. PICK d \in recs : /\ b.by = d.by
                            /\ b = IF d.ref = found[r].ref /\ d.member = found[r].member
                                   THEN Changed(r, d) ELSE d
      BY <1>2, PatchEffect
    <3>3. c = d
      BY <2>2, <3>1, <3>2 DEF Added
    <3>. QED
      BY <3>1, <3>2, <3>3
  <2>. QED
    BY <2>1, <2>2 DEF Added
<1>3. ASSUME NEW r \in Requests, NEW new \in Records, recs' = recs \union {new},
             ~Spent(new.by), Spent(new.by)'
      PROVE  Added'
  BY <1>0, <1>3, SpentStays DEF Added
<1>. QED
  BY <1>1, <1>2, <1>3, WhatComes

\* What one has found is traced on, whatever the others do.
LEMMA TracedStays ==
    ASSUME IInv, [Next]_vars, NEW r \in Requests, pc[r] # "idle", Traced(r), found'[r] = found[r]
    PROVE  Traced(r)'
<1>1. found[r].by \in Requests \X Nat /\ Spent(found[r].by)'
  BY SpentStays DEF Traced, Records
<1>2. op'[r] = op[r]
  BY Onward
<1>3. ASSUME NEW a \in recs', a.by = found[r].by
      PROVE  a.ref = found[r].ref /\ a.member = found[r].member
  <2>1. PICK b \in recs : b.by = a.by /\ b.ref = a.ref /\ b.member = a.member
    BY <1>3, WasThere DEF Traced
  <2>. QED
    BY <1>3, <2>1 DEF Traced
<1>. QED
  BY <1>1, <1>2, <1>3 DEF Traced

\* Requests whose finding nobody has touched.
LEMMA FindingStays ==
    ASSUME IInv, Added, [Next]_vars, NEW s \in Requests, Finding(s), found'[s] = found[s],
           pc'[s] = pc[s] \/ (pc'[s] \in Ended /\ pc[s] # "idle")
    PROVE  Finding(s)'
<1>1. CASE pc[s] = "idle"
  BY <1>1 DEF Finding, Lasting, Ended
<1>2. CASE pc[s] # "idle"
  <2>1. op'[s] = op[s] /\ (Traced(s) => Traced(s)')
    BY <1>2, Onward, TracedStays
  <2>2. pc'[s] \notin Lasting => pc[s] \notin Lasting
    BY DEF Lasting
  <2>3. pc'[s] \in {"check", "patch"} => pc[s] = pc'[s]
    BY DEF Ended
  <2>4. pc'[s] \in {"find", "patch", "remove"} => pc[s] = pc'[s]
    BY DEF Ended
  <2>. QED
    BY <2>1, <2>2, <2>3, <2>4 DEF Finding
<1>. QED
  BY <1>1, <1>2

\* The request that takes the step finds a record of its member, and lets go of none.
LEMMA StepFinding ==
    ASSUME IInv, Added, NEW r \in Requests, Finding(r), Step(r) \/ Fail(r)
    PROVE  Finding(r)'
<1>1. /\ [Next]_vars /\ pc \in [Requests -> Labels] /\ op' = op /\ pc[r] # "idle"
      /\ found \in [Requests -> Records \union {NoRef}]
  BY StepOfOne DEF Next, IInv, TypeOK
<1>2. CASE Find(r) /\ pc'[r] = "check"
  <2>1. PICK a \in RecordsOf(view[r].ref, Member(r)) : found' = [found EXCEPT ![r] = a]
    BY <1>1, <1>2 DEF Find, Goto
  <2>2. /\ pc[r] = "find" /\ pc'[r] = "check" /\ found'[r] = a /\ recs' = recs
        /\ a \in recs /\ a \in Records /\ a.member = Member(r)
    BY <1>1, <1>2, <2>1 DEF Find, Goto, RecordsOf, IInv, TypeOK
  <2>3. Spent(a.by)' /\ a.member \in About(op[r]) /\ op[r].name \notin SignUps
    <3>1. a.by \in Requests \X Nat /\ Spent(a.by)
      BY <2>2 DEF Records, Added
    <3>. QED
      BY <1>1, <2>2, <3>1, SpentStays, InHand DEF IInv, Finding
  <2>4. Traced(r)'
    <3>1. \A b \in recs : b.by = a.by => b.ref = a.ref /\ b.member = a.member
      BY <2>2 DEF Added
    <3>. QED
      BY <1>1, <2>2, <2>3, <3>1 DEF Traced
  <2>. QED
    BY <2>2, <2>4 DEF Finding, Lasting, Ended
<1>3. CASE ~(Find(r) /\ pc'[r] = "check")
  <2>0. UNCHANGED found
    BY <1>1, <1>3 DEF Step, Read, Resolve, Attend, Insert, Mail, List, Find, Check, Patch, Remove,
         Fail, GiveUp, NotFound, NextMember, locals, Goto
  <2>1. Traced(r) => Traced(r)'
    BY <1>1, <2>0, TracedStays
  <2>2. CASE Find(r) \/ Check(r) \/ Patch(r) \/ Remove(r)
    <3>1. /\ pc[r] \in {"find", "check", "patch", "remove"}
          /\ pc[r] = "find" => pc'[r] \in Ended \union {"check"}
          /\ pc[r] = "check" => pc'[r] \in Ended \/ (pc'[r] = "patch" /\ op[r].name = "modify")
                                                   \/ (pc'[r] = "remove" /\ op[r].name # "modify")
          /\ pc[r] \in {"patch", "remove"} => pc'[r] \in Ended
      BY <1>1, <2>2 DEF Find, Check, Patch, Remove, NotFound, Goto, Ended
    <3>2. pc'[r] # "check"
      BY <1>1, <1>3, <2>2 DEF Check, Patch, Remove, NotFound, Goto
    <3>3. pc[r] = "check" => op[r].name \notin SignUps
      BY DEF Finding, Traced
    <3>. QED
      BY <1>1, <2>0, <2>1, <3>1, <3>2, <3>3 DEF Finding, Lasting, Ended
  <2>3. CASE Read(r) \/ Resolve(r) \/ Attend(r) \/ Insert(r) \/ Mail(r) \/ List(r) \/ Fail(r)
    <3>1. /\ pc'[r] = "find" => op[r].name \notin SignUps
          /\ pc'[r] \notin {"check", "patch", "remove"}
          /\ pc'[r] # "failed" => pc[r] \notin Lasting
      <4>1. CASE Fail(r)
        <5>1. pc[r] \in {"find", "check", "patch", "remove"} => op[r].name \notin SignUps
          BY DEF Finding, Traced
        <5>. QED
          BY <1>1, <4>1, <5>1 DEF Fail, GiveUp, NotFound, NextMember, Goto, Lasting, Ended, Main, Streamed, SignUps
      <4>2. CASE ~Fail(r)
        BY <1>1, <2>3, <4>2 DEF Read, Resolve, Attend, Insert, Mail, List, Fail, GiveUp, NotFound, NextMember,
                        Goto, WithEvent, Lasting, Ended, IInv, Control, SignUps
      <4>. QED
        BY <4>1, <4>2
    <3>. QED
      BY <1>1, <2>0, <2>1, <3>1 DEF Finding, Lasting, Ended
  <2>. QED
    BY <2>2, <2>3, <1>1 DEF Step, Fail
<1>. QED
  BY <1>2, <1>3

\* What requests find stays traced.
LEMMA NextFinding ==
    ASSUME IInv, Added, [Next]_vars, \A r \in Requests : Finding(r), NEW s \in Requests
    PROVE  Finding(s)'
<1>1. CASE UNCHANGED vars \/ World
  <2>1. UNCHANGED <<pc, found>>
    BY <1>1 DEF vars, World, CreateEvent, DeleteEvent, SaveEvent
  <2>. QED
    BY <2>1, FindingStays
<1>2. ASSUME NEW r \in Requests, Step(r) \/ Fail(r) PROVE Finding(s)'
  <2>1. CASE r = s
    BY <1>2, <2>1, StepFinding
  <2>2. CASE r # s
    <3>1. pc'[s] = pc[s]
      BY <1>2, <2>2, StepOfOne DEF IInv
    <3>2. found'[s] = found[s]
      BY <1>2, <2>2 DEF IInv, TypeOK, Step, Read, Resolve, Attend, Insert, Mail, List, Find,
           Check, Patch, Remove, Fail, GiveUp, NotFound, locals
    <3>. QED
      BY <3>1, <3>2, FindingStays
  <2>. QED
    BY <2>1, <2>2
<1>3. ASSUME NEW r \in Requests, Arrive(r) PROVE Finding(s)'
  <2>1. found' = found
    BY <1>3 DEF Arrive
  <2>2. CASE r = s
    <3>1. pc[r] = "idle" /\ pc'[r] = "read"
      BY <1>3 DEF Arrive, Goto, IInv, TypeOK
    <3>. QED
      BY <2>1, <2>2, <3>1 DEF Finding, Lasting, Ended
  <2>3. CASE r # s
    <3>1. pc'[s] = pc[s]
      BY <1>3, <2>3 DEF Arrive, Goto, IInv, TypeOK
    <3>. QED
      BY <2>1, <3>1, FindingStays
  <2>. QED
    BY <2>2, <2>3
<1>4. ASSUME NEW r \in Requests, Crash(r) PROVE Finding(s)'
  <2>1. found' = found /\ (pc'[s] = pc[s] \/ (pc'[s] = "lost" /\ pc[s] # "idle"))
    BY <1>4 DEF Crash, locals, Active, Streamed
  <2>. QED
    BY <2>1, FindingStays DEF Ended
<1>. QED
  BY <1>1, <1>2, <1>3, <1>4 DEF Next, Rest

\* A change comes in only if none is active for its member.
LEMMA NextOneChange ==
    ASSUME ChangesApart, IInv, OneChange, [Next]_vars
    PROVE  OneChange'
<1>1. PICK g \in Serial : "modify" \in g
  BY DEF ChangesApart
<1>2. SUFFICES ASSUME NEW r \in Requests, NEW s \in Requests, r # s,
                      Active(r)', op'[r].name = "modify", Active(s)', op'[s].name = "modify",
                      About(op'[r]) \intersect About(op'[s]) # {}
               PROVE  FALSE
  BY DEF OneChange
<1>3. ASSUME NEW q \in Requests, pc[q] # "idle", Active(q)'
      PROVE  Active(q) /\ op'[q] = op[q]
  BY <1>3, Onward DEF Active
<1>4. ~(pc[r] # "idle" /\ pc[s] # "idle")
  BY <1>2, <1>3 DEF OneChange
<1>5. ASSUME NEW p \in Requests, NEW q \in Requests, p # q, pc[p] = "idle",
             Active(p)', op'[p].name = "modify", Active(q)', op'[q].name = "modify",
             About(op'[p]) \intersect About(op'[q]) # {}
      PROVE  FALSE
  <2>1. Arrive(p)
    <3>1. pc'[p] # pc[p]
      BY <1>5 DEF Active
    <3>2. PICK t \in Requests : Arrive(t) \/ Step(t) \/ Fail(t) \/ Crash(t)
      BY <3>1 DEF Next, Rest, vars, World, CreateEvent, DeleteEvent, SaveEvent
    <3>3. ~Crash(t)
      BY <1>5, <3>1 DEF Crash, Active, Ended, Streamed, IInv, TypeOK
    <3>4. ~(Step(t) \/ Fail(t))
      BY <1>5, <3>1, StepOfOne DEF IInv
    <3>. QED
      BY <1>5, <3>1, <3>2, <3>3, <3>4 DEF Arrive, Goto, IInv, TypeOK
  <2>2. PICK o \in Menu :
           /\ o.name \in g => \A t \in Requests : Active(t) /\ op[t].name \in g
                                          => About(op[t]) \intersect About(o) = {}
           /\ op' = [op EXCEPT ![p] = o]
    BY <1>1, <2>1 DEF Arrive
  <2>3. op'[p] = o /\ op'[q] = op[q] /\ pc'[q] = pc[q]
    BY <1>5, <2>1, <2>2 DEF Arrive, Goto, IInv, TypeOK
  <2>4. Active(q) /\ op[q].name \in g /\ o.name \in g
    BY <1>1, <1>5, <2>3 DEF Active
  <2>. QED
    BY <1>5, <2>2, <2>3, <2>4
<1>. QED
  BY <1>2, <1>4, <1>5

\* Who has been noted was so before, or has just made the change.
LEMMA NotedBefore ==
    ASSUME KeepInv, [Next]_vars, NEW r \in Requests, Noted(r)'
    PROVE  /\ op'[r] = op[r] /\ found'[r] = found[r] /\ found[r] # NoRef /\ pc[r] # "idle"
           /\ Noted(r) \/ Patch(r)
<1>0. IInv /\ Finding(r) /\ pc \in [Requests -> Labels] /\ op \in [Requests -> {Undef} \union Ops]
  BY DEF KeepInv, RecInv, IInv, TypeOK
<1>1. pc'[r] = "done"
  BY DEF Noted
<1>2. pc[r] # "idle"
  <2>1. CASE UNCHANGED vars \/ World
    BY <1>1, <2>1 DEF vars, World, CreateEvent, DeleteEvent, SaveEvent
  <2>2. ASSUME NEW q \in Requests, Step(q) \/ Fail(q) PROVE pc[r] # "idle"
    BY <1>0, <1>1, <2>2, StepOfOne DEF IInv
  <2>3. ASSUME NEW q \in Requests, Arrive(q) PROVE pc[r] # "idle"
    BY <1>0, <1>1, <2>3 DEF Arrive, Goto
  <2>4. ASSUME NEW q \in Requests, Crash(q) PROVE pc[r] # "idle"
    BY <1>0, <1>1, <2>4 DEF Crash
  <2>. QED
    BY <2>1, <2>2, <2>3, <2>4 DEF Next, Rest
<1>3. op'[r] = op[r]
  BY <1>0, <1>2, Onward
<1>4. ASSUME NEW s \in Requests \ {r}, pc[s] # "idle", op[s].name = "modify", op[s].note # Undef,
             About(op[s]) = About(op[r])
      PROVE  FALSE
  <2>1. pc'[s] # "idle" /\ op'[s] = op[s]
    BY <1>0, <1>4, Onward
  <2>. QED
    BY <1>3, <1>4, <2>1 DEF Noted
<1>5. CASE pc[r] = "done"
  <2>1. found'[r] = found[r]
    BY ZenonT(60), <1>0, <1>5 DEF Next, Rest, vars, World, CreateEvent, DeleteEvent, SaveEvent, Arrive, Step, Read, Resolve,
          Attend, Insert, Mail, List, Find, Check, Patch, Remove, Fail, Crash, GiveUp, NotFound, locals,
          IInv, TypeOK
  <2>. QED
    BY <1>2, <1>3, <1>4, <1>5, <2>1 DEF Noted
<1>6. CASE pc[r] # "done"
  <2>1. PICK q \in Requests : Step(q) \/ Fail(q) \/ Crash(q) \/ Arrive(q)
    BY <1>1, <1>6 DEF Next, Rest, vars, World, CreateEvent, DeleteEvent, SaveEvent
  <2>2. Step(r) \/ Fail(r)
    <3>1. ~Crash(q) /\ ~Arrive(q)
      BY <1>0, <1>1, <1>6 DEF Crash, Arrive, Goto
    <3>2. q = r
      BY <1>0, <1>1, <1>6, <2>1, <3>1, StepOfOne DEF IInv
    <3>. QED
      BY <2>1, <3>1, <3>2
  <2>3. CASE Patch(r)
    BY <1>2, <1>3, <2>3 DEF Patch, Noted
  <2>4. CASE ~Patch(r)
    <3>1. pc[r] \notin Lasting \/ pc[r] = "remove"
      BY <1>0, <1>1, <2>2, <2>4 DEF Step, Read, Resolve, Attend, Insert, Mail, List, Find, Check, Remove,
           Fail, GiveUp, NotFound, NextMember, Goto, Lasting, Ended
    <3>2. pc[r] # "remove"
      BY <1>0, <1>3 DEF Finding, Noted
    <3>3. found[r] = NoRef
      BY <1>0, <3>1, <3>2 DEF Finding
    <3>4. found'[r] = found[r]
      BY <1>0, <1>1, <2>2 DEF Step, Read, Resolve, Attend, Insert, Mail, List, Find, Check, Patch, Remove,
           Fail, GiveUp, NotFound, NextMember, Goto, locals
    <3>. QED
      BY <3>3, <3>4 DEF Noted
  <2>. QED
    BY <2>3, <2>4
<1>. QED
  BY <1>5, <1>6

\* An answered change is as it was asked for: a patch that follows it has read it.
LEMMA KeepingStays ==
    ASSUME KeepInv, [Next]_vars, NEW r \in Requests, Noted(r)'
    PROVE  Keeping(r)'
<1>0. /\ IInv /\ Finding(r) /\ op'[r] = op[r] /\ found'[r] = found[r] /\ found[r] # NoRef
      /\ pc[r] # "idle" /\ (Noted(r) \/ Patch(r)) /\ Traced(r) /\ Noted(r)'
  BY NotedBefore DEF KeepInv, RecInv, Finding
<1>1. SUFFICES ASSUME NEW a \in recs', a.by = found[r].by PROVE a.note = op[r].note
  BY <1>0 DEF Keeping
<1>2. op[r].name = "modify" /\ op[r].note # Undef
  BY <1>0 DEF Noted
<1>3. CASE Patch(r)
  <2>1. PICK c \in recs : /\ a.by = c.by
                          /\ a = IF c.ref = found[r].ref /\ c.member = found[r].member
                                 THEN Changed(r, c) ELSE c
    BY <1>0, <1>3, PatchEffect
  <2>2. a = Changed(r, c) /\ c \in Records
    BY <1>0, <1>1, <2>1 DEF Traced, IInv, TypeOK
  <2>. QED
    BY <1>2, <2>2 DEF Changed, Or, Records
<1>4. CASE Noted(r) /\ ~Patch(r)
  <2>1. Keeping(r)
    BY <1>4 DEF KeepInv
  <2>2. CASE a \in recs
    BY <1>1, <2>1, <2>2 DEF Keeping
  <2>3. ASSUME NEW q \in Requests, Patch(q) PROVE a.note = op[r].note
    <3>1. PICK c \in recs : /\ a.by = c.by
                            /\ a = IF c.ref = found[q].ref /\ c.member = found[q].member
                                   THEN Changed(q, c) ELSE c
      BY <1>0, <2>3, PatchEffect
    <3>2. c.note = op[r].note
      BY <1>1, <2>1, <3>1 DEF Keeping
    <3>3. CASE ~(c.ref = found[q].ref /\ c.member = found[q].member)
      BY <3>1, <3>2, <3>3
    <3>4. CASE c.ref = found[q].ref /\ c.member = found[q].member
      <4>1. /\ pc[q] = "patch" /\ q # r /\ op[q].name = "modify" /\ Traced(q)
        BY <1>4, <2>3 DEF Patch, KeepInv, Finding
      <4>2. found[q].ref = found[r].ref /\ found[q].member = found[r].member
        BY <1>0, <1>1, <3>1, <3>4 DEF Traced
      <4>3. found[q].note = op[r].note
        <5>1. Rereads(r, q)
          BY <1>4, <4>1 DEF KeepInv
        <5>. QED
          BY <1>1, <3>1, <4>1, <4>2, <5>1 DEF Rereads
      <4>4. op[q].note = Undef
        <5>1. About(op[q]) = {found[q].member} /\ About(op[r]) = {found[r].member}
          BY <1>0, <1>2, <4>1, OneMember DEF Traced, IInv
        <5>. QED
          BY <1>4, <4>1, <4>2, <5>1 DEF Noted
      <4>5. a.note = Or(op[q].note, found[q].note)
        BY <1>0, <3>1, <3>4 DEF Changed, IInv, TypeOK, Records
      <4>. QED
        BY <4>3, <4>4, <4>5 DEF Or
    <3>. QED
      BY <3>3, <3>4
  <2>4. ASSUME NEW new \in Records, recs' = recs \union {new}, ~Spent(new.by)
        PROVE  a.note = op[r].note
    <3>1. a # new
      BY <1>0, <1>1, <2>4 DEF Traced
    <3>. QED
      BY <2>2, <2>4, <3>1
  <2>. QED
    BY <1>0, <2>2, <2>3, <2>4, WhatComes
<1>. QED
  BY <1>0, <1>3, <1>4

\* Who is about to change a record that has been changed has read it since.
LEMMA RereadsStay ==
    ASSUME ChangesApart, KeepInv, [Next]_vars, NEW r \in Requests, NEW s \in Requests, r # s,
           Noted(r)'
    PROVE  Rereads(r, s)'
<1>0. /\ IInv /\ op'[r] = op[r] /\ found'[r] = found[r] /\ found[r] # NoRef
      /\ pc[r] # "idle" /\ (Noted(r) \/ Patch(r)) /\ Traced(r) /\ Noted(r)'
  BY NotedBefore DEF KeepInv, RecInv, Finding
<1>1. SUFFICES ASSUME pc'[s] \in {"check", "patch"}, op'[s].name = "modify",
                      found'[s].ref = found[r].ref, found'[s].member = found[r].member,
                      NEW a \in recs', a.by = found[r].by
               PROVE  found'[s].note = op[r].note
  BY <1>0 DEF Rereads
<1>2. PICK b \in recs : b.by = a.by /\ b.ref = a.ref /\ b.member = a.member
  BY <1>0, <1>1, WasThere DEF Traced
<1>3. b.by = found[r].by /\ b.ref = found[r].ref /\ b.member = found[r].member
  BY <1>0, <1>1, <1>2 DEF Traced
<1>4. op[r].name = "modify"
  BY <1>0 DEF Noted
<1>5. ASSUME found'[s] # found[s] \/ pc[s] \notin {"check", "patch"}
      PROVE  found'[s].note = op[r].note
  <2>1. Find(s)
    <3>1. CASE pc[s] \notin {"check", "patch"}
      <4>1. PICK q \in Requests : Arrive(q) \/ Step(q) \/ Fail(q) \/ Crash(q)
        BY <1>1, <3>1 DEF Next, Rest, vars, World, CreateEvent, DeleteEvent, SaveEvent
      <4>2. ~Arrive(q) /\ ~Crash(q)
        BY <1>0, <1>1, <3>1 DEF Arrive, Crash, Goto, IInv, TypeOK
      <4>3. q = s
        BY <1>0, <1>1, <3>1, <4>1, <4>2, StepOfOne DEF IInv
      <4>4. CASE Step(s) /\ ~GiveUp(s)
        BY <1>0, <1>1, <3>1, <4>4 DEF IInv, TypeOK, Step, Read, Resolve, Attend, Insert, Mail, List, Find,
             Check, Patch, Remove, NextMember, NotFound, Goto, WithEvent
      <4>5. CASE GiveUp(s)
        BY <1>0, <1>1, <3>1, <4>5 DEF IInv, TypeOK, GiveUp, NextMember, NotFound, Goto
      <4>. QED
        BY <4>1, <4>2, <4>3, <4>4, <4>5 DEF Fail
    <3>2. CASE found'[s] # found[s]
      BY ZenonT(60), <1>0, <3>2 DEF IInv, TypeOK, Next, Rest, vars, World, CreateEvent, DeleteEvent, SaveEvent,
           Arrive, Step, Read, Resolve, Attend, Insert, Mail, List, Find, Check, Patch, Remove, Fail, Crash,
           GiveUp, NotFound, NextMember, locals
    <3>. QED
      BY <1>5, <3>1, <3>2
  <2>2. PICK c \in RecordsOf(view[s].ref, Member(s)) : found' = [found EXCEPT ![s] = c]
    BY <1>0, <1>1, <2>1 DEF Find, Goto, IInv, TypeOK
  <2>3. found'[s] = c /\ c \in recs
    BY <1>0, <2>2 DEF IInv, TypeOK, RecordsOf
  <2>4. c = b
    BY <1>1, <1>2, <1>3, <2>3 DEF KeepInv, RecInv, OneRecord
  <2>5. Noted(r)
    <3>1. ~Patch(r)
      BY <1>0, <2>1 DEF Patch, Find, Goto, IInv, TypeOK
    <3>. QED
      BY <1>0, <3>1
  <2>6. b.note = op[r].note
    BY <1>3, <2>5 DEF KeepInv, Keeping
  <2>. QED
    BY <2>3, <2>4, <2>6
<1>6. CASE found'[s] = found[s] /\ pc[s] \in {"check", "patch"}
  <2>1. op[s].name = "modify"
    BY <1>0, <1>1, <1>6, Onward
  <2>2. CASE Noted(r)
    <3>1. Rereads(r, s)
      BY <2>2 DEF KeepInv
    <3>. QED
      BY <1>1, <1>3, <1>6, <2>1, <3>1 DEF Rereads
  <2>3. CASE Patch(r)
    <3>1. Active(r) /\ Active(s)
      BY <1>6, <2>3 DEF Patch, Active, Ended
    <3>2. Traced(s) /\ found[s].member = found[r].member
      BY <1>1, <1>6 DEF KeepInv, Finding
    <3>3. found[r].member \in About(op[r]) \intersect About(op[s])
      BY <1>0, <3>2 DEF Traced
    <3>. QED
      BY <1>4, <2>1, <3>1, <3>3 DEF KeepInv, OneChange
  <2>. QED
    BY <1>0, <2>2, <2>3
<1>. QED
  BY <1>5, <1>6

\* An answered change of a note stays until another change of it is asked for, where
\* changes of the record of a member, and sign-ups of a member, do not overlap: what
\* applyAttendanceRecordUpdates writes back is the note as it is, not one that it has
\* read before, and not that of a record that has been deleted since.
THEOREM ChangesStay ==
    ASSUME SignUpsApart, ChangesApart
    PROVE  Spec => []ChangesKept
<1>1. Init => KeepInv
  <2>. SUFFICES ASSUME Init PROVE KeepInv
    OBVIOUS
  <2>1. RecInv
    BY InitIInv DEF Init, RecInv, OneRecord, OneSignUp, StillFree, Active
  <2>2. \A r \in Requests : pc[r] = "idle" /\ found[r] = NoRef
    BY DEF Init
  <2>3. recs = {}
    BY DEF Init
  <2>4. \A r \in Requests : ~Active(r) /\ Finding(r) /\ ~Noted(r)
    BY <2>2 DEF Active, Finding, Noted
  <2>. QED
    BY <2>1, <2>3, <2>4 DEF KeepInv, OneChange, Added
<1>2. KeepInv /\ [Next]_vars => KeepInv'
  <2>. SUFFICES ASSUME KeepInv, [Next]_vars PROVE KeepInv'
    OBVIOUS
  <2>1. RecInv'
    BY QuietRecInv, InsertRecInv, ArriveRecInv, RestRecInv DEF Next, Rest, Step, KeepInv
  <2>2. OneChange' /\ Added'
    BY NextOneChange, NextAdded DEF KeepInv, RecInv
  <2>3. \A r \in Requests : Finding(r)'
    BY NextFinding DEF KeepInv, RecInv
  <2>4. \A r \in Requests : Noted(r)' => Keeping(r)'
    BY KeepingStays
  <2>5. \A r, s \in Requests : r # s /\ Noted(r)' => Rereads(r, s)'
    BY RereadsStay
  <2>. QED
    BY <2>1, <2>2, <2>3, <2>4, <2>5 DEF KeepInv
<1>3. KeepInv => ChangesKept
  BY DEF KeepInv, ChangesKept, Noted, Keeping
<1>. QED
  BY <1>1, <1>2, <1>3, PTL DEF Spec
=============================================================================
