----------------------------- MODULE Attendance -----------------------------
(***************************************************************************)
(* The Attendance collection and the requests that sign members up for     *)
(* events, change their records and delete them (Attendance.ts of          *)
(* server-common, packages/server/src/api/events/attendance).              *)
(*                                                                         *)
(* An action is what one request does between two awaits that touch shared *)
(* state.  The collection has no unique key other than _id, and no call is *)
(* made inside a transaction.  Events come, change and go at any time, as  *)
(* EventRefs says; a record names its event by account and id, which may   *)
(* have been given to another event since.                                 *)
(***************************************************************************)
EXTENDS Integers, Sequences, FiniteSets

CONSTANTS
    Keys,      \* documents of the Events collection
    Links,     \* those of them that are links
    Target,    \* Links -> the reference of the event that a link names
    Refs,      \* pairs of an account and an id
    NoRef,     \* no document
    NoDetail,  \* of an event that has never been stored
    Events,    \* what an event may say: its hours and whether it is open
    Shifts,    \* the shift times that requests ask for
    Notes,     \* values of the other fields of a record
    Members,
    Requests,
    Menu,      \* the operations that requests may ask for
    Goings,    \* what else goes on: some of WorldOps
    Serial,    \* sets of operations of each of which one runs at a time for
               \* each member
    Failing,   \* the places where a call may fail
    Undef      \* a field that is not given

SignUps == {"add", "addBulk"}
OpNames == SignUps \union {"modify", "delete"}

\* hours: meetDateTime and pickupDateTime; open: may members sign up by
\* themselves (acceptSignups, the deadline and the team)?
Hours == {h \in Nat \X Nat : h[1] <= h[2]}
Details == [hours : Hours, open : BOOLEAN]

\* Creating, deleting and saving events, as far as attendance notices it.
WorldOps == {"create", "delete", "save"}

\* manager: does the sender have hasBasicAttendanceManagementPermission?
Ops == [name : OpNames, event : Refs, members : Seq(Members),
        manager : BOOLEAN, shift : {Undef} \union Shifts, note : {Undef} \union Notes]

\* by: the request and the position in its list that the record was added for,
\* which stands for its _id.
Records == [by : Requests \X Nat, ref : Refs, member : Members,
            note : {Undef} \union Notes, shift : Int \X Int]

\* An event as a request has read it: docs are the documents it was read from,
\* home is where its attendance is kept.
Views == [docs : SUBSET Keys, ref : Refs, home : Refs, linked : BOOLEAN,
          hours : Hours, open : BOOLEAN]

Ended == {"done", "failed", "lost"}
Main == {"read", "resolve", "attend", "insert", "mail", "find", "check", "patch",
         "remove"}
Streamed == {"attend", "list"}
Labels == {"idle", "list"} \union Main \union Ended

ASSUME SetsOK ==
    /\ Links \subseteq Keys
    /\ Target \in [Links -> Refs]
    /\ Events \subseteq Details
    /\ Goings \subseteq WorldOps
    /\ NoDetail \notin Details
    /\ Shifts \subseteq Int \X Int
    /\ Serial \subseteq SUBSET OpNames
    /\ Failing \subseteq Main \union Streamed
    /\ NoRef \notin Refs
ASSUME MenuOK ==
    /\ Menu \subseteq Ops
    /\ \A o \in Menu : /\ Len(o.members) >= 1
                       /\ o.name # "addBulk" => Len(o.members) = 1

VARIABLES
    ref,      \* the reference of each event, as in EventRefs
    detail,   \* what each event says
    recs,     \* the Attendance collection
    pc,       \* where each request is
    op,       \* what it asks for
    round,    \* the handler reads the event first, addMemberToAttendance then
    view,     \* the event as the request has it
    turn,     \* the position in the list of members
    found     \* the record that it has read

world == <<ref, detail>>
locals == <<op, round, view, turn, found>>
vars == <<ref, detail, recs, pc, op, round, view, turn, found>>

Catalogue == INSTANCE EventRefs

-----------------------------------------------------------------------------
(* Events, as far as attendance depends on them *)

\* The documents that getEvent finds.
At(x) == {k \in Keys : ref[k] = x}

\* An event is created, or a link to an event that is there.
CreateEvent(k) ==
    /\ "create" \in Goings
    /\ detail[k] = NoDetail
    /\ k \in Links => At(Target[k]) \ Links # {}
    /\ \E x \in Refs : Catalogue!Take(k, x)
    /\ \E d \in Events : detail' = [detail EXCEPT ![k] = d]
    /\ UNCHANGED <<recs, pc, op, round, view, turn, found>>

\* Deleting an event leaves its attendance alone.
DeleteEvent(k) ==
    /\ "delete" \in Goings
    /\ ref[k] # NoRef
    /\ Catalogue!Drop(ref[k])
    /\ UNCHANGED <<detail, recs, pc, op, round, view, turn, found>>

\* Saving it does, too.
SaveEvent(k) ==
    /\ "save" \in Goings
    /\ ref[k] # NoRef
    /\ \E d \in Events \ {detail[k]} : detail' = [detail EXCEPT ![k] = d]
    /\ UNCHANGED <<ref, recs, pc, op, round, view, turn, found>>

-----------------------------------------------------------------------------
(* Requests *)

About(o) == {o.members[i] : i \in 1..Len(o.members)}

Member(r) == op[r].members[turn[r]]

Active(r) == pc[r] \notin Ended \union {"idle"}

Goto(r, label) == pc' = [pc EXCEPT ![r] = label]

\* A request comes in.  Members do not send the operations of a set in Serial
\* twice at the same time; the code does nothing to prevent it.
Arrive(r) ==
    /\ pc[r] = "idle"
    /\ \E o \in Menu :
          /\ \A g \in Serial : o.name \in g =>
                \A s \in Requests : Active(s) /\ op[s].name \in g
                                    => About(op[s]) \intersect About(o) = {}
          /\ op' = [op EXCEPT ![r] = o]
    /\ Goto(r, "read")
    /\ UNCHANGED <<world, recs, round, view, turn, found>>

NotFound(r) == Goto(r, "failed") /\ UNCHANGED locals

\* Slip: one member too many.
NextMemberBeyond(r) ==
    IF turn[r] <= Len(op[r].members)
    THEN /\ Goto(r, IF view[r].linked THEN "resolve" ELSE "attend")
         /\ turn' = [turn EXCEPT ![r] = @ + 1]
    ELSE Goto(r, "list") /\ UNCHANGED turn

\* Slip: the same member again.
NextMemberAgain(r) ==
    IF turn[r] < Len(op[r].members)
    THEN Goto(r, IF view[r].linked THEN "resolve" ELSE "attend") /\ UNCHANGED turn
    ELSE Goto(r, "list") /\ UNCHANGED turn

\* Slip: the list ends with the first member who cannot be added.
NextMemberOrNone(r) ==
    IF pc[r] = "mail" /\ turn[r] < Len(op[r].members)
    THEN /\ Goto(r, IF view[r].linked THEN "resolve" ELSE "attend")
         /\ turn' = [turn EXCEPT ![r] = @ + 1]
    ELSE Goto(r, "list") /\ UNCHANGED turn

\* The next member of the list.  The event is not read again (getEvent is
\* memoized), its target and its attendance are.
NextMember(r) ==
    IF turn[r] < Len(op[r].members)
    THEN /\ Goto(r, IF view[r].linked THEN "resolve" ELSE "attend")
         /\ turn' = [turn EXCEPT ![r] = @ + 1]
    ELSE Goto(r, "list") /\ UNCHANGED turn

\* A call fails or finds nothing.  A request ends with an error, but the list of
\* addattendancebulk goes on: nobody looks at the outcome for one member.  When
\* the event itself cannot be read, it cannot for the members that follow.
GiveUp(r) ==
    IF op[r].name = "addBulk" /\ round[r] = 2
    THEN /\ IF pc[r] = "read" THEN Goto(r, "list") /\ UNCHANGED turn
                              ELSE NextMember(r)
         /\ UNCHANGED <<op, round, view, found>>
    ELSE NotFound(r)

Fail(r) ==
    /\ pc[r] \in (Main \ Streamed) \intersect Failing
    /\ GiveUp(r)
    /\ UNCHANGED <<world, recs>>

\* A rejected query of generateResults ends the process and its requests.
Crash(r) ==
    /\ pc[r] \in Streamed \intersect Failing
    /\ \E others \in SUBSET Requests :
          pc' = [s \in Requests |-> IF s = r \/ (s \in others /\ Active(s))
                                    THEN "lost" ELSE pc[s]]
    /\ UNCHANGED <<world, recs>>
    /\ UNCHANGED locals

\* Where a request goes with the event it has read and resolved.
WithEvent(r) == IF op[r].name \in SignUps THEN "attend" ELSE "find"

\* getEvent: exactly one document with that account and id.
Read(r) ==
    /\ pc[r] = "read"
    /\ \/ \E k \in Keys :
             /\ At(op[r].event) = {k}
             /\ view' = [view EXCEPT ![r] =
                   [docs |-> view[r].docs \union {k}, ref |-> ref[k], linked |-> k \in Links,
                    home |-> IF k \in Links THEN Target[k] ELSE ref[k],
                    hours |-> detail[k].hours, open |-> detail[k].open]]
             /\ Goto(r, IF k \in Links THEN "resolve" ELSE WithEvent(r))
             /\ UNCHANGED <<op, round, turn, found>>
       \/ /\ ~\E k \in Keys : At(op[r].event) = {k}
          /\ GiveUp(r)
    /\ UNCHANGED <<world, recs>>

\* ensureResolvedEvent: the rest of the event is that of the link's target.
Resolve(r) ==
    /\ pc[r] = "resolve"
    /\ \/ \E k \in Keys \ Links :
             /\ At(view[r].home) = {k}
             /\ view' = [view EXCEPT ![r].open = detail[k].open, ![r].docs = @ \union {k}]
             /\ Goto(r, WithEvent(r))
             /\ UNCHANGED <<op, round, turn, found>>
       \/ /\ ~\E k \in Keys \ Links : At(view[r].home) = {k}
          /\ GiveUp(r)
    /\ UNCHANGED <<world, recs>>

-----------------------------------------------------------------------------
(* Signing up: addattendance, addattendancebulk, addMemberToAttendance *)

\* The records of an event under the reference x and of member m.
RecordsOf(x, m) == {a \in recs : a.ref = x /\ a.member = m}

\* Slip: only the members themselves are checked.
RefusedAlone(r) ==
    ~op[r].manager /\ (RecordsOf(view[r].home, Member(r)) # {} \/ ~view[r].open)

\* canSignUpForEvent and canSignSomeoneElseUpForEvent.
Refused(r) ==
    \/ RecordsOf(view[r].home, Member(r)) # {}
    \/ ~op[r].manager /\ ~view[r].open

\* What the handlers ask: addattendance checks as addMemberToAttendance does,
\* addattendancebulk is for managers.
Admitted(r) == IF op[r].name = "add" THEN ~Refused(r) ELSE op[r].manager

\* getAttendanceForEvent.  The handlers read it and call addMemberToAttendance,
\* which reads everything again.
Attend(r) ==
    /\ pc[r] = "attend"
    /\ \/ /\ round[r] = 1 /\ Admitted(r)
          /\ round' = [round EXCEPT ![r] = 2]
          /\ Goto(r, "read")
          /\ UNCHANGED <<op, view, turn, found>>
       \/ /\ round[r] = 2 /\ ~Refused(r)
          /\ Goto(r, "insert")
          /\ UNCHANGED locals
       \/ /\ IF round[r] = 1 THEN ~Admitted(r) ELSE Refused(r)
          /\ GiveUp(r)
    /\ UNCHANGED <<world, recs>>

Least(a, b) == IF a < b THEN a ELSE b
Greatest(a, b) == IF a < b THEN b ELSE a

\* The shift that is stored for the one that is asked for.
ShiftTime(hours, shift) ==
    IF shift = Undef THEN hours
    ELSE <<Greatest(hours[1], Least(hours[2], shift[1])),
           Least(hours[1], Greatest(hours[2], shift[2]))>>

\* addToCollection.
Insert(r) ==
    /\ pc[r] = "insert"
    /\ recs' = recs \union
          {[by |-> <<r, turn[r]>>, ref |-> view[r].home, member |-> Member(r),
            note |-> op[r].note, shift |-> ShiftTime(view[r].hours, op[r].shift)]}
    /\ Goto(r, "mail")
    /\ UNCHANGED <<world, op, round, view, turn, found>>

\* sendEmailToMember.  When it fails, addattendance answers with an error
\* although the member has been signed up.
Mail(r) ==
    /\ pc[r] = "mail"
    /\ IF op[r].name = "addBulk" THEN NextMember(r) ELSE Goto(r, "done") /\ UNCHANGED turn
    /\ UNCHANGED <<world, recs, op, round, view, found>>

\* addattendancebulk answers with the attendance of the event.
List(r) ==
    /\ pc[r] = "list"
    /\ Goto(r, "done")
    /\ UNCHANGED <<world, recs>>
    /\ UNCHANGED locals

-----------------------------------------------------------------------------
(* Changing and deleting: modifyattendance, deleteattendance *)

\* getMemberAttendanceRecordForEvent looks under the account and id of the event
\* or link that was asked for, also when the records are kept with the target.
Find(r) ==
    LET there == RecordsOf(view[r].ref, Member(r)) IN
    /\ pc[r] = "find"
    /\ \/ \E a \in there :
             /\ found' = [found EXCEPT ![r] = a]
             /\ Goto(r, "check")
       \/ /\ there = {}
          /\ Goto(r, IF op[r].name = "modify" THEN "done" ELSE "failed")
          /\ UNCHANGED found
    /\ UNCHANGED <<world, recs, op, round, view, turn>>

\* Can the event with reference x be read and resolved?
Readable(x) ==
    \E k \in Keys : /\ At(x) = {k}
                    /\ k \in Links => \E j \in Keys \ Links : At(Target[k]) = {j}

\* canMemberModifyRecord, the filter of applyAttendanceRecordUpdates and
\* canMemberDeleteRecord read the event again.  Only managers pass.
Check(r) ==
    /\ pc[r] = "check"
    /\ \/ /\ Readable(found[r].ref) /\ op[r].manager
          /\ Goto(r, IF op[r].name = "modify" THEN "patch" ELSE "remove")
          /\ UNCHANGED locals
       \/ /\ ~Readable(found[r].ref) \/ ~op[r].manager
          /\ NotFound(r)
    /\ UNCHANGED <<world, recs>>

Or(new, old) == IF new = Undef THEN old ELSE new

\* Slip: fields that the body leaves out are cleared.
ChangedOnly(r, a) ==
    [a EXCEPT !.note = op[r].note, !.shift = Or(op[r].shift, found[r].shift)]

\* What applyAttendanceRecordUpdates makes of record a: the record that the
\* request has read, with the fields of the body over it.
Changed(r, a) ==
    [a EXCEPT !.note = Or(op[r].note, found[r].note),
              !.shift = Or(op[r].shift, found[r].shift)]

\* The patch goes to every record of the member for the event.
Patched(r) ==
    {IF a.ref = found[r].ref /\ a.member = found[r].member
     THEN Changed(r, a) ELSE a : a \in recs}

Patch(r) ==
    /\ pc[r] = "patch"
    /\ recs' = Patched(r)
    /\ Goto(r, "done")
    /\ UNCHANGED <<world, op, round, view, turn, found>>

\* deleteAttendanceRecord.
Remove(r) ==
    /\ pc[r] = "remove"
    /\ recs' = recs \ RecordsOf(view[r].ref, Member(r))
    /\ Goto(r, "done")
    /\ UNCHANGED <<world, op, round, view, turn, found>>

-----------------------------------------------------------------------------
(* The specification *)

NoView == [docs |-> {}, ref |-> NoRef, home |-> NoRef, linked |-> FALSE, hours |-> <<0, 0>>,
           open |-> FALSE]

\* The Events collection is in any state that it may be in; nobody has signed up.
Init ==
    /\ ref \in [Keys -> Refs \union {NoRef}]
    /\ \A j, k \in Keys : ref[j] = ref[k] /\ ref[j] # NoRef => j = k
    /\ \A k \in Links : ref[k] # Target[k]
    /\ detail \in [Keys -> Events \union {NoDetail}]
    /\ \A k \in Keys : detail[k] = NoDetail <=> ref[k] = NoRef
    /\ recs = {}
    /\ pc = [r \in Requests |-> "idle"]
    /\ op = [r \in Requests |-> Undef]
    /\ round = [r \in Requests |-> 1]
    /\ view = [r \in Requests |-> NoView]
    /\ turn = [r \in Requests |-> 1]
    /\ found = [r \in Requests |-> NoRef]

Step(r) ==
    \/ Read(r) \/ Resolve(r) \/ Attend(r) \/ Insert(r) \/ Mail(r) \/ List(r)
    \/ Find(r) \/ Check(r) \/ Patch(r) \/ Remove(r)

World == \E k \in Keys : CreateEvent(k) \/ DeleteEvent(k) \/ SaveEvent(k)

\* Every request has been answered or lost.
Rest == (\A r \in Requests : pc[r] \in Ended) /\ UNCHANGED vars

Next == World \/ Rest \/ \E r \in Requests : Arrive(r) \/ Step(r) \/ Fail(r) \/ Crash(r)

Spec == Init /\ [][Next]_vars

\* A request that has come in is worked on: every await settles.
FairSpec == Spec /\ \A r \in Requests : WF_vars(Step(r))

-----------------------------------------------------------------------------
(* What the module claims *)

\* Every variable has its type.
TypeOK ==
    /\ ref \in [Keys -> Refs \union {NoRef}]
    /\ detail \in [Keys -> Details \union {NoDetail}]
    /\ recs \subseteq Records
    /\ pc \in [Requests -> Labels]
    /\ op \in [Requests -> {Undef} \union Ops]
    /\ round \in [Requests -> {1, 2}]
    /\ view \in [Requests -> Views \union {NoView}]
    /\ turn \in [Requests -> Nat \ {0}]
    /\ \A r \in Requests : pc[r] # "idle" =>
          op[r] \in Menu /\ turn[r] \in 1..Len(op[r].members)
    /\ found \in [Requests -> Records \union {NoRef}]

\* A member has one record for an event, also when some sign up at the event and
\* others at a link to it: "Member is already in attendance" for the second.
OneRecord ==
    \A a, b \in recs : a.ref = b.ref /\ a.member = b.member => a = b

\* Records come by sign-ups only and keep their event and member: a change that
\* is under way when its record is deleted does not bring it back.
SignUpsOnlyAdd ==
    [][\A a \in recs' :
          \/ \E b \in recs : b.by = a.by /\ b.ref = a.ref /\ b.member = a.member
          \/ pc[a.by[1]] = "insert"]_vars

\* An answered change of a note stays until another change of it is asked for:
\* changes of other fields, sign-ups and deletions leave it.
ChangesKept ==
    \A r \in Requests :
        /\ pc[r] = "done" /\ op[r].name = "modify" /\ op[r].note # Undef
        /\ found[r] # NoRef
        /\ ~\E s \in Requests \ {r} :
              /\ pc[s] # "idle" /\ op[s].name = "modify" /\ op[s].note # Undef
              /\ About(op[s]) = About(op[r])
        => \A a \in recs : a.by = found[r].by => a.note = op[r].note

\* Every member of a list, and whoever signed up alone, is in attendance when the
\* request is answered, if the event stays and nobody deletes the record: neither
\* a failing mail nor a member who is there already stops the others.
EveryoneSignedUp ==
    \A r \in Requests :
        /\ pc[r] = "done" /\ op[r].name \in SignUps
        /\ \A k \in view[r].docs : ref[k] # NoRef
        => \A m \in About(op[r]) :
              \/ RecordsOf(view[r].home, m) # {}
              \/ \E s \in Requests : /\ pc[s] # "idle" /\ op[s].name = "delete"
                                     /\ m \in About(op[s])

\* Every request is answered, as long as no process ends under it.
RequestsAnswered == \A r \in Requests : Active(r) ~> pc[r] \in {"done", "failed"}
=============================================================================
