-------------------------- MODULE EventStoreProofs --------------------------
(***************************************************************************)
(* Proofs about EventStore for every set of accounts and requests, every   *)
(* menu of operations and every choice of failing calls: the type          *)
(* invariant; where creations are made one at a time, that account and id  *)
(* name at most one event, whatever saves and deletions run beside the     *)
(* creation, and that EventStore implements EventRefs; and, where saves    *)
(* and deletions are made one at a time too, that what is removed has been *)
(* audited, that who cancels an event has sent the notice, that overrides  *)
(* change by saves of their link only and are what was asked for, that     *)
(* debrief items stay, that links follow their sources, and that the       *)
(* calendars show what is stored.                                          *)
(***************************************************************************)
EXTENDS EventStore, TLAPS

(* The operators on documents *)

\* Spreading one event's data over another's gives an event's data.
LEMMA OverlayTyped ==
    ASSUME NEW a \in Data, NEW b \in Data
    PROVE  /\ Overlay(a, b) \in Data
           /\ a.debrief # Undef => Overlay(a, b).debrief # Undef
           /\ b.debrief # Undef => Overlay(a, b).debrief # Undef
<1>1. Overlay(a, b) \in Data
  BY DEF Overlay, FieldWise, Over, Data
<1>2. Overlay(a, b).debrief = Over(a.debrief, b.debrief)
  BY DEF Overlay, FieldWise
<1>. QED
  BY <1>1, <1>2 DEF Over

\* So does getEventDifferences.
LEMMA DifferencesTyped ==
    ASSUME NEW a \in Data, NEW b \in Data
    PROVE  Differences(a, b) \in Data
BY DEF Differences, FieldWise, Different, Data

\* An event with no field at all.
LEMMA NothingTyped == Nothing \in Data
BY DEF Nothing, Data

\* The fields of a document.
LEMMA DocFields ==
    ASSUME NEW d \in Docs
    PROVE  /\ d = [acct |-> d.acct, id |-> d.id, kind |-> d.kind,
                   target |-> d.target, data |-> d.data, extra |-> d.extra]
           /\ d.acct \in Accounts
           /\ d.id \in Ids
           /\ d.kind \in {"REGULAR", "LINKED"}
           /\ d.target \in Refs
           /\ d.target[1] \in Accounts
           /\ d.data \in Data
           /\ d.extra \in Data
           /\ d.kind = "REGULAR" => d.data.debrief # Undef
BY DEF Docs, Refs

\* A merge patch keeps what a document is found under, and its type.
LEMMA PatchedDataTyped ==
    ASSUME NEW a \in Data, NEW b \in Data
    PROVE  /\ FieldWise(PatchedField, a, b) \in Data
           /\ b.debrief # Undef => FieldWise(PatchedField, a, b).debrief # Undef
<1>. DEFINE p == FieldWise(PatchedField, a, b)
<1>1. p = [status |-> PatchedField(a.status, b.status),
           times |-> PatchedField(a.times, b.times),
           pocs |-> PatchedField(a.pocs, b.pocs),
           debrief |-> PatchedField(a.debrief, b.debrief),
           cal |-> PatchedField(a.cal, b.cal)]
  BY DEF FieldWise
<1>2. /\ a.status \in {Undef} \union Statuses /\ b.status \in {Undef} \union Statuses
      /\ a.times \in {Undef} \union Times /\ b.times \in {Undef} \union Times
      /\ a.pocs \in {Undef} \union Contacts /\ b.pocs \in {Undef} \union Contacts
      /\ a.debrief \in {Undef} \union SUBSET Requests
      /\ b.debrief \in {Undef} \union SUBSET Requests
      /\ a.cal \in {Undef, NoEntry, Cleared} \union Entries
      /\ b.cal \in {Undef, NoEntry, Cleared} \union Entries
  BY DEF Data
<1>3. PatchedField(a.status, b.status) \in {Undef} \union Statuses
  BY <1>2, NullIsNoValue DEF PatchedField
<1>4. PatchedField(a.times, b.times) \in {Undef} \union Times
  BY <1>2, NullIsNoValue DEF PatchedField
<1>5. PatchedField(a.pocs, b.pocs) \in {Undef} \union Contacts
  BY <1>2, NullIsNoValue DEF PatchedField
<1>6. /\ PatchedField(a.debrief, b.debrief) \in {Undef} \union SUBSET Requests
      /\ b.debrief # Undef => PatchedField(a.debrief, b.debrief) # Undef
  BY <1>2, NullIsNoValue DEF PatchedField
<1>7. PatchedField(a.cal, b.cal) \in {Undef, NoEntry, Cleared} \union Entries
  BY <1>2 DEF PatchedField
<1>. HIDE DEF p
<1>8. p \in Data
  BY <1>1, <1>3, <1>4, <1>5, <1>6, <1>7 DEF Data
<1>9. p.debrief = PatchedField(a.debrief, b.debrief)
  BY <1>1
<1>10. b.debrief # Undef => p.debrief # Undef
  BY <1>6, <1>9
<1>. QED
  BY <1>8, <1>10 DEF p

\* The whole document under a merge patch.
LEMMA PatchedDocTyped ==
    ASSUME NEW d \in Docs, NEW new \in Docs
    PROVE  /\ PatchedDoc(d, new) \in Docs
           /\ PatchedDoc(d, new).acct = d.acct
           /\ PatchedDoc(d, new).id = d.id
<1>. DEFINE p == PatchedDoc(d, new)
            t == IF new.kind = "LINKED" THEN new.target ELSE d.target
            x == FieldWise(PatchedField, d.data, new.data)
            y == FieldWise(PatchedField, d.extra, new.extra)
<1>0. d \in [acct : Accounts, id : Ids, kind : {"REGULAR", "LINKED"},
             target : Refs, data : Data, extra : Data]
  BY DEF Docs
<1>1. p = [acct |-> d.acct, id |-> d.id, kind |-> new.kind, target |-> t,
           data |-> x, extra |-> y]
  <2>. HIDE DEF t, x, y
  <2>1. p = [d EXCEPT !.kind = new.kind, !.target = t, !.data = x, !.extra = y]
    BY DEF PatchedDoc, t, x, y
  <2>. QED
    BY <1>0, <2>1
<1>2. x \in Data /\ y \in Data /\ (new.data.debrief # Undef => x.debrief # Undef)
  BY DocFields, PatchedDataTyped
<1>3. t \in Refs
  BY DocFields
<1>4. new.kind = "REGULAR" => x.debrief # Undef
  BY <1>2, DocFields
<1>. HIDE DEF p, t, x, y
<1>5. p \in Docs
  BY <1>1, <1>2, <1>3, <1>4, DocFields DEF Docs
<1>6. p.acct = d.acct /\ p.id = d.id
  BY <1>1
<1>. QED
  BY <1>5, <1>6 DEF p

-----------------------------------------------------------------------------
(* The type invariant.  It is inductive with what pc says about the kind of  *)
(* event that a request holds.                                               *)

Early == {"idle", "read", "resolve", "failed", "lost"}

Control ==
    \A r \in Requests :
        /\ pc[r] = "resolve" => op[r].name \in {"set", "copy", "delete"}
        /\ pc[r] \notin Early /\ op[r].name \in {"add", "copy"}
           => ev[r].kind = "REGULAR"
        /\ pc[r] = "insert" => op[r].name \in Creators

IInv == TypeOK /\ Control

\* The parts of TypeOK about what all requests share and about the variables
\* that a request fills in as it goes.
StoresTyped ==
    /\ docs \in [Keys -> Docs \union {NoDoc}]
    /\ entries \subseteq Entries
    /\ audits \subseteq [key : Keys, by : Requests, type : {"ADD", "MODIFY", "DELETE"}]
    /\ notices \subseteq [key : Keys, by : Requests]
    /\ mails \subseteq [key : Keys, by : Requests]
    /\ given \in DOMAIN Conditions

ScratchTyped ==
    /\ key \in [Requests -> Keys]
    /\ was \in [Requests -> Data]
    /\ cal \in [Requests -> {NoEntry} \union Entries]
    /\ newId \in [Requests -> Ids]
    /\ todo \in [Requests -> SUBSET [doc : Docs, for : Keys]]

\* TypeOK, in the parts that steps disturb separately.
LEMMA TypeParts == TypeOK => StoresTyped /\ ScratchTyped
BY DEF TypeOK, StoresTyped, ScratchTyped

\* What a request does past its arrival changes its own variables only.
LEMMA LocalStep ==
    ASSUME TypeOK, NEW r \in Requests, pc[r] # "idle", op' = op,
           pc' = [pc EXCEPT ![r] = pc'[r]], pc'[r] \in Labels,
           ev' = [ev EXCEPT ![r] = ev'[r]], ev'[r] \in Docs,
           StoresTyped', ScratchTyped'
    PROVE  /\ TypeOK'
           /\ \A s \in Requests \ {r} : pc'[s] = pc[s] /\ ev'[s] = ev[s]
<1>1. pc' \in [Requests -> Labels]
  BY DEF TypeOK
<1>2. ev' \in [Requests -> Docs \union {NoDoc}]
  BY DEF TypeOK
<1>3. \A s \in Requests \ {r} : pc'[s] = pc[s] /\ ev'[s] = ev[s]
  BY DEF TypeOK
<1>4. \A s \in Requests : pc'[s] # "idle" => op'[s] \in Ops /\ ev'[s] \in Docs
  BY <1>3 DEF TypeOK
<1>5. op' \in [Requests -> {Undef} \union Ops]
  BY DEF TypeOK
<1>. QED
  BY <1>1, <1>2, <1>3, <1>4, <1>5 DEF TypeOK, StoresTyped, ScratchTyped

\* Goto changes the place of its own request only.
LEMMA GotoTyped ==
    ASSUME TypeOK, NEW r \in Requests, NEW l \in Labels, Goto(r, l)
    PROVE  pc' = [pc EXCEPT ![r] = pc'[r]] /\ pc'[r] = l
BY DEF TypeOK, Goto

\* The seeds are documents, and every request is idle.
LEMMA InitIInv == Init => IInv
<1>. SUFFICES ASSUME Init PROVE IInv
  OBVIOUS
<1>. USE DEF Init
<1>1. docs \in [Keys -> Docs \union {NoDoc}]
  BY ConstantsOK
<1>2. entries \subseteq Entries /\ given \in DOMAIN Conditions
  BY ConstantsOK
<1>3. /\ audits = {} /\ notices = {} /\ mails = {}
      /\ op \in [Requests -> {Undef} \union Ops]
      /\ ev \in [Requests -> Docs \union {NoDoc}]
      /\ cal \in [Requests -> {NoEntry} \union Entries]
      /\ todo \in [Requests -> SUBSET [doc : Docs, for : Keys]]
  OBVIOUS
<1>4. pc \in [Requests -> Labels] /\ \A r \in Requests : pc[r] = "idle"
  BY DEF Labels
<1>5. key \in [Requests -> Keys]
  BY DEF Keys
<1>6. was \in [Requests -> Data]
  BY NothingTyped
<1>7. newId \in [Requests -> Ids]
  BY ConstantsOK DEF Ids
<1>8. TypeOK
  BY <1>1, <1>2, <1>3, <1>4, <1>5, <1>6, <1>7 DEF TypeOK
<1>9. Control
  BY <1>4 DEF Control, Early
<1>. QED
  BY <1>8, <1>9 DEF IInv

\* A request that comes in carries what its body makes a document of.
LEMMA ArriveIInv ==
    ASSUME IInv, NEW r \in Requests, Arrive(r)
    PROVE  IInv'
<1>. USE DEF IInv
<1>1. PICK o \in Menu :
        /\ op' = [op EXCEPT ![r] = o]
        /\ Goto(r, IF o.name = "add" THEN "newID" ELSE "read")
        /\ ev' = [ev EXCEPT ![r] =
              [acct |-> o.acct, id |-> o.id, kind |-> "REGULAR",
               target |-> <<o.acct, o.id>>,
               data |-> [o.body EXCEPT !.debrief = {}, !.cal = NoEntry],
               extra |-> Nothing]]
  BY DEF Arrive
<1>. DEFINE b == [o.body EXCEPT !.debrief = {}, !.cal = NoEntry]
            e == [acct |-> o.acct, id |-> o.id, kind |-> "REGULAR",
                  target |-> <<o.acct, o.id>>, data |-> b, extra |-> Nothing]
            l == IF o.name = "add" THEN "newID" ELSE "read"
<1>2. o \in Ops
  BY ConstantsOK DEF TypeOK, Menu, Setting
<1>3. b \in Data /\ b.debrief = {}
  BY <1>2 DEF Ops, Data
<1>4. e \in Docs
  <2>1. e.target \in Refs
    BY <1>2 DEF Ops, Refs
  <2>. HIDE DEF b
  <2>2. {} # Undef
    BY NullIsNoValue
  <2>. QED
    BY <1>2, <1>3, <2>1, <2>2, NothingTyped DEF Docs, Ops
<1>5. UNCHANGED <<docs, entries, audits, notices, mails, key, was, cal, newId, todo, given>>
  BY DEF Arrive, OnlyLocal, stores
<1>6. l \in Labels
  BY DEF Labels, Main
<1>. HIDE DEF e, b, l
<1>7. op' = [op EXCEPT ![r] = o] /\ pc' = [pc EXCEPT ![r] = l] /\ ev' = [ev EXCEPT ![r] = e]
  BY <1>1 DEF Goto, e, b, l
<1>8. /\ pc' \in [Requests -> Labels]
      /\ op' \in [Requests -> {Undef} \union Ops]
      /\ ev' \in [Requests -> Docs \union {NoDoc}]
  BY <1>2, <1>4, <1>6, <1>7 DEF TypeOK
<1>9. /\ pc'[r] = l /\ op'[r] = o /\ ev'[r] = e
      /\ \A s \in Requests \ {r} : pc'[s] = pc[s] /\ op'[s] = op[s] /\ ev'[s] = ev[s]
  BY <1>7 DEF TypeOK
<1>10. TypeOK'
  BY <1>2, <1>4, <1>5, <1>8, <1>9 DEF TypeOK
<1>11. e.kind = "REGULAR" /\ l \in {"newID", "read"}
  BY DEF e, l
<1>12. Control'
  BY <1>9, <1>11 DEF Control, Early
<1>. QED
  BY <1>10, <1>12

\* Steps that leave the event in memory alone.
LEMMA SameEventStep ==
    ASSUME IInv, NEW r \in Requests, pc[r] # "idle",
           NEW l \in Labels, Goto(r, l), op' = op, ev' = ev,
           StoresTyped', ScratchTyped',
           l # "resolve", l = "failed" \/ pc[r] \notin Early,
           l = "insert" => op[r].name \in Creators
    PROVE  IInv'
<1>1. TypeOK /\ Control
  BY DEF IInv
<1>2. /\ pc' = [pc EXCEPT ![r] = pc'[r]] /\ pc'[r] = l
      /\ ev' = [ev EXCEPT ![r] = ev'[r]] /\ ev'[r] \in Docs /\ ev'[r] = ev[r]
  BY <1>1, GotoTyped DEF TypeOK
<1>3. TypeOK' /\ \A s \in Requests \ {r} : pc'[s] = pc[s] /\ ev'[s] = ev[s]
  BY <1>1, <1>2, LocalStep
<1>4. Control'
  BY <1>1, <1>2, <1>3 DEF Control, Early
<1>. QED
  BY <1>3, <1>4 DEF IInv

\* Steps that leave everything but pc alone.
LEMMA QuietStep ==
    ASSUME IInv, NEW r \in Requests, pc[r] # "idle",
           Goto(r, "failed"), OnlyLocal, UNCHANGED locals
    PROVE  IInv'
<1>1. StoresTyped' /\ ScratchTyped' /\ op' = op /\ ev' = ev
  BY TypeParts DEF IInv, OnlyLocal, stores, locals, StoresTyped, ScratchTyped
<1>2. "failed" \in Labels
  BY DEF Labels, Ended, Answered
<1>. QED
  BY <1>1, <1>2, SameEventStep DEF StoresTyped, ScratchTyped

\* Requests that end with an error, a side effect that is skipped, a process that
\* ends.
LEMMA NotFoundIInv ==
    ASSUME IInv, NEW r \in Requests, pc[r] # "idle", NotFound(r)
    PROVE  IInv'
BY QuietStep DEF NotFound

\* A call that fails on the way to the result.
LEMMA FailIInv ==
    ASSUME IInv, NEW r \in Requests, Fail(r)
    PROVE  IInv'
BY QuietStep DEF Fail, Main

\* The end of a process moves the requests it was at to "lost".
LEMMA CrashEnds ==
    ASSUME NEW r \in Requests, Crash(r)
    PROVE  /\ pc' \in [Requests -> {pc[s] : s \in Requests} \union {"lost"}]
           /\ \A s \in Requests : pc'[s] = pc[s] \/ (pc'[s] = "lost" /\ Active(s))
           /\ UNCHANGED locals /\ UNCHANGED <<stores, given>>
<1>1. PICK others \in SUBSET Requests :
          pc' = [s \in Requests |-> IF s = r \/ (s \in others /\ Active(s))
                                   THEN "lost" ELSE pc[s]]
  BY DEF Crash
<1>2. Active(r)
  BY DEF Crash, Streamed, Active, Ended, Answered
<1>. QED
  BY <1>1, <1>2 DEF Crash, OnlyLocal

\* A process that ends.
LEMMA CrashIInv ==
    ASSUME IInv, NEW r \in Requests, Crash(r)
    PROVE  IInv'
<1>1. TypeOK /\ Control
  BY DEF IInv
<1>2. /\ op' = op /\ ev' = ev /\ key' = key /\ was' = was /\ cal' = cal
      /\ newId' = newId /\ todo' = todo
      /\ docs' = docs /\ entries' = entries /\ audits' = audits
      /\ notices' = notices /\ mails' = mails /\ given' = given
  BY CrashEnds DEF locals, stores
<1>3. pc' \in [Requests -> Labels]
  BY <1>1, CrashEnds DEF TypeOK, Labels, Ended
<1>4. \A s \in Requests : pc'[s] # pc[s] => pc'[s] = "lost" /\ pc[s] # "idle"
  BY CrashEnds DEF Active
<1>5. TypeOK'
  BY <1>1, <1>2, <1>3, <1>4 DEF TypeOK
<1>6. Control'
  BY <1>1, <1>2, <1>4 DEF Control, Early
<1>. QED
  BY <1>5, <1>6 DEF IInv

\* After a side effect a request never goes back to a read or an insertion.
LEMMA AfterTapTyped ==
    ASSUME NEW r \in Requests
    PROVE  AfterTap(r) \in Labels \ {"resolve", "insert"}
BY DEF AfterTap, Labels, Main, Tapped, Ended, Answered

\* A side effect that fails.
LEMMA SkipIInv ==
    ASSUME IInv, NEW r \in Requests, Skip(r)
    PROVE  IInv'
<1>1. StoresTyped' /\ ScratchTyped'
  BY TypeParts DEF IInv, Skip, OnlyLocal, stores, StoresTyped, ScratchTyped
<1>2. pc[r] \notin Early
  BY DEF Skip, Tapped, Early
<1>3. Goto(r, AfterTap(r)) /\ op' = op /\ ev' = ev
  BY DEF Skip
<1>. QED
  BY <1>1, <1>2, <1>3, AfterTapTyped, SameEventStep DEF StoresTyped, ScratchTyped, Early

\* What the handlers make of an event they have read is a document.
LEMMA DesiredTyped ==
    ASSUME NEW r \in Requests, op[r] \in Ops, NEW data \in Data
    PROVE  /\ data.debrief # Undef => /\ Desired(r, data) \in Data
                                      /\ Desired(r, data).debrief # Undef
           /\ op[r].name \in {"set", "copy", "delete"} => Desired(r, data) \in Data
           /\ op[r].name = "copy" => Desired(r, data).debrief # Undef
<1>. DEFINE x == Overlay(data, op[r].body)
<1>1. op[r].body \in Data /\ op[r].name \in OpNames
      /\ op[r].item \in {Undef} \union Requests
  BY DEF Ops
<1>2. x \in Data /\ (data.debrief # Undef => x.debrief # Undef)
  BY <1>1, OverlayTyped
<1>3. \A items \in SUBSET Requests : items # Undef
  BY NullIsNoValue
<1>. HIDE DEF x
<1>4. CASE op[r].name = "set"
  BY <1>2, <1>4 DEF Desired, x
<1>5. CASE op[r].name = "copy"
  <2>1. Desired(r, data) = [x EXCEPT !.debrief = {}, !.cal = NoEntry]
    BY <1>5 DEF Desired, x
  <2>2. Desired(r, data) \in Data /\ Desired(r, data).debrief = {}
    BY <1>2, <2>1 DEF Data
  <2>. QED
    BY <1>3, <1>5, <2>2
<1>6. CASE op[r].name = "addDebrief"
  <2>1. SUFFICES ASSUME data.debrief # Undef
                 PROVE  Desired(r, data) \in Data /\ Desired(r, data).debrief # Undef
    BY <1>6
  <2>2. Desired(r, data) = [data EXCEPT !.debrief = data.debrief \union {r}]
    BY <1>6 DEF Desired
  <2>3. data.debrief \in SUBSET Requests
    BY <2>1 DEF Data
  <2>4. data.debrief \union {r} \in SUBSET Requests
    BY <2>3
  <2>5. Desired(r, data) \in Data /\ Desired(r, data).debrief = data.debrief \union {r}
    BY <2>2, <2>4 DEF Data
  <2>. QED
    BY <1>3, <2>4, <2>5
<1>7. CASE op[r].name = "deleteDebrief"
  <2>1. SUFFICES ASSUME data.debrief # Undef
                 PROVE  Desired(r, data) \in Data /\ Desired(r, data).debrief # Undef
    BY <1>7
  <2>. DEFINE left == data.debrief \ {op[r].item}
  <2>2. Desired(r, data) = [data EXCEPT !.debrief = left]
    BY <1>7 DEF Desired
  <2>3. data.debrief \in SUBSET Requests
    BY <2>1 DEF Data
  <2>4. left \in SUBSET Requests
    BY <2>3
  <2>5. Desired(r, data) \in Data /\ Desired(r, data).debrief = left
    BY <2>2, <2>4 DEF Data
  <2>. QED
    BY <1>3, <2>4, <2>5
<1>8. CASE op[r].name \in {"add", "link", "delete"}
  BY <1>8 DEF Desired
<1>. QED
  BY <1>1, <1>4, <1>5, <1>6, <1>7, <1>8 DEF OpNames, Creators, Savers

\* After a read no request is at an insertion.
LEMMA AfterReadTyped ==
    ASSUME NEW r \in Requests
    PROVE  AfterRead(r) \in {"reread", "calendar", "newID"}
BY DEF AfterRead

\* getEvent keeps the types: what it reads is a document.
LEMMA ReadIInv ==
    ASSUME IInv, NEW r \in Requests, Read(r)
    PROVE  IInv'
<1>1. TypeOK /\ Control /\ pc[r] = "read" /\ op[r] \in Ops
  BY DEF IInv, Read, TypeOK
<1>2. CASE NotFound(r)
  BY <1>1, <1>2, NotFoundIInv
<1>3. CASE ~NotFound(r)
  <2>1. PICK k \in Keys :
          /\ Matching(op[r].acct, op[r].id) = {k}
          /\ docs[k].kind = "REGULAR" \/ op[r].name \in {"set", "copy", "delete"}
          /\ key' = [key EXCEPT ![r] = k]
          /\ IF docs[k].kind = "LINKED"
             THEN /\ ev' = [ev EXCEPT ![r] = docs[k]]
                  /\ Goto(r, "resolve")
             ELSE /\ ev' = [ev EXCEPT ![r] = [docs[k] EXCEPT !.data = Desired(r, @)]]
                  /\ Goto(r, AfterRead(r))
          /\ UNCHANGED <<op, was, cal, newId, todo>>
          /\ OnlyLocal
    BY <1>3 DEF Read
  <2>2. docs[k] \in Docs
    BY <1>1, <2>1 DEF Matching, Stored, TypeOK
  <2>3. StoresTyped' /\ ScratchTyped' /\ op' = op
    BY <1>1, <2>1, TypeParts DEF OnlyLocal, stores, StoresTyped, ScratchTyped
  <2>4. CASE docs[k].kind = "LINKED"
    <3>1. /\ ev' = [ev EXCEPT ![r] = ev'[r]] /\ ev'[r] \in Docs
          /\ pc' = [pc EXCEPT ![r] = pc'[r]] /\ pc'[r] = "resolve" /\ pc'[r] \in Labels
      BY <1>1, <2>1, <2>2, <2>4 DEF Goto, TypeOK, Labels, Main
    <3>2. TypeOK' /\ \A s \in Requests \ {r} : pc'[s] = pc[s] /\ ev'[s] = ev[s]
      BY <1>1, <2>3, <3>1, LocalStep
    <3>3. op[r].name \in {"set", "copy", "delete"}
      BY <2>1, <2>4
    <3>4. Control'
      BY <1>1, <2>3, <3>1, <3>2, <3>3 DEF Control, Early
    <3>. QED
      BY <3>2, <3>4 DEF IInv
  <2>5. CASE docs[k].kind = "REGULAR"
    <3>. DEFINE d == [docs[k] EXCEPT !.data = Desired(r, docs[k].data)]
    <3>1. /\ Desired(r, docs[k].data) \in Data
          /\ Desired(r, docs[k].data).debrief # Undef
      BY <1>1, <2>2, <2>5, DocFields, DesiredTyped
    <3>2. d \in Docs /\ d.kind = "REGULAR"
      <4>1. d = [acct |-> docs[k].acct, id |-> docs[k].id, kind |-> "REGULAR",
                 target |-> docs[k].target, data |-> Desired(r, docs[k].data),
                 extra |-> docs[k].extra]
        BY <2>2, <2>5 DEF Docs
      <4>. QED
        BY <2>2, <3>1, <4>1, DocFields DEF Docs
    <3>. HIDE DEF d
    <3>3. ev' = [ev EXCEPT ![r] = d] /\ Goto(r, AfterRead(r))
      BY <2>1, <2>5 DEF d
    <3>4. /\ ev' = [ev EXCEPT ![r] = ev'[r]] /\ ev'[r] \in Docs /\ ev'[r].kind = "REGULAR"
      BY <1>1, <3>2, <3>3 DEF TypeOK
    <3>5. AfterRead(r) \in {"reread", "calendar", "newID"} /\ AfterRead(r) \in Labels
      BY AfterReadTyped DEF Labels, Main
    <3>6. /\ pc' = [pc EXCEPT ![r] = pc'[r]] /\ pc'[r] \in Labels
          /\ pc'[r] \in {"reread", "calendar", "newID"}
      BY <1>1, <3>3, <3>5, GotoTyped
    <3>7. TypeOK' /\ \A s \in Requests \ {r} : pc'[s] = pc[s] /\ ev'[s] = ev[s]
      BY <1>1, <2>3, <3>4, <3>6, LocalStep
    <3>8. Control'
      BY <1>1, <2>3, <3>4, <3>6, <3>7 DEF Control, Early
    <3>. QED
      BY <3>7, <3>8 DEF IInv
  <2>. QED
    BY <2>2, <2>4, <2>5, DocFields
<1>. QED
  BY <1>2, <1>3

\* ensureResolvedEvent keeps the types: a link over its target is a document.
LEMMA ResolveIInv ==
    ASSUME IInv, NEW r \in Requests, Resolve(r)
    PROVE  IInv'
<1>1. /\ TypeOK /\ Control /\ pc[r] = "resolve" /\ op[r] \in Ops /\ ev[r] \in Docs
      /\ op[r].name \in {"set", "copy", "delete"}
  BY DEF IInv, Resolve, TypeOK, Control
<1>2. CASE NotFound(r)
  BY <1>1, <1>2, NotFoundIInv
<1>3. CASE ~NotFound(r)
  <2>1. PICK k \in Keys :
          /\ Matching(ev[r].target[1], ev[r].target[2]) = {k}
          /\ ev' = [ev EXCEPT ![r] = InHand(r, docs[k])]
          /\ Goto(r, AfterRead(r))
          /\ UNCHANGED <<op, key, was, cal, newId, todo>>
          /\ OnlyLocal
    BY <1>3 DEF Resolve
  <2>2. docs[k] \in Docs
    BY <1>1, <2>1 DEF Matching, Stored, TypeOK
  <2>. DEFINE y == Overlay(Overlay(docs[k].data, ev[r].data), ev[r].extra)
              kind == IF op[r].name = "copy" THEN "REGULAR" ELSE ev[r].kind
  <2>3. y \in Data /\ (ev[r].data.debrief # Undef => y.debrief # Undef)
    BY <1>1, <2>2, DocFields, OverlayTyped
  <2>4. /\ Desired(r, y) \in Data
        /\ kind = "REGULAR" => Desired(r, y).debrief # Undef
    BY <1>1, <2>3, DocFields, DesiredTyped
  <2>. DEFINE e == InHand(r, docs[k])
  <2>5. e = [acct |-> ev[r].acct, id |-> ev[r].id, kind |-> kind,
             target |-> ev[r].target, data |-> Desired(r, y), extra |-> ev[r].extra]
    <3>. HIDE DEF y
    <3>1. Resolved(ev[r], docs[k]) =
            [acct |-> ev[r].acct, id |-> ev[r].id, kind |-> ev[r].kind,
             target |-> ev[r].target, data |-> y, extra |-> ev[r].extra]
      <4>1. ev[r] \in [acct : Accounts, id : Ids, kind : {"REGULAR", "LINKED"},
                       target : Refs, data : Data, extra : Data]
        BY <1>1 DEF Docs
      <4>2. Resolved(ev[r], docs[k]) = [ev[r] EXCEPT !.data = y]
        BY DEF Resolved, y
      <4>. QED
        BY <4>1, <4>2
    <3>. DEFINE d == Resolved(ev[r], docs[k])
    <3>2. d.data = y /\ d.kind = ev[r].kind
      BY <3>1
    <3>3. e = [d EXCEPT !.data = Desired(r, y), !.kind = kind]
      <4>1. e = [d EXCEPT !.data = Desired(r, d.data),
                          !.kind = IF op[r].name = "copy" THEN "REGULAR" ELSE d.kind]
        BY DEF InHand
      <4>. HIDE DEF d, e
      <4>. QED
        BY <3>2, <4>1
    <3>4. d = [acct |-> ev[r].acct, id |-> ev[r].id, kind |-> ev[r].kind,
               target |-> ev[r].target, data |-> y, extra |-> ev[r].extra]
      BY <3>1
    <3>. HIDE DEF d, e, kind
    <3>. QED
      BY <3>3, <3>4
  <2>. HIDE DEF e, y
  <2>6. e \in Docs /\ e.kind = kind
    BY <1>1, <2>4, <2>5, DocFields DEF Docs
  <2>7. /\ ev' = [ev EXCEPT ![r] = ev'[r]] /\ ev'[r] \in Docs
        /\ op[r].name = "copy" => ev'[r].kind = "REGULAR"
    BY <1>1, <2>1, <2>6 DEF TypeOK, e
  <2>8. AfterRead(r) \in {"reread", "calendar", "newID"} /\ AfterRead(r) \in Labels
    BY AfterReadTyped DEF Labels, Main
  <2>9. /\ pc' = [pc EXCEPT ![r] = pc'[r]] /\ pc'[r] \in Labels
        /\ pc'[r] \in {"reread", "calendar", "newID"}
    BY <1>1, <2>1, <2>8, GotoTyped
  <2>10. StoresTyped' /\ ScratchTyped' /\ op' = op
    BY <1>1, <2>1, TypeParts DEF OnlyLocal, stores, StoresTyped, ScratchTyped
  <2>11. TypeOK' /\ \A s \in Requests \ {r} : pc'[s] = pc[s] /\ ev'[s] = ev[s]
    BY <1>1, <2>7, <2>9, <2>10, LocalStep
  <2>12. Control'
    BY <1>1, <2>7, <2>9, <2>10, <2>11 DEF Control, Early
  <2>. QED
    BY <2>11, <2>12 DEF IInv
<1>. QED
  BY <1>2, <1>3

\* The account of a creation is one.
LEMMA HomeTyped ==
    ASSUME NEW r \in Requests, op[r] \in Ops
    PROVE  Home(r) \in Accounts
BY DEF Home, Ops

\* getNewID returns an id.
LEMMA NewIDIInv ==
    ASSUME IInv, NEW r \in Requests, NewID(r)
    PROVE  IInv'
<1>1. PICK n \in Ids : newId' = [newId EXCEPT ![r] = n]
  BY DEF NewID
<1>2. /\ pc[r] = "newID" /\ key' = [key EXCEPT ![r] = r] /\ Goto(r, "calendar")
      /\ op' = op /\ ev' = ev
  BY DEF NewID
<1>3. StoresTyped'
  BY TypeParts DEF NewID, IInv, OnlyLocal, stores, StoresTyped
<1>4. ScratchTyped'
  <2>1. key' \in [Requests -> Keys]
    BY <1>2 DEF IInv, TypeOK, Keys
  <2>2. newId' \in [Requests -> Ids]
    BY <1>1 DEF IInv, TypeOK
  <2>. QED
    BY <2>1, <2>2, TypeParts DEF NewID, IInv, ScratchTyped
<1>5. "calendar" \in Labels /\ pc[r] # "idle" /\ pc[r] \notin Early
  BY <1>2 DEF Labels, Ended, Main, Early
<1>. QED
  BY <1>2, <1>3, <1>4, <1>5, SameEventStep DEF StoresTyped, ScratchTyped

\* Deleting from a calendar leaves entries.
LEMMA WithoutTyped ==
    ASSUME entries \subseteq Entries, NEW c, NEW x, NEW b,
           NEW left \in Without(c, x, b)
    PROVE  left \subseteq Entries
BY DEF Without

\* The calendar calls keep the types.
LEMMA CalendarIInv ==
    ASSUME IInv, NEW r \in Requests, CalendarCalls(r)
    PROVE  IInv'
<1>. DEFINE c == Calendar(r)
            entry == [on |-> c, by |-> r, for |-> key[r]]
            mayFail == "calendar" \in Failing
            after == IF op[r].name = "delete" THEN "audit"
                     ELSE IF op[r].name \in Creators THEN "insert"
                     ELSE IF ev[r].kind = "LINKED" THEN "source" ELSE "notify"
<1>1. TypeOK /\ pc[r] = "calendar" /\ op[r] \in Ops /\ ev[r] \in Docs
  BY DEF IInv, CalendarCalls, TypeOK
<1>2. UNCHANGED <<docs, audits, notices, mails, op, ev, key, was, newId, todo, given>>
  BY DEF CalendarCalls
<1>3. PICK left \in Without(c, ev[r].data.cal, mayFail) :
        \/ /\ entries' = IF op[r].name \in Creators THEN entries ELSE left
           /\ cal' = [cal EXCEPT ![r] = NoEntry]
           /\ Goto(r, after)
        \/ /\ entries' = left \union {entry}
           /\ cal' = [cal EXCEPT ![r] = entry]
           /\ Goto(r, after)
        \/ /\ entries' = left
           /\ Goto(r, "failed")
           /\ UNCHANGED cal
  BY DEF CalendarCalls
<1>4. c \in Accounts
  BY <1>1, HomeTyped, DocFields DEF Calendar
<1>5. entry \in Entries
  BY <1>1, <1>4 DEF Entries, TypeOK, Keys
<1>6. left \subseteq Entries /\ entries \subseteq Entries
  BY <1>1, WithoutTyped DEF TypeOK
<1>. HIDE DEF c, entry, mayFail
<1>7. entries' \subseteq Entries
  BY <1>3, <1>5, <1>6
<1>8. cal' \in [Requests -> {NoEntry} \union Entries]
  BY <1>1, <1>3, <1>5 DEF TypeOK
<1>9. StoresTyped' /\ ScratchTyped' /\ op' = op /\ ev' = ev
  BY <1>1, <1>2, <1>7, <1>8, TypeParts DEF StoresTyped, ScratchTyped
<1>10. /\ after \in Labels /\ "failed" \in Labels /\ after # "resolve"
       /\ after = "insert" => op[r].name \in Creators
  BY DEF Labels, Main, Tapped, Ended, Answered
<1>11. pc[r] # "idle" /\ pc[r] \notin Early
  BY <1>1 DEF Early
<1>12. Goto(r, after) \/ Goto(r, "failed")
  BY <1>3
<1>. HIDE DEF after
<1>13. CASE Goto(r, after)
  BY <1>9, <1>10, <1>11, <1>13, SameEventStep DEF StoresTyped, ScratchTyped
<1>14. CASE Goto(r, "failed")
  BY <1>9, <1>10, <1>11, <1>14, SameEventStep DEF StoresTyped, ScratchTyped
<1>. QED
  BY <1>12, <1>13, <1>14

\* What addToCollection stores is a document under the new id.
LEMMA NewDocTyped ==
    ASSUME IInv, NEW r \in Requests, pc[r] = "insert"
    PROVE  /\ NewDoc(r) \in Docs
           /\ NewDoc(r).acct = Home(r) /\ NewDoc(r).id = newId[r]
<1>1. /\ TypeOK /\ Control /\ op[r] \in Ops /\ ev[r] \in Docs
      /\ op[r].name \in Creators /\ newId[r] \in Ids
      /\ cal[r] \in {NoEntry} \union Entries
  BY DEF IInv, TypeOK, Control
<1>2. Home(r) \in Accounts
  BY <1>1, HomeTyped
<1>3. CASE op[r].name = "link"
  <2>. DEFINE x == [Nothing EXCEPT !.times = ev[r].data.times, !.cal = cal[r]]
  <2>1. x \in Data
    BY <1>1, NothingTyped, DocFields DEF Data
  <2>2. <<ev[r].acct, ev[r].id>> \in Refs
    BY <1>1, DocFields DEF Refs
  <2>. HIDE DEF x
  <2>3. NewDoc(r) = [acct |-> Home(r), id |-> newId[r], kind |-> "LINKED",
                     target |-> <<ev[r].acct, ev[r].id>>,
                     data |-> x, extra |-> Nothing]
    BY <1>3 DEF NewDoc, x
  <2>. QED
    BY <1>1, <1>2, <2>1, <2>2, <2>3, NothingTyped DEF Docs
<1>4. CASE op[r].name # "link"
  <2>. DEFINE x == [ev[r].data EXCEPT !.cal = cal[r]]
  <2>1. ev[r].data \in Data /\ ev[r].data.debrief # Undef
    BY <1>1, <1>4, DocFields DEF Control, Creators, Early
  <2>2. x \in Data /\ x.debrief = ev[r].data.debrief
    BY <1>1, <2>1 DEF Data
  <2>3. <<Home(r), newId[r]>> \in Refs
    BY <1>1, <1>2 DEF Refs
  <2>. HIDE DEF x
  <2>4. NewDoc(r) = [acct |-> Home(r), id |-> newId[r], kind |-> "REGULAR",
                     target |-> <<Home(r), newId[r]>>,
                     data |-> x, extra |-> Nothing]
    BY <1>4 DEF NewDoc, x
  <2>. QED
    BY <1>1, <1>2, <2>1, <2>2, <2>3, <2>4, NothingTyped DEF Docs
<1>. QED
  BY <1>3, <1>4

\* The insertion keeps the types.
LEMMA InsertIInv ==
    ASSUME IInv, NEW r \in Requests, Insert(r)
    PROVE  IInv'
<1>. DEFINE l == IF op[r].name = "link" THEN "done" ELSE "audit"
<1>1. /\ pc[r] = "insert" /\ docs' = [docs EXCEPT ![r] = NewDoc(r)] /\ Goto(r, l)
      /\ UNCHANGED <<entries, audits, notices, mails, given>>
      /\ UNCHANGED <<op, ev, key, was, cal, newId, todo>>
  BY DEF Insert, locals
<1>2. NewDoc(r) \in Docs
  BY <1>1, NewDocTyped
<1>3. docs' \in [Keys -> Docs \union {NoDoc}]
  BY <1>1, <1>2 DEF IInv, TypeOK
<1>4. StoresTyped' /\ ScratchTyped'
  BY <1>1, <1>3, TypeParts DEF IInv, StoresTyped, ScratchTyped
<1>5. l \in Labels /\ l \notin {"resolve", "insert"} /\ pc[r] \notin Early
  BY <1>1 DEF Labels, Ended, Answered, Tapped, Early
<1>. HIDE DEF l
<1>. QED
  BY <1>1, <1>4, <1>5, SameEventStep DEF StoresTyped, ScratchTyped, Early

\* So does the audit,
LEMMA AuditIInv ==
    ASSUME IInv, NEW r \in Requests, Audit(r)
    PROVE  IInv'
<1>. DEFINE a == [key |-> key[r], by |-> r,
                  type |-> IF op[r].name \in Creators THEN "ADD"
                           ELSE IF op[r].name = "delete" THEN "DELETE" ELSE "MODIFY"]
<1>1. /\ pc[r] = "audit" /\ audits' = audits \union {a} /\ Goto(r, AfterTap(r))
      /\ UNCHANGED <<docs, entries, notices, mails, given>>
      /\ UNCHANGED <<op, ev, key, was, cal, newId, todo>>
  BY DEF Audit, locals
<1>2. a \in [key : Keys, by : Requests, type : {"ADD", "MODIFY", "DELETE"}]
  BY DEF IInv, TypeOK
<1>. HIDE DEF a
<1>3. StoresTyped' /\ ScratchTyped' /\ pc[r] \notin Early
  BY <1>1, <1>2, TypeParts DEF IInv, StoresTyped, ScratchTyped, Early
<1>. QED
  BY <1>1, <1>3, AfterTapTyped, SameEventStep DEF StoresTyped, ScratchTyped, Early

\* so do the notifications,
LEMMA NotifyIInv ==
    ASSUME IInv, NEW r \in Requests, Notify(r)
    PROVE  IInv'
<1>1. /\ pc[r] = "notify" /\ Goto(r, AfterTap(r))
      /\ UNCHANGED <<docs, entries, audits, mails, given>>
      /\ UNCHANGED <<op, ev, key, was, cal, newId, todo>>
  BY DEF Notify, locals
<1>2. notices' \subseteq [key : Keys, by : Requests]
  BY DEF Notify, IInv, TypeOK
<1>3. StoresTyped' /\ ScratchTyped' /\ pc[r] \notin Early
  BY <1>1, <1>2, TypeParts DEF IInv, StoresTyped, ScratchTyped, Early
<1>. QED
  BY <1>1, <1>3, AfterTapTyped, SameEventStep DEF StoresTyped, ScratchTyped, Early

\* and the cancellation mail.
LEMMA MailIInv ==
    ASSUME IInv, NEW r \in Requests, Mail(r)
    PROVE  IInv'
<1>1. /\ pc[r] = "mail" /\ Goto(r, AfterTap(r))
      /\ UNCHANGED <<docs, entries, audits, notices, given>>
      /\ UNCHANGED <<op, ev, key, was, cal, newId, todo>>
  BY DEF Mail, locals
<1>2. mails' \subseteq [key : Keys, by : Requests]
  BY DEF Mail, IInv, TypeOK
<1>3. StoresTyped' /\ ScratchTyped' /\ pc[r] \notin Early
  BY <1>1, <1>2, TypeParts DEF IInv, StoresTyped, ScratchTyped, Early
<1>. QED
  BY <1>1, <1>3, AfterTapTyped, SameEventStep DEF StoresTyped, ScratchTyped, Early

\* The deletion leaves documents.
LEMMA RemoveIInv ==
    ASSUME IInv, NEW r \in Requests, Remove(r)
    PROVE  IInv'
<1>1. /\ pc[r] = "remove" /\ Goto(r, "done")
      /\ UNCHANGED <<entries, audits, notices, mails, given>>
      /\ UNCHANGED <<op, ev, key, was, cal, newId, todo>>
  BY DEF Remove, locals
<1>2. docs' \in [Keys -> Docs \union {NoDoc}]
  BY DEF Remove, IInv, TypeOK
<1>3. StoresTyped' /\ ScratchTyped' /\ pc[r] \notin Early
  BY <1>1, <1>2, TypeParts DEF IInv, StoresTyped, ScratchTyped, Early
<1>4. "done" \in Labels
  BY DEF Labels, Ended, Answered
<1>. QED
  BY <1>1, <1>3, <1>4, SameEventStep DEF StoresTyped, ScratchTyped, Early

\* The second read keeps the types.
LEMMA RereadIInv ==
    ASSUME IInv, NEW r \in Requests, Reread(r)
    PROVE  IInv'
<1>1. pc[r] = "reread" /\ TypeOK
  BY DEF Reread, IInv
<1>2. CASE NotFound(r)
  BY <1>1, <1>2, NotFoundIInv
<1>3. CASE ~NotFound(r)
  <2>1. PICK k \in Keys :
          /\ Matching(ev[r].acct, ev[r].id) = {k}
          /\ key' = [key EXCEPT ![r] = k]
          /\ was' = [was EXCEPT ![r] = docs[k].data]
          /\ Goto(r, "calendar")
          /\ UNCHANGED <<op, ev, cal, newId, todo>>
          /\ OnlyLocal
    BY <1>3 DEF Reread
  <2>2. docs[k] \in Docs
    BY <1>1, <2>1 DEF Matching, Stored, TypeOK
  <2>3. docs[k].data \in Data
    BY <2>2, DocFields
  <2>4. key' \in [Requests -> Keys] /\ was' \in [Requests -> Data]
    BY <1>1, <2>1, <2>3 DEF TypeOK
  <2>5. StoresTyped' /\ ScratchTyped' /\ pc[r] \notin Early
    BY <1>1, <2>1, <2>4, TypeParts DEF OnlyLocal, stores, StoresTyped, ScratchTyped, Early
  <2>6. "calendar" \in Labels
    BY DEF Labels, Main
  <2>. QED
    BY <2>1, <2>5, <2>6, SameEventStep DEF StoresTyped, ScratchTyped, Early
<1>. QED
  BY <1>2, <1>3

\* Reading the source of a saved link keeps the types.
LEMMA SourceIInv ==
    ASSUME IInv, NEW r \in Requests, Source(r)
    PROVE  IInv'
<1>1. pc[r] = "source" /\ TypeOK /\ Control /\ ev[r] \in Docs
  BY DEF Source, IInv, TypeOK
<1>2. CASE NotFound(r)
  BY <1>1, <1>2, NotFoundIInv
<1>3. CASE ~NotFound(r)
  <2>. DEFINE x(k) == Differences(docs[k].data, ev[r].data)
  <2>1. PICK k \in Keys :
          /\ Matching(ev[r].target[1], ev[r].target[2]) = {k}
          /\ ev' = [ev EXCEPT ![r].extra = x(k)]
          /\ Goto(r, "patch")
          /\ UNCHANGED <<op, key, was, cal, newId, todo>>
          /\ OnlyLocal
    BY <1>3 DEF Source
  <2>2. docs[k] \in Docs
    BY <1>1, <2>1 DEF Matching, Stored, TypeOK
  <2>3. x(k) \in Data
    BY <1>1, <2>2, DocFields, DifferencesTyped
  <2>. HIDE DEF x
  <2>4. ev[r] \in [acct : Accounts, id : Ids, kind : {"REGULAR", "LINKED"},
                   target : Refs, data : Data, extra : Data]
    BY <1>1 DEF Docs
  <2>5. ev'[r] = [ev[r] EXCEPT !.extra = x(k)] /\ ev' = [ev EXCEPT ![r] = ev'[r]]
    BY <1>1, <2>1 DEF TypeOK
  <2>6. ev'[r] = [acct |-> ev[r].acct, id |-> ev[r].id, kind |-> ev[r].kind,
                  target |-> ev[r].target, data |-> ev[r].data, extra |-> x(k)]
    BY <2>4, <2>5
  <2>7. ev'[r] \in Docs /\ ev'[r].kind = ev[r].kind
    BY <1>1, <2>3, <2>6, DocFields DEF Docs
  <2>8. StoresTyped' /\ ScratchTyped' /\ op' = op
    BY <1>1, <2>1, TypeParts DEF OnlyLocal, stores, StoresTyped, ScratchTyped
  <2>9. pc' = [pc EXCEPT ![r] = pc'[r]] /\ pc'[r] = "patch" /\ pc'[r] \in Labels
    BY <1>1, <2>1 DEF Goto, TypeOK, Labels, Main
  <2>10. TypeOK' /\ \A s \in Requests \ {r} : pc'[s] = pc[s] /\ ev'[s] = ev[s]
    BY <1>1, <2>5, <2>7, <2>8, <2>9, LocalStep
  <2>11. Control'
    BY <1>1, <2>7, <2>8, <2>9, <2>10 DEF Control, Early
  <2>. QED
    BY <2>10, <2>11 DEF IInv
<1>. QED
  BY <1>2, <1>3

\* A patch leaves every document under the account and id it had.
LEMMA PatchedTyped ==
    ASSUME docs \in [Keys -> Docs \union {NoDoc}], NEW new \in Docs
    PROVE  /\ Patched(new) \in [Keys -> Docs \union {NoDoc}]
           /\ \A k \in Keys :
                 /\ docs[k] = NoDoc => Patched(new)[k] = NoDoc
                 /\ docs[k] # NoDoc => /\ Patched(new)[k] # NoDoc
                                      /\ Patched(new)[k].acct = docs[k].acct
                                      /\ Patched(new)[k].id = docs[k].id
<1>. DEFINE p(k) == IF k \in Matching(new.acct, new.id)
                    THEN PatchedDoc(docs[k], new) ELSE docs[k]
<1>1. ASSUME NEW k \in Keys
      PROVE  /\ docs[k] = NoDoc => p(k) = NoDoc
             /\ docs[k] # NoDoc => p(k) \in Docs /\ p(k).acct = docs[k].acct
                                  /\ p(k).id = docs[k].id
  <2>1. CASE docs[k] = NoDoc
    BY <2>1 DEF Matching, Stored
  <2>2. CASE docs[k] # NoDoc
    <3>1. docs[k] \in Docs
      BY <2>2
    <3>. QED
      BY <2>2, <3>1, PatchedDocTyped
  <2>. QED
    BY <2>1, <2>2
<1>2. Patched(new) = [k \in Keys |-> p(k)]
  BY DEF Patched
<1>. HIDE DEF p
<1>. QED
  BY <1>1, <1>2, ConstantsOK

\* What a save writes is a document.
LEMMA SavedDocTyped ==
    ASSUME IInv, NEW r \in Requests, pc[r] # "idle"
    PROVE  SavedDoc(r) \in Docs
<1>1. ev[r] \in Docs /\ cal[r] \in {NoEntry} \union Entries
  BY DEF IInv, TypeOK
<1>2. ev[r] \in [acct : Accounts, id : Ids, kind : {"REGULAR", "LINKED"},
                 target : Refs, data : Data, extra : Data]
  BY <1>1 DEF Docs
<1>. DEFINE x == IF ev[r].kind = "LINKED"
                 THEN [Nothing EXCEPT !.times = ev[r].data.times, !.cal = cal[r]]
                 ELSE [ev[r].data EXCEPT !.cal = cal[r]]
<1>3. x \in Data /\ (ev[r].kind # "LINKED" => x.debrief = ev[r].data.debrief)
  BY <1>1, <1>2, NothingTyped DEF Data
<1>4. SavedDoc(r) = [ev[r] EXCEPT !.data = x]
  BY <1>2 DEF SavedDoc
<1>. HIDE DEF x
<1>5. SavedDoc(r) = [acct |-> ev[r].acct, id |-> ev[r].id, kind |-> ev[r].kind,
                     target |-> ev[r].target, data |-> x, extra |-> ev[r].extra]
  BY <1>2, <1>4
<1>. QED
  BY <1>1, <1>3, <1>5, DocFields DEF Docs

\* A link with other times is a document.
LEMMA RetimedTyped ==
    ASSUME NEW r \in Requests, ev[r] \in Docs, NEW link \in Docs
    PROVE  Retimed(link, r) \in Docs
<1>1. link \in [acct : Accounts, id : Ids, kind : {"REGULAR", "LINKED"},
                target : Refs, data : Data, extra : Data]
  BY DEF Docs
<1>. DEFINE x == [link.data EXCEPT !.times = ev[r].data.times]
<1>2. x \in Data /\ x.debrief = link.data.debrief
  BY DocFields DEF Data
<1>3. Retimed(link, r) = [link EXCEPT !.data = x]
  BY <1>1 DEF Retimed
<1>. HIDE DEF x
<1>4. Retimed(link, r) = [acct |-> link.acct, id |-> link.id, kind |-> link.kind,
                          target |-> link.target, data |-> x, extra |-> link.extra]
  BY <1>1, <1>3
<1>. QED
  BY <1>2, <1>4, DocFields DEF Docs

\* A save keeps the types.
LEMMA PatchIInv ==
    ASSUME IInv, NEW r \in Requests, Patch(r)
    PROVE  IInv'
<1>. DEFINE l == IF ev[r].kind = "LINKED" THEN "done" ELSE "links"
<1>1. /\ pc[r] = "patch" /\ docs' = Patched(SavedDoc(r)) /\ Goto(r, l)
      /\ UNCHANGED <<entries, audits, notices, mails, given>>
      /\ UNCHANGED <<op, ev, key, was, cal, newId, todo>>
  BY DEF Patch, locals
<1>2. SavedDoc(r) \in Docs
  BY <1>1, SavedDocTyped
<1>3. docs' \in [Keys -> Docs \union {NoDoc}]
  BY <1>1, <1>2, PatchedTyped DEF IInv, TypeOK
<1>4. StoresTyped' /\ ScratchTyped'
  BY <1>1, <1>3, TypeParts DEF IInv, StoresTyped, ScratchTyped
<1>5. l \in Labels /\ l \notin {"resolve", "insert"} /\ pc[r] \notin Early
  BY <1>1 DEF Labels, Ended, Answered, Tapped, Early
<1>. HIDE DEF l
<1>. QED
  BY <1>1, <1>4, <1>5, SameEventStep DEF StoresTyped, ScratchTyped, Early

\* getLinkedEvents returns documents.
LEMMA LinksIInv ==
    ASSUME IInv, NEW r \in Requests, Links(r)
    PROVE  IInv'
<1>. DEFINE found == {[doc |-> docs[k], for |-> k] : k \in LinksTo(ev[r].acct, ev[r].id)}
<1>1. /\ pc[r] \in {"links", "linksAgain"} /\ Goto(r, AfterTap(r))
      /\ todo' = [todo EXCEPT ![r] = found]
      /\ UNCHANGED <<op, ev, key, was, cal, newId>> /\ OnlyLocal
  BY DEF Links
<1>2. found \subseteq [doc : Docs, for : Keys]
  BY DEF LinksTo, Stored, IInv, TypeOK
<1>. HIDE DEF found
<1>3. todo' \in [Requests -> SUBSET [doc : Docs, for : Keys]]
  BY <1>1, <1>2 DEF IInv, TypeOK
<1>4. StoresTyped' /\ ScratchTyped' /\ pc[r] \notin Early
  BY <1>1, <1>3, TypeParts DEF IInv, OnlyLocal, stores, StoresTyped, ScratchTyped, Early
<1>. QED
  BY <1>1, <1>4, AfterTapTyped, SameEventStep DEF StoresTyped, ScratchTyped, Early

\* Steps that leave the event in memory alone and may stay where they are.
LEMMA LoopStep ==
    ASSUME IInv, NEW r \in Requests, pc[r] \notin Early, pc[r] # "insert",
           Goto(r, AfterTap(r)) \/ pc' = pc, op' = op, ev' = ev,
           StoresTyped', ScratchTyped'
    PROVE  IInv'
<1>1. pc[r] \in Labels /\ pc[r] # "idle" /\ pc[r] # "resolve"
  BY DEF IInv, TypeOK, Early
<1>2. CASE Goto(r, AfterTap(r))
  BY <1>1, <1>2, AfterTapTyped, SameEventStep DEF StoresTyped, ScratchTyped
<1>3. CASE pc' = pc
  <2>1. Goto(r, pc[r])
    BY <1>3 DEF Goto, IInv, TypeOK
  <2>. QED
    BY <1>1, <2>1, SameEventStep DEF StoresTyped, ScratchTyped
<1>. QED
  BY <1>2, <1>3

\* The replacement of a link's entry keeps the types.
LEMMA LinkCalendarIInv ==
    ASSUME IInv, NEW r \in Requests, LinkCalendar(r)
    PROVE  IInv'
<1>1. /\ TypeOK /\ pc[r] = "linkCalendar"
      /\ UNCHANGED <<docs, audits, notices, mails, op, ev, key, was, cal, newId, given>>
  BY DEF LinkCalendar, IInv
<1>2. CASE todo[r] = {} /\ Goto(r, AfterTap(r)) /\ UNCHANGED <<entries, todo>>
  <2>1. StoresTyped' /\ ScratchTyped'
    BY <1>1, <1>2, TypeParts DEF StoresTyped, ScratchTyped
  <2>. QED
    BY <1>1, <1>2, <2>1, LoopStep DEF StoresTyped, ScratchTyped, Early
<1>3. CASE ~(todo[r] = {} /\ Goto(r, AfterTap(r)) /\ UNCHANGED <<entries, todo>>)
  <2>1. PICK l \in todo[r] :
          \E left \in Without(l.doc.acct, l.doc.data.cal, "linkCalendar" \in Failing) :
             \/ /\ entries' = IF ev[r].data.status = "DRAFT" THEN left
                               ELSE left \union {[on |-> l.doc.acct, by |-> r, for |-> l.for]}
                /\ todo' = [todo EXCEPT ![r] = @ \ {l}]
                /\ UNCHANGED pc
             \/ /\ entries' = left
                /\ todo' = [todo EXCEPT ![r] = {}]
                /\ Goto(r, AfterTap(r))
    BY <1>3 DEF LinkCalendar
  <2>2. PICK left \in Without(l.doc.acct, l.doc.data.cal, "linkCalendar" \in Failing) :
          /\ entries' \in {left, left \union {[on |-> l.doc.acct, by |-> r, for |-> l.for]}}
          /\ \/ todo' = [todo EXCEPT ![r] = @ \ {l}] /\ UNCHANGED pc
             \/ todo' = [todo EXCEPT ![r] = {}] /\ Goto(r, AfterTap(r))
    BY <2>1
  <2>3. todo[r] \subseteq [doc : Docs, for : Keys] /\ l.doc \in Docs /\ l.for \in Keys
    BY <1>1 DEF TypeOK
  <2>4. [on |-> l.doc.acct, by |-> r, for |-> l.for] \in Entries
    BY <2>3, DocFields DEF Entries, Keys
  <2>5. left \subseteq Entries
    BY <1>1, WithoutTyped DEF TypeOK
  <2>6. entries' \subseteq Entries
    BY <2>2, <2>4, <2>5
  <2>7. todo' \in [Requests -> SUBSET [doc : Docs, for : Keys]]
    BY <1>1, <2>2, <2>3 DEF TypeOK
  <2>8. StoresTyped' /\ ScratchTyped'
    BY <1>1, <2>6, <2>7, TypeParts DEF StoresTyped, ScratchTyped
  <2>. QED
    BY <1>1, <2>2, <2>8, LoopStep DEF StoresTyped, ScratchTyped, Early
<1>. QED
  BY <1>2, <1>3

\* Writing a link back keeps the types.
LEMMA LinkPatchIInv ==
    ASSUME IInv, NEW r \in Requests, LinkPatch(r)
    PROVE  IInv'
<1>1. /\ TypeOK /\ pc[r] = "linkPatch" /\ ev[r] \in Docs
      /\ UNCHANGED <<entries, audits, notices, mails, op, ev, key, was, cal, newId, given>>
  BY DEF LinkPatch, IInv, TypeOK
<1>2. CASE todo[r] = {} /\ Goto(r, AfterTap(r)) /\ UNCHANGED <<docs, todo>>
  <2>1. StoresTyped' /\ ScratchTyped'
    BY <1>1, <1>2, TypeParts DEF StoresTyped, ScratchTyped
  <2>. QED
    BY <1>1, <1>2, <2>1, LoopStep DEF StoresTyped, ScratchTyped, Early
<1>3. CASE ~(todo[r] = {} /\ Goto(r, AfterTap(r)) /\ UNCHANGED <<docs, todo>>)
  <2>1. PICK l \in todo[r] :
          /\ docs' = Patched(Retimed(l.doc, r)) \/ docs' = docs
          /\ todo' = [todo EXCEPT ![r] = @ \ {l}]
          /\ UNCHANGED pc
    BY <1>3 DEF LinkPatch
  <2>2. todo[r] \subseteq [doc : Docs, for : Keys] /\ l.doc \in Docs
    BY <1>1 DEF TypeOK
  <2>3. Retimed(l.doc, r) \in Docs
    BY <1>1, <2>2, RetimedTyped
  <2>4. docs' \in [Keys -> Docs \union {NoDoc}]
    BY <1>1, <2>1, <2>3, PatchedTyped DEF TypeOK
  <2>5. todo' \in [Requests -> SUBSET [doc : Docs, for : Keys]]
    BY <1>1, <2>1, <2>2 DEF TypeOK
  <2>6. StoresTyped' /\ ScratchTyped'
    BY <1>1, <2>4, <2>5, TypeParts DEF StoresTyped, ScratchTyped
  <2>. QED
    BY <1>1, <2>1, <2>6, LoopStep DEF StoresTyped, ScratchTyped, Early
<1>. QED
  BY <1>2, <1>3

\* One case for each action.
LEMMA StepIInv ==
    ASSUME IInv, NEW r \in Requests, Arrive(r) \/ Step(r) \/ Fail(r) \/ Skip(r) \/ Crash(r)
    PROVE  IInv'
<1>1. CASE Arrive(r)
  BY <1>1, ArriveIInv
<1>2. CASE Fail(r) \/ Skip(r) \/ Crash(r)
  BY <1>2, FailIInv, SkipIInv, CrashIInv
<1>3. CASE Read(r) \/ Resolve(r) \/ NewID(r) \/ CalendarCalls(r) \/ Insert(r)
  BY <1>3, ReadIInv, ResolveIInv, NewIDIInv, CalendarIInv, InsertIInv
<1>4. CASE Audit(r) \/ Remove(r) \/ Reread(r) \/ Source(r) \/ Notify(r) \/ Mail(r)
  BY <1>4, AuditIInv, RemoveIInv, RereadIInv, SourceIInv, NotifyIInv, MailIInv
<1>5. CASE Patch(r) \/ Links(r) \/ LinkCalendar(r) \/ LinkPatch(r)
  BY <1>5, PatchIInv, LinksIInv, LinkCalendarIInv, LinkPatchIInv
<1>. QED
  BY <1>1, <1>2, <1>3, <1>4, <1>5 DEF Step

\* A step that changes nothing.
LEMMA StutterIInv == IInv /\ UNCHANGED vars => IInv'
BY DEF IInv, TypeOK, Control, vars

\* IInv is inductive.
LEMMA NextIInv == IInv /\ [Next]_vars => IInv'
BY StepIInv, StutterIInv DEF Next, Rest

\* Every document, request and calendar entry keeps its shape, whichever calls
\* fail and however the requests interleave.
THEOREM TypeCorrect == Spec => []TypeOK
<1>1. IInv => TypeOK
  BY DEF IInv
<1>. QED
  BY <1>1, InitIInv, NextIInv, PTL DEF Spec

-----------------------------------------------------------------------------
(* References are unique when creations are made one at a time.  The         *)
(* strengthening says why: only one request is between getNewID and the      *)
(* insertion, nothing else stores documents or moves them to another         *)
(* reference, and so the id it was given is still free.                      *)

CreationsAlone ==
    \A i \in DOMAIN Conditions : \E g \in Conditions[i].serial : Creators \subseteq g

OneCreation ==
    \A r, s \in Requests :
        Active(r) /\ Active(s) /\ op[r].name \in Creators /\ op[s].name \in Creators
        => r = s

\* A request's own document appears when the request inserts it, and only the
\* savers read an event twice.
Paths ==
    \A r \in Requests :
        /\ docs[r] # NoDoc => pc[r] \in {"audit", "done", "lost"} /\ op[r].name \in Creators
        /\ pc[r] = "reread" => op[r].name \in Savers

RefInv == IInv /\ UniqueRefs /\ FreshIds /\ OneCreation /\ Paths

\* No operation is of two kinds.
LEMMA DisjointNames == Creators \intersect Savers = {} /\ "delete" \notin Creators
BY DEF Creators, Savers

\* No document appears and none moves.
NoNewRefs ==
    \A k \in Keys : docs'[k] # NoDoc =>
        docs[k] # NoDoc /\ docs'[k].acct = docs[k].acct /\ docs'[k].id = docs[k].id

\* Such a step keeps references unique and free ones free.
LEMMA NoNewRefsKeeps ==
    ASSUME NoNewRefs
    PROVE  /\ UniqueRefs => UniqueRefs'
           /\ \A a, i : Matching(a, i) = {} => Matching(a, i)' = {}
BY DEF NoNewRefs, UniqueRefs, Matching, Stored

\* A step that leaves the collection alone is one,
LEMMA SameDocsNoNewRefs == docs' = docs => NoNewRefs
BY DEF NoNewRefs

\* and so is a patch.
LEMMA PatchNoNewRefs ==
    ASSUME TypeOK, NEW new \in Docs, docs' = Patched(new)
    PROVE  NoNewRefs
BY PatchedTyped DEF NoNewRefs, TypeOK

\* May a request go on at l without a new id or a second insertion?
Fine(r, l) ==
    /\ l \in {"calendar", "insert"} /\ op[r].name \in Creators => pc[r] = "calendar"
    /\ pc[r] = "audit" /\ op[r].name \in Creators => l = "done"
    /\ l = "reread" => op[r].name \in Savers

\* A request that goes to such a place is there.
LEMMA GotoFine ==
    ASSUME TypeOK, NEW r \in Requests, NEW l, Goto(r, l), Fine(r, l)
    PROVE  pc' = [pc EXCEPT ![r] = pc'[r]] /\ Fine(r, pc'[r])
<1>1. pc' = [pc EXCEPT ![r] = pc'[r]] /\ pc'[r] = l
  BY DEF TypeOK, Goto
<1>. QED
  BY <1>1

\* Steps past the arrival that store nothing and give out no id.
LEMMA RefStep ==
    ASSUME RefInv, NEW r \in Requests, Active(r), NoNewRefs,
           op' = op, newId' = newId,
           pc' = [pc EXCEPT ![r] = pc'[r]], Fine(r, pc'[r])
    PROVE  UniqueRefs' /\ FreshIds' /\ OneCreation' /\ Paths'
<1>1. TypeOK /\ UniqueRefs /\ FreshIds /\ OneCreation /\ Paths
  BY DEF RefInv, IInv
<1>2. /\ UniqueRefs'
      /\ \A a, i : Matching(a, i) = {} => Matching(a, i)' = {}
  BY <1>1, NoNewRefsKeeps
<1>3. \A s \in Requests \ {r} : pc'[s] = pc[s]
  BY <1>1 DEF TypeOK
<1>4. \A s \in Requests : Home(s)' = Home(s) /\ newId'[s] = newId[s] /\ op'[s] = op[s]
  BY DEF Home
<1>5. FreshIds'
  <2>. SUFFICES ASSUME NEW s \in Requests, pc'[s] \in {"calendar", "insert"},
                       op[s].name \in Creators
                PROVE  Matching(Home(s), newId[s])' = {}
    BY <1>4 DEF FreshIds
  <2>1. pc[s] \in {"calendar", "insert"}
    BY <1>3 DEF Fine
  <2>2. Matching(Home(s), newId[s]) = {}
    BY <1>1, <2>1 DEF FreshIds
  <2>. DEFINE a == Home(s)
              i == newId[s]
  <2>3. a' = a /\ i' = i
    BY <1>4
  <2>. HIDE DEF a, i
  <2>4. Matching(a, i) = {} => Matching(a, i)' = {}
    BY <1>2, <2>3 DEF Matching, Stored
  <2>. QED
    BY <2>2, <2>4 DEF a, i
<1>6. OneCreation'
  BY <1>1, <1>3, <1>4 DEF OneCreation, Active
<1>7. Paths'
  <2>1. \A s \in Requests : docs'[s] # NoDoc => docs[s] # NoDoc
    BY DEF NoNewRefs, Keys
  <2>2. docs[r] # NoDoc => pc[r] = "audit" /\ op[r].name \in Creators
    BY <1>1 DEF Paths, Active, Ended, Answered
  <2>. QED
    BY <1>1, <1>3, <1>4, <2>1, <2>2 DEF Paths, Fine
<1>. QED
  BY <1>2, <1>5, <1>6, <1>7

\* The seeds have references of their own.
LEMMA InitRefInv == Init => RefInv
<1>. SUFFICES ASSUME Init PROVE RefInv
  OBVIOUS
<1>1. IInv
  BY InitIInv
<1>2. \A r \in Requests : pc[r] = "idle" /\ docs[r] = NoDoc
  BY ConstantsOK DEF Init, Keys
<1>3. UniqueRefs
  <2>1. \A k \in Stored : k \in SeedKeys /\ docs[k] = Seeds[k]
    BY DEF Init, Stored
  <2>. QED
    BY <2>1, SeedsUnique DEF UniqueRefs
<1>4. FreshIds /\ OneCreation /\ Paths
  BY <1>2 DEF FreshIds, OneCreation, Paths, Active
<1>. QED
  BY <1>1, <1>3, <1>4 DEF RefInv

\* A creation comes in only when no other one is under way.
LEMMA ArriveRefInv ==
    ASSUME CreationsAlone, RefInv, NEW r \in Requests, Arrive(r)
    PROVE  UniqueRefs' /\ FreshIds' /\ OneCreation' /\ Paths'
<1>1. TypeOK /\ UniqueRefs /\ FreshIds /\ OneCreation /\ Paths
  BY DEF RefInv, IInv
<1>2. PICK g \in Serial : Creators \subseteq g
  BY DEF CreationsAlone, Serial, RefInv, IInv, TypeOK
<1>3. PICK o \in Menu :
        /\ o.name \in g => ~\E s \in Requests : Active(s) /\ op[s].name \in g
        /\ op' = [op EXCEPT ![r] = o]
        /\ Goto(r, IF o.name = "add" THEN "newID" ELSE "read")
  BY DEF Arrive
<1>4. /\ pc'[r] \in {"newID", "read"} /\ op'[r] = o
      /\ \A s \in Requests \ {r} : pc'[s] = pc[s] /\ op'[s] = op[s]
  BY <1>1, <1>3 DEF TypeOK, Goto
<1>5. docs' = docs /\ newId' = newId
  BY DEF Arrive, OnlyLocal, stores
<1>6. UniqueRefs'
  BY <1>1, <1>5, SameDocsNoNewRefs, NoNewRefsKeeps
<1>7. FreshIds'
  BY <1>1, <1>4, <1>5 DEF FreshIds, Home, Matching, Stored
<1>8. OneCreation'
  <2>. SUFFICES ASSUME NEW s \in Requests, NEW t \in Requests,
                       Active(s)', Active(t)',
                       op'[s].name \in Creators, op'[t].name \in Creators, s # t
                PROVE  FALSE
    BY DEF OneCreation
  <2>1. CASE s # r /\ t # r
    BY <1>1, <1>4, <2>1 DEF OneCreation, Active
  <2>2. CASE s = r
    BY <1>2, <1>3, <1>4, <2>2 DEF Active
  <2>3. CASE t = r
    BY <1>2, <1>3, <1>4, <2>3 DEF Active
  <2>. QED
    BY <2>1, <2>2, <2>3
<1>9. Paths'
  <2>1. pc[r] = "idle"
    BY DEF Arrive
  <2>2. docs[r] = NoDoc
    BY <1>1, <2>1 DEF Paths
  <2>. QED
    BY <1>1, <1>4, <1>5, <2>2 DEF Paths
<1>. QED
  BY <1>6, <1>7, <1>8, <1>9

\* The id is greater than every id of the account, and so free.
LEMMA NewIDRefInv ==
    ASSUME RefInv, NEW r \in Requests, NewID(r)
    PROVE  UniqueRefs' /\ FreshIds' /\ OneCreation' /\ Paths'
<1>1. TypeOK /\ UniqueRefs /\ FreshIds /\ OneCreation /\ Paths
  BY DEF RefInv, IInv
<1>2. PICK n \in Ids : IsNextId(Home(r), n) /\ newId' = [newId EXCEPT ![r] = n]
  BY DEF NewID
<1>3. pc[r] = "newID" /\ docs' = docs /\ op' = op /\ Goto(r, "calendar")
  BY DEF NewID, OnlyLocal, stores
<1>4. /\ pc'[r] = "calendar" /\ newId'[r] = n
      /\ \A s \in Requests \ {r} : pc'[s] = pc[s] /\ newId'[s] = newId[s]
  BY <1>1, <1>2, <1>3 DEF TypeOK, Goto
<1>5. UniqueRefs'
  BY <1>1, <1>3, SameDocsNoNewRefs, NoNewRefsKeeps
<1>6. Matching(Home(r), n) = {}
  <2>. DEFINE ids == {docs[k].id : k \in {j \in Stored : docs[j].acct = Home(r)}}
  <2>1. n \in Int /\ \A i \in ids : i \in Int
    BY <1>1, ConstantsOK DEF Ids, Stored, TypeOK, Docs
  <2>2. n \notin ids
    <3>1. (ids = {}) \/ (\A i \in ids : i < n)
      BY <1>2 DEF IsNextId
    <3>. HIDE DEF ids
    <3>. QED
      BY <2>1, <3>1
  <2>. QED
    BY <2>2 DEF Matching
<1>7. FreshIds'
  BY <1>1, <1>3, <1>4, <1>6 DEF FreshIds, Home, Matching, Stored
<1>8. OneCreation'
  BY <1>1, <1>3, <1>4 DEF OneCreation, Active, Ended, Answered
<1>9. Paths'
  BY <1>1, <1>3, <1>4 DEF Paths
<1>. QED
  BY <1>5, <1>7, <1>8, <1>9

\* The insertion stores the document under an id that is still free.
LEMMA InsertRefInv ==
    ASSUME RefInv, NEW r \in Requests, Insert(r)
    PROVE  UniqueRefs' /\ FreshIds' /\ OneCreation' /\ Paths'
<1>1. TypeOK /\ Control /\ UniqueRefs /\ FreshIds /\ OneCreation /\ Paths
  BY DEF RefInv, IInv
<1>2. /\ pc[r] = "insert" /\ op[r].name \in Creators /\ op' = op /\ newId' = newId
      /\ docs' = [docs EXCEPT ![r] = NewDoc(r)]
  BY <1>1 DEF Insert, Control, locals
<1>3. /\ pc'[r] \in {"done", "audit"}
      /\ \A s \in Requests \ {r} : pc'[s] = pc[s]
  BY <1>1 DEF Insert, Goto, TypeOK
<1>4. Matching(Home(r), newId[r]) = {}
  BY <1>1, <1>2 DEF FreshIds
<1>5. /\ docs'[r] = NewDoc(r) /\ NewDoc(r).acct = Home(r) /\ NewDoc(r).id = newId[r]
      /\ \A k \in Keys \ {r} : docs'[k] = docs[k]
  BY <1>1, <1>2, NewDocTyped DEF RefInv, TypeOK, Keys
<1>6. UniqueRefs'
  <2>. SUFFICES ASSUME NEW j \in Keys, NEW k \in Keys,
                       docs'[j] # NoDoc, docs'[k] # NoDoc,
                       docs'[j].acct = docs'[k].acct, docs'[j].id = docs'[k].id, j # k
                PROVE  FALSE
    BY DEF UniqueRefs, Stored
  <2>1. CASE j # r /\ k # r
    BY <1>1, <1>5, <2>1 DEF UniqueRefs, Stored
  <2>2. CASE j = r
    BY <1>4, <1>5, <2>2 DEF Matching, Stored
  <2>3. CASE k = r
    BY <1>4, <1>5, <2>3 DEF Matching, Stored
  <2>. QED
    BY <2>1, <2>2, <2>3
<1>7. FreshIds'
  <2>. SUFFICES ASSUME NEW s \in Requests, pc'[s] \in {"calendar", "insert"},
                       op'[s].name \in Creators
                PROVE  FALSE
    BY DEF FreshIds
  <2>1. s # r /\ pc[s] \in {"calendar", "insert"}
    BY <1>3
  <2>2. Active(s) /\ Active(r)
    BY <1>2, <2>1 DEF Active, Ended, Answered
  <2>. QED
    BY <1>1, <1>2, <2>1, <2>2 DEF OneCreation
<1>8. OneCreation'
  BY <1>1, <1>2, <1>3 DEF OneCreation, Active, Ended, Answered
<1>9. Paths'
  BY <1>1, <1>2, <1>3, <1>5 DEF Paths, Keys
<1>. QED
  BY <1>6, <1>7, <1>8, <1>9

\* Steps that leave the collection alone and give out no id.
LEMMA LocalRefInv ==
    ASSUME RefInv, NEW r \in Requests,
           \/ Read(r) \/ Resolve(r) \/ CalendarCalls(r) \/ Audit(r) \/ Reread(r)
           \/ Source(r) \/ Notify(r) \/ Mail(r) \/ Links(r) \/ LinkCalendar(r)
           \/ Fail(r) \/ Skip(r)
    PROVE  UniqueRefs' /\ FreshIds' /\ OneCreation' /\ Paths'
<1>1. TypeOK /\ Control /\ Paths
  BY DEF RefInv, IInv
<1>. DEFINE Lands == pc' = [pc EXCEPT ![r] = pc'[r]] /\ Fine(r, pc'[r])
<1>2. Active(r) /\ docs' = docs /\ op' = op /\ newId' = newId
  BY DEF Read, Resolve, NotFound, CalendarCalls, Audit, Reread, Source, Notify, Mail,
         Links, LinkCalendar, Fail, Skip, OnlyLocal, stores, locals, Active, Ended,
         Answered, Main, Tapped, Streamed
<1>3. pc[r] # "audit" => Fine(r, "failed") /\ Fine(r, "resolve")
  BY DEF Fine
<1>4. ASSUME Read(r) \/ Resolve(r) PROVE Lands
  <2>1. AfterRead(r) # "insert" /\ (AfterRead(r) = "calendar" => op[r].name = "delete")
        /\ (AfterRead(r) = "reread" => op[r].name \in Savers)
    BY DEF AfterRead
  <2>2. pc[r] # "audit"
    BY <1>4 DEF Read, Resolve
  <2>3. Fine(r, AfterRead(r))
    BY <2>1, <2>2, DisjointNames DEF Fine
  <2>4. Goto(r, AfterRead(r)) \/ Goto(r, "failed") \/ Goto(r, "resolve")
    BY <1>4 DEF Read, Resolve, NotFound
  <2>. QED
    BY <1>1, <1>3, <2>2, <2>3, <2>4, GotoFine
<1>5. ASSUME CalendarCalls(r) PROVE Lands
  <2>1. \E l : Goto(r, l) /\ pc[r] = "calendar" /\ l # "reread"
    BY <1>5 DEF CalendarCalls
  <2>. QED
    BY <1>1, <2>1, GotoFine DEF Fine
<1>6. ASSUME Reread(r) \/ Source(r) PROVE Lands
  <2>1. Goto(r, "failed") \/ Goto(r, "patch") \/ (pc[r] = "reread" /\ Goto(r, "calendar"))
    BY <1>6 DEF Reread, Source, NotFound
  <2>2. pc[r] # "audit" /\ (pc[r] = "reread" => op[r].name \in Savers)
    BY <1>1, <1>6 DEF Reread, Source, Paths
  <2>3. Fine(r, "patch") /\ (pc[r] = "reread" => Fine(r, "calendar"))
    BY <2>2, DisjointNames DEF Fine
  <2>. QED
    BY <1>1, <1>3, <2>1, <2>2, <2>3, GotoFine
<1>7. Fine(r, AfterTap(r))
  BY DisjointNames DEF AfterTap, Fine
<1>8. ASSUME Audit(r) \/ Notify(r) \/ Mail(r) \/ Links(r) \/ Skip(r) PROVE Lands
  <2>1. Goto(r, AfterTap(r))
    BY <1>8 DEF Audit, Notify, Mail, Links, Skip
  <2>. QED
    BY <1>1, <1>7, <2>1, GotoFine
<1>9. ASSUME LinkCalendar(r) PROVE Lands
  <2>1. pc[r] = "linkCalendar" /\ (pc' = pc \/ Goto(r, AfterTap(r)))
    BY <1>9 DEF LinkCalendar
  <2>2. pc' = pc => Goto(r, "linkCalendar")
    BY <1>1, <2>1 DEF Goto, TypeOK
  <2>3. Fine(r, "linkCalendar")
    BY <2>1 DEF Fine
  <2>. QED
    BY <1>1, <1>7, <2>1, <2>2, <2>3, GotoFine
<1>10. ASSUME Fail(r) PROVE Lands
  BY <1>1, <1>3, <1>10, GotoFine DEF Fail, Main
<1>. HIDE DEF Lands
<1>12. Lands
  BY <1>4, <1>5, <1>6, <1>8, <1>9, <1>10
<1>. QED
  BY <1>2, <1>12, SameDocsNoNewRefs, RefStep DEF Lands

\* A process that ends takes its creations with it.
LEMMA CrashRefInv ==
    ASSUME RefInv, NEW r \in Requests, Crash(r)
    PROVE  UniqueRefs' /\ FreshIds' /\ OneCreation' /\ Paths'
<1>1. UniqueRefs /\ FreshIds /\ OneCreation /\ Paths
  BY DEF RefInv
<1>2. docs' = docs /\ op' = op /\ newId' = newId
  BY CrashEnds DEF locals, stores
<1>3. \A s \in Requests : pc'[s] = pc[s] \/ (pc'[s] = "lost" /\ Active(s))
  BY CrashEnds
<1>4. UniqueRefs'
  BY <1>1, <1>2 DEF UniqueRefs, Stored
<1>5. FreshIds'
  BY <1>1, <1>2, <1>3 DEF FreshIds, Matching, Stored, Home
<1>6. OneCreation'
  BY <1>1, <1>2, <1>3 DEF OneCreation, Active, Ended
<1>7. Paths'
  BY <1>1, <1>2, <1>3 DEF Paths
<1>. QED
  BY <1>4, <1>5, <1>6, <1>7

\* Patches and deletions move no document.
LEMMA WriteRefInv ==
    ASSUME RefInv, NEW r \in Requests, Remove(r) \/ Patch(r) \/ LinkPatch(r)
    PROVE  UniqueRefs' /\ FreshIds' /\ OneCreation' /\ Paths'
<1>1. TypeOK /\ IInv /\ Active(r) /\ pc[r] # "idle" /\ ev[r] \in Docs
  BY DEF RefInv, IInv, Remove, Patch, LinkPatch, Active, Ended, Answered, TypeOK
<1>2. pc[r] # "audit" /\ op' = op /\ newId' = newId
  BY DEF Remove, Patch, LinkPatch, locals
<1>3. NoNewRefs
  <2>1. CASE Remove(r)
    BY <2>1 DEF Remove, NoNewRefs
  <2>2. CASE Patch(r)
    BY <1>1, <2>2, SavedDocTyped, PatchNoNewRefs DEF Patch
  <2>3. CASE LinkPatch(r)
    <3>1. CASE docs' = docs
      BY <3>1, SameDocsNoNewRefs
    <3>2. CASE docs' # docs
      <4>1. PICK l \in todo[r] : docs' = Patched(Retimed(l.doc, r))
        BY <2>3, <3>2 DEF LinkPatch
      <4>2. l.doc \in Docs
        BY <1>1 DEF TypeOK
      <4>3. Retimed(l.doc, r) \in Docs
        BY <1>1, <4>2, RetimedTyped
      <4>. QED
        BY <1>1, <4>1, <4>3, PatchNoNewRefs
    <3>. QED
      BY <3>1, <3>2
  <2>. QED
    BY <2>1, <2>2, <2>3
<1>4. pc' = [pc EXCEPT ![r] = pc'[r]] /\ Fine(r, pc'[r])
  <2>1. Goto(r, "done") \/ Goto(r, "links") \/ Goto(r, AfterTap(r)) \/ pc' = pc
    BY DEF Remove, Patch, LinkPatch
  <2>2. Fine(r, "done") /\ Fine(r, "links") /\ Fine(r, AfterTap(r)) /\ Fine(r, pc[r])
    BY <1>2, DisjointNames DEF Remove, Patch, LinkPatch, AfterTap, Fine
  <2>3. pc' = pc => Goto(r, pc[r])
    BY <1>1 DEF Goto, TypeOK
  <2>. QED
    BY <1>1, <2>1, <2>2, <2>3, GotoFine
<1>. QED
  BY <1>1, <1>2, <1>3, <1>4, RefStep

\* RefInv is inductive.
LEMMA NextRefInv ==
    ASSUME CreationsAlone
    PROVE  RefInv /\ [Next]_vars => RefInv'
<1>. SUFFICES ASSUME RefInv, [Next]_vars PROVE RefInv'
  OBVIOUS
<1>1. IInv'
  BY NextIInv DEF RefInv
<1>2. CASE UNCHANGED vars
  BY <1>1, <1>2 DEF RefInv, UniqueRefs, FreshIds, OneCreation, Paths, Matching, Stored,
                    Home, Active, vars
<1>3. ASSUME NEW r \in Requests, Arrive(r) \/ Step(r) \/ Fail(r) \/ Skip(r) \/ Crash(r)
      PROVE  RefInv'
  BY <1>1, <1>3, ArriveRefInv, NewIDRefInv, InsertRefInv, LocalRefInv, CrashRefInv, WriteRefInv
     DEF Step, RefInv
<1>. QED
  BY <1>2, <1>3 DEF Next, Rest

\* Where an administrator makes, copies and links events one at a time, account
\* and id name at most one event: saves and deletions may run beside it, and
\* any call may fail.
THEOREM RefsUnique ==
    ASSUME CreationsAlone
    PROVE  Spec => []UniqueRefs
<1>1. RefInv => UniqueRefs
  BY DEF RefInv
<1>. QED
  BY <1>1, InitRefInv, NextRefInv, PTL DEF Spec

\* Under the same assumption the id that getNewID returned is still free when
\* the document is stored under it.
THEOREM IdsFresh ==
    ASSUME CreationsAlone
    PROVE  Spec => []FreshIds
<1>1. RefInv => FreshIds
  BY DEF RefInv
<1>. QED
  BY <1>1, InitRefInv, NextRefInv, PTL DEF Spec

-----------------------------------------------------------------------------
(***************************************************************************)
(* The collection keeps what EventRefs promises, where events are made one *)
(* at a time: Insert takes a free reference, Remove drops one, and every   *)
(* other step of EventStore leaves the references alone.                   *)
(***************************************************************************)

\* Two references are equal when account and id are.
LEMMA PairsEqual ==
    ASSUME NEW a, NEW b, NEW c, NEW d
    PROVE  <<a, b>> = <<c, d>> <=> a = c /\ b = d
OBVIOUS

\* The reference of a document.
LEMMA RefAt ==
    ASSUME NEW k \in Keys
    PROVE  RefOf[k] = IF docs[k] = NoDoc THEN NoDoc ELSE <<docs[k].acct, docs[k].id>>
BY DEF RefOf

\* A stored document has a reference, and no other document has it.
LEMMA RefsFit ==
    ASSUME TypeOK, UniqueRefs
    PROVE  /\ RefOf \in [Keys -> Refs \union {NoDoc}]
           /\ \A j, k \in Keys : RefOf[j] = RefOf[k] /\ RefOf[j] # NoDoc => j = k
<1>1. \A k \in Keys : docs[k] # NoDoc => docs[k].acct \in Accounts /\ docs[k].id \in Ids
  BY DocFields DEF TypeOK
<1>2. RefOf \in [Keys -> Refs \union {NoDoc}]
  BY <1>1 DEF RefOf, Refs
<1>3. ASSUME NEW j \in Keys, NEW k \in Keys, RefOf[j] = RefOf[k], RefOf[j] # NoDoc
      PROVE  j = k
  <2>1. /\ docs[j] # NoDoc /\ RefOf[j] = <<docs[j].acct, docs[j].id>>
        /\ docs[k] # NoDoc /\ RefOf[k] = <<docs[k].acct, docs[k].id>>
    BY <1>3, RefAt
  <2>2. <<docs[j].acct, docs[j].id>> = <<docs[k].acct, docs[k].id>>
    BY <1>3, <2>1, Zenon
  <2>3. docs[j].acct = docs[k].acct /\ docs[j].id = docs[k].id
    BY <2>2, PairsEqual, SMT
  <2>. QED
    BY <2>1, <2>3 DEF UniqueRefs, Stored
<1>. QED
  BY <1>2, <1>3

\* A step that stores, moves and deletes nothing stutters.
LEMMA SameRefs ==
    ASSUME \A k \in Keys : /\ docs'[k] = NoDoc <=> docs[k] = NoDoc
                           /\ docs[k] # NoDoc => /\ docs'[k].acct = docs[k].acct
                                                 /\ docs'[k].id = docs[k].id
    PROVE  RefOf' = RefOf
BY DEF RefOf, Keys

\* The insertion takes the reference that the request was given.
LEMMA InsertTakes ==
    ASSUME RefInv, NEW r \in Requests, Insert(r)
    PROVE  Catalogue!Take(r, <<Home(r), newId[r]>>) /\ <<Home(r), newId[r]>> \in Refs
<1>1. TypeOK /\ Control /\ FreshIds /\ Paths
  BY DEF RefInv, IInv
<1>2. /\ pc[r] = "insert" /\ op[r].name \in Creators /\ r \in Keys
      /\ docs' = [docs EXCEPT ![r] = NewDoc(r)]
  BY <1>1 DEF Insert, Control, Keys
<1>3. /\ NewDoc(r) \in Docs /\ NewDoc(r) # NoDoc
      /\ NewDoc(r).acct = Home(r) /\ NewDoc(r).id = newId[r]
  BY <1>1, <1>2, NewDocTyped, ConstantsOK DEF RefInv
<1>. DEFINE x == <<Home(r), newId[r]>>
<1>4. x \in Refs
  BY <1>3, DocFields DEF Refs
<1>5. docs[r] = NoDoc
  BY <1>1, <1>2 DEF Paths
<1>6. RefOf[r] = NoDoc
  BY <1>2, <1>5, RefAt
<1>7. \A k \in Keys : RefOf[k] # x
  <2>. SUFFICES ASSUME NEW k \in Keys, RefOf[k] = x PROVE FALSE
    OBVIOUS
  <2>1. x # NoDoc
    BY <1>4, ConstantsOK
  <2>2. docs[k] # NoDoc /\ <<docs[k].acct, docs[k].id>> = x
    BY <2>1, RefAt
  <2>3. k \in Matching(Home(r), newId[r])
    BY <2>2 DEF Matching, Stored
  <2>. QED
    BY <1>1, <1>2, <2>3 DEF FreshIds
<1>8. RefOf' = [RefOf EXCEPT ![r] = x]
  <2>1. docs' = [k \in Keys |-> IF k = r THEN NewDoc(r) ELSE docs[k]]
    BY <1>1, <1>2 DEF TypeOK
  <2>2. RefOf' = [k \in Keys |-> IF docs'[k] = NoDoc THEN NoDoc
                                 ELSE <<docs'[k].acct, docs'[k].id>>]
    BY DEF RefOf, Keys
  <2>3. \A k \in Keys : k # r => docs'[k] = docs[k]
    BY <2>1
  <2>4. docs'[r] = NewDoc(r)
    BY <1>2, <2>1
  <2>. HIDE DEF x
  <2>5. ASSUME NEW k \in Keys
        PROVE  RefOf'[k] = IF k = r THEN x ELSE RefOf[k]
    <3>1. RefOf'[k] = IF docs'[k] = NoDoc THEN NoDoc
                      ELSE <<docs'[k].acct, docs'[k].id>>
      BY <2>2
    <3>2. CASE k = r
      BY <1>3, <2>4, <3>1, <3>2 DEF x
    <3>3. CASE k # r
      BY <2>3, <3>1, <3>3, RefAt
    <3>. QED
      BY <3>2, <3>3
  <2>6. RefOf' = [k \in Keys |-> IF k = r THEN x ELSE RefOf[k]]
    BY <2>2, <2>5
  <2>7. RefOf = [k \in Keys |-> RefOf[k]]
    BY DEF RefOf
  <2>. QED
    BY <1>2, <2>6, <2>7
<1>. QED
  BY <1>4, <1>6, <1>7, <1>8 DEF Catalogue!Take, Catalogue!Free

\* The removal drops the reference of the event that the request holds.
LEMMA RemoveDrops ==
    ASSUME TypeOK, NEW r \in Requests, Remove(r)
    PROVE  Catalogue!Drop(<<ev[r].acct, ev[r].id>>) /\ <<ev[r].acct, ev[r].id>> \in Refs
<1>1. ev[r] \in Docs
  BY DEF TypeOK, Remove
<1>. DEFINE x == <<ev[r].acct, ev[r].id>>
<1>2. x \in Refs
  BY <1>1, DocFields DEF Refs
<1>3. x # NoDoc
  BY <1>2, ConstantsOK
<1>4. docs' = [k \in Keys |-> IF k \in Matching(ev[r].acct, ev[r].id)
                               THEN NoDoc ELSE docs[k]]
  BY DEF Remove
<1>5. RefOf' = [k \in Keys |-> IF docs'[k] = NoDoc THEN NoDoc
                               ELSE <<docs'[k].acct, docs'[k].id>>]
  BY DEF RefOf, Keys
<1>6. ASSUME NEW k \in Keys
      PROVE  RefOf'[k] = IF RefOf[k] = x THEN NoDoc ELSE RefOf[k]
  <2>1. k \in Matching(ev[r].acct, ev[r].id) <=> RefOf[k] = x
    <3>1. CASE docs[k] = NoDoc
      BY <1>3, <3>1, RefAt DEF Matching, Stored
    <3>2. CASE docs[k] # NoDoc
      <4>1. RefOf[k] = <<docs[k].acct, docs[k].id>>
        BY <3>2, RefAt
      <4>2. RefOf[k] = x <=> docs[k].acct = ev[r].acct /\ docs[k].id = ev[r].id
        BY <4>1, PairsEqual, SMT
      <4>. QED
        BY <3>2, <4>2 DEF Matching, Stored
    <3>. QED
      BY <3>1, <3>2
  <2>2. docs'[k] = IF RefOf[k] = x THEN NoDoc ELSE docs[k]
    BY <1>4, <2>1
  <2>3. RefOf'[k] = IF docs'[k] = NoDoc THEN NoDoc ELSE <<docs'[k].acct, docs'[k].id>>
    BY <1>5
  <2>. QED
    BY <2>2, <2>3, RefAt
<1>7. RefOf' = [k \in Keys |-> IF RefOf[k] = x THEN NoDoc ELSE RefOf[k]]
  BY <1>5, <1>6
<1>. QED
  BY <1>2, <1>7 DEF Catalogue!Drop

\* A patch leaves every reference alone.
LEMMA PatchStutters ==
    ASSUME TypeOK, NEW new \in Docs, docs' = Patched(new)
    PROVE  RefOf' = RefOf
BY PatchedTyped, SameRefs DEF TypeOK

\* Every step of a request is a step of EventRefs or leaves the references alone.
LEMMA StepRefs ==
    ASSUME RefInv, NEW r \in Requests, Arrive(r) \/ Step(r) \/ Fail(r) \/ Skip(r) \/ Crash(r)
    PROVE  [Catalogue!Next]_RefOf
<1>1. TypeOK /\ IInv
  BY DEF RefInv, IInv
<1>2. CASE docs' = docs
  BY <1>2, SameRefs
<1>3. CASE Insert(r)
  BY <1>3, InsertTakes DEF Catalogue!Next, Keys
<1>4. CASE Remove(r)
  BY <1>1, <1>4, RemoveDrops DEF Catalogue!Next
<1>5. CASE Patch(r)
  <2>1. pc[r] # "idle" /\ ev[r] \in Docs
    BY <1>1, <1>5 DEF Patch, TypeOK
  <2>2. SavedDoc(r) \in Docs /\ docs' = Patched(SavedDoc(r))
    BY <1>1, <1>5, <2>1, SavedDocTyped DEF Patch
  <2>3. RefOf' = RefOf
    BY <1>1, <2>2, PatchStutters
  <2>. QED
    BY <2>3
<1>6. ASSUME LinkPatch(r), docs' # docs PROVE RefOf' = RefOf
  <2>1. PICK l \in todo[r] : docs' = Patched(Retimed(l.doc, r))
    BY <1>6 DEF LinkPatch
  <2>2. l.doc \in Docs /\ ev[r] \in Docs /\ pc[r] # "idle"
    BY <1>1, <1>6 DEF TypeOK, LinkPatch
  <2>3. Retimed(l.doc, r) \in Docs
    BY <1>1, <2>2, RetimedTyped
  <2>. QED
    BY <1>1, <2>1, <2>3, PatchStutters
<1>7. \/ docs' = docs \/ Insert(r) \/ Remove(r) \/ Patch(r) \/ LinkPatch(r)
  BY DEF Step, Arrive, Read, Resolve, NotFound, NewID, CalendarCalls, Audit, Reread,
         Source, Notify, Mail, Links, LinkCalendar, Fail, Skip, Crash, OnlyLocal, stores
<1>. QED
  BY <1>2, <1>3, <1>4, <1>5, <1>6, <1>7

\* Where an administrator makes, copies and links events one at a time, the
\* Events collection implements EventRefs: a reference is taken when it is free,
\* kept by every save, and given up only by the deletion of its document.
THEOREM RefsImplemented ==
    ASSUME CreationsAlone
    PROVE  Spec => ImplementsEventRefs
<1>1. RefInv => TypeOK /\ UniqueRefs
  BY DEF RefInv, IInv
<1>2. Init => Catalogue!Init
  BY <1>1, InitRefInv, RefsFit DEF Catalogue!Init
<1>3. RefInv /\ [Next]_vars => [Catalogue!Next]_RefOf
  <2>1. UNCHANGED vars => RefOf' = RefOf
    BY DEF vars, RefOf, Keys
  <2>. QED
    BY <2>1, StepRefs DEF Next, Rest
<1>. QED
  BY <1>2, <1>3, InitRefInv, NextRefInv, PTL DEF Spec, ImplementsEventRefs, Catalogue!Spec
-----------------------------------------------------------------------------
(* Saves and deletions that are made one at a time.  A request that changes  *)
(* an event keeps hold of it: from the read on, the document it found is     *)
(* there, with the account and id that its patch or removal goes to, so that *)
(* neither meets another document.                                           *)

Changes == Savers \union {"delete"}

ChangesAlone ==
    /\ CreationsAlone
    /\ \A i \in DOMAIN Conditions :
          /\ \E g \in Conditions[i].serial : Changes \subseteq g
          /\ {"mail", "audit"} \intersect Conditions[i].failing = {}

\* Overrides that are stored have no null ids.
SeedsPlain == \A k \in SeedKeys : Seeds[k].extra.cal # NoEntry

AtWork(r) == Active(r) /\ op[r].name \in Changes
OneChange == \A r, s \in Requests : AtWork(r) /\ AtWork(s) => r = s

\* The places that only saves, or only deletions, come to.
Ways ==
    \A r \in Requests :
        /\ pc[r] = "remove" => op[r].name = "delete"
        /\ pc[r] \in {"source", "notify", "mail", "patch", "links", "linkCalendar",
                      "linksAgain", "linkPatch"} => op[r].name \in Savers
        /\ pc[r] \in {"resolve", "source"} => ev[r].kind = "LINKED"
        /\ pc[r] = "newID" => op[r].name \in Creators

Alike(d, e) == d.acct = e.acct /\ d.id = e.id /\ d.kind = e.kind
Found(r) == docs[key[r]] # NoDoc /\ Alike(docs[key[r]], ev[r])
Linked(l) ==
    /\ docs[l.for] # NoDoc /\ Alike(docs[l.for], l.doc)
    /\ l.doc.kind = "LINKED" /\ docs[l.for].extra = l.doc.extra

Unsaved == {"calendar", "source", "notify", "mail", "patch"}
Grip(r) ==
    /\ pc[r] # "read" => Found(r)
    /\ pc[r] \in Unsaved /\ op[r].name \in Savers => was[r] = docs[key[r]].data
    /\ pc[r] \in Unsaved \union {"resolve", "reread"} /\ ev[r].kind = "REGULAR"
       => ev[r].extra = docs[key[r]].extra
    /\ pc[r] = "patch" /\ ev[r].kind = "REGULAR" /\ Cancels(r)
       => [key |-> key[r], by |-> r] \in mails
    /\ pc[r] = "remove" => [key |-> key[r], by |-> r, type |-> "DELETE"] \in audits
    /\ pc[r] \in {"linkCalendar", "linkPatch"} => \A l \in todo[r] : Linked(l)

Gripped == \A r \in Requests : AtWork(r) => Grip(r)
Plain == \A k \in Keys : docs[k] # NoDoc => docs[k].extra.cal # NoEntry

ChangeInv == RefInv /\ OneChange /\ Ways /\ Gripped /\ Plain

\* The requests beside the one that takes a step.
LEMMA Elsewhere ==
    ASSUME TypeOK, NEW r \in Requests, NEW s \in Requests \ {r},
           Arrive(r) \/ Step(r) \/ Fail(r) \/ Skip(r) \/ Crash(r)
    PROVE  /\ op'[s] = op[s] /\ ev'[s] = ev[s] /\ key'[s] = key[s]
           /\ was'[s] = was[s] /\ todo'[s] = todo[s]
           /\ pc'[s] = pc[s] \/ pc'[s] = "lost"
           /\ audits \subseteq audits' /\ mails \subseteq mails' /\ given' = given
<1>1. CASE Arrive(r)
  BY ZenonT(60), <1>1 DEF Arrive, TypeOK, Goto, OnlyLocal, stores
<1>2. CASE Fail(r) \/ Skip(r)
  BY <1>2 DEF Fail, Skip, TypeOK, Goto, OnlyLocal, stores, locals
<1>3. CASE Crash(r)
  BY <1>3, CrashEnds DEF OnlyLocal, stores, locals
<1>4. CASE Read(r) \/ Resolve(r) \/ NewID(r)
  BY <1>4 DEF Read, Resolve, NewID, NotFound, TypeOK, Goto, OnlyLocal, stores, locals
<1>5. CASE CalendarCalls(r)
  BY <1>5 DEF CalendarCalls, TypeOK, Goto
<1>6. CASE Insert(r) \/ Audit(r) \/ Remove(r)
  BY <1>6 DEF Insert, Audit, Remove, TypeOK, Goto, locals
<1>7. CASE Reread(r) \/ Source(r)
  BY <1>7 DEF Reread, Source, NotFound, TypeOK, Goto, OnlyLocal, stores, locals
<1>8. CASE Notify(r) \/ Mail(r) \/ Patch(r)
  BY <1>8 DEF Notify, Mail, Patch, TypeOK, Goto, locals
<1>9. CASE Links(r)
  BY <1>9 DEF Links, TypeOK, Goto, OnlyLocal, stores
<1>10. CASE LinkCalendar(r)
  BY <1>10 DEF LinkCalendar, TypeOK, Goto
<1>11. CASE LinkPatch(r)
  BY <1>11 DEF LinkPatch, TypeOK, Goto
<1>. QED
  BY <1>1, <1>2, <1>3, <1>4, <1>5, <1>6, <1>7, <1>8, <1>9, <1>10, <1>11 DEF Step

Writes(r) == Patch(r) \/ LinkPatch(r) \/ Remove(r)
Steady == \A k \in Keys : docs[k] # NoDoc => docs'[k] = docs[k]

\* Only saves and deletions touch what is stored.
LEMMA OthersSteady ==
    ASSUME RefInv, NEW r \in Requests, ~Writes(r),
           Arrive(r) \/ Step(r) \/ Fail(r) \/ Skip(r) \/ Crash(r)
    PROVE  Steady
<1>1. CASE Insert(r)
  <2>1. docs[r] = NoDoc /\ docs \in [Keys -> Docs \union {NoDoc}]
    BY <1>1 DEF Insert, RefInv, Paths, IInv, TypeOK
  <2>. QED
    BY <1>1, <2>1 DEF Insert, Steady, Keys
<1>2. CASE ~Insert(r)
  <2>1. docs' = docs
    BY <1>2 DEF Writes, Step, Arrive, Fail, Skip, Crash, Read, Resolve, NewID, NotFound,
       CalendarCalls, Audit, Reread, Source, Notify, Mail, Links, LinkCalendar, OnlyLocal, stores
  <2>. QED
    BY <2>1 DEF Steady
<1>. QED
  BY <1>1, <1>2

\* What a request has hold of stays when others take their steps.
LEMMA GripStays ==
    ASSUME Steady, NEW s \in Requests, key[s] \in Keys,
           \A l \in todo[s] : l.for \in Keys, Grip(s),
           op'[s] = op[s], ev'[s] = ev[s], key'[s] = key[s], was'[s] = was[s],
           todo'[s] = todo[s], pc'[s] = pc[s], audits \subseteq audits', mails \subseteq mails'
    PROVE  Grip(s)'
<1>1. Found(s) => Found(s)' /\ docs'[key[s]] = docs[key[s]]
  BY DEF Found, Steady
<1>2. \A l \in todo[s] : Linked(l) => Linked(l)'
  BY DEF Linked, Steady
<1>3. pc[s] \in Unsaved \union {"resolve", "reread"} => pc[s] # "read"
  BY DEF Unsaved
<1>4. Cancels(s)' <=> Cancels(s)
  BY DEF Cancels
<1>. QED
  BY <1>1, <1>2, <1>3, <1>4 DEF Grip

\* The names and the places are all different.
LEMMA ChangeNames ==
    /\ Savers \intersect Creators = {} /\ "delete" \notin Savers \union Creators
    /\ \A n \in Savers : n # "copy" /\ n # "link" /\ n # "add" /\ n # "delete"
BY DEF Savers, Creators

\* What a document is when it has been found, alone, under an account and an id.
LEMMA MatchOne ==
    ASSUME NEW a, NEW i, NEW k \in Keys, Matching(a, i) = {k}
    PROVE  /\ docs[k] # NoDoc /\ docs[k].acct = a /\ docs[k].id = i
           /\ \A j \in Keys : docs[j] # NoDoc /\ docs[j].acct = a /\ docs[j].id = i => j = k
BY DEF Matching, Stored

\* A request that is done with holds nothing.
LEMMA OverGrip ==
    ASSUME NEW r \in Requests, pc'[r] \in Ended
    PROVE  ~AtWork(r)'
BY DEF AtWork, Active

\* The first read, and that of a link's target.
LEMMA ReadGrip ==
    ASSUME RefInv, Gripped, NEW r \in Requests, Read(r) \/ Resolve(r), AtWork(r)'
    PROVE  Grip(r)'
<1>1. TypeOK /\ Steady /\ docs' = docs /\ op' = op /\ was' = was
  BY DEF RefInv, IInv, Steady, Read, Resolve, NotFound, OnlyLocal, stores, locals
<1>2. pc'[r] \notin Ended
  BY OverGrip
<1>3. op[r].name \in Changes /\ Active(r)
  BY <1>1 DEF AtWork, Read, Resolve, Active, Ended, Answered
<1>4. AfterRead(r) \in {"reread", "calendar"}
      /\ (AfterRead(r) = "calendar" => op[r].name = "delete")
  BY <1>3 DEF AfterRead, Changes
<1>5. CASE Read(r)
  <2>1. ~NotFound(r)
    BY <1>1, <1>2 DEF NotFound, Goto, TypeOK, Ended, Answered
  <2>2. PICK k \in Keys :
             /\ Matching(op[r].acct, op[r].id) = {k}
             /\ key' = [key EXCEPT ![r] = k]
             /\ IF docs[k].kind = "LINKED"
                THEN /\ ev' = [ev EXCEPT ![r] = docs[k]]
                     /\ Goto(r, "resolve")
                ELSE /\ ev' = [ev EXCEPT ![r] =
                                  [docs[k] EXCEPT !.data = Desired(r, @)]]
                     /\ Goto(r, AfterRead(r))
    BY <1>5, <2>1 DEF Read
  <2>3. docs[k] # NoDoc /\ docs[k] \in Docs
    BY <1>1, <2>2, MatchOne DEF TypeOK
  <2>4. key'[r] = k
    BY <1>1, <2>2 DEF TypeOK
  <2>5. ev'[r].acct = docs[k].acct /\ ev'[r].id = docs[k].id /\ ev'[r].kind = docs[k].kind
        /\ ev'[r].extra = docs[k].extra
    BY <1>1, <2>2, <2>3 DEF TypeOK, Docs
  <2>6. Found(r)'
    BY <1>1, <2>3, <2>4, <2>5 DEF Found, Alike
  <2>7. pc'[r] \in {"resolve", "reread"} \/ (pc'[r] = "calendar" /\ op[r].name = "delete")
    BY <1>1, <1>4, <2>2 DEF Goto, TypeOK
  <2>. QED
    BY <1>1, <2>4, <2>5, <2>6, <2>7, ChangeNames DEF Grip, Unsaved
<1>6. CASE Resolve(r)
  <2>1. ~NotFound(r)
    BY <1>1, <1>2 DEF NotFound, Goto, TypeOK, Ended, Answered
  <2>2. PICK k \in Keys :
             /\ Matching(ev[r].target[1], ev[r].target[2]) = {k}
             /\ ev' = [ev EXCEPT ![r] = InHand(r, docs[k])]
             /\ Goto(r, AfterRead(r))
             /\ UNCHANGED key
    BY <1>6, <2>1 DEF Resolve
  <2>3. pc[r] = "resolve" /\ Found(r) /\ ev[r] \in Docs /\ op[r].name # "copy"
    BY <1>1, <1>3, <1>6 DEF Resolve, Gripped, AtWork, Grip, TypeOK, Changes, Savers
  <2>4. ev'[r] = InHand(r, docs[k])
    BY <1>1, <2>2 DEF TypeOK
  <2>5. /\ InHand(r, docs[k]).acct = ev[r].acct /\ InHand(r, docs[k]).id = ev[r].id
        /\ InHand(r, docs[k]).kind = ev[r].kind /\ InHand(r, docs[k]).extra = ev[r].extra
    BY <2>3 DEF InHand, Resolved, Docs
  <2>6. Found(r)'
    BY <1>1, <2>2, <2>3, <2>4, <2>5 DEF Found, Alike
  <2>7. ev[r].kind = "REGULAR" => ev[r].extra = docs[key[r]].extra
    BY <1>3, <2>3 DEF Gripped, AtWork, Grip
  <2>8. pc'[r] = "reread" \/ (pc'[r] = "calendar" /\ op[r].name = "delete")
    BY <1>1, <1>4, <2>2 DEF Goto, TypeOK
  <2>. QED
    BY <1>1, <2>2, <2>4, <2>5, <2>6, <2>7, <2>8, ChangeNames DEF Grip, Unsaved
<1>. QED
  BY <1>5, <1>6

\* The second read finds the same document again.
LEMMA RereadGrip ==
    ASSUME RefInv, Gripped, NEW r \in Requests, Reread(r), AtWork(r)'
    PROVE  Grip(r)'
<1>1. TypeOK /\ docs' = docs /\ op' = op /\ pc[r] = "reread" /\ UniqueRefs
  BY DEF RefInv, IInv, Reread, NotFound, OnlyLocal, stores, locals
<1>2. ~NotFound(r)
  BY <1>1, OverGrip DEF NotFound, Goto, TypeOK, Ended, Answered
<1>3. PICK k \in Keys :
             /\ Matching(ev[r].acct, ev[r].id) = {k} /\ docs[k].kind = ev[r].kind
             /\ key' = [key EXCEPT ![r] = k]
             /\ was' = [was EXCEPT ![r] = docs[k].data]
             /\ Goto(r, "calendar")
             /\ UNCHANGED ev
  BY <1>2 DEF Reread
<1>4. /\ Grip(r) /\ Found(r) /\ key[r] \in Keys
      /\ (ev[r].kind = "REGULAR" => ev[r].extra = docs[key[r]].extra)
  BY <1>1, <1>3 DEF Gripped, AtWork, Active, Ended, Answered, Grip, TypeOK
<1>5. key[r] = k
  BY <1>3, <1>4, MatchOne DEF Found, Alike
<1>6. key'[r] = k /\ was'[r] = docs[k].data /\ pc'[r] = "calendar"
  BY <1>1, <1>3 DEF TypeOK, Goto
<1>. QED
  BY <1>1, <1>3, <1>4, <1>5, <1>6 DEF Grip, Found, Alike

\* Steps that leave the documents and what the request holds alone.
LEMMA SameGrip ==
    ASSUME RefInv, Gripped, NEW r \in Requests, AtWork(r), pc[r] # "read", docs' = docs,
           op' = op, ev'[r] = ev[r], key' = key, was' = was,
           pc'[r] \notin {"read", "resolve", "reread"},
           pc'[r] \in Unsaved => pc[r] \in Unsaved,
           pc'[r] = "patch" /\ ev[r].kind = "REGULAR" /\ Cancels(r)
              => [key |-> key[r], by |-> r] \in mails',
           pc'[r] = "remove" => [key |-> key[r], by |-> r, type |-> "DELETE"] \in audits',
           pc'[r] \in {"linkCalendar", "linkPatch"} => \A l \in todo'[r] : Linked(l)
    PROVE  Grip(r)'
<1>1. Grip(r)
  BY DEF Gripped
<1>2. Found(r)' /\ docs'[key'[r]] = docs[key[r]]
  BY <1>1 DEF Grip, Found
<1>3. Cancels(r)' <=> Cancels(r)
  BY DEF Cancels
<1>4. \A l : Linked(l) => Linked(l)'
  BY DEF Linked
<1>5. pc'[r] \in Unsaved /\ op'[r].name \in Savers => was'[r] = docs'[key'[r]].data
  BY <1>1, <1>2 DEF Grip
<1>6. pc'[r] \in Unsaved \union {"resolve", "reread"} /\ ev'[r].kind = "REGULAR"
       => ev'[r].extra = docs'[key'[r]].extra
  BY <1>1, <1>2 DEF Grip
<1>. QED
  BY <1>2, <1>3, <1>4, <1>5, <1>6 DEF Grip

\* Calendar calls and what they return.
LEMMA CalendarGrip ==
    ASSUME RefInv, Ways, Gripped, NEW r \in Requests, CalendarCalls(r), AtWork(r)'
    PROVE  Grip(r)'
<1>1. /\ TypeOK /\ docs' = docs /\ op' = op /\ pc[r] = "calendar" /\ ev' = ev /\ key' = key
      /\ was' = was
  BY DEF RefInv, IInv, CalendarCalls
<1>2. AtWork(r)
  BY <1>1 DEF AtWork, Active, Ended, Answered
<1>3. pc'[r] \in {"audit", "insert", "source", "notify", "failed"}
  BY <1>1 DEF CalendarCalls, Goto, TypeOK
<1>. QED
  BY <1>1, <1>2, <1>3, SameGrip DEF Unsaved

\* The source of a link is fetched, and its document stays where it is.
LEMMA SourceGrip ==
    ASSUME RefInv, Ways, Gripped, NEW r \in Requests, Source(r), AtWork(r)'
    PROVE  Grip(r)'
<1>1. TypeOK /\ docs' = docs /\ op' = op /\ pc[r] = "source" /\ ev[r].kind = "LINKED"
  BY DEF RefInv, IInv, Source, NotFound, OnlyLocal, stores, locals, Ways
<1>2. ~NotFound(r)
  BY <1>1, OverGrip DEF NotFound, Goto, TypeOK, Ended, Answered
<1>3. PICK k \in Keys :
             /\ ev' = [ev EXCEPT ![r].extra = Differences(docs[k].data, ev[r].data)]
             /\ Goto(r, "patch") /\ UNCHANGED <<key, was>>
  BY <1>2 DEF Source
<1>4. Grip(r) /\ ev[r] \in Docs
  BY <1>1, <1>3 DEF Gripped, AtWork, Active, Ended, Answered, TypeOK
<1>5. /\ ev'[r].acct = ev[r].acct /\ ev'[r].id = ev[r].id /\ ev'[r].kind = ev[r].kind
      /\ pc'[r] = "patch"
  BY <1>1, <1>3, <1>4 DEF TypeOK, Docs, Goto
<1>. QED
  BY <1>1, <1>3, <1>4, <1>5 DEF Grip, Found, Alike, Unsaved

\* The steps between the calendar and the patch, after the patch, and the audit.
LEMMA TapGrip ==
    ASSUME RefInv, Ways, Gripped, {"mail", "audit"} \intersect Failing = {},
           NEW r \in Requests, Notify(r) \/ Mail(r) \/ Links(r) \/ Audit(r) \/ Skip(r),
           AtWork(r)'
    PROVE  Grip(r)'
<1>1. /\ TypeOK /\ docs' = docs /\ op' = op /\ ev' = ev /\ key' = key /\ was' = was
      /\ pc[r] \in Tapped
  BY DEF RefInv, IInv, Notify, Mail, Links, Audit, Skip, OnlyLocal, stores, locals, Tapped
<1>2. AtWork(r) /\ Grip(r) /\ pc'[r] = AfterTap(r)
  BY <1>1 DEF AtWork, Active, Ended, Answered, Gripped, Tapped, Notify, Mail, Links, Audit,
     Skip, Goto, TypeOK
<1>3. pc[r] # "read" /\ AfterTap(r) \in {"mail", "patch", "linkCalendar", "linksAgain",
                                         "linkPatch", "audit", "remove", "done"}
  BY <1>1 DEF AfterTap, Tapped
<1>4. AfterTap(r) \in Unsaved => pc[r] \in Unsaved
  BY <1>1 DEF AfterTap, Tapped, Unsaved
<1>5. AfterTap(r) = "patch" => pc[r] = "mail" /\ ~Skip(r)
  BY <1>1 DEF AfterTap, Tapped, Skip
<1>6. AfterTap(r) = "remove" => pc[r] = "audit" /\ op[r].name = "delete" /\ ~Skip(r)
  BY <1>1 DEF AfterTap, Tapped, Skip
<1>7. AfterTap(r) = "patch" /\ Cancels(r) => [key |-> key[r], by |-> r] \in mails'
  BY <1>5 DEF Notify, Mail, Links, Audit
<1>8. AfterTap(r) = "remove" => [key |-> key[r], by |-> r, type |-> "DELETE"] \in audits'
  BY <1>6, ChangeNames DEF Notify, Mail, Links, Audit
<1>9. AfterTap(r) \in {"linkCalendar", "linkPatch"} => \A l \in todo'[r] : Linked(l)
  <2>1. ASSUME Links(r) PROVE \A l \in todo'[r] : Linked(l)
    BY <1>1, <2>1 DEF Links, Linked, Alike, LinksTo, Stored, TypeOK
  <2>2. ASSUME AfterTap(r) \in {"linkCalendar", "linkPatch"}
        PROVE  pc[r] \in {"links", "linksAgain"}
    BY <1>1, <2>2 DEF AfterTap, Tapped
  <2>3. pc[r] \in {"links", "linksAgain"} => Links(r)
    BY DEF Notify, Mail, Audit, Skip
  <2>. QED
    BY <2>1, <2>2, <2>3
<1>. QED
  BY <1>1, <1>2, <1>3, <1>4, <1>7, <1>8, <1>9, SameGrip

\* A link keeps its overrides while its calendar entry is made.
LEMMA LinkCalendarGrip ==
    ASSUME RefInv, Ways, Gripped, NEW r \in Requests, LinkCalendar(r), AtWork(r)'
    PROVE  Grip(r)'
<1>1. /\ TypeOK /\ docs' = docs /\ op' = op /\ pc[r] = "linkCalendar" /\ ev' = ev /\ key' = key
      /\ was' = was
  BY DEF RefInv, IInv, LinkCalendar
<1>2. AtWork(r) /\ Grip(r)
  BY <1>1 DEF AtWork, Active, Ended, Answered, Gripped
<1>3. pc'[r] \in {"linkCalendar", "linksAgain"} /\ todo'[r] \subseteq todo[r]
  BY <1>1 DEF LinkCalendar, Goto, TypeOK, AfterTap
<1>4. \A l \in todo'[r] : Linked(l)
  BY <1>1, <1>2, <1>3 DEF Grip
<1>. QED
  BY <1>1, <1>2, <1>3, <1>4, SameGrip DEF Unsaved
-----------------------------------------------------------------------------
(* What patches and removals meet *)

\* What a patch leaves in a document.
LEMMA PatchedFields ==
    ASSUME NEW d \in Docs, NEW new \in Docs
    PROVE  /\ PatchedDoc(d, new).kind = new.kind
           /\ PatchedDoc(d, new).data.status = PatchedField(d.data.status, new.data.status)
           /\ PatchedDoc(d, new).extra = FieldWise(PatchedField, d.extra, new.extra)
BY DEF PatchedDoc, Docs, FieldWise

\* Patched with itself, a field stays; null ids are dropped.
LEMMA PatchedSame ==
    ASSUME NEW x \in Data, x.cal # NoEntry
    PROVE  FieldWise(PatchedField, x, x) = x
<1>1. /\ x.status # NoEntry /\ x.times # NoEntry /\ x.pocs # NoEntry /\ x.debrief # NoEntry
  BY NullIsNoValue DEF Data
<1>2. /\ PatchedField(x.status, x.status) = x.status /\ PatchedField(x.times, x.times) = x.times
      /\ PatchedField(x.pocs, x.pocs) = x.pocs /\ PatchedField(x.cal, x.cal) = x.cal
      /\ PatchedField(x.debrief, x.debrief) = x.debrief
  BY <1>1 DEF PatchedField
<1>. QED
  BY <1>2 DEF FieldWise, Data

\* No null id gets in by a patch.
LEMMA PatchedPlain ==
    ASSUME NEW x \in Data, NEW y \in Data, x.cal # NoEntry
    PROVE  FieldWise(PatchedField, x, y).cal # NoEntry
BY NullIsNoValue DEF FieldWise, PatchedField

\* A save patches the document that it found, and no other.
LEMMA PatchMeets ==
    ASSUME RefInv, Ways, Gripped, NEW r \in Requests, Patch(r), NEW k \in Keys, docs[k] # NoDoc
    PROVE  /\ AtWork(r) /\ Grip(r) /\ Found(r) /\ key[r] \in Keys /\ SavedDoc(r) \in Docs
           /\ docs[k] \in Docs
           /\ SavedDoc(r).acct = ev[r].acct /\ SavedDoc(r).id = ev[r].id
           /\ SavedDoc(r).kind = ev[r].kind /\ SavedDoc(r).extra = ev[r].extra
           /\ k # key[r] => docs'[k] = docs[k]
           /\ k = key[r] => docs'[k] = PatchedDoc(docs[k], SavedDoc(r))
<1>1. TypeOK /\ pc[r] = "patch" /\ UniqueRefs /\ docs' = Patched(SavedDoc(r))
  BY DEF RefInv, IInv, Patch
<1>2. AtWork(r) /\ Grip(r) /\ Found(r) /\ key[r] \in Keys /\ ev[r] \in Docs
  BY <1>1 DEF Ways, Gripped, AtWork, Active, Ended, Answered, Grip, TypeOK, Changes
<1>3. SavedDoc(r) \in Docs
  BY <1>1, SavedDocTyped DEF RefInv
<1>4. /\ SavedDoc(r).acct = ev[r].acct /\ SavedDoc(r).id = ev[r].id
      /\ SavedDoc(r).kind = ev[r].kind /\ SavedDoc(r).extra = ev[r].extra
  BY <1>2 DEF SavedDoc, Docs
<1>5. k \in Matching(SavedDoc(r).acct, SavedDoc(r).id) <=> k = key[r]
  BY <1>1, <1>2, <1>4 DEF Matching, Stored, UniqueRefs, Found, Alike
<1>6. docs[k] \in Docs
  BY <1>1 DEF TypeOK
<1>. QED
  BY <1>1, <1>2, <1>3, <1>4, <1>5, <1>6 DEF Patched

\* Writing links back patches a link with its own overrides.
LEMMA LinkPatchMeets ==
    ASSUME RefInv, Ways, Gripped, Plain, NEW r \in Requests, LinkPatch(r),
           NEW k \in Keys, docs[k] # NoDoc
    PROVE  /\ docs'[k] # NoDoc /\ Alike(docs'[k], docs[k]) /\ docs'[k].extra = docs[k].extra
           /\ docs[k].kind = "REGULAR" => docs'[k] = docs[k]
<1>1. TypeOK /\ pc[r] = "linkPatch" /\ UniqueRefs /\ docs[k] \in Docs /\ ev[r] \in Docs
  BY DEF RefInv, IInv, LinkPatch, TypeOK
<1>2. CASE docs' = docs
  BY <1>2 DEF Alike
<1>3. CASE docs' # docs
  <2>1. PICK l \in todo[r] : docs' = Patched(Retimed(l.doc, r))
    BY <1>3 DEF LinkPatch
  <2>2. Linked(l) /\ l.doc \in Docs /\ l.for \in Keys /\ docs[l.for] \in Docs
    <3>1. AtWork(r)
      BY <1>1 DEF Ways, AtWork, Active, Ended, Answered, Changes
    <3>2. Linked(l)
      BY <1>1, <2>1, <3>1 DEF Gripped, Grip
    <3>3. l.doc \in Docs /\ l.for \in Keys
      BY <1>1, <2>1 DEF TypeOK
    <3>. QED
      BY <1>1, <3>2, <3>3 DEF Linked, TypeOK
  <2>. DEFINE new == Retimed(l.doc, r)
  <2>3. /\ new \in Docs /\ new.acct = l.doc.acct /\ new.id = l.doc.id
        /\ new.kind = "LINKED" /\ new.extra = docs[l.for].extra
    BY <1>1, <2>2, RetimedTyped DEF Retimed, Docs, Linked
  <2>4. k \in Matching(new.acct, new.id) <=> k = l.for
    BY <1>1, <2>2, <2>3 DEF Matching, Stored, UniqueRefs, Linked, Alike
  <2>. HIDE DEF new
  <2>5. CASE k # l.for
    BY <2>1, <2>4, <2>5 DEF Patched, Alike, new
  <2>6. CASE k = l.for
    <3>1. docs'[k] = PatchedDoc(docs[k], new)
      BY <2>1, <2>4, <2>6 DEF Patched, new
    <3>2. docs[k].kind = "LINKED" /\ docs[k].extra \in Data /\ docs[k].extra.cal # NoEntry
      BY <1>1, <2>2, <2>6, DocFields DEF Linked, Alike, Plain
    <3>3. docs'[k].extra = docs[k].extra
      <4>1. docs'[k].extra = FieldWise(PatchedField, docs[k].extra, new.extra)
        BY <1>1, <2>3, <3>1, PatchedFields
      <4>. QED
        BY <2>3, <2>6, <3>2, <4>1, PatchedSame
    <3>4. docs'[k] \in Docs /\ docs'[k].acct = docs[k].acct /\ docs'[k].id = docs[k].id
      BY <1>1, <2>3, <3>1, PatchedDocTyped
    <3>5. docs'[k].kind = "LINKED"
      BY <1>1, <2>3, <3>1, PatchedFields
    <3>6. docs'[k] # NoDoc
      BY <3>4, ConstantsOK
    <3>. QED
      BY <3>2, <3>3, <3>4, <3>5, <3>6 DEF Alike
  <2>. QED
    BY <2>5, <2>6
<1>. QED
  BY <1>2, <1>3

\* After the patch the document is still there,
LEMMA PatchGrip ==
    ASSUME RefInv, Ways, Gripped, NEW r \in Requests, Patch(r), AtWork(r)'
    PROVE  Grip(r)'
<1>1. /\ TypeOK /\ ev' = ev /\ key' = key /\ op' = op /\ pc'[r] \in {"done", "links"}
      /\ docs[key[r]] # NoDoc /\ key[r] \in Keys /\ Found(r)
  <2>1. TypeOK /\ Patch(r) /\ Found(r)
    BY DEF RefInv, IInv, Patch, Ways, Gripped, AtWork, Active, Ended, Answered, Grip, Changes
  <2>. QED
    BY <2>1 DEF TypeOK, Patch, Goto, locals, Found
<1>2. /\ docs'[key[r]] = PatchedDoc(docs[key[r]], SavedDoc(r))
      /\ SavedDoc(r) \in Docs /\ docs[key[r]] \in Docs /\ SavedDoc(r).kind = ev[r].kind
  BY <1>1, PatchMeets
<1>3. Found(r)'
  <2>. DEFINE d == PatchedDoc(docs[key[r]], SavedDoc(r))
  <2>1. /\ d \in Docs /\ d.acct = docs[key[r]].acct /\ d.id = docs[key[r]].id
        /\ d.kind = ev[r].kind
    BY <1>2, PatchedDocTyped, PatchedFields
  <2>2. d # NoDoc
    BY <2>1, ConstantsOK
  <2>. HIDE DEF d
  <2>3. docs'[key'[r]] = d /\ ev'[r] = ev[r]
    BY <1>1, <1>2 DEF d
  <2>. QED
    BY <1>1, <2>1, <2>2, <2>3 DEF Found, Alike
<1>. QED
  BY <1>1, <1>3 DEF Grip, Unsaved

\* and so it is, with the links that are left, while links are written back.
LEMMA LinkPatchGrip ==
    ASSUME RefInv, Ways, Gripped, Plain, NEW r \in Requests, LinkPatch(r), AtWork(r)'
    PROVE  Grip(r)'
<1>1. /\ TypeOK /\ ev' = ev /\ key' = key /\ op' = op /\ pc[r] = "linkPatch"
      /\ pc'[r] \in {"linkPatch", "audit"} /\ todo'[r] \subseteq todo[r]
  BY DEF RefInv, IInv, LinkPatch, TypeOK, Goto, AfterTap
<1>2. Grip(r) /\ Found(r) /\ key[r] \in Keys
  BY <1>1 DEF Ways, Gripped, AtWork, Active, Ended, Answered, Grip, Changes, TypeOK
<1>3. Found(r)'
  BY <1>1, <1>2, LinkPatchMeets DEF Found, Alike
<1>4. ASSUME NEW l \in todo'[r] PROVE Linked(l)'
  <2>1. Linked(l) /\ l.for \in Keys
    BY <1>1, <1>2, <1>4 DEF Grip, TypeOK
  <2>. QED
    BY <2>1, LinkPatchMeets DEF Linked, Alike
<1>. QED
  BY <1>1, <1>3, <1>4 DEF Grip, Unsaved
-----------------------------------------------------------------------------
(* ChangeInv is inductive *)

\* Nobody is at work at the start.
LEMMA InitChangeInv ==
    ASSUME SeedsPlain
    PROVE  Init => ChangeInv
<1>. SUFFICES ASSUME Init PROVE ChangeInv
  OBVIOUS
<1>1. RefInv
  BY InitRefInv
<1>2. \A r \in Requests : pc[r] = "idle"
  BY DEF Init
<1>3. OneChange /\ Ways /\ Gripped
  BY <1>2 DEF OneChange, Ways, Gripped, AtWork, Active
<1>4. Plain
  BY DEF Init, Plain, SeedsPlain
<1>. QED
  BY <1>1, <1>3, <1>4 DEF ChangeInv

\* A request starts with its id or with its read.
LEMMA ArriveGoes ==
    ASSUME TypeOK, NEW r \in Requests, Arrive(r)
    PROVE  pc'[r] \in {"newID", "read"} /\ (pc'[r] = "newID" => op'[r].name = "add")
<1>1. PICK o \in Menu : /\ op' = [op EXCEPT ![r] = o]
                        /\ Goto(r, IF o.name = "add" THEN "newID" ELSE "read")
  BY DEF Arrive
<1>2. op'[r] = o
  BY <1>1 DEF TypeOK
<1>3. pc'[r] = IF o.name = "add" THEN "newID" ELSE "read"
  BY <1>1 DEF TypeOK, Goto
<1>. QED
  BY <1>2, <1>3

\* Each step leads on to a place of its own operation.
LEMMA ChangeWays ==
    ASSUME RefInv, Ways, NEW r \in Requests,
           Arrive(r) \/ Step(r) \/ Fail(r) \/ Skip(r) \/ Crash(r)
    PROVE  Ways'
<1>1. TypeOK /\ Control /\ Paths
  BY DEF RefInv, IInv
<1>. DEFINE Saves == {"source", "notify", "mail", "patch", "links", "linkCalendar",
                      "linksAgain", "linkPatch"}
<1>2. ASSUME NEW s \in Requests, s # r
      PROVE  /\ pc'[s] = "remove" => op'[s].name = "delete"
             /\ pc'[s] \in Saves => op'[s].name \in Savers
             /\ pc'[s] \in {"resolve", "source"} => ev'[s].kind = "LINKED"
             /\ pc'[s] = "newID" => op'[s].name \in Creators
  <2>1. op'[s] = op[s] /\ ev'[s] = ev[s] /\ (pc'[s] = pc[s] \/ pc'[s] = "lost")
    BY <1>1, <1>2, Elsewhere
  <2>. QED
    BY <2>1 DEF Ways
<1>3. /\ pc'[r] = "remove" => op'[r].name = "delete"
      /\ pc'[r] \in Saves => op'[r].name \in Savers
      /\ pc'[r] \in {"resolve", "source"} => ev'[r].kind = "LINKED"
      /\ pc'[r] = "newID" => op'[r].name \in Creators
  <2>1. CASE Arrive(r)
    BY <1>1, <2>1, ArriveGoes DEF Creators
  <2>7. CASE Read(r) \/ Resolve(r)
    <3>1. op' = op /\ op[r].name \in OpNames
      BY <1>1, <2>7 DEF Read, Resolve, NotFound, locals, TypeOK, Ops
    <3>2. pc'[r] \in {"failed", "resolve", AfterRead(r)}
      BY <1>1, <2>7 DEF Read, Resolve, NotFound, Goto, TypeOK
    <3>3. AfterRead(r) \in {"reread", "calendar", "newID"}
          /\ (AfterRead(r) = "newID" => op[r].name \in Creators)
      BY <3>1 DEF AfterRead, OpNames
    <3>4. pc'[r] = "resolve" => ev'[r].kind = "LINKED"
      BY <1>1, <3>3, <2>7 DEF Read, Resolve, NotFound, Goto, TypeOK
    <3>. QED
      BY <3>1, <3>2, <3>3, <3>4
  <2>8. CASE NewID(r) \/ Reread(r) \/ Fail(r)
    <3>1. pc'[r] \in {"failed", "calendar"}
      BY <1>1, <2>8 DEF NewID, Reread, Fail, NotFound, Goto, TypeOK
    <3>. QED
      BY <3>1
  <2>2. CASE CalendarCalls(r)
    <3>1. op' = op /\ ev' = ev /\ op[r].name \in OpNames /\ pc'[r] \in {"audit", "insert", "source", "notify", "failed"}
      BY <1>1, <2>2 DEF CalendarCalls, Goto, TypeOK, Ops
    <3>2. pc'[r] \in Saves => op[r].name # "delete" /\ op[r].name \notin Creators
      BY <1>1, <2>2 DEF CalendarCalls, Goto, TypeOK
    <3>3. pc'[r] = "source" => ev[r].kind = "LINKED"
      BY <1>1, <2>2 DEF CalendarCalls, Goto, TypeOK
    <3>. QED
      BY <3>1, <3>2, <3>3 DEF OpNames
  <2>3. CASE Insert(r) \/ Remove(r) \/ Patch(r)
    BY <1>1, <2>3 DEF Insert, Remove, Patch, Goto, TypeOK, locals, Ways
  <2>4. CASE Source(r)
    BY <1>1, <2>4 DEF Source, NotFound, Goto, TypeOK, locals, Ways
  <2>5. CASE Audit(r) \/ Notify(r) \/ Mail(r) \/ Links(r) \/ Skip(r) \/ LinkCalendar(r) \/ LinkPatch(r)
    <3>1. op' = op /\ ev' = ev /\ pc[r] \in Tapped /\ pc'[r] \in {pc[r], AfterTap(r)}
      BY <1>1, <2>5 DEF Audit, Notify, Mail, Links, Skip, LinkCalendar, LinkPatch, Goto, TypeOK,
         locals, Tapped
    <3>2. AfterTap(r) = "remove" => op[r].name = "delete"
      BY <3>1 DEF AfterTap, Tapped
    <3>3. AfterTap(r) \in Saves => pc[r] \in Saves
      BY <3>1 DEF AfterTap, Tapped
    <3>4. AfterTap(r) \notin {"resolve", "source", "newID"}
          /\ pc[r] \notin {"resolve", "source", "remove", "newID"}
      BY <3>1 DEF AfterTap, Tapped
    <3>. QED
      BY <3>1, <3>2, <3>3, <3>4 DEF Ways
  <2>6. CASE Crash(r)
    <3>1. pc'[r] = "lost" \/ (pc'[r] = pc[r] /\ op' = op /\ ev' = ev)
      BY <2>6, CrashEnds DEF locals
    <3>. QED
      BY <3>1 DEF Ways
  <2>. QED
    BY <2>1, <2>2, <2>3, <2>4, <2>5, <2>6, <2>7, <2>8 DEF Step
<1>. QED
  BY <1>2, <1>3 DEF Ways

\* Changes come in one at a time.
LEMMA ChangeAlone ==
    ASSUME ChangesAlone, RefInv, OneChange, NEW r \in Requests,
           Arrive(r) \/ Step(r) \/ Fail(r) \/ Skip(r) \/ Crash(r)
    PROVE  OneChange'
<1>1. TypeOK
  BY DEF RefInv, IInv
<1>2. ASSUME NEW s \in Requests, s # r PROVE AtWork(s)' => AtWork(s)
  BY <1>1, <1>2, Elsewhere DEF AtWork, Active, Ended
<1>3. CASE ~Arrive(r)
  <2>1. Active(r) /\ op' = op
    BY <1>3, CrashEnds DEF Step, Read, Resolve, NewID, NotFound, CalendarCalls, Insert, Audit, Remove,
       Reread, Source, Notify, Mail, Patch, Links, LinkCalendar, LinkPatch, Fail, Skip, Crash,
       locals, Active, Ended, Answered, Main, Tapped, Streamed
  <2>2. AtWork(r)' => AtWork(r)
    BY <2>1 DEF AtWork
  <2>. QED
    BY <1>2, <2>2 DEF OneChange
<1>4. CASE Arrive(r)
  <2>1. PICK g \in Serial : Changes \subseteq g
    BY <1>1 DEF ChangesAlone, Serial, TypeOK
  <2>2. PICK o \in Menu :
          /\ o.name \in g => ~\E s \in Requests : Active(s) /\ op[s].name \in g
          /\ op' = [op EXCEPT ![r] = o]
    BY <1>4 DEF Arrive
  <2>3. op'[r] = o
    BY <1>1, <2>2 DEF TypeOK
  <2>4. AtWork(r)' => \A s \in Requests : ~AtWork(s)
    BY <2>1, <2>2, <2>3 DEF AtWork
  <2>. QED
    BY <1>2, <2>4 DEF OneChange
<1>. QED
  BY <1>3, <1>4

\* Null ids are dropped from what is stored.
LEMMA ChangePlain ==
    ASSUME RefInv, Ways, Gripped, Plain, NEW r \in Requests,
           Arrive(r) \/ Step(r) \/ Fail(r) \/ Skip(r) \/ Crash(r)
    PROVE  Plain'
<1>1. TypeOK
  BY DEF RefInv, IInv
<1>2. ASSUME NEW k \in Keys, docs[k] # NoDoc, docs'[k] # NoDoc
      PROVE  docs'[k].extra.cal # NoEntry
  <2>1. CASE ~Writes(r)
    BY <1>2, <2>1, OthersSteady DEF Steady, Plain
  <2>2. CASE Remove(r)
    BY <1>1, <1>2, <2>2 DEF Remove, Plain
  <2>3. CASE LinkPatch(r)
    BY <1>2, <2>3, LinkPatchMeets DEF Plain
  <2>4. CASE Patch(r)
    <3>1. CASE k # key[r]
      BY <1>2, <2>4, <3>1, PatchMeets DEF Plain
    <3>2. CASE k = key[r]
      <4>1. /\ docs'[k] = PatchedDoc(docs[k], SavedDoc(r))
            /\ docs[k] \in Docs /\ SavedDoc(r) \in Docs
        BY <1>2, <2>4, <3>2, PatchMeets
      <4>2. docs'[k].extra = FieldWise(PatchedField, docs[k].extra, SavedDoc(r).extra)
        BY <4>1, PatchedFields
      <4>3. docs[k].extra \in Data /\ SavedDoc(r).extra \in Data /\ docs[k].extra.cal # NoEntry
        BY <1>2, <4>1, DocFields DEF Plain
      <4>. QED
        BY <4>2, <4>3, PatchedPlain
    <3>. QED
      BY <3>1, <3>2
  <2>. QED
    BY <2>1, <2>2, <2>3, <2>4 DEF Writes
<1>3. ASSUME NEW k \in Keys, docs[k] = NoDoc, docs'[k] # NoDoc
      PROVE  docs'[k].extra.cal # NoEntry
  <2>1. CASE Insert(r)
    <3>1. k = r /\ docs'[k] = NewDoc(r)
      BY <1>1, <1>3, <2>1 DEF Insert, TypeOK
    <3>2. NewDoc(r).extra = Nothing
      BY DEF NewDoc
    <3>. QED
      BY <3>1, <3>2, NullIsNoValue DEF Nothing
  <2>2. CASE ~Insert(r)
    <3>1. NoNewRefs \/ docs' = docs
      <4>1. CASE Writes(r)
        <5>1. CASE Patch(r)
          BY <1>1, <5>1, SavedDocTyped, PatchNoNewRefs DEF Patch, RefInv
        <5>2. CASE Remove(r)
          BY <5>2 DEF Remove, NoNewRefs
        <5>3. CASE LinkPatch(r) /\ docs' # docs
          <6>1. PICK l \in todo[r] : docs' = Patched(Retimed(l.doc, r))
            BY <5>3 DEF LinkPatch
          <6>2. l.doc \in Docs /\ ev[r] \in Docs
            BY <1>1, <5>3, <6>1 DEF TypeOK, LinkPatch
          <6>. QED
            BY <1>1, <6>1, <6>2, RetimedTyped, PatchNoNewRefs
        <5>. QED
          BY <4>1, <5>1, <5>2, <5>3 DEF Writes
      <4>2. CASE ~Writes(r)
        BY <2>2, <4>2 DEF Writes, Step, Arrive, Fail, Skip, Crash, Read, Resolve, NewID, NotFound,
           CalendarCalls, Audit, Reread, Source, Notify, Mail, Links, LinkCalendar, OnlyLocal, stores
      <4>. QED
        BY <4>1, <4>2
    <3>. QED
      BY <1>3, <3>1 DEF NoNewRefs
  <2>. QED
    BY <2>1, <2>2
<1>. QED
  BY <1>2, <1>3 DEF Plain

\* Every request that changes an event keeps hold of it.
LEMMA ChangeGrips ==
    ASSUME ChangesAlone, RefInv, OneChange, Ways, Gripped, Plain, NEW r \in Requests,
           Arrive(r) \/ Step(r) \/ Fail(r) \/ Skip(r) \/ Crash(r)
    PROVE  Gripped'
<1>1. TypeOK
  BY DEF RefInv, IInv
<1>2. ASSUME NEW s \in Requests, s # r, AtWork(s)' PROVE Grip(s)'
  <2>1. /\ op'[s] = op[s] /\ ev'[s] = ev[s] /\ key'[s] = key[s]
        /\ was'[s] = was[s] /\ todo'[s] = todo[s] /\ pc'[s] = pc[s]
        /\ audits \subseteq audits' /\ mails \subseteq mails'
    BY <1>1, <1>2, Elsewhere DEF AtWork, Active, Ended
  <2>2. AtWork(s)
    BY <1>2, <2>1 DEF AtWork, Active
  <2>3. ~Writes(r)
    <3>1. Writes(r) => AtWork(r)
      BY DEF Writes, Patch, LinkPatch, Remove, Ways, AtWork, Active, Ended, Answered, Changes
    <3>. QED
      BY <1>2, <2>2, <3>1 DEF OneChange
  <2>4. Steady
    BY <2>3, OthersSteady
  <2>5. key[s] \in Keys /\ \A l \in todo[s] : l.for \in Keys
    BY <1>1 DEF TypeOK
  <2>. QED
    BY <2>1, <2>2, <2>4, <2>5, GripStays DEF Gripped
<1>3. ASSUME AtWork(r)' PROVE Grip(r)'
  <2>1. {"mail", "audit"} \intersect Failing = {}
    BY <1>1 DEF ChangesAlone, Failing, TypeOK
  <2>2. CASE Arrive(r)
    <3>1. pc'[r] \in {"newID", "read"} /\ (pc'[r] = "newID" => op'[r].name = "add")
      BY <1>1, <2>2, ArriveGoes
    <3>2. pc'[r] = "read"
      BY <1>3, <3>1 DEF AtWork, Changes, Savers
    <3>. QED
      BY <3>2 DEF Grip, Unsaved
  <2>3. CASE Fail(r) \/ Crash(r) \/ Remove(r)
    <3>1. pc'[r] \in Ended
      <4>1. CASE Crash(r)
        <5>1. PICK others \in SUBSET Requests :
                  pc' = [s \in Requests |-> IF s = r \/ (s \in others /\ Active(s))
                                           THEN "lost" ELSE pc[s]]
          BY <4>1 DEF Crash
        <5>. QED
          BY <5>1 DEF Ended
      <4>2. CASE Fail(r) \/ Remove(r)
        BY <1>1, <4>2 DEF Fail, Remove, Goto, TypeOK, Ended, Answered
      <4>. QED
        BY <2>3, <4>1, <4>2
    <3>. QED
      BY <1>3, <3>1, OverGrip
  <2>4. CASE NewID(r) \/ Insert(r)
    <3>1. op'[r] = op[r] /\ op[r].name \in Creators
      BY <1>1, <2>4 DEF NewID, Insert, RefInv, IInv, Control, locals, Ways
    <3>. QED
      BY <1>3, <3>1, ChangeNames DEF AtWork, Changes
  <2>5. CASE Read(r) \/ Resolve(r) \/ CalendarCalls(r) \/ Reread(r) \/ Source(r)
    BY <1>3, <2>5, ReadGrip, CalendarGrip, RereadGrip, SourceGrip
  <2>6. CASE Audit(r) \/ Notify(r) \/ Mail(r) \/ Links(r) \/ Skip(r)
    BY <1>3, <2>1, <2>6, TapGrip
  <2>7. CASE Patch(r) \/ LinkCalendar(r) \/ LinkPatch(r)
    BY <1>3, <2>7, PatchGrip, LinkCalendarGrip, LinkPatchGrip
  <2>. QED
    BY <2>2, <2>3, <2>4, <2>5, <2>6, <2>7 DEF Step
<1>. QED
  BY <1>2, <1>3 DEF Gripped

\* All of it is kept by every step.
LEMMA NextChangeInv ==
    ASSUME ChangesAlone
    PROVE  ChangeInv /\ [Next]_vars => ChangeInv'
<1>. SUFFICES ASSUME ChangeInv, [Next]_vars PROVE ChangeInv'
  OBVIOUS
<1>1. RefInv'
  BY NextRefInv DEF ChangeInv, ChangesAlone
<1>2. CASE UNCHANGED vars
  <2>1. OneChange' /\ Ways' /\ Plain'
    BY <1>2 DEF ChangeInv, OneChange, Ways, Plain, AtWork, Active, vars
  <2>2. \A r \in Requests : (AtWork(r)' <=> AtWork(r)) /\ (Cancels(r)' <=> Cancels(r))
    BY <1>2 DEF AtWork, Active, Cancels, vars
  <2>3. \A l : Linked(l)' <=> Linked(l)
    BY <1>2 DEF Linked, vars
  <2>4. Gripped'
    BY <1>2, <2>2, <2>3 DEF ChangeInv, Gripped, Grip, Found, vars
  <2>. QED
    BY <1>1, <2>1, <2>4 DEF ChangeInv
<1>3. ASSUME NEW r \in Requests, Arrive(r) \/ Step(r) \/ Fail(r) \/ Skip(r) \/ Crash(r)
      PROVE  ChangeInv'
  BY <1>1, <1>3, ChangeWays, ChangeAlone, ChangePlain, ChangeGrips DEF ChangeInv
<1>. QED
  BY <1>2, <1>3 DEF Next, Rest

-----------------------------------------------------------------------------
(* What follows for documents that go, turn cancelled, or are overridden *)

\* A step that touches what is stored is that of a save or of a deletion.
LEMMA WhoWrites ==
    ASSUME RefInv, [Next]_vars, NEW k \in Keys, docs[k] # NoDoc, docs'[k] # docs[k]
    PROVE  \E r \in Requests : Writes(r)
<1>1. ~UNCHANGED vars
  BY DEF vars
<1>2. PICK r \in Requests : Arrive(r) \/ Step(r) \/ Fail(r) \/ Skip(r) \/ Crash(r)
  BY <1>1 DEF Next, Rest
<1>. QED
  BY <1>2, OthersSteady DEF Steady

\* What deleteEvent removes by account and id is the document that it has audited, when
\* saves and deletions, and creations, are made one at a time and audits do not fail.
THEOREM RemovalsAudited ==
    ASSUME ChangesAlone, SeedsPlain
    PROVE  Spec => RemovalAudited
<1>1. ASSUME ChangeInv, [Next]_vars, NEW k \in Keys, docs[k] # NoDoc, docs'[k] = NoDoc
      PROVE  \E r \in Requests : [key |-> k, by |-> r, type |-> "DELETE"] \in audits
  <2>1. RefInv /\ Ways /\ Gripped /\ Plain /\ TypeOK /\ UniqueRefs
    BY <1>1 DEF ChangeInv, RefInv, IInv
  <2>2. PICK r \in Requests : Writes(r)
    BY <1>1, <2>1, WhoWrites
  <2>3. CASE Remove(r)
    <3>1. k \in Matching(ev[r].acct, ev[r].id) /\ pc[r] = "remove"
      BY <1>1, <2>3 DEF Remove
    <3>2. Grip(r)
      BY <2>1, <3>1 DEF Ways, Gripped, AtWork, Active, Ended, Answered, Changes
    <3>3. Found(r) /\ key[r] \in Keys
      BY <2>1, <3>1, <3>2 DEF Grip, TypeOK
    <3>4. k = key[r]
      BY <1>1, <2>1, <3>1, <3>3 DEF Found, Alike, UniqueRefs, Matching, Stored
    <3>. QED
      BY <3>1, <3>2, <3>4 DEF Grip
  <2>4. CASE LinkPatch(r)
    BY <1>1, <2>1, <2>4, LinkPatchMeets
  <2>5. CASE Patch(r)
    <3>1. docs'[k] = docs[k] \/ (docs'[k] = PatchedDoc(docs[k], SavedDoc(r))
                                 /\ docs[k] \in Docs /\ SavedDoc(r) \in Docs)
      BY <1>1, <2>1, <2>5, PatchMeets
    <3>. QED
      BY <1>1, <3>1, PatchedDocTyped, ConstantsOK
  <2>. QED
    BY <2>2, <2>3, <2>4, <2>5 DEF Writes
<1>2. ChangeInv /\ [Next]_vars =>
      [ \A k \in Keys : docs[k] # NoDoc /\ docs'[k] = NoDoc =>
          \E r \in Requests : [key |-> k, by |-> r, type |-> "DELETE"] \in audits ]_vars
  BY <1>1
<1>. QED
  BY <1>2, InitChangeInv, NextChangeInv, PTL DEF Spec, RemovalAudited

\* A save that cancels an event has sent the notice for that event, when saves and deletions,
\* and creations, are made one at a time and the mail does not fail: oldEvent, by
\* which saveRegularEventFunc decides, is the event that the patch goes to.
THEOREM CancellationsMailed ==
    ASSUME ChangesAlone, SeedsPlain
    PROVE  Spec => CancellationMailed
<1>1. ASSUME ChangeInv, [Next]_vars, NEW k \in Keys, docs[k] # NoDoc, docs'[k] # NoDoc,
             docs[k].kind = "REGULAR", docs[k].data.status # "CANCELLED",
             docs'[k].data.status = "CANCELLED"
      PROVE  \E r \in Requests : pc[r] = "patch" /\ [key |-> k, by |-> r] \in mails
  <2>1. RefInv /\ Ways /\ Gripped /\ Plain /\ TypeOK
    BY <1>1 DEF ChangeInv, RefInv, IInv
  <2>2. PICK r \in Requests : Writes(r)
    BY <1>1, <2>1, WhoWrites
  <2>3. CASE Remove(r)
    BY <1>1, <2>1, <2>3 DEF Remove
  <2>4. CASE LinkPatch(r)
    BY <1>1, <2>1, <2>4, LinkPatchMeets
  <2>5. CASE Patch(r)
    <3>1. pc[r] = "patch" /\ Grip(r) /\ k = key[r] /\ ev[r] \in Docs /\ op[r].name \in Savers
      BY <1>1, <2>1, <2>5, PatchMeets DEF Patch, Ways, TypeOK
    <3>2. /\ docs'[k] = PatchedDoc(docs[k], SavedDoc(r)) /\ docs[k] \in Docs
          /\ SavedDoc(r) \in Docs /\ Found(r)
      BY <1>1, <2>1, <2>5, <3>1, PatchMeets
    <3>3. ev[r].kind = "REGULAR"
      BY <1>1, <3>1, <3>2 DEF Found, Alike
    <3>4. SavedDoc(r).data.status = ev[r].data.status
      BY <3>1, <3>3, DocFields DEF SavedDoc, Docs, Data
    <3>5. PatchedField(docs[k].data.status, ev[r].data.status) = "CANCELLED"
      BY <1>1, <3>2, <3>4, PatchedFields
    <3>6. ev[r].data.status \in {Undef} \union Statuses
      BY <3>1, DocFields DEF Data
    <3>7. ev[r].data.status = "CANCELLED"
      BY <1>1, <3>5, <3>6, NullIsNoValue DEF PatchedField
    <3>8. Cancels(r)
      <4>1. pc[r] \in Unsaved /\ was[r] = docs[key[r]].data
        BY <3>1 DEF Grip, Unsaved
      <4>. QED
        BY <1>1, <3>1, <3>7, <4>1 DEF Cancels
    <3>. QED
      BY <3>1, <3>3, <3>8 DEF Grip
  <2>. QED
    BY <2>2, <2>3, <2>4, <2>5 DEF Writes
<1>2. ChangeInv /\ [Next]_vars =>
      [ \A k \in Keys :
          /\ docs[k] # NoDoc /\ docs'[k] # NoDoc
          /\ docs[k].kind = "REGULAR"
          /\ docs[k].data.status # "CANCELLED"
          /\ docs'[k].data.status = "CANCELLED"
          => \E r \in Requests : pc[r] = "patch" /\ [key |-> k, by |-> r] \in mails ]_vars
  BY <1>1
<1>. QED
  BY <1>2, InitChangeInv, NextChangeInv, PTL DEF Spec, CancellationMailed

\* What a link overrides is changed by a save of that link only, under the same
\* assumption: updateLinkedEvents writes back the overrides that are there.
THEOREM OverridesStay ==
    ASSUME ChangesAlone, SeedsPlain
    PROVE  Spec => OverridesKept
<1>1. ASSUME ChangeInv, [Next]_vars, NEW k \in Keys, docs[k] # NoDoc, docs'[k] # NoDoc,
             docs'[k].extra # docs[k].extra
      PROVE  \E r \in Requests : pc[r] = "patch" /\ key[r] = k /\ ev[r].kind = "LINKED"
  <2>1. RefInv /\ Ways /\ Gripped /\ Plain /\ TypeOK
    BY <1>1 DEF ChangeInv, RefInv, IInv
  <2>2. PICK r \in Requests : Writes(r)
    BY <1>1, <2>1, WhoWrites
  <2>3. CASE Remove(r)
    BY <1>1, <2>1, <2>3 DEF Remove
  <2>4. CASE LinkPatch(r)
    BY <1>1, <2>1, <2>4, LinkPatchMeets
  <2>5. CASE Patch(r)
    <3>1. pc[r] = "patch" /\ Grip(r) /\ k = key[r] /\ ev[r] \in Docs
      BY <1>1, <2>1, <2>5, PatchMeets DEF Patch, TypeOK
    <3>2. /\ docs'[k] = PatchedDoc(docs[k], SavedDoc(r)) /\ docs[k] \in Docs
          /\ SavedDoc(r) \in Docs /\ SavedDoc(r).extra = ev[r].extra
      BY <1>1, <2>1, <2>5, <3>1, PatchMeets
    <3>3. docs'[k].extra = FieldWise(PatchedField, docs[k].extra, ev[r].extra)
      <4>1. PatchedDoc(docs[k], SavedDoc(r)).extra
               = FieldWise(PatchedField, docs[k].extra, SavedDoc(r).extra)
        BY <3>2, PatchedFields
      <4>. QED
        BY <3>2, <4>1
    <3>4. docs[k].extra \in Data /\ docs[k].extra.cal # NoEntry
      BY <1>1, <2>1, <3>2, DocFields DEF Plain
    <3>5. ev[r].extra # docs[k].extra
      BY <1>1, <3>3, <3>4, PatchedSame
    <3>6. ev[r].kind = "LINKED"
      BY <3>1, <3>5, DocFields DEF Grip, Unsaved
    <3>. QED
      BY <3>1, <3>6
  <2>. QED
    BY <2>2, <2>3, <2>4, <2>5 DEF Writes
<1>2. ChangeInv /\ [Next]_vars =>
      [ \A k \in Keys :
          /\ docs[k] # NoDoc /\ docs'[k] # NoDoc
          /\ docs'[k].extra # docs[k].extra
          => \E r \in Requests : /\ pc[r] = "patch" /\ key[r] = k
                                 /\ ev[r].kind = "LINKED" ]_vars
  BY <1>1
<1>. QED
  BY <1>2, InitChangeInv, NextChangeInv, PTL DEF Spec, OverridesKept

-----------------------------------------------------------------------------
(* Debrief items.  A save of a regular event holds all that the event said   *)
(* when it was read, which it still says when the save is written, so that   *)
(* only what the operation changes is changed.                               *)

\* A change of an event has no debrief in its body (NewEventObject has none).
BodiesPlain ==
    \A i \in DOMAIN Conditions : \A o \in Conditions[i].menu :
        o.name = "set" => o.body.debrief = Undef

Asked == \A r \in Requests : pc[r] # "idle" /\ op[r].name = "set" => op[r].body.debrief = Undef

\* What a request is going to save is what it makes of the event as that is.
Intent(r) ==
    pc[r] \in Unsaved \union {"reread"} /\ ev[r].kind = "REGULAR"
    => ev[r].data = Desired(r, docs[key[r]].data)
Meant == \A r \in Requests : AtWork(r) => Intent(r)

\* Only regular events get debrief items.
Debriefing(r) ==
    /\ op[r].name = "addDebrief"
    /\ pc[r] \notin Ended \union {"idle", "read"}
RegularOnes == \A r \in Requests : Debriefing(r) => ev[r].kind = "REGULAR"

\* A debrief item that has been written, and that nobody has asked to delete.
Written == {"links", "linkCalendar", "linksAgain", "linkPatch", "audit", "done"}
Noted(r) == pc[r] \in Written /\ op[r].name = "addDebrief"
DeletionAsked(r) ==
    \E s \in Requests : pc[s] # "idle" /\ op[s].name = "deleteDebrief" /\ op[s].item = r
ItemThere(r) ==
    docs[key[r]] # NoDoc /\ ~DeletionAsked(r) =>
        docs[key[r]].kind = "REGULAR" /\ r \in docs[key[r]].data.debrief

\* The document it was written to is not one that is still to come.
NotToCome(r) ==
    key[r] \in Requests =>
        pc[key[r]] \in {"audit", "done", "lost"} /\ op[key[r]].name \in Creators

Items == \A r \in Requests : Noted(r) => ItemThere(r) /\ NotToCome(r)

DebriefInv == ChangeInv /\ Asked /\ Meant /\ RegularOnes /\ Items

\* Nobody asks for less later on.
LEMMA AskedOn ==
    ASSUME TypeOK, NEW r \in Requests, NEW s \in Requests,
           Arrive(r) \/ Step(r) \/ Fail(r) \/ Skip(r) \/ Crash(r),
           pc[s] # "idle"
    PROVE  op'[s] = op[s] /\ pc'[s] # "idle"
<1>1. CASE s # r
  BY <1>1, Elsewhere
<1>2. CASE s = r
  <2>1. ~Arrive(r)
    BY <1>2 DEF Arrive
  <2>2. CASE Step(r)
    BY <1>2, <2>2 DEF Step, Read, Resolve, NewID, NotFound, CalendarCalls, Insert, Audit, Remove,
       Reread, Source, Notify, Mail, Patch, Links, LinkCalendar, LinkPatch, AfterRead, AfterTap, locals,
       Goto, TypeOK, Labels, OnlyLocal
  <2>3. CASE Fail(r) \/ Skip(r)
    BY <1>2, <2>3 DEF Fail, Skip, AfterTap, locals, Goto, TypeOK
  <2>4. CASE Crash(r)
    BY <1>2, <2>4, CrashEnds DEF locals
  <2>. QED
    BY <2>1, <2>2, <2>3, <2>4
<1>. QED
  BY <1>1, <1>2

\* A deletion that was asked for stays asked for.
LEMMA AskedKept ==
    ASSUME TypeOK, NEW r \in Requests, NEW k \in Requests,
           Arrive(r) \/ Step(r) \/ Fail(r) \/ Skip(r) \/ Crash(r)
    PROVE  DeletionAsked(k) => DeletionAsked(k)'
BY AskedOn DEF DeletionAsked

\* Menus ask for no debrief.
LEMMA AskedStays ==
    ASSUME BodiesPlain, TypeOK, Asked, NEW r \in Requests,
           Arrive(r) \/ Step(r) \/ Fail(r) \/ Skip(r) \/ Crash(r)
    PROVE  Asked'
<1>. SUFFICES ASSUME NEW s \in Requests, pc'[s] # "idle", op'[s].name = "set"
              PROVE  op'[s].body.debrief = Undef
  BY DEF Asked
<1>1. CASE pc[s] # "idle"
  BY <1>1, AskedOn DEF Asked
<1>2. CASE pc[s] = "idle"
  <2>1. s = r /\ Arrive(r)
    <3>2. ~Crash(r)
      BY <1>2, CrashEnds DEF Active
    <3>1. s = r
      <4>1. CASE s # r
        <5>1. pc'[s] = "idle"
          <6>1. CASE Arrive(r) \/ Fail(r) \/ Skip(r)
            BY ZenonT(60), <1>2, <4>1, <6>1 DEF Arrive, Fail, Skip, Goto, TypeOK
          <6>2. CASE Step(r)
            BY <1>2, <4>1, <6>2 DEF Step, Read, Resolve, NewID, NotFound, CalendarCalls, Insert, Audit, Remove,
               Reread, Source, Notify, Mail, Patch, Links, LinkCalendar, LinkPatch, Goto, TypeOK
          <6>. QED
            BY <3>2, <6>1, <6>2
        <5>. QED
          BY <5>1
      <4>. QED
        BY <4>1
    <3>. QED
      BY <1>2, <3>1, <3>2 DEF Step, Read, Resolve, NewID, CalendarCalls, Insert, Audit, Remove,
       Reread, Source, Notify, Mail, Patch, Links, LinkCalendar, LinkPatch, Fail, Skip, Main, Tapped
  <2>2. PICK o \in Menu : op' = [op EXCEPT ![r] = o]
    BY <2>1 DEF Arrive
  <2>3. op'[s] = o
    BY <2>1, <2>2 DEF TypeOK
  <2>. QED
    BY <2>2, <2>3 DEF BodiesPlain, Menu, TypeOK
<1>. QED
  BY <1>1, <1>2

\* A request means the same as long as it asks the same.
LEMMA SameMeaning ==
    ASSUME NEW r \in Requests, op'[r] = op[r], ev'[r] = ev[r], docs'[key'[r]] = docs[key[r]],
           Intent(r), pc[r] \in Unsaved \union {"reread"}
    PROVE  Intent(r)'
<1>. DEFINE x == docs[key[r]].data
<1>1. x' = x
  OBVIOUS
<1>2. Desired(r, x)' = Desired(r, x)
  BY <1>1 DEF Desired
<1>. QED
  BY <1>2 DEF Intent

\* What was read is what will be changed.
LEMMA ReadMeant ==
    ASSUME RefInv, Ways, Gripped, Meant, NEW r \in Requests, Read(r) \/ Resolve(r) \/ Reread(r), AtWork(r)'
    PROVE  Intent(r)'
<1>1. TypeOK /\ docs' = docs /\ op' = op
  BY DEF RefInv, IInv, Read, Resolve, Reread, NotFound, OnlyLocal, stores, locals
<1>2. ~NotFound(r)
  BY <1>1, OverGrip DEF NotFound, Goto, TypeOK, Ended, Answered
<1>3. AtWork(r)
  BY <1>1 DEF AtWork, Active, Read, Resolve, Reread, Ended, Answered
<1>4. CASE Read(r)
  <2>1. PICK k \in Keys :
             /\ Matching(op[r].acct, op[r].id) = {k}
             /\ key' = [key EXCEPT ![r] = k]
             /\ IF docs[k].kind = "LINKED"
                THEN /\ ev' = [ev EXCEPT ![r] = docs[k]]
                     /\ Goto(r, "resolve")
                ELSE /\ ev' = [ev EXCEPT ![r] =
                                  [docs[k] EXCEPT !.data = Desired(r, @)]]
                     /\ Goto(r, AfterRead(r))
    BY <1>2, <1>4 DEF Read
  <2>2. docs[k] # NoDoc /\ docs[k] \in Docs /\ key'[r] = k
    BY <1>1, <2>1, MatchOne DEF TypeOK
  <2>3. CASE docs[k].kind = "LINKED"
    BY <1>1, <2>1, <2>3 DEF TypeOK, Goto, Intent, Unsaved
  <2>4. CASE docs[k].kind # "LINKED"
    <3>1. ev'[r].data = Desired(r, docs[k].data)
      BY <1>1, <2>1, <2>2, <2>4 DEF TypeOK, Docs
    <3>. DEFINE x == docs[key[r]].data
    <3>2. x' = docs[k].data
      BY <1>1, <2>2
    <3>3. Desired(r, x)' = Desired(r, docs[k].data)
      BY <1>1, <3>2 DEF Desired
    <3>. QED
      BY <3>1, <3>3 DEF Intent
  <2>. QED
    BY <2>3, <2>4
<1>5. CASE Resolve(r)
  <2>1. PICK k \in Keys : ev' = [ev EXCEPT ![r] = InHand(r, docs[k])]
    BY <1>2, <1>5 DEF Resolve
  <2>2. op[r].name # "copy" /\ ev[r] \in Docs
    BY <1>1, <1>3, <1>5 DEF AtWork, Changes, Savers, Resolve, TypeOK
  <2>4. ev'[r].kind = ev[r].kind
    BY <1>1, <2>1, <2>2 DEF InHand, Resolved, Docs, TypeOK
  <2>. QED
    BY <1>5, <2>4 DEF Intent, Ways, Resolve
<1>6. CASE Reread(r)
  <2>1. PICK k \in Keys :
             /\ Matching(ev[r].acct, ev[r].id) = {k} /\ docs[k].kind = ev[r].kind
             /\ key' = [key EXCEPT ![r] = k] /\ UNCHANGED ev
    BY <1>2, <1>6 DEF Reread
  <2>2. Found(r) /\ key[r] \in Keys /\ pc[r] = "reread"
    BY <1>1, <1>3, <1>6 DEF Gripped, Grip, Reread, TypeOK
  <2>4. key[r] = k
    BY <2>1, <2>2, MatchOne DEF Found, Alike
  <2>3. key'[r] = key[r]
    BY <1>1, <2>1, <2>4 DEF TypeOK
  <2>. QED
    BY <1>1, <1>3, <2>1, <2>2, <2>3, SameMeaning DEF Meant
<1>. QED
  BY <1>4, <1>5, <1>6

\* Others leave the event alone that a save has read, and so does the save until its patch.
LEMMA MeantStays ==
    ASSUME ChangeInv, Meant, NEW r \in Requests,
           Arrive(r) \/ Step(r) \/ Fail(r) \/ Skip(r) \/ Crash(r)
    PROVE  Meant'
<1>1. TypeOK /\ RefInv /\ OneChange /\ Ways /\ Gripped
  BY DEF ChangeInv, RefInv, IInv
<1>. DEFINE Held == Unsaved \union {"reread"}
<1>2. ASSUME NEW s \in Requests, s # r, AtWork(s)', pc'[s] \in Held PROVE Intent(s)'
  <2>1. op'[s] = op[s] /\ ev'[s] = ev[s] /\ key'[s] = key[s] /\ pc'[s] = pc[s]
    BY <1>1, <1>2, Elsewhere DEF AtWork, Active, Ended
  <2>2. AtWork(s)
    BY <1>2, <2>1 DEF AtWork, Active
  <2>3. ~Writes(r)
    <3>1. Writes(r) => AtWork(r)
      BY <1>1 DEF Writes, Patch, LinkPatch, Remove, Ways, AtWork, Active, Ended, Answered, Changes
    <3>. QED
      BY <1>1, <1>2, <2>2, <3>1 DEF OneChange
  <2>4. Steady
    BY <1>1, <2>3, OthersSteady
  <2>5. Found(s) /\ key[s] \in Keys
    BY <1>1, <1>2, <2>1, <2>2 DEF TypeOK, Gripped, Grip, Unsaved
  <2>6. docs'[key'[s]] = docs[key[s]]
    BY <2>1, <2>4, <2>5 DEF Steady, Found
  <2>. QED
    BY <1>2, <2>1, <2>2, <2>6, SameMeaning DEF Meant
<1>3. ASSUME AtWork(r)', pc'[r] \in Held PROVE Intent(r)'
  <2>1. CASE Arrive(r)
    BY <1>1, <1>3, <2>1, ArriveGoes DEF Unsaved
  <2>2. CASE Read(r) \/ Resolve(r) \/ Reread(r)
    BY <1>1, <1>3, <2>2, ReadMeant
  <2>3. CASE Fail(r) \/ Crash(r) \/ Remove(r)
    <3>1. pc'[r] \in Ended
      <4>1. CASE Crash(r)
        <5>1. PICK others \in SUBSET Requests :
                  pc' = [s \in Requests |-> IF s = r \/ (s \in others /\ Active(s))
                                           THEN "lost" ELSE pc[s]]
          BY <4>1 DEF Crash
        <5>. QED
          BY <5>1 DEF Ended
      <4>2. CASE Fail(r) \/ Remove(r)
        BY <1>1, <4>2 DEF Fail, Remove, Goto, TypeOK, Ended, Answered
      <4>. QED
        BY <2>3, <4>1, <4>2
    <3>. QED
      BY <1>3, <3>1, OverGrip
  <2>4. CASE NewID(r) \/ Insert(r)
    <3>1. op'[r] = op[r] /\ op[r].name \in Creators
      BY <1>1, <2>4 DEF NewID, Insert, RefInv, IInv, Control, locals, Ways
    <3>. QED
      BY <1>3, <3>1, ChangeNames DEF AtWork, Changes
  <2>5. CASE Source(r)
    <3>1. ev[r].kind = "LINKED" /\ ev[r] \in Docs
      BY <1>1, <2>5 DEF Source, Ways, TypeOK
    <3>2. ev'[r].kind = "LINKED"
      BY <1>1, <2>5, <3>1 DEF Source, NotFound, locals, TypeOK, Docs
    <3>. QED
      BY <3>2 DEF Intent
  <2>6. CASE CalendarCalls(r) \/ Notify(r) \/ Mail(r) \/ Audit(r) \/ Links(r) \/ LinkCalendar(r)
             \/ Skip(r)
    <3>1. docs' = docs /\ op' = op /\ ev' = ev /\ key' = key
      BY <2>6 DEF CalendarCalls, Notify, Mail, Audit, Links, LinkCalendar, Skip, locals, OnlyLocal, stores
    <3>2. /\ pc[r] \in {"calendar"} \union Tapped
          /\ pc'[r] \in {pc[r], AfterTap(r), "audit", "insert", "source", "notify", "failed"}
          /\ pc[r] # "calendar" => pc'[r] \in {pc[r], AfterTap(r)}
      BY <1>1, <2>6 DEF CalendarCalls, Notify, Mail, Audit, Links, LinkCalendar, Skip, Goto, TypeOK, Tapped
    <3>3. pc[r] \in Held
      BY <1>3, <3>2 DEF Unsaved, AfterTap, Tapped
    <3>4. AtWork(r)
      BY <3>1, <3>2, <1>3 DEF AtWork, Active, Ended, Answered, Tapped
    <3>. QED
      BY <3>1, <3>3, <3>4, SameMeaning DEF Meant
  <2>7. CASE Patch(r)
    BY <1>1, <1>3, <2>7 DEF Patch, Goto, TypeOK, Unsaved
  <2>8. CASE LinkPatch(r)
    <3>1. pc[r] = "linkPatch" /\ pc'[r] \in {pc[r], AfterTap(r)}
      BY <1>1, <2>8 DEF LinkPatch, Goto, TypeOK
    <3>. QED
      BY <1>3, <3>1 DEF AfterTap, Unsaved
  <2>. QED
    BY <2>1, <2>2, <2>3, <2>4, <2>5, <2>6, <2>7, <2>8 DEF Step
<1>4. ASSUME NEW s \in Requests, pc'[s] \notin Held PROVE Intent(s)'
  BY <1>4 DEF Intent
<1>. QED
  BY <1>2, <1>3, <1>4 DEF Meant

\* A debrief begins with the read of a regular event.
LEMMA RegularOnesStay ==
    ASSUME ChangeInv, RegularOnes, NEW r \in Requests,
           Arrive(r) \/ Step(r) \/ Fail(r) \/ Skip(r) \/ Crash(r)
    PROVE  RegularOnes'
<1>1. TypeOK /\ RefInv /\ Ways /\ Control
  BY DEF ChangeInv, RefInv, IInv
<1>. SUFFICES ASSUME NEW s \in Requests, Debriefing(s)' PROVE ev'[s].kind = "REGULAR"
  BY DEF RegularOnes
<1>2. CASE s # r
  <2>1. op'[s] = op[s] /\ ev'[s] = ev[s] /\ pc'[s] = pc[s]
    BY <1>1, <1>2, Elsewhere DEF Debriefing, Ended
  <2>. QED
    BY <2>1 DEF RegularOnes, Debriefing
<1>3. CASE s = r
  <2>1. CASE Arrive(r)
    BY <1>1, <1>3, <2>1, ArriveGoes DEF Debriefing
  <2>2. CASE Read(r)
    <3>1. ~NotFound(r) /\ op' = op
      BY <1>1, <1>3, <2>2 DEF Read, NotFound, Goto, TypeOK, Debriefing, Ended, Answered, locals
    <3>2. PICK k \in Keys :
             /\ Matching(op[r].acct, op[r].id) = {k}
             /\ docs[k].kind = "REGULAR" \/ op[r].name \in {"set", "copy", "delete"}
             /\ IF docs[k].kind = "LINKED"
                THEN /\ ev' = [ev EXCEPT ![r] = docs[k]]
                     /\ Goto(r, "resolve")
                ELSE /\ ev' = [ev EXCEPT ![r] =
                                  [docs[k] EXCEPT !.data = Desired(r, @)]]
                     /\ Goto(r, AfterRead(r))
      BY <2>2, <3>1 DEF Read
    <3>3. docs[k].kind = "REGULAR"
      BY <1>3, <3>1, <3>2 DEF Debriefing
    <3>4. docs[k] # NoDoc
      BY <3>2, MatchOne
    <3>5. docs[k] \in Docs
      BY <1>1, <3>4 DEF TypeOK
    <3>. QED
      BY <1>1, <1>3, <3>2, <3>3, <3>5 DEF TypeOK, Docs
  <2>3. CASE ~Arrive(r) /\ ~Read(r)
    <3>1. op' = op /\ pc[r] # "idle" /\ pc[r] # "read" /\ (pc[r] \in Ended => pc'[r] \in Ended)
      BY <1>1, <1>3, <2>3, CrashEnds DEF Step, Resolve, NewID, NotFound, CalendarCalls, Insert, Audit,
         Remove, Reread, Source, Notify, Mail, Patch, Links, LinkCalendar, LinkPatch, Fail, Skip,
         Debriefing, Goto, TypeOK, Ended, Answered, Main, Tapped, Streamed, locals, Crash
    <3>2. Debriefing(r) /\ ev[r].kind = "REGULAR"
      BY <1>3, <3>1 DEF Debriefing, RegularOnes
    <3>3. ~Resolve(r) /\ ~Source(r)
      BY <1>1, <3>2 DEF Resolve, Source, Control, Debriefing, Ways
    <3>4. ev' = ev
      BY <2>3, <3>3, CrashEnds DEF Step, NewID, NotFound, CalendarCalls, Insert, Audit,
         Remove, Reread, Notify, Mail, Patch, Links, LinkCalendar, LinkPatch, Fail, Skip, locals
    <3>. QED
      BY <1>3, <3>2, <3>4
  <2>. QED
    BY <2>1, <2>2, <2>3
<1>. QED
  BY <1>2, <1>3

\* What a save makes of the debrief of the event.
LEMMA PatchDebrief ==
    ASSUME ChangeInv, Meant, NEW r \in Requests, Patch(r),
           ev[r].kind = "REGULAR" \/ docs[key[r]].kind = "REGULAR"
    PROVE  /\ docs'[key[r]].kind = "REGULAR" /\ docs[key[r]].kind = "REGULAR"
           /\ docs'[key[r]].data.debrief = Desired(r, docs[key[r]].data).debrief
           /\ docs[key[r]].data \in Data /\ docs[key[r]].data.debrief \in SUBSET Requests
<1>1. RefInv /\ Ways /\ Gripped /\ TypeOK
  BY DEF ChangeInv, RefInv, IInv
<1>2. pc[r] = "patch" /\ AtWork(r) /\ op[r].name \in Savers /\ key[r] \in Keys /\ ev[r] \in Docs
  BY <1>1 DEF Patch, Ways, AtWork, Active, Ended, Answered, Changes, TypeOK
<1>3. Found(r)
  BY <1>1, <1>2 DEF Gripped, Grip
<1>. DEFINE d == docs[key[r]]
<1>4. /\ d # NoDoc /\ d \in Docs /\ SavedDoc(r) \in Docs /\ SavedDoc(r).kind = ev[r].kind
      /\ docs'[key[r]] = PatchedDoc(d, SavedDoc(r))
  BY <1>1, <1>2, <1>3, PatchMeets DEF Found
<1>5. ev[r].kind = "REGULAR" /\ d.kind = "REGULAR"
  BY <1>3 DEF Found, Alike
<1>6. ev[r].data = Desired(r, d.data)
  BY <1>2, <1>5 DEF Meant, Intent, Unsaved
<1>7. SavedDoc(r).data.debrief = ev[r].data.debrief
  BY <1>2, <1>5, DocFields DEF SavedDoc, Docs, Data
<1>8. /\ ev[r].data.debrief \in SUBSET Requests /\ d.data \in Data
      /\ d.data.debrief \in SUBSET Requests
  BY <1>2, <1>4, <1>5, DocFields DEF Docs, Data
<1>9. docs'[key[r]].data.debrief = PatchedField(d.data.debrief, SavedDoc(r).data.debrief)
  BY <1>4 DEF PatchedDoc, Docs, FieldWise
<1>10. docs'[key[r]].data.debrief = ev[r].data.debrief
  BY <1>7, <1>8, <1>9, NullIsNoValue DEF PatchedField
<1>11. docs'[key[r]].kind = "REGULAR"
  BY <1>4, <1>5, PatchedFields
<1>. QED
  BY <1>5, <1>6, <1>8, <1>10, <1>11

\* An item that is there stays there.
LEMMA ItemStays ==
    ASSUME ChangeInv, Asked, Meant, NEW r \in Requests,
           Arrive(r) \/ Step(r) \/ Fail(r) \/ Skip(r) \/ Crash(r),
           NEW k \in Requests, ItemThere(k), NotToCome(k), key'[k] = key[k]
    PROVE  ItemThere(k)'
<1>1. TypeOK /\ RefInv /\ Ways /\ Gripped /\ Plain
  BY DEF ChangeInv, RefInv, IInv
<1>2. PICK j \in Keys : j = key[k]
  BY <1>1 DEF TypeOK
<1>. SUFFICES ASSUME docs'[j] # NoDoc, ~DeletionAsked(k)'
              PROVE  docs'[j].kind = "REGULAR" /\ k \in docs'[j].data.debrief
  BY <1>2 DEF ItemThere
<1>3. ~DeletionAsked(k)
  BY <1>1, AskedKept
<1>4. CASE docs[j] = NoDoc
  <2>1. ~(Insert(r) /\ j = r)
    BY <1>2 DEF Insert, NotToCome
  <2>2. CASE Insert(r)
    BY <1>1, <1>4, <2>1, <2>2 DEF Insert, TypeOK
  <2>3. CASE Remove(r)
    BY <1>4, <2>3 DEF Remove
  <2>4. CASE Patch(r)
    BY <1>4, <2>4 DEF Patch, Patched, Matching, Stored
  <2>5. CASE LinkPatch(r)
    BY <1>4, <2>5 DEF LinkPatch, Patched, Matching, Stored
  <2>6. CASE ~Insert(r) /\ ~Writes(r)
    BY <1>4, <2>6, CrashEnds DEF Writes, Step, Arrive, Fail, Skip, Crash, Read, Resolve, NewID, NotFound,
       CalendarCalls, Audit, Reread, Source, Notify, Mail, Links, LinkCalendar, OnlyLocal, stores
  <2>. QED
    BY <2>2, <2>3, <2>4, <2>5, <2>6 DEF Writes
<1>5. CASE docs[j] # NoDoc
  <2>1. docs[j].kind = "REGULAR" /\ k \in docs[j].data.debrief
    BY <1>2, <1>3, <1>5 DEF ItemThere
  <2>2. CASE ~Writes(r)
    BY <1>1, <1>5, <2>1, <2>2, OthersSteady DEF Steady
  <2>3. CASE Remove(r)
    BY <2>1, <2>3 DEF Remove
  <2>4. CASE LinkPatch(r)
    BY <1>1, <1>5, <2>1, <2>4, LinkPatchMeets
  <2>5. CASE Patch(r)
    <3>1. CASE j # key[r]
      BY <1>1, <1>5, <2>1, <2>5, <3>1, PatchMeets
    <3>2. CASE j = key[r]
      <4>1. /\ docs'[j].kind = "REGULAR" /\ docs[j].data \in Data
            /\ docs[j].data.debrief \in SUBSET Requests
            /\ docs'[j].data.debrief = Desired(r, docs[j].data).debrief
        BY <2>1, <2>5, <3>2, PatchDebrief
      <4>2. pc[r] = "patch" /\ op[r].name \in Savers /\ op[r] \in Ops
        BY <1>1, <2>5 DEF Patch, Ways, TypeOK
      <4>. DEFINE x == docs[j].data
      <4>3. CASE op[r].name = "set"
        <5>1. op[r].body.debrief = Undef
          BY <4>2, <4>3 DEF Asked
        <5>2. Desired(r, x) = Overlay(x, op[r].body)
          BY <4>3 DEF Desired
        <5>3. Overlay(x, op[r].body).debrief = x.debrief
          BY <5>1 DEF Overlay, FieldWise, Over
        <5>. QED
          BY <2>1, <4>1, <5>2, <5>3
      <4>4. CASE op[r].name = "addDebrief"
        BY <2>1, <4>1, <4>4 DEF Desired, Data
      <4>5. CASE op[r].name = "deleteDebrief"
        <5>2. op[r].item # k
          BY <4>2, <4>5, <1>3 DEF DeletionAsked
        <5>3. Desired(r, x).debrief = x.debrief \ {op[r].item}
          BY <4>1, <4>5 DEF Desired, Data
        <5>. QED
          BY <2>1, <4>1, <5>2, <5>3
      <4>. QED
        BY <4>2, <4>3, <4>4, <4>5 DEF Savers
    <3>. QED
      BY <3>1, <3>2
  <2>. QED
    BY <2>2, <2>3, <2>4, <2>5 DEF Writes
<1>. QED
  BY <1>4, <1>5

\* The document an item was written to is past its insertion for good.
LEMMA NotToComeStays ==
    ASSUME TypeOK, Paths, NEW r \in Requests,
           Arrive(r) \/ Step(r) \/ Fail(r) \/ Skip(r) \/ Crash(r),
           NEW k \in Requests, NotToCome(k), key'[k] = key[k]
    PROVE  NotToCome(k)'
<1>. SUFFICES ASSUME NEW j \in Requests, j = key[k], pc[j] \in {"audit", "done", "lost"},
                     op[j].name \in Creators
              PROVE  pc'[j] \in {"audit", "done", "lost"} /\ op'[j].name \in Creators
  BY DEF NotToCome
<1>1. op'[j] = op[j]
  BY AskedOn
<1>2. CASE j # r
  BY <1>1, <1>2, Elsewhere
<1>3. CASE j = r
  <2>1. CASE Crash(r)
    BY <1>1, <1>3, <2>1, CrashEnds
  <2>2. CASE ~Crash(r)
    <3>1. pc[r] = "audit" /\ (Audit(r) \/ Skip(r))
      BY <1>3, <2>2 DEF Arrive, Step, Read, Resolve, NewID, CalendarCalls, Insert, Audit, Remove,
         Reread, Source, Notify, Mail, Patch, Links, LinkCalendar, LinkPatch, Fail, Skip, Main, Tapped
    <3>2. AfterTap(r) = "done"
      BY <1>3, <3>1, DisjointNames DEF AfterTap
    <3>. QED
      BY <1>1, <1>3, <3>1, <3>2 DEF Audit, Skip, Goto, TypeOK
  <2>. QED
    BY <2>1, <2>2
<1>. QED
  BY <1>2, <1>3

\* An item gets written by the patch of its request.
LEMMA ItemsStay ==
    ASSUME ChangeInv, Asked, Meant, RegularOnes, Items, NEW r \in Requests,
           Arrive(r) \/ Step(r) \/ Fail(r) \/ Skip(r) \/ Crash(r)
    PROVE  Items'
<1>1. TypeOK /\ RefInv /\ Ways /\ Gripped /\ Paths /\ Control
  BY DEF ChangeInv, RefInv, IInv
<1>. SUFFICES ASSUME NEW k \in Requests, Noted(k)'
              PROVE  ItemThere(k)' /\ NotToCome(k)'
  BY DEF Items
<1>2. CASE Noted(k)
  <2>1. key'[k] = key[k]
    <3>1. CASE k # r
      BY <1>1, <3>1, Elsewhere
    <3>2. CASE k = r
      <4>1. ~Arrive(r) /\ ~Read(r) /\ ~NewID(r) /\ ~Reread(r)
        BY <1>2, <3>2 DEF Noted, Written, Arrive, Read, NewID, Reread
      <4>. QED
        BY <4>1, CrashEnds DEF Step, Resolve, NotFound, CalendarCalls, Insert, Audit, Remove, Source,
           Notify, Mail, Patch, Links, LinkCalendar, LinkPatch, Fail, Skip, locals
    <3>. QED
      BY <3>1, <3>2
  <2>2. ItemThere(k) /\ NotToCome(k)
    BY <1>2 DEF Items
  <2>. QED
    BY <1>1, <2>1, <2>2, ItemStays, NotToComeStays
<1>3. CASE ~Noted(k)
  <2>1. k = r
    BY <1>1, <1>3, Elsewhere DEF Noted, Written
  <2>2. ~Arrive(r)
    BY <1>1, <2>1, ArriveGoes DEF Noted, Written
  <2>3. op'[r] = op[r] /\ op[r].name = "addDebrief" /\ pc[r] \notin Written
    <3>1. pc[r] # "idle"
      BY <2>2 DEF Step, Read, Resolve, NewID, CalendarCalls, Insert, Audit, Remove, Crash, Streamed,
         Reread, Source, Notify, Mail, Patch, Links, LinkCalendar, LinkPatch, Fail, Skip, Main, Tapped
    <3>2. op'[r] = op[r]
      BY <1>1, <3>1, AskedOn
    <3>. QED
      BY <1>3, <2>1, <3>2 DEF Noted
  <2>4. op[r].name \in Savers /\ op[r].name # "delete" /\ op[r].name \notin Creators
    BY <2>3 DEF Savers, Creators
  <2>5. Patch(r)
    <3>1. ~Insert(r) /\ ~NewID(r) /\ ~Remove(r) /\ ~Resolve(r)
      BY <1>1, <2>3, <2>4 DEF Insert, NewID, Remove, Control, Ways, Resolve
    <3>2. pc'[r] \in Written
      BY <2>1 DEF Noted
    <3>3. ~Read(r)
      BY <1>1, <2>4, <3>2 DEF Read, AfterRead, NotFound, Goto, TypeOK, Written
    <3>4. ~Reread(r) /\ ~Source(r) /\ ~CalendarCalls(r)
      BY <1>1, <2>4, <3>2 DEF Reread, Source, CalendarCalls, NotFound, Goto, TypeOK, Written
    <3>5. ~Fail(r) /\ ~Crash(r)
      BY <1>1, <2>3, <3>2, CrashEnds DEF Fail, Goto, TypeOK, Written
    <3>6. ~Notify(r) /\ ~Mail(r) /\ ~Skip(r)
      BY <1>1, <2>3, <3>2 DEF Notify, Mail, Skip, AfterTap, Goto, TypeOK, Written, Tapped
    <3>7. ~Audit(r) /\ ~Links(r) /\ ~LinkCalendar(r) /\ ~LinkPatch(r)
      BY <2>3 DEF Audit, Links, LinkCalendar, LinkPatch, Written
    <3>. QED
      BY <2>2, <3>1, <3>3, <3>4, <3>5, <3>6, <3>7 DEF Step
  <2>6. ev[r].kind = "REGULAR" /\ key'[r] = key[r] /\ pc[r] = "patch"
    BY <2>3, <2>5 DEF RegularOnes, Debriefing, Patch, Ended, Answered, locals
  <2>7. /\ docs'[key[r]].kind = "REGULAR" /\ docs[key[r]].data \in Data
        /\ docs'[key[r]].data.debrief = Desired(r, docs[key[r]].data).debrief
    BY <2>5, <2>6, PatchDebrief
  <2>. DEFINE x == docs[key[r]].data
  <2>8. Desired(r, x).debrief = x.debrief \union {r}
    BY <2>3, <2>7 DEF Desired, Data
  <2>9. ItemThere(k)'
    BY <2>1, <2>6, <2>7, <2>8 DEF ItemThere
  <2>10. NotToCome(r)
    <3>1. docs[key[r]] # NoDoc
      BY <1>1, <2>4, <2>6 DEF Gripped, AtWork, Active, Ended, Answered, Changes, Grip, Found
    <3>. QED
      BY <1>1, <3>1 DEF Paths, NotToCome
  <2>. QED
    BY <1>1, <2>1, <2>6, <2>9, <2>10, NotToComeStays
<1>. QED
  BY <1>2, <1>3

\* No item at the start,
LEMMA InitDebriefInv ==
    ASSUME SeedsPlain
    PROVE  Init => DebriefInv
<1>. SUFFICES ASSUME Init PROVE DebriefInv
  OBVIOUS
<1>1. \A r \in Requests : pc[r] = "idle"
  BY DEF Init
<1>2. Asked /\ Meant /\ RegularOnes /\ Items
  BY <1>1 DEF Asked, Meant, AtWork, Active, RegularOnes, Debriefing, Items, Noted, Written
<1>. QED
  BY <1>2, InitChangeInv DEF DebriefInv

\* and every item that is written stays.
LEMMA NextDebriefInv ==
    ASSUME ChangesAlone, BodiesPlain
    PROVE  DebriefInv /\ [Next]_vars => DebriefInv'
<1>. SUFFICES ASSUME DebriefInv, [Next]_vars PROVE DebriefInv'
  OBVIOUS
<1>1. ChangeInv /\ ChangeInv' /\ TypeOK
  BY NextChangeInv DEF DebriefInv, ChangeInv, RefInv, IInv
<1>2. CASE UNCHANGED vars
  <2>1. Asked' /\ RegularOnes'
    BY <1>2 DEF DebriefInv, Asked, RegularOnes, Debriefing, vars
  <2>2. Items'
    BY <1>2 DEF DebriefInv, Items, Noted, ItemThere, NotToCome, DeletionAsked, vars
  <2>3. Meant'
    <3>. SUFFICES ASSUME NEW s \in Requests, AtWork(s)' PROVE Intent(s)'
      BY DEF Meant
    <3>1. AtWork(s) /\ op'[s] = op[s] /\ ev'[s] = ev[s] /\ docs'[key'[s]] = docs[key[s]] /\ pc' = pc
      BY <1>2 DEF AtWork, Active, vars
    <3>2. CASE pc[s] \in Unsaved \union {"reread"}
      BY <3>1, <3>2, SameMeaning DEF DebriefInv, Meant
    <3>3. CASE pc[s] \notin Unsaved \union {"reread"}
      BY <3>1, <3>3 DEF Intent
    <3>. QED
      BY <3>2, <3>3
  <2>. QED
    BY <1>1, <2>1, <2>2, <2>3 DEF DebriefInv
<1>3. ASSUME NEW r \in Requests, Arrive(r) \/ Step(r) \/ Fail(r) \/ Skip(r) \/ Crash(r)
      PROVE  DebriefInv'
  BY <1>1, <1>3, AskedStays, MeantStays, RegularOnesStay, ItemsStay DEF DebriefInv
<1>. QED
  BY <1>2, <1>3 DEF Next, Rest

\* An item that was accepted stays with its event until somebody asks to delete it, when
\* saves and deletions, and creations, are made one at a time: what a save writes is the
\* whole debrief, as it was read, and it was read after every earlier save.
THEOREM DebriefsStay ==
    ASSUME ChangesAlone, SeedsPlain, BodiesPlain
    PROVE  Spec => []DebriefKept
<1>1. DebriefInv => DebriefKept
  BY DEF DebriefInv, Items, Noted, ItemThere, DeletionAsked, DebriefKept, Written
<1>. QED
  BY <1>1, InitDebriefInv, NextDebriefInv, PTL DEF Spec

-----------------------------------------------------------------------------
(* Links.  A link shows the times of its source as long as its own times     *)
(* were never edited, and overrides nothing that was not edited; the two are *)
(* shown together, since a save of a link takes each difference to the       *)
(* source for an override.                                                   *)

\* Requests come one at a time and links are written back; or no links are made and
\* times are not edited.
OneAtATime ==
    /\ \E g \in Serial : OpNames \subseteq g
    /\ {"links", "linksAgain", "linkPatch"} \intersect Failing = {}
Untimed == \A o \in Menu : o.name # "link" /\ (o.name = "set" => o.body.times = Undef)
Apart == OneAtATime \/ Untimed

\* An event has times from the start (NewEventObject).
TimesGiven ==
    /\ \A k \in SeedKeys : Seeds[k].kind = "REGULAR" => Seeds[k].data.times # Undef
    /\ \A i \in DOMAIN Conditions : \A o \in Conditions[i].menu :
          o.name = "add" => o.body.times # Undef

\* The first links follow their sources, which are there.
SeedsFollow ==
    \A l \in SeedKeys : Seeds[l].kind = "LINKED" =>
        /\ \A x \in {Seeds[l].data, Seeds[l].extra} :
              x.status = Undef /\ x.pocs = Undef /\ x.debrief = Undef
        /\ Seeds[l].extra.times = Undef
        /\ \E k \in SeedKeys :
              /\ Seeds[k].kind = "REGULAR" /\ Seeds[l].target = <<Seeds[k].acct, Seeds[k].id>>
              /\ Seeds[l].data.times = Seeds[k].data.times

OneActive == OneAtATime => \A r, s \in Requests : Active(r) /\ Active(s) => r = s
NoTimes ==
    Untimed => \A r \in Requests : pc[r] # "idle" =>
        op[r].name # "link" /\ (op[r].name = "set" => op[r].body.times = Undef)

\* A link has no data of its own but times and calendar ids; an event has times.
Bare ==
    \A k \in Keys : docs[k] # NoDoc =>
        /\ docs[k].kind = "LINKED" =>
              docs[k].data.status = Undef /\ docs[k].data.pocs = Undef /\ docs[k].data.debrief = Undef
        /\ docs[k].kind = "REGULAR" => docs[k].data.times # Undef

IsSource(k, l) ==
    /\ docs[k] # NoDoc /\ docs[k].kind = "REGULAR"
    /\ docs[l].target = <<docs[k].acct, docs[k].id>>

\* The source was saved and its links are still to be written back, this one too.
Retiming(l, k) ==
    \E r \in Requests :
        /\ key[r] = k
        /\ \/ pc[r] \in {"links", "linkCalendar", "linksAgain"}
           \/ pc[r] = "linkPatch" /\ \E t \in todo[r] : t.for = l

IsLink(l) == docs[l] # NoDoc /\ docs[l].kind = "LINKED" /\ ~SourceDeleted(l)

Follows(l) ==
    IsLink(l) => \E k \in Keys :
        /\ IsSource(k, l)
        /\ docs[l].extra.times = Undef =>
              docs[l].data.times = docs[k].data.times \/ (OneAtATime /\ Retiming(l, k))

\* Somebody has asked to edit that field of the link.
Edits(r, l) ==
    pc[r] # "idle" /\ op[r].name = "set" /\ op[r].acct = docs[l].acct /\ op[r].id = docs[l].id
Edited(l) ==
    IsLink(l) =>
        /\ docs[l].extra.status # Undef => \E r \in Requests : Edits(r, l) /\ op[r].body.status # Undef
        /\ docs[l].extra.times # Undef => \E r \in Requests : Edits(r, l) /\ op[r].body.times # Undef
        /\ docs[l].extra.pocs # Undef => \E r \in Requests : Edits(r, l) /\ op[r].body.pocs # Undef
        /\ docs[l].extra.debrief = Undef

\* What requests have in hand.
Timed(r) ==
    pc[r] \in {"newID", "calendar", "insert"} /\ op[r].name \in {"add", "copy"} => ev[r].data.times # Undef

Linking(r) ==
    OneAtATime /\ pc[r] \in {"newID", "calendar", "insert"} /\ op[r].name = "link" =>
        \E k \in Keys :
            /\ docs[k] # NoDoc /\ docs[k].kind = "REGULAR"
            /\ docs[k].acct = ev[r].acct /\ docs[k].id = ev[r].id
            /\ docs[k].data.times = ev[r].data.times

AsAsked(r) == AtWork(r) /\ pc[r] # "read" => ev[r].acct = op[r].acct /\ ev[r].id = op[r].id

\* A link that is being saved: all that it shows, and what is asked for over it.
Shown(l, k) == Overlay(Overlay(docs[k].data, docs[l].data), docs[l].extra)
LinkIntent(r) ==
    /\ pc[r] \in {"notify", "mail"} => ev[r].kind # "LINKED"
    /\ pc[r] = "resolve" /\ op[r].name \in Savers => ev[r] = docs[key[r]]
    /\ pc[r] \in Unsaved \union {"reread"} /\ op[r].name \in Savers /\ ev[r].kind = "LINKED" =>
          /\ op[r].name = "set" /\ ev[r].target = docs[key[r]].target
          /\ \E k \in Keys :
                /\ IsSource(k, key[r])
                /\ ev[r].data = Overlay(Shown(key[r], k), op[r].body)
                /\ pc[r] = "patch" => ev[r].extra = Differences(docs[k].data, ev[r].data)

\* An event whose links are being written back: the links were not touched since.
Late == {"links", "linkCalendar", "linksAgain", "linkPatch"}
Bringing(r) ==
    /\ pc[r] \in Late => ev[r].kind = "REGULAR" /\ docs[key[r]].data.times = ev[r].data.times
    /\ pc[r] = "linkPatch" => \A t \in todo[r] :
          t.doc = docs[t.for] /\ t.doc.target = <<ev[r].acct, ev[r].id>>

HandsInv(r) ==
    /\ Timed(r) /\ Linking(r) /\ AsAsked(r)
    /\ AtWork(r) => LinkIntent(r) /\ Bringing(r)

LinkInv ==
    /\ DebriefInv /\ OneActive /\ NoTimes /\ Bare
    /\ \A r \in Requests : HandsInv(r)
    /\ Apart => \A l \in Keys : Follows(l) /\ Edited(l)

\* What others hold stays so: where one changes an event nobody else writes any.
LEMMA OthersStand ==
    ASSUME ChangeInv, NEW r \in Requests, NEW s \in Requests \ {r},
           Arrive(r) \/ Step(r) \/ Fail(r) \/ Skip(r) \/ Crash(r), AtWork(s)'
    PROVE  /\ AtWork(s) /\ pc'[s] = pc[s] /\ op'[s] = op[s] /\ ev'[s] = ev[s] /\ key'[s] = key[s]
           /\ todo'[s] = todo[s] /\ Steady
<1>1. TypeOK /\ RefInv /\ OneChange /\ Ways
  BY DEF ChangeInv, RefInv, IInv
<1>2. /\ op'[s] = op[s] /\ ev'[s] = ev[s] /\ key'[s] = key[s] /\ pc'[s] = pc[s] /\ todo'[s] = todo[s]
      /\ AtWork(s)
  BY <1>1, Elsewhere DEF AtWork, Active, Ended
<1>3. ~Writes(r)
  <2>1. Writes(r) => AtWork(r)
    BY <1>1 DEF Writes, Patch, LinkPatch, Remove, Ways, AtWork, Active, Ended, Answered, Changes
  <2>. QED
    BY <1>1, <1>2, <2>1 DEF OneChange
<1>. QED
  BY <1>1, <1>2, <1>3, OthersSteady

\* Every step but an arrival is that of an active request.
LEMMA StepActive ==
    ASSUME NEW r \in Requests, Step(r) \/ Fail(r) \/ Skip(r) \/ Crash(r)
    PROVE  Active(r) /\ op' = op
BY CrashEnds DEF Step, Read, Resolve, NewID, NotFound, CalendarCalls, Insert, Audit, Remove,
   Reread, Source, Notify, Mail, Patch, Links, LinkCalendar, LinkPatch, Fail, Skip, Crash,
   locals, Active, Ended, Answered, Main, Tapped, Streamed

\* Where requests come one at a time, whoever is active takes all the steps.
LEMMA OnlyOne ==
    ASSUME TypeOK, OneActive, OneAtATime, NEW r \in Requests, NEW s \in Requests,
           Arrive(r) \/ Step(r) \/ Fail(r) \/ Skip(r) \/ Crash(r), Active(s)
    PROVE  s = r /\ ~Arrive(r)
<1>1. ~Arrive(r)
  <2>. SUFFICES ASSUME Arrive(r) PROVE FALSE
    OBVIOUS
  <2>1. PICK g \in Serial : OpNames \subseteq g
    BY DEF OneAtATime
  <2>2. PICK o \in Menu : o.name \in g => ~\E t \in Requests : Active(t) /\ op[t].name \in g
    BY DEF Arrive
  <2>3. o.name \in OpNames
    BY ConstantsOK DEF Menu, TypeOK, Setting, Ops
  <2>4. op[s].name \in OpNames
    BY DEF TypeOK, Active, Ops
  <2>. QED
    BY <2>1, <2>2, <2>3, <2>4
<1>. QED
  BY <1>1, StepActive DEF OneActive

LEMMA OneActiveStays ==
    ASSUME TypeOK, OneActive, NEW r \in Requests,
           Arrive(r) \/ Step(r) \/ Fail(r) \/ Skip(r) \/ Crash(r)
    PROVE  OneActive'
<1>1. OneAtATime' <=> OneAtATime
  <2>1. given' = given
    BY CrashEnds DEF Step, Read, Resolve, NewID, NotFound, CalendarCalls, Insert, Audit, Remove,
       Reread, Source, Notify, Mail, Patch, Links, LinkCalendar, LinkPatch, Fail, Skip, Arrive, OnlyLocal
  <2>. QED
    BY <2>1 DEF OneAtATime, Serial, Failing
<1>. SUFFICES ASSUME OneAtATime, NEW s \in Requests, NEW t \in Requests, Active(s)', Active(t)'
              PROVE  s = t
  BY <1>1 DEF OneActive
<1>2. ASSUME NEW u \in Requests, Active(u)', u # r PROVE Active(u)
  BY <1>2, Elsewhere DEF Active, Ended
<1>3. ASSUME NEW u \in Requests, Active(u)' PROVE u = r
  BY <1>2, <1>3, OnlyOne
<1>. QED
  BY <1>3

\* The condition stays.
LEMMA SameCondition ==
    ASSUME NEW r \in Requests, Arrive(r) \/ Step(r) \/ Fail(r) \/ Skip(r) \/ Crash(r)
    PROVE  /\ given' = given /\ (OneAtATime' <=> OneAtATime) /\ (Untimed' <=> Untimed) /\ (Apart' <=> Apart)
<1>1. given' = given
  BY CrashEnds DEF Step, Read, Resolve, NewID, NotFound, CalendarCalls, Insert, Audit, Remove,
     Reread, Source, Notify, Mail, Patch, Links, LinkCalendar, LinkPatch, Fail, Skip, Arrive, OnlyLocal
<1>2. (OneAtATime' <=> OneAtATime) /\ (Untimed' <=> Untimed)
  BY <1>1 DEF OneAtATime, Untimed, Serial, Failing, Menu
<1>. QED
  BY <1>1, <1>2 DEF Apart

\* What is asked for is on the menu.
LEMMA NoTimesStays ==
    ASSUME TypeOK, NoTimes, NEW r \in Requests,
           Arrive(r) \/ Step(r) \/ Fail(r) \/ Skip(r) \/ Crash(r)
    PROVE  NoTimes'
<1>. SUFFICES ASSUME Untimed, NEW s \in Requests, pc'[s] # "idle"
              PROVE  op'[s].name # "link" /\ (op'[s].name = "set" => op'[s].body.times = Undef)
  BY SameCondition DEF NoTimes
<1>1. CASE pc[s] # "idle"
  BY <1>1, AskedOn DEF NoTimes
<1>2. CASE pc[s] = "idle" /\ s = r /\ Arrive(r)
  <2>1. PICK o \in Menu : op' = [op EXCEPT ![r] = o]
    BY <1>2 DEF Arrive
  <2>2. op'[s] = o
    BY <1>2, <2>1 DEF TypeOK
  <2>. QED
    BY <2>1, <2>2 DEF Untimed
<1>3. CASE pc[s] = "idle" /\ ~(s = r /\ Arrive(r))
  <2>1. CASE Arrive(r)
    <3>1. PICK o \in Menu : Goto(r, IF o.name = "add" THEN "newID" ELSE "read")
      BY <2>1 DEF Arrive
    <3>2. s # r
      BY <1>3, <2>1
    <3>. QED
      BY <1>3, <3>1, <3>2 DEF Goto, TypeOK
  <2>2. CASE Crash(r)
    BY <1>3, <2>2, CrashEnds DEF Active
  <2>3. CASE Step(r) \/ Fail(r) \/ Skip(r)
    <3>1. Active(r) /\ r # s
      BY <1>3, <2>3, StepActive DEF Active
    <3>2. pc'[s] = "idle"
      BY <1>3, <2>3, <3>1 DEF Step, Read, Resolve, NewID, NotFound, CalendarCalls, Insert, Audit, Remove,
         Reread, Source, Notify, Mail, Patch, Links, LinkCalendar, LinkPatch, Fail, Skip, Goto, TypeOK
    <3>. QED
      BY <3>2
  <2>. QED
    BY <2>1, <2>2, <2>3
<1>. QED
  BY <1>1, <1>2, <1>3

\* Documents appear by insertion only.
LEMMA OnlyInsertAdds ==
    ASSUME TypeOK, NEW r \in Requests, Arrive(r) \/ Step(r) \/ Fail(r) \/ Skip(r) \/ Crash(r),
           NEW k \in Keys, docs[k] = NoDoc, docs'[k] # NoDoc
    PROVE  Insert(r) /\ k = r /\ docs'[k] = NewDoc(r) /\ pc[r] = "insert"
<1>1. CASE Insert(r)
  BY <1>1 DEF Insert, TypeOK
<1>2. CASE Remove(r)
  BY <1>2 DEF Remove
<1>3. CASE Patch(r)
  BY <1>3 DEF Patch, Patched, Matching, Stored
<1>4. CASE LinkPatch(r)
  BY <1>4 DEF LinkPatch, Patched, Matching, Stored
<1>5. CASE ~Insert(r) /\ ~Writes(r)
  BY <1>5, CrashEnds DEF Writes, Step, Arrive, Fail, Skip, Crash, Read, Resolve, NewID, NotFound,
     CalendarCalls, Audit, Reread, Source, Notify, Mail, Links, LinkCalendar, OnlyLocal, stores
<1>. QED
  BY <1>1, <1>2, <1>3, <1>4, <1>5 DEF Writes

\* The fields of a patched document.
LEMMA PatchedParts ==
    ASSUME NEW d \in Docs, NEW new \in Docs
    PROVE  /\ PatchedDoc(d, new).acct = d.acct /\ PatchedDoc(d, new).id = d.id
           /\ PatchedDoc(d, new).kind = new.kind
           /\ PatchedDoc(d, new).target = (IF new.kind = "LINKED" THEN new.target ELSE d.target)
           /\ PatchedDoc(d, new).data.status = PatchedField(d.data.status, new.data.status)
           /\ PatchedDoc(d, new).data.times = PatchedField(d.data.times, new.data.times)
           /\ PatchedDoc(d, new).data.pocs = PatchedField(d.data.pocs, new.data.pocs)
           /\ PatchedDoc(d, new).data.debrief = PatchedField(d.data.debrief, new.data.debrief)
           /\ PatchedDoc(d, new).extra.status = PatchedField(d.extra.status, new.extra.status)
           /\ PatchedDoc(d, new).extra.times = PatchedField(d.extra.times, new.extra.times)
           /\ PatchedDoc(d, new).extra.pocs = PatchedField(d.extra.pocs, new.extra.pocs)
           /\ PatchedDoc(d, new).extra.debrief = PatchedField(d.extra.debrief, new.extra.debrief)
BY DEF PatchedDoc, Docs, FieldWise

\* Values of the fields: none of them is what a patch drops.
LEMMA FieldValues ==
    ASSUME NEW x \in Data
    PROVE  /\ x.status \notin {NoEntry, Cleared} /\ x.times \notin {NoEntry, Cleared}
           /\ x.pocs \notin {NoEntry, Cleared} /\ x.debrief \notin {NoEntry, Cleared}
BY NullIsNoValue, ClearedIsNoValue DEF Data

LEMMA PatchedValue ==
    ASSUME NEW b, NEW n, b \notin {NoEntry, Cleared}, n \notin {NoEntry, Cleared}
    PROVE  PatchedField(b, n) = IF n = Undef THEN b ELSE n
BY DEF PatchedField

LinkParts ==
    /\ TypeOK /\ RefInv /\ UniqueRefs /\ ChangeInv /\ Ways /\ Gripped /\ Plain /\ Control /\ Paths
    /\ Asked /\ Meant

LEMMA PartsOfLinkInv == LinkInv => LinkParts
BY DEF LinkInv, LinkParts, DebriefInv, ChangeInv, RefInv, IInv

\* Who writes is at work, with a document in its grip.
LEMMA WriterHolds ==
    ASSUME LinkInv, NEW r \in Requests, Writes(r)
    PROVE  /\ AtWork(r) /\ Active(r) /\ Found(r) /\ key[r] \in Keys /\ ev[r] \in Docs /\ docs[key[r]] \in Docs
           /\ LinkIntent(r) /\ Bringing(r) /\ AsAsked(r) /\ pc[r] # "read" /\ pc[r] # "idle"
<1>1. LinkParts
  BY PartsOfLinkInv
<1>2. AtWork(r) /\ pc[r] # "read" /\ pc[r] # "idle"
  BY <1>1 DEF LinkParts, Writes, Patch, LinkPatch, Remove, Ways, AtWork, Active, Ended, Answered, Changes
<1>3. Found(r)
  BY <1>1, <1>2 DEF LinkParts, Gripped, Grip
<1>4. key[r] \in Keys /\ ev[r] \in Docs /\ docs[key[r]] \in Docs
  BY <1>1, <1>2, <1>3 DEF LinkParts, TypeOK, Found
<1>. QED
  BY <1>2, <1>3, <1>4 DEF LinkInv, HandsInv, AtWork

\* A link that is written back changes its times only (and loses null calendar ids).
LEMMA LinkPatchDoes ==
    ASSUME LinkInv, NEW r \in Requests, LinkPatch(r), NEW l \in Keys, docs[l] # NoDoc
    PROVE  \/ docs'[l] = docs[l] /\ \A t \in todo[r] : t.for = l => t \in todo'[r]
           \/ /\ docs[l].kind = "LINKED" /\ docs'[l] # NoDoc /\ docs'[l].kind = "LINKED"
              /\ docs'[l].acct = docs[l].acct /\ docs'[l].id = docs[l].id
              /\ docs'[l].target = docs[l].target /\ docs'[l].extra = docs[l].extra
              /\ docs'[l].data.status = docs[l].data.status
              /\ docs'[l].data.pocs = docs[l].data.pocs
              /\ docs'[l].data.debrief = docs[l].data.debrief
              /\ docs'[l].data.times = PatchedField(docs[l].data.times, ev[r].data.times)
              /\ docs[l].target = <<ev[r].acct, ev[r].id>>
              /\ \A t \in todo'[r] : t.for # l
           \/ "linkPatch" \in Failing /\ docs' = docs
<1>1. LinkParts /\ pc[r] = "linkPatch" /\ Writes(r)
  BY PartsOfLinkInv DEF LinkPatch, Writes
<1>2. Bringing(r) /\ Grip(r) /\ ev[r] \in Docs /\ docs[l] \in Docs
  BY <1>1, WriterHolds DEF LinkParts, Gripped, TypeOK
<1>3. CASE todo[r] = {} \/ ("linkPatch" \in Failing /\ docs' = docs)
  BY <1>1, <1>3 DEF LinkPatch
<1>4. CASE todo[r] # {} /\ ~("linkPatch" \in Failing /\ docs' = docs)
  <2>1. PICK t \in todo[r] : /\ docs' = Patched(Retimed(t.doc, r))
                            /\ todo' = [todo EXCEPT ![r] = @ \ {t}]
    BY <1>1, <1>4 DEF LinkPatch
  <2>2. todo'[r] = todo[r] \ {t}
    BY <1>1, <2>1 DEF LinkParts, TypeOK
  <2>3. /\ t.doc \in Docs /\ t.for \in Keys /\ t.doc = docs[t.for] /\ Linked(t)
        /\ t.doc.target = <<ev[r].acct, ev[r].id>>
    BY <1>1, <1>2, <2>1 DEF LinkParts, TypeOK, Bringing, Grip
  <2>. DEFINE new == Retimed(t.doc, r)
  <2>4. /\ new \in Docs /\ new.acct = t.doc.acct /\ new.id = t.doc.id
        /\ new.kind = "LINKED" /\ new.extra = t.doc.extra /\ new.target = t.doc.target
        /\ new.data.times = ev[r].data.times /\ new.data.status = t.doc.data.status
        /\ new.data.pocs = t.doc.data.pocs /\ new.data.debrief = t.doc.data.debrief
    BY <1>2, <2>3, RetimedTyped DEF Retimed, Docs, Linked, Data
  <2>5. l \in Matching(new.acct, new.id) <=> l = t.for
    BY <1>1, <2>3, <2>4 DEF LinkParts, Matching, Stored, UniqueRefs, Linked, Alike
  <2>. HIDE DEF new
  <2>6. CASE l # t.for
    BY <2>1, <2>2, <2>5, <2>6 DEF Patched, new
  <2>7. CASE l = t.for
    <3>1. docs'[l] = PatchedDoc(docs[l], new)
      BY <2>1, <2>5, <2>7 DEF Patched, new
    <3>2. \A u \in todo'[r] : u.for # l
      <4>. SUFFICES ASSUME NEW u \in todo[r], u.for = t.for PROVE u = t
        BY <2>2, <2>7
      <4>1. u.doc = t.doc
        BY <1>1, <1>2, <2>3 DEF Bringing
      <4>2. u \in [doc : Docs, for : Keys] /\ t \in [doc : Docs, for : Keys]
        BY <1>1, <2>1 DEF LinkParts, TypeOK
      <4>. QED
        BY <4>1, <4>2
    <3>3. PatchedDoc(docs[l], new).kind = "LINKED" /\ docs[l].kind = "LINKED"
          /\ PatchedDoc(docs[l], new).acct = docs[l].acct /\ PatchedDoc(docs[l], new).id = docs[l].id
          /\ PatchedDoc(docs[l], new).target = docs[l].target
          /\ PatchedDoc(docs[l], new) \in Docs
      BY ZenonT(60), <1>2, <2>3, <2>4, <2>7, PatchedParts, PatchedDocTyped DEF Linked
    <3>4. docs'[l].extra = docs[l].extra
      BY <1>1, <1>2, LinkPatchMeets DEF LinkParts
    <3>5. /\ PatchedDoc(docs[l], new).data.status = docs[l].data.status
          /\ PatchedDoc(docs[l], new).data.pocs = docs[l].data.pocs
          /\ PatchedDoc(docs[l], new).data.debrief = docs[l].data.debrief
          /\ PatchedDoc(docs[l], new).data.times = PatchedField(docs[l].data.times, ev[r].data.times)
      <4>1. docs[l].data \in Data
        BY <1>2, DocFields
      <4>2. /\ PatchedField(docs[l].data.status, docs[l].data.status) = docs[l].data.status
            /\ PatchedField(docs[l].data.pocs, docs[l].data.pocs) = docs[l].data.pocs
            /\ PatchedField(docs[l].data.debrief, docs[l].data.debrief) = docs[l].data.debrief
        BY <4>1, FieldValues DEF PatchedField
      <4>. QED
        BY <1>2, <2>3, <2>4, <2>7, <4>2, PatchedParts
    <3>6. PatchedDoc(docs[l], new) # NoDoc
      BY <3>3, ConstantsOK
    <3>. HIDE DEF new
    <3>. QED
      BY <2>3, <2>7, <3>1, <3>2, <3>3, <3>4, <3>5, <3>6
  <2>. QED
    BY <2>6, <2>7
<1>. QED
  BY <1>3, <1>4

\* A stored document keeps its account, id, kind and, if it is a link, its target.
LEMMA DocsKeep ==
    ASSUME LinkInv, NEW r \in Requests, Arrive(r) \/ Step(r) \/ Fail(r) \/ Skip(r) \/ Crash(r),
           NEW k \in Keys, docs[k] # NoDoc, docs'[k] # NoDoc
    PROVE  /\ docs'[k].acct = docs[k].acct /\ docs'[k].id = docs[k].id /\ docs'[k].kind = docs[k].kind
           /\ docs[k].kind = "LINKED" => docs'[k].target = docs[k].target
<1>1. LinkParts
  BY PartsOfLinkInv
<1>2. CASE ~Writes(r)
  BY <1>1, <1>2, OthersSteady DEF LinkParts, Steady
<1>3. CASE Remove(r)
  BY <1>3 DEF Remove
<1>4. CASE LinkPatch(r)
  BY <1>4, LinkPatchDoes
<1>5. CASE Patch(r)
  <2>1. /\ SavedDoc(r) \in Docs /\ docs[k] \in Docs
        /\ SavedDoc(r).kind = ev[r].kind
        /\ k # key[r] => docs'[k] = docs[k]
        /\ k = key[r] => docs'[k] = PatchedDoc(docs[k], SavedDoc(r))
    BY <1>1, <1>5, PatchMeets DEF LinkParts
  <2>2. CASE k = key[r]
    <3>1. Found(r) /\ LinkIntent(r) /\ ev[r] \in Docs /\ pc[r] = "patch" /\ op[r].name \in Savers
      BY <1>1, <1>5, WriterHolds DEF Writes, Patch, LinkParts, Ways
    <3>2. ev[r].kind = "LINKED" => SavedDoc(r).target = docs[k].target
      BY <2>2, <3>1 DEF LinkIntent, Unsaved, SavedDoc, Docs
    <3>3. ev[r].kind = docs[k].kind
      BY <2>2, <3>1 DEF Found, Alike
    <3>. QED
      BY <2>1, <2>2, <3>2, <3>3, PatchedParts
  <2>. QED
    BY <2>1, <2>2
<1>. QED
  BY <1>2, <1>3, <1>4, <1>5 DEF Writes

\* What the patch of a save does to the event or link that it found.
LEMMA PatchDoes ==
    ASSUME LinkInv, NEW r \in Requests, Patch(r), NEW k \in Keys, k = key[r]
    PROVE  /\ docs[k] # NoDoc /\ docs'[k] # NoDoc /\ docs[k] \in Docs /\ docs[k].kind = ev[r].kind
           /\ docs'[k].kind = docs[k].kind
           /\ docs'[k].data.times = PatchedField(docs[k].data.times, ev[r].data.times)
           /\ ev[r].kind = "LINKED" =>
                 /\ docs'[k].data.status = docs[k].data.status
                 /\ docs'[k].data.pocs = docs[k].data.pocs
                 /\ docs'[k].data.debrief = docs[k].data.debrief
           /\ docs'[k].extra.status = PatchedField(docs[k].extra.status, ev[r].extra.status)
           /\ docs'[k].extra.times = PatchedField(docs[k].extra.times, ev[r].extra.times)
           /\ docs'[k].extra.pocs = PatchedField(docs[k].extra.pocs, ev[r].extra.pocs)
           /\ docs'[k].extra.debrief = PatchedField(docs[k].extra.debrief, ev[r].extra.debrief)
<1>1. LinkParts /\ Writes(r)
  BY PartsOfLinkInv DEF Writes
<1>2. Found(r) /\ ev[r] \in Docs /\ docs[k] \in Docs /\ docs[k] # NoDoc
  BY <1>1, WriterHolds DEF Found
<1>3. /\ SavedDoc(r) \in Docs /\ SavedDoc(r).kind = ev[r].kind /\ SavedDoc(r).extra = ev[r].extra
      /\ docs'[k] = PatchedDoc(docs[k], SavedDoc(r))
  BY <1>1, <1>2, PatchMeets DEF LinkParts
<1>4. docs[k].kind = ev[r].kind
  BY <1>2 DEF Found, Alike
<1>5. SavedDoc(r).data.times = ev[r].data.times
  BY <1>2, DocFields DEF SavedDoc, Docs, Data, Nothing
<1>6. ev[r].kind = "LINKED" =>
         SavedDoc(r).data.status = Undef /\ SavedDoc(r).data.pocs = Undef /\ SavedDoc(r).data.debrief = Undef
  BY <1>2 DEF SavedDoc, Docs, Nothing
<1>7. \A b : PatchedField(b, Undef) = b
  BY NullIsNoValue, ClearedIsNoValue DEF PatchedField
<1>8. PatchedDoc(docs[k], SavedDoc(r)) # NoDoc
  BY <1>2, <1>3, PatchedDocTyped, ConstantsOK
<1>. QED
  BY <1>2, <1>3, <1>4, <1>5, <1>6, <1>7, <1>8, PatchedParts

\* Links have no data of their own, and events keep their times.
LEMMA BareStays ==
    ASSUME LinkInv, NEW r \in Requests, Arrive(r) \/ Step(r) \/ Fail(r) \/ Skip(r) \/ Crash(r)
    PROVE  Bare'
<1>1. LinkParts /\ Bare
  BY PartsOfLinkInv DEF LinkInv
<1>. SUFFICES ASSUME NEW k \in Keys, docs'[k] # NoDoc
              PROVE  /\ docs'[k].kind = "LINKED" =>
                            /\ docs'[k].data.status = Undef /\ docs'[k].data.pocs = Undef
                            /\ docs'[k].data.debrief = Undef
                     /\ docs'[k].kind = "REGULAR" => docs'[k].data.times # Undef
  BY DEF Bare
<1>2. CASE docs[k] = NoDoc
  <2>1. docs'[k] = NewDoc(r) /\ pc[r] = "insert" /\ op[r].name \in Creators
    BY <1>1, <1>2, OnlyInsertAdds DEF LinkParts, Control
  <2>2. CASE op[r].name = "link"
    <3>1. /\ NewDoc(r).kind = "LINKED" /\ NewDoc(r).data.status = Undef
          /\ NewDoc(r).data.pocs = Undef /\ NewDoc(r).data.debrief = Undef
      BY <2>2 DEF NewDoc, Nothing
    <3>. QED
      BY <2>1, <3>1
  <2>3. CASE op[r].name # "link"
    <3>1. ev[r].data.times # Undef /\ ev[r] \in Docs
      BY <1>1, <2>1, <2>3 DEF LinkInv, HandsInv, Timed, Creators, LinkParts, TypeOK
    <3>2. ev[r].data \in Data
      BY <3>1, DocFields
    <3>3. NewDoc(r).kind = "REGULAR" /\ NewDoc(r).data.times = ev[r].data.times
      BY <2>3, <3>2 DEF NewDoc, Data
    <3>. QED
      BY <2>1, <3>1, <3>3
  <2>. QED
    BY <2>2, <2>3
<1>3. CASE docs[k] # NoDoc
  <2>1. CASE ~Writes(r)
    BY <1>1, <1>3, <2>1, OthersSteady DEF LinkParts, Steady, Bare
  <2>2. CASE Remove(r)
    BY <1>1, <1>3, <2>2 DEF Remove, Bare
  <2>3. CASE LinkPatch(r)
    BY <1>1, <1>3, <2>3, LinkPatchDoes DEF Bare
  <2>4. CASE Patch(r)
    <3>1. k # key[r] => docs'[k] = docs[k]
      BY <1>1, <1>3, <2>4, PatchMeets DEF LinkParts
    <3>2. CASE k = key[r]
      <4>1. docs[k].kind = "REGULAR" => docs'[k].data.times # Undef
        <5>1. ASSUME NEW b, NEW n, b # Undef PROVE PatchedField(b, n) # Undef
          BY <5>1, ClearedIsNoValue DEF PatchedField
        <5>. QED
          BY <1>1, <1>3, <2>4, <3>2, <5>1, PatchDoes DEF Bare
      <4>. QED
        BY <1>1, <1>3, <2>4, <3>2, <4>1, PatchDoes DEF Bare
    <3>. QED
      BY <1>1, <1>3, <3>1, <3>2 DEF Bare
  <2>. QED
    BY <2>1, <2>2, <2>3, <2>4 DEF Writes
<1>. QED
  BY <1>2, <1>3

\* Spreading keeps a field that is there.
LEMMA Overlaid ==
    ASSUME NEW a, NEW b
    PROVE  /\ Overlay(a, b).status = IF b.status = Undef THEN a.status ELSE b.status
           /\ Overlay(a, b).times = IF b.times = Undef THEN a.times ELSE b.times
           /\ Overlay(a, b).pocs = IF b.pocs = Undef THEN a.pocs ELSE b.pocs
           /\ Overlay(a, b).debrief = IF b.debrief = Undef THEN a.debrief ELSE b.debrief
BY DEF Overlay, FieldWise, Over

\* What others have in hand.
LEMMA OthersHands ==
    ASSUME LinkInv, NEW r \in Requests, NEW s \in Requests \ {r},
           Arrive(r) \/ Step(r) \/ Fail(r) \/ Skip(r) \/ Crash(r)
    PROVE  HandsInv(s)'
<1>1. LinkParts /\ HandsInv(s) /\ OneActive
  BY PartsOfLinkInv DEF LinkInv
<1>2. op'[s] = op[s] /\ ev'[s] = ev[s] /\ (pc'[s] = pc[s] \/ pc'[s] = "lost")
  BY <1>1, Elsewhere DEF LinkParts
<1>3. Timed(s)'
  BY <1>1, <1>2 DEF Timed, HandsInv
<1>4. Linking(s)'
  <2>. SUFFICES ASSUME OneAtATime, pc'[s] \in {"newID", "calendar", "insert"} PROVE FALSE
    BY SameCondition DEF Linking
  <2>1. Active(s)
    BY <1>2 DEF Active, Ended, Answered
  <2>. QED
    BY <1>1, <2>1, OnlyOne DEF LinkParts
<1>5. ASSUME AtWork(s)' PROVE LinkIntent(s)' /\ Bringing(s)' /\ AsAsked(s)'
  <2>1. /\ AtWork(s) /\ pc'[s] = pc[s] /\ key'[s] = key[s] /\ todo'[s] = todo[s] /\ Steady
    BY <1>1, <1>5, OthersStand DEF LinkParts
  <2>2. LinkIntent(s) /\ Bringing(s) /\ AsAsked(s) /\ Grip(s)
    BY <1>1, <2>1 DEF HandsInv, LinkParts, Gripped
  <2>3. PICK l \in Keys : l = key[s]
    BY <1>1 DEF LinkParts, TypeOK
  <2>4. pc[s] # "read" => docs[l] # NoDoc /\ docs'[l] = docs[l]
    BY <2>1, <2>2, <2>3 DEF Grip, Found, Steady
  <2>5. AsAsked(s)'
    BY <1>2, <2>1, <2>2 DEF AsAsked
  <2>6. LinkIntent(s)'
    <3>1. ASSUME NEW k \in Keys, IsSource(k, l), pc[s] # "read"
          PROVE  IsSource(k, l)' /\ Shown(l, k)' = Shown(l, k) /\ docs'[k] = docs[k]
      <4>1. docs'[k] = docs[k]
        BY <2>1, <3>1 DEF IsSource, Steady
      <4>. QED
        BY <2>4, <3>1, <4>1 DEF IsSource, Shown
    <3>2. pc[s] \in Unsaved \union {"reread"} => pc[s] # "read"
      BY DEF Unsaved
    <3>3. ASSUME pc[s] \in Unsaved \union {"reread"}, op[s].name \in Savers, ev[s].kind = "LINKED"
          PROVE  /\ op[s].name = "set" /\ ev[s].target = docs'[l].target
                 /\ \E k \in Keys :
                       /\ IsSource(k, l)'
                       /\ ev[s].data = Overlay(Shown(l, k)', op[s].body)
                       /\ pc[s] = "patch" => ev[s].extra = Differences(docs'[k].data, ev[s].data)
      <4>1. PICK k \in Keys :
                /\ IsSource(k, l)
                /\ ev[s].data = Overlay(Shown(l, k), op[s].body)
                /\ pc[s] = "patch" => ev[s].extra = Differences(docs[k].data, ev[s].data)
        BY <2>2, <2>3, <3>3 DEF LinkIntent
      <4>2. IsSource(k, l)' /\ Shown(l, k)' = Shown(l, k) /\ docs'[k] = docs[k]
        BY <3>1, <3>2, <3>3, <4>1
      <4>3. op[s].name = "set" /\ ev[s].target = docs'[l].target
        BY <2>2, <2>3, <2>4, <3>2, <3>3 DEF LinkIntent
      <4>. QED
        BY <4>1, <4>2, <4>3
    <3>4. key'[s] = l /\ docs'[key'[s]] = docs'[l]
      BY <2>1, <2>3
    <3>5. pc[s] = "resolve" /\ op[s].name \in Savers => ev[s] = docs'[l]
      BY <2>2, <2>3, <2>4 DEF LinkIntent
    <3>6. pc[s] \in {"notify", "mail"} => ev[s].kind # "LINKED"
      BY <2>2 DEF LinkIntent
    <3>7. \A k : IsSource(k, key[s])' <=> IsSource(k, l)'
      BY <3>4 DEF IsSource
    <3>8. \A k : Shown(key[s], k)' = Shown(l, k)'
      BY <3>4 DEF Shown
    <3>. QED
      BY <1>2, <2>1, <3>3, <3>4, <3>5, <3>6, <3>7, <3>8 DEF LinkIntent
  <2>7. Bringing(s)'
    <3>1. pc[s] \in Late => docs'[key[s]] = docs[key[s]]
      BY <2>3, <2>4 DEF Late
    <3>2. pc[s] = "linkPatch" => \A t \in todo[s] : docs'[t.for] = docs[t.for]
      BY <1>1, <2>1, <2>2 DEF Grip, Linked, Steady, LinkParts, TypeOK
    <3>. QED
      BY <1>2, <2>1, <2>2, <3>1, <3>2 DEF Bringing
  <2>. QED
    BY <2>5, <2>6, <2>7
<1>. QED
  BY <1>3, <1>4, <1>5 DEF HandsInv, AsAsked

\* What a request makes of the event keeps its times.
LEMMA DesiredTimes ==
    ASSUME NEW r, NEW x \in Data
    PROVE  /\ x.times # Undef => Desired(r, x).times # Undef
           /\ op[r].name \in Savers \ {"set"} => Desired(r, x).times = x.times
           /\ op[r].name = "set" => Desired(r, x) = Overlay(x, op[r].body)
           /\ op[r].name = "link" => Desired(r, x) = x
<1>1. ASSUME NEW y PROVE [y EXCEPT !.debrief = {}, !.cal = NoEntry].times = y.times
                         \/ y \notin Data
  BY <1>1 DEF Data
<1>2. op[r].name = "set" => Desired(r, x) = Overlay(x, op[r].body)
  BY DEF Desired
<1>3. op[r].name = "copy" => Desired(r, x).times = Overlay(x, op[r].body).times
  BY DEF Desired, Overlay, FieldWise
<1>4. op[r].name \in Savers \ {"set"} => Desired(r, x).times = x.times
  BY DEF Desired, Savers, Data
<1>5. op[r].name \notin Savers \union {"set", "copy"} => Desired(r, x) = x
  BY DEF Desired, Savers
<1>6. x.times # Undef => Overlay(x, op[r].body).times # Undef
  BY Overlaid
<1>. QED
  BY <1>2, <1>3, <1>4, <1>5, <1>6 DEF Savers

\* The first read.
LEMMA ReadHands ==
    ASSUME LinkInv, NEW r \in Requests, Read(r)
    PROVE  HandsInv(r)'
<1>1. LinkParts /\ TypeOK /\ Bare /\ docs' = docs /\ op' = op
  BY PartsOfLinkInv DEF LinkInv, LinkParts, Read, NotFound, OnlyLocal, stores, locals
<1>2. CASE NotFound(r)
  <2>1. pc'[r] = "failed"
    BY <1>1, <1>2 DEF NotFound, Goto, TypeOK
  <2>. QED
    BY <2>1 DEF HandsInv, Timed, Linking, AsAsked, AtWork, Active, Ended, Answered
<1>3. CASE ~NotFound(r)
  <2>1. PICK k \in Keys :
             /\ Matching(op[r].acct, op[r].id) = {k}
             /\ docs[k].kind = "REGULAR" \/ op[r].name \in {"set", "copy", "delete"}
             /\ key' = [key EXCEPT ![r] = k]
             /\ IF docs[k].kind = "LINKED"
                THEN /\ ev' = [ev EXCEPT ![r] = docs[k]]
                     /\ Goto(r, "resolve")
                ELSE /\ ev' = [ev EXCEPT ![r] =
                                  [docs[k] EXCEPT !.data = Desired(r, @)]]
                     /\ Goto(r, AfterRead(r))
    BY <1>3 DEF Read
  <2>5. docs[k] # NoDoc /\ docs[k].acct = op[r].acct /\ docs[k].id = op[r].id
    BY <2>1, MatchOne
  <2>6. docs[k] \in Docs /\ key'[r] = k
    BY <1>1, <2>1, <2>5 DEF TypeOK
  <2>2. /\ docs[k] # NoDoc /\ docs[k] \in Docs /\ key'[r] = k /\ docs[k].data \in Data
        /\ docs[k].acct = op[r].acct /\ docs[k].id = op[r].id
    BY <2>5, <2>6, DocFields
  <2>3. CASE docs[k].kind = "LINKED"
    <3>1. ev'[r] = docs[k] /\ pc'[r] = "resolve"
      BY <1>1, <2>1, <2>3 DEF TypeOK, Goto
    <3>. QED
      BY <1>1, <2>2, <3>1 DEF HandsInv, Timed, Linking, AsAsked, LinkIntent, Bringing, Unsaved, Late
  <2>4. CASE docs[k].kind # "LINKED"
    <3>1. /\ ev'[r].data = Desired(r, docs[k].data) /\ ev'[r].kind = "REGULAR"
          /\ ev'[r].acct = docs[k].acct /\ ev'[r].id = docs[k].id
      BY <1>1, <2>1, <2>2, <2>4 DEF TypeOK, Docs
    <3>2. pc'[r] \in {"reread", "calendar", "newID"}
      BY <1>1, <2>1, <2>4 DEF TypeOK, Goto, AfterRead
    <3>3. ev'[r].data.times # Undef
      BY <1>1, <2>2, <2>4, <3>1, DesiredTimes, DocFields DEF Bare
    <3>4. op[r].name = "link" => ev'[r].data = docs[k].data /\ docs[k].kind = "REGULAR"
      BY <2>1, <2>2, <3>1, DesiredTimes
    <3>5. Timed(r)' /\ Linking(r)' /\ AsAsked(r)'
      BY <1>1, <2>2, <3>1, <3>3, <3>4 DEF Timed, Linking, AsAsked
    <3>6. LinkIntent(r)' /\ Bringing(r)'
      BY <3>1, <3>2 DEF LinkIntent, Bringing, Late
    <3>. QED
      BY <3>5, <3>6 DEF HandsInv
  <2>. QED
    BY <2>3, <2>4
<1>. QED
  BY <1>2, <1>3

\* The read of a link's source.
LEMMA ResolveHands ==
    ASSUME LinkInv, NEW r \in Requests, Resolve(r)
    PROVE  HandsInv(r)'
<1>1. /\ LinkParts /\ TypeOK /\ Bare /\ HandsInv(r) /\ docs' = docs /\ op' = op /\ pc[r] = "resolve"
      /\ ev[r] \in Docs /\ ev[r].kind = "LINKED" /\ op[r].name \in {"set", "copy", "delete"}
      /\ key' = key
  BY PartsOfLinkInv DEF LinkInv, LinkParts, Resolve, NotFound, OnlyLocal, stores, locals, TypeOK, Ways, Control
<1>2. CASE NotFound(r)
  <2>1. pc'[r] = "failed"
    BY <1>1, <1>2 DEF NotFound, Goto, TypeOK
  <2>. QED
    BY <2>1 DEF HandsInv, Timed, Linking, AsAsked, AtWork, Active, Ended, Answered
<1>3. CASE ~NotFound(r)
  <2>1. PICK k \in Keys :
             /\ Matching(ev[r].target[1], ev[r].target[2]) = {k} /\ docs[k].data.pocs # Undef
             /\ ev' = [ev EXCEPT ![r] = InHand(r, docs[k])]
             /\ Goto(r, AfterRead(r))
    BY <1>3 DEF Resolve
  <2>12. docs[k] # NoDoc /\ docs[k].acct = ev[r].target[1] /\ docs[k].id = ev[r].target[2]
    BY <2>1, MatchOne
  <2>13. docs[k] \in Docs
    BY <1>1, <2>12 DEF TypeOK
  <2>2. /\ docs[k] # NoDoc /\ docs[k] \in Docs /\ docs[k].data \in Data
        /\ docs[k].acct = ev[r].target[1] /\ docs[k].id = ev[r].target[2]
    BY <2>12, <2>13, DocFields
  <2>3. docs[k].kind = "REGULAR" /\ docs[k].data.times # Undef
    BY <1>1, <2>1, <2>2, DocFields DEF Bare
  <2>4. ev[r].data \in Data /\ ev[r].extra \in Data
    BY <1>1, DocFields
  <2>. DEFINE x == Overlay(Overlay(docs[k].data, ev[r].data), ev[r].extra)
  <2>5. x \in Data /\ x.times # Undef
    BY <2>2, <2>3, <2>4, OverlayTyped, Overlaid
  <2>6. /\ ev'[r].acct = ev[r].acct /\ ev'[r].id = ev[r].id /\ ev'[r].target = ev[r].target
        /\ ev'[r].kind = (IF op[r].name = "copy" THEN "REGULAR" ELSE "LINKED")
        /\ ev'[r].data = Desired(r, x)
    BY <1>1, <2>1 DEF TypeOK, InHand, Resolved, Docs
  <2>7. pc'[r] = (IF op[r].name = "set" THEN "reread" ELSE IF op[r].name = "delete" THEN "calendar" ELSE "newID")
    BY <1>1, <2>1 DEF TypeOK, Goto, AfterRead, Savers
  <2>. HIDE DEF x
  <2>8. Timed(r)' /\ Linking(r)'
    BY <1>1, <2>5, <2>6, DesiredTimes DEF Timed, Linking
  <2>9. AtWork(r)' => AtWork(r)
    BY <1>1 DEF AtWork, Active, Ended, Answered
  <2>10. AsAsked(r)'
    BY <1>1, <2>6, <2>9 DEF AsAsked, HandsInv
  <2>11. ASSUME AtWork(r)' PROVE LinkIntent(r)' /\ Bringing(r)'
    <3>1. AtWork(r)
      BY <2>9, <2>11
    <3>2. Bringing(r)'
      BY <2>7 DEF Bringing, Late
    <3>3. CASE op[r].name # "set"
      BY <1>1, <2>7, <3>2, <3>3 DEF LinkIntent, Savers, Unsaved
    <3>4. CASE op[r].name = "set"
      <4>1. ev[r] = docs[key[r]]
        BY <1>1, <3>1, <3>4 DEF HandsInv, LinkIntent, Savers
      <4>2. IsSource(k, key[r])'
        <5>1. ev[r].target = <<ev[r].target[1], ev[r].target[2]>>
          BY <1>1 DEF Docs, Refs
        <5>. QED
          BY <1>1, <2>2, <2>3, <4>1, <5>1 DEF IsSource
      <4>3. ev'[r].data = Overlay(Shown(key[r], k)', op[r].body)
        <5>1. Shown(key[r], k)' = x
          BY <1>1, <4>1 DEF Shown, x
        <5>. QED
          BY <2>5, <2>6, <3>4, <5>1, DesiredTimes
      <4>4. ev'[r].target = docs'[key'[r]].target /\ pc'[r] = "reread"
        BY <1>1, <2>6, <2>7, <3>4, <4>1
      <4>5. op'[r].name = "set" /\ op'[r] = op[r] /\ pc'[r] # "patch" /\ pc'[r] # "resolve"
            /\ pc'[r] \notin {"notify", "mail"}
        BY <1>1, <3>4, <4>4
      <4>6. \E j \in Keys :
                /\ IsSource(j, key[r])'
                /\ ev'[r].data = Overlay(Shown(key[r], j)', op'[r].body)
        BY <4>2, <4>3, <4>5
      <4>7. LinkIntent(r)'
        BY <4>4, <4>5, <4>6 DEF LinkIntent
      <4>. QED
        BY <3>2, <4>7
    <3>. QED
      BY <3>2, <3>3, <3>4
  <2>. QED
    BY <2>8, <2>10, <2>11 DEF HandsInv
<1>. QED
  BY <1>2, <1>3

\* Whoever is done with holds nothing.
LEMMA OverHands ==
    ASSUME NEW r \in Requests, pc'[r] \in Ended
    PROVE  HandsInv(r)'
BY DEF HandsInv, Timed, Linking, AsAsked, AtWork, Active, Ended, Answered

\* The arrival.
LEMMA ArriveHands ==
    ASSUME TimesGiven, TypeOK, NEW r \in Requests, Arrive(r)
    PROVE  HandsInv(r)'
<1>1. PICK o \in Menu :
          /\ op' = [op EXCEPT ![r] = o]
          /\ Goto(r, IF o.name = "add" THEN "newID" ELSE "read")
          /\ ev' = [ev EXCEPT ![r] =
                [acct |-> o.acct, id |-> o.id, kind |-> "REGULAR",
                 target |-> <<o.acct, o.id>>,
                 data |-> [o.body EXCEPT !.debrief = {}, !.cal = NoEntry],
                 extra |-> Nothing]]
  BY DEF Arrive
<1>2. /\ op'[r] = o /\ pc'[r] = (IF o.name = "add" THEN "newID" ELSE "read")
      /\ ev'[r].data = [o.body EXCEPT !.debrief = {}, !.cal = NoEntry]
      /\ ev'[r].acct = o.acct /\ ev'[r].id = o.id
  BY <1>1 DEF TypeOK, Goto
<1>3. o \in Ops /\ o.body \in Data
  BY <1>1, ConstantsOK DEF Menu, TypeOK, Setting, Ops
<1>4. o.name = "add" => ev'[r].data.times # Undef
  BY <1>1, <1>2, <1>3 DEF TimesGiven, Menu, TypeOK, Data
<1>. QED
  BY <1>2, <1>4, ChangeNames DEF HandsInv, Timed, Linking, AsAsked, LinkIntent, Bringing, Unsaved, Late,
     AtWork, Changes

\* Steps that leave the documents and what the request holds alone.
LEMMA SameIntent ==
    ASSUME NEW r \in Requests, LinkIntent(r), docs' = docs, op'[r] = op[r], ev'[r] = ev[r], key'[r] = key[r],
           pc'[r] # "resolve", pc'[r] = "patch" /\ ev[r].kind = "LINKED" => pc[r] = "patch",
           pc'[r] \in {"notify", "mail"} => ev[r].kind # "LINKED",
           pc'[r] \in Unsaved \union {"reread"} => pc[r] \in Unsaved \union {"reread"}
    PROVE  LinkIntent(r)'
<1>1. \A k : (IsSource(k, key[r])' <=> IsSource(k, key[r])) /\ Shown(key[r], k)' = Shown(key[r], k)
  BY DEF IsSource, Shown
<1>2. docs'[key'[r]] = docs[key[r]]
  OBVIOUS
<1>3. ASSUME pc'[r] \in Unsaved \union {"reread"}, op[r].name \in Savers, ev[r].kind = "LINKED"
      PROVE  /\ op[r].name = "set" /\ ev[r].target = docs[key[r]].target
             /\ \E k \in Keys :
                   /\ IsSource(k, key[r])
                   /\ ev[r].data = Overlay(Shown(key[r], k), op[r].body)
                   /\ pc'[r] = "patch" => ev[r].extra = Differences(docs[k].data, ev[r].data)
  BY <1>3 DEF LinkIntent
<1>. QED
  BY <1>1, <1>2, <1>3 DEF LinkIntent

\* The way of a creation to its insertion.
LEMMA CreateHands ==
    ASSUME LinkInv, NEW r \in Requests, NewID(r) \/ Insert(r)
    PROVE  HandsInv(r)'
<1>1. LinkParts /\ HandsInv(r) /\ op' = op /\ op[r].name \in Creators /\ ev' = ev
  BY PartsOfLinkInv DEF LinkInv, LinkParts, NewID, Insert, Ways, Control, locals
<1>2. ~AtWork(r)'
  BY <1>1, ChangeNames DEF AtWork, Changes
<1>3. CASE NewID(r)
  <2>1. pc[r] = "newID" /\ docs' = docs /\ pc'[r] = "calendar"
    BY <1>1, <1>3 DEF NewID, OnlyLocal, stores, LinkParts, TypeOK, Goto
  <2>2. Timed(r)' /\ Linking(r)'
    BY <1>1, <1>3, <2>1, SameCondition DEF HandsInv, Timed, Linking, Step
  <2>. QED
    BY <1>2, <2>2 DEF HandsInv, AsAsked
<1>4. CASE Insert(r)
  <2>1. pc'[r] \in {"done", "audit"}
    BY <1>1, <1>4 DEF Insert, LinkParts, TypeOK, Goto
  <2>. QED
    BY <1>2, <2>1 DEF HandsInv, AsAsked, Timed, Linking
<1>. QED
  BY <1>3, <1>4

\* Calls that touch no document.
LEMMA CallHands ==
    ASSUME LinkInv, NEW r \in Requests,
           CalendarCalls(r) \/ Notify(r) \/ Mail(r) \/ Audit(r) \/ Links(r) \/ LinkCalendar(r) \/ Skip(r)
    PROVE  HandsInv(r)'
<1>1. LinkParts /\ HandsInv(r) /\ docs' = docs /\ op' = op /\ ev' = ev /\ key' = key /\ TypeOK
  BY PartsOfLinkInv DEF LinkInv, LinkParts, CalendarCalls, Notify, Mail, Audit, Links, LinkCalendar, Skip,
     locals, OnlyLocal, stores
<1>2. /\ pc[r] \in {"calendar"} \union Tapped
      /\ pc[r] = "calendar" => pc'[r] \in {"audit", "insert", "source", "notify", "failed"}
      /\ pc[r] # "calendar" => pc'[r] \in {pc[r], AfterTap(r)}
      /\ pc'[r] = "notify" => pc[r] \in Tapped \/ ev[r].kind # "LINKED"
  BY <1>1 DEF CalendarCalls, Notify, Mail, Audit, Links, LinkCalendar, Skip, Goto, TypeOK, Tapped
<1>3. pc[r] # "calendar" => pc'[r] \notin {"calendar", "insert", "newID", "read", "resolve", "source"}
  BY <1>2 DEF AfterTap, Tapped
<1>4. Timed(r)' /\ Linking(r)'
  BY <1>1, <1>2, <1>3, SameCondition DEF HandsInv, Timed, Linking, Step
<1>5. ASSUME AtWork(r)' PROVE AsAsked(r)' /\ LinkIntent(r)' /\ Bringing(r)'
  <2>1. AtWork(r) /\ pc[r] # "read"
    BY <1>1, <1>2, <1>5 DEF AtWork, Active, Ended, Answered, Tapped
  <2>2. AsAsked(r) /\ LinkIntent(r) /\ Bringing(r) /\ Grip(r)
    BY <1>1, <2>1 DEF HandsInv, LinkParts, Gripped
  <2>3. /\ pc'[r] # "resolve" /\ (pc'[r] = "patch" => pc[r] \in {"patch", "mail"})
        /\ (pc'[r] = "mail" => pc[r] \in {"mail", "notify"})
        /\ (pc'[r] = "notify" => pc[r] \in {"notify", "calendar"})
        /\ (pc'[r] \in Unsaved \union {"reread"} => pc[r] \in Unsaved)
        /\ (pc'[r] \in Late => pc[r] \in Late)
    BY <1>2, <1>3 DEF AfterTap, Tapped, Unsaved, Late
  <2>4. LinkIntent(r)'
    <3>1. pc'[r] \in {"notify", "mail"} => ev[r].kind # "LINKED"
      BY <1>2, <2>2, <2>3 DEF LinkIntent, Tapped
    <3>2. pc'[r] = "patch" /\ ev[r].kind = "LINKED" => pc[r] = "patch"
      BY <2>2, <2>3 DEF LinkIntent
    <3>. QED
      BY <1>1, <2>2, <2>3, <3>1, <3>2, SameIntent
  <2>5. Bringing(r)'
    <3>1. pc'[r] \in Late => ev'[r].kind = "REGULAR" /\ docs'[key'[r]].data.times = ev'[r].data.times
      BY <1>1, <2>2, <2>3 DEF Bringing
    <3>2. ASSUME pc'[r] = "linkPatch", NEW t \in todo'[r]
          PROVE  t.doc = docs[t.for] /\ t.doc.target = <<ev[r].acct, ev[r].id>>
      <4>1. Links(r) \/ (Skip(r) /\ todo'[r] = {})
        <5>1. pc[r] \in {"linksAgain", "linkPatch"}
          BY <1>2, <3>2 DEF AfterTap, Tapped
        <5>. QED
          BY <1>1, <5>1 DEF CalendarCalls, Notify, Mail, Audit, Links, LinkCalendar, Skip, TypeOK
      <4>2. todo'[r] = {[doc |-> docs[k], for |-> k] : k \in LinksTo(ev[r].acct, ev[r].id)}
        BY <1>1, <3>2, <4>1 DEF Links, TypeOK
      <4>. QED
        BY <3>2, <4>2 DEF LinksTo
    <3>. QED
      BY <1>1, <3>1, <3>2 DEF Bringing
  <2>6. AsAsked(r)'
    BY <1>1, <2>1, <2>2 DEF AsAsked
  <2>. QED
    BY <2>4, <2>5, <2>6
<1>. QED
  BY <1>4, <1>5 DEF HandsInv, AsAsked

\* The second read of a save finds what the first one found.
LEMMA RereadHands ==
    ASSUME LinkInv, NEW r \in Requests, Reread(r)
    PROVE  HandsInv(r)'
<1>1. /\ LinkParts /\ TypeOK /\ HandsInv(r) /\ docs' = docs /\ op' = op /\ pc[r] = "reread" /\ AtWork(r)
      /\ ev' = ev
  BY PartsOfLinkInv DEF LinkInv, LinkParts, Reread, NotFound, OnlyLocal, stores, locals, Paths, AtWork,
     Active, Ended, Answered, Changes
<1>2. CASE NotFound(r)
  <2>1. pc'[r] = "failed"
    BY <1>1, <1>2 DEF NotFound, Goto, TypeOK
  <2>. QED
    BY <2>1, OverHands DEF Ended, Answered
<1>3. CASE ~NotFound(r)
  <2>1. PICK k \in Keys :
             /\ Matching(ev[r].acct, ev[r].id) = {k}
             /\ key' = [key EXCEPT ![r] = k]
             /\ Goto(r, "calendar")
    BY <1>3 DEF Reread
  <2>2. Found(r) /\ key[r] \in Keys /\ AsAsked(r) /\ LinkIntent(r)
    BY <1>1 DEF LinkParts, Gripped, Grip, TypeOK, HandsInv
  <2>3. key[r] = k
    BY <2>1, <2>2, MatchOne DEF Found, Alike
  <2>4. key'[r] = key[r] /\ pc'[r] = "calendar"
    BY <1>1, <2>1, <2>3 DEF TypeOK, Goto
  <2>5. LinkIntent(r)'
    BY <1>1, <2>2, <2>4, SameIntent
  <2>6. op[r].name \in Savers
    BY <1>1 DEF LinkParts, Paths
  <2>7. Timed(r)' /\ Linking(r)'
    BY <1>1, <2>6, ChangeNames DEF Timed, Linking, Savers
  <2>8. AsAsked(r)' /\ Bringing(r)'
    BY <1>1, <2>2, <2>4 DEF AsAsked, Bringing, Late
  <2>. QED
    BY <2>5, <2>7, <2>8 DEF HandsInv
<1>. QED
  BY <1>2, <1>3

\* The source of a saved link is the one that it was resolved with.
LEMMA SourceHands ==
    ASSUME LinkInv, NEW r \in Requests, Source(r)
    PROVE  HandsInv(r)'
<1>1. /\ LinkParts /\ TypeOK /\ HandsInv(r) /\ docs' = docs /\ op' = op /\ pc[r] = "source"
      /\ op[r].name \in Savers /\ AtWork(r) /\ ev[r].kind = "LINKED" /\ ev[r] \in Docs
  BY PartsOfLinkInv DEF LinkInv, LinkParts, Source, NotFound, OnlyLocal, stores, locals, Ways, AtWork,
     Active, Ended, Answered, Changes, TypeOK
<1>2. CASE NotFound(r)
  <2>1. pc'[r] = "failed"
    BY <1>1, <1>2 DEF NotFound, Goto, TypeOK
  <2>. QED
    BY <2>1, OverHands DEF Ended, Answered
<1>3. CASE ~NotFound(r)
  <2>1. PICK j \in Keys :
             /\ Matching(ev[r].target[1], ev[r].target[2]) = {j}
             /\ ev' = [ev EXCEPT ![r].extra = Differences(docs[j].data, ev[r].data)]
             /\ Goto(r, "patch")
             /\ UNCHANGED key
    BY <1>3 DEF Source
  <2>2. AsAsked(r) /\ LinkIntent(r)
    BY <1>1 DEF HandsInv
  <2>3. /\ ev'[r].acct = ev[r].acct /\ ev'[r].id = ev[r].id /\ ev'[r].kind = ev[r].kind
        /\ ev'[r].target = ev[r].target /\ ev'[r].data = ev[r].data
        /\ ev'[r].extra = Differences(docs[j].data, ev[r].data)
        /\ pc'[r] = "patch" /\ key' = key
    BY <1>1, <2>1 DEF TypeOK, Docs, Goto
  <2>4. PICK k \in Keys : IsSource(k, key[r]) /\ ev[r].data = Overlay(Shown(key[r], k), op[r].body)
    BY <1>1, <2>2 DEF LinkIntent, Unsaved
  <2>5. op[r].name = "set" /\ ev[r].target = docs[key[r]].target
    BY <1>1, <2>2 DEF LinkIntent, Unsaved
  <2>6. ev[r].target[1] = docs[k].acct /\ ev[r].target[2] = docs[k].id /\ docs[k] # NoDoc
    BY <2>4, <2>5 DEF IsSource
  <2>7. j = k
    BY <2>1, <2>6, MatchOne
  <2>8. (IsSource(k, key[r])' <=> IsSource(k, key[r])) /\ Shown(key[r], k)' = Shown(key[r], k)
    BY <1>1, <2>3 DEF IsSource, Shown
  <2>9. /\ IsSource(k, key[r])'
        /\ ev'[r].data = Overlay(Shown(key[r], k)', op'[r].body)
        /\ ev'[r].extra = Differences(docs'[k].data, ev'[r].data)
    BY <1>1, <2>3, <2>4, <2>7, <2>8
  <2>10. LinkIntent(r)'
    <3>1. ev'[r].target = docs'[key'[r]].target /\ op'[r].name = "set"
      BY <1>1, <2>3, <2>5
    <3>. QED
      BY <2>3, <2>9, <3>1 DEF LinkIntent
  <2>11. Timed(r)' /\ Linking(r)'
    BY <2>3 DEF Timed, Linking
  <2>12. AsAsked(r)' /\ Bringing(r)'
    BY <1>1, <2>2, <2>3 DEF AsAsked, Bringing, Late
  <2>. QED
    BY <2>10, <2>11, <2>12 DEF HandsInv
<1>. QED
  BY <1>2, <1>3

\* A save that goes on to the links has written its times.
LEMMA PatchHands ==
    ASSUME LinkInv, NEW r \in Requests, Patch(r)
    PROVE  HandsInv(r)'
<1>1. /\ LinkParts /\ TypeOK /\ Bare /\ op' = op /\ ev' = ev /\ key' = key /\ pc[r] = "patch"
      /\ op[r].name \in Savers /\ Writes(r)
      /\ pc'[r] = (IF ev[r].kind = "LINKED" THEN "done" ELSE "links")
  BY PartsOfLinkInv DEF LinkInv, LinkParts, Patch, Ways, Writes, locals, Goto, TypeOK
<1>2. CASE ev[r].kind = "LINKED"
  BY <1>1, <1>2, OverHands DEF Ended, Answered
<1>3. CASE ev[r].kind # "LINKED"
  <2>1. /\ AtWork(r) /\ Found(r) /\ AsAsked(r) /\ ev[r] \in Docs /\ Intent(r) /\ docs[key[r]] \in Docs
        /\ key[r] \in Keys /\ ev[r].kind = "REGULAR"
    BY <1>1, <1>3, WriterHolds DEF LinkParts, Meant, Docs
  <2>2. ev[r].data \in Data /\ docs[key[r]].data \in Data
    BY <2>1, DocFields
  <2>3. docs[key[r]].data.times # Undef /\ docs[key[r]].kind = "REGULAR"
    BY <1>1, <2>1 DEF Bare, Found, Alike
  <2>. DEFINE x == docs[key[r]].data
  <2>4. ev[r].data = Desired(r, x)
    BY <1>1, <2>1 DEF Intent, Unsaved
  <2>5. x \in Data /\ x.times # Undef
    BY <2>2, <2>3
  <2>. HIDE DEF x
  <2>6. ev[r].data.times # Undef
    BY <2>4, <2>5, DesiredTimes
  <2>7. docs'[key[r]].data.times = PatchedField(docs[key[r]].data.times, ev[r].data.times)
    BY <2>1, PatchDoes
  <2>8. docs'[key[r]].data.times = ev[r].data.times
    BY <2>2, <2>6, <2>7, FieldValues, PatchedValue
  <2>9. Timed(r)' /\ Linking(r)'
    BY <1>1 DEF Timed, Linking
  <2>10. AsAsked(r)' /\ Bringing(r)' /\ LinkIntent(r)'
    BY <1>1, <1>3, <2>1, <2>8 DEF AsAsked, Bringing, LinkIntent, Unsaved
  <2>. QED
    BY <2>9, <2>10 DEF HandsInv
<1>. QED
  BY <1>2, <1>3

\* Writing one link back leaves the source and the other links as they are.
LEMMA LinkPatchHands ==
    ASSUME LinkInv, NEW r \in Requests, LinkPatch(r)
    PROVE  HandsInv(r)'
<1>1. /\ LinkParts /\ TypeOK /\ op' = op /\ ev' = ev /\ key' = key /\ pc[r] = "linkPatch"
      /\ op[r].name \in Savers /\ Writes(r) /\ AtWork(r)
  BY PartsOfLinkInv, WriterHolds DEF LinkPatch, LinkParts, Ways, Writes
<1>2. /\ Found(r) /\ key[r] \in Keys /\ Bringing(r) /\ AsAsked(r) /\ ev[r].kind = "REGULAR" /\ Grip(r)
      /\ todo[r] \subseteq [doc : Docs, for : Keys]
  BY <1>1, WriterHolds DEF Bringing, Late, LinkParts, Gripped, TypeOK
<1>3. pc'[r] \in {"linkPatch", "audit"} /\ todo'[r] \subseteq todo[r]
  BY <1>1 DEF LinkPatch, Goto, TypeOK, AfterTap
<1>4. docs'[key[r]] = docs[key[r]]
  BY <1>1, <1>2, LinkPatchMeets DEF LinkParts, ChangeInv, Found, Alike
<1>5. ASSUME NEW t \in todo'[r]
      PROVE  t.doc = docs'[t.for] /\ t.doc.target = <<ev[r].acct, ev[r].id>>
  <2>1. t \in todo[r] /\ t.for \in Keys /\ Linked(t)
    BY <1>1, <1>2, <1>3, <1>5 DEF Grip
  <2>2. docs[t.for] # NoDoc /\ t.doc = docs[t.for] /\ t.doc.target = <<ev[r].acct, ev[r].id>>
    BY <1>1, <1>2, <2>1 DEF Bringing, Linked
  <2>3. PICK l \in Keys : l = t.for
    BY <2>1
  <2>4. docs'[l] = docs[l]
    BY <1>1, <1>5, <2>2, <2>3, LinkPatchDoes
  <2>. QED
    BY <2>2, <2>3, <2>4
<1>6. Timed(r)' /\ Linking(r)'
  BY <1>3 DEF Timed, Linking
<1>7. AsAsked(r)' /\ LinkIntent(r)'
  BY <1>1, <1>2, <1>3 DEF AsAsked, LinkIntent, Unsaved
<1>8. Bringing(r)'
  BY <1>1, <1>2, <1>4, <1>5 DEF Bringing, Late
<1>. QED
  BY <1>6, <1>7, <1>8 DEF HandsInv

\* What requests have in hand stays in hand.
LEMMA HandsStay ==
    ASSUME TimesGiven, LinkInv, NEW r \in Requests, Arrive(r) \/ Step(r) \/ Fail(r) \/ Skip(r) \/ Crash(r)
    PROVE  \A s \in Requests : HandsInv(s)'
<1>1. TypeOK
  BY PartsOfLinkInv DEF LinkParts
<1>2. HandsInv(r)'
  <2>1. CASE Arrive(r)
    BY <1>1, <2>1, ArriveHands
  <2>2. CASE Fail(r) \/ Crash(r) \/ Remove(r)
    <3>1. pc'[r] \in Ended
      BY <1>1, <2>2 DEF Fail, Crash, Remove, Goto, TypeOK, Ended, Answered
    <3>. QED
      BY <3>1, OverHands
  <2>3. CASE NewID(r) \/ Insert(r)
    BY <2>3, CreateHands
  <2>4. CASE CalendarCalls(r) \/ Notify(r) \/ Mail(r) \/ Audit(r) \/ Links(r) \/ LinkCalendar(r) \/ Skip(r)
    BY <2>4, CallHands
  <2>. QED
    BY <2>1, <2>2, <2>3, <2>4, ReadHands, ResolveHands, RereadHands, SourceHands, PatchHands,
       LinkPatchHands DEF Step
<1>. QED
  BY <1>2, OthersHands

\* A link stays one, made for the same event,
LEMMA LinkBefore ==
    ASSUME LinkInv, NEW r \in Requests, Arrive(r) \/ Step(r) \/ Fail(r) \/ Skip(r) \/ Crash(r),
           NEW l \in Keys, IsLink(l)', docs[l] # NoDoc
    PROVE  /\ IsLink(l) /\ docs'[l].target = docs[l].target
           /\ docs'[l].acct = docs[l].acct /\ docs'[l].id = docs[l].id
<1>1. TypeOK
  BY PartsOfLinkInv DEF LinkParts
<1>2. /\ docs'[l] # NoDoc /\ docs[l].kind = "LINKED" /\ docs'[l].target = docs[l].target
      /\ docs'[l].acct = docs[l].acct /\ docs'[l].id = docs[l].id
  BY DocsKeep DEF IsLink
<1>3. SourceDeleted(l) => SourceDeleted(l)'
  BY <1>1, <1>2, AskedOn DEF SourceDeleted
<1>. QED
  BY <1>2, <1>3 DEF IsLink

\* whose source stays until somebody asks to delete it.
LEMMA SourceKept ==
    ASSUME LinkInv, NEW r \in Requests, Arrive(r) \/ Step(r) \/ Fail(r) \/ Skip(r) \/ Crash(r),
           NEW l \in Keys, IsLink(l)', docs[l] # NoDoc, NEW k \in Keys, IsSource(k, l)
    PROVE  IsSource(k, l)' /\ docs'[k] # NoDoc /\ k # l
<1>1. LinkParts
  BY PartsOfLinkInv
<1>2. docs'[l].target = docs[l].target /\ IsLink(l)
  BY LinkBefore
<1>3. docs'[k] # NoDoc
  <2>1. CASE ~Writes(r)
    BY <1>1, <2>1, OthersSteady DEF LinkParts, Steady, IsSource
  <2>2. CASE Patch(r)
    <3>1. k # key[r] => docs'[k] = docs[k]
      BY <1>1, <2>2, PatchMeets DEF LinkParts, IsSource
    <3>2. k = key[r] => docs'[k] # NoDoc
      BY <2>2, PatchDoes
    <3>. QED
      BY <3>1, <3>2 DEF IsSource
  <2>3. CASE LinkPatch(r)
    BY <1>1, <2>3, LinkPatchMeets DEF LinkParts, ChangeInv, IsSource
  <2>4. CASE Remove(r)
    <3>. SUFFICES ASSUME docs'[k] = NoDoc PROVE FALSE
      OBVIOUS
    <3>1. docs[k].acct = ev[r].acct /\ docs[k].id = ev[r].id
      BY <2>4 DEF Remove, Matching, IsSource
    <3>2. ev[r].acct = op[r].acct /\ ev[r].id = op[r].id /\ op[r].name = "delete" /\ pc[r] # "idle"
      BY <1>1, <2>4, WriterHolds DEF Writes, AsAsked, Remove, LinkParts, Ways
    <3>3. op'[r] = op[r] /\ pc'[r] # "idle"
      BY <1>1, <3>2, AskedOn DEF LinkParts
    <3>4. docs'[l].target = <<op[r].acct, op[r].id>>
      BY <1>2, <3>1, <3>2 DEF IsSource
    <3>5. SourceDeleted(l)'
      BY <3>2, <3>3, <3>4 DEF SourceDeleted
    <3>. QED
      BY <3>5 DEF IsLink
  <2>. QED
    BY <2>1, <2>2, <2>3, <2>4 DEF Writes
<1>4. docs[k] # NoDoc /\ docs'[k].acct = docs[k].acct /\ docs'[k].id = docs[k].id /\ docs'[k].kind = docs[k].kind
  BY <1>3, DocsKeep DEF IsSource
<1>. QED
  BY <1>2, <1>3, <1>4 DEF IsSource, IsLink

\* What was asked for a link stays asked for.
LEMMA EditsStay ==
    ASSUME LinkInv, NEW r \in Requests, Arrive(r) \/ Step(r) \/ Fail(r) \/ Skip(r) \/ Crash(r),
           NEW l \in Keys, IsLink(l)', docs[l] # NoDoc, NEW s \in Requests, Edits(s, l)
    PROVE  Edits(s, l)' /\ op'[s] = op[s]
BY LinkBefore, AskedOn, PartsOfLinkInv DEF LinkParts, Edits

\* An override stays an edit where the overrides stay.
LEMMA EditedAlike ==
    ASSUME LinkInv, NEW r \in Requests, Arrive(r) \/ Step(r) \/ Fail(r) \/ Skip(r) \/ Crash(r),
           NEW l \in Keys, IsLink(l)', docs[l] # NoDoc, docs'[l].extra = docs[l].extra, Edited(l)
    PROVE  Edited(l)'
<1>1. IsLink(l)
  BY LinkBefore
<1>2. ASSUME NEW s \in Requests, Edits(s, l) PROVE Edits(s, l)' /\ op'[s] = op[s]
  BY <1>2, EditsStay
<1>. QED
  BY <1>1, <1>2 DEF Edited

\* Who is bringing the links up to date, one request at a time, takes the step.
LEMMA WhoRetimes ==
    ASSUME TypeOK, OneActive, OneAtATime, NEW r \in Requests,
           Arrive(r) \/ Step(r) \/ Fail(r) \/ Skip(r) \/ Crash(r), NEW l, NEW k, Retiming(l, k)
    PROVE  /\ key[r] = k /\ ~Arrive(r)
           /\ \/ pc[r] \in {"links", "linkCalendar", "linksAgain"}
              \/ pc[r] = "linkPatch" /\ \E t \in todo[r] : t.for = l
<1>1. PICK s \in Requests :
        /\ key[s] = k
        /\ \/ pc[s] \in {"links", "linkCalendar", "linksAgain"}
           \/ pc[s] = "linkPatch" /\ \E t \in todo[s] : t.for = l
  BY DEF Retiming
<1>2. Active(s)
  BY <1>1 DEF Active, Ended, Answered
<1>. QED
  BY <1>1, <1>2, OnlyOne

\* A new link shows the times of its source.
LEMMA NewLinkFollows ==
    ASSUME LinkInv, Apart, NEW r \in Requests, Arrive(r) \/ Step(r) \/ Fail(r) \/ Skip(r) \/ Crash(r),
           NEW l \in Keys, IsLink(l)', docs[l] = NoDoc
    PROVE  Follows(l)' /\ Edited(l)'
<1>1. LinkParts /\ HandsInv(r) /\ NoTimes
  BY PartsOfLinkInv DEF LinkInv
<1>2. Insert(r) /\ l = r /\ docs'[l] = NewDoc(r) /\ pc[r] = "insert"
  BY <1>1, OnlyInsertAdds DEF IsLink, LinkParts
<1>3. op[r].name = "link"
  BY <1>2 DEF NewDoc, IsLink
<1>4. OneAtATime
  BY <1>1, <1>2, <1>3 DEF Apart, NoTimes
<1>5. PICK k \in Keys :
        /\ docs[k] # NoDoc /\ docs[k].kind = "REGULAR"
        /\ docs[k].acct = ev[r].acct /\ docs[k].id = ev[r].id
        /\ docs[k].data.times = ev[r].data.times
  BY <1>1, <1>2, <1>3, <1>4 DEF HandsInv, Linking
<1>6. docs'[k] = docs[k]
  BY <1>1, <1>2, <1>5 DEF Insert, LinkParts, TypeOK
<1>7. /\ docs'[l].target = <<ev[r].acct, ev[r].id>> /\ docs'[l].extra = Nothing
      /\ docs'[l].data.times = ev[r].data.times
  <2>1. /\ NewDoc(r).target = <<ev[r].acct, ev[r].id>> /\ NewDoc(r).extra = Nothing
        /\ NewDoc(r).data.times = ev[r].data.times
    BY <1>3 DEF NewDoc, Nothing
  <2>. QED
    BY <1>2, <2>1
<1>8. IsSource(k, l)'
  BY <1>5, <1>6, <1>7 DEF IsSource
<1>9. Follows(l)'
  BY <1>5, <1>6, <1>7, <1>8 DEF Follows
<1>10. Edited(l)'
  BY <1>7 DEF Edited, Nothing
<1>. QED
  BY <1>9, <1>10

\* Two events of one reference are one.
LEMMA OneSource ==
    ASSUME UniqueRefs, NEW l, NEW j \in Keys, NEW k \in Keys, IsSource(j, l), IsSource(k, l)
    PROVE  j = k
BY DEF UniqueRefs, IsSource, Stored

\* A link that was saved: it overrides what it is to show otherwise than its source.
LEMMA SavedLinkFollows ==
    ASSUME LinkInv, NEW r \in Requests, Patch(r), NEW l \in Keys, l = key[r],
           IsLink(l)', docs[l] # NoDoc, NEW k \in Keys, IsSource(k, l),
           docs[l].extra.times = Undef =>
              docs[l].data.times = docs[k].data.times \/ (OneAtATime /\ Retiming(l, k)),
           Edited(l)
    PROVE  Edited(l)' /\ (docs'[l].extra.times = Undef => docs'[l].data.times = docs'[k].data.times)
<1>1. LinkParts /\ Bare /\ IsLink(l) /\ IsLink(l)' /\ OneActive
  BY PartsOfLinkInv, LinkBefore DEF LinkInv, Step
<1>2. /\ Found(r) /\ LinkIntent(r) /\ AsAsked(r) /\ AtWork(r) /\ pc[r] = "patch" /\ op[r].name \in Savers
      /\ ev[r] \in Docs /\ docs[l] \in Docs /\ docs[k] \in Docs
  BY <1>1, WriterHolds DEF Writes, Patch, LinkParts, Ways, TypeOK, IsSource
<1>3. ev[r].kind = "LINKED"
  BY <1>1, <1>2 DEF Found, Alike, IsLink
<1>4. PICK j \in Keys :
        /\ IsSource(j, l)
        /\ ev[r].data = Overlay(Shown(l, j), op[r].body)
        /\ ev[r].extra = Differences(docs[j].data, ev[r].data)
  BY <1>2, <1>3 DEF LinkIntent, Unsaved
<1>5. j = k
  BY <1>1, <1>4, OneSource DEF LinkParts
<1>6. op[r].name = "set" /\ op[r].body.debrief = Undef
  BY <1>1, <1>2, <1>3 DEF LinkIntent, Unsaved, LinkParts, Asked
<1>7. docs'[k] = docs[k]
  <2>1. k # l
    BY <1>1 DEF IsSource, IsLink
  <2>. QED
    BY <1>1, <2>1, PatchMeets DEF LinkParts, IsSource
<1>. DEFINE base == docs[k].data
            own == docs[l].data
            over == docs[l].extra
            body == op[r].body
<1>8. base \in Data /\ own \in Data /\ over \in Data /\ ev[r].data \in Data /\ ev[r].extra \in Data
  BY <1>2, DocFields
<1>9. base.times # Undef /\ own.status = Undef /\ own.pocs = Undef /\ own.debrief = Undef
  BY <1>1 DEF Bare, IsSource, IsLink
<1>10. ev[r].data = Overlay(Overlay(Overlay(base, own), over), body)
  BY <1>4, <1>5 DEF Shown
<1>11. /\ ev[r].extra.status = Different(base.status, ev[r].data.status)
       /\ ev[r].extra.times = Different(base.times, ev[r].data.times)
       /\ ev[r].extra.pocs = Different(base.pocs, ev[r].data.pocs)
       /\ ev[r].extra.debrief = Different(base.debrief, ev[r].data.debrief)
  BY <1>4, <1>5 DEF Differences, FieldWise
<1>12. /\ docs'[l].data.times = PatchedField(own.times, ev[r].data.times)
       /\ docs'[l].extra.status = PatchedField(over.status, ev[r].extra.status)
       /\ docs'[l].extra.times = PatchedField(over.times, ev[r].extra.times)
       /\ docs'[l].extra.pocs = PatchedField(over.pocs, ev[r].extra.pocs)
       /\ docs'[l].extra.debrief = PatchedField(over.debrief, ev[r].extra.debrief)
  BY PatchDoes
<1>13. Edits(r, l)
  BY <1>2, <1>6 DEF Edits, AsAsked, Found, Alike
<1>14. \A s \in Requests : Edits(s, l) => Edits(s, l)' /\ op'[s] = op[s]
  BY EditsStay DEF Step
<1>15. /\ over.status # Undef => \E s \in Requests : Edits(s, l) /\ op[s].body.status # Undef
       /\ over.times # Undef => \E s \in Requests : Edits(s, l) /\ op[s].body.times # Undef
       /\ over.pocs # Undef => \E s \in Requests : Edits(s, l) /\ op[s].body.pocs # Undef
       /\ over.debrief = Undef
  BY <1>1 DEF Edited
<1>. HIDE DEF base, own, over, body
<1>16. /\ ev[r].data.status = IF body.status # Undef THEN body.status
                              ELSE IF over.status # Undef THEN over.status ELSE base.status
       /\ ev[r].data.times = IF body.times # Undef THEN body.times
                              ELSE IF over.times # Undef THEN over.times
                              ELSE IF own.times # Undef THEN own.times ELSE base.times
       /\ ev[r].data.pocs = IF body.pocs # Undef THEN body.pocs
                              ELSE IF over.pocs # Undef THEN over.pocs ELSE base.pocs
       /\ ev[r].data.debrief = base.debrief
  BY <1>6, <1>9, <1>10, <1>15, Overlaid DEF body
<1>17. ASSUME NEW o, NEW n PROVE Different(o, n) # Undef => n # Undef /\ n # o
  BY <1>17 DEF Different
<1>18. \A x \in Data : x.status \notin {NoEntry, Cleared} /\ x.times \notin {NoEntry, Cleared}
          /\ x.pocs \notin {NoEntry, Cleared} /\ x.debrief \notin {NoEntry, Cleared}
  BY FieldValues
<1>19. /\ docs'[l].data.times = IF ev[r].data.times = Undef THEN own.times ELSE ev[r].data.times
       /\ docs'[l].extra.status = IF ev[r].extra.status = Undef THEN over.status ELSE ev[r].extra.status
       /\ docs'[l].extra.times = IF ev[r].extra.times = Undef THEN over.times ELSE ev[r].extra.times
       /\ docs'[l].extra.pocs = IF ev[r].extra.pocs = Undef THEN over.pocs ELSE ev[r].extra.pocs
       /\ docs'[l].extra.debrief = IF ev[r].extra.debrief = Undef THEN over.debrief ELSE ev[r].extra.debrief
  BY <1>8, <1>12, <1>18, PatchedValue
\* The times.
<1>20. docs'[l].extra.times = Undef => docs'[l].data.times = docs'[k].data.times
  <2>. SUFFICES ASSUME docs'[l].extra.times = Undef PROVE docs'[l].data.times = base.times
    BY <1>7 DEF base
  <2>1. ev[r].extra.times = Undef
    BY <1>19
  <2>2. ev[r].data.times # Undef
    BY <1>9, <1>16
  <2>3. ev[r].data.times = base.times
    BY <1>8, <1>9, <1>11, <1>18, <2>1, <2>2 DEF Different
  <2>. QED
    BY <1>19, <2>2, <2>3
<1>21. docs'[l].extra.times # Undef => over.times # Undef \/ body.times # Undef
  <2>. SUFFICES ASSUME docs'[l].extra.times # Undef, over.times = Undef, body.times = Undef PROVE FALSE
    OBVIOUS
  <2>1. ev[r].data.times # base.times
    BY <1>11, <1>17, <1>19
  <2>2. own.times # base.times
    BY <1>16, <2>1
  <2>3. OneAtATime /\ Retiming(l, k)
    BY <2>2 DEF own, base, over
  <2>4. key[r] = k
    BY <1>1, <2>3, WhoRetimes DEF LinkParts, Step
  <2>. QED
    BY <1>1, <2>4 DEF IsSource, IsLink
<1>22. Edited(l)'
  <2>1. docs'[l].extra.status # Undef => \E s \in Requests : Edits(s, l) /\ op[s].body.status # Undef
    <3>1. docs'[l].extra.status # Undef => over.status # Undef \/ body.status # Undef
      BY <1>11, <1>16, <1>17, <1>19
    <3>. QED
      BY <1>13, <1>15, <3>1 DEF body
  <2>2. docs'[l].extra.times # Undef => \E s \in Requests : Edits(s, l) /\ op[s].body.times # Undef
    BY <1>13, <1>15, <1>21 DEF body
  <2>3. docs'[l].extra.pocs # Undef => \E s \in Requests : Edits(s, l) /\ op[s].body.pocs # Undef
    <3>1. docs'[l].extra.pocs # Undef => over.pocs # Undef \/ body.pocs # Undef
      BY <1>11, <1>16, <1>17, <1>19
    <3>. QED
      BY <1>13, <1>15, <3>1 DEF body
  <2>4. docs'[l].extra.debrief = Undef
    BY <1>11, <1>15, <1>16, <1>17, <1>19
  <2>. QED
    BY <1>14, <2>1, <2>2, <2>3, <2>4 DEF Edited
<1>. QED
  BY <1>20, <1>22

\* A link and its source whose times agree, or will when the source's links are written back.
Agree(l, k) ==
    docs[l].extra.times = Undef =>
        docs[l].data.times = docs[k].data.times \/ (OneAtATime /\ Retiming(l, k))

\* Steps that write no document.
LEMMA QuietAgree ==
    ASSUME LinkInv, NEW r \in Requests, ~Writes(r), Arrive(r) \/ Step(r) \/ Fail(r) \/ Skip(r) \/ Crash(r),
           NEW l \in Keys, docs[l] # NoDoc, docs[l].kind = "LINKED",
           NEW k \in Keys, IsSource(k, l), Agree(l, k)
    PROVE  Agree(l, k)' /\ docs'[l] = docs[l]
<1>1. LinkParts /\ TypeOK /\ OneActive
  BY PartsOfLinkInv DEF LinkInv, LinkParts
<1>2. docs'[l] = docs[l] /\ docs'[k] = docs[k]
  BY <1>1, OthersSteady DEF LinkParts, Steady, IsSource
<1>3. ASSUME OneAtATime, Retiming(l, k) PROVE OneAtATime' /\ Retiming(l, k)'
  <2>1. /\ key[r] = k /\ ~Arrive(r)
        /\ \/ pc[r] \in {"links", "linkCalendar", "linksAgain"}
           \/ pc[r] = "linkPatch" /\ \E t \in todo[r] : t.for = l
    BY <1>1, <1>3, WhoRetimes
  <2>2. AtWork(r) /\ Found(r)
    BY <1>1, <2>1 DEF LinkParts, Ways, Gripped, Grip, AtWork, Active, Ended, Answered, Changes
  <2>3. ~Crash(r) /\ ~Fail(r) /\ (Skip(r) => pc[r] = "linkCalendar")
    BY <1>3, <2>1 DEF OneAtATime, Crash, Fail, Skip, Streamed, Main, Failing, Tapped
  <2>4. Links(r) \/ LinkCalendar(r) \/ (Skip(r) /\ pc[r] = "linkCalendar")
    BY <1>3, <2>1, <2>3 DEF Step, Writes, Read, Resolve, NewID, CalendarCalls, Insert, Audit, Remove,
       Reread, Source, Notify, Mail, Patch, LinkPatch
  <2>5. key' = key
    BY <2>4 DEF Links, LinkCalendar, Skip
  <2>6. CASE pc[r] = "links" \/ pc[r] = "linkCalendar"
    <3>1. pc'[r] \in {"linkCalendar", "linksAgain"}
      BY <1>1, <2>4, <2>6 DEF Links, LinkCalendar, Skip, Goto, AfterTap, TypeOK
    <3>. QED
      BY <1>3, <2>1, <2>5, <3>1, SameCondition DEF Retiming
  <2>7. CASE pc[r] = "linksAgain"
    <3>1. Links(r)
      BY <2>4, <2>7 DEF LinkCalendar
    <3>2. /\ pc'[r] = "linkPatch"
          /\ todo'[r] = {[doc |-> docs[j], for |-> j] : j \in LinksTo(ev[r].acct, ev[r].id)}
      BY <1>1, <2>7, <3>1 DEF Links, Goto, AfterTap, TypeOK
    <3>3. l \in LinksTo(ev[r].acct, ev[r].id)
      BY <2>1, <2>2 DEF LinksTo, Stored, IsSource, Found, Alike
    <3>4. [doc |-> docs[l], for |-> l] \in todo'[r] /\ [doc |-> docs[l], for |-> l].for = l
      BY <3>2, <3>3
    <3>. QED
      BY <1>3, <2>1, <2>5, <3>2, <3>4, SameCondition DEF Retiming
  <2>8. pc[r] # "linkPatch"
    BY <2>4 DEF Links, LinkCalendar
  <2>. QED
    BY <2>1, <2>6, <2>7, <2>8
<1>. QED
  BY <1>2, <1>3 DEF Agree

\* Writing the links back brings each to the times of its source.
LEMMA LinkPatchAgree ==
    ASSUME LinkInv, NEW r \in Requests, LinkPatch(r),
           NEW l \in Keys, docs[l] # NoDoc, docs[l].kind = "LINKED",
           NEW k \in Keys, IsSource(k, l), Agree(l, k)
    PROVE  Agree(l, k)' /\ docs'[l].extra = docs[l].extra
<1>1. LinkParts /\ TypeOK /\ OneActive /\ Bare /\ Plain
  BY PartsOfLinkInv DEF LinkInv, LinkParts
<1>2. docs'[k] = docs[k] /\ docs'[l].extra = docs[l].extra
  BY <1>1, LinkPatchMeets DEF LinkParts, IsSource
<1>3. Found(r) /\ Bringing(r) /\ pc[r] = "linkPatch" /\ key[r] \in Keys /\ ev[r] \in Docs
  BY <1>1, WriterHolds DEF Writes, LinkPatch
<1>4. CASE docs'[l] = docs[l] /\ \A t \in todo[r] : t.for = l => t \in todo'[r]
  <2>1. ASSUME OneAtATime, Retiming(l, k) PROVE OneAtATime' /\ Retiming(l, k)'
    <3>1. key[r] = k /\ \E t \in todo[r] : t.for = l
      BY <1>1, <1>3, <2>1, WhoRetimes DEF Step
    <3>2. pc' = pc /\ key' = key
      BY <3>1 DEF LinkPatch
    <3>3. \E t \in todo'[r] : t.for = l
      BY <1>4, <3>1
    <3>. QED
      BY <1>3, <2>1, <3>1, <3>2, <3>3, SameCondition DEF Retiming, Step
  <2>. QED
    BY <1>2, <1>4, <2>1 DEF Agree
<1>5. CASE /\ docs'[l].data.times = PatchedField(docs[l].data.times, ev[r].data.times)
           /\ docs[l].target = <<ev[r].acct, ev[r].id>>
  <2>1. ev[r].kind = "REGULAR" /\ docs[key[r]].data.times = ev[r].data.times
    BY <1>3 DEF Bringing, Late
  <2>2. IsSource(key[r], l)
    BY <1>3, <1>5, <2>1 DEF IsSource, Found, Alike
  <2>3. key[r] = k
    BY <1>1, <1>3, <2>2, OneSource DEF LinkParts
  <2>4. ev[r].data.times # Undef
    BY <1>1, <2>1, <2>3 DEF Bare, IsSource
  <2>5. docs[l].data \in Data /\ ev[r].data \in Data
    BY <1>1, <1>3, DocFields DEF TypeOK
  <2>6. docs'[l].data.times = ev[r].data.times
    BY <1>5, <2>4, <2>5, FieldValues, PatchedValue
  <2>. QED
    BY <1>2, <2>1, <2>3, <2>6 DEF Agree
<1>6. CASE "linkPatch" \in Failing /\ docs' = docs
  <2>1. ~OneAtATime
    BY <1>6 DEF OneAtATime
  <2>. QED
    BY <1>2, <1>6, <2>1 DEF Agree
<1>. QED
  BY <1>4, <1>5, <1>6, LinkPatchDoes

\* A save of the source itself: the links are to be written back next.
LEMMA PatchAgree ==
    ASSUME LinkInv, Apart, NEW r \in Requests, Patch(r),
           NEW l \in Keys, docs[l] # NoDoc, docs[l].kind = "LINKED", l # key[r],
           NEW k \in Keys, IsSource(k, l), Agree(l, k)
    PROVE  Agree(l, k)' /\ docs'[l] = docs[l]
<1>1. LinkParts /\ TypeOK /\ OneActive /\ Bare /\ NoTimes
  BY PartsOfLinkInv DEF LinkInv, LinkParts
<1>2. docs'[l] = docs[l] /\ (k # key[r] => docs'[k] = docs[k])
  BY <1>1, PatchMeets DEF LinkParts, IsSource
<1>3. /\ Found(r) /\ AtWork(r) /\ pc[r] = "patch" /\ op[r].name \in Savers /\ key' = key
      /\ ev[r] \in Docs /\ pc'[r] = (IF ev[r].kind = "LINKED" THEN "done" ELSE "links")
  BY <1>1, WriterHolds DEF Writes, Patch, LinkParts, Ways, locals, Goto, TypeOK
<1>4. OneAtATime => ~Retiming(l, k)
  BY <1>1, <1>3, WhoRetimes DEF Step
<1>5. CASE k # key[r]
  BY <1>2, <1>4, <1>5 DEF Agree
<1>6. CASE k = key[r]
  <2>1. ev[r].kind = "REGULAR" /\ docs[k] \in Docs
    BY <1>1, <1>3, <1>6 DEF Found, Alike, IsSource, TypeOK
  <2>2. CASE OneAtATime
    <3>1. pc'[r] = "links" /\ key'[r] = k
      BY <1>3, <1>6, <2>1
    <3>2. Retiming(l, k)'
      BY <3>1 DEF Retiming
    <3>3. OneAtATime'
      BY <2>2, SameCondition DEF Step
    <3>. QED
      BY <1>2, <3>2, <3>3 DEF Agree
  <2>3. CASE Untimed
    <3>. DEFINE x == docs[k].data
    <3>1. ev[r].data = Desired(r, x) /\ x \in Data
      BY <1>1, <1>3, <1>6, <2>1, DocFields DEF LinkParts, Meant, Intent, Unsaved
    <3>2. op[r].name = "set" => op[r].body.times = Undef
      BY <1>1, <1>3, <2>3 DEF NoTimes
    <3>3. docs'[k].data.times = PatchedField(x.times, ev[r].data.times)
      BY <1>6, PatchDoes
    <3>. HIDE DEF x
    <3>4. ev[r].data.times = x.times
      BY <1>3, <3>1, <3>2, DesiredTimes, Overlaid
    <3>5. docs'[k].data.times = x.times
      BY <3>1, <3>3, <3>4, FieldValues, PatchedValue
    <3>6. docs[l].extra.times = Undef => docs[l].data.times = docs[k].data.times
      BY <1>4 DEF Agree
    <3>. QED
      BY <1>2, <3>5, <3>6 DEF Agree, x
  <2>. QED
    BY <2>2, <2>3 DEF Apart
<1>. QED
  BY <1>5, <1>6

\* Links go on following their sources.
LEMMA LinksStay ==
    ASSUME LinkInv, Apart, NEW r \in Requests, Arrive(r) \/ Step(r) \/ Fail(r) \/ Skip(r) \/ Crash(r),
           NEW l \in Keys
    PROVE  Follows(l)' /\ Edited(l)'
<1>1. LinkParts /\ TypeOK /\ OneActive /\ Follows(l) /\ Edited(l)
  BY PartsOfLinkInv DEF LinkInv, LinkParts
<1>. SUFFICES ASSUME IsLink(l)' PROVE Follows(l)' /\ Edited(l)'
  BY DEF Follows, Edited
<1>2. CASE docs[l] = NoDoc
  BY <1>2, NewLinkFollows
<1>3. CASE docs[l] # NoDoc
  <2>1. IsLink(l) /\ docs[l].kind = "LINKED"
    BY <1>3, LinkBefore DEF IsLink
  <2>2. PICK k \in Keys : IsSource(k, l) /\ Agree(l, k)
    BY <1>1, <2>1 DEF Follows, Agree
  <2>3. IsSource(k, l)'
    BY <1>3, <2>2, SourceKept
  <2>4. Agree(l, k)' => Follows(l)'
    BY <2>3 DEF Follows, Agree
  <2>5. CASE ~Writes(r)
    BY <1>1, <1>3, <2>1, <2>2, <2>4, <2>5, QuietAgree, EditedAlike
  <2>6. CASE LinkPatch(r)
    BY <1>1, <1>3, <2>1, <2>2, <2>4, <2>6, LinkPatchAgree, EditedAlike
  <2>7. CASE Patch(r) /\ l # key[r]
    BY <1>1, <1>3, <2>1, <2>2, <2>4, <2>7, PatchAgree, EditedAlike
  <2>8. CASE Patch(r) /\ l = key[r]
    <3>1. Edited(l)' /\ (docs'[l].extra.times = Undef => docs'[l].data.times = docs'[k].data.times)
      BY <1>1, <1>3, <2>1, <2>2, <2>8, SavedLinkFollows DEF Agree
    <3>2. Agree(l, k)'
      BY <3>1 DEF Agree
    <3>. QED
      BY <2>4, <3>1, <3>2
  <2>9. CASE Remove(r)
    <3>1. docs'[l] = docs[l] /\ docs'[k] = docs[k]
      BY <2>3, <2>9 DEF Remove, IsLink, IsSource
    <3>2. OneAtATime => ~Retiming(l, k)
      BY <1>1, <2>9, WhoRetimes DEF Step, Remove
    <3>3. Agree(l, k)'
      BY <2>2, <3>1, <3>2 DEF Agree
    <3>. QED
      BY <1>1, <1>3, <2>4, <3>1, <3>3, EditedAlike
  <2>. QED
    BY <2>5, <2>6, <2>7, <2>8, <2>9 DEF Writes
<1>. QED
  BY <1>2, <1>3

\* All of it holds at the start,
LEMMA InitLinkInv ==
    ASSUME SeedsPlain, TimesGiven, SeedsFollow
    PROVE  Init => LinkInv
<1>. SUFFICES ASSUME Init PROVE LinkInv
  OBVIOUS
<1>1. \A r \in Requests : pc[r] = "idle"
  BY DEF Init
<1>2. DebriefInv
  BY <1>1, InitChangeInv DEF DebriefInv, Asked, Meant, AtWork, Active, RegularOnes, Debriefing, Items,
     Noted, Written
<1>3. OneActive /\ NoTimes
  BY <1>1 DEF OneActive, NoTimes, Active
<1>4. \A r \in Requests : HandsInv(r)
  BY <1>1 DEF HandsInv, Timed, Linking, AsAsked, AtWork, Active
<1>5. \A k \in Keys : docs[k] = IF k \in SeedKeys THEN Seeds[k] ELSE NoDoc
  BY DEF Init
<1>6. Bare
  BY <1>5 DEF Bare, TimesGiven, SeedsFollow
<1>7. ASSUME NEW l \in Keys PROVE Follows(l) /\ Edited(l)
  <2>. SUFFICES ASSUME IsLink(l) PROVE Follows(l) /\ Edited(l)
    BY DEF Follows, Edited
  <2>1. l \in SeedKeys /\ docs[l] = Seeds[l] /\ Seeds[l].kind = "LINKED"
    BY <1>5 DEF IsLink
  <2>2. PICK k \in SeedKeys :
          /\ Seeds[k].kind = "REGULAR" /\ Seeds[l].target = <<Seeds[k].acct, Seeds[k].id>>
          /\ Seeds[l].data.times = Seeds[k].data.times
    BY <2>1 DEF SeedsFollow
  <2>3. k \in Keys /\ docs[k] = Seeds[k] /\ Seeds[k] # NoDoc
    BY <1>5, ConstantsOK DEF Keys
  <2>4. IsSource(k, l)
    BY <2>1, <2>2, <2>3 DEF IsSource
  <2>5. Follows(l)
    BY <2>1, <2>2, <2>3, <2>4 DEF Follows
  <2>6. Edited(l)
    BY <2>1 DEF Edited, SeedsFollow
  <2>. QED
    BY <2>5, <2>6
<1>. QED
  BY <1>2, <1>3, <1>4, <1>6, <1>7 DEF LinkInv

\* and after every step.
LEMMA NextLinkInv ==
    ASSUME ChangesAlone, BodiesPlain, TimesGiven
    PROVE  LinkInv /\ [Next]_vars => LinkInv'
<1>. SUFFICES ASSUME LinkInv, [Next]_vars PROVE LinkInv'
  OBVIOUS
<1>1. DebriefInv'
  BY NextDebriefInv DEF LinkInv
<1>2. CASE UNCHANGED vars
  <2>1. OneActive' /\ NoTimes' /\ Bare'
    BY <1>2 DEF LinkInv, OneActive, NoTimes, Bare, OneAtATime, Untimed, Serial, Failing, Menu, Active, vars
  <2>2. \A l, k : (IsSource(k, l)' <=> IsSource(k, l)) /\ Shown(l, k)' = Shown(l, k)
    BY <1>2 DEF IsSource, Shown, vars
  <2>3. ASSUME NEW r \in Requests PROVE HandsInv(r)'
    <3>1. HandsInv(r)
      BY DEF LinkInv
    <3>2. Timed(r)' /\ Linking(r)' /\ AsAsked(r)'
      BY <1>2, <3>1 DEF HandsInv, Timed, Linking, AsAsked, AtWork, Active, OneAtATime, Serial, Failing, vars
    <3>3. AtWork(r)' => AtWork(r)
      BY <1>2 DEF AtWork, Active, vars
    <3>4. LinkIntent(r) => LinkIntent(r)'
      <4>1. key' = key /\ docs' = docs /\ op' = op /\ ev' = ev /\ pc' = pc
        BY <1>2 DEF vars
      <4>2. \A k : (IsSource(k, key[r])' <=> IsSource(k, key[r])) /\ Shown(key[r], k)' = Shown(key[r], k)
        BY <4>1 DEF IsSource, Shown
      <4>. QED
        BY <4>1, <4>2 DEF LinkIntent
    <3>5. Bringing(r) => Bringing(r)'
      BY <1>2 DEF Bringing, vars
    <3>. QED
      BY <3>1, <3>2, <3>3, <3>4, <3>5 DEF HandsInv
  <2>4. (Apart' <=> Apart) /\ (OneAtATime' <=> OneAtATime)
    BY <1>2 DEF Apart, OneAtATime, Untimed, Serial, Failing, Menu, vars
  <2>5. ASSUME NEW l \in Keys, Follows(l), Edited(l) PROVE Follows(l)' /\ Edited(l)'
    <3>1. (IsLink(l)' <=> IsLink(l)) /\ \A k : Retiming(l, k)' <=> Retiming(l, k)
      BY <1>2 DEF IsLink, SourceDeleted, Retiming, vars
    <3>2. \A r : Edits(r, l)' <=> Edits(r, l)
      BY <1>2 DEF Edits, vars
    <3>3. docs' = docs /\ op' = op
      BY <1>2 DEF vars
    <3>4. Follows(l)'
      BY <2>2, <2>4, <2>5, <3>1, <3>3 DEF Follows
    <3>5. Edited(l)'
      BY <2>5, <3>1, <3>2, <3>3 DEF Edited
    <3>. QED
      BY <3>4, <3>5
  <2>. QED
    BY <1>1, <2>1, <2>3, <2>4, <2>5 DEF LinkInv
<1>3. ASSUME NEW r \in Requests, Arrive(r) \/ Step(r) \/ Fail(r) \/ Skip(r) \/ Crash(r)
      PROVE  LinkInv'
  <2>1. TypeOK /\ OneActive /\ NoTimes
    BY PartsOfLinkInv DEF LinkInv, LinkParts
  <2>2. OneActive' /\ NoTimes' /\ Bare' /\ (Apart' <=> Apart)
    BY <1>3, <2>1, OneActiveStays, NoTimesStays, BareStays, SameCondition
  <2>3. \A s \in Requests : HandsInv(s)'
    BY <1>3, HandsStay
  <2>4. Apart => \A l \in Keys : Follows(l)' /\ Edited(l)'
    BY <1>3, LinksStay
  <2>. QED
    BY <1>1, <2>2, <2>3, <2>4 DEF LinkInv
<1>. QED
  BY <1>2, <1>3 DEF Next, Rest

\* Where requests come one at a time and nothing fails, a link whose times were never
\* edited has, between requests, the times of its source: a save of the source brings
\* every link to its times before the next request, and a save of the link, which takes
\* over what the source says at that moment, leaves them so.
THEOREM LinksFollow ==
    ASSUME ChangesAlone, SeedsPlain, BodiesPlain, TimesGiven, SeedsFollow
    PROVE  Spec => []LinksFollowSource
<1>1. LinkInv => LinksFollowSource
  <2>. SUFFICES ASSUME LinkInv, Orderly, Quiet, NEW l \in Stored, NEW k \in Stored,
                       docs[l].kind = "LINKED", docs[l].extra.times = Undef,
                       docs[l].target = <<docs[k].acct, docs[k].id>>, ~SourceDeleted(l)
                PROVE  docs[l].data.times = docs[k].data.times
    BY DEF LinksFollowSource
  <2>1. Apart /\ OneAtATime
    BY DEF Apart, OneAtATime, Orderly
  <2>2. l \in Keys /\ k \in Keys /\ IsLink(l) /\ docs[k] # NoDoc
    BY DEF Stored, IsLink
  <2>3. PICK j \in Keys :
          IsSource(j, l) /\ (docs[l].data.times = docs[j].data.times \/ Retiming(l, j))
    BY <2>1, <2>2 DEF LinkInv, Follows
  <2>4. j = k
    BY <2>2, <2>3, PartsOfLinkInv DEF LinkParts, UniqueRefs, Stored, IsSource
  <2>5. ~Retiming(l, j)
    BY DEF Retiming, Quiet, Active, Ended, Answered
  <2>. QED
    BY <2>3, <2>4, <2>5
<1>. QED
  BY <1>1, InitLinkInv, NextLinkInv, PTL DEF Spec

\* Under each condition either requests come one at a time and links are written back,
\* or no links are made and no times edited.
EachApart ==
    \A i \in DOMAIN Conditions :
        \/ /\ \E g \in Conditions[i].serial : OpNames \subseteq g
           /\ {"links", "linksAgain", "linkPatch"} \intersect Conditions[i].failing = {}
        \/ \A o \in Conditions[i].menu : o.name # "link" /\ (o.name = "set" => o.body.times = Undef)

\* A link overrides only what somebody edited on the link: saving a link records every
\* difference to its source, and the only differences are those that were asked for, now
\* or before, as the times that the link keeps for itself follow its source.
THEOREM OverridesEdited ==
    ASSUME ChangesAlone, SeedsPlain, BodiesPlain, TimesGiven, SeedsFollow, EachApart
    PROVE  Spec => []OverridesAreEdits
<1>1. LinkInv => OverridesAreEdits
  <2>. SUFFICES ASSUME LinkInv, NEW l \in Stored, docs[l].kind = "LINKED", ~SourceDeleted(l)
                PROVE  LET Changed(P(_)) == \E r \in Requests :
                            /\ pc[r] # "idle" /\ op[r].name = "set"
                            /\ op[r].acct = docs[l].acct /\ op[r].id = docs[l].id
                            /\ P(op[r].body)
                       IN /\ docs[l].extra.status # Undef => Changed(LAMBDA b : b.status # Undef)
                          /\ docs[l].extra.times # Undef => Changed(LAMBDA b : b.times # Undef)
                          /\ docs[l].extra.pocs # Undef => Changed(LAMBDA b : b.pocs # Undef)
                          /\ docs[l].extra.debrief = Undef
    BY DEF OverridesAreEdits
  <2>1. Apart
    BY PartsOfLinkInv DEF LinkParts, TypeOK, EachApart, Apart, OneAtATime, Untimed, Serial, Failing, Menu
  <2>2. Edited(l) /\ IsLink(l)
    BY <2>1 DEF LinkInv, Stored, IsLink
  <2>. QED
    BY <2>2 DEF Edited, Edits
<1>. QED
  BY <1>1, InitLinkInv, NextLinkInv, PTL DEF Spec

-----------------------------------------------------------------------------
(* Calendars.  Where requests come one at a time and nothing fails, only the *)
(* active request has changed a calendar and not yet stored the id that it   *)
(* got for the entry.                                                        *)

\* Where requests come one at a time, a change of an event has no calendar ids in its
\* body, and no link is made in the event's own account.
IdsLeft ==
    \A i \in DOMAIN Conditions : OpNames \in Conditions[i].serial =>
        \A o \in Conditions[i].menu :
            /\ o.name = "set" => o.body.cal = Undef
            /\ o.name = "link" => o.to # o.acct

OwnEntry(x, k) == x \in Entries /\ x.for = k
NullOr(x, k) == x \in {NoEntry, Cleared} \/ OwnEntry(x, k)

\* Links hold ids of entries that were made for them, events ids of entries on the
\* calendar of their account.
LinkIds(d, k) == NullOr(d.data.cal, k) /\ (d.extra.cal = Undef \/ NullOr(d.extra.cal, k))
EventIds(d, k) == d.data.cal \in Entries => d.data.cal.for = k /\ d.data.cal.on = d.acct
IdsOf(d, k) == (d.kind = "LINKED" => LinkIds(d, k)) /\ (d.kind = "REGULAR" => EventIds(d, k))

\* The calendars show the first events.
SeedsShow ==
    /\ \A e \in SeedEntries : e.for \in SeedKeys
    /\ \A k \in SeedKeys :
          /\ IdsOf(Seeds[k], k)
          /\ Seeds[k].kind = "REGULAR" =>
                {e \in SeedEntries : e.for = k} = IF Seeds[k].data.status = "DRAFT" THEN {}
                                                  ELSE {Seeds[k].data.cal}

OwnIds == \A k \in Keys : docs[k] # NoDoc => IdsOf(docs[k], k)
Showing(k, status, c) == EntriesFor(k) = IF status = "DRAFT" THEN {} ELSE {c}

\* A request that has been at the calendar, and not yet at the document.
Unstored(r) ==
    op[r].name \in Savers /\ ev[r].kind = "REGULAR" /\ pc[r] \in {"notify", "mail", "patch"}
Removing(r) == op[r].name = "delete" /\ pc[r] \in {"audit", "remove"}
Upset(k) == \E r \in Requests : key[r] = k /\ (Unstored(r) \/ Removing(r))

Shows ==
    \A k \in Keys : docs[k] # NoDoc /\ docs[k].kind = "REGULAR" /\ ~Upset(k) =>
        Showing(k, docs[k].data.status, docs[k].data.cal)

\* Only links leave entries behind.
Vacant ==
    \A r \in Requests :
        docs[r] = NoDoc /\ pc[r] # "insert" /\ (pc[r] = "idle" \/ op[r].name # "link")
        => EntriesFor(r) = {}
LinksOnly == \A r \in Requests : docs[r] # NoDoc /\ docs[r].kind = "LINKED" => op[r].name = "link"

Heeds(r) == pc[r] # "idle" =>
    /\ op[r].name = "set" => op[r].body.cal = Undef
    /\ op[r].name = "link" => op[r].to # op[r].acct

\* What the creation of an event or a link has in hand.
Creating(r) ==
    /\ pc[r] = "read" => op[r].name # "add"
    /\ pc[r] \in {"newID", "calendar"} /\ op[r].name \in {"add", "copy"} => ev[r].data.cal = NoEntry
    /\ pc[r] \in {"newID", "calendar"} /\ op[r].name = "link" =>
          (ev[r].data.cal \in Entries => ev[r].data.cal.on = op[r].acct)
    /\ pc[r] = "calendar" /\ op[r].name \in Creators => key[r] = r
    /\ pc[r] = "insert" =>
          /\ cal[r] = NoEntry \/ (OwnEntry(cal[r], r) /\ cal[r].on = Home(r))
          /\ op[r].name # "link" => Showing(r, ev[r].data.status, cal[r])

\* What a change has in hand.
Changing(r) ==
    /\ pc[r] # "read" => ev[r].acct = op[r].acct
    /\ pc[r] \in {"notify", "mail"} => ev[r].kind # "LINKED"
    /\ pc[r] = "resolve" => LinkIds(ev[r], key[r])
    /\ pc[r] \in {"reread", "calendar", "source", "patch"} /\ ev[r].kind = "LINKED" =>
          NullOr(ev[r].data.cal, key[r])
    /\ pc[r] \in {"source", "patch"} /\ ev[r].kind = "LINKED" => NullOr(cal[r], key[r])
    /\ pc[r] = "patch" /\ ev[r].kind = "LINKED" =>
          ev[r].extra.cal = Undef \/ NullOr(ev[r].extra.cal, key[r])
    /\ Unstored(r) =>
          /\ cal[r] = NoEntry \/ (OwnEntry(cal[r], key[r]) /\ cal[r].on = ev[r].acct)
          /\ Showing(key[r], ev[r].data.status, cal[r])
    /\ Removing(r) /\ ev[r].kind = "REGULAR" => EntriesFor(key[r]) = {}
    /\ pc[r] \in {"linkCalendar", "linkPatch"} => \A t \in todo[r] : LinkIds(t.doc, t.for)

Books(r) == Active(r) => Creating(r) /\ (op[r].name \in Changes => Changing(r))

CalInv ==
    /\ DebriefInv /\ OneActive
    /\ Orderly =>
          /\ OwnIds /\ Shows /\ Vacant /\ LinksOnly
          /\ \A r \in Requests : Heeds(r) /\ Books(r)

LEMMA PartsOfCalInv == CalInv => LinkParts
BY DEF CalInv, LinkParts, DebriefInv, ChangeInv, RefInv, IInv

\* Null ids, empty objects and entries are different values, and none is Undef.
LEMMA IdValues ==
    /\ Undef \notin {NoEntry, Cleared} /\ NoEntry # Cleared
    /\ Undef \notin Entries /\ NoEntry \notin Entries /\ Cleared \notin Entries
BY NullIsNoValue, ClearedIsNoValue, NullIsNoEntry

\* One request takes all the steps, and nothing fails.
LEMMA OrderlyStep ==
    ASSUME TypeOK, OneActive, Orderly, NEW r \in Requests,
           Arrive(r) \/ Step(r) \/ Fail(r) \/ Skip(r) \/ Crash(r)
    PROVE  /\ Orderly' /\ Failing = {} /\ (Arrive(r) \/ Step(r))
           /\ \A s \in Requests \ {r} :
                 /\ ~Active(s) /\ ~Active(s)' /\ op'[s] = op[s] /\ key'[s] = key[s]
                 /\ pc'[s] = pc[s] \/ pc'[s] = "lost"
<1>1. given' = given
  BY SameCondition
<1>2. Orderly' /\ Failing = {} /\ OneAtATime
  BY <1>1 DEF Orderly, Serial, Failing, OneAtATime
<1>3. ~Fail(r) /\ ~Skip(r) /\ ~Crash(r)
  BY <1>2 DEF Fail, Skip, Crash
<1>4. ASSUME NEW s \in Requests \ {r}
      PROVE  /\ ~Active(s) /\ ~Active(s)' /\ op'[s] = op[s] /\ key'[s] = key[s]
             /\ pc'[s] = pc[s] \/ pc'[s] = "lost"
  <2>1. ~Active(s)
    BY <1>2, OnlyOne
  <2>2. /\ op'[s] = op[s] /\ key'[s] = key[s] /\ (pc'[s] = pc[s] \/ pc'[s] = "lost")
    BY Elsewhere
  <2>. QED
    BY <2>1, <2>2 DEF Active, Ended
<1>. QED
  BY <1>2, <1>3, <1>4

\* Whether an event is being changed depends on the request that is active.
LEMMA UpsetByOne ==
    ASSUME NEW r \in Requests, \A s \in Requests \ {r} : ~Active(s), NEW k
    PROVE  Upset(k) <=> key[r] = k /\ (Unstored(r) \/ Removing(r))
BY DEF Upset, Unstored, Removing, Active, Ended, Answered

\* What is asked for is on the menu.
LEMMA HeedsStays ==
    ASSUME IdsLeft, TypeOK, OneActive, Orderly, NEW r \in Requests,
           Arrive(r) \/ Step(r) \/ Fail(r) \/ Skip(r) \/ Crash(r),
           \A s \in Requests : Heeds(s)
    PROVE  \A s \in Requests : Heeds(s)'
<1>. SUFFICES ASSUME NEW s \in Requests, pc'[s] # "idle"
              PROVE  /\ op'[s].name = "set" => op'[s].body.cal = Undef
                     /\ op'[s].name = "link" => op'[s].to # op'[s].acct
  BY DEF Heeds
<1>1. CASE pc[s] # "idle"
  BY <1>1, AskedOn DEF Heeds
<1>2. CASE pc[s] = "idle" /\ s = r /\ Arrive(r)
  <2>1. PICK o \in Menu : op' = [op EXCEPT ![r] = o]
    BY <1>2 DEF Arrive
  <2>2. op'[s] = o
    BY <1>2, <2>1 DEF TypeOK
  <2>. QED
    BY <2>1, <2>2 DEF IdsLeft, Menu, Orderly, Serial, TypeOK
<1>3. CASE pc[s] = "idle" /\ ~(s = r /\ Arrive(r))
  <2>1. Arrive(r) \/ Step(r)
    BY OrderlyStep
  <2>2. s # r
    BY <1>3, <2>1, StepActive DEF Active
  <2>3. pc'[s] = pc[s]
    BY ZenonT(60), <1>3, <2>1, <2>2 DEF Arrive, Step, Read, Resolve, NewID, NotFound, CalendarCalls, Insert, Audit,
       Remove, Reread, Source, Notify, Mail, Patch, Links, LinkCalendar, LinkPatch, Goto, TypeOK
  <2>. QED
    BY <1>3, <2>3
<1>. QED
  BY <1>1, <1>2, <1>3

\* Steps that touch neither documents nor calendars.
LEMMA StillShown ==
    ASSUME CalInv, Orderly, NEW r \in Requests, Arrive(r) \/ Step(r), docs' = docs, entries' = entries,
           pc[r] # "insert", key[r] = key'[r] \/ (~Unstored(r) /\ ~Removing(r)),
           Unstored(r) \/ Removing(r) => Unstored(r)' \/ Removing(r)',
           pc[r] = "idle" \/ op'[r] = op[r]
    PROVE  OwnIds' /\ Shows' /\ Vacant' /\ LinksOnly'
<1>1. LinkParts /\ TypeOK /\ OneActive /\ OwnIds /\ Shows /\ Vacant /\ LinksOnly
  BY PartsOfCalInv DEF CalInv, LinkParts
<1>2. \A s \in Requests \ {r} :
         /\ ~Active(s) /\ ~Active(s)' /\ op'[s] = op[s] /\ (pc'[s] = pc[s] \/ pc'[s] = "lost")
  BY <1>1, OrderlyStep
<1>3. \A k : EntriesFor(k)' = EntriesFor(k)
  BY DEF EntriesFor
<1>4. ASSUME NEW k PROVE Upset(k) => Upset(k)'
  BY <1>2, <1>4, UpsetByOne DEF Upset
<1>5. Shows'
  BY <1>1, <1>3, <1>4 DEF Shows, Showing
<1>6. OwnIds'
  BY <1>1 DEF OwnIds
<1>7. Vacant'
  <2>. SUFFICES ASSUME NEW s \in Requests, docs[s] = NoDoc, pc'[s] # "insert",
                       pc'[s] = "idle" \/ op'[s].name # "link"
                PROVE  EntriesFor(s) = {}
    BY <1>3 DEF Vacant
  <2>1. CASE s = r
    <3>1. pc'[r] = "idle" => pc[r] = "idle"
      BY <1>1, AskedOn
    <3>. QED
      BY <1>1, <2>1, <3>1 DEF Vacant
  <2>2. CASE s # r
    <3>1. pc[s] # "insert"
      BY <1>2, <2>2 DEF Active, Ended, Answered
    <3>. QED
      BY <1>1, <1>2, <2>2, <3>1 DEF Vacant
  <2>. QED
    BY <2>1, <2>2
<1>8. LinksOnly'
  <2>1. docs[r] # NoDoc => pc[r] # "idle"
    BY <1>1 DEF LinkParts, Paths
  <2>. QED
    BY <1>1, <1>2, <2>1 DEF LinksOnly
<1>. QED
  BY <1>5, <1>6, <1>7, <1>8

\* A request that is done holds nothing.
LEMMA OverBooks ==
    ASSUME NEW r \in Requests, pc'[r] \in Ended
    PROVE  Books(r)'
BY DEF Books, Active

\* The arrival.
LEMMA ArriveBooks ==
    ASSUME TypeOK, NEW r \in Requests, Arrive(r)
    PROVE  Books(r)'
<1>1. PICK o \in Menu :
          /\ op' = [op EXCEPT ![r] = o]
          /\ Goto(r, IF o.name = "add" THEN "newID" ELSE "read")
          /\ ev' = [ev EXCEPT ![r] =
                [acct |-> o.acct, id |-> o.id, kind |-> "REGULAR",
                 target |-> <<o.acct, o.id>>,
                 data |-> [o.body EXCEPT !.debrief = {}, !.cal = NoEntry],
                 extra |-> Nothing]]
  BY DEF Arrive
<1>2. o \in Ops /\ o.body \in Data
  BY <1>1, ConstantsOK DEF Menu, TypeOK, Setting, Ops
<1>3. /\ op'[r] = o /\ pc'[r] = (IF o.name = "add" THEN "newID" ELSE "read")
      /\ ev'[r].data.cal = NoEntry
  BY <1>1, <1>2 DEF TypeOK, Goto, Data
<1>. QED
  BY <1>3, ChangeNames DEF Books, Creating, Changing, Unstored, Removing, Changes

\* What the handlers make of the calendar ids of an event.
LEMMA DesiredIds ==
    ASSUME NEW r \in Requests, NEW x \in Data
    PROVE  /\ op[r].name = "set" => Desired(r, x) = Overlay(x, op[r].body)
           /\ op[r].name = "copy" => Desired(r, x).cal = NoEntry
           /\ op[r].name \in Changes \ {"set"} => Desired(r, x).cal = x.cal
           /\ op[r].name \in {"add", "link", "delete"} => Desired(r, x) = x
<1>1. op[r].name = "copy" => Desired(r, x).cal = NoEntry
  BY DEF Desired, Overlay, FieldWise
<1>2. op[r].name \in Changes \ {"set"} => Desired(r, x).cal = x.cal
  BY DEF Desired, Changes, Savers, Data
<1>. QED
  BY <1>1, <1>2 DEF Desired

\* Spreading keeps the ids that are there.
LEMMA OverlaidIds ==
    ASSUME NEW a, NEW b
    PROVE  Overlay(a, b).cal = IF b.cal = Undef THEN a.cal ELSE b.cal
BY DEF Overlay, FieldWise, Over

\* The first read.
LEMMA ReadBooks ==
    ASSUME CalInv, Orderly, NEW r \in Requests, Read(r)
    PROVE  Books(r)'
<1>1. LinkParts /\ TypeOK /\ OwnIds /\ Heeds(r) /\ Books(r) /\ pc[r] = "read" /\ docs' = docs /\ op' = op
  BY PartsOfCalInv DEF CalInv, LinkParts, Read, NotFound, OnlyLocal, stores, locals
<1>2. Active(r) /\ op[r].name # "add"
  BY <1>1 DEF Books, Creating, Active, Ended, Answered
<1>3. CASE NotFound(r)
  <2>1. pc'[r] = "failed"
    BY <1>1, <1>3 DEF NotFound, Goto, TypeOK
  <2>. QED
    BY <2>1, OverBooks DEF Ended, Answered
<1>4. CASE ~NotFound(r)
  <2>1. PICK k \in Keys :
             /\ Matching(op[r].acct, op[r].id) = {k}
             /\ docs[k].kind = "REGULAR" \/ op[r].name \in {"set", "copy", "delete"}
             /\ key' = [key EXCEPT ![r] = k]
             /\ IF docs[k].kind = "LINKED"
                THEN /\ ev' = [ev EXCEPT ![r] = docs[k]]
                     /\ Goto(r, "resolve")
                ELSE /\ ev' = [ev EXCEPT ![r] =
                                  [docs[k] EXCEPT !.data = Desired(r, @)]]
                     /\ Goto(r, AfterRead(r))
    BY <1>4 DEF Read
  <2>2. docs[k] # NoDoc /\ docs[k].acct = op[r].acct
    BY <2>1, MatchOne
  <2>3. docs[k] \in Docs /\ key'[r] = k /\ IdsOf(docs[k], k)
    BY <1>1, <2>1, <2>2 DEF TypeOK, OwnIds
  <2>4. docs[k].data \in Data
    BY <2>3, DocFields
  <2>5. CASE docs[k].kind = "LINKED"
    <3>1. ev'[r] = docs[k] /\ pc'[r] = "resolve"
      BY <1>1, <2>1, <2>5 DEF TypeOK, Goto
    <3>. QED
      BY <1>1, <2>2, <2>3, <2>5, <3>1 DEF Books, Creating, Changing, IdsOf, Unstored, Removing
  <2>6. CASE docs[k].kind # "LINKED"
    <3>1. /\ ev'[r].data = Desired(r, docs[k].data) /\ ev'[r].kind = "REGULAR"
          /\ ev'[r].acct = docs[k].acct
      BY <1>1, <2>1, <2>3, <2>6 DEF TypeOK, Docs
    <3>2. pc'[r] = AfterRead(r)
      BY <1>1, <2>1, <2>6 DEF TypeOK, Goto
    <3>3. \/ pc'[r] \in {"reread", "calendar"} /\ op[r].name \in Changes
          \/ pc'[r] = "newID" /\ op[r].name \in {"copy", "link"}
      BY <1>1, <1>2, <3>2 DEF AfterRead, Changes, LinkParts, TypeOK, Ops, OpNames, Creators
    <3>4. op[r].name = "link" => ev'[r].data = docs[k].data
      BY <2>4, <3>1, DesiredIds
    <3>5. op[r].name = "link" => (ev'[r].data.cal \in Entries => ev'[r].data.cal.on = op[r].acct)
      BY <2>2, <2>3, <2>6, <3>1, <3>4 DEF IdsOf, EventIds, Docs
    <3>6. op[r].name = "copy" => ev'[r].data.cal = NoEntry
      BY <2>4, <3>1, DesiredIds
    <3>7. op[r].name \in Changes => op[r].name \notin Creators
      BY ChangeNames DEF Changes
    <3>. QED
      BY <1>1, <2>2, <3>1, <3>3, <3>5, <3>6, <3>7 DEF Books, Creating, Changing, Unstored, Removing, Creators
  <2>. QED
    BY <2>5, <2>6
<1>. QED
  BY <1>3, <1>4

\* The read of a link's source: the link keeps its own ids.
LEMMA ResolveBooks ==
    ASSUME CalInv, Orderly, NEW r \in Requests, Resolve(r)
    PROVE  Books(r)'
<1>1. /\ LinkParts /\ TypeOK /\ Heeds(r) /\ Books(r) /\ docs' = docs /\ op' = op /\ pc[r] = "resolve"
      /\ ev[r] \in Docs /\ ev[r].kind = "LINKED" /\ op[r].name \in {"set", "copy", "delete"}
      /\ key' = key
  BY PartsOfCalInv DEF CalInv, LinkParts, Resolve, NotFound, OnlyLocal, stores, locals, TypeOK, Ways, Control
<1>2. CASE NotFound(r)
  <2>1. pc'[r] = "failed"
    BY <1>1, <1>2 DEF NotFound, Goto, TypeOK
  <2>. QED
    BY <2>1, OverBooks DEF Ended, Answered
<1>3. CASE ~NotFound(r)
  <2>1. PICK k \in Keys :
             /\ Matching(ev[r].target[1], ev[r].target[2]) = {k}
             /\ ev' = [ev EXCEPT ![r] = InHand(r, docs[k])]
             /\ Goto(r, AfterRead(r))
    BY <1>3 DEF Resolve
  <2>2. docs[k] # NoDoc
    BY <2>1, MatchOne
  <2>3. docs[k] \in Docs
    BY <1>1, <2>2 DEF TypeOK
  <2>4. docs[k].data \in Data /\ ev[r].data \in Data /\ ev[r].extra \in Data
    BY <1>1, <2>3, DocFields
  <2>. DEFINE x == Overlay(Overlay(docs[k].data, ev[r].data), ev[r].extra)
  <2>5. x \in Data
    BY <2>4, OverlayTyped
  <2>6. /\ ev'[r].acct = ev[r].acct
        /\ ev'[r].kind = (IF op[r].name = "copy" THEN "REGULAR" ELSE "LINKED")
        /\ ev'[r].data = Desired(r, x)
    BY <1>1, <2>1 DEF TypeOK, InHand, Resolved, Docs
  <2>7. pc'[r] = (IF op[r].name = "set" THEN "reread" ELSE IF op[r].name = "delete" THEN "calendar" ELSE "newID")
    BY <1>1, <2>1 DEF TypeOK, Goto, AfterRead, Savers
  <2>8. x.cal = IF ev[r].extra.cal # Undef THEN ev[r].extra.cal
                ELSE IF ev[r].data.cal # Undef THEN ev[r].data.cal ELSE docs[k].data.cal
    BY OverlaidIds
  <2>. HIDE DEF x
  <2>9. CASE op[r].name = "copy"
    <3>1. ev'[r].data.cal = NoEntry
      BY <2>5, <2>6, <2>9, DesiredIds
    <3>. QED
      BY <1>1, <2>6, <2>7, <2>9, <3>1, ChangeNames DEF Books, Creating, Changes, Savers
  <2>10. CASE op[r].name # "copy"
    <3>1. Active(r) /\ op[r].name \in Changes
      BY <1>1, <2>10 DEF Active, Ended, Answered, Changes, Savers
    <3>2. LinkIds(ev[r], key[r]) /\ ev[r].acct = op[r].acct
      BY <1>1, <3>1 DEF Books, Changing
    <3>3. NullOr(x.cal, key[r])
      BY <2>8, <3>2, IdValues DEF LinkIds, NullOr, OwnEntry
    <3>4. ev'[r].data.cal = x.cal
      <4>1. op[r].name = "set" => op[r].body.cal = Undef
        BY <1>1 DEF Heeds
      <4>. QED
        BY <2>5, <2>6, <3>1, <4>1, DesiredIds, OverlaidIds
    <3>5. NullOr(ev'[r].data.cal, key[r])
      BY <3>3, <3>4
    <3>6. Changing(r)'
      BY <1>1, <2>6, <2>7, <2>10, <3>2, <3>5 DEF Changing, Unstored, Removing, NullOr, OwnEntry
    <3>7. Creating(r)'
      BY <1>1, <2>7, <2>10, ChangeNames DEF Creating, Creators
    <3>. QED
      BY <3>6, <3>7 DEF Books
  <2>. QED
    BY <2>9, <2>10
<1>. QED
  BY <1>2, <1>3

\* The id of a creation.
LEMMA NewIDBooks ==
    ASSUME CalInv, Orderly, NEW r \in Requests, NewID(r)
    PROVE  Books(r)'
<1>1. /\ TypeOK /\ Books(r) /\ op' = op /\ ev' = ev /\ pc[r] = "newID" /\ pc'[r] = "calendar" /\ key'[r] = r
      /\ op[r].name \in Creators
  BY PartsOfCalInv DEF CalInv, LinkParts, NewID, Ways, TypeOK, Goto
<1>2. Active(r) /\ op[r].name \notin Changes
  BY <1>1, ChangeNames DEF Active, Ended, Answered, Changes
<1>. QED
  BY <1>1, <1>2 DEF Books, Creating

\* The second read, and that of a saved link's source.
LEMMA RereadBooks ==
    ASSUME CalInv, Orderly, NEW r \in Requests, Reread(r)
    PROVE  Books(r)' /\ (pc'[r] \notin Ended => key' = key)
<1>1. /\ LinkParts /\ TypeOK /\ Books(r) /\ docs' = docs /\ op' = op /\ pc[r] = "reread" /\ AtWork(r)
      /\ ev' = ev /\ op[r].name \in Savers
  BY PartsOfCalInv DEF CalInv, LinkParts, Reread, NotFound, OnlyLocal, stores, locals, Paths, AtWork,
     Active, Ended, Answered, Changes
<1>2. CASE NotFound(r)
  <2>1. pc'[r] = "failed"
    BY <1>1, <1>2 DEF NotFound, Goto, TypeOK
  <2>. QED
    BY <2>1, OverBooks DEF Ended, Answered
<1>3. CASE ~NotFound(r)
  <2>1. PICK k \in Keys :
             /\ Matching(ev[r].acct, ev[r].id) = {k}
             /\ key' = [key EXCEPT ![r] = k]
             /\ Goto(r, "calendar")
    BY <1>3 DEF Reread
  <2>2. Found(r) /\ key[r] \in Keys
    BY <1>1 DEF LinkParts, Gripped, Grip, TypeOK
  <2>3. key[r] = k
    BY <2>1, <2>2, MatchOne DEF Found, Alike
  <2>4. key' = key /\ pc'[r] = "calendar"
    BY <1>1, <2>1, <2>3 DEF TypeOK, Goto
  <2>5. Changing(r)
    BY <1>1 DEF Books, AtWork
  <2>6. Changing(r)'
    BY <1>1, <2>4, <2>5 DEF Changing, Unstored, Removing, NullOr, OwnEntry
  <2>7. Creating(r)'
    BY <1>1, <2>4, ChangeNames DEF Creating, Savers, Creators
  <2>. QED
    BY <2>4, <2>6, <2>7 DEF Books
<1>. QED
  BY <1>2, <1>3

\* What a saved link overrides is an id of its own.
LEMMA SourceBooks ==
    ASSUME CalInv, Orderly, NEW r \in Requests, Source(r)
    PROVE  Books(r)'
<1>1. /\ LinkParts /\ TypeOK /\ Books(r) /\ op' = op /\ pc[r] = "source" /\ key' = key /\ cal' = cal
      /\ op[r].name \in Savers /\ AtWork(r) /\ ev[r].kind = "LINKED" /\ ev[r] \in Docs
  BY PartsOfCalInv DEF CalInv, LinkParts, Source, NotFound, OnlyLocal, stores, locals, Ways, AtWork,
     Active, Ended, Answered, Changes, TypeOK
<1>2. CASE NotFound(r)
  <2>1. pc'[r] = "failed"
    BY <1>1, <1>2 DEF NotFound, Goto, TypeOK
  <2>. QED
    BY <2>1, OverBooks DEF Ended, Answered
<1>3. CASE ~NotFound(r)
  <2>1. PICK j \in Keys :
             /\ ev' = [ev EXCEPT ![r].extra = Differences(docs[j].data, ev[r].data)]
             /\ Goto(r, "patch")
    BY <1>3 DEF Source
  <2>2. /\ ev'[r].acct = ev[r].acct /\ ev'[r].kind = ev[r].kind /\ ev'[r].data = ev[r].data
        /\ ev'[r].extra = Differences(docs[j].data, ev[r].data) /\ pc'[r] = "patch"
    BY <1>1, <2>1 DEF TypeOK, Docs, Goto
  <2>3. ev'[r].extra.cal \in {Undef, ev[r].data.cal}
    BY <2>2 DEF Differences, FieldWise, Different
  <2>4. /\ NullOr(ev[r].data.cal, key[r]) /\ NullOr(cal[r], key[r]) /\ ev[r].acct = op[r].acct
    BY <1>1 DEF Books, Changing, AtWork
  <2>5. Changing(r)'
    BY <1>1, <2>2, <2>3, <2>4 DEF Changing, Unstored, Removing, NullOr, OwnEntry
  <2>6. Creating(r)'
    BY <1>1, <2>2 DEF Creating
  <2>. QED
    BY <2>5, <2>6 DEF Books
<1>. QED
  BY <1>2, <1>3

\* Calls that touch neither documents nor calendars.
LEMMA TapBooks ==
    ASSUME CalInv, Orderly, NEW r \in Requests, Notify(r) \/ Mail(r) \/ Audit(r) \/ Links(r)
    PROVE  /\ Books(r)' /\ op' = op /\ key' = key /\ docs' = docs /\ entries' = entries
           /\ Unstored(r) \/ Removing(r) => Unstored(r)' \/ Removing(r)'
<1>1. /\ LinkParts /\ TypeOK /\ OwnIds /\ Books(r) /\ op' = op /\ ev' = ev /\ key' = key /\ cal' = cal
      /\ docs' = docs /\ entries' = entries
  BY PartsOfCalInv DEF CalInv, LinkParts, Notify, Mail, Audit, Links, locals, OnlyLocal, stores
<1>2. /\ pc[r] \in {"notify", "mail", "audit", "links", "linksAgain"} /\ pc'[r] = AfterTap(r)
      /\ pc[r] = "audit" => Audit(r)
  BY <1>1 DEF Notify, Mail, Audit, Links, Goto, TypeOK
<1>3. /\ pc[r] = "notify" => pc'[r] = "mail"
      /\ pc[r] = "mail" => pc'[r] = "patch"
      /\ pc[r] = "links" => pc'[r] = "linkCalendar"
      /\ pc[r] = "linksAgain" => pc'[r] = "linkPatch"
      /\ pc[r] = "audit" => pc'[r] = (IF op[r].name = "delete" THEN "remove" ELSE "done")
  BY <1>2 DEF AfterTap
<1>4. \A k : EntriesFor(k)' = EntriesFor(k)
  BY <1>1 DEF EntriesFor
<1>5. Active(r)
  BY <1>2 DEF Active, Ended, Answered
<1>6. Unstored(r) \/ Removing(r) => Unstored(r)' \/ Removing(r)'
  BY <1>1, <1>2, <1>3 DEF Unstored, Removing
<1>7. Creating(r)'
  BY <1>1, <1>2, <1>3 DEF Creating
<1>8. op[r].name \in Changes => Changing(r)'
  <2>. SUFFICES ASSUME op[r].name \in Changes PROVE Changing(r)'
    OBVIOUS
  <2>1. Changing(r)
    BY <1>1, <1>5 DEF Books
  <2>2. Unstored(r)' => Unstored(r)
    BY <1>1, <1>2, <1>3 DEF Unstored
  <2>3. Unstored(r)' =>
          /\ cal'[r] = NoEntry \/ (OwnEntry(cal'[r], key'[r]) /\ cal'[r].on = ev'[r].acct)
          /\ Showing(key[r], ev[r].data.status, cal[r])'
    BY <1>1, <1>4, <2>1, <2>2 DEF Changing, Showing
  <2>4. Removing(r)' /\ ev'[r].kind = "REGULAR" => EntriesFor(key[r])' = {}
    BY <1>1, <1>2, <1>3, <1>4, <2>1 DEF Changing, Removing
  <2>5. ASSUME pc'[r] \in {"linkCalendar", "linkPatch"}, NEW t \in todo'[r] PROVE LinkIds(t.doc, t.for)
    <3>1. todo'[r] = {[doc |-> docs[k], for |-> k] : k \in LinksTo(ev[r].acct, ev[r].id)}
      BY <1>1, <1>2, <1>3, <2>5 DEF Links, TypeOK, Notify, Mail, Audit
    <3>2. PICK k \in LinksTo(ev[r].acct, ev[r].id) : t = [doc |-> docs[k], for |-> k]
      BY <2>5, <3>1
    <3>. QED
      BY <1>1, <3>2 DEF LinksTo, Stored, OwnIds, IdsOf
  <2>6. pc'[r] # "read" => ev'[r].acct = op'[r].acct
    BY <1>1, <1>2, <2>1 DEF Changing
  <2>7. pc'[r] \in {"mail", "patch"} => ev[r].kind # "LINKED"
    BY <1>1, <1>2, <1>3, <1>5, <2>1 DEF Changing
  <2>. QED
    BY <1>1, <1>2, <1>3, <2>3, <2>4, <2>5, <2>6, <2>7 DEF Changing, LinkParts, TypeOK
<1>. QED
  BY <1>1, <1>6, <1>7, <1>8 DEF Books

\* Where nothing fails the old entry is gone after the calls.
LEMMA WithoutOne ==
    ASSUME NEW c, NEW x, Failing = {}, NEW l \in Without(c, x, "calendar" \in Failing)
    PROVE  l = {e \in entries : ~(e = x /\ e.on = c)}
BY DEF Without

\* The calls to the calendar: of a creation,
LEMMA CreationCalls ==
    ASSUME CalInv, Orderly, NEW r \in Requests, CalendarCalls(r), op[r].name \in Creators
    PROVE  /\ \A e : e \in entries' <=> e \in entries \/ (e = cal'[r] /\ cal'[r] # NoEntry)
           /\ cal'[r] = NoEntry \/ (OwnEntry(cal'[r], r) /\ cal'[r].on = Home(r))
           /\ cal'[r] = NoEntry <=> ev[r].data.status = "DRAFT"
           /\ pc'[r] = "insert"
<1>1. /\ LinkParts /\ TypeOK /\ Heeds(r) /\ Books(r) /\ pc[r] = "calendar" /\ Failing = {}
      /\ op[r] \in Ops
  BY PartsOfCalInv DEF CalInv, LinkParts, CalendarCalls, Orderly, TypeOK
<1>2. Creating(r) /\ key[r] = r
  BY <1>1 DEF Books, Active, Ended, Answered, Creating
<1>3. Calendar(r) = Home(r) /\ op[r].name # "delete"
  BY ChangeNames DEF Calendar
<1>. DEFINE c == Calendar(r)
           x == ev[r].data.cal
           entry == [on |-> c, by |-> r, for |-> key[r]]
           left == {e \in entries : ~(e = x /\ e.on = c)}
<1>4. PICK l \in Without(c, x, "calendar" \in Failing) :
          \/ /\ ev[r].data.status = "DRAFT"
             /\ entries' = entries
             /\ cal' = [cal EXCEPT ![r] = NoEntry]
             /\ Goto(r, "insert")
          \/ /\ ev[r].data.status # "DRAFT"
             /\ entries' = l \union {entry}
             /\ cal' = [cal EXCEPT ![r] = entry]
             /\ Goto(r, "insert")
  BY <1>1, <1>3 DEF CalendarCalls
<1>5. l = left
  BY <1>1, <1>4, WithoutOne
<1>6. left = entries
  <2>1. CASE op[r].name = "link"
    <3>1. x \in Entries => x.on # c
      BY <1>1, <1>2, <1>3, <2>1 DEF Creating, Heeds, Home
    <3>. QED
      BY <1>1, <3>1 DEF TypeOK
  <2>2. CASE op[r].name # "link"
    <3>1. x = NoEntry
      BY <1>1, <1>2, <2>2 DEF Creating, Creators
    <3>. QED
      BY <1>1, <3>1, IdValues DEF TypeOK
  <2>. QED
    BY <2>1, <2>2
<1>7. entry \in Entries /\ entry.for = r /\ entry.on = Home(r) /\ entry # NoEntry
  BY <1>1, <1>2, <1>3, IdValues DEF Entries, Keys, Home, Ops
<1>8. pc'[r] = "insert" /\ (cal'[r] = IF ev[r].data.status = "DRAFT" THEN NoEntry ELSE entry)
  BY <1>1, <1>4 DEF Goto, TypeOK
<1>. HIDE DEF c, x, entry, left
<1>. QED
  BY <1>4, <1>5, <1>6, <1>7, <1>8 DEF OwnEntry

\* and of a save or a deletion.
LEMMA ChangeCalls ==
    ASSUME CalInv, Orderly, NEW r \in Requests, CalendarCalls(r), op[r].name \notin Creators
    PROVE  /\ op[r].name \in Changes /\ AtWork(r)
           /\ \A e : e \in entries' <=>
                 \/ e \in entries /\ ~(e = ev[r].data.cal /\ e.on = Calendar(r))
                 \/ e = cal'[r] /\ cal'[r] # NoEntry
           /\ cal'[r] = NoEntry \/ (OwnEntry(cal'[r], key[r]) /\ cal'[r].on = Calendar(r))
           /\ cal'[r] = NoEntry <=> op[r].name = "delete" \/ ev[r].data.status = "DRAFT"
           /\ pc'[r] = (IF op[r].name = "delete" THEN "audit"
                        ELSE IF ev[r].kind = "LINKED" THEN "source" ELSE "notify")
<1>1. /\ LinkParts /\ TypeOK /\ pc[r] = "calendar" /\ Failing = {}
      /\ op[r] \in Ops /\ ev[r] \in Docs /\ key[r] \in Keys
  BY PartsOfCalInv DEF CalInv, LinkParts, CalendarCalls, Orderly, TypeOK
<1>2. op[r].name \in Changes /\ AtWork(r)
  BY <1>1 DEF Ops, OpNames, Changes, AtWork, Active, Ended, Answered
<1>. DEFINE c == Calendar(r)
           x == ev[r].data.cal
           entry == [on |-> c, by |-> r, for |-> key[r]]
           left == {e \in entries : ~(e = x /\ e.on = c)}
           after == IF op[r].name = "delete" THEN "audit"
                    ELSE IF ev[r].kind = "LINKED" THEN "source" ELSE "notify"
<1>3. PICK l \in Without(c, x, "calendar" \in Failing) :
          \/ /\ op[r].name = "delete" \/ ev[r].data.status = "DRAFT"
             /\ entries' = l
             /\ cal' = [cal EXCEPT ![r] = NoEntry]
             /\ Goto(r, after)
          \/ /\ op[r].name # "delete" /\ ev[r].data.status # "DRAFT"
             /\ entries' = l \union {entry}
             /\ cal' = [cal EXCEPT ![r] = entry]
             /\ Goto(r, after)
  BY <1>1, <1>2 DEF CalendarCalls
<1>4. l = left
  BY <1>1, <1>3, WithoutOne
<1>5. c \in Accounts
  BY <1>1 DEF Calendar, Home, Docs, Refs, Ops
<1>6. entry \in Entries /\ entry.for = key[r] /\ entry.on = c /\ entry # NoEntry
  BY <1>1, <1>5, IdValues DEF Entries, Keys
<1>7. /\ pc'[r] = after
      /\ cal'[r] = IF op[r].name = "delete" \/ ev[r].data.status = "DRAFT" THEN NoEntry ELSE entry
  BY <1>1, <1>3 DEF Goto, TypeOK
<1>. HIDE DEF entry
<1>. QED
  BY <1>2, <1>3, <1>4, <1>6, <1>7 DEF OwnEntry

\* What shows where documents stay and only the entries of key k change: all but k, and
\* k if it is about to be changed.
LEMMA ElseShown ==
    ASSUME CalInv, Orderly, NEW r \in Requests, Step(r), docs' = docs, key' = key, op' = op,
           NEW k, \A j \in Keys : j # k => EntriesFor(j)' = EntriesFor(j),
           Unstored(r) \/ Removing(r) => Unstored(r)' \/ Removing(r)',
           pc[r] # "insert", pc'[r] # "idle",
           \/ docs[k] # NoDoc /\ docs[k].kind = "LINKED"
           \/ docs[k] # NoDoc /\ key[r] = k /\ (Unstored(r)' \/ Removing(r)')
           \/ k = r /\ docs[k] = NoDoc /\ pc'[r] = "insert"
    PROVE  OwnIds' /\ Shows' /\ Vacant' /\ LinksOnly'
<1>1. LinkParts /\ TypeOK /\ OneActive /\ OwnIds /\ Shows /\ Vacant /\ LinksOnly
  BY PartsOfCalInv DEF CalInv, LinkParts
<1>2. \A s \in Requests \ {r} :
         /\ ~Active(s) /\ ~Active(s)' /\ (pc'[s] = pc[s] \/ pc'[s] = "lost")
  BY <1>1, OrderlyStep
<1>3. ASSUME NEW j PROVE Upset(j) => Upset(j)'
  BY <1>2, <1>3, UpsetByOne DEF Upset
<1>4. OwnIds' /\ LinksOnly'
  BY <1>1 DEF OwnIds, LinksOnly
<1>5. Shows'
  <2>. SUFFICES ASSUME NEW j \in Keys, docs[j] # NoDoc, docs[j].kind = "REGULAR", ~Upset(j)'
                PROVE  Showing(j, docs[j].data.status, docs[j].data.cal)'
    BY DEF Shows
  <2>1. j # k
    <3>1. key[r] = k /\ (Unstored(r)' \/ Removing(r)') => Upset(k)'
      BY DEF Upset
    <3>. QED
      BY <3>1
  <2>2. Showing(j, docs[j].data.status, docs[j].data.cal)
    BY <1>1, <1>3 DEF Shows
  <2>. QED
    BY <2>1, <2>2 DEF Showing
<1>6. Vacant'
  <2>. SUFFICES ASSUME NEW s \in Requests, docs[s] = NoDoc, pc'[s] # "insert",
                       pc'[s] = "idle" \/ op[s].name # "link"
                PROVE  EntriesFor(s)' = {}
    BY DEF Vacant
  <2>1. s # k /\ s \in Keys
    BY DEF Keys
  <2>2. pc[s] # "insert" /\ (pc[s] = "idle" \/ op[s].name # "link")
    <3>1. CASE s = r
      BY <3>1
    <3>2. CASE s # r
      BY <1>2, <3>2 DEF Active, Ended, Answered
    <3>. QED
      BY <3>1, <3>2
  <2>3. EntriesFor(s) = {}
    BY <1>1, <2>2 DEF Vacant
  <2>. QED
    BY <2>1, <2>3
<1>. QED
  BY <1>4, <1>5, <1>6

\* The calls to the calendar.
LEMMA CallsShown ==
    ASSUME CalInv, Orderly, NEW r \in Requests, CalendarCalls(r)
    PROVE  OwnIds' /\ Shows' /\ Vacant' /\ LinksOnly' /\ Books(r)'
<1>1. /\ LinkParts /\ TypeOK /\ OwnIds /\ Shows /\ Vacant /\ Heeds(r) /\ Books(r) /\ pc[r] = "calendar"
      /\ Step(r) /\ docs' = docs /\ key' = key /\ op' = op /\ ev' = ev /\ OneActive
      /\ op[r] \in Ops /\ ev[r] \in Docs /\ key[r] \in Keys
  BY PartsOfCalInv DEF CalInv, LinkParts, CalendarCalls, Step, TypeOK
<1>2. ~Unstored(r) /\ ~Removing(r) /\ Active(r)
  BY <1>1 DEF Unstored, Removing, Active, Ended, Answered
<1>3. CASE op[r].name \in Creators
  <2>1. /\ \A e : e \in entries' <=> e \in entries \/ (e = cal'[r] /\ cal'[r] # NoEntry)
        /\ cal'[r] = NoEntry \/ (OwnEntry(cal'[r], r) /\ cal'[r].on = Home(r))
        /\ cal'[r] = NoEntry <=> ev[r].data.status = "DRAFT"
        /\ pc'[r] = "insert"
    BY <1>3, CreationCalls
  <2>2. docs[r] = NoDoc /\ op[r].name \notin Changes
    BY <1>1, <1>3, ChangeNames DEF LinkParts, Paths, Changes
  <2>3. \A j \in Keys : j # r => EntriesFor(j)' = EntriesFor(j)
    BY <2>1 DEF EntriesFor, OwnEntry
  <2>4. OwnIds' /\ Shows' /\ Vacant' /\ LinksOnly'
    BY <1>1, <1>2, <2>1, <2>2, <2>3, ElseShown
  <2>5. op[r].name # "link" => Showing(r, ev[r].data.status, cal[r])'
    <3>. SUFFICES ASSUME op[r].name # "link"
                  PROVE  EntriesFor(r)' = IF ev'[r].data.status = "DRAFT" THEN {} ELSE {cal'[r]}
      BY DEF Showing
    <3>1. EntriesFor(r) = {}
      BY <1>1, <2>2 DEF Vacant
    <3>. QED
      BY <1>1, <2>1, <3>1 DEF EntriesFor, OwnEntry
  <2>6. Home(r)' = Home(r)
    BY <1>1 DEF Home
  <2>7. Creating(r)'
    BY <1>1, <2>1, <2>5, <2>6 DEF Creating, OwnEntry
  <2>. QED
    BY <1>1, <2>2, <2>4, <2>7 DEF Books
<1>4. CASE op[r].name \notin Creators
  <2>. DEFINE k == key[r]
              x == ev[r].data.cal
  <2>1. /\ op[r].name \in Changes /\ AtWork(r)
        /\ \A e : e \in entries' <=>
              \/ e \in entries /\ ~(e = x /\ e.on = Calendar(r))
              \/ e = cal'[r] /\ cal'[r] # NoEntry
        /\ cal'[r] = NoEntry \/ (OwnEntry(cal'[r], k) /\ cal'[r].on = Calendar(r))
        /\ cal'[r] = NoEntry <=> op[r].name = "delete" \/ ev[r].data.status = "DRAFT"
        /\ pc'[r] = (IF op[r].name = "delete" THEN "audit"
                     ELSE IF ev[r].kind = "LINKED" THEN "source" ELSE "notify")
    BY <1>4, ChangeCalls
  <2>2. Found(r) /\ Changing(r) /\ op[r].name # "link" /\ ev[r].acct = op[r].acct
    BY <1>1, <1>4, <2>1 DEF LinkParts, Gripped, Grip, Books, AtWork, Changing, Creators
  <2>3. docs[k] # NoDoc /\ docs[k].kind = ev[r].kind /\ docs[k].acct = ev[r].acct /\ docs[k] \in Docs
    BY <1>1, <2>2 DEF Found, Alike, TypeOK
  <2>4. ev[r].kind = "REGULAR" => Calendar(r) = ev[r].acct
    BY <2>2 DEF Calendar, Home
  <2>5. ev[r].kind = "REGULAR" => x = docs[k].data.cal
    <3>. SUFFICES ASSUME ev[r].kind = "REGULAR" PROVE x = docs[k].data.cal
      OBVIOUS
    <3>1. ev[r].data = Desired(r, docs[k].data)
      BY <1>1, <2>1 DEF LinkParts, Meant, Intent, Unsaved
    <3>2. docs[k].data \in Data
      BY <2>3, DocFields
    <3>3. op[r].name = "set" => op[r].body.cal = Undef
      BY <1>1 DEF Heeds
    <3>. QED
      BY <2>1, <3>1, <3>2, <3>3, DesiredIds, OverlaidIds
  <2>6. x \in Entries => x.for = k
    <3>1. CASE ev[r].kind = "REGULAR"
      BY <1>1, <2>3, <2>5, <3>1 DEF OwnIds, IdsOf, EventIds
    <3>2. CASE ev[r].kind = "LINKED"
      BY <1>1, <2>2, <3>2, IdValues DEF Changing, NullOr, OwnEntry
    <3>. QED
      BY <1>1, <3>1, <3>2 DEF Docs
  <2>7. \A j \in Keys : j # k => EntriesFor(j)' = EntriesFor(j)
    BY <1>1, <2>1, <2>6 DEF EntriesFor, OwnEntry, TypeOK
  <2>8. ev[r].kind = "REGULAR" => EntriesFor(k)' = IF cal'[r] = NoEntry THEN {} ELSE {cal'[r]}
    <3>. SUFFICES ASSUME ev[r].kind = "REGULAR"
                  PROVE  EntriesFor(k)' = IF cal'[r] = NoEntry THEN {} ELSE {cal'[r]}
      OBVIOUS
    <3>1. ~Upset(k)
      <4>1. \A s \in Requests \ {r} : ~Active(s)
        BY <1>1, OrderlyStep
      <4>. QED
        BY <1>2, <4>1, UpsetByOne
    <3>2. Showing(k, docs[k].data.status, x)
      BY <1>1, <2>3, <2>5, <3>1 DEF Shows
    <3>3. x \in Entries => x.on = Calendar(r)
      BY <1>1, <2>3, <2>4, <2>5 DEF OwnIds, IdsOf, EventIds
    <3>4. \A e \in entries : e.for = k => e = x /\ e.on = Calendar(r)
      BY <1>1, <3>2, <3>3 DEF Showing, EntriesFor, TypeOK
    <3>5. key'[r] = k
      BY <1>1
    <3>6. CASE cal'[r] = NoEntry
      BY <2>1, <3>4, <3>5, <3>6 DEF EntriesFor
    <3>7. CASE cal'[r] # NoEntry
      BY <2>1, <3>4, <3>5, <3>7 DEF EntriesFor, OwnEntry
    <3>. QED
      BY <3>6, <3>7
  <2>9. ev[r].kind \in {"REGULAR", "LINKED"}
    BY <1>1 DEF Docs
  <2>10. op[r].name = "delete" \/ op[r].name \in Savers
    BY <2>1 DEF Changes
  <2>11. ev[r].kind = "REGULAR" => Unstored(r)' \/ Removing(r)'
    BY <1>1, <2>1, <2>10 DEF Unstored, Removing
  <2>12. OwnIds' /\ Shows' /\ Vacant' /\ LinksOnly'
    <3>1. pc'[r] \notin {"idle", "insert"}
      BY <2>1
    <3>. QED
      BY <1>1, <1>2, <2>3, <2>7, <2>9, <2>11, <3>1, ElseShown
  <2>13. Changing(r)'
    <3>1. Unstored(r)' \/ Removing(r)' \/ pc'[r] = "source"
      BY <1>1, <2>1, <2>9, <2>10 DEF Unstored, Removing
    <3>2. Unstored(r)' => ev[r].kind = "REGULAR" /\ op[r].name \in Savers /\ pc'[r] = "notify"
      BY <1>1, <2>1, ChangeNames DEF Unstored
    <3>3. Unstored(r)' =>
            /\ cal'[r] = NoEntry \/ (OwnEntry(cal'[r], k) /\ cal'[r].on = ev[r].acct)
            /\ EntriesFor(k)' = IF ev[r].data.status = "DRAFT" THEN {} ELSE {cal'[r]}
      BY <2>1, <2>4, <2>8, <3>2, ChangeNames
    <3>4. Removing(r)' => op[r].name = "delete" /\ cal'[r] = NoEntry
      BY <1>1, <2>1 DEF Removing
    <3>5. Removing(r)' /\ ev[r].kind = "REGULAR" => EntriesFor(k)' = {}
      BY <2>8, <3>4
    <3>6. ev[r].kind = "LINKED" => NullOr(x, k)
      BY <1>1, <2>2 DEF Changing
    <3>7. NullOr(cal'[r], k)
      BY <2>1 DEF NullOr
    <3>8. pc'[r] = "notify" => ev[r].kind # "LINKED"
      BY <2>1
    <3>9. pc'[r] \in {"audit", "source", "notify"}
      BY <2>1
    <3>10. EntriesFor(key[r])' = EntriesFor(k)'
      BY <1>1 DEF EntriesFor
    <3>11. Unstored(r)' => Showing(key[r], ev[r].data.status, cal[r])'
      BY <1>1, <3>3 DEF Showing, EntriesFor
    <3>. QED
      BY <1>1, <2>2, <3>3, <3>5, <3>6, <3>7, <3>8, <3>9, <3>10, <3>11 DEF Changing, NullOr, OwnEntry
  <2>14. Creating(r)'
    BY <2>1 DEF Creating
  <2>. QED
    BY <2>12, <2>13, <2>14 DEF Books
<1>. QED
  BY <1>3, <1>4

\* The calendars show what a step has written, and nothing of what is gone.
Displayed(j, d) ==
    /\ IdsOf(d, j)
    /\ d.kind = "LINKED" /\ j \in Requests => op[j].name = "link"
    /\ d.kind = "REGULAR" => Showing(j, d.data.status, d.data.cal)
WrittenShown == \A j \in Keys : docs'[j] # NoDoc => Displayed(j, docs'[j])
LeftVacant(r) ==
    \A s \in Requests : docs'[s] = NoDoc /\ op[s].name # "link" /\ (docs[s] # NoDoc \/ s = r) =>
        EntriesFor(s) = {}

\* The rest that a step leaves as it is, where calendars stay.
LEMMA StoreShown ==
    ASSUME CalInv, Orderly, NEW r \in Requests, Step(r), entries' = entries, op' = op, key' = key,
           pc'[r] # "idle",
           WrittenShown, LeftVacant(r)
    PROVE  OwnIds' /\ Shows' /\ Vacant' /\ LinksOnly'
<1>1. LinkParts /\ TypeOK /\ OneActive /\ Vacant
  BY PartsOfCalInv DEF CalInv, LinkParts
<1>2. \A s \in Requests \ {r} :
         /\ ~Active(s) /\ ~Active(s)' /\ (pc'[s] = pc[s] \/ pc'[s] = "lost")
  BY <1>1, OrderlyStep
<1>3. \A k : EntriesFor(k)' = EntriesFor(k)
  BY DEF EntriesFor
<1>4. OwnIds' /\ LinksOnly'
  BY DEF OwnIds, LinksOnly, Keys, WrittenShown, Displayed
<1>5. Shows'
  BY <1>3 DEF Shows, Showing, WrittenShown, Displayed
<1>6. Vacant'
  <2>. SUFFICES ASSUME NEW s \in Requests, docs'[s] = NoDoc, pc'[s] # "insert",
                       pc'[s] = "idle" \/ op[s].name # "link"
                PROVE  EntriesFor(s) = {}
    BY <1>3 DEF Vacant
  <2>1. CASE s = r
    <3>1. op[s].name # "link"
      BY <2>1
    <3>. QED
      BY <2>1, <3>1 DEF LeftVacant
  <2>2. CASE s # r /\ docs[s] # NoDoc
    <3>1. pc[s] # "idle"
      BY <1>1, <2>2 DEF LinkParts, Paths
    <3>2. pc'[s] # "idle"
      BY <1>2, <2>2, <3>1
    <3>. QED
      BY <2>2, <3>2 DEF LeftVacant
  <2>3. CASE s # r /\ docs[s] = NoDoc
    <3>1. pc[s] # "insert" /\ (pc[s] = "idle" \/ op[s].name # "link")
      BY <1>2, <2>3 DEF Active, Ended, Answered
    <3>. QED
      BY <1>1, <2>3, <3>1 DEF Vacant
  <2>. QED
    BY <2>1, <2>2, <2>3
<1>. QED
  BY <1>4, <1>5, <1>6

\* What shows of events that nobody has in hand.
LEMMA NotUpset ==
    ASSUME CalInv, Orderly, NEW r \in Requests, Step(r), NEW j \in Keys, docs[j] # NoDoc,
           j # key[r] \/ (~Unstored(r) /\ ~Removing(r))
    PROVE  Displayed(j, docs[j])
<1>1. LinkParts /\ TypeOK /\ OneActive /\ OwnIds /\ Shows /\ LinksOnly
  BY PartsOfCalInv DEF CalInv, LinkParts
<1>2. \A s \in Requests \ {r} : ~Active(s)
  BY <1>1, OrderlyStep
<1>3. ~Upset(j)
  BY <1>2, UpsetByOne
<1>. QED
  BY <1>1, <1>3 DEF OwnIds, Shows, LinksOnly, Displayed

\* A new document keeps the id of the entry that was made for it.
LEMMA InsertShown ==
    ASSUME CalInv, Orderly, NEW r \in Requests, Insert(r)
    PROVE  OwnIds' /\ Shows' /\ Vacant' /\ LinksOnly' /\ Books(r)'
<1>1. /\ LinkParts /\ TypeOK /\ Books(r) /\ pc[r] = "insert" /\ Step(r) /\ op' = op /\ key' = key
      /\ entries' = entries /\ docs' = [docs EXCEPT ![r] = NewDoc(r)] /\ op[r].name \in Creators
      /\ pc'[r] \in {"done", "audit"} /\ r \in Keys /\ ev[r] \in Docs /\ op[r] \in Ops
  BY PartsOfCalInv DEF CalInv, LinkParts, Insert, Step, Control, TypeOK, Goto, locals, Keys
<1>2. Creating(r) /\ ~Unstored(r) /\ ~Removing(r)
  BY <1>1, ChangeNames DEF Books, Active, Ended, Answered, Unstored, Removing
<1>3. docs'[r] = NewDoc(r) /\ \A j \in Keys \ {r} : docs'[j] = docs[j]
  BY <1>1 DEF TypeOK
<1>4. /\ NewDoc(r).kind = (IF op[r].name = "link" THEN "LINKED" ELSE "REGULAR")
      /\ NewDoc(r).data.cal = cal[r] /\ NewDoc(r).extra.cal = Undef /\ NewDoc(r).acct = Home(r)
      /\ op[r].name # "link" => NewDoc(r).data.status = ev[r].data.status
  <2>1. ev[r].data \in Data
    BY <1>1, DocFields
  <2>. QED
    BY <2>1 DEF NewDoc, Nothing, Data
<1>5. IdsOf(NewDoc(r), r)
  BY <1>2, <1>1, <1>4, IdValues DEF IdsOf, LinkIds, EventIds, NullOr, OwnEntry, Creating
<1>6. ASSUME NEW j \in Keys, docs'[j] # NoDoc
      PROVE  Displayed(j, docs'[j])
  <2>1. CASE j = r
    BY <1>1, <1>2, <1>3, <1>4, <1>5, <2>1 DEF Creating, Displayed
  <2>2. CASE j # r
    BY <1>1, <1>2, <1>3, <1>6, <2>2, NotUpset
  <2>. QED
    BY <2>1, <2>2
<1>7. \A s \in Requests : docs'[s] = NoDoc => docs[s] = NoDoc /\ s # r
  <2>1. NewDoc(r) # NoDoc
    BY <1>1, NewDocTyped, ConstantsOK DEF LinkParts, RefInv, IInv
  <2>. QED
    BY <1>3, <2>1 DEF Keys
<1>8. OwnIds' /\ Shows' /\ Vacant' /\ LinksOnly'
  BY <1>1, <1>6, <1>7, StoreShown DEF WrittenShown, LeftVacant
<1>9. Books(r)'
  BY <1>1, ChangeNames DEF Books, Creating, Changes, Active, Ended, Answered
<1>. QED
  BY <1>8, <1>9

\* What a patch makes of calendar ids.
LEMMA PatchedEntry ==
    ASSUME NEW b, NEW n, n \in Entries \union {NoEntry}
    PROVE  PatchedField(b, n) = IF n = NoEntry THEN Cleared ELSE n
BY IdValues DEF PatchedField

LEMMA PatchedIds ==
    ASSUME NEW k, NEW b, NEW n
    PROVE  /\ NullOr(b, k) /\ NullOr(n, k) => NullOr(PatchedField(b, n), k)
           /\ (b = Undef \/ NullOr(b, k)) /\ (n = Undef \/ NullOr(n, k)) =>
                 PatchedField(b, n) = Undef \/ NullOr(PatchedField(b, n), k)
BY IdValues DEF PatchedField, NullOr, OwnEntry

\* The patch of a save.
LEMMA PatchShown ==
    ASSUME CalInv, Orderly, NEW r \in Requests, Patch(r)
    PROVE  OwnIds' /\ Shows' /\ Vacant' /\ LinksOnly' /\ Books(r)'
<1>1. /\ LinkParts /\ TypeOK /\ OwnIds /\ Vacant /\ LinksOnly /\ Books(r) /\ pc[r] = "patch" /\ Step(r)
      /\ op' = op /\ key' = key /\ ev' = ev
      /\ entries' = entries /\ op[r].name \in Savers /\ ev[r] \in Docs /\ key[r] \in Keys
      /\ pc'[r] \in {"done", "links"} /\ docs' = Patched(SavedDoc(r))
      /\ RefInv /\ Ways /\ Gripped
  BY PartsOfCalInv DEF CalInv, LinkParts, Patch, Step, Ways, TypeOK, Goto, locals
<1>2. AtWork(r) /\ Active(r) /\ Changing(r) /\ op[r].name # "link"
  BY <1>1, ChangeNames DEF Books, AtWork, Active, Ended, Answered, Changes
<1>3. Found(r)
  BY <1>1, <1>2 DEF LinkParts, Gripped, Grip
<1>. DEFINE k == key[r]
            d == docs[k]
            new == SavedDoc(r)
<1>4. /\ d # NoDoc /\ d \in Docs /\ d.kind = ev[r].kind /\ d.acct = ev[r].acct /\ new \in Docs
      /\ new.kind = ev[r].kind /\ new.extra = ev[r].extra /\ docs'[k] = PatchedDoc(d, new)
  BY <1>1, <1>3, PatchMeets DEF Found, Alike
<1>5. \A j \in Keys : docs[j] # NoDoc /\ j # k => docs'[j] = docs[j]
  BY <1>1, PatchMeets
<1>6. \A j \in Keys : docs[j] = NoDoc <=> docs'[j] = NoDoc
  <2>1. \A j \in Keys : docs[j] = NoDoc => docs'[j] = NoDoc
    BY <1>1 DEF Patched, Matching, Stored
  <2>2. PatchedDoc(d, new) # NoDoc
    BY <1>4, PatchedDocTyped, ConstantsOK
  <2>. QED
    BY <1>4, <1>5, <2>1, <2>2
<1>7. /\ docs'[k].kind = d.kind /\ docs'[k].acct = d.acct
      /\ docs'[k].data.status = PatchedField(d.data.status, new.data.status)
      /\ docs'[k].data.cal = PatchedField(d.data.cal, new.data.cal)
      /\ docs'[k].extra.cal = PatchedField(d.extra.cal, ev[r].extra.cal)
  <2>1. PatchedDoc(d, new).extra.cal = PatchedField(d.extra.cal, new.extra.cal)
    BY <1>4 DEF PatchedDoc, Docs, FieldWise
  <2>2. PatchedDoc(d, new).data.cal = PatchedField(d.data.cal, new.data.cal)
    BY <1>4 DEF PatchedDoc, Docs, FieldWise
  <2>. QED
    BY <1>4, <2>1, <2>2, PatchedParts
<1>8. new.data.cal = cal[r] /\ (ev[r].kind = "REGULAR" => new.data.status = ev[r].data.status)
  <2>1. ev[r].data \in Data
    BY <1>1, DocFields
  <2>. QED
    BY <1>1, <2>1 DEF SavedDoc, Docs, Data, Nothing
<1>. HIDE DEF new, d
<1>9. IdsOf(d, k) /\ (d.kind = "LINKED" /\ k \in Requests => op[k].name = "link")
  BY <1>1, <1>4 DEF OwnIds, LinksOnly, d
<1>10. Books(r)'
  BY <1>1, <1>2, ChangeNames DEF Books, Creating, Changing, Unstored, Removing, Active, Ended, Answered
<1>11. LeftVacant(r)
  BY <1>1, <1>6 DEF Vacant, Keys, LeftVacant
<1>12. Step(r) /\ entries' = entries /\ op' = op /\ key' = key /\ pc'[r] # "idle"
  BY <1>1
<1>13. CASE ev[r].kind = "LINKED"
  <2>1. NullOr(cal[r], k) /\ (ev[r].extra.cal = Undef \/ NullOr(ev[r].extra.cal, k))
    BY <1>1, <1>2, <1>13 DEF Changing
  <2>2. LinkIds(d, k)
    BY <1>4, <1>9, <1>13 DEF IdsOf
  <2>3. LinkIds(docs'[k], k)
    BY <1>7, <1>8, <2>1, <2>2, PatchedIds DEF LinkIds
  <2>4. docs'[k].kind = "LINKED"
    BY <1>4, <1>7, <1>13
  <2>5. ~Unstored(r) /\ ~Removing(r)
    BY <1>1, <1>13 DEF Unstored, Removing
  <2>6. WrittenShown
    <3>. SUFFICES ASSUME NEW j \in Keys, docs'[j] # NoDoc PROVE Displayed(j, docs'[j])
      BY DEF WrittenShown
    <3>1. CASE j = k
      BY <1>4, <1>7, <1>9, <1>13, <2>3, <2>4, <3>1 DEF IdsOf, Displayed
    <3>2. CASE j # k
      BY <1>1, <1>5, <1>6, <2>5, <3>2, NotUpset
    <3>. QED
      BY <3>1, <3>2
  <2>. QED
    BY <1>10, <1>11, <1>12, <2>6, StoreShown
<1>14. CASE ev[r].kind = "REGULAR"
  <2>1. Unstored(r)
    BY <1>1, <1>14 DEF Unstored
  <2>2. /\ cal[r] = NoEntry \/ (OwnEntry(cal[r], k) /\ cal[r].on = ev[r].acct)
        /\ Showing(k, ev[r].data.status, cal[r])
    BY <1>2, <2>1 DEF Changing
  <2>3. docs'[k].data.status = ev[r].data.status
    <3>1. ev[r].data = Desired(r, d.data)
      BY <1>1, <1>2, <1>14 DEF LinkParts, Meant, Intent, Unsaved, d
    <3>2. ev[r].data.status = Undef => d.data.status = Undef
      BY <1>1, <3>1, <1>4, DocFields DEF Desired, Savers, Overlay, FieldWise, Over, Data
    <3>3. d.data.status \notin {NoEntry, Cleared} /\ ev[r].data.status \notin {NoEntry, Cleared}
      BY <1>1, <1>4, DocFields, FieldValues
    <3>. QED
      BY <1>7, <1>8, <1>14, <3>2, <3>3, PatchedValue
  <2>4. docs'[k].data.cal = IF cal[r] = NoEntry THEN Cleared ELSE cal[r]
    BY <1>7, <1>8, <2>2, PatchedEntry DEF OwnEntry
  <2>5. IdsOf(docs'[k], k) /\ docs'[k].kind = "REGULAR"
    BY <1>4, <1>7, <1>14, <2>2, <2>4, IdValues DEF IdsOf, EventIds, OwnEntry
  <2>6. Showing(k, docs'[k].data.status, docs'[k].data.cal)
    <3>1. ev[r].data.status # "DRAFT" => cal[r] \in Entries
      BY <1>1, <2>2 DEF Showing, EntriesFor, TypeOK
    <3>. QED
      BY <2>2, <2>3, <2>4, <3>1, IdValues DEF Showing
  <2>7. WrittenShown
    <3>. SUFFICES ASSUME NEW j \in Keys, docs'[j] # NoDoc PROVE Displayed(j, docs'[j])
      BY DEF WrittenShown
    <3>1. CASE j = k
      BY <2>5, <2>6, <3>1 DEF Displayed
    <3>2. CASE j # k
      BY <1>1, <1>5, <1>6, <3>2, NotUpset
    <3>. QED
      BY <3>1, <3>2
  <2>. QED
    BY <1>10, <1>11, <1>12, <2>7, StoreShown
<1>. QED
  BY <1>1, <1>13, <1>14 DEF Docs

\* The removal of a document whose entry is gone.
LEMMA RemoveShown ==
    ASSUME CalInv, Orderly, NEW r \in Requests, Remove(r)
    PROVE  OwnIds' /\ Shows' /\ Vacant' /\ LinksOnly' /\ Books(r)'
<1>1. /\ LinkParts /\ TypeOK /\ Vacant /\ LinksOnly /\ Books(r) /\ pc[r] = "remove" /\ Step(r)
      /\ op' = op /\ key' = key /\ entries' = entries /\ op[r].name = "delete"
      /\ ev[r] \in Docs /\ key[r] \in Keys /\ pc'[r] = "done" /\ UniqueRefs
      /\ docs' = [j \in Keys |-> IF j \in Matching(ev[r].acct, ev[r].id) THEN NoDoc ELSE docs[j]]
  BY PartsOfCalInv DEF CalInv, LinkParts, Remove, Step, Ways, TypeOK, Goto, locals
<1>2. AtWork(r) /\ Changing(r) /\ Removing(r) /\ Found(r)
  <2>1. AtWork(r)
    BY <1>1 DEF AtWork, Active, Ended, Answered, Changes
  <2>. QED
    BY <1>1, <2>1 DEF Books, AtWork, Removing, LinkParts, Gripped, Grip
<1>3. \A j \in Keys : docs'[j] = IF j = key[r] THEN NoDoc ELSE docs[j]
  BY <1>1, <1>2 DEF Matching, Stored, UniqueRefs, Found, Alike
<1>4. WrittenShown
  BY <1>1, <1>3, NotUpset DEF WrittenShown
<1>5. LeftVacant(r)
  <2>. SUFFICES ASSUME NEW s \in Requests, docs'[s] = NoDoc, op[s].name # "link",
                       docs[s] # NoDoc \/ s = r
                PROVE  EntriesFor(s) = {}
    BY DEF LeftVacant
  <2>1. CASE s = key[r]
    <3>1. docs[s].kind # "LINKED"
      BY <1>1, <1>2, <2>1 DEF LinksOnly, Found
    <3>2. ev[r].kind = "REGULAR"
      BY <1>1, <1>2, <2>1, <3>1 DEF Found, Alike, Docs
    <3>. QED
      BY <1>2, <2>1, <3>2 DEF Changing
  <2>2. CASE s # key[r]
    <3>1. s = r /\ docs[r] = NoDoc
      BY <1>3, <2>2 DEF Keys
    <3>. QED
      BY <1>1, <3>1 DEF Vacant
  <2>. QED
    BY <2>1, <2>2
<1>6. Books(r)'
  BY <1>1, OverBooks DEF Ended, Answered
<1>. QED
  BY <1>1, <1>4, <1>5, <1>6, StoreShown

\* The links' entries are replaced: those of events stay.
LEMMA LinkCalendarShown ==
    ASSUME CalInv, Orderly, NEW r \in Requests, LinkCalendar(r)
    PROVE  OwnIds' /\ Shows' /\ Vacant' /\ LinksOnly' /\ Books(r)'
<1>1. /\ LinkParts /\ TypeOK /\ Books(r) /\ pc[r] = "linkCalendar" /\ Step(r) /\ docs' = docs
      /\ op' = op /\ key' = key /\ ev' = ev /\ op[r].name \in Savers /\ Failing = {}
  BY PartsOfCalInv DEF CalInv, LinkParts, LinkCalendar, Step, Ways, Orderly
<1>2. AtWork(r) /\ Changing(r) /\ Grip(r) /\ ~Unstored(r) /\ ~Removing(r)
  <2>1. AtWork(r)
    BY <1>1 DEF AtWork, Active, Ended, Answered, Changes
  <2>. QED
    BY <1>1, <2>1 DEF Books, AtWork, LinkParts, Gripped, Unstored, Removing
<1>3. /\ pc'[r] \in {"linkCalendar", "linksAgain"}
      /\ todo'[r] \subseteq todo[r]
  BY <1>1 DEF LinkCalendar, TypeOK, Goto, AfterTap
<1>4. Books(r)'
  <2>1. Changing(r)'
    <3>1. ~Unstored(r)' /\ ~Removing(r)'
      BY <1>3 DEF Unstored, Removing
    <3>2. \A t \in todo'[r] : LinkIds(t.doc, t.for)
      BY <1>1, <1>2, <1>3 DEF Changing
    <3>3. ev'[r].acct = op'[r].acct
      BY <1>1, <1>2 DEF Changing
    <3>. QED
      BY <1>3, <3>1, <3>2, <3>3 DEF Changing
  <2>2. Creating(r)'
    BY <1>3 DEF Creating
  <2>. QED
    BY <2>1, <2>2 DEF Books
<1>5. CASE todo[r] = {}
  <2>1. entries' = entries
    BY <1>1, <1>5 DEF LinkCalendar
  <2>. QED
    BY <1>1, <1>2, <1>4, <2>1, StillShown
<1>6. CASE todo[r] # {}
  <2>1. PICK t \in todo[r] :
            \E left \in Without(t.doc.acct, t.doc.data.cal, "linkCalendar" \in Failing) :
               entries' = IF ev[r].data.status = "DRAFT" THEN left
                          ELSE left \union {[on |-> t.doc.acct, by |-> r, for |-> t.for]}
    BY <1>1, <1>6 DEF LinkCalendar
  <2>2. PICK left \in Without(t.doc.acct, t.doc.data.cal, "linkCalendar" \in Failing) :
               entries' = IF ev[r].data.status = "DRAFT" THEN left
                          ELSE left \union {[on |-> t.doc.acct, by |-> r, for |-> t.for]}
    BY <2>1
  <2>3. left = {e \in entries : ~(e = t.doc.data.cal /\ e.on = t.doc.acct)}
    BY <1>1, <2>2 DEF Without
  <2>4. LinkIds(t.doc, t.for) /\ Linked(t) /\ t.for \in Keys
    BY <1>1, <1>2, <2>1 DEF Changing, Grip, TypeOK
  <2>5. \A j \in Keys : j # t.for => EntriesFor(j)' = EntriesFor(j)
    BY <1>1, <2>2, <2>3, <2>4, IdValues DEF EntriesFor, LinkIds, NullOr, OwnEntry, TypeOK
  <2>6. docs[t.for] # NoDoc /\ docs[t.for].kind = "LINKED"
    BY <2>4 DEF Linked, Alike
  <2>. QED
    BY <1>1, <1>2, <1>3, <1>4, <2>4, <2>5, <2>6, ElseShown
<1>. QED
  BY <1>5, <1>6

\* Links that are written back keep ids of their own.
LEMMA LinkPatchShown ==
    ASSUME CalInv, Orderly, NEW r \in Requests, LinkPatch(r)
    PROVE  OwnIds' /\ Shows' /\ Vacant' /\ LinksOnly' /\ Books(r)'
<1>1. /\ LinkParts /\ TypeOK /\ OwnIds /\ Vacant /\ LinksOnly /\ Books(r) /\ pc[r] = "linkPatch" /\ Step(r)
      /\ entries' = entries
      /\ op' = op /\ key' = key /\ ev' = ev /\ op[r].name \in Savers /\ ev[r] \in Docs /\ UniqueRefs
  BY PartsOfCalInv DEF CalInv, LinkParts, LinkPatch, Step, Ways, TypeOK
<1>2. AtWork(r) /\ Changing(r) /\ Grip(r) /\ ~Unstored(r) /\ ~Removing(r)
  <2>1. AtWork(r)
    BY <1>1 DEF AtWork, Active, Ended, Answered, Changes
  <2>. QED
    BY <1>1, <2>1 DEF Books, AtWork, LinkParts, Gripped, Unstored, Removing
<1>3. /\ pc'[r] \in {"linkPatch", "audit"}
      /\ todo'[r] \subseteq todo[r]
  BY <1>1, ChangeNames DEF LinkPatch, TypeOK, Goto, AfterTap
<1>4. Books(r)'
  <2>1. Changing(r)'
    <3>1. ~Unstored(r)' /\ ~Removing(r)'
      BY <1>1, <1>3, ChangeNames DEF Unstored, Removing
    <3>2. \A t \in todo'[r] : LinkIds(t.doc, t.for)
      BY <1>1, <1>2, <1>3 DEF Changing
    <3>3. ev'[r].acct = op'[r].acct
      BY <1>1, <1>2 DEF Changing
    <3>. QED
      BY <1>3, <3>1, <3>2, <3>3 DEF Changing
  <2>2. Creating(r)'
    BY <1>3 DEF Creating
  <2>. QED
    BY <2>1, <2>2 DEF Books
<1>5. CASE todo[r] = {}
  <2>1. docs' = docs
    BY <1>1, <1>5 DEF LinkPatch
  <2>. QED
    BY <1>1, <1>2, <1>4, <2>1, StillShown
<1>6. CASE todo[r] # {}
  <2>1. PICK t \in todo[r] : docs' = Patched(Retimed(t.doc, r))
    BY <1>1, <1>6 DEF LinkPatch, Orderly
  <2>2. LinkIds(t.doc, t.for) /\ Linked(t) /\ t.for \in Keys /\ t.doc \in Docs
    BY <1>1, <1>2, <2>1 DEF Changing, Grip, TypeOK
  <2>. DEFINE new == Retimed(t.doc, r)
              k == t.for
              d == docs[k]
  <2>3. /\ new \in Docs /\ new.acct = t.doc.acct /\ new.id = t.doc.id
        /\ new.data.cal = t.doc.data.cal
    BY <1>1, <2>2, RetimedTyped, DocFields DEF Retimed, Docs, Data
  <2>4. d # NoDoc /\ d \in Docs /\ d.kind = "LINKED"
    BY <1>1, <2>2 DEF Linked, Alike, TypeOK
  <2>5. \A j \in Keys : docs[j] = NoDoc => docs'[j] = NoDoc
    BY <2>1 DEF Patched, Matching, Stored
  <2>6. \A j \in Keys : docs[j] # NoDoc =>
           /\ docs'[j] # NoDoc /\ Alike(docs'[j], docs[j]) /\ docs'[j].extra = docs[j].extra
           /\ docs[j].kind = "REGULAR" => docs'[j] = docs[j]
    BY <1>1, LinkPatchMeets DEF LinkParts
  <2>7. k \in Matching(new.acct, new.id)
    BY <2>2, <2>3 DEF Linked, Alike, Matching, Stored
  <2>8. \A j \in Keys : docs[j] # NoDoc /\ j # k => docs'[j] = docs[j]
    <3>. SUFFICES ASSUME NEW j \in Keys, j # k, docs[j] # NoDoc PROVE docs'[j] = docs[j]
      OBVIOUS
    <3>1. j \notin Matching(new.acct, new.id)
      BY <1>1, <2>2, <2>7 DEF Matching, Stored, UniqueRefs
    <3>. QED
      BY <2>1, <3>1 DEF Patched
  <2>9. docs'[k].data.cal = PatchedField(d.data.cal, t.doc.data.cal)
    <3>1. docs'[k] = PatchedDoc(d, new)
      BY <2>1, <2>2, <2>7 DEF Patched
    <3>2. PatchedDoc(d, new).data.cal = PatchedField(d.data.cal, new.data.cal)
      BY <2>4 DEF PatchedDoc, Docs, FieldWise
    <3>. QED
      BY <2>3, <3>1, <3>2
  <2>. HIDE DEF new
  <2>10. Displayed(k, d)
    BY <1>1, <1>2, <2>2, <2>4, NotUpset
  <2>11. Displayed(k, docs'[k])
    <3>1. docs'[k].kind = "LINKED" /\ docs'[k].extra = d.extra
      BY <2>2, <2>4, <2>6 DEF Alike
    <3>2. LinkIds(d, k)
      BY <2>4, <2>10 DEF Displayed, IdsOf
    <3>3. NullOr(docs'[k].data.cal, k)
      BY <2>2, <2>9, <3>2, PatchedIds DEF LinkIds
    <3>4. LinkIds(docs'[k], k)
      BY <3>1, <3>2, <3>3 DEF LinkIds
    <3>. QED
      BY <2>4, <2>10, <3>1, <3>4 DEF Displayed, IdsOf
  <2>12. WrittenShown
    <3>. SUFFICES ASSUME NEW j \in Keys, docs'[j] # NoDoc PROVE Displayed(j, docs'[j])
      BY DEF WrittenShown
    <3>1. CASE j = k
      BY <2>11, <3>1
    <3>2. CASE j # k
      BY <1>1, <1>2, <2>5, <2>8, <3>2, NotUpset
    <3>. QED
      BY <3>1, <3>2
  <2>13. LeftVacant(r)
    BY <1>1, <2>5, <2>6 DEF LeftVacant, Vacant, Keys
  <2>14. pc'[r] # "idle"
    BY <1>3
  <2>. QED
    BY <1>1, <1>4, <2>12, <2>13, <2>14, StoreShown
<1>. QED
  BY <1>5, <1>6

\* An arrival touches nothing that is stored.
LEMMA ArrivalTouches ==
    ASSUME NEW r \in Requests, Arrive(r)
    PROVE  docs' = docs /\ entries' = entries /\ pc[r] = "idle"
BY DEF Arrive, OnlyLocal, stores

\* Any step of an orderly run.
LEMMA OrderlyShown ==
    ASSUME CalInv, Orderly, NEW r \in Requests, Arrive(r) \/ Step(r)
    PROVE  OwnIds' /\ Shows' /\ Vacant' /\ LinksOnly' /\ Books(r)'
<1>1. LinkParts /\ TypeOK /\ Ways
  BY PartsOfCalInv DEF LinkParts
<1>2. CASE Arrive(r)
  <2>1. /\ docs' = docs /\ entries' = entries /\ pc[r] = "idle"
    BY <1>2, ArrivalTouches
  <2>2. pc[r] # "insert" /\ ~Unstored(r) /\ ~Removing(r)
    BY <2>1 DEF Unstored, Removing
  <2>. QED
    BY <1>1, <1>2, <2>1, <2>2, StillShown, ArriveBooks
<1>3. CASE Read(r) \/ Resolve(r) \/ NewID(r) \/ Source(r)
  <2>1. /\ docs' = docs /\ entries' = entries /\ op' = op
        /\ pc[r] \in {"read", "resolve", "newID", "source"} /\ (pc[r] = "source" => ev[r].kind = "LINKED")
    BY <1>1, <1>3 DEF Read, Resolve, NewID, Source, NotFound, OnlyLocal, stores, locals, Ways
  <2>2. pc[r] # "insert" /\ ~Unstored(r) /\ ~Removing(r)
    BY <2>1 DEF Unstored, Removing
  <2>3. Step(r)
    BY <1>3 DEF Step
  <2>. QED
    BY <1>3, <2>1, <2>2, <2>3, StillShown, ReadBooks, ResolveBooks, NewIDBooks, SourceBooks
<1>4. CASE Reread(r)
  <2>1. docs' = docs /\ entries' = entries /\ op' = op /\ pc[r] = "reread"
    BY <1>4 DEF Reread, NotFound, OnlyLocal, stores, locals
  <2>2. pc[r] # "insert" /\ ~Unstored(r) /\ ~Removing(r)
    BY <2>1 DEF Unstored, Removing
  <2>. QED
    BY <1>4, <2>1, <2>2, StillShown, RereadBooks DEF Step
<1>5. CASE Notify(r) \/ Mail(r) \/ Audit(r) \/ Links(r)
  <2>1. pc[r] # "insert" /\ Step(r)
    BY <1>5 DEF Notify, Mail, Audit, Links, Step
  <2>. QED
    BY <1>5, <2>1, StillShown, TapBooks
<1>. QED
  BY <1>2, <1>3, <1>4, <1>5, CallsShown, InsertShown, RemoveShown, PatchShown, LinkCalendarShown,
     LinkPatchShown DEF Step

\* The first events are on the calendars,
LEMMA InitCalInv ==
    ASSUME SeedsPlain, SeedsShow
    PROVE  Init => CalInv
<1>. SUFFICES ASSUME Init PROVE CalInv
  OBVIOUS
<1>1. /\ \A r \in Requests : pc[r] = "idle"
      /\ docs = [k \in Keys |-> IF k \in SeedKeys THEN Seeds[k] ELSE NoDoc] /\ entries = SeedEntries
  BY DEF Init
<1>2. OneActive /\ \A r \in Requests : Heeds(r) /\ Books(r)
  BY <1>1 DEF OneActive, Heeds, Books, Active
<1>3. \A k \in Keys : docs[k] # NoDoc => k \in SeedKeys /\ docs[k] = Seeds[k]
  BY <1>1
<1>4. OwnIds /\ LinksOnly
  <2>1. OwnIds
    BY <1>3 DEF OwnIds, SeedsShow
  <2>2. \A r \in Requests : docs[r] = NoDoc
    BY <1>1, ConstantsOK DEF Keys
  <2>. QED
    BY <2>1, <2>2 DEF LinksOnly
<1>5. Shows
  BY <1>1, <1>3 DEF Shows, Showing, EntriesFor, SeedsShow
<1>6. Vacant
  BY <1>1, ConstantsOK DEF Vacant, EntriesFor, SeedsShow
<1>. QED
  BY <1>2, <1>4, <1>5, <1>6, InitDebriefInv DEF CalInv

\* and stay there.
LEMMA NextCalInv ==
    ASSUME ChangesAlone, BodiesPlain, IdsLeft
    PROVE  CalInv /\ [Next]_vars => CalInv'
<1>. SUFFICES ASSUME CalInv, [Next]_vars PROVE CalInv'
  OBVIOUS
<1>1. DebriefInv /\ DebriefInv' /\ LinkParts /\ TypeOK /\ OneActive
  BY NextDebriefInv, PartsOfCalInv DEF CalInv, LinkParts
<1>2. CASE UNCHANGED vars
  <2>1. OneActive' /\ (Orderly' <=> Orderly)
    BY <1>1, <1>2 DEF vars, OneActive, OneAtATime, Serial, Failing, Active, Orderly
  <2>2. ASSUME Orderly PROVE OwnIds' /\ Shows' /\ Vacant' /\ LinksOnly'
    <3>1. OwnIds /\ Shows /\ Vacant /\ LinksOnly
      BY <2>2 DEF CalInv
    <3>2. OwnIds' /\ LinksOnly' /\ Vacant'
      BY <1>2, <3>1 DEF vars, OwnIds, LinksOnly, Vacant, EntriesFor
    <3>3. Shows'
      BY <1>2, <3>1 DEF vars, Shows, Upset, Unstored, Removing, Showing, EntriesFor
    <3>. QED
      BY <3>2, <3>3
  <2>3. ASSUME Orderly, NEW r \in Requests PROVE Heeds(r)' /\ Books(r)'
    <3>1. Heeds(r) /\ Books(r)
      BY <2>3 DEF CalInv
    <3>2. Heeds(r)'
      BY <1>2, <3>1 DEF vars, Heeds
    <3>3. (Active(r)' <=> Active(r)) /\ (Creating(r) => Creating(r)')
      BY <1>2 DEF vars, Active, Creating, OwnEntry, Home, Showing, EntriesFor
    <3>4. Changing(r) => Changing(r)'
      BY <1>2 DEF vars, Changing, Unstored, Removing, Showing, EntriesFor
    <3>5. op'[r].name = op[r].name
      BY <1>2 DEF vars
    <3>. QED
      BY <3>1, <3>2, <3>3, <3>4, <3>5 DEF Books
  <2>. QED
    BY <1>1, <2>1, <2>2, <2>3 DEF CalInv
<1>3. ASSUME NEW r \in Requests, Arrive(r) \/ Step(r) \/ Fail(r) \/ Skip(r) \/ Crash(r)
      PROVE  CalInv'
  <2>1. OneActive' /\ (Orderly' => Orderly)
    <3>1. given' = given
      BY <1>3, SameCondition
    <3>. QED
      BY <1>1, <1>3, <3>1, OneActiveStays DEF Orderly, Serial, Failing
  <2>2. ASSUME Orderly
        PROVE  OwnIds' /\ Shows' /\ Vacant' /\ LinksOnly' /\ \A s \in Requests : Heeds(s)' /\ Books(s)'
    <3>1. Arrive(r) \/ Step(r)
      BY <1>1, <1>3, <2>2, OrderlyStep
    <3>2. \A s \in Requests \ {r} : ~Active(s)'
      BY <1>1, <1>3, <2>2, OrderlyStep
    <3>3. OwnIds' /\ Shows' /\ Vacant' /\ LinksOnly' /\ Books(r)'
      BY <2>2, <3>1, OrderlyShown
    <3>4. \A s \in Requests : Books(s)'
      BY <3>2, <3>3 DEF Books
    <3>5. \A s \in Requests : Heeds(s)'
      BY <1>1, <1>3, <2>2, HeedsStays DEF CalInv
    <3>. QED
      BY <3>3, <3>4, <3>5
  <2>. QED
    BY <1>1, <2>1, <2>2 DEF CalInv
<1>. QED
  BY <1>2, <1>3 DEF Next, Rest

\* Where requests come one at a time and nothing fails, the calendar shows between requests
\* each regular event once, under the id that its document keeps, and no draft and nothing
\* for an event that is gone: what updateGoogleCalendars deletes is the entry that is there,
\* and what it inserts is stored before the next request reads.  It takes that bodies carry no
\* calendar ids and that links are made in other accounts than the event's own; either would
\* delete, or leave behind, an entry that another document keeps.
THEOREM CalendarsShown ==
    ASSUME ChangesAlone, SeedsPlain, BodiesPlain, IdsLeft, SeedsShow
    PROVE  Spec => []CalendarInSync
<1>1. CalInv => CalendarInSync
  <2>. SUFFICES ASSUME CalInv, Orderly, Quiet
                PROVE  /\ \A k \in Stored : docs[k].kind = "REGULAR" =>
                             EntriesFor(k) = IF docs[k].data.status = "DRAFT" THEN {}
                                             ELSE {docs[k].data.cal}
                       /\ \A r \in Requests : /\ pc[r] = "done" /\ docs[r] = NoDoc
                                              /\ op[r].name \in {"add", "copy"}
                             => EntriesFor(r) = {}
    BY DEF CalendarInSync
  <2>1. Shows /\ Vacant
    BY DEF CalInv
  <2>2. \A k : ~Upset(k)
    BY DEF Quiet, Upset, Unstored, Removing, Active, Ended, Answered
  <2>. QED
    BY <2>1, <2>2 DEF Shows, Vacant, Showing, Stored
<1>. QED
  BY <1>1, InitCalInv, NextCalInv, PTL DEF Spec
=============================================================================
