----------------------------- MODULE EventStore -----------------------------
(***************************************************************************)
(* The Events collection of the server, the Google calendars and the audit *)
(* log that its handlers keep beside it, and the requests that work on     *)
(* them (packages/server/src/api/events/{events,debrief}, Event.ts,        *)
(* GoogleUtils.ts, MySQLUtil.ts and Audits.ts of server-common).           *)
(*                                                                         *)
(* The requests run on one Node process per CPU, which share nothing but   *)
(* the database; a request gives way to the others of its process at every *)
(* await.  An action below is what one request does between two awaits     *)
(* that touch shared state, named after the call it stands for.            *)
(* No call is made inside a database transaction, and the Events           *)
(* collection has no unique key other than _id.                            *)
(*                                                                         *)
(* What an event says is abstracted to the Fields that the handlers treat  *)
(* differently from each other.  A request stands for one that has passed  *)
(* the permission filters: a refused one touches nothing that is kept here.*)
(***************************************************************************)
EXTENDS Integers, FiniteSets

CONSTANTS
    Accounts,    \* account IDs
    Requests,    \* HTTP requests; each is served once
    SeedKeys,    \* the _id of each document stored before the first request
    Conditions,  \* under which the requests come: one of them holds throughout
    Seeds,       \* SeedKeys -> the documents stored at the start
    SeedEntries, \* the calendar entries of those documents
    MaxId,       \* bound on event ids
    Times,       \* values of the pair meetDateTime, pickupDateTime
    Contacts,    \* values of pointsOfContact
    Undef,       \* a field that a document does not have
    NoEntry,     \* googleCalendarIds whose ids are null
    Cleared,     \* googleCalendarIds that is an empty object
    NoDoc        \* no document

\* A document's _id is made by the insertion, so the request names it.
Keys == Requests \union SeedKeys
Ids == 1..MaxId
Refs == Accounts \X Ids

Statuses == {"DRAFT", "CONFIRMED", "CANCELLED"}

\* A calendar entry: the calendar it is on, the request that inserted it and
\* the document it was inserted for (Google's id for it is a fresh UUID).
Entries == [on : Accounts, by : Keys, for : Keys]

\* What an event says: the fields that the handlers treat differently from
\* each other.  A debrief item is named after the request that added it.
Data == [status : {Undef} \union Statuses,
         times : {Undef} \union Times,
         pocs : {Undef} \union Contacts,
         debrief : {Undef} \union SUBSET Requests,
         cal : {Undef, NoEntry, Cleared} \union Entries]

Nothing == [status |-> Undef, times |-> Undef, pocs |-> Undef,
            debrief |-> Undef, cal |-> Undef]

\* A link has extraProperties (extra); a regular event has a debrief.
Docs == {d \in [acct : Accounts, id : Ids, kind : {"REGULAR", "LINKED"},
                target : Refs, data : Data, extra : Data] :
            d.kind = "REGULAR" => d.data.debrief # Undef}

Creators == {"add", "copy", "link"}
Savers == {"set", "addDebrief", "deleteDebrief"}
OpNames == Creators \union Savers \union {"delete"}

\* What a request asks for: the event (acct, id) it addresses, the fields of
\* its body, the account a link is made in and the debrief item to delete.
Ops == [name : OpNames, acct : Accounts, id : Ids, body : Data,
        to : Accounts, item : {Undef} \union Requests]

Answered == {"done", "failed"}
Ended == Answered \union {"lost"}
Main == {"read", "resolve", "newID", "calendar", "insert", "reread", "source",
         "patch", "remove"}
\* Side effects, made in a tap: AsyncEither.tap keeps the value it is given,
\* whatever becomes of the function it calls.
Tapped == {"notify", "mail", "links", "linkCalendar", "linksAgain", "linkPatch",
           "audit"}
Labels == {"idle"} \union Ended \union Main \union Tapped

\* The side effects that read a query through generateResults, where nothing
\* handles the rejection of the query before its consumer has the last item.
Streamed == {"mail", "links", "linksAgain"}

\* A condition: the operations that requests may ask for (menu), sets of operations
\* of each of which one runs at a time (serial), and the places where a call to a
\* database or to Google may fail (failing).
Setting == [menu : SUBSET Ops, serial : SUBSET SUBSET OpNames,
            failing : SUBSET (Main \union Tapped)]

ASSUME ConstantsOK ==
    /\ \A i \in DOMAIN Conditions : Conditions[i] \in Setting
    /\ Seeds \in [SeedKeys -> Docs]
    /\ SeedEntries \subseteq Entries
    /\ MaxId \in Nat \ {0}
    /\ SeedKeys \intersect Requests = {}
    /\ NoDoc \notin Docs \union Refs

\* The values that stand for null ids and for the empty object are no others.
ASSUME NullIsNoValue ==
    /\ NoEntry \notin {Undef, Cleared}
    /\ NoEntry \notin Statuses \union Times \union Contacts
    /\ \A items \in SUBSET Requests : items \notin {NoEntry, Cleared, Undef}

ASSUME ClearedIsNoValue ==
    Cleared \notin {Undef} \union Statuses \union Times \union Contacts

ASSUME NullIsNoEntry == {Undef, NoEntry, Cleared} \intersect Entries = {}

\* No two stored documents answer to the same account and id at the start.
ASSUME SeedsUnique ==
    \A j, k \in SeedKeys :
        Seeds[j].acct = Seeds[k].acct /\ Seeds[j].id = Seeds[k].id => j = k

VARIABLES
    docs,     \* the Events collection
    entries,  \* the entries on the Google calendars
    audits,   \* the Audits collection
    notices,  \* the notifications to points of contact
    mails,    \* the cancellation notices that went out
    pc,       \* where each request is
    op,       \* what it asks for
    ev,       \* the event it holds in memory
    key,      \* the _id of the document it found
    was,      \* the saved event's data before the save (oldEvent)
    cal,      \* the ids that the calendar calls returned
    newId,    \* the id that getNewID returned
    todo,     \* the links it still has to visit
    given     \* which condition holds

stores == <<docs, entries, audits, notices, mails>>
locals == <<op, ev, key, was, cal, newId, todo>>
vars == <<docs, entries, audits, notices, mails, pc,
          op, ev, key, was, cal, newId, todo, given>>

Menu == Conditions[given].menu
Serial == Conditions[given].serial
Failing == Conditions[given].failing

-----------------------------------------------------------------------------
(* Reading and combining documents *)

Stored == {k \in Keys : docs[k] # NoDoc}

\* The documents that a find on accountID and id returns.
Matching(a, i) == {k \in Stored : docs[k].acct = a /\ docs[k].id = i}

LinksTo(a, i) == {k \in Stored : /\ docs[k].kind = "LINKED"
                                 /\ docs[k].target = <<a, i>>}

\* g applied to two events field by field.
FieldWise(g(_, _), a, b) ==
    [status |-> g(a.status, b.status), times |-> g(a.times, b.times),
     pocs |-> g(a.pocs, b.pocs), debrief |-> g(a.debrief, b.debrief),
     cal |-> g(a.cal, b.cal)]

\* The spread {...base, ...over}: whole fields of over win.
Over(b, n) == IF n = Undef THEN b ELSE n
Overlay(base, over) == FieldWise(Over, base, over)

\* ensureResolvedEvent: identity and type stay those of the link.
Resolved(link, target) ==
    [link EXCEPT !.data = Overlay(Overlay(target.data, link.data), link.extra)]

\* What a merge patch makes of one field: a field it leaves out stays, null ids
\* are dropped from the object that holds them, an empty object adds nothing.
PatchedField(b, n) ==
    IF n = Undef \/ (n = Cleared /\ b # Undef) THEN b
    ELSE IF n = NoEntry THEN Cleared ELSE n

\* saveToCollectionA: the patch goes to every document with that account and id.
PatchedDoc(d, new) ==
    [d EXCEPT !.kind = new.kind,
              !.target = IF new.kind = "LINKED" THEN new.target ELSE @,
              !.data = FieldWise(PatchedField, @, new.data),
              !.extra = FieldWise(PatchedField, @, new.extra)]

\* Slip: every field that the saved event has counts as a difference.
DifferentAlways(o, n) == n

\* getEventDifferences, with areDeepEqual: the keys of the old value decide, so
\* an empty googleCalendarIds equals every other.
Different(o, n) == IF o \in {Undef, Cleared} \/ o = n THEN Undef ELSE n
Differences(oldData, newData) == FieldWise(Different, oldData, newData)

\* Slip: the number of events of the account stands for the greatest id.
IsNextCount(a, n) == n = Cardinality({k \in Stored : docs[k].acct = a}) + 1

\* getNewID: one more than the greatest id of the account, or 1.
IsNextId(a, n) ==
    LET ids == {docs[k].id : k \in {j \in Stored : docs[j].acct = a}} IN
    \/ ids = {} /\ n = 1
    \/ /\ n - 1 \in ids
       /\ \A i \in ids : i < n

\* Slip: the old entry is not deleted.
WithoutNone(c, x, mayFail) == {entries}

\* What the calendars hold after the event with id x is deleted from calendar c.
\* deleteCalendarEvent swallows every error, so an id that is not on c is no
\* matter, and a call that fails leaves the event where it is.
Without(c, x, mayFail) ==
    {{e \in entries : ~(e = x /\ e.on = c)}}
        \union (IF mayFail THEN {entries} ELSE {})

-----------------------------------------------------------------------------
(* Requests *)

Goto(r, label) == pc' = [pc EXCEPT ![r] = label]

\* Steps with their stores: the rest of the stores is left alone.
OnlyLocal == UNCHANGED <<stores, given>>

Active(r) == pc[r] \notin Ended \union {"idle"}

\* A request comes in.  The operations of a set in Serial are asked for one at a
\* time; that is how an account may be administered, not something the code
\* enforces.
Arrive(r) ==
    /\ pc[r] = "idle"
    /\ \E o \in Menu :
          /\ \A g \in Serial : o.name \in g =>
                ~\E s \in Requests : Active(s) /\ op[s].name \in g
          /\ op' = [op EXCEPT ![r] = o]
          /\ Goto(r, IF o.name = "add" THEN "newID" ELSE "read")
          /\ ev' = [ev EXCEPT ![r] =
                [acct |-> o.acct, id |-> o.id, kind |-> "REGULAR",
                 target |-> <<o.acct, o.id>>,
                 data |-> [o.body EXCEPT !.debrief = {}, !.cal = NoEntry],
                 extra |-> Nothing]]
    /\ UNCHANGED <<key, was, cal, newId, todo>>
    /\ OnlyLocal

\* A call on the way to the result may be refused or time out: the request ends
\* with an error and whatever it has done so far stays done.
Fail(r) ==
    /\ pc[r] \in Main \intersect Failing
    /\ Goto(r, "failed")
    /\ UNCHANGED locals
    /\ OnlyLocal

\* Where a request goes after a side effect.
AfterTap(r) ==
    CASE pc[r] = "notify" -> "mail"
      [] pc[r] = "mail" -> "patch"
      [] pc[r] = "links" -> "linkCalendar"
      [] pc[r] = "linkCalendar" -> "linksAgain"
      [] pc[r] = "linksAgain" -> "linkPatch"
      [] pc[r] = "linkPatch" -> "audit"
      [] OTHER -> IF op[r].name = "delete" THEN "remove" ELSE "done"

\* A side effect that fails is not made, or not finished, and nobody is told.  What
\* becomes of a link that is not written is LinkPatch.
Skip(r) ==
    /\ pc[r] \in (Tapped \ {"links", "linksAgain", "linkPatch"}) \intersect Failing
    /\ Goto(r, AfterTap(r))
    /\ todo' = [todo EXCEPT ![r] = {}]
    /\ UNCHANGED <<op, ev, key, was, cal, newId>>
    /\ OnlyLocal

\* A query of generateResults is rejected: that is an unhandled rejection, which
\* index.ts throws again.  The process ends, and with it the requests it was at.
Crash(r) ==
    /\ pc[r] \in Streamed \intersect Failing
    /\ \E others \in SUBSET Requests :
          pc' = [s \in Requests |-> IF s = r \/ (s \in others /\ Active(s))
                                   THEN "lost" ELSE pc[s]]
    /\ UNCHANGED locals
    /\ OnlyLocal

\* Slip: nothing answers when the event is not found.
NotFoundSilently(r) == UNCHANGED vars

\* The filters on what was read answer with an error.
NotFound(r) == Goto(r, "failed") /\ UNCHANGED locals /\ OnlyLocal

\* Slip: adddebrief keeps only the new item.
DesiredAfresh(r, data) ==
    CASE op[r].name = "addDebrief" -> [data EXCEPT !.debrief = {r}]
      [] OTHER -> data

\* What the handler makes of the resolved event before it passes it on: the
\* body over the event (setevent, copy), the debrief with an item more or less.
Desired(r, data) ==
    CASE op[r].name = "set" -> Overlay(data, op[r].body)
      [] op[r].name = "copy" ->
            [Overlay(data, op[r].body) EXCEPT !.debrief = {}, !.cal = NoEntry]
      [] op[r].name = "addDebrief" -> [data EXCEPT !.debrief = @ \union {r}]
      [] op[r].name = "deleteDebrief" ->
            [data EXCEPT !.debrief = @ \ {op[r].item}]
      [] OTHER -> data

\* Slip: deleteEvent goes straight to the document.
AfterReadAtOnce(r) ==
    CASE op[r].name \in Savers -> "reread"
      [] op[r].name = "delete" -> "remove"
      [] OTHER -> "newID"

AfterRead(r) ==
    CASE op[r].name \in Savers -> "reread"
      [] op[r].name = "delete" -> "calendar"
      [] OTHER -> "newID"

\* getEvent, and what the handler does with a regular event.  Links can be
\* neither linked to nor debriefed.
Read(r) ==
    /\ pc[r] = "read"
    /\ \/ \E k \in Keys :
             /\ Matching(op[r].acct, op[r].id) = {k}
             /\ docs[k].kind = "REGULAR" \/ op[r].name \in {"set", "copy", "delete"}
             /\ key' = [key EXCEPT ![r] = k]
             /\ IF docs[k].kind = "LINKED"
                THEN /\ ev' = [ev EXCEPT ![r] = docs[k]]
                     /\ Goto(r, "resolve")
                ELSE /\ ev' = [ev EXCEPT ![r] =
                                  [docs[k] EXCEPT !.data = Desired(r, @)]]
                     /\ Goto(r, AfterRead(r))
             /\ UNCHANGED <<op, was, cal, newId, todo>>
             /\ OnlyLocal
       \/ /\ ~\E k \in Keys :
                /\ Matching(op[r].acct, op[r].id) = {k}
                /\ docs[k].kind = "REGULAR" \/ op[r].name \in {"set", "copy", "delete"}
          /\ NotFound(r)

\* The link that a request has read, resolved, as the handler passes it on.
InHand(r, target) ==
    LET d == Resolved(ev[r], target) IN
    [d EXCEPT !.data = Desired(r, d.data),
              !.kind = IF op[r].name = "copy" THEN "REGULAR" ELSE d.kind]

\* The second half of ensureResolvedEvent: the event that the link names.  The
\* permission filter that follows reads its author and points of contact; it
\* throws when the target is a link, which has neither.
Resolve(r) ==
    LET t == ev[r].target
        Target(k) == Matching(t[1], t[2]) = {k} /\ docs[k].data.pocs # Undef
    IN
    /\ pc[r] = "resolve"
    /\ \/ \E k \in Keys :
             /\ Target(k)
             /\ ev' = [ev EXCEPT ![r] = InHand(r, docs[k])]
             /\ Goto(r, AfterRead(r))
             /\ UNCHANGED <<op, key, was, cal, newId, todo>>
             /\ OnlyLocal
       \/ /\ ~\E k \in Keys : Target(k)
          /\ NotFound(r)

-----------------------------------------------------------------------------
(* Creating: createEvent, copyEvent and linkEvent *)

\* The account the new document goes to.
Home(r) == IF op[r].name = "link" THEN op[r].to ELSE op[r].acct

NewID(r) ==
    /\ pc[r] = "newID"
    /\ \E n \in Ids :
          /\ IsNextId(Home(r), n)
          /\ newId' = [newId EXCEPT ![r] = n]
    /\ key' = [key EXCEPT ![r] = r]
    /\ Goto(r, "calendar")
    /\ UNCHANGED <<op, ev, was, cal, todo>>
    /\ OnlyLocal

\* The calendar a request's own entry is on: saveLinkedEventFunc passes the
\* account of the link's target, every other caller the event's own account.
Calendar(r) ==
    IF op[r].name \in Savers /\ ev[r].kind = "LINKED"
    THEN ev[r].target[1] ELSE Home(r)

\* createGoogleCalendarEvents, updateGoogleCalendars and
\* removeGoogleCalendarEvents: the entry under the id at hand is deleted, then,
\* unless the event is a draft, a new one is inserted.  Calendar calls on
\* different ids commute and are made in one step; Google may fail between them.
CalendarCalls(r) ==
    LET c == Calendar(r)
        entry == [on |-> c, by |-> r, for |-> key[r]]
        mayFail == "calendar" \in Failing
        after == IF op[r].name = "delete" THEN "audit"
                 ELSE IF op[r].name \in Creators THEN "insert"
                 ELSE IF ev[r].kind = "LINKED" THEN "source" ELSE "notify"
    IN
    /\ pc[r] = "calendar"
    /\ \E left \in Without(c, ev[r].data.cal, mayFail) :
          \/ /\ op[r].name = "delete" \/ ev[r].data.status = "DRAFT"
             /\ entries' = IF op[r].name \in Creators THEN entries ELSE left
             /\ cal' = [cal EXCEPT ![r] = NoEntry]
             /\ Goto(r, after)
          \/ /\ op[r].name # "delete" /\ ev[r].data.status # "DRAFT"
             /\ entries' = left \union {entry}
             /\ cal' = [cal EXCEPT ![r] = entry]
             /\ Goto(r, after)
          \/ /\ mayFail
             /\ op[r].name # "delete" /\ ev[r].data.status # "DRAFT"
             /\ entries' = left
             /\ Goto(r, "failed")
             /\ UNCHANGED cal
    /\ UNCHANGED <<docs, audits, notices, mails, op, ev, key, was, newId, todo, given>>

\* Slip: a link is stored without extraProperties.
NewDocBare(r) ==
    [acct |-> Home(r), id |-> newId[r],
     kind |-> IF op[r].name = "link" THEN "LINKED" ELSE "REGULAR",
     target |-> <<ev[r].acct, ev[r].id>>, data |-> ev[r].data, extra |-> Undef]

\* The document that the request adds.
NewDoc(r) ==
    IF op[r].name = "link"
    THEN [acct |-> Home(r), id |-> newId[r], kind |-> "LINKED",
          target |-> <<ev[r].acct, ev[r].id>>,
          data |-> [Nothing EXCEPT !.times = ev[r].data.times, !.cal = cal[r]],
          extra |-> Nothing]
    ELSE [acct |-> Home(r), id |-> newId[r], kind |-> "REGULAR",
          target |-> <<Home(r), newId[r]>>,
          data |-> [ev[r].data EXCEPT !.cal = cal[r]],
          extra |-> Nothing]

\* addToCollection.  A new link is not audited.
Insert(r) ==
    /\ pc[r] = "insert"
    /\ docs' = [docs EXCEPT ![r] = NewDoc(r)]
    /\ Goto(r, IF op[r].name = "link" THEN "done" ELSE "audit")
    /\ UNCHANGED <<entries, audits, notices, mails, given>>
    /\ UNCHANGED locals

\* saveAudit, of what generateCreationAudit, generateChangeAudit and
\* generateDeleteAudit made: which document, what was done to it, by whom.
Audit(r) ==
    /\ pc[r] = "audit"
    /\ audits' = audits \union {[key |-> key[r], by |-> r,
          type |-> IF op[r].name \in Creators THEN "ADD"
                   ELSE IF op[r].name = "delete" THEN "DELETE" ELSE "MODIFY"]}
    /\ Goto(r, AfterTap(r))
    /\ UNCHANGED <<docs, entries, notices, mails, given>>
    /\ UNCHANGED locals

-----------------------------------------------------------------------------
(* Deleting: deleteEvent, after the calendar and the audit *)

\* deleteItemFromCollectionA: whatever has that account and id by now.
Remove(r) ==
    /\ pc[r] = "remove"
    /\ docs' = [k \in Keys |->
          IF k \in Matching(ev[r].acct, ev[r].id) THEN NoDoc ELSE docs[k]]
    /\ Goto(r, "done")
    /\ UNCHANGED <<entries, audits, notices, mails, given>>
    /\ UNCHANGED locals

-----------------------------------------------------------------------------
(* Saving: saveEvent, saveRegularEventFunc and saveLinkedEventFunc *)

\* saveEvent of the backend reads the event again, as oldEvent.  (Not its
\* target: getEvent is memoized by account object and id, and the handler has
\* asked for the target under the same two.)
Reread(r) ==
    LET Old(k) == /\ Matching(ev[r].acct, ev[r].id) = {k}
                  /\ docs[k].kind = ev[r].kind
    IN
    /\ pc[r] = "reread"
    /\ \/ \E k \in Keys :
             /\ Old(k)
             /\ key' = [key EXCEPT ![r] = k]
             /\ was' = [was EXCEPT ![r] = docs[k].data]
             /\ Goto(r, "calendar")
             /\ UNCHANGED <<op, ev, cal, newId, todo>>
             /\ OnlyLocal
       \/ /\ ~\E k \in Keys : Old(k)
          /\ NotFound(r)

\* saveLinkedEventFunc: what the saved link says otherwise than its source does
\* now becomes its extraProperties.  (The code asks for the source and updates
\* the calendar at the same time; neither call sees the other.)
Source(r) ==
    LET t == ev[r].target IN
    /\ pc[r] = "source"
    /\ \/ \E k \in Keys :
             /\ Matching(t[1], t[2]) = {k}
             /\ ev' = [ev EXCEPT ![r].extra = Differences(docs[k].data, ev[r].data)]
             /\ Goto(r, "patch")
             /\ UNCHANGED <<op, key, was, cal, newId, todo>>
             /\ OnlyLocal
       \/ /\ ~\E k \in Keys : Matching(t[1], t[2]) = {k}
          /\ NotFound(r)

\* notifyEventPOCs: those added and those removed hear of it.
Notify(r) ==
    /\ pc[r] = "notify"
    /\ notices' = IF was[r].pocs = ev[r].data.pocs THEN notices
                  ELSE notices \union {[key |-> key[r], by |-> r]}
    /\ Goto(r, AfterTap(r))
    /\ UNCHANGED <<docs, entries, audits, mails, given>>
    /\ UNCHANGED locals

\* Slip: only a draft can be cancelled.
CancelsDraft(r) == was[r].status = "DRAFT" /\ ev[r].data.status = "CANCELLED"

\* Does the save turn the event into a cancelled one?
Cancels(r) == was[r].status # "CANCELLED" /\ ev[r].data.status = "CANCELLED"

\* sendCancelEmail.
Mail(r) ==
    /\ pc[r] = "mail"
    /\ mails' = IF Cancels(r) THEN mails \union {[key |-> key[r], by |-> r]}
                ELSE mails
    /\ Goto(r, AfterTap(r))
    /\ UNCHANGED <<docs, entries, audits, notices, given>>
    /\ UNCHANGED locals

\* The document that a save writes.
SavedDoc(r) ==
    IF ev[r].kind = "LINKED"
    THEN [ev[r] EXCEPT
             !.data = [Nothing EXCEPT !.times = ev[r].data.times, !.cal = cal[r]]]
    ELSE [ev[r] EXCEPT !.data.cal = cal[r]]

\* The patch of document new to every document of its account and id.
Patched(new) ==
    [k \in Keys |-> IF k \in Matching(new.acct, new.id)
                    THEN PatchedDoc(docs[k], new) ELSE docs[k]]

Patch(r) ==
    /\ pc[r] = "patch"
    /\ docs' = Patched(SavedDoc(r))
    /\ Goto(r, IF ev[r].kind = "LINKED" THEN "done" ELSE "links")
    /\ UNCHANGED <<entries, audits, notices, mails, given>>
    /\ UNCHANGED locals

\* getLinkedEvents, asked once for the calendars and once for the times.
Links(r) ==
    /\ pc[r] \in {"links", "linksAgain"}
    /\ todo' = [todo EXCEPT ![r] =
          {[doc |-> docs[k], for |-> k] : k \in LinksTo(ev[r].acct, ev[r].id)}]
    /\ Goto(r, AfterTap(r))
    /\ UNCHANGED <<op, ev, key, was, cal, newId>>
    /\ OnlyLocal

\* updateGoogleCalendarsForLinkedEvents: each link's entry is replaced, and the
\* id of the new one is dropped.
LinkCalendar(r) ==
    /\ pc[r] = "linkCalendar"
    /\ \/ /\ todo[r] = {}
          /\ Goto(r, AfterTap(r))
          /\ UNCHANGED <<entries, todo>>
       \/ \E l \in todo[r] :
             LET c == l.doc.acct
                 entry == [on |-> c, by |-> r, for |-> l.for]
                 mayFail == "linkCalendar" \in Failing
             IN
             \E left \in Without(c, l.doc.data.cal, mayFail) :
                \/ /\ entries' = IF ev[r].data.status = "DRAFT" THEN left
                                  ELSE left \union {entry}
                   /\ todo' = [todo EXCEPT ![r] = @ \ {l}]
                   /\ UNCHANGED pc
                \/ /\ mayFail
                   /\ entries' = left
                   /\ todo' = [todo EXCEPT ![r] = {}]
                   /\ Goto(r, AfterTap(r))
    /\ UNCHANGED <<docs, audits, notices, mails, op, ev, key, was, cal, newId, given>>

\* Slip: the status of the source is written over the link's own.
RetimedAndMarked(link, r) ==
    [link EXCEPT !.data.times = ev[r].data.times,
                 !.extra.status = ev[r].data.status]

\* Slip: the times are not taken over.
RetimedNever(link, r) == link

\* A link with the times of the event that was saved.
Retimed(link, r) == [link EXCEPT !.data.times = ev[r].data.times]

\* updateLinkedEvents: each link, as it was when asked for, is written back with
\* the times of the saved event.  The others are written when one is not.
LinkPatch(r) ==
    /\ pc[r] = "linkPatch"
    /\ \/ /\ todo[r] = {}
          /\ Goto(r, AfterTap(r))
          /\ UNCHANGED <<docs, todo>>
       \/ \E l \in todo[r] :
             /\ \/ docs' = Patched(Retimed(l.doc, r))
                \/ "linkPatch" \in Failing /\ UNCHANGED docs
             /\ todo' = [todo EXCEPT ![r] = @ \ {l}]
             /\ UNCHANGED pc
    /\ UNCHANGED <<entries, audits, notices, mails, op, ev, key, was, cal, newId, given>>

-----------------------------------------------------------------------------
(* The specification *)

Init ==
    /\ docs = [k \in Keys |-> IF k \in SeedKeys THEN Seeds[k] ELSE NoDoc]
    /\ entries = SeedEntries
    /\ audits = {} /\ notices = {} /\ mails = {}
    /\ pc = [r \in Requests |-> "idle"]
    /\ op = [r \in Requests |-> Undef]
    /\ ev = [r \in Requests |-> NoDoc]
    /\ key = [r \in Requests |-> r]
    /\ was = [r \in Requests |-> Nothing]
    /\ cal = [r \in Requests |-> NoEntry]
    /\ newId = [r \in Requests |-> 1]
    /\ todo = [r \in Requests |-> {}]
    /\ given \in DOMAIN Conditions

Step(r) ==
    \/ Read(r) \/ Resolve(r) \/ NewID(r) \/ CalendarCalls(r) \/ Insert(r)
    \/ Audit(r) \/ Remove(r) \/ Reread(r) \/ Source(r) \/ Notify(r) \/ Mail(r)
    \/ Patch(r) \/ Links(r) \/ LinkCalendar(r) \/ LinkPatch(r)

\* The server stays up when every request has come to an end.
Rest == (\A r \in Requests : pc[r] \in Ended) /\ UNCHANGED vars

Next ==
    \/ \E r \in Requests : Arrive(r) \/ Step(r) \/ Fail(r) \/ Skip(r) \/ Crash(r)
    \/ Rest

Spec == Init /\ [][Next]_vars

\* A request that has come in is worked on: every await of the code settles.
\* Nobody is obliged to send a request, and nothing obliges a call to fail.
FairSpec == Spec /\ \A r \in Requests : WF_vars(Step(r))

-----------------------------------------------------------------------------
(* What the module claims *)

\* Every variable has its type.
TypeOK ==
    /\ docs \in [Keys -> Docs \union {NoDoc}]
    /\ entries \subseteq Entries
    /\ audits \subseteq [key : Keys, by : Requests, type : {"ADD", "MODIFY", "DELETE"}]
    /\ notices \subseteq [key : Keys, by : Requests]
    /\ mails \subseteq [key : Keys, by : Requests]
    /\ pc \in [Requests -> Labels]
    /\ op \in [Requests -> {Undef} \union Ops]
    /\ \A r \in Requests : pc[r] # "idle" => op[r] \in Ops /\ ev[r] \in Docs
    /\ ev \in [Requests -> Docs \union {NoDoc}]
    /\ key \in [Requests -> Keys]
    /\ was \in [Requests -> Data]
    /\ cal \in [Requests -> {NoEntry} \union Entries]
    /\ newId \in [Requests -> Ids]
    /\ todo \in [Requests -> SUBSET [doc : Docs, for : Keys]]
    /\ given \in DOMAIN Conditions

\* An account and an id name at most one document.  getEvent answers "Could not
\* find event specified" when they name two, so both would be out of reach.  As
\* getNewID reads and addToCollection writes with calendar calls in between, it
\* takes that no two creations overlap.
UniqueRefs ==
    \A j, k \in Stored :
        docs[j].acct = docs[k].acct /\ docs[j].id = docs[k].id => j = k

\* The id that a creation has been given is still free when the document is
\* stored, whatever was saved or deleted in between.
FreshIds ==
    \A r \in Requests :
        pc[r] \in {"calendar", "insert"} /\ op[r].name \in Creators
        => Matching(Home(r), newId[r]) = {}

\* The reference under which each document is found.
RefOf == [k \in Keys |-> IF docs[k] = NoDoc THEN NoDoc
                         ELSE <<docs[k].acct, docs[k].id>>]

Catalogue == INSTANCE EventRefs WITH ref <- RefOf, NoRef <- NoDoc

\* The collection keeps what EventRefs promises: every step leaves all
\* references alone, stores one document under a free reference, or deletes
\* the one that has a reference.  Saves, which patch whatever has the account
\* and id of the event in memory, never move a document to another reference.
ImplementsEventRefs == Catalogue!Spec

\* A document is removed only after a delete audit that names it: what
\* deleteEvent removes by account and id is the event that it audited.
RemovalAudited ==
    [][\A k \in Keys : docs[k] # NoDoc /\ docs'[k] = NoDoc =>
          \E r \in Requests : [key |-> k, by |-> r, type |-> "DELETE"] \in audits]_vars

\* A regular event turns CANCELLED only by a save that has sent the
\* cancellation notice for that very event.
CancellationMailed ==
    [][\A k \in Keys :
          /\ docs[k] # NoDoc /\ docs'[k] # NoDoc
          /\ docs[k].kind = "REGULAR"
          /\ docs[k].data.status # "CANCELLED"
          /\ docs'[k].data.status = "CANCELLED"
          => \E r \in Requests : pc[r] = "patch" /\ [key |-> k, by |-> r] \in mails]_vars

\* A debrief item that was accepted stays until somebody asks to delete it:
\* no other save of the event drops it.
DebriefKept ==
    \A r \in Requests :
        /\ pc[r] = "done" /\ op[r].name = "addDebrief"
        /\ docs[key[r]] # NoDoc
        /\ ~\E s \in Requests : /\ pc[s] # "idle"
                                /\ op[s].name = "deleteDebrief" /\ op[s].item = r
        => r \in docs[key[r]].data.debrief

\* What a link overrides is changed by saving the link and by nothing else: a
\* save of its source, which writes the whole link back, does not undo an edit.
OverridesKept ==
    [][\A k \in Keys :
          /\ docs[k] # NoDoc /\ docs'[k] # NoDoc
          /\ docs'[k].extra # docs[k].extra
          => \E r \in Requests : /\ pc[r] = "patch" /\ key[r] = k
                                 /\ ev[r].kind = "LINKED"]_vars

\* One request at a time, and nothing fails.
Orderly == OpNames \in Serial /\ Failing = {}
Quiet == \A r \in Requests : ~Active(r)
EntriesFor(k) == {e \in entries : e.for = k}

\* Where requests come one at a time and nothing fails, between requests the calendar
\* shows each regular event once, under the id that its document keeps, and no draft
\* and no event that is gone.
CalendarInSync ==
    Orderly /\ Quiet =>
        /\ \A k \in Stored : docs[k].kind = "REGULAR" =>
              EntriesFor(k) = IF docs[k].data.status = "DRAFT" THEN {}
                              ELSE {docs[k].data.cal}
        /\ \A r \in Requests : /\ pc[r] = "done" /\ docs[r] = NoDoc
                               /\ op[r].name \in {"add", "copy"}
              => EntriesFor(r) = {}

\* Somebody has asked to delete the event that link l was made for; its id may
\* be in use again.
SourceDeleted(l) ==
    \E r \in Requests : /\ pc[r] # "idle" /\ op[r].name = "delete"
                        /\ docs[l].target = <<op[r].acct, op[r].id>>

\* Where requests come one at a time and nothing fails, between requests a link whose
\* times were never edited has those of its source.
LinksFollowSource ==
    Orderly /\ Quiet =>
        \A l, k \in Stored :
            /\ docs[l].kind = "LINKED" /\ docs[l].extra.times = Undef
            /\ docs[l].target = <<docs[k].acct, docs[k].id>>
            /\ ~SourceDeleted(l)
            => docs[l].data.times = docs[k].data.times

\* A link overrides only what somebody saved on the link itself: everything
\* else it shows keeps following the source.
OverridesAreEdits ==
    \A l \in Stored : docs[l].kind = "LINKED" /\ ~SourceDeleted(l) =>
        LET Edited(P(_)) == \E r \in Requests :
                /\ pc[r] # "idle" /\ op[r].name = "set"
                /\ op[r].acct = docs[l].acct /\ op[r].id = docs[l].id
                /\ P(op[r].body)
        IN /\ docs[l].extra.status # Undef => Edited(LAMBDA b : b.status # Undef)
           /\ docs[l].extra.times # Undef => Edited(LAMBDA b : b.times # Undef)
           /\ docs[l].extra.pocs # Undef => Edited(LAMBDA b : b.pocs # Undef)
           /\ docs[l].extra.debrief = Undef

\* "Links cannot be made to links, so by resolving a link we actually get an
\* event" (Event.ts, ensureResolvedEvent).
LinksResolveToEvents ==
    \A l, k \in Stored :
        docs[l].kind = "LINKED" /\ docs[l].target = <<docs[k].acct, docs[k].id>>
        => docs[k].kind = "REGULAR"

\* Every request that comes in is answered, as long as no process ends under it.
EveryRequestAnswered == \A r \in Requests : Active(r) ~> pc[r] \in Answered
=============================================================================
