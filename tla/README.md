# EvMPlus server: specification and proofs

TLA+ models of EvMPlus (the server, `src/packages/server` and `src/packages/server-common`, with the Discord bot and
the drive page of the client where they act on what the server keeps), the TLC configurations that check them on small instances, and theorems about them checked by TLAPS.

The server is a TypeScript application on Node. Its master process forks one worker per CPU; the
workers share a MySQL document store and nothing else. A request is a chain of awaited calls
(`AsyncEither.map`, `flatMap`, `tap`): a worker gives way to its other requests at every await, and
other workers run at any time. Apart from three transactions, at the creation of an event account,
where permissions are set and where a prospective member is upgraded, **no handler uses a database transaction or a lock**, and most collections have no unique key
other than `_id`. Nearly everything that can go wrong comes from this: what a request read
earlier is stale when it writes, a chain can stop half way, and side effects in other systems
(Google Calendar, mail) are made one by one.

## 1. Inventory

### Events collection and event requests — modelled
*Code*: `server/src/api/events/{events,debrief}`, `server-common/src/Event.ts`.
*State*: documents of the `Events` table, regular (`RawRegularEventObject`) or linked
(`RawLinkedEvent`); an event is reached by `accountID` and `id`, an application-level number.
*Operations*: add, copy, link, set, delete, add and delete a debrief item. A save of a regular event
updates the calendar, notifies points of contact, mails attendees on cancellation, patches the document,
then brings links and the audit log after it in taps.
*Interactions*: the calendars through `GoogleUtils.ts`, links in other accounts, `Audits`,
`Notifications`, mail.
*Hard*: read–modify–write over several awaits; ids from a greatest-plus-one read; a save that
writes links of other accounts back whole; failures swallowed by taps; a failed streamed query that
ends the process.
*Correct when*: account and id name one event, an id given to a creation stays free until the
document is stored, deletion removes the event it audited, a save does not undo another, a cancelled event was
mailed about, links show what their source says except where edited, calendars show each event once, and
every request is answered.

### Google calendar synchronisation — partly modelled (in `EventStore`)
*Code*: `server-common/src/GoogleUtils.ts`. *State*: entries on one calendar per account; the ids kept
in `googleCalendarIds` of the documents. *Operations*: create, update (delete and insert), remove.
*Hard*: the entry and its id live in two systems; `deleteCalendarEvent` swallows every error; the
ids of entries made for links are dropped. The main, registration and fee entries of an event are made and
removed together and are one entry in the model. Creating an account's calendar is left out.

### Document store helpers — partly modelled (`ResultStream`; `EventStore` uses the rest)
*Code*: `server-common/src/MySQLUtil.ts`. *State*: tables of JSON documents; per streamed query a
queue, a callback and a flag. *Operations*: `getNewID`, `addToCollection`, `saveToCollectionA`
(`_doc = JSON_MERGE_PATCH`), `deleteItemFromCollectionA`, `generateResults`. *Hard*: the hand-over between the
driver's callbacks and the async generator; a merge patch keeps fields that the new document leaves
out and drops nulls. *Correct when*: rows arrive in order and complete and no consumer is left
waiting. Building and binding of queries is pure and left out.

### Audit log — partly modelled (in `EventStore`)
*Code*: `server-common/src/Audits.ts`. Which audit is written when and for which document, and
`areDeepEqual` as `getEventDifferences` uses it. The contents of a change audit are left out.

### Promise and Either combinators — partly modelled (in `EventStore`)
*Code*: `common-lib/src/lib/{AsyncEither,iter,Util}.ts`. What a chain does when a step fails and
what a tap does; which repeated reads `memoize` answers from memory. The other combinators are pure.

### Server process — partly modelled (`Crash` in `EventStore`, `Attendance`, `Teams`; `Reject` in `ResultStream`; `Drive`)
*Code*: `server/src/{index,getAPIRouter}.ts`, `server/src/lib/{API,asyncErrorHandler,saveServerError}.ts`. An unhandled rejection is thrown again and ends the worker with every
request it was at; workers are not forked again. A request takes a database session out of a pool of `DB_POOL_SIZE`, waits for one
without a limit of time, and gives it back at the end of its chain. *Hard*: ways through a handler that do not give
the session back, or give it back twice. *Correct when*: every session is in the pool or in the hands of one request, and every request is
served. `Drive` shows how far that is so. Routing is left out, and so is the recording of errors (`saveServerError`) in the other modules: its query is
streamed, so that a call that fails may end the worker there too.

### Attendance — modelled (`Attendance`)
*Code*: `server-common/src/Attendance.ts`, `server/src/api/events/attendance`. *State*: records that name an event by
account and id and a member by reference, with shift time, status, custom fields; no unique key.
*Operations*: add, bulk add, modify, delete. *Interactions*: reads events and links, which others create, save and delete
meanwhile; mail. *Hard*: two sign-ups both find no record (583); departure times are clamped with the bounds
the wrong way round (626); sign-ups keep a record with the source of a link, changes and deletions look for it under the link
(712); a list goes on after a failure that nobody sees; a change writes the whole record as it was read. *Correct
when*: one record per member and event, changes stay and bring nothing back, lists sign everybody up, every
request is answered.

### Sign-in, passwords, sessions, MFA — partly modelled (`SignIn`)
*Code*: `server-common/src/member/pam`, `server/src/api/{signin,formtoken}.ts`, `server/src/api/member/{passwordreset.ts,session,account}`.
*State*: sessions by id, with a type that says what they are good for and a time of expiry; form tokens (20 s); a list of
at most three password hashes per user; reset tokens; MFA set-ups and secrets. *Operations*: sign in, change the password, ask
for a reset and use it, start and finish a second factor, show one, turn a session into one for scanning, get a form
token, and any other request in a session. *Hard*: re-hashing at sign-in writes back a list read earlier (`Password.ts:165`);
a token is looked up and then removed (`Session.ts:423`); a session is made regular and then restricted; set-ups that
overlap (`Session.ts:538`); a failing save in a tap. *Correct when*: a restricted session widens only by what it was
restricted for, passwords change only by being added to their history, a user has one second factor, a token serves once,
every request is answered. Left out: signatures and nonces in place of a captcha, `su`.

### User accounts and permissions — modelled (`UserAccounts`)
*Code*: `server-common/src/member/pam/Account.ts`, `member/members/cap/ProspectiveMember.ts`, `server/src/api/member/{account,permissions}`.
*State*: prospective members, who are known by a number; creation tokens (24 hours); user information by member and by username; one permission
record per member and account; Discord accounts. No unique keys. *Operations*: create a prospective member (with a link, a random or a chosen password),
delete and upgrade one, ask for an account, finish it, set the permissions of everybody, register a Discord account. *Interactions*: an upgrade rewrites the
references in fourteen collections; mail. *Hard*: an account is made in three writes (`Account.ts:172`), the row before the password is looked at; records
are looked for and then added (`Account.ts:416`); a lookup that fails counts as nothing found (187); numbers are handed out again
(`ProspectiveMember.ts:365`); `AsyncEither.All` does not wait for what a rollback should take back (647). *Correct when*: one account, one set of permissions
and one Discord account per member and name, newcomers inherit nothing, an upgrade is seen whole or not at all.

### Organisation accounts — not modelled
*Code*: `server-common/src/Account.ts`. Creation of an event account, in a transaction with a Google
calendar created inside it (161). The rest reads, or saves single documents.

### Teams — modelled (`Teams`)
*Code*: `server-common/src/Team.ts`, `server/src/api/team`. *State*: teams with members, leaders and a history of who left.
*Operations*: create, set, delete, add, modify and remove a member. *Interactions*: every change tells the Discord bot, in the same process,
which gives and takes roles in handlers of its own. *Hard*: a whole team is read and written back; the bot is told before the save; a
leader who stays is taken off and put back. *Correct when*: the history tells each departure once, a team can be
reached by its id, roles follow the stored teams, every request and every handler comes to its end.

### Files — modelled (`Drive`)
*Code*: `server-common/src/File.ts`, `server/src/api/files`, `client/src/pages/drive`, `client/src/components/drive`. *State*: rows with a parent; bytes
on the disk. *Operations*: create a folder, upload, get, list, change name or permissions, put into a folder, take out of it, delete; the page
deletes a folder by listing it, moving what is in it, and deleting it. *Hard*: pages out of date; whole rows written back; a path
is climbed through rows that others move; row and bytes are written and removed side by side; the body of an upload may never come to its end. *Correct when*: the
parents form a tree, nothing is left under a folder that is gone, there are bytes behind every row and none without one, a change does what it is
meant to.

### Notifications, tasks — not modelled
Documents with a few flags and the same store helpers. That a save notifies added and removed points
of contact is in `EventStore`.

### Members and CAPWATCH import — partly modelled (in `UserAccounts`)
Prospective members come, go and become CAP members in `UserAccounts`. The rest are reads of tables that the import replaces in bulk, outside of any request.

### Discord bot — partly modelled (in `Teams`)
*Code*: `discord-bot/src`. The handlers of `teamMemberAdd`, `teamMemberRemove` and `memberChange` and the roles of teams: found by name or made,
read from the member and written back whole. `getTeamRoles` queues on a promise. *Hard*: handlers overlap freely; a rejected one ends the
worker. Roles of duty positions, flights and certifications, commands, and the nightly update are left out.

### Web client — partly modelled (the drive page, in `Drive`)
The deletion of a folder is a series of requests. The rest is user interface.

### Generated API client, command-line utilities, deployment — not modelled
Generated code, one-off scripts and configuration.

## 2. Modules

| module | what it is |
| --- | --- |
| `EventStore` | the Events collection, calendars, audits, notices and mails, and the requests on them |
| `EventRefs` | the abstract specification: references that are taken, kept, given up |
| `EventStoreMC` | accounts, seeds, menus of operations for TLC |
| `EventStoreProofs` | type correctness, uniqueness of references, audits before removals, notices before cancellations, debrief items, overrides, links that follow their source, calendars that show the events; `EventStore` implements `EventRefs` |
| `ResultStream` | `generateResults` with its driver and consumer |
| `ResultStreamProofs` | the safety properties of the stream |
| `Attendance` | attendance records and the requests on them; uses `EventRefs` for the events they name |
| `AttendanceMC` | an event, a link and menus of requests for TLC |
| `AttendanceProofs` | type correctness, one record per member and event, records come by sign-ups only, lists sign everybody up, changes stay |
| `SignIn` | passwords, sessions, second factors, form tokens, and the requests on them |
| `SignInProofs` | type correctness, second factors, expired passwords, scanning sessions; `SignIn` implements `PasswordBook` |
| `PasswordBook` | the abstract specification: the passwords of a user, the newest on top |
| `SignInMC` | a user, sessions, tokens and a menu for TLC |
| `Teams` | the collection Teams, the requests on it, the handlers of the bot |
| `TeamsProofs` | type correctness, teams can be reached, roles follow teams; `Teams` implements `TeamBook` |
| `TeamBook` | the abstract specification: whoever leaves a team is written into its history, once |
| `TeamsMC` | members and menus for TLC |
| `Drive` | the collection Files, the bytes, the pool of sessions, requests and drive pages |
| `DriveProofs` | type correctness, every session of the pool is accounted for |
| `FileTreeProofs` | `Drive` implements `FileTree`; bytes and rows belong together; the folders stay a tree; nothing is left in a folder that is deleted |
| `FileTree` | the abstract specification: a table in which a change touches one thing of one file |
| `DriveMC` | a small drive and four conditions for TLC |
| `UserAccounts` | prospective members, creation tokens, accounts, permissions, Discord accounts, transactions, and the requests on them |
| `UserAccountsMC` | a prospective member, two CAP members and four conditions for TLC |
| `UserAccountsProofs` | type correctness, one row for each `_id`, locks; upgrades are seen whole; nobody has two records; newcomers inherit nothing |

### EventStore
`docs` is the table (one slot per possible insertion; the slot stands for `_id`), `entries` the
calendars, `audits`, `notices`, `mails` the logs. Each request `r` has a place `pc[r]` and the values
its closures hold: `op` (what is asked), `ev` (the event in memory), `key` (the `_id` of the
document it found), `was` (`oldEvent`), `cal` (ids from the calendar calls), `newId`, `todo` (links still to visit).

| place | action | code |
| --- | --- | --- |
| idle | `Arrive` | the request passes parameter and permission checks |
| read | `Read` | `getEvent` and what the handler makes of the event |
| resolve | `Resolve` | `ensureResolvedEvent` for a link |
| newID | `NewID` | `getNewID` |
| calendar | `CalendarCalls` | `createGoogleCalendarEvents`, `updateGoogleCalendars`, `removeGoogleCalendarEvents` |
| insert | `Insert` | `addToCollection` |
| reread | `Reread` | `saveEvent` of the backend reading `oldEvent` |
| source | `Source` | `saveLinkedEventFunc`, differences to the source |
| notify, mail | `Notify`, `Mail` | taps before the save |
| patch | `Patch` | `saveToCollectionA` |
| links, linksAgain | `Links` | `getLinkedEvents` |
| linkCalendar | `LinkCalendar` | `updateGoogleCalendarsForLinkedEvents` |
| linkPatch | `LinkPatch` | `updateLinkedEvents`; where a link cannot be written the others are |
| audit | `Audit` | `saveAudit` |
| remove | `Remove` | `deleteItemFromCollectionA` |
| any of the main chain | `Fail` | the call is refused: the request ends with an error |
| a tap | `Skip` | the side effect fails and nobody is told |
| a streamed tap | `Crash` | the rejection is unhandled: the worker ends, with any of the active requests |

What an event says is reduced to the fields that the handlers treat differently: `status` (decides calendar
and mail), `times` (copied to links), `pocs` (decides notices; a link's own document has none),
`debrief` (a set of items that is rewritten whole), `cal` (ids of the calendar entry). The two conversions
whose detail matters are kept: the merge patch (`PatchedField`: missing fields stay, nulls disappear, an empty
object adds nothing) and `areDeepEqual` (`Different`: keys of the old value decide).

Constants with a meaning of their own:
- `Conditions`: under which the requests come; a behaviour keeps one throughout (`given`), which says what is on the
  `Menu` and the next two.
- `Serial`: sets of operations of each of which only one is under way at a time. **The code
  does not enforce this**; it is a statement about how an account is administered, and every property names
  the sets it needs (section 3).
- `Failing`: the places where a call may fail.
- `MaxId`: bound on ids; 5 exceeds what three requests can reach from two seeds.

### EventRefs
Each document has a reference, or none. A step takes a free reference for one document or drops a
reference. `EventStore` maps `ref` to the account and id of each stored document; saves, calendar
calls and everything else map to stutters.

### ResultStream
`query` is the driver's promise, `queue`, `waits`, `promise`, `done` are the variables of the
closure, `at` is the place in the generator, `got` what the consumer received. `Push` and `Finish` are the
callbacks, `Ask` is `doCallback`, `Yield`, `Caught`, `Leave`, `Return` are the generator,
`Resume` and `Stop` the consumer. Callbacks, generator and consumer are interleaved freely, which
includes every order that the microtask and I/O queues of Node can produce.

### Attendance
Composes with the events through their abstract specification: `ref` is the variable of `EventRefs`, and
`CreateEvent` and `DeleteEvent` are its `Take` and `Drop`, so that everything `EventStore` may do to references
happens beside the requests, ids that are given out again included. `detail` is what an event says that matters
here: its hours, and whether members may sign up by themselves. `recs` is the collection; `by` (request and
position in its list) stands for `_id`. A request has `op`, `round` (the handler reads and checks the event, then
`addMemberToAttendance` does so again), `view` (the event as read, `home` being where its attendance is
kept), `turn` (position in the list) and `found` (the record read).

| place | action | code |
| --- | --- | --- |
| idle | `Arrive` | the request comes in |
| read | `Read` | `getEvent`: exactly one document with that account and id |
| resolve | `Resolve` | `ensureResolvedEvent` for a link |
| attend | `Attend` | `getAttendanceForEvent` and `canSignUpForEvent` or `canSignSomeoneElseUpForEvent` |
| insert | `Insert` | `addToCollection` with the stored shift |
| mail | `Mail` | `sendEmailToMember`; then the answer, or the next of the list |
| list | `List` | the answer of `addattendancebulk` |
| find | `Find` | `getMemberAttendanceRecordForEvent` |
| check | `Check` | `canMemberModifyRecord` and the filter of `applyAttendanceRecordUpdates`, or `canMemberDeleteRecord` |
| patch | `Patch` | the patch of `applyAttendanceRecordUpdates` |
| remove | `Remove` | `deleteAttendanceRecord` |
| any | `Fail`, `Crash` | a call fails: `GiveUp` ends the request or goes on with the list; a streamed one ends the process |

`memoize` decides what is read again: within a list the event is not, its target and its attendance are. A permission is a property
of the request. Fields other than the shift are one field, `note`, as the code treats them alike.

### SignIn
`info` is `UserAccountInfo` (the history of passwords, with how old each is), `resets`, `sessions`, `forms`, `setups`, `secrets` are the collections
of reset tokens, sessions, form tokens, MFA set-ups and MFA secrets. A request in a session goes through `Door` (`removeOldSessions`,
`getSessionFromID`), `Renew` (`updateSessionExpireTime`), with a form token `Token` and `Spend` (`isTokenValid`), and `RequireSessionType`, as
soon as it can be told (`Admit`); then

| request | actions |
| --- | --- |
| sign in | `Lookup`, `Reread`, `Rehash` (`checkIfPasswordValid`, `updatePasswordForUser`), `Factor` (`memberUsesMFA`), `Create`, `Limit` (`updateSession`), `Greet` |
| change the password | `Lookup`, `Save` (`addPasswordForUser`), and `Upgrade` of a session that was given for it |
| ask for a reset, use it | `Lookup`, `Mail`; `Redeem`, `Lookup`, `Save`, `Consume`, `Create`, `Greet` |
| show a second factor | `Verify`, `Expiry`, `Upgrade` |
| set up a second factor | `Setup`, `Propose`; `Confirm`, `Enable` |
| scanning session | `Upgrade` |
| get a form token | `Issue` |

`Lapse` is the passage of time: any session may end between any two steps. A password is new, aged, or old (from before February 2024),
since signing in and `checkIfPasswordExpired` treat these differently. `born`, `shown`, `guarded`, `proven`, `owed` are history variables for the
properties: which sessions exist and have been given out, which of them were made for a user with a second factor, which have seen it shown, and
which were given to change a password, with none handed over to be saved since.

### Teams
`teams` is the collection; a request has the team it read or made in `my`. `Get`, `Apply` (change in memory and tell the bot),
`Save` or `Delete`; a creation goes `NewID`, `Insert`, `Names`. A list of members is what jobs each has, a history is
how often each left with each job. `tasks` are the handlers of the bot that run: `Find` and `Make` (roles of a team), `Read` and `Write` (roles of
a member); a set-up of a member goes `ReadTeams`, `Queue`, `TakeTurn`, `Find`, `Clear`, `Write`. `turn` and
`opened` are `currentTeamPromise` and its resolution. Only the first worker has the bot (`away`); its end (`Crash`) is that of the bot. It comes when any
handler is rejected, that of a set-up by what it awaits around `setupUser`, which catches its own errors (`SetupFails`), and any by the closing of its session
in the end, which is taken together with the writing of the roles.
`crossed` (history) has the members about whom two handlers ran at once.

### Drive
Each user has a page open (`stage`, `page`), which makes one request at a time (`pc`, `call`, `my`). A request takes a session (`Enter`), reads the
files it is about (`Read`), and climbs their parents (`Climb`); then it does what it is for:

| request | actions |
| --- | --- |
| list a folder | `Query`, `PathOn`, `PathEnds` |
| get a file | `Trace`, `PathOn`, `PathEnds` |
| create a folder | `CreateFolder`, `PathOn`, `PathEnds` |
| upload | `Trace`, `PathOn`, `PathEnds`, `Refuse` or `Accept`, `AddRow` and `WriteBytes` in either order, `BothDone`; `BreaksOff` where the body does not come to its end |
| delete | `Delete`, `RemoveRow` and `Unlink` in either order, `BothDone` |
| change info, put into, take out of a folder | `Save` |
| any | `ReadFails`, after which an upload goes through `CloseAgain` |

`WorkerEnds` is the end of a worker in which a streamed query fails: all its requests end, what they have written stays as it is, and the next
requests come to a worker with a pool of its own. `lost` counts the sessions of refused uploads; `twice` counts how often a session may have been put into the pool
when it was there already, by the two handlers that close the session of an upload whose read failed.

The page: `Visit` and `Shown` open a folder, `Choose` asks for something on it, `Unfold`, `Kids`, `MoveKid`, `Unfolded` delete a folder, `Leave`
goes away. The virtual folders are one, `Root`, as all end a path alike. `stale`, `crossed`, `missed` are history variables: whose listing has
been overtaken, whether a place was given by such a page or read, which files were deleted when they had no bytes; `torn` has those whose upload or deletion the end of a worker
has cut in two.

### UserAccounts
`rows` is what the five collections hold, of committed transactions; a row has the request that added it and the member it was added for as its `_id`,
the member it belongs to now, a name, and by whom the newest password (or what the member may do) was set. `tx[r]` is the transaction of request `r`:
what it has taken out and put in, and the tables that it has locked from end to end. There are no indexes, so a removal by anything but `_id`
scans its table; InnoDB then makes other writers wait (`Scans`, `Unlocked`), while readers see what is committed.
`my[r]` has what the closures hold: the member, the row that was found, the token, the rows left to replace, the members left to set.

| place | action | code |
| --- | --- | --- |
| newId, addPerson | `NewId`, `AddPerson` | `createCAPProspectiveMember` |
| info, count, addToken | `Info`, `Count`, `AddToken` | `addUserAccountCreationToken`; the token is stored in a tap |
| mail | `Mail` | the link, or the password, is mailed |
| validate | `Validate` | `validateUserAccountCreationToken` |
| name, rows, member, addRow | `NameFree`, `MemberFree`, `IsMember`, `AddRow` | the filters of `addUserAccount`, and the row without a password |
| read, save, drop | `ReadBack`, `Save`, `Drop` | `addPasswordForUser`, `saveInformationForUser`, `removeAccountToken` |
| find, erase | `Find`, `Erase` | `getMember`, `deleteProspectiveMember` |
| start, finds, replace, commit | `Start`, `Finds`, `Replace`, `Replaced`, `Commit` | `upgradeProspectiveMemberToCAPNHQ`, `updateCollection` |
| erase, replace | `UpgradeFails` | one part of the upgrade fails, the others go on outside of the transaction |
| start, clear, set, put, commit | `Start`, `Clear`, `Look`, `SetRole`, `RolesSet`, `Commit` | `setpermissions.ts`; `setPermissionsForMemberInAccount` looks for the record, then changes or adds it |
| peek, register | `Peek`, `Register` | `registerdiscord.ts` |
| any | `Fail`, `Crash`, `Lapse` | a call fails and the transaction is rolled back; the process ends; a token gets too old |

A member to whom a token is mailed uses that token and no other (`Validate`); which CAP members there are does not change here. Sessions, which a finished
account gets, are in `SignIn`. Of the collections that an upgrade rewrites, the three are modelled in which a reader wants exactly one row.

## 3. Runs

All runs of `EventStore` have accounts A and B and a confirmed event of A (id 1, with its calendar
entry) that an event of B links to; `es_reuse` has two events of A, the link going to the second. Two or three
requests take any operation of the run's menu. Requests are interchangeable and the passing safety runs use
that symmetry (`Permutations(Requests)`); a menu that names requests (a debrief item to delete) contains all of them.
`es_live` uses no symmetry, as liveness under symmetry is not sound.

| run | one at a time (`Serial`) | may fail (`Failing`) | requests | shows |
| --- | --- | --- | --- | --- |
| `es_create` | creations | calendar, removal, and the query for links, with process ends | 3 | `TypeOK`, `UniqueRefs`, `ImplementsEventRefs` |
| `es_save` | creations; saves and deletions together | writes and calendar calls | 3 | `DebriefKept`, `CancellationMailed`, `OverridesKept`, `RemovalAudited`, `OverridesAreEdits` |
| the same, second condition | all | nothing | 3 | the same, `CalendarInSync`, `LinksFollowSource` |
| `es_live` | nothing | everything but streamed queries | 2 | `EveryRequestAnswered` |
| `es_reuse` | all | nothing | 2 | `LinksResolveToEvents` is violated |
| `rs_stream` | | rejection of the query | 8 rows | `FinishedIsComplete` (with the order of the rows), `StreamEnds` |
| `at_sign` | sign-ups of a member | mail, and streamed queries, with process ends | 2 | `TypeOK`, `OneRecord`, `EveryoneSignedUp` |
| `at_change` | sign-ups of a member, changes of a record | everything but streamed queries | 3 | `ChangesKept`, `RequestsAnswered` |
| `sg_sign` | passwords of a user, starts of a second factor, scanning sessions (`Apart`) | everything | 2 | `TypeOK`, `SecondFactorShown`, `ExpiredPasswordChanged`, `OneFactor`, `ImplementsPasswordBook`, `ScanSessionStays`, `RequestsAnswered` |
| `sg_form` | nothing | everything | 2 | `FormsUsedOnce` is violated |
| `tm_teams` | four conditions, below | four conditions | 2 or 3 | `TypeOK`, `RolesFollowTeams`, `ImplementsTeamBook`, `Handled` |
| `fl_files` | four conditions, below | four conditions | 2 pages | `TypeOK`, `SessionsAccounted`, `TreeShaped`, `BytesBehindRows`, `NothingStranded`, `ImplementsFileTree`, `Served` |
| `ua_accounts` | four conditions, below (`apart`) | four conditions | 3 | `TypeOK`, `OneOfEach`, `NewcomersFresh`, `UpgradeWhole` |

The runs of `Attendance` have two references and a document for an event (in `at_sign` two) and for a link
to the first reference, stored at the start or not, in every combination; `Goings` says what happens to them meanwhile:
everything in `at_sign`, deletions in `at_change`.
A document that has been deleted is never stored again (its `_id` is its own), which bounds creations. `at_change` has no
symmetry, as it checks liveness.

Deadlock is checked in every run: `Rest` lets the system stand still only when every request has ended, or the query of a stream is over.

Why these assumptions. Overlapping creations in one account read the same greatest id and both store
it, which makes both events unreachable (`getEvent` wants exactly one); `UniqueRefs` therefore holds exactly
as far as creations do not overlap. Overlapping saves of one event are last-writer-wins on the whole
document, so `DebriefKept` and `OverridesKept` take savers one at a time; what they show
is that saves do not undo each other *through links, calendars, creations and failures*. Calendar
and link agreement is not restored by anything after a failed call, so those properties are stated with
nothing failing and hold between requests (`Quiet`).

Why the bounds are enough. The interesting histories need a writer, a second writer and a creation
or deletion between them: three requests. A link and its source need two accounts. A stream of 8
rows lets the driver run ahead of the consumer, be overtaken by it, and end while the
queue is empty, short or long. A record has an owner and at most two parties at odds: a sign-up and one other
request, at the event and at its link; a list of two shows every way to go on. `at_change` has a third request, so that
a deletion and a new sign-up fit between the reading of a record and its patch.

`sg_sign` takes one user, as no collection relates users. `Apart` lists the pairs that do not overlap: changes, resets and sign-ins
(a sign-in writes back passwords it read), two starts or a start and a finish of a second factor, and whatever else goes on in a session that
becomes one for scanning. No symmetry is used, as the run checks liveness. Everything may fail, the save of a password too, which
the handler does not notice. A history of two, cut at two, shows what is cut and what comes back.

`tm_teams` has four conditions. Requests one at a time, each waiting for the bot, nothing failing: here roles must follow teams. Requests
that overlap, changes of one team and creations apart, any call failing, in a worker without the bot. Handlers that overlap, are rejected and end the process.
Set-ups in a server that has no roles yet, where some fail, but not while others wait for them. The staff team (id 0), which is made of duty positions and
cannot be stored, is among those that requests name.

`fl_files` has four conditions: every deed on two pages, changes of one file apart; drops and changes of names that overlap
freely, three visits, so that one page is out of date while another is opened anew; failing reads and writes; and, with a
pool of one session, which two users wait for, uploads and deletions where uploads are refused, break off or fail to read their folder, and streamed queries fail and end the worker. A drive of two folders and a file, with room for one more,
is the least in which two folders can be dropped on each other and a folder be deleted with something in it, moved or new. `BytesBehindRows` and
`NothingStranded` say in their antecedents which failures they leave aside: in the third condition both speak of nothing, in the fourth the first speaks.

`ua_accounts` has four conditions. Accounts made one at a time, by link, with a random password and a chosen one that is refused, while members are deleted, tokens
get too old, and writes in taps fail: whoever comes next must still find one account of each. The member who is there has one username, newcomers have another, and a CAP member asks for that one, too. Upgrades that may fail to start, to read, to write or to commit, apart
from what else is done for that member, from joining and from permissions; upgrades in which nothing fails but the commit, while a CAP member asks for an account, gets it and registers, and
before and after deletions and permissions for everybody, the prospective member among them. And everything at once with any call failing, where only the types hold. Each property says in its antecedent which of the conditions it
is about, as it needs of them. `OneOfEach`: accounts are made one at a time for one member and with one name, each member who gets as far as making an account keeps to a username (`NamesKept`), a CAP member is
upgraded to once, and lookups of names and the removal and setting of permissions do not fail. Different members go by different usernames or contend
for one; only one member with two is left aside. The program cannot tell whoever is given the number of somebody who is gone from him: he must go by the same username or be refused a token, as he
is where an old one is left. (Where such a newcomer's password is saved meanwhile into a row that was found under the number, the row takes over his name: this is left aside with him.)
`NewcomersFresh`: members go by upgrades only, links, accounts
and Discord accounts are not made while one goes on, and nobody gives permissions to prospective members. `UpgradeWhole`: no upgrade comes while
something else is done for its member, somebody joins or permissions are set for everybody, and neither its deletion nor its replacements fail. With two prospective members (one
from the start, one who is made on the way and may get the same number) a number is handed out again; a third request fits between
any two steps of an upgrade. In a transaction the database reads from one snapshot, where the model reads what is committed;
the reads of an upgrade are one step, and permissions are read behind a lock of the whole table, so that the two agree where a property speaks.

Fairness. In `EventStore`, weak fairness of `Step(r)` for each request: every await of the code settles, and
the chain goes on. Arrivals and failures are not fair. A streamed query that fails ends the process and
with it requests that will never be answered, so `EveryRequestAnswered` is stated for runs in
which streamed queries succeed; `Attendance` and its `RequestsAnswered` are the same. Nothing is assumed of what happens to
events. `SignIn` and `Drive` are the same: `WF` of each request's next step, not of arrivals, failures, the passage of time,
or what users do on a page. That the pool serves who waits is not enough when no session comes back, and a path
may go on for ever, so `Served` excepts those who wait for a pool that is empty for good and those who climb in a loop. It also
excepts the upload whose body has broken off: busboy does not finish when the client goes away within the body, or when nobody reads on because the file cannot be written, and the code has no limit of time.
For requests at other places `Served` says that each is answered, or ends with its worker; the half of an upload that writes bytes is fair, as a body that comes is written, and
where it does not come (`BreaksOff`) the request is among the exceptions. In `Teams` the bot's handlers are fair too, for each request's handlers together. In `ResultStream`, weak fairness of the driver (it passes its rows),
of the generator (the event loop runs what is due) and of the consumer's `Resume` (`for await` asks on); not of
rejection or of leaving early.

## 4. What is proved

For every set of accounts, requests, menu, seeds and failing calls:

- `TypeCorrect` (`EventStoreProofs`): `Spec => []TypeOK`. `TypeOK` is not inductive: what a
  request has in memory fits its next call only because of how it got there. `IInv == TypeOK /\ Control`
  adds this: a link is resolved only by operations that take links, a request that adds or copies holds a regular
  event, and only creations reach the insertion.
- `RefsUnique`, `IdsFresh`: under `CreationsAlone` (in every condition the creating operations are within a set of
  `Serial`), account and id name at most one document and a given id is free until it is stored. The
  inductive invariant is `RefInv == IInv /\ UniqueRefs /\ FreshIds /\ OneCreation /\ Paths`:
  `OneCreation` says that at most one creation is active, so that nobody else takes the id at hand;
  `Paths` says that only creations reach `insert`, that they do so once, and that their slot is empty until
  then. A patch moves no document (`PatchNoNewRefs`) and a deletion only frees references, which is why saves
  and deletions may overlap with everything.
- `RefsImplemented` (`EventStoreProofs`): under the same assumption, `EventStore` implements
  `EventRefs`: insertion is `Take`, deletion is `Drop`, every other step a stutter.
- `RemovalsAudited`, `CancellationsMailed`, `OverridesStay` (`EventStoreProofs`), under `ChangesAlone` (saves and deletions are
  within one set of `Serial`, creations are made one at a time, and neither the mail nor the audit is among the calls that
  fail) and `SeedsPlain` (the first documents override no calendar ids with null). The code patches and removes by account and id what it
  has read before, with calendar calls, audits and mails in between. `ChangeInv` adds to `RefInv` that a request that changes an event keeps
  hold of it (`Gripped`): the document it found is still there under the account and id it has, `was` is the data that is stored, and
  what must have been sent or audited by its place has been. `OneChange` keeps others from taking it away, `Ways` says which
  operations come to which places, and `Plain` that no stored link holds null ids, so that a link patched with
  its own overrides keeps them. With `UniqueRefs`, what the patch or the removal meets is the document that was found, and no other.
- `DebriefsStay` (`EventStoreProofs`), under `ChangesAlone`, `SeedsPlain` and `BodiesPlain` (the body of setevent has no debrief, as `NewEventObject` has none).
  `DebriefInv` adds to `ChangeInv` that what a save of a regular event is going to write is what its operation makes of the event as it is stored
  (`Meant`): it was read before the calendar calls, and nobody has saved it since. So an item that has been written is there (`Items`), in a document that is
  no other's place (`NotToCome`).
- `LinksFollow`, `OverridesEdited` (`EventStoreProofs`), under these and `TimesGiven` (new events have times) and `SeedsFollow` (the first links show what their sources say,
  and these are there); `OverridesEdited` also under `EachApart`: under each condition either all requests come one at a time and the calls that write links back do not fail,
  or no links are made and no times edited. The two stand and fall together: a save of a link records each difference to its source as an override, so that a
  link that had missed a change of its source would turn the old times into an override that nobody asked for. `LinkInv` says that a link has no
  data of its own but times and calendar ids (`Bare`), that what a saved link is going to say is what it, its source and its overrides say, with what was asked
  for over it (`LinkIntent`), that its times are those of its source or are about to be written back (`Follows`), and that its overrides were asked for (`Edited`).
- `CalendarsShown` (`EventStoreProofs`), under `ChangesAlone`, `SeedsPlain`, `BodiesPlain`, `SeedsShow` (the calendars show the first events) and `IdsLeft` (where requests come
  one at a time, a body has no calendar ids, as `NewEventObject` has none, and no link is made in the event's own account). `CalInv` adds to `DebriefInv` that an
  event holds the id of an entry that was made for it on the calendar of its account, and a link ids made for the link (`OwnIds`), so that no deletion of an
  entry meets another event's; that the calendar shows every event but the one that the active request has changed there and not yet in the document (`Shows`, `Upset`), and what that request
  is going to store instead (`Books`); and that only links leave entries behind (`Vacant`).
- `StreamTyped`, `StreamInOrder`, `StreamComplete`, `WaitingIsIdle`, `RejectionUncaught` (`ResultStreamProofs`), for any
  number of rows: the inductive invariant adds `RowsPlaced` (received rows, the row in the promise
  and the queue are, in this order, 1 to `passed`) and `Flags` (what `done`, `waits` and the place say of each
  other). `StreamComplete` is the property that the run checks, completeness and order in one; the others are about every state on the way.

- `AttendanceTyped`, `OneRecordEach`, `OnlySignUpsAdd` (`AttendanceProofs`), for every set of members, events, links and
  requests, every menu and every set of failing calls. `IInv == TypeOK /\ Control` adds what a request has in
  hand where it needs it: a view of the event, a record it found. For `OneRecord`, under `SignUpsApart` (sign-ups of
  a member are within a set of `Serial`), `RecInv` adds `StillFree`, that a request about to insert has a free place, which
  `OneSignUp`, no other active sign-up of the same member, keeps free. `OnlySignUpsAdd` needs no assumption about
  overlaps.
- `AllSignedUp` (`AttendanceProofs`), under `CallsMade` (the reads of the event and the insertion are not among the calls that fail):
  whoever asked for a list that has been answered well has a record for everybody on it, at the event or where the
  link led. `SignedInv` adds that the view a request acts on is anchored in an event that was there under the reference asked for
  (`Anchored`), and that behind each place in the list there is a record (`Signed`). References are taken once and details stay (`WorldOnce`), so
  that what was read first is still true in the second round.
- `ChangesStay` (`AttendanceProofs`), under `SignUpsApart` and `ChangesApart`: what a change wrote is what a record says until the record goes. `KeepInv` adds to `RecInv` that a
  record found is one that was stored (`Traced`), by a place of a list that has been used up and adds no second one (`Spent`), and
  that a change that reads the record after another was answered has its note in hand (`Rereads`).

- `SignInTyped`, `SecondFactors`, `ExpiredPasswords`, `ScanSessions`, `SecondFactorIsOne`, `PasswordsImplemented` (`SignInProofs`), for
  every set of users, sessions and requests. `IInv == TypeOK /\ Control` again says what a request has in hand where it needs it. That a
  session of somebody with a second factor does not become regular unless one was shown (`SecondFactors`) needs no assumption
  about overlaps: `SessInv` adds what a request about to widen a session knows of it (`Insight`) and that
  a session being made is nobody else's (`Fresh`). The other four each take the pairs of requests that must not overlap as
  an assumption of its own: `SecondsApart`, `ScansApart`, `StartsApart`, `PasswordsApart`. For `PasswordsImplemented`, `BookFit` says that
  the passwords a request has read are those of the book until it has written them back.
- `DriveTyped`, `SessionsKept` (`DriveProofs`), for every finite set of users and every size of the pool: what is in the pool, what requests
  hold and what refused uploads have lost are together the size of the pool and what has been put there twice; and that happens only where an upload has failed to read its folder.
  Uploads that have broken off are among the requests that hold a session, for ever. The proof counts the users whose request holds a session (`Holds`); a step
  changes that set by one user at most, but for the end of the worker, which begins a new pool.
- `FilesImplemented` (`FileTreeProofs`): `Drive` implements `FileTree`. `TreeInv` adds, in conditions where changes of one file
  do not overlap, that a request is alone with its file (`Alone`) and that what it read of it is still the row
  (`Current`): so a row that is written back whole changes the one thing that was asked.
- `BytesKept` (`FileTreeProofs`): as long as no write fails, there are bytes behind each row of a file or they are on their way, and
  bytes without a row are those that were written after a deletion had looked for them. It excepts uploads that have broken off, whose row comes with the bytes that came, or none, and
  the files whose halves the end of a worker has cut in two (`torn`). The two halves of an upload and of a deletion come in any
  order, and a deletion may meet an upload that is half done; `BytesAt` says of each file what row, bytes
  and the halves that are still to come may be together. Ids are fresh (`UploadsApart`), so no row comes a second time.
- `DriveStaysTree` (`FileTreeProofs`): for any number of users and files, nothing comes to lie under itself unless somebody gave a place from a
  page that was out of date, or wrote back a place that he had read before. `ShapeInv` says that the drive is acyclic, and that a page that is not out of date shows
  what lies side by side, so that what is dropped from it goes beside itself or to its parent's parent. The rows form no tree one can do induction on; `Acyclic`
  says instead that of every set of files one has its parent outside, and `AcyclicNoLoops` takes the least climb that would lead
  back. `FirstIsTree` is the assumption that the drive begins so.
- `FoldersEmptied` (`FileTreeProofs`): `NothingStranded`, as long as no read, no query and no write of a changed file fails. No row says that anything is in it; `StrandInv`
  relates what a page has listed, what it has still to move and what it is moving to what lies in the folder: where nobody else has moved anything, that is all there is (`Full`).
  A move takes a file out only because the folder does not lie in itself, which the page knows since the path of what it shows came to an end (`Firm`);
  and it is not refused only because the folder above is there (`There`). What is deleted by itself is no folder, and nothing lies in a file that is none (`RowsIn`), as pages and requests know which are
  folders (`Kinds`); `FirstIsTree` has the drive begin so.
- `TeamsTyped`, `TeamsReached`, `TeamBookImplemented` (`TeamsProofs`). The last two take `RecordsApart`: the first teams have
  distinct ids, and creations, and changes of one team, do not overlap. `BookInv` adds `Ready`, that what a request is
  about to store still fits the row, which `ApartKept` keeps so. The bot's handlers touch no team: they matter only by the crash.
  A new id is above all others; that there is a least such number rests on the order of the naturals.
- `RolesFollow` (`TeamsProofs`), under `RecordsApart` and `RolesCalm`, for any members, teams, menu and number of requests. `RolesCalm` is about
  conditions that are `quiet`: no call fails, nobody is away from the Discord server, which has its roles; a team is created empty
  and without one of `Members` as leader; who is put on a list, or added, comes alone; and where teams are deleted, nobody may both be on a list and lead.
  Without each of the last three roles do not follow teams (section 5). The handlers of one request still run in any order.
  `RolesInv` is relative to `Due`, what the stored teams will say when the request that has told the bot is
  done: whoever no handler is busy with has his roles, whoever a handler is busy with will have them when it ends (`RolesOK`, `HandlersOK`),
  and what the bot is told fits what becomes of the team (`FitsOf`). There is no second role
  of a kind (`FirstRole`), because a role that is missing is made by one handler, which was marked for it when it looked (`Marked`, `MadeAlone`).
- `AccountsTyped`, `UpgradesWhole` (`UserAccountsProofs`), for every set of members, names, requests and first rows, and every condition. A table
  holds rows, not a sequence, so types alone are not kept: that a replaced row is there to be replaced depends on who else writes it.
  `IInv == Plain /\ Control /\ Locks /\ Fresh` says where transactions run and what closures hold (`Control`); that each `_id` is of one row, in the
  tables and in what each transaction sees, and that what a transaction has taken out is there and is taken out by no other (`Locks`); and that a request adds one row to a
  table, or one record for each member of its list (`Fresh`), so that a row that is added has a new `_id`. `UpgradesWhole` needs the antecedent of `UpgradeWhole`
  (`Alone`), and `Upgrades` beside `IInv`: an active request is not about the member of an active upgrade, and nobody joins meanwhile (`Apart`), the upgrade has taken out rows of its member only,
  put in rows of the CAP member only, has not missed any (`Whole`), and permissions, which are set at other times, leave
  rows with the member they are of (`Stays`).
- `RecordsOne` (`UserAccountsProofs`): `OneOfEach`, under its antecedent (`Steady`), for any rows to begin with and any number of requests. `OneInv` traces
  every row that anybody still sees (`Seen`: stored, in a transaction, yet to be replaced, read for a password) to who added it, for whom and under which name
  (`Origin`), and from there to the member it is of now (`Heir`); so rows of one member were added for one member, and those of accounts have the name to which the maker of the account keeps: he
  had a token (`Tokened`), and so the antecedent speaks of him, also when his request is over. A member
  without an account therefore has none under another name (`MakingFor`), a CAP member who is upgraded to has nothing, and gets one row of each table (`HandingOn`),
  and whoever sets permissions has the whole table locked (`OneLock`, `Ruling`), which keeps even upgrades from putting a record back. The rows outlive numbers that are handed out again.
- `NewcomersInheritNothing` (`UserAccountsProofs`): `NewcomersFresh`, under its antecedent (`OnlyUpgraded`), whatever calls fail, at any stage. Nothing says directly that
  a number is free of records when it is handed out; `NewInv` gets there through people: whoever has an account, permissions or a Discord account is a CAP member or somebody there is a person for
  (`Backed`), what is about to be added is for such a member (`Guarded`), and a new number is one that nobody has until its person is added. A person goes in one place, the commit of an upgrade, which by
  then has met all records of the member (`Taking`): those read before have the new reference, and none came after, because who makes one waits for the upgrade (`MakersApart`). Where the upgrade
  fails, its transaction is rolled back with the deletion, so that what goes on outside of it takes nobody away.

The assumptions are the ASSUMEs of the modules: constants have their type, seeds have distinct
references, the first drive is a tree, the values for null ids and for the empty object are no values of another field and no calendar entries.

Only model-checked: the liveness properties, which are out of the prover's reach under fairness. Every invariant and every action property
of the runs is proved.

## 5. Where code and comments disagree

- `es_reuse`: "Links cannot be made to links, so by resolving a link we actually get an event"
  (`Event.ts:239`). The id of a deleted newest event is given out again, links to the deleted
  event remain, and when the id goes to a link, a link resolves to a link.
- `sg_form`: "A token can be fetched from '/api/token', and is valid for one use" (`typings/api.ts:25`). `isTokenValid`
  reads the token and then removes it, in two calls: two requests that both read it first are both served.

Seen on the way, kept in the models as they are, and not contradicted by any document:

- The catch behind the loop of `generateResults` (`MySQLUtil.ts:155–159`) is out of reach: the
  loop waits for the success of the query, and its rejection ends the process
  (`RejectionUncaught`).
- The ids of calendar entries made for links are dropped: the second save of a linked event deletes an entry that is gone, of which
  `GoogleUtils.ts:485` says "this shouldn't happen", and leaves the one of the first save on the calendar for good.
- `addMemberToAttendance` answers a duplicate-record error with "Member is already in attendance" (`Attendance.ts:645`), but the table has
  no unique key that could raise one: two overlapping sign-ups leave two records.
- The departure that a sign-up stores is the meeting time, whatever is asked for (`Attendance.ts:626`, against `types.ts:1199`).
- A tap hides the failure of an audit, a notice or a mail.
- `saveLinkedEventFunc` makes the link's entry on the calendar of the target's account, and keeps
  stale ids among the overrides; `CalendarInSync` speaks of regular events.
- Linking an event within its own account and saving it takes the event's own entry off the calendar; the
  menu of the second condition of `es_save` leaves this operation out.
- A change of attendance at a link finds no record and answers that all is well; a deletion there finds none either.
- Two overlapping changes of one attendance record write it whole, and the later undoes the earlier.
- Records of a deleted event stay and belong to the next event with its id.
- A sign-up whose mail fails is answered with an error and stays.
- Deleting a link resolves it first, so a link whose event is gone cannot be deleted.
- Every sign-in re-hashes the password, because the stored length that is compared is that of the hex (256), not
  `DEFAULT_PASSWORD_STORED_LENGTH`; a change of password that is saved meanwhile is undone.
- Passwords from February 2024 on do not expire at sign-in, but do when a second factor is shown.
- A change of password whose save fails still turns a session given for it into a regular one. A reset makes a regular
  session without a second factor. Signing out leaves the session in the table.
- A new team is stored without its members, while the bot is told of them; the leader of a new team is not announced at all. An addition does not
  look whether the member is on the list. `teams/set` answers that it has saved whether or not it has.
- Who leads a team and is on its list keeps the role of a member when it is deleted: the event for the leader carries the team with its list as it
  was, and `removeMembersFromTeamFunc` leaves out leaders (`Team.ts:473–495`).
- The bot makes the roles of a team twice when two handlers look for them at once; `currentTeamPromise` lets two who waited for the same
  promise go on together, and holds everybody up when a call between fails. Only the first worker tells the bot anything.
- An upload whose token or folder is refused keeps its session for ever (`fileupload.ts:119`); so does one whose body does not come to its end, because the client goes away or the file cannot be written
  (145), and leaves a row with the bytes that have come. So do the start of a worker
  (`getAPIRouter.ts:81`), the connection test of the socket (`createSocketUI.ts:20`) and API requests without a JSON body (`API.ts:274`).
- When a read fails, an upload closes its session and throws, and the error handler, after recording the error with that session, closes it again
  (`fileupload.ts:102`, `asyncErrorHandler.ts:30`). Whether the session is in the pool twice then is for the driver to say, which is not in the repository; what two requests in one session do to each other is not modelled.
- Two pages that show two folders side by side can put each into the other; their files can be reached no more, and each request
  that climbs to them keeps its session. Nothing can take them apart, as `insertchild` climbs the path first.
- The page deletes a folder when any child was moved, and leaves the others behind (`NothingStranded` is stated for moves that do not fail); an empty folder it does not delete.
- `insertchild`, `removefile` and `setfileinfo` answer success when the save fails; so does an upload when the bytes are not written.
- `FileUploader.tsx` (not modelled) takes the action off its queue twice, so that every second file is left out, and waits for ever after a refused upload.
- `setPermissionsForMemberInAccount` adds a record also where the patch of one fails; `setpermissions.ts` hides the failures of its removal and of its
  records in taps, and so commits what is there. Only a transaction that cannot be started gets to the rollback.
- `createWithPassword` drops what becomes of the account, and the mail with a random password goes out whether or not there is an account to
  sign in to.
- A number that is handed out again comes with what `deleteProspectiveMember` left: account, permissions, Discord account. A creation token that was left
  keeps the newcomer from getting one ("already in the process"), as an upgrade does not move it. The first number of a squadron is 2.
- A member with two rows of account passes "Account already exists for member", which looks for exactly one.
- An upgrade to a CAP member who has an account of his own leaves two. Permissions that are set, or an account that is finished, between the reads and the writes of an upgrade stay with
  the old number.
- Every upgrade writes every event and task of all squadrons back as it was read; of the two updaters of `Tasks` (and of `Notifications`) each writes
  the whole document, so that a task of a member for himself keeps one old reference.
- `getRegistry` (not modelled) looks for a registry and makes one: two that overlap make two.

## 6. Not modelled, and the plan

Not modelled: the import of CAPWATCH files (bulk SQL that replaces tables), signatures and nonces of sign-in, weak tokens and Discord sessions,
notifications and tasks (single documents with a flag), organisation accounts, registries, the collections that an upgrade rewrites beside those of `UserAccounts`, the bot beyond teams, the client beyond the drive page, rendering,
validation and configuration.

In this order:

1. `EventAccount`: the transaction with the calendar inside.
2. The pool of sessions with every handler, and the bot's sessions, which come out of the same pool.
