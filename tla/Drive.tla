------------------------------- MODULE Drive --------------------------------
(***************************************************************************)
(* The drive: the collection Files and the directory with what is in the   *)
(* files (server-common/src/File.ts), the handlers that work on them       *)
(* (server/src/api/files), the pool of database sessions that requests     *)
(* share (server/src/getAPIRouter.ts), and the drive page of the client    *)
(* (client/src/pages/drive and client/src/components/drive), on which what *)
(* a user does is often a series of requests.                              *)
(*                                                                         *)
(* Before it does anything a request reads the files it is about, and for  *)
(* each of them climbs the parents up to the root, whose names make the    *)
(* folderPath.  getFileObject climbs the same path again at each parent:   *)
(* here a path is climbed once.                                            *)
(*                                                                         *)
(* The virtual folders (root, events, personal drives) have no row and end *)
(* a path alike: Root is any of them.  The permissions on files are left   *)
(* out, except where a refused request leaves something behind.            *)
(***************************************************************************)
EXTENDS Naturals, FiniteSets

CONSTANTS
    Users,       \* each with one page open, which makes one request at a time
    MaxId,       \* ids are given up to it
    Names,       \* what setInfo may change: name, comments and permissions
    First,       \* the rows that there may be at the beginning
    Conditions,  \* under which the requests come: one of them holds throughout
    Undef        \* no row

Root == 0
Ids == 1..MaxId
Nodes == {Root} \union Ids

Rows == [parent : Nodes, name : Names, folder : BOOLEAN]

Changes == {"setInfo", "insertChild", "removeChild", "delete"}
Creators == {"createFolder", "upload"}
CallNames == Changes \union Creators \union {"children", "get"}
Deeds == CallNames \union {"unfold"}

\* file: the file or folder that the call is about; to: the parent that it names.
Calls == [name : CallNames, file : Nodes, to : Nodes, info : Names]

Labels == {"home", "door", "read", "path", "token", "halves", "closed"}
Stages == {"away", "listing", "page", "doing", "kids", "moving"}
Halves == {"row", "bytes"}

\* What an upload or a deletion waits for: the halves of its work, and the rest of a
\* body that never comes.
Pieces == Halves \union {"rest"}

\* deeds: what users do; visits: how many times a page is opened; pool: maxSize of
\* the pool; apart: changes of one file do not overlap; failing: what may fail.
Setting == [deeds : SUBSET Deeds, visits : Nat, pool : Nat \ {0}, apart : BOOLEAN,
            failing : SUBSET {"read", "row", "bytes", "save", "token", "body", "query"}]

ASSUME DriveOK ==
    /\ IsFiniteSet(Users) /\ Names # {}
    /\ MaxId \in Nat \ {0}
    /\ First \subseteq [Ids -> Rows \union {Undef}]
    /\ \A t \in First, f \in Ids : f > Cardinality({g \in Ids : t[g] # Undef}) => t[f] = Undef
    /\ \A i \in DOMAIN Conditions : Conditions[i] \in Setting
    /\ Undef \notin Rows

\* At the beginning no file lies in one that is yet to come or that is no folder, and
\* whatever files are taken, one of them lies outside of them.
ASSUME FirstIsTree ==
    \A t \in First :
        /\ \A f \in Ids : t[f] # Undef =>
              t[f].parent <= Cardinality({g \in Ids : t[g] # Undef})
        /\ \A f, g \in Ids : t[f] # Undef /\ t[g] # Undef /\ t[f].parent = g => t[g].folder
        /\ \A s \in SUBSET Ids : s # {} =>
              \E f \in s : t[f] = Undef \/ t[f].parent \notin s

VARIABLES
    rows,     \* the collection Files
    disk,     \* DRIVE_STORAGE_PATH: the ids under which there are bytes
    used,     \* ids given out (uuid: here, the next one)
    free,     \* sessions in the pool
    lost,     \* sessions that nobody will give back
    twice,    \* how often a session has been given back that was in the pool already
    pc,       \* where each user's request is
    call,     \* what it asks for
    my,       \* what it has in memory
    stage,    \* where the user's page is
    page,     \* what it shows and what it has still to do
    visits,   \* how many times a page has been opened
    given,    \* which condition holds
    stale,    \* users of whose listing ("page", "kids") something has moved since
    crossed,  \* a file has been put in its place by a stale page or read
    missed,   \* files that were deleted when they had no bytes yet, or no more
    torn      \* files whose upload or deletion the end of a worker has cut in two

Given == Conditions[given]

store == <<rows, disk, used>>
pool == <<free, lost, twice>>
client == <<stage, page, visits>>
ghost == <<stale, crossed, missed, torn>>
vars == <<rows, disk, used, free, lost, twice, pc, call, my, stage, page, visits, given,
          stale, crossed, missed, torn>>

-----------------------------------------------------------------------------
(* The tree *)

IsRow(f) == f # Root /\ rows[f] # Undef

Children(f) == {k \in Ids : rows[k] # Undef /\ rows[k].parent = f}

\* The parents over f; Root has none, and neither has a row that is gone.
Over(f) == IF IsRow(f) THEN {rows[f].parent} \ {Root} ELSE {}

Up(f) == IF IsRow(f) THEN rows[f].parent ELSE Root

Above(f) ==
    LET at[i \in 0..MaxId] == IF i = 0 THEN f ELSE Up(at[i - 1])
    IN  {at[i] : i \in 1..MaxId}

\* The files that are over themselves.
Loops == {f \in Ids : f \in Above(f)}

EndsInLoop(f) == ({f} \union Above(f)) \intersect Loops # {}

-----------------------------------------------------------------------------
(* Requests *)

NoDoc == [parent |-> Root, name |-> CHOOSE n \in Names : TRUE, folder |-> TRUE]

Blank == [want |-> {}, walk |-> {}, doc |-> NoDoc, at |-> Root, new |-> Root,
          halves |-> {}, kids |-> {}, ok |-> TRUE]

Wanted(c) == IF c.name \in {"insertChild", "removeChild"} THEN {c.file, c.to} ELSE {c.file}

Asks(u, c) ==
    /\ call' = [call EXCEPT ![u] = c]
    /\ my' = [my EXCEPT ![u] = [Blank EXCEPT !.want = Wanted(c)]]
    /\ pc' = [pc EXCEPT ![u] = "door"]
    /\ UNCHANGED <<store, pool, given>>

Goes(u, place, m) ==
    /\ pc' = [pc EXCEPT ![u] = place]
    /\ my' = [my EXCEPT ![u] = m]

\* Slip: the way out after an error keeps the session.
AnsweredOpen(u, ok) ==
    /\ Goes(u, "home", [Blank EXCEPT !.ok = ok, !.kids = my[u].kids])
    /\ free' = IF ok THEN free + 1 ELSE free
    /\ UNCHANGED <<lost, twice, call, client, given>>

\* An answer, with which the session is given back.
Answered(u, ok) ==
    /\ Goes(u, "home", [Blank EXCEPT !.ok = ok, !.kids = my[u].kids])
    /\ free' = free + 1
    /\ UNCHANGED <<lost, twice, call, client, given>>

\* fileupload: so it is when a read has failed, but there the handler goes on to throw.
Closed(u) ==
    /\ Goes(u, "closed", [Blank EXCEPT !.ok = FALSE])
    /\ free' = free + 1
    /\ UNCHANGED <<lost, twice, call, client, given>>

Moves(u, place, m) == Goes(u, place, m) /\ UNCHANGED <<pool, call, client, given>>

Unplaced == UNCHANGED <<rows, disk, used, ghost>>

\* Every listing that another user has is out of date when a row has come, gone or
\* found another parent.
Placed(u) ==
    stale' = IF \A f \in Ids : /\ (rows'[f] = Undef) = (rows[f] = Undef)
                               /\ rows[f] # Undef => rows'[f].parent = rows[f].parent
             THEN stale
             ELSE [v \in Users |-> IF v = u THEN stale[v] ELSE {"page", "kids"}]

InHand(u) == pc[u] \notin {"home", "door"}
Holds(u) == InHand(u) /\ pc[u] # "closed"

\* The pool has a session, or the request waits for one (setupDatabase).
Enter(u) ==
    /\ pc[u] = "door"
    /\ free > 0
    /\ Given.apart =>
          ~\E v \in Users : /\ InHand(v)
                            /\ call[v].name \in Changes /\ call[u].name \in Changes
                            /\ call[v].file = call[u].file
    /\ free' = free - 1
    /\ pc' = [pc EXCEPT ![u] = "read"]
    /\ UNCHANGED <<store, lost, twice, call, my, client, given, ghost>>

\* getFileObject: the row must be there.
Read(u) ==
    /\ pc[u] = "read"
    /\ \E f \in my[u].want :
          IF f = Root \/ IsRow(f)
          THEN Moves(u, "read", [my[u] EXCEPT
                   !.want = @ \ {f},
                   !.walk = @ \union Over(f),
                   !.doc = IF f = call[u].file /\ f # Root THEN rows[f] ELSE @])
          ELSE Answered(u, FALSE)
    /\ Unplaced

ReadFails(u) ==
    /\ pc[u] = "read"
    /\ "read" \in Given.failing
    /\ my[u].want # {}
    /\ IF call[u].name = "upload" THEN Closed(u) ELSE Answered(u, FALSE)
    /\ Unplaced

\* asyncErrorHandler catches what an upload has thrown, and closes the session once
\* more.  Whether it is in the pool twice then is up to the driver.
CloseAgain(u) ==
    /\ pc[u] = "closed"
    /\ Goes(u, "home", [Blank EXCEPT !.ok = FALSE])
    /\ \/ UNCHANGED <<free, twice>>
       \/ free' = free + 1 /\ twice' = twice + 1
    /\ UNCHANGED <<lost, call, client, given>>
    /\ Unplaced

\* getFilePath: one parent more.  The path ends at a virtual folder, and where a
\* row is missing, which getRegularFileObject ignores.
Climb(u) ==
    /\ pc[u] = "read"
    /\ \E f \in my[u].walk :
          Moves(u, "read", [my[u] EXCEPT !.walk = (@ \ {f}) \union Over(f)])
    /\ Unplaced

Gathered(u, names) ==
    /\ pc[u] = "read" /\ my[u].want = {} /\ my[u].walk = {}
    /\ call[u].name \in names

\* children/getfiles: the rows whose parent this is, and then their paths.
Query(u) ==
    /\ Gathered(u, {"children"})
    /\ Moves(u, "path", [my[u] EXCEPT
           !.kids = {<<k, rows[k].folder>> : k \in Children(call[u].file)},
           !.at = call[u].file])
    /\ stale' = [stale EXCEPT ![u] = IF stage[u] = "kids" THEN @ \ {"kids"} ELSE {}]
    /\ UNCHANGED <<store, crossed, missed, torn>>

\* files/fileinfo, and fileupload before anything else: the path from the parent.
Trace(u) ==
    /\ Gathered(u, {"get", "upload"})
    /\ Moves(u, "path", [my[u] EXCEPT !.at = my[u].doc.parent])
    /\ Unplaced

\* files/createfolder: in a folder, which may be gone by then.
CreateFolder(u) ==
    /\ Gathered(u, {"createFolder"})
    /\ \/ /\ my[u].doc.folder
          /\ used < MaxId
          /\ used' = used + 1
          /\ rows' = [rows EXCEPT ![used'] =
                 [parent |-> call[u].file, name |-> call[u].info, folder |-> TRUE]]
          /\ Moves(u, "path", [my[u] EXCEPT !.at = call[u].file])
          /\ Placed(u)
          /\ UNCHANGED <<disk, crossed, missed, torn>>
       \/ /\ my[u].doc.folder => "row" \in Given.failing
          /\ Answered(u, FALSE)
          /\ Unplaced

\* Slip: the path goes on from the same file.
PathOnAgain(u) ==
    /\ pc[u] = "path"
    /\ IsRow(my[u].at)
    /\ Moves(u, "path", my[u])
    /\ Unplaced

\* expandRawFileObject and getFilePath, which do not ignore that a row is missing.
\* The client does not show a folder without a path, nor children without one.
PathOn(u) ==
    /\ pc[u] = "path"
    /\ IsRow(my[u].at)
    /\ Moves(u, "path", [my[u] EXCEPT !.at = rows[@].parent])
    /\ Unplaced

PathEnds(u) ==
    /\ pc[u] = "path"
    /\ ~IsRow(my[u].at)
    /\ IF call[u].name = "upload" /\ my[u].at = Root
       THEN Moves(u, "token", my[u])
       ELSE Answered(u, my[u].at = Root)
    /\ Unplaced

\* fileupload: a bad form token, or no permission for the folder.  It returns
\* without closing the session.
Refuse(u) ==
    /\ pc[u] = "token"
    /\ "token" \in Given.failing
    /\ Goes(u, "home", [Blank EXCEPT !.ok = FALSE])
    /\ lost' = lost + 1
    /\ UNCHANGED <<free, twice, call, client, given>>
    /\ Unplaced

\* Otherwise, bytes and row are written side by side under a new id.
Accept(u) ==
    /\ pc[u] = "token"
    /\ used < MaxId
    /\ used' = used + 1
    /\ Moves(u, "halves", [my[u] EXCEPT !.new = used', !.halves = Halves])
    /\ UNCHANGED <<rows, disk, ghost>>

\* deleteFileObject: row and bytes go side by side.
Delete(u) ==
    /\ Gathered(u, {"delete"})
    /\ Moves(u, "halves", [my[u] EXCEPT !.halves = Halves])
    /\ Unplaced

\* The file of which u has row and bytes in hand.
WorksOn(u, f) ==
    /\ pc[u] = "halves"
    /\ \/ call[u].name = "upload" /\ my[u].new = f
       \/ call[u].name = "delete" /\ call[u].file = f

Half(u, h) ==
    /\ pc[u] = "halves"
    /\ h \in my[u].halves

HalfDone(u, h, ok) ==
    Moves(u, "halves", [my[u] EXCEPT !.halves = @ \ {h}, !.ok = @ /\ ok])

\* Slip: an upload does not say that it is no folder.
NewRowBare(u) == [parent |-> call[u].file, name |-> call[u].info]

NewRow(u) == [parent |-> call[u].file, name |-> call[u].info, folder |-> FALSE]

AddRow(u) ==
    /\ Half(u, "row")
    /\ call[u].name = "upload"
    /\ \/ /\ rows' = [rows EXCEPT ![my[u].new] = NewRow(u)]
          /\ HalfDone(u, "row", TRUE)
       \/ /\ "row" \in Given.failing
          /\ rows' = rows
          /\ HalfDone(u, "row", FALSE)
    /\ Placed(u)
    /\ UNCHANGED <<disk, used, crossed, missed, torn>>

\* uploadFile gives an Either that nobody looks at.
WriteBytes(u) ==
    /\ Half(u, "bytes")
    /\ call[u].name = "upload"
    /\ \/ disk' = disk \union {my[u].new}
       \/ "bytes" \in Given.failing /\ disk' = disk
    /\ HalfDone(u, "bytes", TRUE)
    /\ UNCHANGED <<rows, used, ghost>>

\* The body of an upload ends before there is a file in it, or within the file, of
\* which the disk may have some, when the client goes away; or it is not read to its
\* end, when the file cannot be written.  Then busboy never finishes, and nothing else
\* ends the request.  (A user who comes back does so as another user.)
BreaksOff(u) ==
    /\ \/ /\ pc[u] = "token"
          /\ "body" \in Given.failing
          /\ Moves(u, "halves", [Blank EXCEPT !.halves = {"rest"}])
          /\ disk' = disk
       \/ /\ Half(u, "bytes")
          /\ call[u].name = "upload"
          /\ Given.failing \intersect {"body", "bytes"} # {}
          /\ Moves(u, "halves", [my[u] EXCEPT !.halves = (@ \ {"bytes"}) \union {"rest"}])
          /\ disk' \in {disk, disk \union {my[u].new}}
    /\ UNCHANGED <<rows, used, ghost>>

RemoveRow(u) ==
    /\ Half(u, "row")
    /\ call[u].name = "delete"
    /\ \/ /\ rows' = [rows EXCEPT ![call[u].file] = Undef]
          /\ HalfDone(u, "row", TRUE)
       \/ /\ "row" \in Given.failing
          /\ rows' = rows
          /\ HalfDone(u, "row", FALSE)
    /\ Placed(u)
    /\ UNCHANGED <<disk, used, crossed, missed, torn>>

\* Slip: the bytes stay.
UnlinksNever(u) == FALSE

\* A folder has no bytes; those of a file may be gone already.
Unlinks(u) == ~my[u].doc.folder

Unlink(u) ==
    /\ Half(u, "bytes")
    /\ call[u].name = "delete"
    /\ LET f == call[u].file
       IN  /\ \/ /\ disk' = IF Unlinks(u) THEN disk \ {f} ELSE disk
                 /\ HalfDone(u, "bytes", Unlinks(u) => f \in disk)
              \/ /\ "bytes" \in Given.failing /\ Unlinks(u)
                 /\ disk' = disk
                 /\ HalfDone(u, "bytes", FALSE)
           /\ missed' = IF Unlinks(u) /\ f \notin disk THEN missed \union {f} ELSE missed
    /\ UNCHANGED <<rows, used, stale, crossed, torn>>

BothDone(u) ==
    /\ pc[u] = "halves"
    /\ my[u].halves = {}
    /\ Answered(u, my[u].ok)
    /\ Unplaced

\* Slip: the place of a file goes with a change of its name.
ChangedAtRoot(u) ==
    LET c == call[u]
    IN  CASE c.name = "setInfo" -> [my[u].doc EXCEPT !.name = c.info, !.parent = Root]
          [] c.name = "insertChild" -> [my[u].doc EXCEPT !.parent = c.to]
          [] c.name = "removeChild" -> [my[u].doc EXCEPT !.parent = Root]

\* files/setfileinfo, children/insertchild and children/removefile make of what
\* they have read ...
Changed(u) ==
    LET c == call[u]
    IN  CASE c.name = "setInfo" -> [my[u].doc EXCEPT !.name = c.info]
          [] c.name = "insertChild" -> [my[u].doc EXCEPT !.parent = c.to]
          [] c.name = "removeChild" -> [my[u].doc EXCEPT !.parent = Root]

\* ... and write the whole of it, if the row is still there.  They answer alike
\* whatever has become of it (.map(saveFileObject)).
Save(u) ==
    /\ Gathered(u, {"setInfo", "insertChild", "removeChild"})
    /\ IF call[u].name = "removeChild" /\ my[u].doc.parent # call[u].to
       THEN Answered(u, FALSE) /\ Unplaced
       ELSE /\ \/ rows' = IF IsRow(call[u].file)
                          THEN [rows EXCEPT ![call[u].file] = Changed(u)] ELSE rows
               \/ "save" \in Given.failing /\ rows' = rows
            /\ Answered(u, TRUE)
            /\ Placed(u)
            /\ crossed' = \/ crossed
                          \/ /\ IsRow(call[u].file)
                             /\ rows'[call[u].file].parent # rows[call[u].file].parent
                             /\ "page" \in stale[u] \/ call[u].name = "setInfo"
            /\ UNCHANGED <<disk, used, missed, torn>>

Serve(u) ==
    \/ Enter(u) \/ Read(u) \/ ReadFails(u) \/ CloseAgain(u) \/ Climb(u) \/ Query(u)
    \/ Trace(u) \/ CreateFolder(u) \/ PathOn(u) \/ PathEnds(u) \/ Refuse(u) \/ Accept(u)
    \/ Delete(u) \/ AddRow(u) \/ WriteBytes(u) \/ BreaksOff(u) \/ RemoveRow(u)
    \/ Unlink(u) \/ BothDone(u) \/ Save(u)

Idle(u) == pc[u] = "home"

\* Requests with a query of which the rows are streamed: for children, and for the
\* errors among which whatever fails is recorded (saveServerError).
Streams(u) ==
    \/ Gathered(u, {"children"})
    \/ InHand(u) /\ Given.failing \intersect {"read", "row", "bytes"} # {}

\* generateResults: nobody catches it when such a query fails, which ends the worker and
\* every request in it.  Who comes again comes to another worker, with a pool of its own.
WorkerEnds ==
    /\ "query" \in Given.failing
    /\ \E u \in Users : Streams(u)
    /\ pc' = [u \in Users |-> "home"]
    /\ my' = [u \in Users |-> IF Idle(u) THEN my[u] ELSE [Blank EXCEPT !.ok = FALSE]]
    /\ free' = Given.pool /\ lost' = 0 /\ twice' = 0
    /\ torn' = torn \union {f \in Ids : \E u \in Users : WorksOn(u, f)}
    /\ UNCHANGED <<store, call, client, given, stale, crossed, missed>>

-----------------------------------------------------------------------------
(* The drive page *)

NoPage == [at |-> Root, seen |-> {}, folder |-> Root, todo |-> {}, any |-> FALSE]

Stage(u, s, p) ==
    /\ stage' = [stage EXCEPT ![u] = s]
    /\ page' = [page EXCEPT ![u] = p]

Call(name, f, to, info) == [name |-> name, file |-> f, to |-> to, info |-> info]
Plain(name, f) == Call(name, f, Root, NoDoc.name)

\* goToFolder.
Visit(u) ==
    /\ stage[u] = "away" /\ Idle(u)
    /\ visits < Given.visits
    /\ visits' = visits + 1
    /\ \E f \in {Root} \union {k \in Ids : IsRow(k) /\ rows[k].folder} :
          Asks(u, Plain("children", f))
    /\ Stage(u, "listing", NoPage)
    /\ UNCHANGED ghost

Home(u, s, p) ==
    /\ Stage(u, s, p)
    /\ my' = [my EXCEPT ![u] = [Blank EXCEPT !.ok = FALSE]]
    /\ UNCHANGED <<store, pool, pc, call, visits, given, ghost>>

Shown(u) ==
    /\ stage[u] = "listing" /\ Idle(u)
    /\ IF my[u].ok
       THEN Home(u, "page", [NoPage EXCEPT !.at = call[u].file, !.seen = my[u].kids])
       ELSE Home(u, "away", NoPage)

\* Slip: a folder may be dropped on itself.
ChoicesOnItself(u) ==
    LET at == page[u].at
        seen == {x[1] : x \in page[u].seen}
        folders == {x[1] : x \in {x \in page[u].seen : x[2]}}
    IN  {Call("insertChild", k[1], k[2], NoDoc.name) : k \in seen \X folders}

\* What may be asked for on a page.  A folder is dropped on another one of the page,
\* not on itself (DriveFolderDisplay).  No page asks for removeChild.
Choices(u) ==
    LET at == page[u].at
        seen == {x[1] : x \in page[u].seen}
        folders == {x[1] : x \in {x \in page[u].seen : x[2]}}
    IN  {Call(name, at, Root, info) : name \in Creators, info \in Names}
        \union {Call("setInfo", k, Root, info) : k \in seen, info \in Names}
        \union {Call("insertChild", k[1], k[2], NoDoc.name) :
                   k \in {k \in seen \X folders : k[1] # k[2]}}
        \union {Call("removeChild", k, at, NoDoc.name) : k \in seen}
        \union {Plain("delete", k) : k \in seen \ folders}
        \union {Plain("get", k) : k \in seen}

\* The ids that requests under way may take.
Creating == {v \in Users : call[v].name \in Creators /\ pc[v] \notin {"home", "halves"}}
Room == used + Cardinality(Creating) < MaxId

Choose(u) ==
    /\ stage[u] = "page" /\ Idle(u)
    /\ \E c \in Choices(u) :
          /\ c.name \in Given.deeds
          /\ c.name \in Creators => Room
          /\ Asks(u, c)
    /\ Stage(u, "doing", page[u])
    /\ UNCHANGED <<visits, ghost>>

Leave(u) ==
    /\ \/ stage[u] = "page"
       \/ stage[u] = "doing"
       \/ stage[u] = "moving" /\ page[u].todo = {} /\ ~(page[u].any \/ my[u].ok)
       \/ stage[u] = "kids" /\ ~my[u].ok
    /\ Idle(u)
    /\ Home(u, "away", NoPage)

\* To delete a folder (saveFiles of DriveExtraFolderDisplay), the page lists what is
\* in it, ...
Unfold(u) ==
    /\ stage[u] = "page" /\ Idle(u)
    /\ "unfold" \in Given.deeds
    /\ \E x \in page[u].seen :
          /\ x[2]
          /\ Asks(u, Plain("children", x[1]))
          /\ Stage(u, "kids", [page[u] EXCEPT !.folder = x[1]])
    /\ UNCHANGED <<visits, ghost>>

Kids(u) ==
    /\ stage[u] = "kids" /\ Idle(u)
    /\ my[u].ok
    /\ Home(u, "moving", [page[u] EXCEPT !.todo = {x[1] : x \in my[u].kids}])

\* ... moves that out, one after the other, ...
MoveKid(u) ==
    /\ stage[u] = "moving" /\ Idle(u)
    /\ \E k \in page[u].todo :
          /\ Asks(u, Call("insertChild", k, page[u].at, NoDoc.name))
          /\ Stage(u, "moving", [page[u] EXCEPT
                 !.todo = @ \ {k}, !.any = @ \/ my[u].ok])
    /\ UNCHANGED <<visits, ghost>>

\* Slip: the folder goes as soon as one of them has been moved.
UnfoldedAtOnce(u) ==
    /\ stage[u] = "moving" /\ Idle(u)
    /\ page[u].any \/ my[u].ok
    /\ Asks(u, Plain("delete", page[u].folder))
    /\ Stage(u, "doing", page[u])
    /\ UNCHANGED <<visits, ghost>>

\* ... and deletes the folder if any of them has been moved: an empty folder stays.
Unfolded(u) ==
    /\ stage[u] = "moving" /\ Idle(u)
    /\ page[u].todo = {}
    /\ page[u].any \/ my[u].ok
    /\ Asks(u, Plain("delete", page[u].folder))
    /\ Stage(u, "doing", page[u])
    /\ UNCHANGED <<visits, ghost>>

Act(u) ==
    \/ Visit(u) \/ Shown(u) \/ Choose(u) \/ Leave(u) \/ Unfold(u) \/ Kids(u)
    \/ MoveKid(u) \/ Unfolded(u)

\* Nobody is on a page, or who is waits for a session that there is not, or for the end
\* of an upload that has broken off.
Rest ==
    /\ \A u \in Users :
          \/ stage[u] = "away" /\ Idle(u) /\ visits = Given.visits
          \/ pc[u] = "door" /\ free = 0
          \/ pc[u] = "halves" /\ my[u].halves = {"rest"}
    /\ UNCHANGED vars

Next == (\E u \in Users : Serve(u) \/ Act(u)) \/ WorkerEnds \/ Rest

Init ==
    /\ given \in DOMAIN Conditions
    /\ rows \in First
    /\ disk = {f \in Ids : rows[f] # Undef /\ ~rows[f].folder}
    /\ used = Cardinality({f \in Ids : rows[f] # Undef})
    /\ free = Given.pool
    /\ lost = 0 /\ twice = 0
    /\ pc = [u \in Users |-> "home"]
    /\ call = [u \in Users |-> Plain("get", Root)]
    /\ my = [u \in Users |-> [Blank EXCEPT !.ok = FALSE]]
    /\ stage = [u \in Users |-> "away"]
    /\ page = [u \in Users |-> NoPage]
    /\ visits = 0
    /\ stale = [u \in Users |-> {}]
    /\ crossed = FALSE
    /\ missed = {} /\ torn = {}

Spec == Init /\ [][Next]_vars

\* The event loop goes on with every request, and the pool serves who waits.
FairSpec == Spec /\ \A u \in Users : WF_vars(Serve(u))

-----------------------------------------------------------------------------
(* Properties *)

Mine == [want : SUBSET Nodes, walk : SUBSET Ids, doc : Rows, at : Nodes, new : Nodes,
         halves : SUBSET Pieces, kids : SUBSET (Ids \X BOOLEAN), ok : BOOLEAN]

Pages == [at : Nodes, seen : SUBSET (Ids \X BOOLEAN), folder : Nodes,
          todo : SUBSET Ids, any : BOOLEAN]

\* All variables stay within what they are made of: ids within those given out,
\* rows of files whole.
TypeOK ==
    /\ given \in DOMAIN Conditions
    /\ rows \in [Ids -> Rows \union {Undef}]
    /\ disk \subseteq Ids
    /\ used \in 0..MaxId
    /\ free \in Nat /\ lost \in Nat /\ twice \in Nat
    /\ pc \in [Users -> Labels]
    /\ call \in [Users -> Calls]
    /\ my \in [Users -> Mine]
    /\ stage \in [Users -> Stages]
    /\ page \in [Users -> Pages]
    /\ visits \in Nat
    /\ stale \in [Users -> SUBSET {"page", "kids"}]
    /\ crossed \in BOOLEAN
    /\ missed \subseteq Ids /\ torn \subseteq Ids

\* Every session of a worker's pool is free, in the hands of one request, or lost to an
\* upload that was refused; and none is in the pool twice but for an upload whose read
\* failed, after which two handlers close it.  A request whose body has broken off has
\* its session in hand for ever.
SessionsAccounted ==
    free + lost + Cardinality({u \in Users : Holds(u)}) = Given.pool + twice

\* A file comes to be over itself only when a place was given from a page that was
\* out of date, or written back by a request that had read it before: drops on a
\* page that is up to date keep the folders a tree.
TreeShaped == Loops # {} => crossed

\* As long as no read, no query and no write of a changed file fails, deleting a folder
\* leaves no child of it behind, unless it came, or its place changed, after the page had
\* listed them.  When a move fails, its child stays behind: the page deletes the folder if any
\* of the moves went well.
NothingStranded ==
    [][Given.failing \intersect {"read", "query", "save"} = {} =>
          \A f \in Ids :
             rows[f] # Undef /\ rows'[f] = Undef =>
                \/ \E u \in Users : /\ pc[u] = "halves" /\ call[u].file = f
                                    /\ stale[u] # {}
                \/ Children(f) = {}]_vars

\* As long as no write fails, there is a row for the bytes on the disk and the other
\* way round, but for the request that is at it (for ever, if its body has broken off),
\* for bytes that an upload wrote after somebody had deleted the row it had added, and
\* for what the end of a worker has cut in two.
BytesBehindRows ==
    Given.failing \intersect {"row", "bytes"} = {} =>
        \A f \in Ids :
            \/ f \in disk <=> rows[f] # Undef /\ ~rows[f].folder
            \/ f \in disk /\ rows[f] = Undef /\ f \in missed
            \/ f \in torn
            \/ \E u \in Users : WorksOn(u, f)

\* Where changes of one file do not overlap, each changes what it is meant to
\* change: the collection is the table that FileTree promises.
Tree == INSTANCE FileTree WITH tree <- IF Given.apart THEN rows ELSE CHOOSE t \in First : TRUE

ImplementsFileTree == Tree!Spec

\* A request that climbs into a loop never comes out, and one whose body has broken off
\* waits for ever for the rest of it.
Stuck(u) ==
    \/ pc[u] = "read" /\ \E f \in my[u].walk : EndsInLoop(f)
    \/ pc[u] = "path" /\ EndsInLoop(my[u].at)
    \/ pc[u] = "halves" /\ "rest" \in my[u].halves

\* All sessions are lost or held by such requests.
Drained == lost + Cardinality({u \in Users : Stuck(u)}) = Given.pool + twice

\* Every request is answered, or ends with its worker, but for those that climb into a
\* loop, those whose body breaks off, and those that wait when no session is left.
Served == \A u \in Users : ~Idle(u) ~> (Idle(u) \/ Stuck(u) \/ Drained)
=============================================================================
