----------------------------- MODULE DriveProofs ----------------------------
(***************************************************************************)
(* However many users, pages, files and sessions there are and whatever    *)
(* fails: no request gives a session back twice but an upload whose read   *)
(* failed, and none that is over has kept one but a refused upload.        *)
(***************************************************************************)
EXTENDS Drive, FiniteSetTheorems, TLAPS

\* Where a request has no session, or none any more.
Outside == {"home", "door", "closed"}

\* The users whose requests have a session, where they are at p.
Holders(p) == {u \in Users : p[u] \notin Outside}

\* The parts of TypeOK.
StoreOK == rows \in [Ids -> Rows \union {Undef}] /\ disk \subseteq Ids /\ used \in 0..MaxId

RequestsOK ==
    /\ given \in DOMAIN Conditions
    /\ free \in Nat /\ lost \in Nat /\ twice \in Nat
    /\ pc \in [Users -> Labels] /\ call \in [Users -> Calls] /\ my \in [Users -> Mine]

PagesOK == stage \in [Users -> Stages] /\ page \in [Users -> Pages] /\ visits \in Nat

GhostsOK ==
    /\ stale \in [Users -> SUBSET {"page", "kids"}] /\ crossed \in BOOLEAN
    /\ missed \subseteq Ids /\ torn \subseteq Ids

LEMMA Parts == TypeOK <=> StoreOK /\ RequestsOK /\ PagesOK /\ GhostsOK
BY DEF TypeOK, StoreOK, RequestsOK, PagesOK, GhostsOK

LEMMA PartsAfter == TypeOK' <=> StoreOK' /\ RequestsOK' /\ PagesOK' /\ GhostsOK'
BY DEF TypeOK, StoreOK, RequestsOK, PagesOK, GhostsOK

\* What a request that is at it, and a page, say of files.
Control ==
    \A u \in Users :
        /\ /\ pc[u] = "halves" /\ call[u].name = "upload"
           /\ my[u].halves \intersect Halves # {}
           => my[u].new \in Ids
        /\ ~Idle(u) /\ call[u].name \in Changes => call[u].file \in Ids
        /\ stage[u] \in {"kids", "moving"} => page[u].folder \in Ids

IInv == TypeOK /\ SessionsAccounted /\ Control

\* All of it but the files and the history variables.
Running == RequestsOK /\ PagesOK /\ SessionsAccounted /\ Control

-----------------------------------------------------------------------------
(* Sessions *)

LEMMA HoldersFinite ==
    ASSUME NEW p
    PROVE  IsFiniteSet(Holders(p)) /\ Cardinality(Holders(p)) \in Nat
BY DriveOK, FS_Subset, FS_CardinalityType DEF Holders

\* SessionsAccounted, before and after a step.
LEMMA Accounted ==
    /\ SessionsAccounted <=> free + lost + Cardinality(Holders(pc)) = Given.pool + twice
    /\ SessionsAccounted' <=>
          free' + lost' + Cardinality(Holders(pc')) = Given'.pool + twice'
    /\ given' = given => Given' = Given
<1>1. /\ {u \in Users : Holds(u)} = Holders(pc)
      /\ {u \in Users : Holds(u)}' = Holders(pc')
  BY DEF Holders, InHand, Holds, Outside
<1>. QED
  BY <1>1 DEF SessionsAccounted, Given

LEMMA Takes ==
    ASSUME NEW p \in [Users -> Labels], NEW u \in Users, p[u] \in Outside,
           NEW place \in Labels \ Outside
    PROVE  Cardinality(Holders([p EXCEPT ![u] = place])) = Cardinality(Holders(p)) + 1
<1>1. Holders([p EXCEPT ![u] = place]) = Holders(p) \union {u} /\ u \notin Holders(p)
  BY DEF Holders
<1>. QED
  BY <1>1, HoldersFinite, FS_AddElement

LEMMA Gives ==
    ASSUME NEW p \in [Users -> Labels], NEW u \in Users, p[u] \notin Outside,
           NEW place \in Outside
    PROVE  Cardinality(Holders([p EXCEPT ![u] = place])) = Cardinality(Holders(p)) - 1
<1>1. Holders([p EXCEPT ![u] = place]) = Holders(p) \ {u} /\ u \in Holders(p)
  BY DEF Holders
<1>. QED
  BY <1>1, HoldersFinite, FS_RemoveElement

LEMMA Keeps ==
    ASSUME NEW p \in [Users -> Labels], NEW u \in Users, NEW place \in Labels,
           p[u] \in Outside <=> place \in Outside
    PROVE  Holders([p EXCEPT ![u] = place]) = Holders(p)
BY DEF Holders

LEMMA GivenOK ==
    ASSUME given \in DOMAIN Conditions
    PROVE  Given \in Setting /\ Given.pool \in Nat \ {0}
BY DriveOK DEF Given, Setting

-----------------------------------------------------------------------------
(* What a step does with a request and its session *)

LEMMA NoDocOK == NoDoc \in Rows /\ NoDoc.name \in Names
BY DriveOK DEF NoDoc, Rows, Nodes

LEMMA BlankOK ==
    ASSUME NEW ok \in BOOLEAN, NEW ks \in SUBSET (Ids \X BOOLEAN)
    PROVE  /\ Blank \in Mine
           /\ [Blank EXCEPT !.ok = ok, !.kids = ks] \in Mine
           /\ [Blank EXCEPT !.ok = FALSE] \in Mine
BY NoDocOK DEF Blank, Mine, Nodes, Pieces

\* Where a request is under way with a session.
OnItsWay == Labels \ Outside

\* A request in hand goes on with m.
LEMMA MovesOK ==
    ASSUME IInv, NEW u \in Users, Holds(u), NEW place \in OnItsWay, NEW m \in Mine,
           /\ place = "halves" /\ call[u].name = "upload"
           /\ m.halves \intersect Halves # {}
           => m.new \in Ids,
           Moves(u, place, m)
    PROVE  Running'
<1>1. RequestsOK' /\ PagesOK'
  BY DEF IInv, TypeOK, RequestsOK, PagesOK, Moves, Goes, pool, client, OnItsWay
<1>2. Holders(pc') = Holders(pc)
  BY Keeps DEF IInv, TypeOK, Moves, Goes, InHand, Holds, OnItsWay, Outside
<1>3. UNCHANGED <<free, lost, twice, given>>
  BY DEF Moves, pool
<1>4. Control'
  BY DEF IInv, TypeOK, Control, Moves, Goes, client, InHand, Holds, Idle, OnItsWay
<1>. QED
  BY <1>1, <1>2, <1>3, <1>4, Accounted DEF IInv, Running

\* The answer gives the session back.
LEMMA AnsweredOK ==
    ASSUME IInv, NEW u \in Users, Holds(u), NEW ok \in BOOLEAN, Answered(u, ok)
    PROVE  Running'
<1>1. RequestsOK' /\ PagesOK'
  <2>1. my[u].kids \in SUBSET (Ids \X BOOLEAN)
    BY DEF IInv, TypeOK, Mine
  <2>2. [Blank EXCEPT !.ok = ok, !.kids = my[u].kids] \in Mine
    BY <2>1, BlankOK
  <2>. QED
    BY <2>2 DEF IInv, TypeOK, RequestsOK, PagesOK, Answered, Goes, client, Labels
<1>2. Cardinality(Holders(pc')) = Cardinality(Holders(pc)) - 1
  BY Gives DEF IInv, TypeOK, Answered, Goes, InHand, Holds, Outside
<1>3. free' = free + 1 /\ UNCHANGED <<lost, twice, given>>
  BY DEF Answered
<1>4. free \in Nat /\ lost \in Nat /\ twice \in Nat /\ Cardinality(Holders(pc)) \in Nat
  BY HoldersFinite DEF IInv, TypeOK
<1>5. SessionsAccounted'
  BY <1>2, <1>3, <1>4, Accounted DEF IInv
<1>6. Control'
  BY DEF IInv, TypeOK, Control, Answered, Goes, client, Idle
<1>. QED
  BY <1>1, <1>5, <1>6 DEF Running

\* So does the first closing of an upload whose read has failed.
LEMMA ClosedOK ==
    ASSUME IInv, NEW u \in Users, Holds(u), call[u].name = "upload", Closed(u)
    PROVE  Running'
<1>1. RequestsOK' /\ PagesOK'
  <2>1. [Blank EXCEPT !.ok = FALSE] \in Mine
    BY BlankOK
  <2>. QED
    BY <2>1 DEF IInv, TypeOK, RequestsOK, PagesOK, Closed, Goes, client, Labels
<1>2. Cardinality(Holders(pc')) = Cardinality(Holders(pc)) - 1
  BY Gives DEF IInv, TypeOK, Closed, Goes, InHand, Holds, Outside
<1>3. free' = free + 1 /\ UNCHANGED <<lost, twice, given>>
  BY DEF Closed
<1>4. free \in Nat /\ lost \in Nat /\ twice \in Nat /\ Cardinality(Holders(pc)) \in Nat
  BY HoldersFinite DEF IInv, TypeOK
<1>5. SessionsAccounted'
  BY <1>2, <1>3, <1>4, Accounted DEF IInv
<1>6. Control'
  BY DEF IInv, TypeOK, Control, Closed, Goes, client, Idle, Changes
<1>. QED
  BY <1>1, <1>5, <1>6 DEF Running

\* A page asks for c and goes on at s with p.
LEMMA AsksOK ==
    ASSUME IInv, NEW u \in Users, NEW c \in Calls, NEW s \in Stages, NEW p \in Pages,
           Idle(u), Asks(u, c), Stage(u, s, p), visits' \in Nat,
           c.name \in Changes => c.file \in Ids,
           s \in {"kids", "moving"} => p.folder \in Ids
    PROVE  StoreOK' /\ Running'
<1>1. [Blank EXCEPT !.want = Wanted(c)] \in Mine
  <2>1. Wanted(c) \in SUBSET Nodes
    BY DEF Wanted, Calls
  <2>. QED
    BY <2>1, BlankOK DEF Blank, Mine
<1>2. StoreOK' /\ RequestsOK' /\ PagesOK'
  BY <1>1 DEF IInv, TypeOK, StoreOK, RequestsOK, PagesOK, Asks, Stage, Labels, store, pool
<1>3. Holders(pc') = Holders(pc)
  BY Keeps DEF IInv, TypeOK, Asks, Idle, Labels, Outside
<1>4. UNCHANGED <<free, lost, twice, given>>
  BY DEF Asks, pool
<1>5. Control'
  BY DEF IInv, TypeOK, Control, Asks, Stage, Idle
<1>. QED
  BY <1>2, <1>3, <1>4, <1>5, Accounted DEF IInv, Running

\* A page goes on by itself.
LEMMA HomeOK ==
    ASSUME IInv, NEW u \in Users, NEW s \in Stages, NEW p \in Pages, Idle(u), Home(u, s, p),
           s \in {"kids", "moving"} => p.folder \in Ids
    PROVE  IInv'
<1>1. StoreOK' /\ RequestsOK' /\ PagesOK' /\ GhostsOK'
  BY BlankOK DEF IInv, TypeOK, StoreOK, RequestsOK, PagesOK, GhostsOK, Home, Stage,
                 store, pool, ghost
<1>2. UNCHANGED <<free, lost, twice, given, pc>>
  BY DEF Home, pool
<1>3. Control'
  BY <1>2 DEF IInv, TypeOK, Control, Home, Stage, Idle
<1>. QED
  BY <1>1, <1>2, <1>3, PartsAfter, Accounted DEF IInv

\* The rest of what holds, for the step of a request that is in hand.
LEMMA UnplacedOK ==
    ASSUME IInv, Unplaced
    PROVE  StoreOK' /\ GhostsOK'
BY DEF IInv, TypeOK, StoreOK, GhostsOK, Unplaced, ghost

LEMMA PlacedOK ==
    ASSUME IInv, NEW u \in Users, Placed(u)
    PROVE  stale' \in [Users -> SUBSET {"page", "kids"}]
BY DEF IInv, TypeOK, Placed
-----------------------------------------------------------------------------
(* The steps of a request *)

LEMMA NodesOK ==
    ASSUME TypeOK, NEW f \in Nodes
    PROVE  /\ Over(f) \in SUBSET Ids
           /\ f # Root => f \in Ids
           /\ IsRow(f) => f \in Ids /\ rows[f] \in Rows /\ rows[f].parent \in Nodes
<1>1. f # Root => f \in Ids
  BY DEF Nodes
<1>2. IsRow(f) => f \in Ids /\ rows[f] \in Rows /\ rows[f].parent \in Nodes
  BY <1>1 DEF IsRow, TypeOK, Rows
<1>. QED
  BY <1>1, <1>2 DEF Over, Nodes

\* Request u has m, a call and rows of the right kind.
LEMMA OwnOK ==
    ASSUME IInv, NEW u \in Users
    PROVE  /\ my[u] \in Mine /\ call[u] \in Calls
           /\ my[u].want \in SUBSET Nodes /\ my[u].walk \in SUBSET Ids
           /\ my[u].doc \in Rows /\ my[u].at \in Nodes /\ my[u].new \in Nodes
           /\ my[u].halves \in SUBSET Pieces /\ my[u].kids \in SUBSET (Ids \X BOOLEAN)
           /\ my[u].ok \in BOOLEAN
           /\ call[u].file \in Nodes /\ call[u].to \in Nodes /\ call[u].info \in Names
           /\ my[u].doc.parent \in Nodes
BY DEF IInv, TypeOK, Mine, Calls, Rows

\* What follows for all of IInv.
LEMMA Whole ==
    ASSUME StoreOK', Running', GhostsOK'
    PROVE  IInv'
BY PartsAfter DEF IInv, Running

LEMMA EnterOK ==
    ASSUME IInv, NEW u \in Users, Enter(u)
    PROVE  IInv'
<1>1. StoreOK' /\ RequestsOK' /\ PagesOK' /\ GhostsOK'
  BY DEF IInv, TypeOK, StoreOK, RequestsOK, PagesOK, GhostsOK, Enter, store, client,
         ghost, Labels
<1>2. Cardinality(Holders(pc')) = Cardinality(Holders(pc)) + 1
  BY Takes DEF IInv, TypeOK, Enter, Labels, Outside
<1>3. free' = free - 1 /\ UNCHANGED <<lost, twice, given>>
  BY DEF Enter
<1>4. free \in Nat /\ lost \in Nat /\ twice \in Nat /\ Cardinality(Holders(pc)) \in Nat
  BY HoldersFinite DEF IInv, TypeOK
<1>5. SessionsAccounted'
  BY <1>2, <1>3, <1>4, Accounted DEF IInv
<1>6. Control'
  BY DEF IInv, TypeOK, Control, Enter, client, Idle
<1>. QED
  BY <1>1, <1>5, <1>6, Whole DEF Running

LEMMA ReadOK ==
    ASSUME IInv, NEW u \in Users, Read(u) \/ ReadFails(u) \/ Climb(u)
    PROVE  IInv'
<1>1. Holds(u) /\ Unplaced
  BY DEF Read, ReadFails, Climb, InHand, Holds
<1>2. CASE Answered(u, FALSE)
  BY <1>1, <1>2, AnsweredOK, UnplacedOK, Whole
<1>5. CASE call[u].name = "upload" /\ Closed(u)
  BY <1>1, <1>5, ClosedOK, UnplacedOK, Whole
<1>3. ASSUME NEW f \in my[u].want, f = Root \/ IsRow(f),
             Moves(u, "read", [my[u] EXCEPT
                   !.want = @ \ {f},
                   !.walk = @ \union Over(f),
                   !.doc = IF f = call[u].file /\ f # Root THEN rows[f] ELSE @])
      PROVE  IInv'
  <2>. DEFINE want == my[u].want \ {f}
              walk == my[u].walk \union Over(f)
              doc == IF f = call[u].file /\ f # Root THEN rows[f] ELSE my[u].doc
  <2>1. want \in SUBSET Nodes /\ walk \in SUBSET Ids /\ doc \in Rows
    BY <1>3, OwnOK, NodesOK DEF IInv
  <2>. HIDE DEF want, walk, doc
  <2>2. [my[u] EXCEPT !.want = want, !.walk = walk, !.doc = doc] \in Mine
    BY <2>1, OwnOK DEF Mine
  <2>3. Moves(u, "read", [my[u] EXCEPT !.want = want, !.walk = walk, !.doc = doc])
    BY <1>3 DEF want, walk, doc
  <2>. QED
    BY <1>1, <2>2, <2>3, MovesOK, UnplacedOK, Whole DEF OnItsWay, Labels, Outside
<1>4. ASSUME NEW f \in my[u].walk,
             Moves(u, "read", [my[u] EXCEPT !.walk = (@ \ {f}) \union Over(f)])
      PROVE  IInv'
  <2>. DEFINE walk == (my[u].walk \ {f}) \union Over(f)
  <2>1. f \in Nodes /\ walk \in SUBSET Ids
    BY OwnOK, NodesOK DEF IInv, Nodes
  <2>. HIDE DEF walk
  <2>2. [my[u] EXCEPT !.walk = walk] \in Mine
    BY <2>1, OwnOK DEF Mine
  <2>3. Moves(u, "read", [my[u] EXCEPT !.walk = walk])
    BY <1>4 DEF walk
  <2>. QED
    BY <1>1, <2>2, <2>3, MovesOK, UnplacedOK, Whole DEF OnItsWay, Labels, Outside
<1>. QED
  BY <1>2, <1>3, <1>4, <1>5 DEF Read, ReadFails, Climb

LEMMA CloseAgainOK ==
    ASSUME IInv, NEW u \in Users, CloseAgain(u)
    PROVE  IInv'
<1>1. RequestsOK' /\ PagesOK'
  <2>1. [Blank EXCEPT !.ok = FALSE] \in Mine
    BY BlankOK
  <2>. QED
    BY <2>1 DEF IInv, TypeOK, RequestsOK, PagesOK, CloseAgain, Goes, client, Labels
<1>2. Holders(pc') = Holders(pc)
  BY Keeps DEF IInv, TypeOK, CloseAgain, Goes, Labels, Outside
<1>3. /\ UNCHANGED <<lost, given>>
      /\ \/ UNCHANGED <<free, twice>>
         \/ free' = free + 1 /\ twice' = twice + 1
  BY DEF CloseAgain
<1>4. /\ free \in Nat /\ lost \in Nat /\ twice \in Nat /\ Cardinality(Holders(pc)) \in Nat
      /\ Given.pool \in Nat
  BY HoldersFinite, GivenOK DEF IInv, TypeOK
<1>5. SessionsAccounted'
  <2>. DEFINE n == Cardinality(Holders(pc))
              k == Given.pool
  <2>1. free + lost + n = k + twice
    BY Accounted DEF IInv
  <2>2. free' + lost' + n = k + twice'
    <3>1. n \in Nat /\ k \in Nat
      BY <1>4
    <3>. HIDE DEF n, k
    <3>. QED
      BY <1>3, <1>4, <2>1, <3>1
  <2>3. Cardinality(Holders(pc')) = n /\ Given'.pool = k
    BY <1>2, <1>3, Accounted
  <2>. QED
    BY <2>2, <2>3, Accounted
<1>6. Control'
  BY DEF IInv, TypeOK, Control, CloseAgain, Goes, client, Idle
<1>. QED
  BY <1>1, <1>5, <1>6, UnplacedOK, Whole DEF CloseAgain, Running

LEMMA PathOK ==
    ASSUME IInv, NEW u \in Users, Query(u) \/ Trace(u) \/ PathOn(u) \/ PathEnds(u)
    PROVE  IInv'
<1>1. Holds(u)
  BY DEF Query, Trace, PathOn, PathEnds, Gathered, InHand, Holds
<1>2. CASE Query(u)
  <2>. DEFINE ks == {<<k, rows[k].folder>> : k \in Children(call[u].file)}
  <2>1. ks \in SUBSET (Ids \X BOOLEAN)
    BY DEF IInv, TypeOK, Children, Rows
  <2>. HIDE DEF ks
  <2>2. [my[u] EXCEPT !.kids = ks, !.at = call[u].file] \in Mine
    BY <2>1, OwnOK DEF Mine
  <2>3. Moves(u, "path", [my[u] EXCEPT !.kids = ks, !.at = call[u].file])
    BY <1>2 DEF Query, ks
  <2>4. StoreOK' /\ GhostsOK'
    BY <1>2 DEF Query, IInv, TypeOK, StoreOK, GhostsOK, store
  <2>. QED
    BY <1>1, <2>2, <2>3, <2>4, MovesOK, Whole DEF OnItsWay, Labels, Outside
<1>3. CASE Trace(u)
  <2>1. [my[u] EXCEPT !.at = my[u].doc.parent] \in Mine
    BY OwnOK DEF Mine
  <2>. QED
    BY <1>1, <1>3, <2>1, MovesOK, UnplacedOK, Whole DEF Trace, OnItsWay, Labels, Outside
<1>4. CASE PathOn(u)
  <2>1. rows[my[u].at].parent \in Nodes
    BY <1>4, OwnOK, NodesOK DEF PathOn, IInv
  <2>2. [my[u] EXCEPT !.at = rows[@].parent] \in Mine
    BY <2>1, OwnOK DEF Mine
  <2>. QED
    BY <1>1, <1>4, <2>2, MovesOK, UnplacedOK, Whole DEF PathOn, OnItsWay, Labels, Outside
<1>5. CASE PathEnds(u)
  <2>1. CASE Moves(u, "token", my[u])
    BY <1>1, <1>5, <2>1, OwnOK, MovesOK, UnplacedOK, Whole DEF PathEnds, OnItsWay, Labels, Outside
  <2>2. CASE Answered(u, my[u].at = Root)
    BY <1>1, <1>5, <2>2, AnsweredOK, UnplacedOK, Whole DEF PathEnds
  <2>. QED
    BY <1>5, <2>1, <2>2 DEF PathEnds
<1>. QED
  BY <1>2, <1>3, <1>4, <1>5

LEMMA RefuseOK ==
    ASSUME IInv, NEW u \in Users, Refuse(u)
    PROVE  IInv'
<1>1. RequestsOK' /\ PagesOK'
  <2>1. [Blank EXCEPT !.ok = FALSE] \in Mine
    BY BlankOK
  <2>. QED
    BY <2>1 DEF IInv, TypeOK, RequestsOK, PagesOK, Refuse, Goes, client, Labels
<1>2. Cardinality(Holders(pc')) = Cardinality(Holders(pc)) - 1
  BY Gives DEF IInv, TypeOK, Refuse, Goes, Outside
<1>3. lost' = lost + 1 /\ UNCHANGED <<free, twice, given>>
  BY DEF Refuse
<1>4. free \in Nat /\ lost \in Nat /\ twice \in Nat /\ Cardinality(Holders(pc)) \in Nat
  BY HoldersFinite DEF IInv, TypeOK
<1>5. SessionsAccounted'
  BY <1>2, <1>3, <1>4, Accounted DEF IInv
<1>6. Control'
  BY DEF IInv, TypeOK, Control, Refuse, Goes, client, Idle
<1>. QED
  BY <1>1, <1>5, <1>6, UnplacedOK, Whole DEF Refuse, Running

LEMMA NextId == TypeOK /\ used < MaxId => used + 1 \in Ids /\ used + 1 \in 0..MaxId
BY DriveOK DEF TypeOK, Ids

LEMMA CreateFolderOK ==
    ASSUME IInv, NEW u \in Users, CreateFolder(u)
    PROVE  IInv'
<1>1. Holds(u)
  BY DEF CreateFolder, Gathered, InHand, Holds
<1>2. CASE Answered(u, FALSE) /\ Unplaced
  BY <1>1, <1>2, AnsweredOK, UnplacedOK, Whole
<1>3. CASE ~(Answered(u, FALSE) /\ Unplaced)
  <2>1. /\ used < MaxId /\ used' = used + 1
        /\ rows' = [rows EXCEPT ![used'] =
                 [parent |-> call[u].file, name |-> call[u].info, folder |-> TRUE]]
        /\ Moves(u, "path", [my[u] EXCEPT !.at = call[u].file])
        /\ Placed(u)
        /\ UNCHANGED <<disk, crossed, missed, torn>>
    BY <1>3 DEF CreateFolder
  <2>2. StoreOK'
    <3>1. [parent |-> call[u].file, name |-> call[u].info, folder |-> TRUE] \in Rows
      BY OwnOK DEF Rows
    <3>. QED
      BY <2>1, <3>1, NextId DEF IInv, TypeOK, StoreOK
  <2>3. GhostsOK'
    BY <2>1, PlacedOK DEF GhostsOK, IInv, TypeOK
  <2>4. [my[u] EXCEPT !.at = call[u].file] \in Mine
    BY OwnOK DEF Mine
  <2>. QED
    BY <1>1, <2>1, <2>2, <2>3, <2>4, MovesOK, Whole DEF OnItsWay, Labels, Outside
<1>. QED
  BY <1>2, <1>3

LEMMA HalvesOK ==
    ASSUME IInv, NEW u \in Users, Accept(u) \/ Delete(u) \/ BothDone(u)
    PROVE  IInv'
<1>1. Holds(u)
  BY DEF Accept, Delete, BothDone, Gathered, InHand, Holds
<1>2. CASE Accept(u)
  <2>1. used' = used + 1 /\ used + 1 \in Ids /\ used + 1 \in 0..MaxId
    BY <1>2, NextId DEF Accept, IInv
  <2>2. /\ [my[u] EXCEPT !.new = used', !.halves = Halves] \in Mine
        /\ [my[u] EXCEPT !.new = used', !.halves = Halves].new \in Ids
    BY <2>1, OwnOK DEF Mine, Nodes, Pieces
  <2>3. Moves(u, "halves", [my[u] EXCEPT !.new = used', !.halves = Halves])
    BY <1>2 DEF Accept
  <2>4. StoreOK' /\ GhostsOK'
    BY <1>2, <2>1 DEF Accept, IInv, TypeOK, StoreOK, GhostsOK, ghost
  <2>. QED
    BY <1>1, <2>2, <2>3, <2>4, MovesOK, Whole DEF OnItsWay, Labels, Outside
<1>3. CASE Delete(u)
  <2>1. [my[u] EXCEPT !.halves = Halves] \in Mine /\ call[u].name # "upload"
    BY <1>3, OwnOK DEF Mine, Delete, Gathered, Pieces
  <2>. QED
    BY <1>1, <1>3, <2>1, MovesOK, UnplacedOK, Whole DEF Delete, OnItsWay, Labels, Outside
<1>4. CASE BothDone(u)
  BY <1>1, <1>4, OwnOK, AnsweredOK, UnplacedOK, Whole DEF BothDone
<1>. QED
  BY <1>2, <1>3, <1>4

\* A half that is over.
LEMMA HalfDoneOK ==
    ASSUME IInv, NEW u \in Users, pc[u] = "halves", NEW h, NEW ok \in BOOLEAN,
           HalfDone(u, h, ok)
    PROVE  Running'
<1>1. [my[u] EXCEPT !.halves = @ \ {h}, !.ok = @ /\ ok] \in Mine
  <2>. DEFINE hs == my[u].halves \ {h}
              good == my[u].ok /\ ok
  <2>1. hs \in SUBSET Pieces /\ good \in BOOLEAN
    BY OwnOK
  <2>. HIDE DEF hs, good
  <2>2. [my[u] EXCEPT !.halves = hs, !.ok = good] \in Mine
    BY <2>1, OwnOK DEF Mine
  <2>. QED
    BY <2>2 DEF hs, good
<1>2. /\ Holds(u)
      /\ LET m == [my[u] EXCEPT !.halves = @ \ {h}, !.ok = @ /\ ok]
         IN  call[u].name = "upload" /\ m.halves \intersect Halves # {} => m.new \in Ids
  BY OwnOK DEF InHand, Holds, IInv, Control, Mine
<1>3. Moves(u, "halves", [my[u] EXCEPT !.halves = @ \ {h}, !.ok = @ /\ ok])
  BY DEF HalfDone
<1>. QED
  BY <1>1, <1>2, <1>3, MovesOK DEF OnItsWay, Labels, Outside

LEMMA HalfOK ==
    ASSUME IInv, NEW u \in Users,
           AddRow(u) \/ WriteBytes(u) \/ RemoveRow(u) \/ Unlink(u)
    PROVE  IInv'
<1>1. pc[u] = "halves"
  BY DEF AddRow, WriteBytes, RemoveRow, Unlink, Half
<1>2. Running'
  <2>1. ASSUME NEW h, HalfDone(u, h, TRUE) \/ HalfDone(u, h, FALSE)
        PROVE  Running'
    BY <1>1, <2>1, HalfDoneOK
  <2>2. CASE Unlink(u)
    <3>1. (Unlinks(u) => call[u].file \in disk) \in BOOLEAN
      OBVIOUS
    <3>2. \/ HalfDone(u, "bytes", Unlinks(u) => call[u].file \in disk)
          \/ HalfDone(u, "bytes", FALSE)
      BY <2>2 DEF Unlink
    <3>. QED
      BY <1>1, <3>1, <3>2, HalfDoneOK
  <2>. QED
    BY <2>1, <2>2 DEF AddRow, WriteBytes, RemoveRow
<1>3. StoreOK'
  <2>1. CASE AddRow(u)
    <3>1. NewRow(u) \in Rows
      BY OwnOK DEF NewRow, Rows
    <3>. QED
      BY <2>1, <3>1, ZenonT(60) DEF AddRow, IInv, TypeOK, StoreOK
  <2>2. CASE WriteBytes(u)
    <3>1. my[u].new \in Ids
      BY <1>1, <2>2 DEF WriteBytes, Half, Halves, IInv, Control
    <3>. QED
      BY <2>2, <3>1 DEF WriteBytes, IInv, TypeOK, StoreOK
  <2>3. CASE RemoveRow(u)
    BY <2>3 DEF RemoveRow, IInv, TypeOK, StoreOK
  <2>4. CASE Unlink(u)
    BY <2>4 DEF Unlink, IInv, TypeOK, StoreOK
  <2>. QED
    BY <2>1, <2>2, <2>3, <2>4
<1>4. GhostsOK'
  <2>1. CASE AddRow(u) \/ RemoveRow(u)
    BY <2>1, PlacedOK DEF AddRow, RemoveRow, GhostsOK, IInv, TypeOK
  <2>2. CASE WriteBytes(u)
    BY <2>2 DEF WriteBytes, GhostsOK, IInv, TypeOK, ghost
  <2>3. CASE Unlink(u)
    <3>1. call[u].file \in Ids
      BY <1>1, <2>3 DEF Unlink, IInv, Control, Idle, Changes
    <3>. QED
      BY <2>3, <3>1 DEF Unlink, GhostsOK, IInv, TypeOK
  <2>. QED
    BY <2>1, <2>2, <2>3
<1>. QED
  BY <1>2, <1>3, <1>4, Whole

LEMMA BreaksOffOK ==
    ASSUME IInv, NEW u \in Users, BreaksOff(u)
    PROVE  IInv'
<1>1. Holds(u)
  BY DEF BreaksOff, Half, InHand, Holds
<1>2. GhostsOK'
  BY DEF BreaksOff, GhostsOK, IInv, TypeOK, ghost
<1>3. CASE pc[u] = "token"
  <2>1. /\ Moves(u, "halves", [Blank EXCEPT !.halves = {"rest"}])
        /\ UNCHANGED <<rows, disk, used>>
    BY <1>3 DEF BreaksOff, Half
  <2>2. /\ [Blank EXCEPT !.halves = {"rest"}] \in Mine
        /\ [Blank EXCEPT !.halves = {"rest"}].halves \intersect Halves = {}
    BY BlankOK DEF Blank, Mine, Pieces, Halves
  <2>3. StoreOK'
    BY <2>1 DEF StoreOK, IInv, TypeOK
  <2>. QED
    BY <1>1, <1>2, <2>1, <2>2, <2>3, MovesOK, Whole DEF OnItsWay, Labels, Outside
<1>4. CASE pc[u] # "token"
  <2>1. /\ Moves(u, "halves", [my[u] EXCEPT !.halves = (@ \ {"bytes"}) \union {"rest"}])
        /\ disk' \in {disk, disk \union {my[u].new}}
        /\ UNCHANGED <<rows, used>>
        /\ Half(u, "bytes") /\ call[u].name = "upload"
    BY <1>4 DEF BreaksOff
  <2>2. my[u].new \in Ids
    BY <2>1 DEF Half, Halves, IInv, Control
  <2>3. /\ [my[u] EXCEPT !.halves = (@ \ {"bytes"}) \union {"rest"}] \in Mine
        /\ [my[u] EXCEPT !.halves = (@ \ {"bytes"}) \union {"rest"}].new \in Ids
    <3>. DEFINE hs == (my[u].halves \ {"bytes"}) \union {"rest"}
    <3>1. hs \in SUBSET Pieces
      BY OwnOK DEF Pieces
    <3>. HIDE DEF hs
    <3>2. [my[u] EXCEPT !.halves = hs] \in Mine /\ [my[u] EXCEPT !.halves = hs].new \in Ids
      BY <2>2, <3>1, OwnOK DEF Mine
    <3>. QED
      BY <3>2 DEF hs
  <2>4. StoreOK'
    BY <2>1, <2>2 DEF StoreOK, IInv, TypeOK
  <2>. QED
    BY <1>1, <1>2, <2>1, <2>3, <2>4, MovesOK, Whole DEF OnItsWay, Labels, Outside
<1>. QED
  BY <1>3, <1>4

LEMMA SaveOK ==
    ASSUME IInv, NEW u \in Users, Save(u)
    PROVE  IInv'
<1>1. Holds(u)
  BY DEF Save, Gathered, InHand, Holds
<1>2. CASE Answered(u, FALSE) /\ Unplaced
  BY <1>1, <1>2, AnsweredOK, UnplacedOK, Whole
<1>3. CASE ~(Answered(u, FALSE) /\ Unplaced)
  <2>1. Answered(u, TRUE) /\ Placed(u) /\ UNCHANGED <<disk, used, missed, torn>>
    BY <1>3 DEF Save
  <2>2. \/ rows' = rows
        \/ IsRow(call[u].file) /\ rows' = [rows EXCEPT ![call[u].file] = Changed(u)]
    BY <1>3 DEF Save
  <2>3. crossed' \in BOOLEAN
    BY <1>3 DEF Save, IInv, TypeOK
  <2>4. Changed(u) \in Rows
    <3>1. call[u].name \in {"setInfo", "insertChild", "removeChild"}
      BY DEF Save, Gathered
    <3>2. /\ [my[u].doc EXCEPT !.name = call[u].info] \in Rows
          /\ [my[u].doc EXCEPT !.parent = call[u].to] \in Rows
          /\ [my[u].doc EXCEPT !.parent = Root] \in Rows
      BY OwnOK DEF Rows, Nodes
    <3>. QED
      BY <3>1, <3>2 DEF Changed
  <2>5. StoreOK'
    BY <2>1, <2>2, <2>4 DEF IInv, TypeOK, StoreOK
  <2>6. GhostsOK'
    BY <2>1, <2>3, PlacedOK DEF GhostsOK, IInv, TypeOK
  <2>. QED
    BY <1>1, <2>1, <2>5, <2>6, AnsweredOK, Whole
<1>. QED
  BY <1>2, <1>3

\* What a request does keeps IInv.
LEMMA ServeOK ==
    ASSUME IInv, NEW u \in Users, Serve(u)
    PROVE  IInv'
BY EnterOK, ReadOK, CloseAgainOK, PathOK, CreateFolderOK, RefuseOK, HalvesOK, HalfOK,
   BreaksOffOK, SaveOK DEF Serve

\* The end of a worker: nobody has a session, and there is a pool of its own.
LEMMA WorkerEndsOK ==
    ASSUME IInv, WorkerEnds
    PROVE  IInv'
<1>1. RequestsOK' /\ PagesOK'
  <2>1. /\ pc' = [u \in Users |-> "home"]
        /\ my' = [u \in Users |-> IF Idle(u) THEN my[u] ELSE [Blank EXCEPT !.ok = FALSE]]
        /\ free' = Given.pool /\ lost' = 0 /\ twice' = 0
        /\ UNCHANGED <<call, given, stage, page, visits>>
    BY DEF WorkerEnds, client
  <2>2. my' \in [Users -> Mine]
    BY <2>1, OwnOK, BlankOK
  <2>. QED
    BY <2>1, <2>2, GivenOK DEF RequestsOK, PagesOK, IInv, TypeOK, Labels
<1>2. StoreOK' /\ GhostsOK'
  <2>1. torn' \subseteq Ids
    BY DEF WorkerEnds, IInv, TypeOK
  <2>. QED
    BY <2>1 DEF WorkerEnds, store, StoreOK, GhostsOK, IInv, TypeOK
<1>3. SessionsAccounted'
  <2>1. Holders(pc') = {}
    BY DEF WorkerEnds, Holders, Outside
  <2>2. Cardinality(Holders(pc')) = 0
    BY <2>1, FS_EmptySet
  <2>3. free' = Given.pool /\ lost' = 0 /\ twice' = 0 /\ given' = given
    BY DEF WorkerEnds
  <2>. QED
    BY <2>2, <2>3, GivenOK, Accounted DEF IInv, TypeOK
<1>4. Control'
  BY DEF WorkerEnds, client, Control, Idle, IInv
<1>. QED
  BY <1>1, <1>2, <1>3, <1>4, Whole DEF Running

-----------------------------------------------------------------------------
(* The steps of a page *)

LEMMA PageOK ==
    ASSUME IInv, NEW u \in Users
    PROVE  /\ page[u] \in Pages
           /\ page[u].at \in Nodes /\ page[u].folder \in Nodes
           /\ page[u].seen \in SUBSET (Ids \X BOOLEAN)
           /\ page[u].todo \in SUBSET Ids /\ page[u].any \in BOOLEAN
           /\ NoPage \in Pages
BY DEF IInv, TypeOK, Pages, NoPage, Nodes

LEMMA CallOK ==
    ASSUME NEW name \in CallNames, NEW f \in Nodes, NEW to \in Nodes, NEW info \in Names
    PROVE  /\ Call(name, f, to, info) \in Calls
           /\ Call(name, f, to, info).name = name
           /\ Call(name, f, to, info).file = f
BY DEF Call, Calls

LEMMA PlainOK ==
    ASSUME NEW name \in CallNames, NEW f \in Nodes
    PROVE  /\ Plain(name, f) \in Calls
           /\ Plain(name, f).name = name
           /\ Plain(name, f).file = f
BY CallOK, NoDocOK DEF Plain, Nodes

\* A page asks for a call of the right kind, about a file where it changes one.
LEMMA ChoicesOK ==
    ASSUME IInv, NEW u \in Users, NEW c \in Choices(u)
    PROVE  c \in Calls /\ (c.name \in Changes => c.file \in Ids)
<1>. DEFINE seen == {x[1] : x \in page[u].seen}
            folders == {x[1] : x \in {x \in page[u].seen : x[2]}}
<1>1. seen \in SUBSET Ids /\ folders \in SUBSET Ids
  BY PageOK
<1>2. \/ \E name \in Creators, info \in Names : c = Call(name, page[u].at, Root, info)
      \/ \E k \in seen, info \in Names : c = Call("setInfo", k, Root, info)
      \/ \E k \in seen \X folders : c = Call("insertChild", k[1], k[2], NoDoc.name)
      \/ \E k \in seen : c = Call("removeChild", k, page[u].at, NoDoc.name)
      \/ \E k \in seen : c = Plain("delete", k)
      \/ \E k \in seen : c = Plain("get", k)
  BY DEF Choices
<1>. HIDE DEF seen, folders
<1>3. Ids \subseteq Nodes /\ Root \in Nodes /\ page[u].at \in Nodes
  BY PageOK DEF Nodes
<1>4. ASSUME NEW k \in seen \X folders PROVE k[1] \in Ids /\ k[2] \in Ids
  BY <1>1
<1>5. Creators \subseteq CallNames /\ Changes \subseteq CallNames /\ Creators \intersect Changes = {}
  BY DEF Creators, CallNames, Changes
<1>6. {"setInfo", "insertChild", "removeChild", "delete"} = Changes /\ "get" \in CallNames
  BY DEF CallNames, Changes
<1>7. CASE \E name \in Creators, info \in Names : c = Call(name, page[u].at, Root, info)
  BY <1>3, <1>5, <1>7, CallOK
<1>8. CASE \E k \in seen \X folders : c = Call("insertChild", k[1], k[2], NoDoc.name)
  <2>1. PICK k \in seen \X folders : c = Call("insertChild", k[1], k[2], NoDoc.name)
    BY <1>8
  <2>2. k[1] \in Ids /\ k[1] \in Nodes /\ k[2] \in Nodes
    BY <1>3, <1>4
  <2>3. "insertChild" \in CallNames
    BY DEF CallNames, Changes
  <2>. QED
    BY <2>1, <2>2, <2>3, CallOK, NoDocOK
<1>9. CASE \E k \in seen, info \in Names : c = Call("setInfo", k, Root, info)
  <2>1. PICK k \in seen, info \in Names : c = Call("setInfo", k, Root, info)
    BY <1>9
  <2>2. k \in Ids /\ k \in Nodes /\ Root \in Nodes
    BY <1>1, <1>3
  <2>3. "setInfo" \in CallNames
    BY DEF CallNames, Changes
  <2>. QED
    BY <2>1, <2>2, <2>3, CallOK
<1>10. CASE \E k \in seen : c = Call("removeChild", k, page[u].at, NoDoc.name)
  <2>1. PICK k \in seen : c = Call("removeChild", k, page[u].at, NoDoc.name)
    BY <1>10
  <2>2. k \in Ids /\ k \in Nodes
    BY <1>1, <1>3
  <2>3. "removeChild" \in CallNames
    BY DEF CallNames, Changes
  <2>. QED
    BY <1>3, <2>1, <2>2, <2>3, CallOK, NoDocOK
<1>11. CASE \E k \in seen : c = Plain("delete", k) \/ c = Plain("get", k)
  BY <1>1, <1>3, <1>5, <1>6, <1>11, PlainOK
<1>. QED
  BY <1>2, <1>7, <1>8, <1>9, <1>10, <1>11

LEMMA ActOK ==
    ASSUME IInv, NEW u \in Users, Act(u)
    PROVE  IInv'
<1>1. visits \in Nat
  BY DEF IInv, TypeOK
<1>2. ASSUME NEW c \in Calls, NEW s \in Stages, NEW p \in Pages, Idle(u), Asks(u, c),
             Stage(u, s, p), visits' \in Nat, UNCHANGED ghost,
             c.name \in Changes => c.file \in Ids,
             s \in {"kids", "moving"} => p.folder \in Ids
      PROVE  IInv'
  <2>1. GhostsOK'
    BY <1>2 DEF IInv, TypeOK, GhostsOK, ghost
  <2>. QED
    BY <1>2, <2>1, AsksOK, Whole
<1>3. CASE Visit(u)
  <2>1. PICK f \in Nodes : Asks(u, Plain("children", f))
    BY <1>3 DEF Visit, Nodes
  <2>2. Plain("children", f) \in Calls /\ Plain("children", f).name = "children"
    BY PlainOK DEF CallNames
  <2>3. /\ Idle(u) /\ visits' \in Nat /\ UNCHANGED ghost
        /\ Stage(u, "listing", NoPage) /\ NoPage \in Pages
    BY <1>1, <1>3, PageOK DEF Visit
  <2>. QED
    BY <1>2, <2>1, <2>2, <2>3 DEF Changes, Stages
<1>4. CASE Shown(u)
  <2>1. [NoPage EXCEPT !.at = call[u].file, !.seen = my[u].kids] \in Pages
    BY PageOK, OwnOK DEF Pages
  <2>. QED
    BY <1>4, <2>1, PageOK, HomeOK DEF Shown, Stages
<1>5. CASE Choose(u)
  <2>1. PICK c \in Choices(u) : Asks(u, c)
    BY <1>5 DEF Choose
  <2>. QED
    BY <1>1, <1>2, <1>5, <2>1, ChoicesOK, PageOK DEF Choose, Stages
<1>6. CASE Leave(u)
  BY <1>6, PageOK, HomeOK DEF Leave, Stages
<1>7. CASE Unfold(u)
  <2>1. PICK x \in page[u].seen : /\ Asks(u, Plain("children", x[1]))
                                  /\ Stage(u, "kids", [page[u] EXCEPT !.folder = x[1]])
    BY <1>7 DEF Unfold
  <2>2. x[1] \in Ids /\ x[1] \in Nodes
    BY PageOK DEF Nodes
  <2>3. [page[u] EXCEPT !.folder = x[1]] \in Pages /\ [page[u] EXCEPT !.folder = x[1]].folder = x[1]
    BY <2>2, PageOK DEF Pages
  <2>4. Plain("children", x[1]) \in Calls /\ Plain("children", x[1]).name \notin Changes
    BY <2>2, PlainOK DEF CallNames, Changes
  <2>5. Idle(u) /\ visits' \in Nat /\ UNCHANGED ghost
    BY <1>1, <1>7 DEF Unfold
  <2>. QED
    BY <1>2, <2>1, <2>2, <2>3, <2>4, <2>5 DEF Stages
<1>8. CASE Kids(u)
  <2>1. {x[1] : x \in my[u].kids} \in SUBSET Ids
    BY OwnOK
  <2>2. [page[u] EXCEPT !.todo = {x[1] : x \in my[u].kids}] \in Pages
    BY <2>1, PageOK DEF Pages
  <2>3. [page[u] EXCEPT !.todo = {x[1] : x \in my[u].kids}].folder \in Ids
    BY <1>8, PageOK DEF Kids, IInv, Control, Pages
  <2>. QED
    BY <1>8, <2>2, <2>3, HomeOK DEF Kids, Stages
<1>9. CASE MoveKid(u)
  <2>1. PICK k \in page[u].todo :
           /\ Asks(u, Call("insertChild", k, page[u].at, NoDoc.name))
           /\ Stage(u, "moving", [page[u] EXCEPT !.todo = @ \ {k}, !.any = @ \/ my[u].ok])
    BY <1>9 DEF MoveKid
  <2>. DEFINE todo == page[u].todo \ {k}
              any == page[u].any \/ my[u].ok
  <2>2. todo \in SUBSET Ids /\ any \in BOOLEAN
    BY PageOK, OwnOK
  <2>3. Stage(u, "moving", [page[u] EXCEPT !.todo = todo, !.any = any])
    BY <2>1
  <2>. HIDE DEF todo, any
  <2>4. /\ [page[u] EXCEPT !.todo = todo, !.any = any] \in Pages
        /\ [page[u] EXCEPT !.todo = todo, !.any = any].folder = page[u].folder
    BY <2>2, PageOK DEF Pages
  <2>5. page[u].folder \in Ids
    BY <1>9 DEF MoveKid, IInv, Control
  <2>6. k \in Ids /\ k \in Nodes
    BY PageOK DEF Nodes
  <2>7. /\ Call("insertChild", k, page[u].at, NoDoc.name) \in Calls
        /\ Call("insertChild", k, page[u].at, NoDoc.name).file \in Ids
    BY <2>6, CallOK, NoDocOK, PageOK DEF CallNames, Changes
  <2>8. Idle(u) /\ visits' \in Nat /\ UNCHANGED ghost
    BY <1>1, <1>9 DEF MoveKid
  <2>. QED
    BY <1>2, <2>1, <2>3, <2>4, <2>5, <2>7, <2>8 DEF Stages
<1>10. CASE Unfolded(u)
  <2>1. page[u].folder \in Ids /\ page[u].folder \in Nodes
    BY <1>10, PageOK DEF Unfolded, IInv, Control
  <2>. QED
    BY <1>1, <1>2, <1>10, <2>1, PlainOK, PageOK DEF Unfolded, CallNames, Changes, Stages
<1>. QED
  BY <1>3, <1>4, <1>5, <1>6, <1>7, <1>8, <1>9, <1>10 DEF Act

-----------------------------------------------------------------------------
(* The theorems *)

LEMMA InitOK == Init => IInv
<1>. SUFFICES ASSUME Init PROVE IInv
  OBVIOUS
<1>1. Given.pool \in Nat /\ given \in DOMAIN Conditions
  BY GivenOK DEF Init
<1>2. used \in 0..MaxId
  <2>. DEFINE there == {f \in Ids : rows[f] # Undef}
  <2>1. IsFiniteSet(Ids) /\ Cardinality(Ids) = MaxId
    BY DriveOK, FS_Interval DEF Ids
  <2>2. Cardinality(there) \in Nat /\ Cardinality(there) <= MaxId
    BY <2>1, FS_Subset, FS_CardinalityType
  <2>3. used = Cardinality(there)
    BY DEF Init
  <2>. QED
    BY <2>2, <2>3, DriveOK
<1>3. StoreOK /\ GhostsOK
  BY <1>2, DriveOK DEF Init, StoreOK, GhostsOK
<1>4. RequestsOK
  <2>1. Plain("get", Root) \in Calls /\ [Blank EXCEPT !.ok = FALSE] \in Mine
    BY PlainOK, BlankOK DEF CallNames, Nodes
  <2>. QED
    BY <1>1, <2>1 DEF Init, RequestsOK, Labels
<1>5. PagesOK
  BY DEF Init, PagesOK, Stages, NoPage, Pages, Nodes
<1>6. SessionsAccounted
  <2>1. Holders(pc) = {}
    BY DEF Init, Holders, Outside
  <2>2. Cardinality(Holders(pc)) = 0
    BY <2>1, FS_EmptySet
  <2>. QED
    BY <1>1, <2>2, Accounted DEF Init
<1>7. Control
  BY DEF Init, Control, Idle
<1>. QED
  BY <1>3, <1>4, <1>5, <1>6, <1>7, Parts DEF IInv

LEMMA NextOK == IInv /\ [Next]_vars => IInv'
<1>1. ASSUME IInv, UNCHANGED vars PROVE IInv'
  <2>1. StoreOK' /\ RequestsOK' /\ PagesOK' /\ GhostsOK'
    BY <1>1, Parts DEF IInv, vars, StoreOK, RequestsOK, PagesOK, GhostsOK
  <2>2. SessionsAccounted' /\ Control'
    BY <1>1, Accounted DEF IInv, vars, Control, Idle
  <2>. QED
    BY <2>1, <2>2, Whole DEF Running
<1>. QED
  BY <1>1, ServeOK, ActOK, WorkerEndsOK DEF Next, Rest

\* The variables of Drive stay within what they are made of.
THEOREM DriveTyped == Spec => []TypeOK
<1>1. IInv => TypeOK
  BY DEF IInv
<1>. QED
  BY <1>1, InitOK, NextOK, PTL DEF Spec

\* Every session of a worker's pool is free, in the hands of one request, or lost to an
\* upload that was refused; and none is in the pool twice but for an upload whose read
\* failed.  Where a body breaks off or a worker ends, nothing else is kept or doubled.
THEOREM SessionsKept == Spec => []SessionsAccounted
<1>1. IInv => SessionsAccounted
  BY DEF IInv
<1>. QED
  BY <1>1, InitOK, NextOK, PTL DEF Spec
=============================================================================
