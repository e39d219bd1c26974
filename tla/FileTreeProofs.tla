--------------------------- MODULE FileTreeProofs ---------------------------
(***************************************************************************)
(* Where changes of one file do not overlap, the collection Files is the   *)
(* table that FileTree promises: what a request writes back is what it     *)
(* read, but for the one thing that it is meant to change, although it     *)
(* writes the whole row and other rows come and go meanwhile.  And as long *)
(* as no write fails, there are bytes for the rows of files and rows for   *)
(* the bytes, although nothing orders the two halves of a request.  The    *)
(* folders stay a tree as long as nobody drops anything from a page that   *)
(* is out of date; and a folder that is deleted from a page that is not    *)
(* has nothing left in it, unless a call on the way there has failed.      *)
(***************************************************************************)
EXTENDS DriveProofs, WellFoundedInduction

\* An upload that has still to add its row.
Coming(u) == pc[u] = "halves" /\ call[u].name = "upload" /\ "row" \in my[u].halves

Changing(u) == InHand(u) /\ call[u].name \in Changes

\* A request that is going to write back what it has read.
HasRead(u) ==
    /\ pc[u] = "read" /\ call[u].name \in Changes \ {"delete"}
    /\ call[u].file \notin my[u].want

RestFree == \A f \in Ids : f > used => rows[f] = Undef

PlacesFree ==
    \A u \in Users : Coming(u) =>
        /\ my[u].new <= used /\ rows[my[u].new] = Undef
        /\ \A v \in Users : Coming(v) /\ my[v].new = my[u].new => u = v

ReadsBegin == \A u \in Users : pc[u] = "door" => call[u].file \in my[u].want

Alone ==
    \A u, v \in Users : Changing(u) /\ Changing(v) /\ call[u].file = call[v].file => u = v

Current == \A u \in Users : HasRead(u) => rows[call[u].file] = my[u].doc

TreeInv ==
    /\ IInv /\ RestFree /\ PlacesFree /\ ReadsBegin
    /\ Given.apart => Alone /\ Current

-----------------------------------------------------------------------------
(* What a step of one user disturbs *)

\* Only user u goes on.
Only(u) ==
    /\ \A v \in Users \ {u} : pc'[v] = pc[v] /\ my'[v] = my[v] /\ call'[v] = call[v]
    /\ given' = given

\* The rows of fs change: they are of the file that u changes, or new.
Touches(u, fs) ==
    /\ \A f \in Ids \ fs : rows'[f] = rows[f]
    /\ \A f \in fs :
          \/ Changing(u) /\ f = call[u].file /\ rows[f] # Undef
          \/ /\ rows[f] = Undef /\ f <= used'
             /\ \A v \in Users \ {u} : Coming(v) => my[v].new # f

\* What u has afterwards is as TreeInv wants it.
Fits(u) ==
    /\ Coming(u)' =>
          /\ my'[u].new <= used' /\ rows'[my'[u].new] = Undef
          /\ \A v \in Users \ {u} : Coming(v) => my[v].new # my'[u].new
    /\ pc'[u] = "door" => call'[u].file \in my'[u].want
    /\ Given.apart /\ Changing(u)' =>
          \A v \in Users \ {u} : Changing(v) => call[v].file # call'[u].file
    /\ Given.apart /\ HasRead(u)' => rows'[call'[u].file] = my'[u].doc

LEMMA TreeStep ==
    ASSUME TreeInv, IInv', NEW u \in Users, NEW fs \in SUBSET Ids,
           Only(u), Touches(u, fs), Fits(u), used' \in {used, used + 1}
    PROVE  TreeInv'
<1>1. used \in Nat /\ used' \in Nat /\ used' >= used /\ Ids \subseteq Nat
  BY DriveOK DEF TreeInv, IInv, TypeOK, Ids
<1>2. RestFree'
  <2>. SUFFICES ASSUME NEW f \in Ids, f > used' PROVE rows'[f] = Undef
    BY DEF RestFree
  <2>1. f > used /\ f \in Nat /\ rows[f] = Undef
    BY <1>1 DEF TreeInv, RestFree
  <2>2. f \notin fs
    BY <1>1, <2>1 DEF Touches
  <2>. QED
    BY <2>1, <2>2 DEF Touches
<1>3. \A v \in Users \ {u} : /\ Coming(v)' <=> Coming(v)
                             /\ Changing(v)' <=> Changing(v)
                             /\ HasRead(v)' <=> HasRead(v)
                             /\ pc'[v] = pc[v] /\ my'[v] = my[v] /\ call'[v] = call[v]
  BY DEF Only, Coming, Changing, HasRead, InHand
<1>4. PlacesFree'
  <2>1. ASSUME NEW v \in Users \ {u}, Coming(v)
        PROVE  my[v].new <= used' /\ rows'[my[v].new] = Undef
    <3>1. my[v].new \in Ids /\ my[v].new <= used /\ rows[my[v].new] = Undef
      BY <2>1 DEF TreeInv, PlacesFree, IInv, Control, Coming, Halves
    <3>2. my[v].new \notin fs
      BY <2>1, <3>1 DEF Touches
    <3>3. my[v].new <= used'
      <4>. DEFINE n == my[v].new
      <4>1. n \in Nat /\ n <= used
        BY <1>1, <3>1
      <4>. HIDE DEF n
      <4>. QED
        BY <1>1, <4>1 DEF n
    <3>. QED
      BY <3>1, <3>2, <3>3 DEF Touches
  <2>2. ASSUME NEW v \in Users, NEW w \in Users, Coming(v)', Coming(w)',
               my'[v].new = my'[w].new
        PROVE  v = w
    <3>1. CASE v # u /\ w # u
      <4>1. Coming(v) /\ Coming(w)
        BY <1>3, <2>2, <3>1
      <4>2. my[v].new = my[w].new
        BY <1>3, <2>2, <3>1
      <4>. QED
        BY <4>1, <4>2 DEF TreeInv, PlacesFree
    <3>2. CASE v = u /\ w # u
      <4>1. Coming(w) /\ my[w].new = my'[u].new
        BY <1>3, <2>2, <3>2
      <4>. QED
        BY <2>2, <3>2, <4>1 DEF Fits
    <3>3. CASE v # u /\ w = u
      <4>1. Coming(v) /\ my[v].new = my'[u].new
        BY <1>3, <2>2, <3>3
      <4>. QED
        BY <2>2, <3>3, <4>1 DEF Fits
    <3>. QED
      BY <3>1, <3>2, <3>3
  <2>. QED
    BY <1>3, <2>1, <2>2 DEF PlacesFree, Fits
<1>5. ReadsBegin'
  BY <1>3 DEF TreeInv, ReadsBegin, Fits
<1>6. Given' = Given
  BY DEF Only, Given
<1>7. ASSUME Given.apart PROVE Alone'
  BY <1>3, <1>7 DEF TreeInv, Alone, Fits
<1>8. ASSUME Given.apart PROVE Current'
  <2>1. ASSUME NEW v \in Users \ {u}, HasRead(v)
        PROVE  rows'[call[v].file] = my[v].doc
    <3>1. /\ Changing(v) /\ call[v].file \in Ids
          /\ rows[call[v].file] = my[v].doc /\ my[v].doc \in Rows
      BY <1>8, <2>1, OwnOK DEF TreeInv, Current, HasRead, Changing, InHand, IInv, Control, Idle
    <3>2. rows[call[v].file] # Undef
      BY <3>1, DriveOK
    <3>3. ~(Changing(u) /\ call[v].file = call[u].file)
      BY <1>8, <3>1 DEF TreeInv, Alone
    <3>4. call[v].file \notin fs
      BY <3>2, <3>3 DEF Touches
    <3>. QED
      BY <3>1, <3>4 DEF Touches
  <2>. QED
    BY <1>3, <1>8, <2>1 DEF Current, Fits
<1>. QED
  BY <1>2, <1>4, <1>5, <1>6, <1>7, <1>8 DEF TreeInv

\* No row changes.
LEMMA TreeStays ==
    ASSUME TreeInv, IInv', NEW u \in Users, Only(u), rows' = rows, Fits(u),
           used' \in {used, used + 1}
    PROVE  TreeInv'
<1>1. Touches(u, {})
  BY DEF Touches
<1>. QED
  BY <1>1, TreeStep

\* u has answered, or gone on within its call with what it had before.
LEMMA AtHomeFits ==
    ASSUME TreeInv, NEW u \in Users, pc'[u] = "home"
    PROVE  Fits(u)
BY DEF Fits, Coming, Changing, InHand, HasRead

LEMMA OnwardFits ==
    ASSUME TreeInv, NEW u \in Users, InHand(u), call' = call, given' = given,
           pc'[u] \in OnItsWay, ~Coming(u)', ~HasRead(u)'
    PROVE  Fits(u)
BY DEF Fits, Changing, InHand, OnItsWay, Outside, TreeInv, Alone

\* An upload that is over but for closing once more is at no file.
LEMMA ClosedFits ==
    ASSUME TreeInv, NEW u \in Users, pc'[u] = "closed", call'[u].name = "upload"
    PROVE  Fits(u)
BY DEF Fits, Coming, Changing, InHand, HasRead, Changes

LEMMA ClosedOnly ==
    ASSUME IInv, NEW u \in Users, Closed(u)
    PROVE  Only(u) /\ pc'[u] = "closed" /\ call' = call
BY DEF Closed, Goes, Only, IInv, TypeOK

LEMMA CloseAgainOnly ==
    ASSUME IInv, NEW u \in Users, CloseAgain(u)
    PROVE  Only(u) /\ pc'[u] = "home" /\ UNCHANGED <<rows, disk, used, call>>
BY DEF CloseAgain, Goes, Only, Unplaced, IInv, TypeOK

LEMMA MovesOnly ==
    ASSUME IInv, NEW u \in Users, NEW place, NEW m, Moves(u, place, m)
    PROVE  Only(u) /\ pc'[u] = place /\ my'[u] = m /\ call' = call
BY DEF Moves, Goes, Only, IInv, TypeOK

LEMMA AnsweredOnly ==
    ASSUME IInv, NEW u \in Users, NEW ok, Answered(u, ok)
    PROVE  Only(u) /\ pc'[u] = "home" /\ call' = call
BY DEF Answered, Goes, Only, IInv, TypeOK

-----------------------------------------------------------------------------
(* The steps *)

LEMMA EnterTree ==
    ASSUME TreeInv, NEW u \in Users, Enter(u)
    PROVE  TreeInv' /\ rows' = rows
<1>1. IInv'
  BY EnterOK DEF TreeInv
<1>2. Only(u) /\ rows' = rows /\ used' = used /\ pc'[u] = "read" /\ my' = my /\ call' = call
  BY DEF Enter, Only, store, TreeInv, IInv, TypeOK
<1>3. Fits(u)
  <2>1. ~Coming(u)' /\ ~HasRead(u)'
    BY <1>2 DEF Coming, HasRead, Enter, TreeInv, ReadsBegin
  <2>2. Given.apart /\ Changing(u)' =>
            \A v \in Users \ {u} : Changing(v) => call[v].file # call'[u].file
    BY <1>2 DEF Enter, Changing
  <2>. QED
    BY <1>2, <2>1, <2>2 DEF Fits
<1>. QED
  BY <1>1, <1>2, <1>3, TreeStays

\* Going on without a change of the files.
LEMMA MovesTree ==
    ASSUME TreeInv, IInv', NEW u \in Users, InHand(u), rows' = rows,
           NEW place \in OnItsWay \ {"read", "halves"}, NEW m, Moves(u, place, m), used' = used
    PROVE  TreeInv'
<1>1. Only(u) /\ pc'[u] = place /\ call' = call
  BY MovesOnly DEF TreeInv
<1>2. ~Coming(u)' /\ ~HasRead(u)'
  BY <1>1 DEF Coming, HasRead
<1>. QED
  BY <1>1, <1>2, OnwardFits, TreeStays DEF Only

LEMMA AnsweredTree ==
    ASSUME TreeInv, IInv', NEW u \in Users, rows' = rows, used' = used,
           NEW ok, Answered(u, ok)
    PROVE  TreeInv'
BY AnsweredOnly, AtHomeFits, TreeStays DEF TreeInv

LEMMA ReadTree ==
    ASSUME TreeInv, NEW u \in Users, Read(u) \/ ReadFails(u) \/ Climb(u)
    PROVE  TreeInv' /\ rows' = rows
<1>1. IInv' /\ InHand(u) /\ rows' = rows /\ used' = used
  BY ReadOK DEF TreeInv, Read, ReadFails, Climb, InHand, Unplaced
<1>2. CASE Answered(u, FALSE)
  BY <1>1, <1>2, AnsweredTree
<1>6. CASE call[u].name = "upload" /\ Closed(u)
  BY <1>1, <1>6, ClosedOnly, ClosedFits, TreeStays DEF TreeInv
<1>3. ASSUME NEW m, Moves(u, "read", m),
             HasRead(u)' => m.doc = rows[call[u].file] \/ (HasRead(u) /\ m.doc = my[u].doc)
      PROVE  TreeInv'
  <2>1. Only(u) /\ pc'[u] = "read" /\ my'[u] = m /\ call' = call
    BY <1>3, MovesOnly DEF TreeInv
  <2>2. ~Coming(u)'
    BY <2>1 DEF Coming
  <2>3. Given.apart /\ HasRead(u)' => rows'[call'[u].file] = my'[u].doc
    BY <1>1, <1>3, <2>1 DEF TreeInv, Current
  <2>4. Given.apart /\ Changing(u)' =>
            \A v \in Users \ {u} : Changing(v) => call[v].file # call'[u].file
    BY <1>1, <2>1 DEF TreeInv, Alone, Changing
  <2>. QED
    BY <1>1, <2>1, <2>2, <2>3, <2>4, TreeStays DEF Fits
<1>4. ASSUME NEW f \in my[u].want, pc[u] = "read",
             Moves(u, "read", [my[u] EXCEPT
                   !.want = @ \ {f},
                   !.walk = @ \union Over(f),
                   !.doc = IF f = call[u].file /\ f # Root THEN rows[f] ELSE @])
      PROVE  TreeInv'
  <2>. DEFINE walk == my[u].walk \union Over(f)
              doc == IF f = call[u].file /\ f # Root THEN rows[f] ELSE my[u].doc
              m == [my[u] EXCEPT !.want = @ \ {f}, !.walk = walk, !.doc = doc]
  <2>1. Moves(u, "read", m)
    BY <1>4
  <2>. HIDE DEF walk, doc
  <2>2. m.want = my[u].want \ {f} /\ m.doc = doc
    BY OwnOK DEF TreeInv, Mine
  <2>3. my'[u] = m /\ call' = call
    BY <2>1, MovesOnly DEF TreeInv
  <2>4. ASSUME HasRead(u)'
        PROVE  m.doc = rows[call[u].file] \/ (HasRead(u) /\ m.doc = my[u].doc)
    <3>1. call[u].name \in Changes \ {"delete"} /\ call[u].file \notin my[u].want \ {f}
      BY <2>2, <2>3, <2>4 DEF HasRead
    <3>2. call[u].file # Root
      BY <1>4, <3>1, DriveOK DEF TreeInv, IInv, Control, Idle, Ids, Root
    <3>3. CASE f = call[u].file
      BY <2>2, <3>2, <3>3 DEF doc
    <3>4. CASE f # call[u].file
      BY <1>4, <2>2, <3>1, <3>4 DEF doc, HasRead
    <3>. QED
      BY <3>3, <3>4
  <2>. HIDE DEF m
  <2>. QED
    BY <1>3, <2>1, <2>4
<1>5. ASSUME NEW f \in my[u].walk, pc[u] = "read",
             Moves(u, "read", [my[u] EXCEPT !.walk = (@ \ {f}) \union Over(f)])
      PROVE  TreeInv'
  <2>. DEFINE walk == (my[u].walk \ {f}) \union Over(f)
              m == [my[u] EXCEPT !.walk = walk]
  <2>1. Moves(u, "read", m)
    BY <1>5
  <2>. HIDE DEF walk
  <2>2. m.want = my[u].want /\ m.doc = my[u].doc
    BY OwnOK DEF TreeInv, Mine
  <2>3. my'[u] = m /\ call' = call
    BY <2>1, MovesOnly DEF TreeInv
  <2>4. HasRead(u)' => HasRead(u) /\ m.doc = my[u].doc
    BY <1>5, <2>2, <2>3 DEF HasRead
  <2>. HIDE DEF m
  <2>. QED
    BY <1>3, <2>1, <2>4
<1>. QED
  BY <1>1, <1>2, <1>4, <1>5, <1>6 DEF Read, ReadFails, Climb

LEMMA PathTree ==
    ASSUME TreeInv, NEW u \in Users,
           \/ Query(u) \/ Trace(u) \/ PathOn(u) \/ PathEnds(u) \/ Refuse(u)
           \/ BothDone(u) \/ CloseAgain(u)
    PROVE  TreeInv' /\ rows' = rows
<1>1. IInv'
  BY PathOK, RefuseOK, HalvesOK, CloseAgainOK DEF TreeInv
<1>2. rows' = rows /\ used' = used
  BY DEF Query, Trace, PathOn, PathEnds, Refuse, BothDone, CloseAgain, Unplaced, store
<1>6. CASE CloseAgain(u)
  BY <1>1, <1>2, <1>6, CloseAgainOnly, AtHomeFits, TreeStays DEF TreeInv
<1>3. CASE Refuse(u)
  <2>1. Only(u) /\ pc'[u] = "home"
    BY <1>3 DEF Refuse, Goes, Only, TreeInv, IInv, TypeOK
  <2>. QED
    BY <1>1, <1>2, <2>1, AtHomeFits, TreeStays
<1>4. CASE BothDone(u)
  BY <1>1, <1>2, <1>4, AnsweredTree DEF BothDone
<1>5. CASE Query(u) \/ Trace(u) \/ PathOn(u) \/ PathEnds(u)
  <2>1. InHand(u)
    BY <1>5 DEF Query, Trace, PathOn, PathEnds, Gathered, InHand
  <2>2. "path" \in OnItsWay \ {"read", "halves"} /\ "token" \in OnItsWay \ {"read", "halves"}
    BY DEF OnItsWay, Labels, Outside
  <2>3. \/ \E ok : Answered(u, ok)
        \/ \E m : Moves(u, "path", m) \/ Moves(u, "token", m)
    BY <1>5 DEF Query, Trace, PathOn, PathEnds
  <2>. QED
    BY <1>1, <1>2, <2>1, <2>2, <2>3, AnsweredTree, MovesTree
<1>. QED
  BY <1>2, <1>3, <1>4, <1>5, <1>6

-----------------------------------------------------------------------------
(* The steps that change files, and what they are in FileTree *)

\* The table that FileTree is about.
Table == IF Given.apart THEN rows ELSE CHOOSE t \in First : TRUE

LEMMA TableSame ==
    ASSUME given' = given, rows' = rows
    PROVE  Table' = Table
BY DEF Table, Given

\* The row that f gets, where changes of one file do not overlap.
Meant(f, row) ==
    \/ rows[f] = Undef /\ row \in Rows
    \/ rows[f] # Undef /\ row = Undef
    \/ rows[f] # Undef /\ \E r \in Rows : row = [rows[f] EXCEPT !.name = r.name]
    \/ rows[f] # Undef /\ \E r \in Rows : row = [rows[f] EXCEPT !.parent = r.parent]

LEMMA TableChanged ==
    ASSUME given' = given, NEW f \in Ids, NEW row, rows' = [rows EXCEPT ![f] = row],
           Given.apart => Meant(f, row)
    PROVE  [Tree!Next]_Table
<1>1. CASE ~Given.apart
  BY <1>1 DEF Table, Given
<1>2. CASE Given.apart
  <2>1. Table = rows /\ Table' = rows'
    BY <1>2 DEF Table, Given
  <2>2. Tree!Put(f, row) /\ (Tree!Is(f) <=> rows[f] # Undef)
    BY <2>1 DEF Tree!Put, Tree!Is, Table
  <2>3. Tree!Add(f) \/ Tree!Rename(f) \/ Tree!Move(f) \/ Tree!Remove(f)
    BY <1>2, <2>1, <2>2 DEF Meant, Tree!Add, Tree!Rename, Tree!Move, Tree!Remove, Table
  <2>. QED
    BY <2>3 DEF Tree!Next
<1>. QED
  BY <1>1, <1>2

LEMMA CreateFolderTree ==
    ASSUME TreeInv, NEW u \in Users, CreateFolder(u)
    PROVE  TreeInv' /\ [Tree!Next]_Table
<1>1. IInv' /\ InHand(u)
  BY CreateFolderOK DEF TreeInv, CreateFolder, Gathered, InHand
<1>2. CASE Answered(u, FALSE) /\ Unplaced
  <2>1. rows' = rows /\ used' = used /\ given' = given
    BY <1>2 DEF Unplaced, Answered
  <2>. QED
    BY <1>1, <1>2, <2>1, AnsweredTree, TableSame
<1>3. CASE ~(Answered(u, FALSE) /\ Unplaced)
  <2>. DEFINE row == [parent |-> call[u].file, name |-> call[u].info, folder |-> TRUE]
              m == [my[u] EXCEPT !.at = call[u].file]
  <2>1. /\ used < MaxId /\ used' = used + 1
        /\ rows' = [rows EXCEPT ![used'] = row]
        /\ Moves(u, "path", m)
    BY <1>3 DEF CreateFolder
  <2>2. row \in Rows
    BY OwnOK DEF TreeInv, Rows
  <2>. HIDE DEF row, m
  <2>3. used \in Nat /\ used' \in Ids /\ used' > used /\ rows[used'] = Undef
    BY <2>1, NextId DEF TreeInv, IInv, TypeOK, RestFree
  <2>4. Only(u) /\ pc'[u] = "path" /\ call' = call
    BY <2>1, MovesOnly DEF TreeInv
  <2>5. \A v \in Users : Coming(v) => my[v].new # used'
    <3>. SUFFICES ASSUME NEW v \in Users, Coming(v), my[v].new = used' PROVE FALSE
      OBVIOUS
    <3>1. my[v].new <= used
      BY DEF TreeInv, PlacesFree
    <3>. QED
      BY <2>1, <2>3, <3>1
  <2>6. Touches(u, {used'})
    BY <2>1, <2>3, <2>5 DEF Touches, TreeInv, IInv, TypeOK
  <2>7. Fits(u)
    BY <1>1, <2>4, OnwardFits DEF Only, Coming, HasRead, OnItsWay, Labels, Outside
  <2>8. [Tree!Next]_Table
    BY <2>1, <2>2, <2>3, <2>4, TableChanged DEF Only, Meant
  <2>. QED
    BY <1>1, <2>1, <2>3, <2>4, <2>6, <2>7, <2>8, TreeStep
<1>. QED
  BY <1>2, <1>3

LEMMA HalvesTree ==
    ASSUME TreeInv, NEW u \in Users, Accept(u) \/ Delete(u)
    PROVE  TreeInv' /\ rows' = rows
<1>1. IInv' /\ InHand(u) /\ rows' = rows
  BY HalvesOK DEF TreeInv, Accept, Delete, Gathered, InHand, Unplaced
<1>2. CASE Accept(u)
  <2>. DEFINE m == [my[u] EXCEPT !.new = used', !.halves = Halves]
  <2>1. used' = used + 1 /\ Moves(u, "halves", m) /\ used \in Nat /\ used' \in Ids /\ used' > used
    BY <1>2, NextId DEF Accept, TreeInv, IInv, TypeOK
  <2>2. m.new = used'
    BY OwnOK DEF TreeInv, Mine
  <2>. HIDE DEF m
  <2>3. Only(u) /\ pc'[u] = "halves" /\ my'[u] = m /\ call' = call
    BY <2>1, MovesOnly DEF TreeInv
  <2>4. rows[used'] = Undef
    BY <2>1 DEF TreeInv, RestFree
  <2>5. \A v \in Users : Coming(v) => my[v].new # used'
    <3>. SUFFICES ASSUME NEW v \in Users, Coming(v), my[v].new = used' PROVE FALSE
      OBVIOUS
    <3>1. my[v].new <= used
      BY DEF TreeInv, PlacesFree
    <3>. QED
      BY <2>1, <3>1
  <2>6. Given.apart /\ Changing(u)' =>
            \A v \in Users \ {u} : Changing(v) => call[v].file # call'[u].file
    BY <1>1, <2>3 DEF TreeInv, Alone, Changing
  <2>7. Fits(u)
    <3>1. my'[u].new = used' /\ used' <= used' /\ rows'[my'[u].new] = Undef
      BY <1>1, <2>1, <2>2, <2>3, <2>4
    <3>. QED
      BY <2>3, <2>5, <2>6, <3>1 DEF Fits, HasRead
  <2>. QED
    BY <1>1, <2>1, <2>3, <2>7, TreeStays
<1>3. CASE Delete(u)
  <2>1. Moves(u, "halves", [my[u] EXCEPT !.halves = Halves]) /\ used' = used
        /\ call[u].name = "delete"
    BY <1>3 DEF Delete, Unplaced, Gathered
  <2>2. Only(u) /\ pc'[u] = "halves" /\ call' = call
    BY <2>1, MovesOnly DEF TreeInv
  <2>3. ~Coming(u)' /\ ~HasRead(u)'
    BY <2>1, <2>2 DEF Coming, HasRead
  <2>. QED
    BY <1>1, <2>1, <2>2, <2>3, OnwardFits, TreeStays DEF Only, OnItsWay, Labels, Outside
<1>. QED
  BY <1>1, <1>2, <1>3

LEMMA HalfDoneFits ==
    ASSUME TreeInv, NEW u \in Users, pc[u] = "halves", NEW h, NEW ok, HalfDone(u, h, ok),
           call[u].name = "upload" /\ h # "row" => rows'[my[u].new] = rows[my[u].new],
           used' = used
    PROVE  Only(u) /\ Fits(u)
<1>. DEFINE m == [my[u] EXCEPT !.halves = @ \ {h}, !.ok = @ /\ ok]
<1>1. Moves(u, "halves", m)
  BY DEF HalfDone
<1>2. m.halves = my[u].halves \ {h} /\ m.new = my[u].new
  BY OwnOK DEF TreeInv, Mine
<1>. HIDE DEF m
<1>3. Only(u) /\ pc'[u] = "halves" /\ my'[u] = m /\ call' = call
  BY <1>1, MovesOnly DEF TreeInv
<1>4. Coming(u)' => Coming(u) /\ h # "row"
  BY <1>2, <1>3 DEF Coming
<1>5. ASSUME Coming(u)'
      PROVE  /\ my'[u].new <= used' /\ rows'[my'[u].new] = Undef
             /\ \A v \in Users \ {u} : Coming(v) => my[v].new # my'[u].new
  <2>1. my'[u].new = my[u].new /\ rows'[my[u].new] = rows[my[u].new]
    BY <1>2, <1>3, <1>4, <1>5 DEF Coming
  <2>. QED
    BY <1>4, <1>5, <2>1 DEF TreeInv, PlacesFree
<1>6. Given.apart /\ Changing(u)' =>
          \A v \in Users \ {u} : Changing(v) => call[v].file # call'[u].file
  BY <1>3 DEF TreeInv, Alone, Changing, InHand
<1>. QED
  BY <1>3, <1>5, <1>6 DEF Fits, HasRead

LEMMA HalfTree ==
    ASSUME TreeInv, NEW u \in Users,
           AddRow(u) \/ WriteBytes(u) \/ RemoveRow(u) \/ Unlink(u)
    PROVE  TreeInv' /\ [Tree!Next]_Table
<1>1. IInv' /\ pc[u] = "halves" /\ used' = used
  BY HalfOK DEF TreeInv, AddRow, WriteBytes, RemoveRow, Unlink, Half
<1>2. \E h, ok : HalfDone(u, h, ok)
  BY DEF AddRow, WriteBytes, RemoveRow, Unlink
<1>3. CASE rows' = rows
  <2>1. Only(u) /\ Fits(u)
    BY <1>1, <1>2, <1>3, HalfDoneFits
  <2>. QED
    BY <1>1, <1>3, <2>1, TreeStays, TableSame DEF Only
<1>4. CASE AddRow(u) /\ rows' # rows
  <2>1. /\ Coming(u) /\ rows' = [rows EXCEPT ![my[u].new] = NewRow(u)]
        /\ HalfDone(u, "row", TRUE)
    BY <1>1, <1>4 DEF AddRow, Half, Coming
  <2>2. Only(u) /\ Fits(u)
    BY <1>1, <2>1, HalfDoneFits
  <2>3. /\ my[u].new \in Ids /\ my[u].new <= used /\ rows[my[u].new] = Undef
        /\ \A v \in Users \ {u} : Coming(v) => my[v].new # my[u].new
    BY <2>1 DEF TreeInv, PlacesFree, IInv, Control, Coming, Halves
  <2>4. Touches(u, {my[u].new})
    BY <1>1, <2>1, <2>3 DEF Touches, TreeInv, IInv, TypeOK
  <2>5. NewRow(u) \in Rows
    BY OwnOK DEF NewRow, Rows, TreeInv
  <2>6. [Tree!Next]_Table
    BY <2>1, <2>2, <2>3, <2>5, TableChanged DEF Only, Meant
  <2>. QED
    BY <1>1, <2>2, <2>3, <2>4, <2>6, TreeStep
<1>5. CASE RemoveRow(u) /\ rows' # rows
  <2>1. /\ call[u].name = "delete" /\ rows' = [rows EXCEPT ![call[u].file] = Undef]
        /\ HalfDone(u, "row", TRUE)
    BY <1>5 DEF RemoveRow
  <2>2. Only(u) /\ Fits(u)
    BY <1>1, <2>1, HalfDoneFits
  <2>3. call[u].file \in Ids /\ Changing(u)
    BY <1>1, <2>1 DEF TreeInv, IInv, Control, Idle, Changes, Changing, InHand
  <2>4. rows[call[u].file] # Undef
    BY <1>5, <2>1, <2>3 DEF TreeInv, IInv, TypeOK
  <2>5. Touches(u, {call[u].file})
    BY <2>1, <2>3, <2>4 DEF Touches, TreeInv, IInv, TypeOK
  <2>6. [Tree!Next]_Table
    BY <2>1, <2>2, <2>3, <2>4, TableChanged DEF Only, Meant
  <2>. QED
    BY <1>1, <2>2, <2>3, <2>5, <2>6, TreeStep
<1>. QED
  BY <1>3, <1>4, <1>5 DEF WriteBytes, Unlink

\* A body that breaks off: what u says of its file is not more than before.
LEMMA BreaksOffOnly ==
    ASSUME IInv, NEW u \in Users, BreaksOff(u)
    PROVE  /\ Only(u) /\ pc'[u] = "halves" /\ "rest" \in my'[u].halves
           /\ UNCHANGED <<rows, used, call, client, ghost>>
           /\ \/ /\ pc[u] = "token" /\ my'[u] = [Blank EXCEPT !.halves = {"rest"}]
                 /\ my'[u].new = Root /\ my'[u].halves = {"rest"}
                 /\ my'[u].kids = {} /\ my'[u].doc = NoDoc /\ disk' = disk
              \/ /\ pc[u] = "halves" /\ call[u].name = "upload" /\ "bytes" \in my[u].halves
                 /\ my'[u].halves = (my[u].halves \ {"bytes"}) \union {"rest"}
                 /\ my'[u].new = my[u].new /\ my'[u].kids = my[u].kids
                 /\ my'[u].doc = my[u].doc /\ my'[u].ok = my[u].ok
                 /\ disk' \in {disk, disk \union {my[u].new}}
<1>1. CASE pc[u] = "token"
  <2>1. Moves(u, "halves", [Blank EXCEPT !.halves = {"rest"}]) /\ disk' = disk
    BY <1>1 DEF BreaksOff, Half
  <2>2. Only(u) /\ pc'[u] = "halves" /\ my'[u] = [Blank EXCEPT !.halves = {"rest"}]
    BY <2>1, MovesOnly
  <2>. QED
    BY <1>1, <2>1, <2>2 DEF BreaksOff, Moves, Blank
<1>2. CASE pc[u] # "token"
  <2>. DEFINE hs == (my[u].halves \ {"bytes"}) \union {"rest"}
              m == [my[u] EXCEPT !.halves = hs]
  <2>1. /\ Moves(u, "halves", m) /\ disk' \in {disk, disk \union {my[u].new}}
        /\ pc[u] = "halves" /\ call[u].name = "upload" /\ "bytes" \in my[u].halves
    BY <1>2 DEF BreaksOff, Half
  <2>. HIDE DEF hs
  <2>2. /\ m.halves = hs /\ m.new = my[u].new /\ m.kids = my[u].kids
        /\ m.doc = my[u].doc /\ m.ok = my[u].ok
    BY OwnOK DEF Mine
  <2>. HIDE DEF m
  <2>3. Only(u) /\ pc'[u] = "halves" /\ my'[u] = m
    BY <2>1, MovesOnly
  <2>. QED
    BY <2>1, <2>2, <2>3 DEF BreaksOff, Moves, hs
<1>. QED
  BY <1>1, <1>2

LEMMA BreaksOffTree ==
    ASSUME TreeInv, NEW u \in Users, BreaksOff(u)
    PROVE  TreeInv' /\ rows' = rows
<1>1. IInv'
  BY BreaksOffOK DEF TreeInv
<1>2. Only(u) /\ pc'[u] = "halves" /\ UNCHANGED <<rows, used, call>>
  BY BreaksOffOnly DEF TreeInv
<1>3. Coming(u)' => Coming(u) /\ my'[u].new = my[u].new
  BY <1>2, BreaksOffOnly DEF TreeInv, Coming
<1>4. Coming(u)' =>
          /\ my'[u].new <= used' /\ rows'[my'[u].new] = Undef
          /\ \A v \in Users \ {u} : Coming(v) => my[v].new # my'[u].new
  BY <1>2, <1>3 DEF TreeInv, PlacesFree
<1>5. Given.apart /\ Changing(u)' =>
          \A v \in Users \ {u} : Changing(v) => call[v].file # call'[u].file
  BY <1>2 DEF TreeInv, Alone, Changing, InHand, BreaksOff, Half
<1>6. Fits(u)
  BY <1>2, <1>4, <1>5 DEF Fits, HasRead
<1>. QED
  BY <1>1, <1>2, <1>6, TreeStays

\* With its worker every request ends.
LEMMA WorkerEndsAll ==
    ASSUME IInv, WorkerEnds
    PROVE  /\ \A u \in Users :
                 /\ pc'[u] = "home"
                 /\ Idle(u) => my'[u] = my[u]
                 /\ ~Idle(u) => my'[u] = [Blank EXCEPT !.ok = FALSE]
           /\ UNCHANGED <<rows, disk, used, call, stage, page, visits, given, stale, crossed, missed>>
           /\ torn \subseteq torn'
BY DEF WorkerEnds, store, client, IInv, TypeOK

LEMMA WorkerEndsTree ==
    ASSUME TreeInv, WorkerEnds
    PROVE  TreeInv' /\ rows' = rows
<1>1. IInv'
  BY WorkerEndsOK DEF TreeInv
<1>2. (\A u \in Users : pc'[u] = "home") /\ UNCHANGED <<rows, used>>
  BY WorkerEndsAll DEF TreeInv
<1>3. PlacesFree' /\ ReadsBegin' /\ Alone' /\ Current'
  BY <1>2 DEF PlacesFree, ReadsBegin, Alone, Current, Coming, Changing, InHand, HasRead
<1>4. RestFree'
  BY <1>2 DEF TreeInv, RestFree
<1>. QED
  BY <1>1, <1>2, <1>3, <1>4 DEF TreeInv

LEMMA SaveTree ==
    ASSUME TreeInv, NEW u \in Users, Save(u)
    PROVE  TreeInv' /\ [Tree!Next]_Table
<1>1. IInv' /\ used' = used
  BY SaveOK DEF TreeInv, Save, Unplaced
<1>2. PICK ok : Answered(u, ok)
  BY DEF Save
<1>3. Only(u) /\ Fits(u)
  BY <1>2, AnsweredOnly, AtHomeFits DEF TreeInv
<1>4. CASE rows' = rows
  BY <1>1, <1>3, <1>4, TreeStays, TableSame DEF Only
<1>5. CASE rows' # rows
  <2>. DEFINE f == call[u].file
  <2>1. /\ IsRow(f) /\ rows' = [rows EXCEPT ![f] = Changed(u)]
        /\ call[u].name \in {"setInfo", "insertChild", "removeChild"}
        /\ HasRead(u) /\ Changing(u)
    BY <1>5 DEF Save, Unplaced, Gathered, HasRead, Changing, Changes, InHand
  <2>2. f \in Ids /\ rows[f] # Undef
    BY <2>1, OwnOK, NodesOK DEF TreeInv, IInv, IsRow
  <2>3. Touches(u, {f})
    BY <2>1, <2>2 DEF Touches, TreeInv, IInv, TypeOK
  <2>4. ASSUME Given.apart PROVE Meant(f, Changed(u))
    <3>1. rows[f] = my[u].doc
      BY <2>1, <2>4 DEF TreeInv, Current
    <3>2. CASE call[u].name = "setInfo"
      <4>. DEFINE r == [my[u].doc EXCEPT !.name = call[u].info]
      <4>1. r \in Rows /\ r.name = call[u].info
        BY OwnOK DEF Rows, TreeInv
      <4>2. Changed(u) = [rows[f] EXCEPT !.name = r.name]
        BY <3>1, <3>2, <4>1 DEF Changed
      <4>. QED
        BY <2>2, <4>1, <4>2 DEF Meant
    <3>3. CASE call[u].name = "insertChild"
      <4>. DEFINE r == [my[u].doc EXCEPT !.parent = call[u].to]
      <4>1. r \in Rows /\ r.parent = call[u].to
        BY OwnOK DEF Rows, TreeInv
      <4>2. Changed(u) = [rows[f] EXCEPT !.parent = r.parent]
        BY <3>1, <3>3, <4>1 DEF Changed
      <4>. QED
        BY <2>2, <4>1, <4>2 DEF Meant
    <3>4. CASE call[u].name = "removeChild"
      <4>. DEFINE r == [my[u].doc EXCEPT !.parent = Root]
      <4>1. r \in Rows /\ r.parent = Root
        BY OwnOK DEF Rows, TreeInv, Nodes
      <4>2. Changed(u) = [rows[f] EXCEPT !.parent = r.parent]
        BY <3>1, <3>4, <4>1 DEF Changed
      <4>. QED
        BY <2>2, <4>1, <4>2 DEF Meant
    <3>. QED
      BY <2>1, <3>2, <3>3, <3>4
  <2>5. [Tree!Next]_Table
    BY <1>3, <2>1, <2>2, <2>4, TableChanged DEF Only
  <2>. QED
    BY <1>1, <1>3, <2>2, <2>3, <2>5, TreeStep
<1>. QED
  BY <1>4, <1>5

\* A page that asks for something, or goes on by itself, changes no file.
LEMMA ActTree ==
    ASSUME TreeInv, NEW u \in Users, Act(u)
    PROVE  TreeInv' /\ [Tree!Next]_Table
<1>1. IInv' /\ Idle(u)
  BY ActOK DEF TreeInv, Act, Visit, Shown, Choose, Leave, Unfold, Kids, MoveKid, Unfolded
<1>2. CASE \E s, p : Home(u, s, p)
  <2>1. Only(u) /\ rows' = rows /\ used' = used /\ pc'[u] = "home"
    BY <1>1, <1>2 DEF Home, Only, store, pool, Idle, TreeInv, IInv, TypeOK
  <2>. QED
    BY <1>1, <2>1, AtHomeFits, TreeStays, TableSame DEF Only
<1>3. ASSUME NEW c, Asks(u, c) PROVE TreeInv' /\ [Tree!Next]_Table
  <2>1. /\ Only(u) /\ rows' = rows /\ used' = used /\ pc'[u] = "door" /\ call'[u] = c
        /\ my'[u] = [Blank EXCEPT !.want = Wanted(c)]
    BY <1>3 DEF Asks, Only, store, TreeInv, IInv, TypeOK
  <2>2. c.file \in my'[u].want
    BY <2>1 DEF Blank, Wanted
  <2>3. Fits(u)
    BY <2>1, <2>2 DEF Fits, Coming, Changing, InHand, HasRead
  <2>. QED
    BY <1>1, <2>1, <2>3, TreeStays, TableSame DEF Only
<1>. QED
  BY <1>2, <1>3 DEF Act, Visit, Shown, Choose, Leave, Unfold, Kids, MoveKid, Unfolded

-----------------------------------------------------------------------------
(* The theorem *)

LEMMA InitTree == Init => TreeInv /\ Tree!Init
<1>. SUFFICES ASSUME Init PROVE TreeInv /\ Tree!Init
  OBVIOUS
<1>1. IInv
  BY InitOK
<1>2. RestFree
  BY DriveOK DEF Init, RestFree
<1>3. PlacesFree /\ ReadsBegin /\ Alone /\ Current
  BY DEF Init, PlacesFree, ReadsBegin, Alone, Current, Coming, Changing, InHand, HasRead
<1>4. Tree!Init
  BY DEF Init, Tree!Init
<1>. QED
  BY <1>1, <1>2, <1>3, <1>4 DEF TreeInv

LEMMA NextTree == TreeInv /\ [Next]_vars => TreeInv' /\ [Tree!Next]_Table
<1>1. ASSUME TreeInv, UNCHANGED vars PROVE TreeInv' /\ [Tree!Next]_Table
  <2>1. IInv'
    BY <1>1, NextOK DEF TreeInv
  <2>2. RestFree' /\ PlacesFree' /\ ReadsBegin' /\ (Alone' <=> Alone) /\ (Current' <=> Current)
    BY <1>1 DEF vars, TreeInv, RestFree, PlacesFree, ReadsBegin, Alone, Current, Coming,
                Changing, InHand, HasRead
  <2>3. Given' = Given /\ Table' = Table
    BY <1>1, TableSame DEF vars, Given
  <2>. QED
    BY <1>1, <2>1, <2>2, <2>3 DEF TreeInv
<1>2. ASSUME TreeInv, NEW u \in Users, Serve(u) PROVE TreeInv' /\ [Tree!Next]_Table
  <2>1. given' = given
    BY <1>2 DEF Serve, Enter, Read, ReadFails, Climb, Query, Trace, CreateFolder, PathOn,
                PathEnds, Refuse, Accept, Delete, AddRow, WriteBytes, RemoveRow, Unlink,
                BothDone, Save, BreaksOff, CloseAgain, HalfDone, Moves, Answered, Closed
  <2>. QED
    BY <1>2, <2>1, EnterTree, ReadTree, PathTree, CreateFolderTree, HalvesTree, HalfTree,
       BreaksOffTree, SaveTree, TableSame DEF Serve
<1>3. ASSUME TreeInv, WorkerEnds PROVE TreeInv' /\ [Tree!Next]_Table
  BY <1>3, WorkerEndsTree, TableSame DEF WorkerEnds
<1>. QED
  BY <1>1, <1>2, <1>3, ActTree DEF Next, Rest

\* Where changes of one file do not overlap, each changes one thing about one file,
\* whatever else goes on: the collection Files implements FileTree.
THEOREM FilesImplemented == Spec => ImplementsFileTree
<1>1. Tree!Spec <=> Tree!Init /\ [][Tree!Next]_Table
  BY DEF Tree!Spec, Table
<1>. QED
  BY <1>1, InitTree, NextTree, PTL DEF Spec, ImplementsFileTree

-----------------------------------------------------------------------------
(* Rows and bytes *)

\* A request that knows the row of the file that it changes.
HasDoc(u) ==
    /\ call[u].name \in Changes
    /\ pc[u] = "halves" \/ (pc[u] = "read" /\ call[u].file \notin my[u].want)

Uploading(u, f) == pc[u] = "halves" /\ call[u].name = "upload" /\ my[u].new = f

Deleting(u, f) == pc[u] = "halves" /\ call[u].name = "delete" /\ call[u].file = f

\* Bytes are there, or an upload is going to write them.
BytesComing(f) == \E u \in Users : Uploading(u, f) /\ "bytes" \in my[u].halves

Pending(f) == f \in disk \/ BytesComing(f)

\* A row that is read has been added; its folder flag never changes.
DocKnown(u) ==
    HasDoc(u) =>
        /\ call[u].file <= used
        /\ \A v \in Users : Coming(v) => my[v].new # call[u].file
        /\ rows[call[u].file] # Undef => rows[call[u].file].folder = my[u].doc.folder

UploadsApart ==
    \A f \in Ids, u \in Users : Uploading(u, f) =>
        f <= used /\ \A v \in Users : Uploading(v, f) => u = v

DiskKnown == \A f \in disk : f <= used

\* Its upload or deletion has been cut in two, or the body of its upload.
Torn(f) == f \in torn \/ \E u \in Users : Uploading(u, f) /\ "rest" \in my[u].halves

\* What the row of f, its bytes and the requests that are at them say of each other.
BytesAt(f) ==
    /\ BytesComing(f) => f \notin disk
    /\ rows[f] # Undef /\ rows[f].folder => ~Pending(f)
    /\ rows[f] # Undef /\ ~rows[f].folder =>
          \/ Pending(f)
          \/ \E v \in Users : Deleting(v, f) /\ "row" \in my[v].halves
    /\ rows[f] = Undef /\ Pending(f) =>
          \/ f \in missed
          \/ \E v \in Users : Coming(v) /\ my[v].new = f
          \/ \E v \in Users : Deleting(v, f) /\ "bytes" \in my[v].halves /\ ~my[v].doc.folder
    /\ \A v \in Users : Deleting(v, f) /\ "row" \notin my[v].halves => rows[f] = Undef
    /\ \A v \in Users :
          Deleting(v, f) /\ "bytes" \notin my[v].halves /\ ~my[v].doc.folder =>
              f \in missed \/ ~Pending(f)
    /\ \A v \in Users : Coming(v) /\ my[v].new = f => Pending(f)

WritesSucceed == Given.failing \intersect {"row", "bytes"} = {}

BytesInv ==
    /\ TreeInv
    /\ \A u \in Users : DocKnown(u)
    /\ \A u \in Users : pc[u] = "token" => call[u].name = "upload"
    /\ UploadsApart /\ DiskKnown
    /\ WritesSucceed => \A f \in Ids : Torn(f) \/ BytesAt(f)

LEMMA BytesEnough ==
    ASSUME BytesInv
    PROVE  BytesBehindRows
<1>1. \A u \in Users, f \in Ids : WorksOn(u, f) <=> Uploading(u, f) \/ Deleting(u, f)
  BY DEF WorksOn, Uploading, Deleting
<1>. QED
  BY <1>1 DEF BytesInv, BytesBehindRows, WritesSucceed, BytesAt, Pending, BytesComing,
              Uploading, Coming, Torn

\* What u says of what is torn it goes on to say.
RestStays(u) ==
    /\ torn' = torn
    /\ \A f \in Ids : Uploading(u, f) /\ "rest" \in my[u].halves =>
          Uploading(u, f)' /\ "rest" \in my'[u].halves

LEMMA TornStays ==
    ASSUME NEW f \in Ids, NEW u \in Users, Only(u), RestStays(u), Torn(f)
    PROVE  Torn(f)'
BY DEF RestStays, Torn, Only, Uploading

LEMMA RestAway ==
    ASSUME NEW u \in Users, pc[u] # "halves", torn' = torn
    PROVE  RestStays(u)
BY DEF RestStays, Uploading

\* What a step of u does not concern: nothing changes for file f but in what u says of it.
Aside(u, f) ==
    /\ rows'[f] = rows[f] /\ (f \in disk' <=> f \in disk) /\ (f \in missed => f \in missed')
    /\ Uploading(u, f) \/ Deleting(u, f) => my[u].halves = {}
    /\ ~Uploading(u, f)' /\ ~Deleting(u, f)'

LEMMA BytesAside ==
    ASSUME NEW f \in Ids, BytesAt(f), NEW u \in Users, Only(u), Aside(u, f)
    PROVE  BytesAt(f)'
<1>1. \A v \in Users \ {u} : /\ Uploading(v, f)' <=> Uploading(v, f)
                             /\ Deleting(v, f)' <=> Deleting(v, f)
                             /\ Coming(v)' <=> Coming(v)
                             /\ my'[v] = my[v]
  BY DEF Only, Uploading, Deleting, Coming
<1>2. ~(Coming(u) /\ my[u].new = f) /\ ~(Coming(u) /\ my[u].new = f)'
  BY DEF Aside, Uploading, Coming
<1>3. BytesComing(f)' <=> BytesComing(f)
  BY <1>1 DEF Aside, BytesComing
<1>4. Pending(f)' <=> Pending(f)
  BY <1>3 DEF Aside, Pending
<1>. QED
  BY <1>1, <1>2, <1>3, <1>4 DEF BytesAt, Aside

\* DocKnown for who does not move: the row of a file changes in what it says of
\* folders only if it was not there, and nobody knows it.
LEMMA DocsAside ==
    ASSUME BytesInv, TreeInv', NEW u \in Users, Only(u),
           used' \in {used, used + 1},
           Coming(u)' => (Coming(u) /\ my'[u].new = my[u].new) \/ my'[u].new > used,
           \A f \in Ids : \/ rows'[f] = rows[f] \/ rows'[f] = Undef
                          \/ f > used
                          \/ (Coming(u) /\ f = my[u].new)
                          \/ (rows[f] # Undef /\ rows'[f].folder = rows[f].folder)
    PROVE  \A v \in Users \ {u} : DocKnown(v)'
<1>. SUFFICES ASSUME NEW v \in Users \ {u}, HasDoc(v)' PROVE DocKnown(v)'
  BY DEF DocKnown
<1>1. HasDoc(v) /\ call'[v] = call[v] /\ my'[v] = my[v]
  BY DEF HasDoc, Only
<1>2. call[v].file \in Ids /\ used \in Nat
  BY <1>1 DEF HasDoc, BytesInv, TreeInv, IInv, TypeOK, Control, Idle
<1>3. call[v].file <= used /\ call[v].file \in Nat
  BY <1>1, <1>2 DEF BytesInv, DocKnown, Ids
<1>. DEFINE f == call[v].file
<1>4. \A w \in Users : Coming(w) => my[w].new # f
  BY <1>1 DEF BytesInv, DocKnown
<1>5. \A w \in Users : Coming(w)' => my'[w].new # f
  <2>. SUFFICES ASSUME NEW w \in Users, Coming(w)', my'[w].new = f PROVE FALSE
    OBVIOUS
  <2>1. CASE w = u
    BY <1>2, <1>3, <1>4, <2>1
  <2>2. CASE w # u
    BY <1>4, <2>2 DEF Only, Coming
  <2>. QED
    BY <2>1, <2>2
<1>6. rows'[f] # Undef => rows'[f].folder = my[v].doc.folder
  BY <1>1, <1>2, <1>3, <1>4 DEF BytesInv, DocKnown
<1>. QED
  BY <1>1, <1>2, <1>3, <1>5, <1>6 DEF DocKnown

\* No file changes, and u is not at one afterwards.
LEMMA BytesStay ==
    ASSUME BytesInv, TreeInv', NEW u \in Users, Only(u),
           UNCHANGED <<rows, disk, used, missed, torn>>,
           pc[u] = "halves" => my[u].halves = {}, pc'[u] # "halves",
           pc'[u] = "token" => call'[u].name = "upload", HasDoc(u)' => DocKnown(u)'
    PROVE  BytesInv'
<1>1. \A f \in Ids : Aside(u, f)
  BY DEF Aside, Uploading, Deleting
<1>2. WritesSucceed' <=> WritesSucceed
  BY DEF WritesSucceed, Only, Given
<1>8. RestStays(u)
  BY DEF RestStays, Uploading
<1>3. WritesSucceed' => \A f \in Ids : Torn(f)' \/ BytesAt(f)'
  BY <1>1, <1>2, <1>8, BytesAside, TornStays DEF BytesInv
<1>4. ~Coming(u)' /\ \A f : ~Uploading(u, f)'
  BY DEF Coming, Uploading
<1>5. \A v \in Users : DocKnown(v)'
  <2>1. DocKnown(u)'
    BY DEF DocKnown
  <2>. QED
    BY <1>4, <2>1, DocsAside
<1>6. UploadsApart' /\ DiskKnown'
  BY <1>4 DEF BytesInv, UploadsApart, DiskKnown, Only, Uploading
<1>7. \A v \in Users : pc'[v] = "token" => call'[v].name = "upload"
  BY DEF BytesInv, Only
<1>. QED
  BY <1>3, <1>5, <1>6, <1>7 DEF BytesInv

\* What u has read stays what it knows, and a file that it reads now has a row.
LEMMA ReadBytes ==
    ASSUME BytesInv, NEW u \in Users, Enter(u) \/ Read(u) \/ ReadFails(u) \/ Climb(u)
    PROVE  BytesInv'
<1>1. TreeInv' /\ rows' = rows /\ UNCHANGED <<disk, used, missed, torn>>
  BY EnterTree, ReadTree DEF BytesInv, Enter, Read, ReadFails, Climb, Unplaced, store, ghost
<1>2. CASE Enter(u)
  <2>1. Only(u) /\ pc[u] = "door" /\ pc'[u] = "read" /\ my' = my /\ call' = call
    BY <1>2 DEF Enter, Only, store, BytesInv, TreeInv, IInv, TypeOK
  <2>2. ~HasDoc(u)'
    BY <1>2, <2>1 DEF HasDoc, BytesInv, TreeInv, ReadsBegin
  <2>. QED
    BY <1>1, <2>1, <2>2, BytesStay
<1>3. CASE Answered(u, FALSE) /\ pc[u] = "read"
  <2>1. Only(u) /\ pc'[u] = "home"
    BY <1>3, AnsweredOnly DEF BytesInv, TreeInv
  <2>. QED
    BY <1>1, <1>3, <2>1, BytesStay DEF HasDoc
<1>7. CASE call[u].name = "upload" /\ Closed(u) /\ pc[u] = "read"
  <2>1. Only(u) /\ pc'[u] = "closed"
    BY <1>7, ClosedOnly DEF BytesInv, TreeInv
  <2>. QED
    BY <1>1, <1>7, <2>1, BytesStay DEF HasDoc
<1>4. ASSUME NEW m, pc[u] = "read", Moves(u, "read", m),
             HasDoc(u)' => \/ HasDoc(u) /\ m.doc = my[u].doc
                           \/ /\ call[u].file \in Ids /\ rows[call[u].file] # Undef
                              /\ m.doc = rows[call[u].file]
      PROVE  BytesInv'
  <2>1. Only(u) /\ pc'[u] = "read" /\ my'[u] = m /\ call' = call
    BY <1>4, MovesOnly DEF BytesInv, TreeInv
  <2>2. \A v \in Users : Coming(v)' <=> Coming(v)
    BY <1>4, <2>1 DEF Only, Coming
  <2>3. \A v \in Users : Coming(v) => my'[v].new = my[v].new
    BY <1>4, <2>1 DEF Only, Coming
  <2>4. ASSUME call[u].file \in Ids, rows[call[u].file] # Undef
        PROVE  call[u].file <= used /\ \A v \in Users : Coming(v) => my[v].new # call[u].file
    <3>1. used \in Nat /\ call[u].file \in Nat
      BY <2>4 DEF BytesInv, TreeInv, IInv, TypeOK, Ids
    <3>. QED
      BY <2>4, <3>1 DEF BytesInv, TreeInv, RestFree, PlacesFree
  <2>5. HasDoc(u)' => DocKnown(u)'
    BY <1>1, <1>4, <2>1, <2>2, <2>3, <2>4 DEF BytesInv, DocKnown
  <2>. QED
    BY <1>1, <1>4, <2>1, <2>5, BytesStay
<1>5. ASSUME NEW f \in my[u].want, pc[u] = "read", f = Root \/ IsRow(f),
             Moves(u, "read", [my[u] EXCEPT
                   !.want = @ \ {f},
                   !.walk = @ \union Over(f),
                   !.doc = IF f = call[u].file /\ f # Root THEN rows[f] ELSE @])
      PROVE  BytesInv'
  <2>. DEFINE walk == my[u].walk \union Over(f)
              doc == IF f = call[u].file /\ f # Root THEN rows[f] ELSE my[u].doc
              m == [my[u] EXCEPT !.want = @ \ {f}, !.walk = walk, !.doc = doc]
  <2>1. Moves(u, "read", m)
    BY <1>5
  <2>. HIDE DEF walk, doc
  <2>2. m.want = my[u].want \ {f} /\ m.doc = doc
    BY OwnOK DEF BytesInv, TreeInv, Mine
  <2>3. my'[u] = m /\ call' = call /\ pc'[u] = "read"
    BY <2>1, MovesOnly DEF BytesInv, TreeInv
  <2>4. ASSUME HasDoc(u)'
        PROVE  \/ HasDoc(u) /\ m.doc = my[u].doc
               \/ /\ call[u].file \in Ids /\ rows[call[u].file] # Undef
                  /\ m.doc = rows[call[u].file]
    <3>1. call[u].name \in Changes /\ call[u].file \notin my[u].want \ {f}
      BY <2>2, <2>3, <2>4 DEF HasDoc
    <3>2. call[u].file \in Ids
      BY <1>5, <3>1 DEF BytesInv, TreeInv, IInv, Control, Idle
    <3>3. CASE f = call[u].file
      <4>1. f # Root
        BY <3>2, <3>3, DriveOK DEF Ids, Root
      <4>. QED
        BY <1>5, <2>2, <3>2, <3>3, <4>1 DEF doc, IsRow
    <3>4. CASE f # call[u].file
      BY <1>5, <2>2, <3>1, <3>4 DEF doc, HasDoc
    <3>. QED
      BY <3>3, <3>4
  <2>. HIDE DEF m
  <2>. QED
    BY <1>4, <1>5, <2>1, <2>4
<1>6. ASSUME NEW f \in my[u].walk, pc[u] = "read",
             Moves(u, "read", [my[u] EXCEPT !.walk = (@ \ {f}) \union Over(f)])
      PROVE  BytesInv'
  <2>. DEFINE walk == (my[u].walk \ {f}) \union Over(f)
              m == [my[u] EXCEPT !.walk = walk]
  <2>1. Moves(u, "read", m)
    BY <1>6
  <2>. HIDE DEF walk
  <2>2. m.want = my[u].want /\ m.doc = my[u].doc
    BY OwnOK DEF BytesInv, TreeInv, Mine
  <2>3. my'[u] = m /\ call' = call /\ pc'[u] = "read"
    BY <2>1, MovesOnly DEF BytesInv, TreeInv
  <2>4. HasDoc(u)' => HasDoc(u) /\ m.doc = my[u].doc
    BY <1>6, <2>2, <2>3 DEF HasDoc
  <2>. HIDE DEF m
  <2>. QED
    BY <1>4, <1>6, <2>1, <2>4
<1>. QED
  BY <1>2, <1>3, <1>5, <1>6, <1>7 DEF Read, ReadFails, Climb

LEMMA PathBytes ==
    ASSUME BytesInv, NEW u \in Users,
           \/ Query(u) \/ Trace(u) \/ PathOn(u) \/ PathEnds(u) \/ Refuse(u)
           \/ BothDone(u) \/ CloseAgain(u)
    PROVE  BytesInv'
<1>1. TreeInv' /\ rows' = rows /\ UNCHANGED <<disk, used, missed, torn>>
  BY PathTree DEF BytesInv, Query, Trace, PathOn, PathEnds, Refuse, BothDone, CloseAgain,
                  Unplaced, store, ghost
<1>2. pc[u] = "halves" => my[u].halves = {}
  BY DEF Query, Trace, PathOn, PathEnds, Refuse, BothDone, CloseAgain, Gathered
<1>3. /\ Only(u) /\ pc'[u] \in {"path", "token", "home"} /\ call' = call
      /\ pc'[u] = "token" => call[u].name = "upload"
  <2>1. CASE Refuse(u)
    BY <2>1 DEF Refuse, Goes, Only, BytesInv, TreeInv, IInv, TypeOK
  <2>2. CASE \E ok : Answered(u, ok)
    BY <2>2, AnsweredOnly DEF BytesInv, TreeInv
  <2>3. CASE \E m : Moves(u, "path", m)
    BY <2>3, MovesOnly DEF BytesInv, TreeInv
  <2>4. CASE \E m : Moves(u, "token", m) /\ call[u].name = "upload"
    BY <2>4, MovesOnly DEF BytesInv, TreeInv
  <2>5. CASE CloseAgain(u)
    BY <2>5, CloseAgainOnly DEF BytesInv, TreeInv
  <2>. QED
    BY <2>1, <2>2, <2>3, <2>4, <2>5 DEF Query, Trace, PathOn, PathEnds, BothDone
<1>. QED
  BY <1>1, <1>2, <1>3, BytesStay DEF HasDoc

LEMMA ActBytes ==
    ASSUME BytesInv, NEW u \in Users, Act(u)
    PROVE  BytesInv'
<1>1. TreeInv' /\ Idle(u)
  BY ActTree DEF BytesInv, Act, Visit, Shown, Choose, Leave, Unfold, Kids, MoveKid, Unfolded
<1>2. CASE \E s, p : Home(u, s, p)
  <2>1. Only(u) /\ pc'[u] = "home" /\ UNCHANGED <<rows, disk, used, missed, torn>>
    BY <1>1, <1>2 DEF Home, Only, store, pool, ghost, Idle, BytesInv, TreeInv, IInv, TypeOK
  <2>. QED
    BY <1>1, <2>1, BytesStay DEF HasDoc, Idle
<1>3. ASSUME NEW c, Asks(u, c), UNCHANGED <<missed, torn>> PROVE BytesInv'
  <2>1. Only(u) /\ pc'[u] = "door" /\ UNCHANGED <<rows, disk, used, missed, torn>>
    BY <1>3 DEF Asks, Only, store, BytesInv, TreeInv, IInv, TypeOK
  <2>. QED
    BY <1>1, <2>1, BytesStay DEF HasDoc, Idle
<1>. QED
  BY <1>2, <1>3 DEF Act, Visit, Shown, Choose, Leave, Unfold, Kids, MoveKid, Unfolded, ghost

-----------------------------------------------------------------------------
(* The steps that change files *)

\* What holds whatever the step is, if the knowledge of u and what there is of f do.
LEMMA BytesStep ==
    ASSUME BytesInv, TreeInv', NEW u \in Users, Only(u), used' \in {used, used + 1},
           Coming(u)' => (Coming(u) /\ my'[u].new = my[u].new) \/ my'[u].new > used,
           \A f \in Ids : \/ rows'[f] = rows[f] \/ rows'[f] = Undef
                          \/ f > used
                          \/ (Coming(u) /\ f = my[u].new)
                          \/ (rows[f] # Undef /\ rows'[f].folder = rows[f].folder),
           DocKnown(u)', pc'[u] # "token",
           \A f \in Ids : Uploading(u, f)' => Uploading(u, f) \/ (f > used /\ f <= used'),
           \A f \in disk' : f \in disk \/ Uploading(u, f),
           RestStays(u),
           WritesSucceed =>
               \A f \in Ids : BytesAt(f) => Aside(u, f) \/ BytesAt(f)' \/ Torn(f)'
    PROVE  BytesInv'
<1>1. \A v \in Users : DocKnown(v)'
  BY DocsAside
<1>2. \A v \in Users : pc'[v] = "token" => call'[v].name = "upload"
  BY DEF BytesInv, Only
<1>3. used \in Nat /\ used' \in Nat /\ used' >= used /\ Ids \subseteq Nat /\ disk \subseteq Ids
  BY DriveOK DEF BytesInv, TreeInv, IInv, TypeOK, Ids
<1>4. \A v \in Users \ {u}, f \in Ids : Uploading(v, f)' <=> Uploading(v, f)
  BY DEF Only, Uploading
<1>5. \A f \in Ids : f <= used => f <= used'
  <2>. SUFFICES ASSUME NEW f \in Ids, f <= used PROVE f <= used'
    OBVIOUS
  <2>1. f \in Nat
    BY <1>3
  <2>. QED
    BY <1>3, <2>1
<1>6. \A f \in Ids : ~(f > used /\ f <= used)
  BY <1>3
<1>7. UploadsApart'
  BY <1>4, <1>5, <1>6 DEF BytesInv, UploadsApart
<1>8. DiskKnown'
  BY <1>3, <1>5 DEF BytesInv, DiskKnown, UploadsApart, TreeInv, IInv, TypeOK
<1>9. WritesSucceed' <=> WritesSucceed
  BY DEF WritesSucceed, Only, Given
<1>10. WritesSucceed' => \A f \in Ids : Torn(f)' \/ BytesAt(f)'
  BY <1>9, BytesAside, TornStays DEF BytesInv
<1>. QED
  BY <1>1, <1>2, <1>7, <1>8, <1>10 DEF BytesInv

LEMMA CreateFolderBytes ==
    ASSUME BytesInv, NEW u \in Users, CreateFolder(u)
    PROVE  BytesInv'
<1>1. TreeInv' /\ pc[u] = "read" /\ UNCHANGED <<disk, missed, torn>>
  BY CreateFolderTree DEF BytesInv, CreateFolder, Gathered, Unplaced, ghost
<1>2. CASE Answered(u, FALSE) /\ Unplaced
  <2>1. Only(u) /\ pc'[u] = "home" /\ UNCHANGED <<rows, disk, used, missed, torn>>
    BY <1>2, AnsweredOnly DEF BytesInv, TreeInv, Unplaced, ghost
  <2>. QED
    BY <1>1, <2>1, BytesStay DEF HasDoc
<1>3. CASE ~(Answered(u, FALSE) /\ Unplaced)
  <2>. DEFINE row == [parent |-> call[u].file, name |-> call[u].info, folder |-> TRUE]
              m == [my[u] EXCEPT !.at = call[u].file]
  <2>1. /\ used < MaxId /\ used' = used + 1
        /\ rows' = [rows EXCEPT ![used'] = row]
        /\ Moves(u, "path", m)
    BY <1>3 DEF CreateFolder
  <2>2. row # Undef /\ row.folder = TRUE
    <3>1. row \in Rows
      BY OwnOK DEF BytesInv, TreeInv, Rows
    <3>. QED
      BY <3>1, DriveOK
  <2>. HIDE DEF row, m
  <2>3. used \in Nat /\ used' \in Ids /\ used' > used /\ rows'[used'] = row
    BY <2>1, NextId DEF BytesInv, TreeInv, IInv, TypeOK
  <2>4. Only(u) /\ pc'[u] = "path" /\ call' = call
    BY <2>1, MovesOnly DEF BytesInv, TreeInv
  <2>5. ~HasDoc(u)' /\ ~Coming(u)' /\ \A f : ~Uploading(u, f)' /\ ~Deleting(u, f)'
    BY <2>4 DEF HasDoc, Coming, Uploading, Deleting
  <2>6. \A f : ~Uploading(u, f) /\ ~Deleting(u, f)
    BY <1>1 DEF Uploading, Deleting
  <2>7. PICK k : k = used'
    OBVIOUS
  <2>8. k \in Ids /\ ~(k <= used) /\ k > used /\ k \in Nat
    BY <2>3, <2>7 DEF Ids
  <2>9. \A f \in Ids \ {k} : rows'[f] = rows[f]
    BY <2>1, <2>7 DEF BytesInv, TreeInv, IInv, TypeOK
  <2>10. \A f \in Ids \ {k} : Aside(u, f)
    BY <1>1, <2>5, <2>6, <2>9 DEF Aside
  <2>11. ~BytesComing(k)' /\ k \notin disk' /\ \A v \in Users : ~(Coming(v)' /\ my'[v].new = k)
    <3>1. \A v \in Users : Uploading(v, k)' => Uploading(v, k)
      BY <2>4, <2>5 DEF Only, Uploading
    <3>2. \A v \in Users : ~Uploading(v, k)
      BY <2>8 DEF BytesInv, UploadsApart
    <3>. QED
      BY <1>1, <2>8, <3>1, <3>2 DEF BytesComing, BytesInv, DiskKnown, Uploading, Coming
  <2>12. \A v \in Users : ~Deleting(v, k)'
    <3>1. \A v \in Users : Deleting(v, k)' => Deleting(v, k)
      BY <2>4, <2>5 DEF Only, Deleting
    <3>2. \A v \in Users : Deleting(v, k) => HasDoc(v) /\ call[v].file = k
      BY DEF Deleting, HasDoc, Changes
    <3>. QED
      BY <2>8, <3>1, <3>2 DEF BytesInv, DocKnown
  <2>13. rows'[k] # Undef /\ rows'[k].folder
    BY <2>2, <2>3, <2>7
  <2>14. BytesAt(k)'
    BY <2>11, <2>12, <2>13 DEF BytesAt, Pending
  <2>15. DocKnown(u)' /\ pc'[u] # "token" /\ used' \in {used, used + 1}
    BY <2>1, <2>4, <2>5 DEF DocKnown
  <2>16. \A f \in Ids : rows'[f] = rows[f] \/ f > used
    BY <2>8, <2>9
  <2>17. \A f \in Ids : Aside(u, f) \/ BytesAt(f)'
    BY <2>10, <2>14
  <2>. QED
    BY <1>1, <2>4, <2>5, <2>15, <2>16, <2>17, RestAway, BytesStep
<1>. QED
  BY <1>2, <1>3

\* Who has the row of a file in hand, and which halves the requests have still to do.
LEMMA HalvesBytes ==
    ASSUME BytesInv, NEW u \in Users, Accept(u) \/ Delete(u)
    PROVE  BytesInv'
<1>1. TreeInv' /\ UNCHANGED <<rows, disk, missed, torn>> /\ pc[u] # "halves"
  BY HalvesTree DEF BytesInv, Accept, Delete, Unplaced, ghost, Gathered
<1>2. CASE Accept(u)
  <2>. DEFINE m == [my[u] EXCEPT !.new = used', !.halves = Halves]
  <2>1. used' = used + 1 /\ Moves(u, "halves", m) /\ used \in Nat /\ used' \in Ids /\ used' > used
    BY <1>2, NextId DEF Accept, BytesInv, TreeInv, IInv, TypeOK
  <2>2. m.new = used' /\ m.halves = Halves
    BY OwnOK DEF BytesInv, TreeInv, Mine
  <2>. HIDE DEF m
  <2>3. Only(u) /\ pc'[u] = "halves" /\ my'[u] = m /\ call' = call
    BY <2>1, MovesOnly DEF BytesInv, TreeInv
  <2>4. call[u].name = "upload"
    BY <1>2 DEF Accept, BytesInv
  <2>5. PICK k : k = used'
    OBVIOUS
  <2>6. k \in Ids /\ ~(k <= used) /\ k > used /\ k <= used' /\ k \in Nat
    BY <2>1, <2>5 DEF Ids
  <2>7. /\ \A f : Uploading(u, f)' <=> f = k
        /\ \A f : ~Deleting(u, f)' /\ ~Deleting(u, f) /\ ~Uploading(u, f)
        /\ Coming(u)' /\ my'[u].new = k /\ "bytes" \in my'[u].halves
    BY <1>1, <2>2, <2>3, <2>4, <2>5 DEF Uploading, Deleting, Coming, Halves
  <2>8. \A f \in Ids \ {k} : Aside(u, f)
    BY <1>1, <2>7 DEF Aside
  <2>9. rows'[k] = Undef /\ k \notin disk'
    BY <1>1, <2>6 DEF BytesInv, DiskKnown, TreeInv, RestFree
  <2>10. \A v \in Users : ~Deleting(v, k)'
    <3>1. \A v \in Users : Deleting(v, k)' => Deleting(v, k)
      BY <2>3, <2>7 DEF Only, Deleting
    <3>2. \A v \in Users : Deleting(v, k) => HasDoc(v) /\ call[v].file = k
      BY DEF Deleting, HasDoc, Changes
    <3>. QED
      BY <2>6, <3>1, <3>2 DEF BytesInv, DocKnown
  <2>11. BytesComing(k)'
    BY <2>7 DEF BytesComing
  <2>12. BytesAt(k)'
    BY <2>7, <2>9, <2>10, <2>11 DEF BytesAt, Pending
  <2>13. DocKnown(u)' /\ pc'[u] # "token" /\ used' \in {used, used + 1}
    BY <2>1, <2>3, <2>4 DEF DocKnown, HasDoc, Changes
  <2>14. my'[u].new > used
    BY <2>6, <2>7
  <2>15. \A f \in Ids : Uploading(u, f)' => f > used /\ f <= used'
    BY <2>6, <2>7
  <2>16. \A f \in Ids : Aside(u, f) \/ BytesAt(f)'
    BY <2>8, <2>12
  <2>. QED
    BY <1>1, <2>3, <2>13, <2>14, <2>15, <2>16, RestAway, BytesStep
<1>3. CASE Delete(u)
  <2>. DEFINE m == [my[u] EXCEPT !.halves = Halves]
  <2>1. /\ Moves(u, "halves", m) /\ used' = used
        /\ call[u].name = "delete" /\ pc[u] = "read" /\ my[u].want = {}
    BY <1>3 DEF Delete, Unplaced, Gathered
  <2>2. m.halves = Halves /\ m.doc = my[u].doc
    BY OwnOK DEF BytesInv, TreeInv, Mine
  <2>. HIDE DEF m
  <2>3. Only(u) /\ pc'[u] = "halves" /\ call' = call /\ my'[u] = m
    BY <2>1, MovesOnly DEF BytesInv, TreeInv
  <2>4. HasDoc(u) /\ DocKnown(u)
    BY <2>1 DEF HasDoc, Changes, BytesInv
  <2>5. ~Coming(u)' /\ \A v \in Users : Coming(v)' => Coming(v) /\ my'[v].new = my[v].new
    BY <2>1, <2>3 DEF Coming, Only
  <2>6. DocKnown(u)'
    BY <1>1, <2>1, <2>2, <2>3, <2>4, <2>5 DEF DocKnown
  <2>7. PICK k : k = call[u].file
    OBVIOUS
  <2>8. /\ \A f : Deleting(u, f)' <=> f = k
        /\ \A f : ~Deleting(u, f) /\ ~Uploading(u, f) /\ ~Uploading(u, f)'
        /\ my'[u].halves = Halves
    BY <1>1, <2>1, <2>2, <2>3, <2>7 DEF Uploading, Deleting
  <2>9. \A f \in Ids \ {k} : Aside(u, f)
    BY <1>1, <2>8 DEF Aside
  <2>10. ASSUME BytesAt(k) PROVE BytesAt(k)'
    <3>1. \A v \in Users \ {u} : /\ Uploading(v, k)' <=> Uploading(v, k)
                                 /\ Deleting(v, k)' <=> Deleting(v, k)
                                 /\ Coming(v)' <=> Coming(v)
                                 /\ my'[v] = my[v]
      BY <2>3 DEF Only, Uploading, Deleting, Coming
    <3>2. ~Coming(u) /\ ~Coming(u)'
      BY <1>1, <2>1, <2>3 DEF Coming
    <3>3. BytesComing(k)' <=> BytesComing(k)
      BY <2>8, <3>1 DEF BytesComing
    <3>4. Pending(k)' <=> Pending(k)
      BY <1>1, <3>3 DEF Pending
    <3>. QED
      BY <1>1, <2>8, <2>10, <3>1, <3>2, <3>3, <3>4 DEF BytesAt, Halves
  <2>11. \A f \in Ids : BytesAt(f) => Aside(u, f) \/ BytesAt(f)'
    BY <2>9, <2>10
  <2>. QED
    BY <1>1, <2>1, <2>3, <2>5, <2>6, <2>8, <2>11, RestAway, BytesStep
<1>. QED
  BY <1>2, <1>3

\* A half that u has done: it stays at the same file, and knows it as before.
LEMMA HalfDoneBytes ==
    ASSUME BytesInv, NEW u \in Users, pc[u] = "halves", NEW h, NEW ok, HalfDone(u, h, ok)
    PROVE  /\ Only(u) /\ call' = call /\ my'[u].halves = my[u].halves \ {h}
           /\ my'[u].new = my[u].new /\ my'[u].doc = my[u].doc /\ pc'[u] = "halves"
           /\ \A v \in Users : \A f : /\ Uploading(v, f)' <=> Uploading(v, f)
                                      /\ Deleting(v, f)' <=> Deleting(v, f)
           /\ \A v \in Users : /\ HasDoc(v)' <=> HasDoc(v)
                               /\ my'[v].new = my[v].new /\ my'[v].doc = my[v].doc
           /\ \A v \in Users \ {u} : (Coming(v)' <=> Coming(v)) /\ my'[v] = my[v]
           /\ Coming(u)' => Coming(u) /\ h # "row"
<1>. DEFINE m == [my[u] EXCEPT !.halves = @ \ {h}, !.ok = @ /\ ok]
<1>1. Moves(u, "halves", m)
  BY DEF HalfDone
<1>2. m.halves = my[u].halves \ {h} /\ m.new = my[u].new /\ m.doc = my[u].doc
  BY OwnOK DEF BytesInv, TreeInv, Mine
<1>. HIDE DEF m
<1>3. Only(u) /\ pc'[u] = "halves" /\ my'[u] = m /\ call' = call
  BY <1>1, MovesOnly DEF BytesInv, TreeInv
<1>. QED
  BY <1>2, <1>3 DEF Uploading, Deleting, HasDoc, Coming, Only

LEMMA RestHalf ==
    ASSUME BytesInv, NEW u \in Users, pc[u] = "halves", NEW h \in Halves, NEW ok,
           HalfDone(u, h, ok), torn' = torn
    PROVE  RestStays(u)
<1>1. h # "rest"
  BY DEF Halves
<1>. QED
  BY <1>1, HalfDoneBytes DEF RestStays

LEMMA AddRowBytes ==
    ASSUME BytesInv, NEW u \in Users, AddRow(u)
    PROVE  BytesInv'
<1>1. TreeInv' /\ UNCHANGED <<disk, used, missed, torn>> /\ pc[u] = "halves" /\ Coming(u)
  BY HalfTree DEF BytesInv, AddRow, Half, Coming
<1>2. PICK ok : HalfDone(u, "row", ok)
  BY DEF AddRow
<1>3. PICK k : k = my[u].new
  OBVIOUS
<1>4. k \in Ids /\ rows[k] = Undef /\ Uploading(u, k) /\ \A f : Uploading(u, f) => f = k
  BY <1>1, <1>3 DEF BytesInv, TreeInv, PlacesFree, IInv, Control, Coming, Uploading, Halves
<1>5. \A f \in Ids \ {k} : rows'[f] = rows[f]
  BY <1>1, <1>3 DEF AddRow, BytesInv, TreeInv, IInv, TypeOK
<1>6. WritesSucceed => rows'[k] # Undef /\ ~rows'[k].folder
  <2>1. NewRow(u) \in Rows /\ NewRow(u).folder = FALSE
    BY OwnOK DEF NewRow, Rows, BytesInv, TreeInv
  <2>2. WritesSucceed => rows' = [rows EXCEPT ![k] = NewRow(u)]
    BY <1>3 DEF AddRow, WritesSucceed
  <2>. QED
    BY <1>4, <2>1, <2>2, DriveOK DEF BytesInv, TreeInv, IInv, TypeOK
<1>7. \A v \in Users : ~Deleting(v, k)
  BY <1>1, <1>3 DEF Deleting, HasDoc, Changes, BytesInv, DocKnown
<1>8. \A f \in Ids \ {k} : BytesAt(f) => BytesAt(f)'
  <2>1. ASSUME NEW f \in Ids \ {k}, BytesAt(f) PROVE BytesAt(f)'
    <3>1. ~Uploading(u, f) /\ ~Deleting(u, f)
      BY <1>1, <1>4 DEF Coming, Deleting
    <3>. QED
      BY <1>1, <1>2, <1>5, <2>1, <3>1, HalfDoneBytes, BytesAside DEF Aside
  <2>. QED
    BY <2>1
<1>9. ASSUME BytesAt(k), WritesSucceed PROVE BytesAt(k)'
  <2>1. Pending(k)
    BY <1>1, <1>3, <1>9 DEF BytesAt
  <2>2. BytesComing(k)' <=> BytesComing(k)
    BY <1>1, <1>2, <1>4, HalfDoneBytes DEF BytesComing
  <2>3. \A v \in Users : ~Deleting(v, k)'
    BY <1>1, <1>2, <1>7, HalfDoneBytes
  <2>4. \A v \in Users : ~(Coming(v)' /\ my'[v].new = k)
    BY <1>1, <1>2, <1>3, HalfDoneBytes DEF BytesInv, TreeInv, PlacesFree
  <2>. QED
    BY <1>1, <1>6, <1>9, <2>1, <2>2, <2>3, <2>4 DEF BytesAt, Pending
<1>10. DocKnown(u)' /\ pc'[u] # "token"
  BY <1>1, <1>2, HalfDoneBytes DEF DocKnown, HasDoc, Coming, Changes
<1>11. RestStays(u)
  BY <1>1, <1>2, RestHalf DEF Halves
<1>. QED
  BY <1>1, <1>2, <1>3, <1>4, <1>5, <1>8, <1>9, <1>10, <1>11, HalfDoneBytes, BytesStep

LEMMA WriteBytesBytes ==
    ASSUME BytesInv, NEW u \in Users, WriteBytes(u)
    PROVE  BytesInv'
<1>1. /\ TreeInv' /\ UNCHANGED <<rows, used, missed, torn>> /\ pc[u] = "halves"
      /\ call[u].name = "upload" /\ "bytes" \in my[u].halves
  BY HalfTree DEF BytesInv, WriteBytes, Half, ghost
<1>2. PICK ok : HalfDone(u, "bytes", ok)
  BY DEF WriteBytes
<1>3. PICK k : k = my[u].new
  OBVIOUS
<1>4. k \in Ids /\ Uploading(u, k) /\ \A f : Uploading(u, f) => f = k
  BY <1>1, <1>3 DEF BytesInv, TreeInv, IInv, Control, Uploading, Halves
<1>5. /\ \A f \in Ids \ {k} : f \in disk' <=> f \in disk
      /\ WritesSucceed => k \in disk'
      /\ \A f \in disk' : f \in disk \/ f = k
  BY <1>3 DEF WriteBytes, WritesSucceed
<1>6. \A v \in Users \ {u} : ~Uploading(v, k)
  BY <1>4 DEF BytesInv, UploadsApart
<1>7. \A f \in Ids \ {k} : BytesAt(f) => BytesAt(f)'
  <2>1. ASSUME NEW f \in Ids \ {k}, BytesAt(f) PROVE BytesAt(f)'
    <3>1. ~Uploading(u, f) /\ ~Deleting(u, f)
      BY <1>1, <1>4 DEF Deleting
    <3>. QED
      BY <1>1, <1>2, <1>5, <2>1, <3>1, HalfDoneBytes, BytesAside DEF Aside
  <2>. QED
    BY <2>1
<1>8. ASSUME BytesAt(k), WritesSucceed PROVE BytesAt(k)'
  <2>1. Pending(k) /\ Pending(k)'
    BY <1>1, <1>4, <1>5, <1>8 DEF Pending, BytesComing
  <2>2. ~BytesComing(k)'
    <3>1. \A v \in Users : Uploading(v, k)' => v = u
      BY <1>1, <1>2, <1>6, HalfDoneBytes
    <3>2. "bytes" \notin my'[u].halves
      BY <1>1, <1>2, HalfDoneBytes
    <3>. QED
      BY <3>1, <3>2 DEF BytesComing
  <2>3. \A v \in Users : Deleting(v, k)' => Deleting(v, k) /\ my'[v] = my[v]
    <3>1. ~Deleting(u, k)
      BY <1>1 DEF Deleting
    <3>. QED
      BY <1>1, <1>2, <3>1, HalfDoneBytes
  <2>4. \A v \in Users : Deleting(v, k) => Deleting(v, k)' /\ my'[v] = my[v]
    <3>1. ~Deleting(u, k)
      BY <1>1 DEF Deleting
    <3>. QED
      BY <1>1, <1>2, <3>1, HalfDoneBytes
  <2>5. \A v \in Users : (Coming(v)' /\ my'[v].new = k) <=> (Coming(v) /\ my[v].new = k)
    BY <1>1, <1>2, HalfDoneBytes DEF Coming
  <2>. QED
    BY <1>1, <1>8, <2>1, <2>2, <2>3, <2>4, <2>5 DEF BytesAt
<1>9. DocKnown(u)' /\ pc'[u] # "token"
  BY <1>1, <1>2, HalfDoneBytes DEF DocKnown, HasDoc, Changes
<1>11. RestStays(u)
  BY <1>1, <1>2, RestHalf DEF Halves
<1>. QED
  BY <1>1, <1>2, <1>4, <1>5, <1>7, <1>8, <1>9, <1>11, HalfDoneBytes, BytesStep

LEMMA RemoveRowBytes ==
    ASSUME BytesInv, NEW u \in Users, RemoveRow(u)
    PROVE  BytesInv'
<1>1. /\ TreeInv' /\ UNCHANGED <<disk, used, missed, torn>> /\ pc[u] = "halves"
      /\ call[u].name = "delete" /\ "row" \in my[u].halves
  BY HalfTree DEF BytesInv, RemoveRow, Half
<1>2. PICK ok : HalfDone(u, "row", ok)
  BY DEF RemoveRow
<1>3. PICK k : k = call[u].file
  OBVIOUS
<1>4. /\ k \in Ids /\ Deleting(u, k) /\ HasDoc(u) /\ \A f : Deleting(u, f) => f = k
      /\ \A f : ~Uploading(u, f)
  BY <1>1, <1>3 DEF BytesInv, TreeInv, IInv, Control, Deleting, Uploading, HasDoc, Idle, Changes
<1>5. /\ \A f \in Ids \ {k} : rows'[f] = rows[f]
      /\ rows'[k] = rows[k] \/ rows'[k] = Undef
      /\ WritesSucceed => rows'[k] = Undef
  BY <1>3, <1>4 DEF RemoveRow, WritesSucceed, BytesInv, TreeInv, IInv, TypeOK
<1>6. \A f \in Ids \ {k} : BytesAt(f) => BytesAt(f)'
  <2>1. ASSUME NEW f \in Ids \ {k}, BytesAt(f) PROVE BytesAt(f)'
    <3>1. ~Uploading(u, f) /\ ~Deleting(u, f)
      BY <1>4
    <3>. QED
      BY <1>1, <1>2, <1>5, <2>1, <3>1, HalfDoneBytes, BytesAside DEF Aside
  <2>. QED
    BY <2>1
<1>7. ASSUME BytesAt(k), WritesSucceed PROVE BytesAt(k)'
  <2>1. BytesComing(k)' <=> BytesComing(k)
    <3>1. \A v \in Users : Uploading(v, k) => v # u
      BY <1>4
    <3>. QED
      BY <1>1, <1>2, <3>1, HalfDoneBytes DEF BytesComing
  <2>2. Pending(k)' <=> Pending(k)
    BY <1>1, <2>1 DEF Pending
  <2>3. \A v \in Users : /\ Deleting(v, k)' <=> Deleting(v, k)
                         /\ my'[v].doc = my[v].doc
                         /\ "bytes" \in my'[v].halves <=> "bytes" \in my[v].halves
    BY <1>1, <1>2, HalfDoneBytes
  <2>4. ~Coming(u) /\ \A v \in Users : Coming(v) => my[v].new # k
    BY <1>1, <1>3, <1>4 DEF BytesInv, DocKnown, Coming
  <2>5. \A v \in Users : ~(Coming(v)' /\ my'[v].new = k)
    BY <1>1, <1>2, <2>4, HalfDoneBytes
  <2>6. Pending(k) =>
            \/ k \in missed
            \/ \E v \in Users : Deleting(v, k) /\ "bytes" \in my[v].halves /\ ~my[v].doc.folder
    <3>1. CASE rows[k] = Undef
      BY <1>7, <2>4, <3>1 DEF BytesAt
    <3>2. CASE rows[k] # Undef
      <4>1. rows[k].folder = my[u].doc.folder
        BY <1>3, <1>4, <3>2 DEF BytesInv, DocKnown
      <4>. QED
        BY <1>4, <1>7, <3>2, <4>1 DEF BytesAt
    <3>. QED
      BY <3>1, <3>2
  <2>. QED
    BY <1>1, <1>5, <1>7, <2>1, <2>2, <2>3, <2>5, <2>6 DEF BytesAt
<1>8. DocKnown(u)' /\ pc'[u] # "token"
  <2>1. DocKnown(u)
    BY DEF BytesInv
  <2>2. ~Coming(u) /\ \A v \in Users : Coming(v)' => Coming(v) /\ my'[v].new = my[v].new
    BY <1>1, <1>2, HalfDoneBytes DEF Coming
  <2>. QED
    BY <1>1, <1>2, <1>3, <1>4, <1>5, <2>1, <2>2, HalfDoneBytes DEF DocKnown
<1>11. RestStays(u)
  BY <1>1, <1>2, RestHalf DEF Halves
<1>. QED
  BY <1>1, <1>2, <1>4, <1>5, <1>6, <1>7, <1>8, <1>11, HalfDoneBytes, BytesStep

LEMMA UnlinkBytes ==
    ASSUME BytesInv, NEW u \in Users, Unlink(u)
    PROVE  BytesInv'
<1>1. /\ TreeInv' /\ UNCHANGED <<rows, used, torn>> /\ pc[u] = "halves"
      /\ call[u].name = "delete" /\ "bytes" \in my[u].halves
  BY HalfTree DEF BytesInv, Unlink, Half
<1>2. PICK ok : HalfDone(u, "bytes", ok)
  BY DEF Unlink
<1>3. PICK k : k = call[u].file
  OBVIOUS
<1>4. /\ k \in Ids /\ Deleting(u, k) /\ HasDoc(u) /\ \A f : Deleting(u, f) => f = k
      /\ \A f : ~Uploading(u, f)
  BY <1>1, <1>3 DEF BytesInv, TreeInv, IInv, Control, Deleting, Uploading, HasDoc, Idle, Changes
<1>5. /\ \A f \in Ids \ {k} : f \in disk' <=> f \in disk
      /\ \A f \in missed : f \in missed'
      /\ \A f \in disk' : f \in disk
      /\ my[u].doc.folder => disk' = disk
      /\ ~my[u].doc.folder /\ k \notin disk => k \in missed'
      /\ ~my[u].doc.folder /\ WritesSucceed => k \notin disk'
  BY <1>3 DEF Unlink, Unlinks, WritesSucceed
<1>6. \A f \in Ids \ {k} : BytesAt(f) => BytesAt(f)'
  <2>1. ASSUME NEW f \in Ids \ {k}, BytesAt(f) PROVE BytesAt(f)'
    <3>1. ~Uploading(u, f) /\ ~Deleting(u, f)
      BY <1>4
    <3>. QED
      BY <1>1, <1>2, <1>5, <2>1, <3>1, HalfDoneBytes, BytesAside DEF Aside
  <2>. QED
    BY <2>1
<1>7. ASSUME BytesAt(k), WritesSucceed PROVE BytesAt(k)'
  <2>1. BytesComing(k)' <=> BytesComing(k)
    <3>1. \A v \in Users : Uploading(v, k) => v # u
      BY <1>4
    <3>. QED
      BY <1>1, <1>2, <3>1, HalfDoneBytes DEF BytesComing
  <2>2. Pending(k)' => Pending(k)
    BY <1>1, <1>5, <2>1 DEF Pending
  <2>3. \A v \in Users : /\ Deleting(v, k)' <=> Deleting(v, k)
                         /\ my'[v].doc = my[v].doc
                         /\ "row" \in my'[v].halves <=> "row" \in my[v].halves
                         /\ v # u => my'[v].halves = my[v].halves
    BY <1>1, <1>2, HalfDoneBytes
  <2>4. \A v \in Users : ~(Coming(v)' /\ my'[v].new = k)
    <3>1. ~Coming(u) /\ \A v \in Users : Coming(v) => my[v].new # k
      BY <1>1, <1>3, <1>4 DEF BytesInv, DocKnown, Coming
    <3>. QED
      BY <1>1, <1>2, <3>1, HalfDoneBytes
  <2>5. ASSUME my[u].doc.folder PROVE BytesAt(k)'
    <3>1. Pending(k)' <=> Pending(k)
      BY <1>1, <1>5, <2>1, <2>5 DEF Pending
    <3>2. \A v \in Users : ~my[v].doc.folder => my'[v].halves = my[v].halves
      BY <2>3, <2>5
    <3>3. \A v \in Users : ~(Coming(v) /\ my[v].new = k)
      BY <1>1, <1>3, <1>4 DEF BytesInv, DocKnown
    <3>. QED
      BY <1>1, <1>5, <1>7, <2>1, <2>3, <2>4, <2>5, <3>1, <3>2, <3>3 DEF BytesAt
  <2>6. ASSUME ~my[u].doc.folder PROVE BytesAt(k)'
    <3>1. k \in missed' \/ ~Pending(k)'
      BY <1>1, <1>5, <1>7, <2>1, <2>6 DEF BytesAt, Pending
    <3>2. rows[k] # Undef => "row" \in my[u].halves /\ ~rows[k].folder
      BY <1>3, <1>4, <1>7, <2>6 DEF BytesAt, BytesInv, DocKnown
    <3>. QED
      BY <1>1, <1>4, <1>5, <1>7, <2>1, <2>2, <2>3, <2>4, <2>6, <3>1, <3>2 DEF BytesAt
  <2>. QED
    BY <2>5, <2>6
<1>8. DocKnown(u)' /\ pc'[u] # "token"
  <2>1. DocKnown(u)
    BY DEF BytesInv
  <2>2. \A v \in Users : Coming(v)' => Coming(v) /\ my'[v].new = my[v].new
    BY <1>1, <1>2, HalfDoneBytes DEF Coming
  <2>. QED
    BY <1>1, <1>2, <1>3, <1>4, <2>1, <2>2, HalfDoneBytes DEF DocKnown
<1>11. RestStays(u)
  BY <1>1, <1>2, RestHalf DEF Halves
<1>. QED
  BY <1>1, <1>2, <1>4, <1>5, <1>6, <1>7, <1>8, <1>11, HalfDoneBytes, BytesStep

LEMMA SaveBytes ==
    ASSUME BytesInv, NEW u \in Users, Save(u)
    PROVE  BytesInv'
<1>1. TreeInv' /\ UNCHANGED <<disk, used, missed, torn>> /\ pc[u] = "read"
  BY SaveTree DEF BytesInv, Save, Gathered, Unplaced, ghost
<1>2. PICK ok : Answered(u, ok)
  BY DEF Save
<1>3. Only(u) /\ pc'[u] = "home" /\ call' = call
  BY <1>2, AnsweredOnly DEF BytesInv, TreeInv
<1>4. CASE rows' = rows
  BY <1>1, <1>3, <1>4, BytesStay DEF HasDoc
<1>5. CASE rows' # rows
  <2>. DEFINE k == call[u].file
  <2>1. /\ IsRow(k) /\ rows' = [rows EXCEPT ![k] = Changed(u)]
        /\ call[u].name \in {"setInfo", "insertChild", "removeChild"} /\ HasDoc(u)
    BY <1>5 DEF Save, Unplaced, Gathered, HasDoc, Changes
  <2>2. k \in Ids /\ rows[k] # Undef
    BY <2>1, OwnOK, NodesOK DEF BytesInv, TreeInv, IInv, IsRow
  <2>3. rows[k].folder = my[u].doc.folder
    BY <2>1, <2>2 DEF BytesInv, DocKnown
  <2>4. Changed(u) \in Rows /\ Changed(u).folder = my[u].doc.folder
    BY <2>1, OwnOK DEF Changed, Rows, BytesInv, TreeInv, Nodes
  <2>5. /\ \A f \in Ids \ {k} : rows'[f] = rows[f]
        /\ rows'[k] # Undef /\ rows'[k].folder = rows[k].folder
    BY <2>1, <2>2, <2>3, <2>4, DriveOK DEF BytesInv, TreeInv, IInv, TypeOK
  <2>6. PICK j : j = k
    OBVIOUS
  <2>. HIDE DEF k
  <2>7. \A v \in Users, f \in Ids : /\ Uploading(v, f)' <=> Uploading(v, f)
                                    /\ Deleting(v, f)' <=> Deleting(v, f)
    BY <1>1, <1>3 DEF Only, Uploading, Deleting
  <2>8. \A v \in Users : Coming(v)' <=> Coming(v)
    BY <1>1, <1>3 DEF Only, Coming
  <2>9. \A v \in Users \ {u} : my'[v] = my[v]
    BY <1>3 DEF Only
  <2>10. ~Coming(u) /\ \A f : ~Uploading(u, f) /\ ~Deleting(u, f)
    BY <1>1 DEF Coming, Uploading, Deleting
  <2>11. ASSUME NEW f \in Ids, BytesAt(f) PROVE BytesAt(f)'
    <3>1. BytesComing(f)' <=> BytesComing(f)
      <4>1. \A v \in Users : Uploading(v, f)' /\ "bytes" \in my'[v].halves <=>
                            Uploading(v, f) /\ "bytes" \in my[v].halves
        BY <2>7, <2>9, <2>10
      <4>. QED
        BY <4>1 DEF BytesComing
    <3>2. Pending(f)' <=> Pending(f)
      BY <1>1, <3>1 DEF Pending
    <3>3. /\ rows'[f] = Undef <=> rows[f] = Undef
          /\ rows[f] # Undef => rows'[f].folder = rows[f].folder
      BY <2>2, <2>5
    <3>. QED
      BY <1>1, <2>7, <2>8, <2>9, <2>10, <2>11, <3>1, <3>2, <3>3 DEF BytesAt
  <2>12. DocKnown(u)' /\ pc'[u] # "token" /\ used' \in {used, used + 1} /\ ~Coming(u)'
    BY <1>1, <1>3 DEF DocKnown, HasDoc, Coming
  <2>13. \A f \in Ids : rows'[f] = rows[f] \/ (rows[f] # Undef /\ rows'[f].folder = rows[f].folder)
    BY <2>2, <2>5
  <2>. QED
    BY <1>1, <1>3, <2>7, <2>11, <2>12, <2>13, RestAway, BytesStep
<1>. QED
  BY <1>4, <1>5

\* Of the file whose body breaks off nothing is said any more.
LEMMA BreaksOffBytes ==
    ASSUME BytesInv, NEW u \in Users, BreaksOff(u)
    PROVE  BytesInv'
<1>1. /\ TreeInv' /\ rows' = rows /\ UNCHANGED <<used, missed, torn, call>> /\ IInv
      /\ Only(u) /\ pc'[u] = "halves" /\ "rest" \in my'[u].halves
  BY BreaksOffTree, BreaksOffOnly DEF BytesInv, TreeInv, ghost
<1>2. call[u].name = "upload"
  BY <1>1, BreaksOffOnly DEF BytesInv
<1>3. DocKnown(u)' /\ pc'[u] # "token" /\ used' \in {used, used + 1}
  BY <1>1, <1>2 DEF DocKnown, HasDoc, Changes
<1>4. Coming(u)' => Coming(u) /\ my'[u].new = my[u].new
  BY <1>1, BreaksOffOnly DEF Coming
<1>5. \A f \in Ids : /\ Uploading(u, f)' => Uploading(u, f) /\ Torn(f)'
                     /\ ~Uploading(u, f)' => ~Uploading(u, f)
                     /\ ~Deleting(u, f) /\ ~Deleting(u, f)'
  <2>1. Root \notin Ids
    BY DriveOK DEF Root, Ids
  <2>2. \A f \in Ids : Uploading(u, f)' => Torn(f)'
    BY <1>1 DEF Torn
  <2>. QED
    BY <1>1, <1>2, <2>1, <2>2, BreaksOffOnly DEF Uploading, Deleting
<1>6. RestStays(u)
  BY <1>1, <1>5 DEF RestStays
<1>7. \A f \in Ids : (f \in disk' <=> f \in disk) \/ Uploading(u, f)
  BY <1>1, BreaksOffOnly DEF Uploading
<1>8. \A f \in disk' : f \in disk \/ Uploading(u, f)
  BY <1>1, BreaksOffOnly DEF Uploading
<1>9. \A f \in Ids : Aside(u, f) \/ Torn(f)'
  BY <1>1, <1>5, <1>7 DEF Aside
<1>. QED
  BY <1>1, <1>3, <1>4, <1>5, <1>6, <1>8, <1>9, BytesStep

\* When the worker ends, what somebody was at is torn, and nobody is at the rest.
LEMMA WorkerEndsBytes ==
    ASSUME BytesInv, WorkerEnds
    PROVE  BytesInv'
<1>1. TreeInv' /\ IInv
  BY WorkerEndsTree DEF BytesInv, TreeInv
<1>2. /\ \A u \in Users : pc'[u] = "home"
      /\ UNCHANGED <<rows, disk, used, missed, given>> /\ torn \subseteq torn'
  BY <1>1, WorkerEndsAll
<1>3. \A u \in Users : ~HasDoc(u)' /\ ~Coming(u)' /\ \A f : ~Uploading(u, f)' /\ ~Deleting(u, f)'
  BY <1>2 DEF HasDoc, Coming, Uploading, Deleting
<1>4. /\ \A u \in Users : DocKnown(u)'
      /\ UploadsApart' /\ DiskKnown'
  BY <1>2, <1>3 DEF DocKnown, UploadsApart, DiskKnown, BytesInv
<1>5. ASSUME WritesSucceed, NEW f \in Ids, f \notin torn' PROVE BytesAt(f)'
  <2>1. \A u \in Users : ~Uploading(u, f) /\ ~Deleting(u, f)
    BY <1>5 DEF WorkerEnds, WorksOn, Uploading, Deleting
  <2>2. BytesAt(f)
    BY <1>2, <1>5, <2>1 DEF BytesInv, Torn
  <2>3. ~BytesComing(f) /\ ~BytesComing(f)'
    BY <1>3, <2>1 DEF BytesComing
  <2>4. Pending(f)' <=> Pending(f)
    BY <1>2, <2>3 DEF Pending
  <2>5. \A u \in Users : ~(Coming(u) /\ my[u].new = f)
    BY <2>1 DEF Coming, Uploading
  <2>. QED
    BY <1>2, <1>3, <2>1, <2>2, <2>3, <2>4, <2>5 DEF BytesAt
<1>6. WritesSucceed' <=> WritesSucceed
  BY <1>2 DEF WritesSucceed, Given
<1>. QED
  BY <1>1, <1>2, <1>4, <1>5, <1>6 DEF BytesInv, Torn

LEMMA InitBytes == Init => BytesInv
<1>. SUFFICES ASSUME Init PROVE BytesInv
  OBVIOUS
<1>1. TreeInv
  BY InitTree
<1>2. \A u \in Users : /\ pc[u] = "home" /\ DocKnown(u) /\ ~Coming(u)
                       /\ \A f : ~Uploading(u, f) /\ ~Deleting(u, f)
  BY DEF Init, DocKnown, HasDoc, Coming, Uploading, Deleting
<1>3. UploadsApart /\ \A u \in Users : pc[u] # "token"
  BY <1>2 DEF UploadsApart
<1>4. DiskKnown
  <2>. SUFFICES ASSUME NEW f \in Ids, rows[f] # Undef PROVE f <= used
    BY DEF Init, DiskKnown
  <2>1. f \in Nat /\ used \in Nat
    BY <1>1 DEF TreeInv, IInv, TypeOK, Ids
  <2>2. ~(f > used)
    BY <1>1 DEF TreeInv, RestFree
  <2>. QED
    BY <2>1, <2>2
<1>5. \A f \in Ids : f \in disk <=> rows[f] # Undef /\ ~rows[f].folder
  BY DEF Init
<1>6. \A f \in Ids : BytesAt(f)
  BY <1>2, <1>5 DEF BytesAt, Pending, BytesComing
<1>. QED
  BY <1>1, <1>2, <1>3, <1>4, <1>6 DEF BytesInv

LEMMA NextBytes == BytesInv /\ [Next]_vars => BytesInv'
<1>1. ASSUME BytesInv, UNCHANGED vars PROVE BytesInv'
  <2>1. TreeInv'
    BY <1>1, NextTree DEF BytesInv
  <2>2. /\ UNCHANGED <<rows, disk, used, missed, torn, pc, call, my>>
        /\ WritesSucceed' <=> WritesSucceed
    BY <1>1 DEF vars, WritesSucceed, Given
  <2>3. \A f \in Ids : (BytesAt(f)' <=> BytesAt(f)) /\ (Torn(f)' <=> Torn(f))
    BY <2>2 DEF BytesAt, Pending, BytesComing, Uploading, Deleting, Coming, Torn
  <2>4. \A u \in Users : DocKnown(u)' <=> DocKnown(u)
    BY <2>2 DEF DocKnown, HasDoc, Coming
  <2>5. UploadsApart' /\ DiskKnown'
    BY <1>1, <2>2 DEF BytesInv, UploadsApart, DiskKnown, Uploading
  <2>. QED
    BY <1>1, <2>1, <2>2, <2>3, <2>4, <2>5 DEF BytesInv
<1>2. ASSUME BytesInv, NEW u \in Users, Serve(u) PROVE BytesInv'
  BY <1>2, ReadBytes, PathBytes, CreateFolderBytes, HalvesBytes, AddRowBytes, WriteBytesBytes,
     RemoveRowBytes, UnlinkBytes, BreaksOffBytes, SaveBytes DEF Serve
<1>. QED
  BY <1>1, <1>2, ActBytes, WorkerEndsBytes DEF Next, Rest

\* As long as no write fails, the bytes on the disk and the rows of files belong
\* together, whichever half of an upload and of a delete comes first and whoever comes
\* between: only bytes that were written after a delete had looked for them stay.
THEOREM BytesKept == Spec => []BytesBehindRows
<1>1. BytesInv => BytesBehindRows
  BY BytesEnough
<1>. QED
  BY <1>1, InitBytes, NextBytes, PTL DEF Spec

-----------------------------------------------------------------------------
(* The shape of the tree *)

\* Whatever files are taken, one of them has its parent elsewhere.
Acyclic == \A s \in SUBSET Ids : s # {} => \E f \in s : Up(f) \notin s

LEMMA Least ==
    ASSUME NEW ns, ns \subseteq Nat, ns # {}
    PROVE  \E n \in ns : \A x \in ns : n <= x
<1>. DEFINE Less == {ss \in Nat \X Nat : ss[1] < ss[2]}
<1>1. IsWellFoundedOn(Less, Nat)
  <2>1. OpToRel(<, Nat) = Less
    BY Zenon DEF OpToRel
  <2>. QED
    BY <2>1, NatLessThanWellFounded
<1>2. PICK n \in ns : \A x \in ns : <<x, n>> \notin Less
  <2>. HIDE DEF Less
  <2>. QED
    BY <1>1, WFMin
<1>3. ASSUME NEW x \in ns PROVE n <= x
  <2>1. <<x, n>> \notin Less /\ x \in Nat /\ n \in Nat
    BY <1>2
  <2>2. ~(x < n)
    BY <2>1
  <2>. QED
    BY <2>1, <2>2
<1>. QED
  BY <1>3

LEMMA UpOK ==
    ASSUME IInv
    PROVE  (\A f \in Nodes : Up(f) \in Nodes) /\ Up(Root) = Root
BY DEF Up, IsRow, IInv, TypeOK, Nodes, Rows

\* g holds the parents over f, up to the n-th.
Climbs(g, f, n) ==
    /\ g \in [0..n -> Nodes]
    /\ \A i \in 0..n : g[i] = IF i = 0 THEN f ELSE Up(g[i - 1])

LEMMA ClimbsExist ==
    ASSUME IInv, NEW f \in Nodes, NEW n \in Nat
    PROVE  \E g : Climbs(g, f, n)
<1>. DEFINE Bad == {k \in Nat : ~\E g : Climbs(g, f, k)}
<1>. SUFFICES ASSUME Bad # {} PROVE FALSE
  OBVIOUS
<1>1. PICK k \in Bad : \A x \in Bad : k <= x
  <2>1. Bad \subseteq Nat
    OBVIOUS
  <2>. HIDE DEF Bad
  <2>. QED
    BY <2>1, Least
<1>2. k \in Nat /\ ~\E g : Climbs(g, f, k)
  OBVIOUS
<1>3. CASE k = 0
  <2>1. Climbs([i \in 0..0 |-> f], f, 0)
    BY DEF Climbs
  <2>. QED
    BY <1>2, <1>3, <2>1
<1>4. CASE k # 0
  <2>1. k - 1 \in Nat /\ ~(k <= k - 1)
    BY <1>2, <1>4
  <2>2. k - 1 \notin Bad
    BY <1>1, <2>1
  <2>3. PICK g : Climbs(g, f, k - 1)
    BY <2>1, <2>2
  <2>. DEFINE h == [i \in 0..k |-> IF i = k THEN Up(g[k - 1]) ELSE g[i]]
  <2>4. /\ \A i \in 0..k : i # k => i \in 0..(k - 1)
        /\ k - 1 \in 0..(k - 1)
        /\ \A i \in 0..k : i # 0 => i - 1 \in 0..k /\ i - 1 # k
    BY <2>1
  <2>5. h \in [0..k -> Nodes]
    BY <2>3, <2>4, UpOK DEF Climbs
  <2>6. ASSUME NEW i \in 0..k PROVE h[i] = IF i = 0 THEN f ELSE Up(h[i - 1])
    <3>1. CASE i = k
      <4>1. h[i] = Up(g[i - 1]) /\ h[i - 1] = g[i - 1]
        BY <1>4, <2>4, <3>1
      <4>. QED
        BY <1>4, <3>1, <4>1
    <3>2. CASE i # k
      <4>1. h[i] = g[i] /\ i \in 0..(k - 1)
        BY <2>4, <3>2
      <4>2. i # 0 => h[i - 1] = g[i - 1]
        BY <2>4
      <4>. QED
        BY <2>3, <4>1, <4>2 DEF Climbs
    <3>. QED
      BY <3>1, <3>2
  <2>. HIDE DEF h
  <2>7. Climbs(h, f, k)
    BY <2>5, <2>6 DEF Climbs
  <2>. QED
    BY <1>2, <2>7
<1>. QED
  BY <1>3, <1>4

LEMMA AboveClimbs ==
    ASSUME IInv, NEW f \in Nodes
    PROVE  \E g : Climbs(g, f, MaxId) /\ Above(f) = {g[i] : i \in 1..MaxId}
<1>. DEFINE at[i \in 0..MaxId] == IF i = 0 THEN f ELSE Up(at[i - 1])
<1>1. MaxId \in Nat
  BY DriveOK
<1>2. PICK g : Climbs(g, f, MaxId)
  BY <1>1, ClimbsExist
<1>3. g = [i \in 0..MaxId |-> IF i = 0 THEN f ELSE Up(g[i - 1])]
  BY <1>2 DEF Climbs
<1>4. at = [i \in 0..MaxId |-> IF i = 0 THEN f ELSE Up(at[i - 1])]
  BY <1>3
<1>. HIDE DEF at
<1>5. \A i \in 0..MaxId : at[i] = IF i = 0 THEN f ELSE Up(at[i - 1])
  BY <1>4
<1>6. \A i \in 0..MaxId : at[i] = g[i]
  <2>. DEFINE Bad == {i \in 0..MaxId : at[i] # g[i]}
  <2>. SUFFICES ASSUME Bad # {} PROVE FALSE
    OBVIOUS
  <2>1. Bad \subseteq Nat
    BY <1>1
  <2>2. PICK k \in Bad : \A x \in Bad : k <= x
    <3>. HIDE DEF Bad
    <3>. QED
      BY <2>1, Least
  <2>3. CASE k = 0
    BY <1>1, <1>2, <1>5, <2>3 DEF Climbs
  <2>4. CASE k # 0
    <3>1. k - 1 \in 0..MaxId /\ ~(k <= k - 1)
      BY <1>1, <2>4
    <3>2. at[k - 1] = g[k - 1]
      BY <2>2, <3>1
    <3>. QED
      BY <1>2, <1>5, <2>4, <3>2 DEF Climbs
  <2>. QED
    BY <2>3, <2>4
<1>7. Above(f) = {at[i] : i \in 1..MaxId}
  BY DEF Above, at
<1>8. 1..MaxId \subseteq 0..MaxId
  BY <1>1
<1>9. Above(f) = {g[i] : i \in 1..MaxId}
  BY <1>6, <1>7, <1>8
<1>. QED
  BY <1>2, <1>9

\* A file that is over itself, and those between, would have all their parents among them.
LEMMA AcyclicNoLoops ==
    ASSUME IInv, Acyclic
    PROVE  Loops = {}
<1>. SUFFICES ASSUME NEW f \in Ids, f \in Above(f) PROVE FALSE
  BY DEF Loops
<1>1. f \in Nodes /\ f # Root /\ MaxId \in Nat
  BY DriveOK DEF Nodes, Ids, Root
<1>2. PICK g : Climbs(g, f, MaxId) /\ Above(f) = {g[i] : i \in 1..MaxId}
  BY <1>1, AboveClimbs
<1>3. PICK j \in 1..MaxId : g[j] = f
  BY <1>2
<1>4. /\ j \in Nat /\ j # 0 /\ 0..j \subseteq 0..MaxId
      /\ \A i \in 0..j : g[i] \in Nodes /\ (i # 0 => g[i] = Up(g[i - 1]))
      /\ g[0] = f
  <2>1. j \in Nat /\ j # 0 /\ 0..j \subseteq 0..MaxId /\ 0 \in 0..MaxId
    BY <1>1
  <2>2. /\ \A i \in 0..MaxId : g[i] \in Nodes
        /\ \A i \in 0..MaxId : g[i] = IF i = 0 THEN f ELSE Up(g[i - 1])
    BY <1>2 DEF Climbs
  <2>3. \A i \in 0..j : i \in 0..MaxId
    BY <2>1
  <2>4. g[0] = f
    BY <2>1, <2>2
  <2>. QED
    BY <2>1, <2>2, <2>3, <2>4
<1>5. \A i \in 0..j : g[i] # Root
  <2>. DEFINE Bad == {d \in 0..j : g[j - d] = Root}
  <2>. SUFFICES ASSUME Bad # {} PROVE FALSE
    <3>1. ASSUME NEW i \in 0..j, g[i] = Root PROVE Bad # {}
      <4>1. j - i \in 0..j /\ j - (j - i) = i
        BY <1>4
      <4>. QED
        BY <3>1, <4>1
    <3>. QED
      BY <3>1
  <2>1. Bad \subseteq Nat
    BY <1>4
  <2>2. PICK d \in Bad : \A x \in Bad : d <= x
    <3>. HIDE DEF Bad
    <3>. QED
      BY <2>1, Least
  <2>3. CASE d = 0
    BY <1>1, <1>3, <1>4, <2>2, <2>3
  <2>4. CASE d # 0
    <3>1. d - 1 \in 0..j /\ ~(d <= d - 1) /\ j - (d - 1) \in 0..j /\ j - (d - 1) # 0
          /\ j - (d - 1) - 1 = j - d
      BY <1>4, <2>4
    <3>2. g[j - (d - 1)] = Up(g[j - d])
      BY <1>4, <3>1
    <3>3. g[j - (d - 1)] = Root
      BY <2>2, <3>2, UpOK
    <3>4. d - 1 \in Bad
      BY <3>1, <3>3
    <3>. QED
      BY <2>2, <3>1, <3>4
  <2>. QED
    BY <2>3, <2>4
<1>. DEFINE s == {g[i] : i \in 0..j}
<1>6. s \in SUBSET Ids /\ s # {}
  BY <1>4, <1>5 DEF Nodes
<1>7. ASSUME NEW i \in 0..j PROVE Up(g[i]) \in s
  <2>1. CASE i = j
    <3>1. Up(g[i]) = g[1] /\ 1 \in 0..j
      BY <1>3, <1>4, <2>1
    <3>. QED
      BY <3>1
  <2>2. CASE i # j
    <3>1. i + 1 \in 0..j /\ i + 1 # 0 /\ (i + 1) - 1 = i
      BY <1>4, <2>2
    <3>2. g[i + 1] = Up(g[i])
      BY <1>4, <3>1
    <3>. QED
      BY <3>1, <3>2
  <2>. QED
    BY <2>1, <2>2
<1>. QED
  BY <1>6, <1>7 DEF Acyclic

Lies(k, f) == k \in Ids /\ rows[k] # Undef /\ rows[k].parent = f

\* A file finds another parent: the tree stays one if that is the root, was beside the
\* file, or over its parent.
LEMMA AcyclicMoved ==
    ASSUME IInv, Acyclic, NEW k \in Ids, NEW row \in Rows, rows' = [rows EXCEPT ![k] = row],
           NEW d \in Nodes,
           \/ row.parent = Root
           \/ Lies(k, row.parent)
           \/ Lies(k, d) /\ Lies(row.parent, d) /\ row.parent # k
           \/ Lies(k, d) /\ Lies(d, row.parent)
    PROVE  Acyclic'
<1>. SUFFICES ASSUME NEW s \in SUBSET Ids, s # {}, \A f \in s : Up(f)' \in s PROVE FALSE
  BY DEF Acyclic
<1>1. /\ \A f \in Ids \ {k} : Up(f)' = Up(f)
      /\ Up(k)' = row.parent
      /\ Root \notin Ids
  BY DriveOK DEF IInv, TypeOK, Up, IsRow, Ids, Root
<1>2. \A g, f : Lies(g, f) => g \in Ids /\ Up(g) = f
  BY <1>1 DEF Lies, Up, IsRow
<1>3. k \in s
  BY <1>1 DEF Acyclic
<1>4. row.parent \in s /\ row.parent # Root
  BY <1>1, <1>3
<1>5. CASE Lies(k, row.parent)
  BY <1>1, <1>2, <1>5 DEF Acyclic
<1>6. CASE Lies(k, d) /\ Lies(row.parent, d) /\ row.parent # k
  <2>1. d \in s
    BY <1>1, <1>2, <1>4, <1>6
  <2>. QED
    BY <1>1, <1>2, <1>6, <2>1 DEF Acyclic
<1>7. CASE Lies(k, d) /\ Lies(d, row.parent)
  <2>1. s \union {d} \in SUBSET Ids
    BY <1>7 DEF Lies
  <2>2. \A f \in s \union {d} : Up(f) \in s \union {d}
    BY <1>1, <1>2, <1>4, <1>7
  <2>. QED
    BY <2>1, <2>2 DEF Acyclic
<1>. QED
  BY <1>4, <1>5, <1>6, <1>7

\* A file goes.
LEMMA AcyclicRemoved ==
    ASSUME IInv, Acyclic, NEW k \in Ids, rows' = [rows EXCEPT ![k] = Undef]
    PROVE  Acyclic'
<1>. SUFFICES ASSUME NEW s \in SUBSET Ids, s # {}, \A f \in s : Up(f)' \in s PROVE FALSE
  BY DEF Acyclic
<1>1. /\ \A f \in Ids \ {k} : Up(f)' = Up(f)
      /\ Up(k)' = Root /\ Root \notin Ids
  BY DriveOK DEF IInv, TypeOK, Up, IsRow, Ids, Root
<1>. QED
  BY <1>1 DEF Acyclic

\* A file comes, in which nothing lies yet.
LEMMA AcyclicAdded ==
    ASSUME IInv, Acyclic, NEW k \in Ids, NEW row \in Rows, rows' = [rows EXCEPT ![k] = row],
           \A f \in Ids : ~Lies(f, k), row.parent # k
    PROVE  Acyclic'
<1>. SUFFICES ASSUME NEW s \in SUBSET Ids, s # {}, \A f \in s : Up(f)' \in s PROVE FALSE
  BY DEF Acyclic
<1>1. /\ \A f \in Ids \ {k} : Up(f)' = Up(f)
      /\ Up(k)' = row.parent
      /\ Root \notin Ids /\ \A f \in Ids : Up(f) # k
  BY DriveOK DEF IInv, TypeOK, Up, IsRow, Ids, Root, Lies
<1>2. k \in s => row.parent \in s
  BY <1>1
<1>3. s \ {k} \in SUBSET Ids /\ s \ {k} # {}
  BY <1>2
<1>4. \A f \in s \ {k} : Up(f) \in s \ {k}
  BY <1>1
<1>. QED
  BY <1>3, <1>4 DEF Acyclic

-----------------------------------------------------------------------------
(* What pages and requests say of the tree *)

\* Ids of files that are there or have been there.
KnownIds == {f \in Nodes : f <= used /\ \A v \in Users : Coming(v) => my[v].new # f}

Tidy(u) ==
    /\ {call[u].file, call[u].to, my[u].doc.parent, page[u].at, page[u].folder} \subseteq KnownIds
    /\ \A x \in my[u].kids \union page[u].seen : x[1] \in KnownIds
    /\ page[u].todo \subseteq KnownIds

\* What a page is waiting for.
Waits(u) ==
    /\ stage[u] \in {"away", "page"} => Idle(u)
    /\ stage[u] \in {"listing", "kids"} => call[u].name = "children"
    /\ stage[u] = "moving" /\ ~Idle(u) => call[u].name = "insertChild"

\* Where nobody else has moved anything, the files lie where the page of u shows them,
\* but for what u itself has moved.
Sound(u) ==
    /\ stage[u] = "page" => \A x \in page[u].seen : Lies(x[1], page[u].at)
    /\ stage[u] = "listing" => \A x \in my[u].kids : Lies(x[1], call[u].file)
    /\ stage[u] = "doing" /\ ~Idle(u) /\ call[u].name = "insertChild" =>
          /\ call[u].file # call[u].to
          /\ \E d \in Nodes : Lies(call[u].file, d) /\ Lies(call[u].to, d)
    /\ stage[u] = "kids" =>
          /\ Lies(page[u].folder, page[u].at) /\ call[u].file = page[u].folder
          /\ \A x \in my[u].kids : Lies(x[1], page[u].folder)
    /\ stage[u] = "moving" =>
          /\ Lies(page[u].folder, page[u].at)
          /\ \A k \in page[u].todo : Lies(k, page[u].folder)
          /\ ~Idle(u) => /\ Lies(call[u].file, page[u].folder)
                         /\ call[u].to = page[u].at /\ call[u].file \notin page[u].todo

ShapeInv ==
    /\ TreeInv
    /\ \A f \in Ids : rows[f] # Undef => f \in KnownIds /\ rows[f].parent \in KnownIds
    /\ \A u \in Users : Tidy(u) /\ Waits(u)
    /\ crossed \/ (Acyclic /\ \A u \in Users : "page" \in stale[u] \/ Sound(u))

\* Nothing comes, goes or finds another place.
SameShape ==
    \A f \in Ids : /\ rows'[f] = Undef <=> rows[f] = Undef
                   /\ rows[f] # Undef => rows'[f].parent = rows[f].parent

LEMMA ShapeEnough ==
    ASSUME ShapeInv
    PROVE  TreeShaped
BY AcyclicNoLoops DEF ShapeInv, TreeInv, TreeShaped

LEMMA SameLies ==
    ASSUME SameShape
    PROVE  /\ \A k, f : Lies(k, f)' <=> Lies(k, f)
           /\ \A f \in Ids : Up(f)' = Up(f)
           /\ Acyclic => Acyclic'
<1>1. \A k, f : Lies(k, f)' <=> Lies(k, f)
  BY DEF SameShape, Lies
<1>2. \A f \in Ids : Up(f)' = Up(f)
  BY DEF SameShape, Up, IsRow
<1>. QED
  BY <1>1, <1>2 DEF Acyclic

LEMMA KnownGrows ==
    ASSUME TreeInv, NEW u \in Users, Only(u), used' \in {used, used + 1},
           Coming(u)' => (Coming(u) /\ my'[u].new = my[u].new) \/ my'[u].new > used
    PROVE  KnownIds \subseteq KnownIds'
<1>. SUFFICES ASSUME NEW f \in KnownIds PROVE f \in KnownIds'
  OBVIOUS
<1>1. used \in Nat /\ f \in Nat /\ f \in Nodes /\ f <= used
  BY DEF KnownIds, TreeInv, IInv, TypeOK, Nodes, Ids, Root
<1>2. f <= used'
  BY <1>1
<1>3. ASSUME NEW v \in Users, Coming(v)' PROVE my'[v].new # f
  <2>1. CASE v = u
    BY <1>1, <1>3, <2>1 DEF KnownIds
  <2>2. CASE v # u
    BY <1>3, <2>2 DEF Only, Coming, KnownIds
  <2>. QED
    BY <2>1, <2>2
<1>. QED
  BY <1>1, <1>2, <1>3 DEF KnownIds

LEMMA RootKnown == TreeInv => Root \in KnownIds
<1>. SUFFICES ASSUME TreeInv PROVE Root \in KnownIds
  OBVIOUS
<1>1. \A u \in Users : Coming(u) => my[u].new \in Ids
  BY DEF TreeInv, IInv, Control, Coming, Halves
<1>. QED
  BY <1>1, DriveOK DEF KnownIds, TreeInv, IInv, TypeOK, Nodes, Ids, Root

\* A step of u.
LEMMA ShapeStep ==
    ASSUME ShapeInv, TreeInv', NEW u \in Users, Only(u), used' \in {used, used + 1},
           Coming(u)' => (Coming(u) /\ my'[u].new = my[u].new) \/ my'[u].new > used,
           \A v \in Users \ {u} : stage'[v] = stage[v] /\ page'[v] = page[v],
           \A v \in Users \ {u} : "page" \in stale'[v] \/ (stale'[v] = stale[v] /\ SameShape),
           \A f \in Ids : rows'[f] # Undef => f \in KnownIds' /\ rows'[f].parent \in KnownIds',
           Tidy(u)', Waits(u)',
           crossed => crossed',
           ~crossed /\ ~crossed' => Acyclic' /\ ("page" \in stale'[u] \/ Sound(u)')
    PROVE  ShapeInv'
<1>1. KnownIds \subseteq KnownIds'
  BY KnownGrows DEF ShapeInv
<1>2. ASSUME NEW v \in Users \ {u} PROVE Tidy(v)' /\ Waits(v)'
  BY <1>1, <1>2 DEF ShapeInv, Tidy, Waits, Only, Idle
<1>3. ASSUME NEW v \in Users \ {u}, ~crossed, Sound(v), SameShape PROVE Sound(v)'
  BY <1>3, SameLies DEF Sound, Only, Idle
<1>4. ASSUME ~crossed' PROVE \A v \in Users : "page" \in stale'[v] \/ Sound(v)'
  BY <1>3, <1>4 DEF ShapeInv
<1>. QED
  BY <1>2, <1>4 DEF ShapeInv

\* A request goes on, or is answered; no file changes.
LEMMA OnwardShape ==
    ASSUME ShapeInv, TreeInv', NEW u \in Users, ~Idle(u), Only(u), rows' = rows,
           UNCHANGED <<call, client, stale, crossed>>, used' \in {used, used + 1},
           Coming(u)' => (Coming(u) /\ my'[u].new = my[u].new) \/ my'[u].new > used,
           my'[u].kids \subseteq my[u].kids, my'[u].doc.parent \in KnownIds
    PROVE  ShapeInv'
<1>1. KnownIds \subseteq KnownIds'
  BY KnownGrows DEF ShapeInv
<1>2. SameShape
  BY DEF SameShape
<1>3. stage' = stage /\ page' = page
  BY DEF client
<1>4. Tidy(u)'
  BY <1>1, <1>3 DEF ShapeInv, Tidy
<1>5. Waits(u)'
  BY <1>3 DEF ShapeInv, Waits, Idle
<1>6. Sound(u) => Sound(u)'
  BY <1>2, <1>3, SameLies DEF Sound, Idle
<1>7. \A f \in Ids : rows'[f] # Undef => f \in KnownIds' /\ rows'[f].parent \in KnownIds'
  BY <1>1 DEF ShapeInv
<1>8. ~crossed => Acyclic' /\ ("page" \in stale'[u] \/ Sound(u)')
  BY <1>2, <1>6, SameLies DEF ShapeInv
<1>. QED
  BY <1>2, <1>3, <1>4, <1>5, <1>7, <1>8, ShapeStep

LEMMA AnsweredKids ==
    ASSUME IInv, NEW u \in Users, NEW ok, Answered(u, ok)
    PROVE  my'[u].kids = my[u].kids /\ my'[u].doc = NoDoc /\ UNCHANGED client
BY DEF Answered, Goes, Blank, IInv, TypeOK

LEMMA AnsweredShape ==
    ASSUME ShapeInv, TreeInv', NEW u \in Users, ~Idle(u), rows' = rows, used' = used,
           stale' = stale, crossed' = crossed, NEW ok, Answered(u, ok)
    PROVE  ShapeInv'
<1>1. IInv
  BY DEF ShapeInv, TreeInv
<1>2. Only(u) /\ pc'[u] = "home" /\ call' = call
  BY <1>1, AnsweredOnly
<1>3. my'[u].kids = my[u].kids /\ my'[u].doc.parent = Root /\ UNCHANGED client
  <2>1. NoDoc.parent = Root
    BY DEF NoDoc
  <2>2. my'[u].kids = my[u].kids /\ my'[u].doc = NoDoc
    BY <1>1, AnsweredKids
  <2>3. UNCHANGED client
    BY <1>1, AnsweredKids
  <2>. QED
    BY <2>1, <2>2, <2>3
<1>. QED
  BY <1>2, <1>3, OnwardShape, RootKnown DEF ShapeInv, Coming

LEMMA ReadShape ==
    ASSUME ShapeInv, NEW u \in Users, Enter(u) \/ Read(u) \/ ReadFails(u) \/ Climb(u)
    PROVE  ShapeInv'
<1>1. /\ TreeInv' /\ rows' = rows /\ UNCHANGED <<used, stale, crossed>>
      /\ IInv /\ ~Idle(u)
  BY EnterTree, ReadTree DEF ShapeInv, TreeInv, Enter, Read, ReadFails, Climb, Unplaced, store,
     ghost, Idle
<1>2. my[u].doc.parent \in KnownIds
  BY DEF ShapeInv, Tidy
<1>3. CASE Enter(u)
  <2>1. Only(u) /\ pc'[u] = "read" /\ my' = my /\ UNCHANGED <<call, client>>
    BY <1>1, <1>3 DEF Enter, Only, store, IInv, TypeOK
  <2>. QED
    BY <1>1, <1>2, <2>1, OnwardShape DEF Coming
<1>4. CASE Answered(u, FALSE)
  BY <1>1, <1>4, AnsweredShape
<1>5. ASSUME NEW m, Moves(u, "read", m), m.kids = my[u].kids, m.doc.parent \in KnownIds
      PROVE  ShapeInv'
  <2>1. Only(u) /\ pc'[u] = "read" /\ my'[u] = m /\ call' = call /\ UNCHANGED client
    BY <1>1, <1>5, MovesOnly DEF Moves
  <2>. QED
    BY <1>1, <1>5, <2>1, OnwardShape DEF Coming
<1>6. ASSUME NEW f \in my[u].want, f = Root \/ IsRow(f),
             Moves(u, "read", [my[u] EXCEPT
                   !.want = @ \ {f},
                   !.walk = @ \union Over(f),
                   !.doc = IF f = call[u].file /\ f # Root THEN rows[f] ELSE @])
      PROVE  ShapeInv'
  <2>. DEFINE walk == my[u].walk \union Over(f)
              doc == IF f = call[u].file /\ f # Root THEN rows[f] ELSE my[u].doc
              m == [my[u] EXCEPT !.want = @ \ {f}, !.walk = walk, !.doc = doc]
  <2>1. Moves(u, "read", m)
    BY <1>6
  <2>2. doc.parent \in KnownIds
    <3>1. CASE f = call[u].file /\ f # Root
      <4>1. f \in Ids
        BY <1>1, <3>1, OwnOK DEF Nodes
      <4>. QED
        BY <1>6, <3>1, <4>1 DEF ShapeInv, IsRow
    <3>. QED
      BY <1>2, <3>1
  <2>. HIDE DEF walk, doc
  <2>3. m.kids = my[u].kids /\ m.doc = doc
    BY <1>1, OwnOK DEF Mine
  <2>. HIDE DEF m
  <2>. QED
    BY <1>5, <2>1, <2>2, <2>3
<1>7. ASSUME NEW f \in my[u].walk,
             Moves(u, "read", [my[u] EXCEPT !.walk = (@ \ {f}) \union Over(f)])
      PROVE  ShapeInv'
  <2>. DEFINE walk == (my[u].walk \ {f}) \union Over(f)
              m == [my[u] EXCEPT !.walk = walk]
  <2>1. Moves(u, "read", m)
    BY <1>7
  <2>. HIDE DEF walk
  <2>2. m.kids = my[u].kids /\ m.doc = my[u].doc
    BY <1>1, OwnOK DEF Mine
  <2>. HIDE DEF m
  <2>. QED
    BY <1>2, <1>5, <2>1, <2>2
<1>8. CASE Closed(u)
  <2>1. my'[u] = [Blank EXCEPT !.ok = FALSE] /\ UNCHANGED client
    BY <1>1, <1>8 DEF Closed, Goes, IInv, TypeOK
  <2>2. my'[u].kids = {} /\ my'[u].doc.parent = Root
    BY <2>1 DEF Blank, NoDoc
  <2>3. Only(u) /\ pc'[u] = "closed" /\ call' = call
    BY <1>1, <1>8, ClosedOnly
  <2>. QED
    BY <1>1, <2>1, <2>2, <2>3, OnwardShape, RootKnown DEF ShapeInv, Coming
<1>. QED
  BY <1>3, <1>4, <1>6, <1>7, <1>8 DEF Read, ReadFails, Climb

\* The listing that a page is waiting for is that of the folder it asks for.
LEMMA QueryShape ==
    ASSUME ShapeInv, NEW u \in Users, Query(u)
    PROVE  ShapeInv'
<1>1. /\ TreeInv' /\ rows' = rows /\ UNCHANGED <<used, crossed>>
      /\ IInv /\ ~Idle(u) /\ call[u].name = "children"
  BY PathTree DEF ShapeInv, TreeInv, Query, store, Idle, Gathered
<1>. DEFINE ks == {<<k, rows[k].folder>> : k \in Children(call[u].file)}
            m == [my[u] EXCEPT !.kids = ks, !.at = call[u].file]
<1>2. Moves(u, "path", m)
  BY DEF Query
<1>3. \A x \in ks : Lies(x[1], call[u].file)
  BY DEF Children, Lies
<1>. HIDE DEF ks
<1>4. m.kids = ks /\ m.doc = my[u].doc
  BY <1>1, OwnOK DEF Mine
<1>. HIDE DEF m
<1>5. Only(u) /\ pc'[u] = "path" /\ my'[u] = m /\ UNCHANGED <<call, stage, page>>
  BY <1>1, <1>2, MovesOnly DEF Moves, client
<1>6. ~Coming(u)' /\ KnownIds \subseteq KnownIds'
  BY <1>1, <1>5, KnownGrows DEF ShapeInv, Coming
<1>7. SameShape
  BY <1>1 DEF SameShape
<1>8. /\ \A v \in Users \ {u} : stale'[v] = stale[v]
      /\ "page" \in stale[u] /\ stage[u] = "kids" => "page" \in stale'[u]
  BY <1>1 DEF Query, IInv, TypeOK
<1>9. \A k, f : Lies(k, f) => k \in KnownIds
  BY DEF Lies, ShapeInv
<1>10. Tidy(u)'
  BY <1>3, <1>4, <1>5, <1>6, <1>9 DEF ShapeInv, Tidy
<1>11. Waits(u)'
  BY <1>1, <1>5 DEF ShapeInv, Waits, Idle
<1>12. ASSUME ~crossed PROVE "page" \in stale'[u] \/ Sound(u)'
  <2>1. stage[u] \in {"listing", "kids", "doing"}
    BY <1>1 DEF ShapeInv, Waits, IInv, TypeOK, Stages
  <2>2. \A k, f : Lies(k, f)' <=> Lies(k, f)
    BY <1>7, SameLies
  <2>3. CASE stage[u] = "listing"
    BY <1>3, <1>4, <1>5, <2>2, <2>3 DEF Sound
  <2>4. CASE stage[u] = "doing"
    BY <1>1, <1>5, <2>4 DEF Sound
  <2>5. CASE stage[u] = "kids"
    <3>1. "page" \in stale[u] \/ Sound(u)
      BY <1>12 DEF ShapeInv
    <3>2. ASSUME Sound(u) PROVE Sound(u)'
      BY <1>3, <1>4, <1>5, <2>2, <2>5, <3>2 DEF Sound
    <3>. QED
      BY <1>8, <2>5, <3>1, <3>2
  <2>. QED
    BY <2>1, <2>3, <2>4, <2>5
<1>13. ~crossed => Acyclic'
  BY <1>7, SameLies DEF ShapeInv
<1>14. \A f \in Ids : rows'[f] # Undef => f \in KnownIds' /\ rows'[f].parent \in KnownIds'
  BY <1>1, <1>6 DEF ShapeInv
<1>. QED
  BY <1>1, <1>5, <1>6, <1>7, <1>8, <1>10, <1>11, <1>12, <1>13, <1>14, ShapeStep

LEMMA PathShape ==
    ASSUME ShapeInv, NEW u \in Users,
           \/ Trace(u) \/ PathOn(u) \/ PathEnds(u) \/ Refuse(u) \/ BothDone(u)
           \/ CloseAgain(u)
    PROVE  ShapeInv'
<1>1. /\ TreeInv' /\ rows' = rows /\ UNCHANGED <<used, stale, crossed>>
      /\ IInv /\ ~Idle(u)
  BY PathTree DEF ShapeInv, TreeInv, Trace, PathOn, PathEnds, Refuse, BothDone, CloseAgain,
     Unplaced, store, ghost, Gathered, Idle
<1>2. my[u].doc.parent \in KnownIds
  BY DEF ShapeInv, Tidy
<1>3. CASE Refuse(u) \/ CloseAgain(u)
  <2>1. /\ Only(u) /\ pc'[u] = "home" /\ UNCHANGED <<call, client>>
        /\ my'[u].kids = {} /\ my'[u].doc.parent = Root
    <3>1. my'[u] = [Blank EXCEPT !.ok = FALSE] /\ pc'[u] = "home" /\ UNCHANGED <<call, client>>
      BY <1>1, <1>3 DEF Refuse, CloseAgain, Goes, IInv, TypeOK
    <3>2. Only(u)
      BY <1>1, <1>3 DEF Refuse, CloseAgain, Goes, Only, IInv, TypeOK
    <3>. QED
      BY <3>1, <3>2 DEF Blank, NoDoc
  <2>. QED
    BY <1>1, <2>1, OnwardShape, RootKnown DEF ShapeInv, Coming
<1>4. CASE \E ok : Answered(u, ok)
  BY <1>1, <1>4, AnsweredShape
<1>5. ASSUME NEW place \in {"path", "token"}, NEW at, Moves(u, place, [my[u] EXCEPT !.at = at])
      PROVE  ShapeInv'
  <2>1. /\ Only(u) /\ pc'[u] = place /\ my'[u] = [my[u] EXCEPT !.at = at]
        /\ UNCHANGED <<call, client>>
    BY <1>1, <1>5, MovesOnly DEF Moves
  <2>2. my'[u].kids = my[u].kids /\ my'[u].doc = my[u].doc
    BY <1>1, <2>1, OwnOK DEF Mine
  <2>. QED
    BY <1>1, <1>2, <2>1, <2>2, OnwardShape DEF Coming
<1>6. CASE Moves(u, "token", my[u])
  <2>1. Only(u) /\ pc'[u] = "token" /\ my'[u] = my[u] /\ UNCHANGED <<call, client>>
    BY <1>1, <1>6, MovesOnly DEF Moves
  <2>. QED
    BY <1>1, <1>2, <2>1, OnwardShape DEF Coming
<1>7. CASE Trace(u)
  BY <1>5, <1>7 DEF Trace
<1>8. CASE PathOn(u)
  BY <1>5, <1>8 DEF PathOn
<1>. QED
  BY <1>3, <1>4, <1>6, <1>7, <1>8 DEF PathEnds, BothDone

LEMMA HalvesShape ==
    ASSUME ShapeInv, NEW u \in Users, Accept(u) \/ Delete(u)
    PROVE  ShapeInv'
<1>1. /\ TreeInv' /\ rows' = rows /\ UNCHANGED <<stale, crossed>>
      /\ IInv /\ ~Idle(u) /\ pc[u] # "halves"
  BY HalvesTree DEF ShapeInv, TreeInv, Accept, Delete, Unplaced, ghost, Gathered, Idle
<1>2. my[u].doc.parent \in KnownIds
  BY DEF ShapeInv, Tidy
<1>3. CASE Accept(u)
  <2>. DEFINE m == [my[u] EXCEPT !.new = used', !.halves = Halves]
  <2>1. used' = used + 1 /\ Moves(u, "halves", m) /\ used' > used
    BY <1>1, <1>3 DEF Accept, IInv, TypeOK
  <2>2. m.new = used' /\ m.kids = my[u].kids /\ m.doc = my[u].doc
    BY <1>1, OwnOK DEF Mine
  <2>. HIDE DEF m
  <2>3. Only(u) /\ my'[u] = m /\ UNCHANGED <<call, client>>
    BY <1>1, <2>1, MovesOnly DEF Moves
  <2>4. my'[u].new > used /\ used' \in {used, used + 1}
    BY <2>1, <2>2, <2>3
  <2>. QED
    BY <1>1, <1>2, <2>2, <2>3, <2>4, OnwardShape
<1>4. CASE Delete(u)
  <2>. DEFINE m == [my[u] EXCEPT !.halves = Halves]
  <2>1. Moves(u, "halves", m) /\ used' = used /\ call[u].name = "delete"
    BY <1>4 DEF Delete, Unplaced, Gathered
  <2>2. m.kids = my[u].kids /\ m.doc = my[u].doc
    BY <1>1, OwnOK DEF Mine
  <2>. HIDE DEF m
  <2>3. Only(u) /\ my'[u] = m /\ UNCHANGED <<call, client>>
    BY <1>1, <2>1, MovesOnly DEF Moves
  <2>4. ~Coming(u)'
    BY <2>1, <2>3 DEF Coming
  <2>. QED
    BY <1>1, <1>2, <2>1, <2>2, <2>3, <2>4, OnwardShape
<1>. QED
  BY <1>3, <1>4

-----------------------------------------------------------------------------
(* The steps that change the tree *)

\* Who does not see the tree change has nothing to be told of.
LEMMA PlacedShape ==
    ASSUME IInv, NEW u \in Users, Placed(u)
    PROVE  /\ stale'[u] = stale[u]
           /\ \A v \in Users \ {u} : "page" \in stale'[v] \/ (stale'[v] = stale[v] /\ SameShape)
<1>1. CASE \A f \in Ids : /\ (rows'[f] = Undef) = (rows[f] = Undef)
                          /\ rows[f] # Undef => rows'[f].parent = rows[f].parent
  BY <1>1 DEF Placed, SameShape
<1>2. CASE ~\A f \in Ids : /\ (rows'[f] = Undef) = (rows[f] = Undef)
                           /\ rows[f] # Undef => rows'[f].parent = rows[f].parent
  BY <1>2 DEF Placed, IInv, TypeOK
<1>. QED
  BY <1>1, <1>2

\* A request that neither lists nor drops anything comes from a page that is waiting for
\* its end.
LEMMA DoingSound ==
    ASSUME ShapeInv, NEW u \in Users, ~Idle(u), call[u].name \notin {"children", "insertChild"},
           UNCHANGED <<call, client>>
    PROVE  Sound(u)' /\ Waits(u)'
<1>1. stage[u] = "doing"
  BY DEF ShapeInv, Waits, TreeInv, IInv, TypeOK, Stages
<1>. QED
  BY <1>1 DEF client, Sound, Waits

\* A row is added, for an id that no file has had.
LEMMA AddedShape ==
    ASSUME ShapeInv, TreeInv', NEW u \in Users, ~Idle(u), Only(u),
           UNCHANGED <<call, client, crossed>>, Placed(u),
           call[u].name \notin {"children", "insertChild"},
           my'[u].kids \subseteq my[u].kids, my'[u].doc = my[u].doc,
           used' \in {used, used + 1}, ~Coming(u)',
           NEW k \in Ids \ KnownIds, k <= used', \A v \in Users \ {u} : Coming(v) => my[v].new # k,
           NEW row \in Rows, rows' = [rows EXCEPT ![k] = row], row.parent \in KnownIds
    PROVE  ShapeInv'
<1>1. IInv /\ KnownIds \subseteq KnownIds'
  BY KnownGrows DEF ShapeInv, TreeInv
<1>2. k \in KnownIds'
  BY DEF KnownIds, Nodes, Only, Coming
<1>3. \A f \in Ids : f # k => rows'[f] = rows[f]
  BY <1>1 DEF IInv, TypeOK
<1>4. rows'[k] = row
  BY <1>1 DEF IInv, TypeOK
<1>5. \A f \in Ids : rows'[f] # Undef => f \in KnownIds' /\ rows'[f].parent \in KnownIds'
  BY <1>1, <1>2, <1>3, <1>4 DEF ShapeInv
<1>6. ~crossed => Acyclic'
  BY <1>1, AcyclicAdded DEF ShapeInv, Lies
<1>7. Tidy(u)'
  BY <1>1 DEF ShapeInv, Tidy, client
<1>. QED
  BY <1>1, <1>5, <1>6, <1>7, DoingSound, PlacedShape, ShapeStep DEF client

LEMMA CreateFolderShape ==
    ASSUME ShapeInv, NEW u \in Users, CreateFolder(u)
    PROVE  ShapeInv'
<1>1. /\ TreeInv' /\ IInv /\ ~Idle(u) /\ crossed' = crossed
      /\ call[u].name = "createFolder"
  BY CreateFolderTree DEF ShapeInv, TreeInv, CreateFolder, Gathered, Idle, Unplaced, ghost
<1>2. CASE Answered(u, FALSE) /\ Unplaced
  BY <1>1, <1>2, AnsweredShape DEF Unplaced, ghost
<1>3. CASE ~(Answered(u, FALSE) /\ Unplaced)
  <2>. DEFINE row == [parent |-> call[u].file, name |-> call[u].info, folder |-> TRUE]
              m == [my[u] EXCEPT !.at = call[u].file]
  <2>1. /\ used < MaxId /\ used' = used + 1
        /\ rows' = [rows EXCEPT ![used'] = row]
        /\ Moves(u, "path", m) /\ Placed(u)
    BY <1>3 DEF CreateFolder
  <2>2. row \in Rows /\ row.parent = call[u].file
    BY <1>1, OwnOK DEF Rows
  <2>3. m.kids = my[u].kids /\ m.doc = my[u].doc
    BY <1>1, OwnOK DEF Mine
  <2>. HIDE DEF row, m
  <2>4. Only(u) /\ pc'[u] = "path" /\ my'[u] = m /\ UNCHANGED <<call, client>>
    BY <1>1, <2>1, MovesOnly DEF Moves
  <2>5. PICK k : k = used'
    OBVIOUS
  <2>6. k \in Ids /\ ~(k <= used) /\ k <= used' /\ used' \in {used, used + 1}
    BY <1>1, <2>1, <2>5, NextId DEF IInv, TypeOK, Ids
  <2>7. k \notin KnownIds
    BY <2>6 DEF KnownIds
  <2>8. \A v \in Users : Coming(v) => my[v].new # k
    BY <2>6 DEF ShapeInv, TreeInv, PlacesFree
  <2>9. row.parent \in KnownIds
    BY <2>2 DEF ShapeInv, Tidy
  <2>10. ~Coming(u)'
    BY <2>4 DEF Coming
  <2>11. rows' = [rows EXCEPT ![k] = row] /\ call[u].name \notin {"children", "insertChild"}
    BY <1>1, <2>1, <2>5
  <2>12. my'[u].kids \subseteq my[u].kids /\ my'[u].doc = my[u].doc /\ k \in Ids \ KnownIds
    BY <2>3, <2>4, <2>6, <2>7
  <2>. QED
    BY <1>1, <2>1, <2>2, <2>4, <2>6, <2>8, <2>9, <2>10, <2>11, <2>12, AddedShape
<1>. QED
  BY <1>2, <1>3

\* A half of an upload or of a delete that is done.
LEMMA HalfDoneKeeps ==
    ASSUME IInv, NEW u \in Users, pc[u] = "halves", NEW h, NEW ok, HalfDone(u, h, ok)
    PROVE  /\ Only(u) /\ UNCHANGED <<call, client>>
           /\ my'[u].new = my[u].new /\ my'[u].doc = my[u].doc /\ my'[u].kids = my[u].kids
           /\ Coming(u)' => Coming(u) /\ h # "row"
<1>. DEFINE m == [my[u] EXCEPT !.halves = @ \ {h}, !.ok = @ /\ ok]
<1>1. Moves(u, "halves", m)
  BY DEF HalfDone
<1>2. m.halves = my[u].halves \ {h} /\ m.new = my[u].new /\ m.doc = my[u].doc /\ m.kids = my[u].kids
  BY OwnOK DEF Mine
<1>. HIDE DEF m
<1>3. Only(u) /\ pc'[u] = "halves" /\ my'[u] = m /\ UNCHANGED <<call, client>>
  BY <1>1, MovesOnly DEF Moves
<1>. QED
  BY <1>2, <1>3 DEF Coming

LEMMA HalfShape ==
    ASSUME ShapeInv, NEW u \in Users,
           AddRow(u) \/ WriteBytes(u) \/ RemoveRow(u) \/ Unlink(u)
    PROVE  ShapeInv'
<1>1. /\ TreeInv' /\ IInv /\ pc[u] = "halves" /\ ~Idle(u) /\ UNCHANGED <<used, crossed>>
  BY HalfTree DEF ShapeInv, TreeInv, AddRow, WriteBytes, RemoveRow, Unlink, Half, ghost, Idle
<1>2. PICK h, ok : HalfDone(u, h, ok) /\ (AddRow(u) => h = "row")
  BY DEF AddRow, WriteBytes, RemoveRow, Unlink
<1>3. /\ Only(u) /\ UNCHANGED <<call, client>>
      /\ my'[u].new = my[u].new /\ my'[u].doc = my[u].doc /\ my'[u].kids = my[u].kids
      /\ Coming(u)' => Coming(u) /\ h # "row"
  BY <1>1, <1>2, HalfDoneKeeps
<1>4. my[u].doc.parent \in KnownIds
  BY DEF ShapeInv, Tidy
<1>5. CASE WriteBytes(u) \/ Unlink(u)
  <2>1. rows' = rows /\ stale' = stale
    BY <1>5 DEF WriteBytes, Unlink, ghost
  <2>. QED
    BY <1>1, <1>3, <1>4, <2>1, OnwardShape
<1>6. CASE AddRow(u) /\ rows' = [rows EXCEPT ![my[u].new] = NewRow(u)]
  <2>. DEFINE row == NewRow(u)
  <2>1. row \in Rows /\ row.parent = call[u].file
    BY <1>1, OwnOK DEF NewRow, Rows
  <2>2. row.parent \in KnownIds
    BY <2>1 DEF ShapeInv, Tidy
  <2>3. PICK k : k = my[u].new
    OBVIOUS
  <2>4. Coming(u) /\ call[u].name = "upload" /\ Placed(u)
    BY <1>1, <1>6 DEF AddRow, Half, Coming
  <2>5. /\ k \in Ids \ KnownIds /\ k <= used'
        /\ \A v \in Users \ {u} : Coming(v) => my[v].new # k
    BY <1>1, <2>3, <2>4 DEF ShapeInv, TreeInv, PlacesFree, KnownIds, IInv, Control, Coming,
       Halves
  <2>6. ~Coming(u)'
    BY <1>2, <1>3, <1>6
  <2>7. rows' = [rows EXCEPT ![k] = row]
    BY <1>6, <2>3
  <2>. HIDE DEF row
  <2>. QED
    BY <1>1, <1>3, <2>1, <2>2, <2>4, <2>5, <2>6, <2>7, AddedShape
<1>7. CASE Placed(u) /\ rows' = rows
  <2>1. stale' = stale
    BY <1>7 DEF Placed
  <2>. QED
    BY <1>1, <1>3, <1>4, <1>7, <2>1, OnwardShape
<1>8. CASE RemoveRow(u) /\ rows' = [rows EXCEPT ![call[u].file] = Undef]
  <2>1. call[u].name = "delete" /\ Placed(u)
    BY <1>8 DEF RemoveRow
  <2>2. call[u].file \in Ids
    BY <1>1, <2>1 DEF IInv, Control, Changes
  <2>3. KnownIds \subseteq KnownIds'
    BY <1>1, <1>3, KnownGrows DEF ShapeInv
  <2>4. \A f \in Ids : rows'[f] # Undef => rows'[f] = rows[f]
    BY <1>1, <1>8, <2>2 DEF IInv, TypeOK
  <2>5. \A f \in Ids : rows'[f] # Undef => f \in KnownIds' /\ rows'[f].parent \in KnownIds'
    BY <2>3, <2>4 DEF ShapeInv
  <2>6. ~crossed => Acyclic'
    BY <1>1, <1>8, <2>2, AcyclicRemoved DEF ShapeInv
  <2>7. Tidy(u)'
    BY <1>3, <2>3 DEF ShapeInv, Tidy, client
  <2>8. stage' = stage /\ page' = page
    BY <1>3 DEF client
  <2>9. Sound(u)' /\ Waits(u)'
    BY <1>1, <1>3, <2>1, DoingSound
  <2>10. /\ \A v \in Users \ {u} : "page" \in stale'[v] \/ (stale'[v] = stale[v] /\ SameShape)
         /\ used' \in {used, used + 1}
    BY <1>1, <2>1, PlacedShape
  <2>. QED
    BY <1>1, <1>3, <2>5, <2>6, <2>7, <2>8, <2>9, <2>10, ShapeStep
<1>. QED
  BY <1>5, <1>6, <1>7, <1>8 DEF AddRow, RemoveRow

LEMMA BreaksOffShape ==
    ASSUME ShapeInv, NEW u \in Users, BreaksOff(u)
    PROVE  ShapeInv'
<1>1. IInv /\ TreeInv' /\ rows' = rows /\ ~Idle(u)
  BY BreaksOffTree DEF ShapeInv, TreeInv, BreaksOff, Half, Idle
<1>2. /\ Only(u) /\ UNCHANGED <<used, call, client, stale, crossed>>
      /\ my'[u].kids = {} \/ my'[u].kids = my[u].kids
      /\ my'[u].doc = NoDoc \/ my'[u].doc = my[u].doc
  BY <1>1, BreaksOffOnly DEF ghost
<1>3. Coming(u)' => Coming(u) /\ my'[u].new = my[u].new
  BY <1>1, BreaksOffOnly DEF Coming
<1>4. my[u].doc.parent \in KnownIds /\ NoDoc.parent \in KnownIds
  BY RootKnown DEF ShapeInv, Tidy, NoDoc
<1>. QED
  BY <1>1, <1>2, <1>3, <1>4, OnwardShape

\* Where nobody has a request, what is known remains so.
LEMMA WorkerEndsShape ==
    ASSUME ShapeInv, WorkerEnds
    PROVE  ShapeInv'
<1>1. IInv /\ TreeInv' /\ rows' = rows
  BY WorkerEndsTree DEF ShapeInv, TreeInv
<1>2. /\ UNCHANGED <<used, call, stage, page, stale, crossed>>
      /\ \A u \in Users : Idle(u)' /\ ~Coming(u)'
  BY <1>1, WorkerEndsAll DEF Idle, Coming
<1>3. KnownIds \subseteq KnownIds'
  BY <1>2 DEF KnownIds
<1>4. ASSUME NEW u \in Users
      PROVE  /\ my'[u].kids = {} \/ my'[u].kids = my[u].kids
             /\ my'[u].doc.parent \in KnownIds
  <2>1. my[u].doc.parent \in KnownIds /\ Root \in KnownIds
    BY RootKnown DEF ShapeInv, Tidy
  <2>2. CASE Idle(u)
    BY <1>1, <2>1, <2>2, WorkerEndsAll
  <2>3. CASE ~Idle(u)
    <3>1. my'[u] = [Blank EXCEPT !.ok = FALSE]
      BY <1>1, <2>3, WorkerEndsAll
    <3>. QED
      BY <2>1, <3>1 DEF Blank, NoDoc
  <2>. QED
    BY <2>2, <2>3
<1>5. ASSUME NEW u \in Users PROVE Tidy(u)' /\ Waits(u)'
  <2>1. Tidy(u)'
    BY <1>2, <1>3, <1>4 DEF ShapeInv, Tidy
  <2>. QED
    BY <1>2, <2>1 DEF ShapeInv, Waits
<1>6. SameShape
  BY <1>1 DEF SameShape
<1>7. ASSUME NEW u \in Users, Sound(u) PROVE Sound(u)'
  BY <1>2, <1>4, <1>6, <1>7, SameLies DEF Sound
<1>8. Acyclic => Acyclic'
  BY <1>6, SameLies
<1>9. \A f \in Ids : rows'[f] # Undef => f \in KnownIds' /\ rows'[f].parent \in KnownIds'
  BY <1>1, <1>3 DEF ShapeInv
<1>. QED
  BY <1>1, <1>2, <1>5, <1>7, <1>8, <1>9 DEF ShapeInv

\* A drop from a page that is up to date puts a file into one beside it, or out of its
\* folder to where that lies.
LEMMA SaveShape ==
    ASSUME ShapeInv, NEW u \in Users, Save(u)
    PROVE  ShapeInv'
<1>1. TreeInv' /\ IInv /\ ~Idle(u) /\ used' = used /\ pc[u] = "read"
  BY SaveTree DEF ShapeInv, TreeInv, Save, Gathered, Unplaced, Idle
<1>2. PICK ok : Answered(u, ok)
  BY DEF Save
<1>3. /\ Only(u) /\ pc'[u] = "home" /\ UNCHANGED <<call, client>>
      /\ my'[u].kids = my[u].kids /\ my'[u].doc = NoDoc
  BY <1>1, <1>2, AnsweredOnly, AnsweredKids
<1>4. CASE rows' = rows
  <2>1. stale' = stale /\ crossed' = crossed
    BY <1>1, <1>4 DEF Save, Unplaced, ghost, Placed, IInv, TypeOK
  <2>. QED
    BY <1>1, <1>2, <1>4, <2>1, AnsweredShape
<1>5. CASE rows' # rows
  <2>1. PICK k : k = call[u].file
    OBVIOUS
  <2>2. PICK row : row = Changed(u)
    OBVIOUS
  <2>3. /\ IsRow(k) /\ rows' = [rows EXCEPT ![k] = row] /\ Placed(u)
        /\ call[u].name \in {"setInfo", "insertChild", "removeChild"}
        /\ crossed' <=> \/ crossed
                        \/ /\ rows'[k].parent # rows[k].parent
                           /\ "page" \in stale[u] \/ call[u].name = "setInfo"
    BY <1>1, <1>5, <2>1, <2>2 DEF Save, Unplaced, Gathered
  <2>4. k \in Ids /\ rows[k] # Undef
    BY <1>1, <2>1, <2>3, OwnOK, NodesOK DEF IInv, IsRow
  <2>5. /\ row \in Rows
        /\ call[u].name = "setInfo" => row.parent = my[u].doc.parent
        /\ call[u].name = "insertChild" => row.parent = call[u].to
        /\ call[u].name = "removeChild" => row.parent = Root
    BY <1>1, <2>2, <2>3, OwnOK DEF Changed, Rows, Nodes
  <2>6. row.parent \in KnownIds
    BY <2>3, <2>5, RootKnown DEF ShapeInv, Tidy
  <2>7. /\ \A f \in Ids \ {k} : rows'[f] = rows[f]
        /\ rows'[k] = row
    BY <1>1, <2>3, <2>4 DEF IInv, TypeOK
  <2>8. KnownIds \subseteq KnownIds' /\ ~Coming(u)'
    BY <1>1, <1>3, KnownGrows DEF ShapeInv, Coming
  <2>9. \A f \in Ids : rows'[f] # Undef => f \in KnownIds' /\ rows'[f].parent \in KnownIds'
    BY <2>4, <2>6, <2>7, <2>8 DEF ShapeInv
  <2>10. stage' = stage /\ page' = page
    BY <1>3 DEF client
  <2>11. Tidy(u)' /\ Waits(u)'
    <3>1. NoDoc.parent = Root
      BY DEF NoDoc
    <3>2. Tidy(u)'
      BY <1>3, <2>8, <2>10, <3>1, RootKnown DEF ShapeInv, Tidy
    <3>3. Waits(u)'
      BY <1>3, <2>10 DEF ShapeInv, Waits, Idle
    <3>. QED
      BY <3>2, <3>3
  <2>12. stage[u] \in {"doing", "moving"} /\ (stage[u] = "moving" => call[u].name = "insertChild")
    BY <1>1, <2>3 DEF ShapeInv, Waits, IInv, TypeOK, Stages
  <2>13. ASSUME ~crossed, "page" \notin stale[u], call[u].name = "insertChild"
         PROVE  \E d \in Nodes : \/ Lies(k, d) /\ Lies(row.parent, d) /\ row.parent # k
                                 \/ Lies(k, d) /\ Lies(d, row.parent)
    <3>1. Sound(u)
      BY <2>13 DEF ShapeInv
    <3>2. CASE stage[u] = "doing"
      BY <1>1, <2>1, <2>5, <2>13, <3>1, <3>2 DEF Sound
    <3>3. CASE stage[u] = "moving"
      <4>1. page[u].folder \in Nodes
        BY <1>1 DEF IInv, TypeOK, Pages
      <4>. QED
        BY <1>1, <2>1, <2>5, <2>13, <3>1, <3>3, <4>1 DEF Sound
    <3>. QED
      BY <2>12, <3>2, <3>3
  <2>14. ASSUME ~crossed, ~crossed' PROVE Acyclic'
    <3>1. Acyclic /\ Root \in Nodes
      BY <2>14 DEF ShapeInv, Nodes
    <3>2. CASE row.parent = rows[k].parent
      BY <1>1, <2>3, <2>4, <2>5, <3>1, <3>2, AcyclicMoved DEF Lies
    <3>3. CASE row.parent # rows[k].parent
      <4>1. "page" \notin stale[u] /\ call[u].name # "setInfo"
        BY <2>3, <2>7, <2>14, <3>3
      <4>2. CASE call[u].name = "removeChild"
        BY <1>1, <2>3, <2>4, <2>5, <3>1, <4>2, AcyclicMoved
      <4>3. CASE call[u].name = "insertChild"
        BY <1>1, <2>3, <2>4, <2>5, <2>13, <2>14, <3>1, <4>1, <4>3, AcyclicMoved
      <4>. QED
        BY <2>3, <4>1, <4>2, <4>3
    <3>. QED
      BY <3>2, <3>3
  <2>15. ASSUME ~crossed, "page" \notin stale[u] PROVE Sound(u)'
    <3>1. Sound(u) /\ Acyclic
      BY <2>15 DEF ShapeInv
    <3>2. CASE stage[u] = "doing"
      BY <1>3, <2>10, <3>2 DEF Sound, Idle
    <3>3. CASE stage[u] = "moving"
      <4>1. /\ Lies(k, page[u].folder) /\ Lies(page[u].folder, page[u].at)
            /\ k \notin page[u].todo /\ \A f \in page[u].todo : Lies(f, page[u].folder)
        BY <1>1, <2>1, <3>1, <3>3 DEF Sound
      <4>2. k # page[u].folder
        <5>1. Lies(k, k) => Up(k) = k
          BY DriveOK DEF Lies, Up, IsRow, Ids, Root
        <5>2. {k} \in SUBSET Ids /\ {k} # {}
          BY <2>4
        <5>. QED
          BY <3>1, <4>1, <5>1, <5>2 DEF Acyclic
      <4>3. \A f, g : f # k /\ Lies(f, g) => Lies(f, g)'
        BY <2>7 DEF Lies
      <4>. QED
        BY <1>3, <2>10, <3>3, <4>1, <4>2, <4>3 DEF Sound, Idle
    <3>. QED
      BY <2>12, <3>2, <3>3
  <2>16. /\ stale'[u] = stale[u]
         /\ \A v \in Users \ {u} : "page" \in stale'[v] \/ (stale'[v] = stale[v] /\ SameShape)
         /\ used' \in {used, used + 1}
         /\ crossed => crossed'
    BY <1>1, <2>3, PlacedShape
  <2>17. ~crossed /\ ~crossed' => Acyclic' /\ ("page" \in stale'[u] \/ Sound(u)')
    BY <2>14, <2>15, <2>16
  <2>. QED
    BY <1>1, <1>3, <2>8, <2>9, <2>10, <2>11, <2>16, <2>17, ShapeStep
<1>. QED
  BY <1>4, <1>5

-----------------------------------------------------------------------------
(* The pages *)

\* A page asks for something, or goes on; no file changes.
LEMMA PageShape ==
    ASSUME ShapeInv, TreeInv', NEW u \in Users, Only(u),
           UNCHANGED <<rows, used, stale, crossed>>, pc'[u] \in {"home", "door"},
           \A v \in Users \ {u} : stage'[v] = stage[v] /\ page'[v] = page[v],
           {call'[u].file, call'[u].to, page'[u].at, page'[u].folder} \subseteq KnownIds,
           my'[u].kids = {}, my'[u].doc = NoDoc,
           \A x \in page'[u].seen : x[1] \in KnownIds, page'[u].todo \subseteq KnownIds,
           Waits(u)', ~crossed /\ "page" \notin stale[u] /\ Sound(u) => Sound(u)'
    PROVE  ShapeInv'
<1>1. KnownIds \subseteq KnownIds' /\ ~Coming(u)'
  BY KnownGrows DEF ShapeInv, Coming
<1>2. NoDoc.parent \in KnownIds
  BY RootKnown DEF ShapeInv, NoDoc
<1>3. Tidy(u)'
  BY <1>1, <1>2 DEF Tidy
<1>4. SameShape
  BY DEF SameShape
<1>5. Acyclic => Acyclic'
  BY <1>4, SameLies
<1>6. \A f \in Ids : rows'[f] # Undef => f \in KnownIds' /\ rows'[f].parent \in KnownIds'
  BY <1>1 DEF ShapeInv
<1>. QED
  BY <1>1, <1>3, <1>4, <1>5, <1>6, ShapeStep DEF ShapeInv

LEMMA AsksShape ==
    ASSUME IInv, NEW u \in Users, NEW c, Asks(u, c)
    PROVE  /\ Only(u) /\ UNCHANGED <<rows, used>> /\ pc'[u] = "door" /\ call'[u] = c
           /\ my'[u].kids = {} /\ my'[u].doc = NoDoc
<1>1. my'[u] = [Blank EXCEPT !.want = Wanted(c)]
  BY DEF Asks, IInv, TypeOK
<1>. QED
  BY <1>1 DEF Asks, Only, IInv, TypeOK, Blank, store

LEMMA HomeShape ==
    ASSUME IInv, NEW u \in Users, Idle(u), NEW s, NEW p, Home(u, s, p)
    PROVE  /\ Only(u) /\ UNCHANGED <<rows, used, stale, crossed, call>> /\ pc'[u] = "home"
           /\ my'[u].kids = {} /\ my'[u].doc = NoDoc
           /\ stage'[u] = s /\ page'[u] = p
           /\ \A v \in Users \ {u} : stage'[v] = stage[v] /\ page'[v] = page[v]
<1>1. my'[u] = [Blank EXCEPT !.ok = FALSE]
  BY DEF Home, IInv, TypeOK
<1>2. /\ stage'[u] = s /\ page'[u] = p
      /\ \A v \in Users \ {u} : stage'[v] = stage[v] /\ page'[v] = page[v]
  BY DEF Home, Stage, IInv, TypeOK
<1>. QED
  BY <1>1, <1>2 DEF Home, Only, IInv, TypeOK, Blank, store, pool, ghost, Idle

LEMMA StageShape ==
    ASSUME IInv, NEW u \in Users, NEW s, NEW p, Stage(u, s, p)
    PROVE  /\ stage'[u] = s /\ page'[u] = p
           /\ \A v \in Users \ {u} : stage'[v] = stage[v] /\ page'[v] = page[v]
BY DEF Stage, IInv, TypeOK

\* Nothing is asked for but what the page shows; a drop is on a folder beside the file.
LEMMA ChoicesShape ==
    ASSUME NEW u \in Users, NEW c \in Choices(u)
    PROVE  /\ c.name # "children"
           /\ {c.file, c.to} \subseteq {Root, page[u].at} \union {x[1] : x \in page[u].seen}
           /\ c.name = "insertChild" =>
                 c.file # c.to /\ {c.file, c.to} \subseteq {x[1] : x \in page[u].seen}
<1>. DEFINE seen == {x[1] : x \in page[u].seen}
            folders == {x[1] : x \in {x \in page[u].seen : x[2]}}
<1>1. folders \subseteq seen
  OBVIOUS
<1>2. \/ \E name \in Creators, info \in Names : c = Call(name, page[u].at, Root, info)
      \/ \E k \in seen, info \in Names : c = Call("setInfo", k, Root, info)
      \/ \E k \in seen \X folders : k[1] # k[2] /\ c = Call("insertChild", k[1], k[2], NoDoc.name)
      \/ \E k \in seen : c = Call("removeChild", k, page[u].at, NoDoc.name)
      \/ \E k \in seen \ folders : c = Plain("delete", k)
      \/ \E k \in seen : c = Plain("get", k)
  BY DEF Choices
<1>. HIDE DEF seen, folders
<1>3. CASE \E name \in Creators, info \in Names : c = Call(name, page[u].at, Root, info)
  BY <1>3 DEF Call, Creators
<1>4. CASE \E k \in seen, info \in Names : c = Call("setInfo", k, Root, info)
  BY <1>4 DEF Call, seen
<1>5. CASE \E k \in seen \X folders : k[1] # k[2] /\ c = Call("insertChild", k[1], k[2], NoDoc.name)
  <2>1. PICK k \in seen \X folders : k[1] # k[2] /\ c = Call("insertChild", k[1], k[2], NoDoc.name)
    BY <1>5
  <2>2. k[1] \in seen /\ k[2] \in seen
    BY <1>1
  <2>3. c.name = "insertChild" /\ c.file = k[1] /\ c.to = k[2]
    BY <2>1 DEF Call
  <2>. QED
    BY <2>1, <2>2, <2>3 DEF seen
<1>6. CASE \E k \in seen : c = Call("removeChild", k, page[u].at, NoDoc.name)
  BY <1>6 DEF Call, seen
<1>7. CASE \E k \in seen : c = Plain("delete", k) \/ c = Plain("get", k)
  BY <1>7 DEF Call, Plain, seen
<1>. QED
  BY <1>2, <1>3, <1>4, <1>5, <1>6, <1>7

\* A page asks for c.
LEMMA AskedShape ==
    ASSUME ShapeInv, TreeInv', NEW u \in Users, NEW c, NEW s, NEW p, Asks(u, c), Stage(u, s, p),
           stale' = stale, crossed' = crossed,
           {c.file, c.to, p.at, p.folder} \subseteq KnownIds,
           \A x \in p.seen : x[1] \in KnownIds, p.todo \subseteq KnownIds,
           s \in {"listing", "kids", "doing", "moving"},
           s \in {"listing", "kids"} => c.name = "children",
           s = "moving" => c.name = "insertChild",
           ~crossed /\ "page" \notin stale[u] /\ Sound(u) =>
              /\ s = "doing" /\ c.name = "insertChild" =>
                    c.file # c.to /\ \E d \in Nodes : Lies(c.file, d) /\ Lies(c.to, d)
              /\ s = "kids" => Lies(p.folder, p.at) /\ c.file = p.folder
              /\ s = "moving" =>
                    /\ Lies(p.folder, p.at) /\ Lies(c.file, p.folder)
                    /\ c.to = p.at /\ c.file \notin p.todo
                    /\ \A k \in p.todo : Lies(k, p.folder)
    PROVE  ShapeInv'
<1>1. IInv
  BY DEF ShapeInv, TreeInv
<1>2. /\ Only(u) /\ UNCHANGED <<rows, used>> /\ pc'[u] = "door" /\ call'[u] = c
      /\ my'[u].kids = {} /\ my'[u].doc = NoDoc
  BY <1>1, AsksShape
<1>3. /\ stage'[u] = s /\ page'[u] = p
      /\ \A v \in Users \ {u} : stage'[v] = stage[v] /\ page'[v] = page[v]
  BY <1>1, StageShape
<1>4. Waits(u)'
  BY <1>2, <1>3 DEF Waits
<1>5. \A k, f : Lies(k, f)' <=> Lies(k, f)
  BY <1>2 DEF Lies
<1>6. ~crossed /\ "page" \notin stale[u] /\ Sound(u) => Sound(u)'
  BY <1>2, <1>3, <1>5 DEF Sound
<1>. QED
  BY <1>2, <1>3, <1>4, <1>6, PageShape

LEMMA ActShape ==
    ASSUME ShapeInv, NEW u \in Users, Act(u)
    PROVE  ShapeInv'
<1>1. /\ TreeInv' /\ IInv /\ Idle(u) /\ pc[u] = "home"
  BY ActTree DEF ShapeInv, TreeInv, Act, Visit, Shown, Choose, Leave, Unfold, Kids, MoveKid,
     Unfolded, Idle
<1>2. /\ {call[u].file, call[u].to, page[u].at, page[u].folder} \subseteq KnownIds
      /\ \A x \in my[u].kids : x[1] \in KnownIds
      /\ \A x \in page[u].seen : x[1] \in KnownIds
      /\ page[u].todo \subseteq KnownIds /\ Root \in KnownIds
  BY RootKnown DEF ShapeInv, Tidy
<1>3. NoPage.at = Root /\ NoPage.folder = Root /\ NoPage.seen = {} /\ NoPage.todo = {}
  BY DEF NoPage
<1>4. \A name, f : Plain(name, f).name = name /\ Plain(name, f).file = f /\ Plain(name, f).to = Root
  BY DEF Plain, Call
<1>5. page[u] \in Pages /\ my[u] \in Mine
  BY <1>1 DEF IInv, TypeOK
<1>6. CASE Visit(u)
  <2>1. PICK f \in {Root} \union {k \in Ids : IsRow(k) /\ rows[k].folder} : Asks(u, Plain("children", f))
    BY <1>6 DEF Visit
  <2>2. f \in KnownIds
    BY <1>2 DEF IsRow, ShapeInv
  <2>3. Stage(u, "listing", NoPage) /\ stale' = stale /\ crossed' = crossed
    BY <1>6 DEF Visit, ghost
  <2>4. PICK c : c = Plain("children", f)
    OBVIOUS
  <2>5. c.file = f /\ c.to = Root /\ c.name = "children" /\ Asks(u, c)
    BY <1>4, <2>1, <2>4
  <2>. QED
    BY <1>1, <1>2, <1>3, <2>2, <2>3, <2>5, AskedShape
<1>7. CASE Choose(u)
  <2>1. PICK c \in Choices(u) : Asks(u, c)
    BY <1>7 DEF Choose
  <2>2. /\ stage[u] = "page" /\ Stage(u, "doing", page[u]) /\ stale' = stale /\ crossed' = crossed
    BY <1>7 DEF Choose, ghost
  <2>3. {c.file, c.to} \subseteq KnownIds
    BY <1>2, ChoicesShape
  <2>4. ASSUME Sound(u), c.name = "insertChild"
        PROVE  c.file # c.to /\ \E d \in Nodes : Lies(c.file, d) /\ Lies(c.to, d)
    <3>1. page[u].at \in Nodes
      BY <1>5 DEF Pages
    <3>2. c.file # c.to /\ {c.file, c.to} \subseteq {x[1] : x \in page[u].seen}
      BY <2>4, ChoicesShape
    <3>. QED
      BY <2>2, <2>4, <3>1, <3>2 DEF Sound
  <2>. QED
    BY <1>1, <1>2, <2>1, <2>2, <2>3, <2>4, AskedShape
<1>8. CASE Unfold(u)
  <2>1. PICK x \in page[u].seen : /\ Asks(u, Plain("children", x[1]))
                                  /\ Stage(u, "kids", [page[u] EXCEPT !.folder = x[1]])
    BY <1>8 DEF Unfold
  <2>2. PICK p : p = [page[u] EXCEPT !.folder = x[1]]
    OBVIOUS
  <2>3. p.at = page[u].at /\ p.folder = x[1] /\ p.seen = page[u].seen /\ p.todo = page[u].todo
    BY <1>5, <2>2 DEF Pages
  <2>4. stage[u] = "page" /\ stale' = stale /\ crossed' = crossed /\ x[1] \in KnownIds
    BY <1>2, <1>8 DEF Unfold, ghost
  <2>5. PICK c : c = Plain("children", x[1])
    OBVIOUS
  <2>6. c.file = x[1] /\ c.to = Root /\ c.name = "children" /\ Asks(u, c) /\ Stage(u, "kids", p)
    BY <1>4, <2>1, <2>2, <2>5
  <2>7. Sound(u) => Lies(p.folder, p.at)
    BY <2>3, <2>4 DEF Sound
  <2>. QED
    BY <1>1, <1>2, <2>3, <2>4, <2>6, <2>7, AskedShape
<1>9. CASE MoveKid(u)
  <2>1. PICK k \in page[u].todo :
            /\ Asks(u, Call("insertChild", k, page[u].at, NoDoc.name))
            /\ Stage(u, "moving", [page[u] EXCEPT !.todo = @ \ {k}, !.any = @ \/ my[u].ok])
    BY <1>9 DEF MoveKid
  <2>2. PICK p : p = [page[u] EXCEPT !.todo = @ \ {k}, !.any = @ \/ my[u].ok]
    OBVIOUS
  <2>3. /\ p.at = page[u].at /\ p.folder = page[u].folder /\ p.seen = page[u].seen
        /\ p.todo = page[u].todo \ {k}
    BY <1>5, <2>2 DEF Pages
  <2>4. stage[u] = "moving" /\ stale' = stale /\ crossed' = crossed
    BY <1>9 DEF MoveKid, ghost
  <2>5. PICK c : c = Call("insertChild", k, page[u].at, NoDoc.name)
    OBVIOUS
  <2>6. c.file = k /\ c.to = page[u].at /\ c.name = "insertChild" /\ Asks(u, c) /\ Stage(u, "moving", p)
    BY <2>1, <2>2, <2>5 DEF Call
  <2>7. Sound(u) => /\ Lies(p.folder, p.at) /\ Lies(c.file, p.folder)
                    /\ c.to = p.at /\ c.file \notin p.todo
                    /\ \A j \in p.todo : Lies(j, p.folder)
    BY <2>3, <2>4, <2>6 DEF Sound
  <2>. QED
    BY <1>1, <1>2, <2>3, <2>4, <2>6, <2>7, AskedShape
<1>10. CASE Unfolded(u)
  <2>1. /\ Asks(u, Plain("delete", page[u].folder)) /\ Stage(u, "doing", page[u])
        /\ stale' = stale /\ crossed' = crossed
    BY <1>10 DEF Unfolded, ghost
  <2>2. PICK c : c = Plain("delete", page[u].folder)
    OBVIOUS
  <2>3. c.file = page[u].folder /\ c.to = Root /\ c.name = "delete" /\ Asks(u, c)
    BY <1>4, <2>1, <2>2
  <2>. QED
    BY <1>1, <1>2, <2>1, <2>3, AskedShape
<1>11. ASSUME NEW s, NEW p, Home(u, s, p),
              s \in {"away", "page", "moving"},
              {p.at, p.folder} \subseteq KnownIds, \A x \in p.seen : x[1] \in KnownIds,
              p.todo \subseteq KnownIds,
              ~crossed /\ "page" \notin stale[u] /\ Sound(u) =>
                 /\ s = "page" => \A x \in p.seen : Lies(x[1], p.at)
                 /\ s = "moving" => Lies(p.folder, p.at) /\ \A k \in p.todo : Lies(k, p.folder)
       PROVE  ShapeInv'
  <2>1. /\ Only(u) /\ UNCHANGED <<rows, used, stale, crossed, call>> /\ pc'[u] = "home"
        /\ my'[u].kids = {} /\ my'[u].doc = NoDoc
        /\ stage'[u] = s /\ page'[u] = p
        /\ \A v \in Users \ {u} : stage'[v] = stage[v] /\ page'[v] = page[v]
    BY <1>1, <1>11, HomeShape
  <2>2. Waits(u)'
    BY <1>11, <2>1 DEF Waits, Idle
  <2>3. \A k, f : Lies(k, f)' <=> Lies(k, f)
    BY <2>1 DEF Lies
  <2>4. ~crossed /\ "page" \notin stale[u] /\ Sound(u) => Sound(u)'
    BY <1>11, <2>1, <2>3 DEF Sound, Idle
  <2>. QED
    BY <1>1, <1>2, <1>11, <2>1, <2>2, <2>4, PageShape
<1>12. CASE Home(u, "away", NoPage)
  BY <1>2, <1>3, <1>11, <1>12
<1>13. CASE Shown(u) /\ my[u].ok
  <2>1. PICK p : p = [NoPage EXCEPT !.at = call[u].file, !.seen = my[u].kids]
    OBVIOUS
  <2>2. p.at = call[u].file /\ p.folder = Root /\ p.seen = my[u].kids /\ p.todo = {}
    BY <2>1 DEF NoPage
  <2>3. Home(u, "page", p) /\ stage[u] = "listing"
    BY <1>13, <2>1 DEF Shown
  <2>4. Sound(u) => \A x \in p.seen : Lies(x[1], p.at)
    BY <2>2, <2>3 DEF Sound
  <2>. QED
    BY <1>2, <1>11, <2>2, <2>3, <2>4
<1>14. CASE Kids(u)
  <2>1. PICK p : p = [page[u] EXCEPT !.todo = {x[1] : x \in my[u].kids}]
    OBVIOUS
  <2>2. /\ p.at = page[u].at /\ p.folder = page[u].folder /\ p.seen = page[u].seen
        /\ p.todo = {x[1] : x \in my[u].kids}
    BY <1>5, <2>1 DEF Pages
  <2>3. Home(u, "moving", p) /\ stage[u] = "kids"
    BY <1>14, <2>1 DEF Kids
  <2>4. Sound(u) => Lies(p.folder, p.at) /\ \A k \in p.todo : Lies(k, p.folder)
    BY <2>2, <2>3 DEF Sound
  <2>. QED
    BY <1>2, <1>11, <2>2, <2>3, <2>4
<1>. QED
  BY <1>6, <1>7, <1>8, <1>9, <1>10, <1>12, <1>13, <1>14 DEF Act, Shown, Leave

LEMMA InitShape == Init => ShapeInv
<1>. SUFFICES ASSUME Init PROVE ShapeInv
  OBVIOUS
<1>1. TreeInv /\ IInv /\ rows \in First
  BY InitTree DEF TreeInv, Init
<1>2. \A u \in Users : Idle(u) /\ stage[u] = "away" /\ ~Coming(u)
  BY DEF Init, Coming, Idle
<1>3. ASSUME NEW f \in Ids, rows[f] # Undef PROVE f \in KnownIds /\ rows[f].parent \in KnownIds
  <2>1. rows[f].parent <= used
    BY <1>1, <1>3, FirstIsTree DEF Init
  <2>2. f \in Nat /\ used \in Nat /\ rows[f].parent \in Nodes
    BY <1>1, <1>3 DEF IInv, TypeOK, Ids, Rows
  <2>3. ~(f > used)
    BY <1>1, <1>3 DEF TreeInv, RestFree
  <2>. QED
    BY <1>2, <2>1, <2>2, <2>3 DEF KnownIds, Nodes
<1>4. Root \in KnownIds
  BY <1>1, RootKnown
<1>5. \A u \in Users : Tidy(u) /\ Waits(u) /\ Sound(u)
  <2>. SUFFICES ASSUME NEW u \in Users PROVE Tidy(u) /\ Waits(u) /\ Sound(u)
    OBVIOUS
  <2>1. /\ call[u].file = Root /\ call[u].to = Root /\ page[u] = NoPage
        /\ my[u] = [Blank EXCEPT !.ok = FALSE]
    BY DEF Init, Plain, Call
  <2>2. my[u].doc.parent = Root /\ my[u].kids = {}
    BY <2>1 DEF Blank, NoDoc
  <2>3. Tidy(u)
    BY <1>4, <2>1, <2>2 DEF Tidy, NoPage
  <2>. QED
    BY <1>2, <2>3 DEF Waits, Sound
<1>6. Acyclic
  <2>. SUFFICES ASSUME NEW s \in SUBSET Ids, s # {} PROVE \E f \in s : Up(f) \notin s
    BY DEF Acyclic
  <2>1. PICK f \in s : rows[f] = Undef \/ rows[f].parent \notin s
    BY <1>1, FirstIsTree
  <2>. QED
    BY <2>1, DriveOK DEF Up, IsRow, Ids, Root
<1>. QED
  BY <1>1, <1>3, <1>5, <1>6 DEF ShapeInv

LEMMA NextShape == ShapeInv /\ [Next]_vars => ShapeInv'
<1>1. ASSUME ShapeInv, UNCHANGED vars PROVE ShapeInv'
  <2>1. TreeInv'
    BY <1>1, NextTree DEF ShapeInv
  <2>2. UNCHANGED <<rows, used, pc, call, my, stage, page, stale, crossed>>
    BY <1>1 DEF vars
  <2>3. KnownIds' = KnownIds
    BY <2>2 DEF KnownIds, Coming
  <2>4. \A u \in Users : Tidy(u)' /\ Waits(u)'
    BY <1>1, <2>2, <2>3 DEF ShapeInv, Tidy, Waits, Idle
  <2>5. SameShape
    BY <2>2 DEF SameShape
  <2>6. \A u \in Users : Sound(u) => Sound(u)'
    BY <2>2, <2>5, SameLies DEF Sound, Idle
  <2>7. Acyclic => Acyclic'
    BY <2>5, SameLies
  <2>. QED
    BY <1>1, <2>1, <2>2, <2>3, <2>4, <2>6, <2>7 DEF ShapeInv
<1>2. ASSUME ShapeInv, NEW u \in Users, Serve(u) PROVE ShapeInv'
  BY <1>2, ReadShape, QueryShape, PathShape, CreateFolderShape, HalvesShape, HalfShape,
     BreaksOffShape, SaveShape DEF Serve
<1>. QED
  BY <1>1, <1>2, ActShape, WorkerEndsShape DEF Next, Rest

\* For any users, pages and drive: a folder comes to be over itself only when somebody
\* gave a place from a page that was out of date, or wrote back one read before.
THEOREM DriveStaysTree == Spec => []TreeShaped
<1>1. ShapeInv => TreeShaped
  BY ShapeEnough
<1>. QED
  BY <1>1, InitShape, NextShape, PTL DEF Spec

-----------------------------------------------------------------------------
(* What is left behind *)

IsDir(f) == f \in Ids /\ rows[f] # Undef => rows[f].folder
IsPlain(f) == f \in Ids /\ rows[f] # Undef => ~rows[f].folder

\* Files lie in folders, ...
RowsIn == \A f \in Ids : rows[f] # Undef => IsDir(rows[f].parent)

\* ... and pages and requests know which are folders, and put files into no others.
Kinds(u) ==
    /\ IsDir(page[u].at) /\ IsDir(call[u].to) /\ IsDir(my[u].doc.parent)
    /\ call[u].name \in {"children"} \union Creators => IsDir(call[u].file)
    /\ \A x \in my[u].kids \union page[u].seen : IF x[2] THEN IsDir(x[1]) ELSE IsPlain(x[1])

\* The requests of a page are those that its stage calls for.
Follows(u) ==
    /\ stage[u] = "kids" => call[u].file = page[u].folder
    /\ stage[u] = "moving" /\ ~Idle(u) => call[u].to = page[u].at
    /\ pc[u] \in {"door", "read"} => my[u].want \subseteq {call[u].file, call[u].to}
    /\ pc[u] = "path" => call[u].name \in {"children", "get", "upload", "createFolder"}
    /\ pc[u] = "halves" => call[u].name \in {"upload", "delete"}
    /\ pc[u] = "closed" => call[u].name = "upload"
    /\ "kids" \in stale[u] => "page" \in stale[u]

There(f) == f = Root \/ IsRow(f)
Firm(f) == f = Root \/ (IsRow(f) /\ rows[f].parent # f)

\* The listing that u has asked for has been made.
Listed(u) == pc[u] = "path" \/ (Idle(u) /\ my[u].ok)

Firsts(s) == {x[1] : x \in s}

\* Where nobody else has moved anything, the page of u shows a folder that is there, and
\* all that is in the one it deletes is listed, still to be moved, or moved already: out
\* of it, as it does not lie in itself.
Full(u) ==
    /\ stage[u] = "listing" =>
          /\ \A x \in my[u].kids : Lies(x[1], call[u].file)
          /\ Listed(u) => Firm(call[u].file) \/ (pc[u] = "path" /\ my[u].at = call[u].file)
    /\ stage[u] = "page" =>
          Firm(page[u].at) /\ \A x \in page[u].seen : Lies(x[1], page[u].at)
    /\ stage[u] \in {"kids", "moving"} => There(page[u].at) /\ page[u].folder # page[u].at
    /\ stage[u] = "kids" /\ Listed(u) => Children(page[u].folder) \subseteq Firsts(my[u].kids)
    /\ stage[u] = "moving" =>
          Children(page[u].folder)
              \subseteq page[u].todo \union (IF Idle(u) THEN {} ELSE {call[u].file})
    /\ stage[u] = "doing" /\ ~Idle(u) /\ call[u].name = "delete" =>
          IsPlain(call[u].file) \/ Children(call[u].file) = {}

Careful == Given.failing \intersect {"read", "query", "save"} = {}

StrandInv ==
    /\ ShapeInv /\ BytesInv /\ RowsIn
    /\ \A u \in Users : Kinds(u) /\ Follows(u)
    /\ Careful => \A u \in Users : stale[u] = {} => Full(u)

\* What is known to be a folder, or none, remains so.
KindKept ==
    \A f \in Ids \intersect KnownIds :
        rows'[f] # Undef => rows[f] # Undef /\ rows'[f].folder = rows[f].folder

LEMMA KindsKept ==
    ASSUME KindKept, NEW f \in KnownIds
    PROVE  (IsDir(f) => IsDir(f)') /\ (IsPlain(f) => IsPlain(f)')
BY DEF KindKept, IsDir, IsPlain

LEMMA RootDir == IsDir(Root) /\ IsDir(Root)'
BY DriveOK DEF IsDir, Root, Ids

\* The folders and places that do not change.
LEMMA SamePlaces ==
    ASSUME SameShape
    PROVE  /\ \A f : Children(f)' = Children(f)
           /\ \A f \in Nodes : (There(f) => There(f)') /\ (Firm(f) => Firm(f)')
<1>1. ASSUME NEW f PROVE Children(f)' = Children(f)
  BY DEF SameShape, Children
<1>2. ASSUME NEW f \in Nodes PROVE (There(f) => There(f)') /\ (Firm(f) => Firm(f)')
  BY DriveOK DEF SameShape, There, Firm, IsRow, Nodes
<1>. QED
  BY <1>1, <1>2

\* Who does not move, and sees nothing move.
LEMMA AsideFull ==
    ASSUME StrandInv, NEW v \in Users, SameShape, KindKept, Full(v),
           pc'[v] = pc[v], my'[v] = my[v], call'[v] = call[v],
           stage'[v] = stage[v], page'[v] = page[v]
    PROVE  Full(v)'
<1>1. call[v].file \in Nodes /\ page[v].at \in Nodes
  BY OwnOK DEF StrandInv, ShapeInv, TreeInv, IInv, TypeOK, Pages
<1>2. /\ Listed(v)' <=> Listed(v)
      /\ Idle(v)' <=> Idle(v)
  BY DEF Listed, Idle
<1>3. \A k, f : Lies(k, f)' <=> Lies(k, f)
  BY SameLies
<1>4. IsPlain(call[v].file) => IsPlain(call[v].file)'
  BY KindsKept DEF StrandInv, ShapeInv, Tidy
<1>5. /\ \A f : Children(f)' = Children(f)
      /\ \A f \in Nodes : (There(f) => There(f)') /\ (Firm(f) => Firm(f)')
  BY SamePlaces
<1>. QED
  BY <1>1, <1>2, <1>3, <1>4, <1>5 DEF Full

\* A step of u.
LEMMA StrandStep ==
    ASSUME StrandInv, ShapeInv', BytesInv', NEW u \in Users, Only(u), KindKept, RowsIn',
           \A v \in Users \ {u} : stage'[v] = stage[v] /\ page'[v] = page[v],
           \A v \in Users \ {u} : \/ stale'[v] = {"page", "kids"}
                                  \/ stale'[v] = stale[v] /\ SameShape,
           Kinds(u)', Follows(u)', Careful /\ stale'[u] = {} => Full(u)'
    PROVE  StrandInv'
<1>1. ASSUME NEW v \in Users \ {u} PROVE Kinds(v)'
  <2>1. Kinds(v) /\ Tidy(v)
    BY DEF StrandInv, ShapeInv
  <2>2. my'[v] = my[v] /\ call'[v] = call[v] /\ page'[v] = page[v]
    BY DEF Only
  <2>. QED
    BY <2>1, <2>2, KindsKept DEF Kinds, Tidy
<1>2. ASSUME NEW v \in Users \ {u} PROVE Follows(v)'
  <2>1. Follows(v)
    BY DEF StrandInv
  <2>2. /\ my'[v] = my[v] /\ call'[v] = call[v] /\ page'[v] = page[v]
        /\ pc'[v] = pc[v] /\ stage'[v] = stage[v]
    BY DEF Only
  <2>3. "kids" \in stale'[v] => "page" \in stale'[v]
    BY <2>1 DEF Follows
  <2>. QED
    BY <2>1, <2>2, <2>3 DEF Follows, Idle
<1>3. Careful' <=> Careful
  BY DEF Only, Careful, Given
<1>4. ASSUME NEW v \in Users \ {u}, Careful, stale'[v] = {} PROVE Full(v)'
  BY <1>4, AsideFull DEF StrandInv, Only
<1>. QED
  BY <1>1, <1>2, <1>3, <1>4 DEF StrandInv

\* No file changes.
LEMMA RowsStay ==
    ASSUME StrandInv, rows' = rows
    PROVE  KindKept /\ SameShape /\ RowsIn'
BY DEF KindKept, SameShape, StrandInv, RowsIn, IsDir

\* What u knows, when it goes on with the same call.
LEMMA KindsOn ==
    ASSUME StrandInv, KindKept, NEW u \in Users, call' = call, page' = page,
           my'[u].kids \subseteq my[u].kids,
           \/ my'[u].doc \in {my[u].doc, NoDoc}
           \/ my'[u].doc.parent \in KnownIds /\ IsDir(my'[u].doc.parent)
    PROVE  Kinds(u)'
<1>1. Kinds(u) /\ Tidy(u) /\ NoDoc.parent = Root
  BY DEF StrandInv, ShapeInv, NoDoc
<1>2. IsDir(my[u].doc.parent)'
  <2>1. PICK f : f = my'[u].doc.parent
    OBVIOUS
  <2>2. f = Root \/ (f \in KnownIds /\ IsDir(f))
    BY <1>1, <2>1 DEF Kinds, Tidy
  <2>3. IsDir(f)'
    BY <2>2, RootDir, KindsKept
  <2>. QED
    BY <2>1, <2>3 DEF IsDir
<1>. QED
  BY <1>1, <1>2, KindsKept DEF Kinds, Tidy

\* A request that goes on, or is answered; no file changes.
LEMMA OnwardStrand ==
    ASSUME StrandInv, ShapeInv', BytesInv', NEW u \in Users, ~Idle(u), Only(u), rows' = rows,
           UNCHANGED <<call, client, stale>>,
           my'[u].kids \subseteq my[u].kids,
           \/ my'[u].doc \in {my[u].doc, NoDoc}
           \/ my'[u].doc.parent \in KnownIds /\ IsDir(my'[u].doc.parent),
           pc'[u] \in {"door", "read"} => my'[u].want \subseteq {call[u].file, call[u].to},
           pc'[u] = "path" => call[u].name \in {"children", "get", "upload", "createFolder"},
           pc'[u] = "halves" => call[u].name \in {"upload", "delete"},
           pc'[u] = "closed" => call[u].name = "upload",
           Careful /\ stale[u] = {} /\ Full(u) => Full(u)'
    PROVE  StrandInv'
<1>1. KindKept /\ SameShape /\ RowsIn'
  BY RowsStay
<1>2. Kinds(u)'
  BY <1>1, KindsOn DEF client
<1>3. Follows(u)'
  BY DEF StrandInv, Follows, client, Idle
<1>4. Careful /\ stale'[u] = {} => Full(u)'
  BY DEF StrandInv
<1>. QED
  BY <1>1, <1>2, <1>3, <1>4, StrandStep DEF client

\* A request that neither lists nor drops anything comes from a page that is waiting for
\* its end; one that is still on its way has nothing to show.
LEMMA DoingStage ==
    ASSUME StrandInv, NEW u \in Users, ~Idle(u), call[u].name \notin {"children", "insertChild"}
    PROVE  stage[u] = "doing"
BY DEF StrandInv, ShapeInv, Waits, TreeInv, IInv, TypeOK, Stages

LEMMA FullOn ==
    ASSUME StrandInv, NEW u \in Users, ~Idle(u), rows' = rows, UNCHANGED <<call, client>>,
           my'[u].kids \subseteq my[u].kids,
           \/ pc'[u] \in {"read", "token", "halves"}
           \/ call[u].name \notin {"children", "insertChild"},
           Full(u)
    PROVE  Full(u)'
<1>1. /\ \A k, f : Lies(k, f)' <=> Lies(k, f)
      /\ \A f : /\ Children(f)' = Children(f) /\ IsPlain(f)' = IsPlain(f)
                /\ There(f)' = There(f) /\ Firm(f)' = Firm(f)
  BY DEF Lies, Children, IsPlain, There, Firm, IsRow
<1>2. stage' = stage /\ page' = page /\ call' = call
  BY DEF client
<1>3. CASE pc'[u] \in {"read", "token", "halves"}
  <2>1. ~Idle(u)' /\ ~Listed(u)'
    BY <1>3 DEF Idle, Listed
  <2>. QED
    BY <1>1, <1>2, <2>1 DEF Full
<1>4. CASE call[u].name \notin {"children", "insertChild"}
  <2>1. stage[u] = "doing"
    BY <1>4, DoingStage
  <2>. QED
    BY <1>1, <1>2, <2>1 DEF Full
<1>. QED
  BY <1>3, <1>4

LEMMA AnsweredOut ==
    ASSUME IInv, NEW u \in Users, NEW ok, Answered(u, ok)
    PROVE  /\ Only(u) /\ pc'[u] = "home" /\ UNCHANGED <<call, client>>
           /\ my'[u].kids = my[u].kids /\ my'[u].doc = NoDoc /\ my'[u].ok = ok
<1>1. Only(u) /\ pc'[u] = "home" /\ call' = call
  BY AnsweredOnly
<1>2. my'[u].kids = my[u].kids /\ my'[u].doc = NoDoc /\ UNCHANGED client
  BY AnsweredKids
<1>3. my'[u].ok = ok
  BY DEF Answered, Goes, Blank, IInv, TypeOK
<1>. QED
  BY <1>1, <1>2, <1>3

LEMMA AnsweredStrand ==
    ASSUME StrandInv, ShapeInv', BytesInv', NEW u \in Users, ~Idle(u), rows' = rows,
           stale' = stale, NEW ok, Answered(u, ok),
           Careful /\ stale[u] = {} /\ Full(u) => Full(u)'
    PROVE  StrandInv'
<1>1. IInv
  BY DEF StrandInv, ShapeInv, TreeInv
<1>2. /\ Only(u) /\ pc'[u] = "home" /\ UNCHANGED <<call, client>>
      /\ my'[u].kids = my[u].kids /\ my'[u].doc = NoDoc
  BY <1>1, AnsweredOut
<1>. QED
  BY <1>2, OnwardStrand

\* A request that is refused has listed nothing; it has moved nothing either.
LEMMA RefusedFull ==
    ASSUME StrandInv, NEW u \in Users, ~Idle(u), rows' = rows, Answered(u, FALSE), Full(u),
           stage[u] = "moving" => call[u].file \notin Children(page[u].folder)
    PROVE  Full(u)'
<1>1. /\ pc'[u] = "home" /\ UNCHANGED <<call, client>>
      /\ my'[u].kids = my[u].kids /\ my'[u].ok = FALSE
  BY AnsweredOut DEF StrandInv, ShapeInv, TreeInv
<1>2. /\ \A k, f : Lies(k, f)' <=> Lies(k, f)
      /\ \A f : /\ Children(f)' = Children(f) /\ IsPlain(f)' = IsPlain(f)
                /\ There(f)' = There(f) /\ Firm(f)' = Firm(f)
  BY DEF Lies, Children, IsPlain, There, Firm, IsRow
<1>3. stage' = stage /\ page' = page /\ call' = call /\ ~Listed(u)' /\ Idle(u)'
  BY <1>1 DEF client, Listed, Idle
<1>. QED
  BY <1>1, <1>2, <1>3 DEF Full

LEMMA ReadStrand ==
    ASSUME StrandInv, NEW u \in Users, Enter(u) \/ Read(u) \/ ReadFails(u) \/ Climb(u)
    PROVE  StrandInv'
<1>1. /\ ShapeInv' /\ BytesInv' /\ rows' = rows /\ stale' = stale
      /\ IInv /\ ~Idle(u) /\ pc[u] \in {"door", "read"}
      /\ my[u].want \subseteq {call[u].file, call[u].to}
  <2>1. pc[u] \in {"door", "read"} /\ stale' = stale
    BY DEF Enter, Read, ReadFails, Climb, Unplaced, ghost
  <2>. QED
    BY <2>1, ReadShape, NextBytes, EnterTree, ReadTree
       DEF StrandInv, ShapeInv, TreeInv, Follows, Idle, Next, Serve
<1>2. CASE Enter(u)
  <2>1. Only(u) /\ pc'[u] = "read" /\ my' = my /\ UNCHANGED <<call, client>>
    BY <1>1, <1>2 DEF Enter, Only, store, IInv, TypeOK
  <2>. QED
    BY <1>1, <2>1, FullOn, OnwardStrand
<1>3. CASE ReadFails(u)
  <2>1. ~Careful
    BY <1>3 DEF ReadFails, Careful
  <2>2. CASE Answered(u, FALSE)
    BY <1>1, <2>1, <2>2, AnsweredStrand
  <2>3. CASE Closed(u) /\ call[u].name = "upload"
    <3>1. my'[u] = [Blank EXCEPT !.ok = FALSE] /\ UNCHANGED client
      BY <1>1, <2>3 DEF Closed, Goes, IInv, TypeOK
    <3>2. my'[u].kids = {} /\ my'[u].doc = NoDoc
      BY <3>1 DEF Blank
    <3>3. Only(u) /\ pc'[u] = "closed" /\ call' = call
      BY <1>1, <2>3, ClosedOnly
    <3>. QED
      BY <1>1, <2>1, <2>3, <3>1, <3>2, <3>3, OnwardStrand
  <2>. QED
    BY <1>3, <2>2, <2>3 DEF ReadFails
<1>4. ASSUME NEW f \in my[u].want, ~(f = Root \/ IsRow(f)), Answered(u, FALSE)
      PROVE  StrandInv'
  <2>1. ASSUME Full(u), stage[u] = "moving" PROVE call[u].file \notin Children(page[u].folder)
    <3>1. call[u].name = "insertChild" /\ call[u].to = page[u].at
      BY <1>1, <2>1 DEF StrandInv, ShapeInv, Waits, Follows
    <3>2. call[u].file \in Ids /\ f = call[u].file
      BY <1>1, <1>4, <2>1, <3>1 DEF IInv, Control, Changes, Full, There
    <3>. QED
      BY <1>4, <3>2 DEF IsRow, Children
  <2>2. Full(u) => Full(u)'
    BY <1>1, <1>4, <2>1, RefusedFull
  <2>. QED
    BY <1>1, <1>4, <2>2, AnsweredStrand
<1>5. ASSUME NEW m, Moves(u, "read", m), m.kids = my[u].kids, m.want \subseteq my[u].want,
             m.doc = my[u].doc \/ (m.doc.parent \in KnownIds /\ IsDir(m.doc.parent))
      PROVE  StrandInv'
  <2>1. Only(u) /\ pc'[u] = "read" /\ my'[u] = m /\ call' = call /\ UNCHANGED client
    BY <1>1, <1>5, MovesOnly DEF Moves
  <2>2. my'[u].want \subseteq {call[u].file, call[u].to} /\ my'[u].kids \subseteq my[u].kids
    BY <1>1, <1>5, <2>1
  <2>3. Full(u) => Full(u)'
    BY <1>1, <2>1, <2>2, FullOn
  <2>. QED
    BY <1>1, <1>5, <2>1, <2>2, <2>3, OnwardStrand
<1>6. ASSUME NEW f \in my[u].want, f = Root \/ IsRow(f),
             Moves(u, "read", [my[u] EXCEPT
                   !.want = @ \ {f},
                   !.walk = @ \union Over(f),
                   !.doc = IF f = call[u].file /\ f # Root THEN rows[f] ELSE @])
      PROVE  StrandInv'
  <2>. DEFINE walk == my[u].walk \union Over(f)
              doc == IF f = call[u].file /\ f # Root THEN rows[f] ELSE my[u].doc
              m == [my[u] EXCEPT !.want = @ \ {f}, !.walk = walk, !.doc = doc]
  <2>1. Moves(u, "read", m)
    BY <1>6
  <2>2. doc = my[u].doc \/ (doc.parent \in KnownIds /\ IsDir(doc.parent))
    <3>1. CASE f = call[u].file /\ f # Root
      <4>1. f \in Ids /\ rows[f] # Undef
        BY <1>1, <1>6, <3>1, OwnOK DEF Nodes, IsRow
      <4>2. doc = rows[f]
        BY <3>1
      <4>. QED
        BY <4>1, <4>2 DEF StrandInv, ShapeInv, RowsIn
    <3>. QED
      BY <3>1
  <2>. HIDE DEF walk, doc
  <2>3. m.kids = my[u].kids /\ m.doc = doc /\ m.want \subseteq my[u].want
    BY <1>1, OwnOK DEF Mine
  <2>. HIDE DEF m
  <2>. QED
    BY <1>5, <2>1, <2>2, <2>3
<1>7. ASSUME NEW f \in my[u].walk,
             Moves(u, "read", [my[u] EXCEPT !.walk = (@ \ {f}) \union Over(f)])
      PROVE  StrandInv'
  <2>. DEFINE walk == (my[u].walk \ {f}) \union Over(f)
              m == [my[u] EXCEPT !.walk = walk]
  <2>1. Moves(u, "read", m)
    BY <1>7
  <2>. HIDE DEF walk
  <2>2. m.kids = my[u].kids /\ m.doc = my[u].doc /\ m.want = my[u].want
    BY <1>1, OwnOK DEF Mine
  <2>. HIDE DEF m
  <2>. QED
    BY <1>5, <2>1, <2>2
<1>. QED
  BY <1>2, <1>3, <1>4, <1>6, <1>7 DEF Read, Climb

\* All that lies in the folder is on the listing that the page is waiting for.
LEMMA QueryStrand ==
    ASSUME StrandInv, NEW u \in Users, Query(u)
    PROVE  StrandInv'
<1>1. /\ ShapeInv' /\ BytesInv' /\ rows' = rows
      /\ IInv /\ ~Idle(u) /\ call[u].name = "children"
  BY QueryShape, NextBytes, PathTree
     DEF StrandInv, ShapeInv, TreeInv, Query, Gathered, Idle, Next, Serve
<1>. DEFINE ks == {<<k, rows[k].folder>> : k \in Children(call[u].file)}
            m == [my[u] EXCEPT !.kids = ks, !.at = call[u].file]
<1>2. Moves(u, "path", m)
  BY DEF Query
<1>3. /\ \A x \in ks : Lies(x[1], call[u].file)
      /\ \A x \in ks : IF x[2] THEN IsDir(x[1]) ELSE IsPlain(x[1])
      /\ Children(call[u].file) \subseteq Firsts(ks)
  <2>1. \A k \in Children(call[u].file) : rows[k] \in Rows /\ k \in Ids /\ rows[k].folder \in BOOLEAN
    BY <1>1 DEF Children, IInv, TypeOK, Rows
  <2>2. ASSUME NEW x \in ks
        PROVE  Lies(x[1], call[u].file) /\ IF x[2] THEN IsDir(x[1]) ELSE IsPlain(x[1])
    <3>1. PICK k \in Children(call[u].file) : x = <<k, rows[k].folder>>
      OBVIOUS
    <3>2. x[1] = k /\ x[2] = rows[k].folder
      BY <3>1
    <3>. QED
      BY <2>1, <3>1, <3>2 DEF Children, Lies, IsDir, IsPlain
  <2>3. ASSUME NEW k \in Children(call[u].file) PROVE k \in Firsts(ks)
    <3>1. <<k, rows[k].folder>> \in ks /\ <<k, rows[k].folder>>[1] = k
      OBVIOUS
    <3>. QED
      BY <3>1 DEF Firsts
  <2>. QED
    BY <2>2, <2>3
<1>. HIDE DEF ks
<1>4. m.kids = ks /\ m.doc = my[u].doc /\ m.at = call[u].file
  BY <1>1, OwnOK DEF Mine
<1>. HIDE DEF m
<1>5. Only(u) /\ pc'[u] = "path" /\ my'[u] = m /\ UNCHANGED <<call, stage, page>>
  BY <1>1, <1>2, MovesOnly DEF Moves, client
<1>6. KindKept /\ SameShape /\ RowsIn'
  BY <1>1, RowsStay
<1>7. /\ \A k, f : Lies(k, f)' <=> Lies(k, f)
      /\ \A f : /\ Children(f)' = Children(f) /\ IsPlain(f)' = IsPlain(f)
                /\ IsDir(f)' = IsDir(f) /\ There(f)' = There(f) /\ Firm(f)' = Firm(f)
  BY <1>1 DEF Lies, Children, IsDir, IsPlain, There, Firm, IsRow
<1>8. /\ \A v \in Users \ {u} : stale'[v] = stale[v]
      /\ stale'[u] = IF stage[u] = "kids" THEN stale[u] \ {"kids"} ELSE {}
  BY <1>1 DEF Query, IInv, TypeOK
<1>9. Kinds(u)'
  BY <1>3, <1>4, <1>5, <1>7 DEF StrandInv, Kinds
<1>10. Follows(u)'
  <2>1. ~Idle(u)' /\ "kids" \notin stale'[u]
    BY <1>5, <1>8 DEF Idle
  <2>. QED
    BY <1>1, <1>5, <2>1 DEF StrandInv, Follows
<1>11. ASSUME Careful, stale'[u] = {} PROVE Full(u)'
  <2>1. stage[u] \in {"listing", "kids", "doing"}
    BY <1>1 DEF StrandInv, ShapeInv, Waits, IInv, TypeOK, Stages
  <2>2. CASE stage[u] = "listing"
    BY <1>3, <1>4, <1>5, <1>7, <2>2 DEF Full
  <2>3. CASE stage[u] = "doing"
    BY <1>1, <1>5, <2>3 DEF Full
  <2>4. CASE stage[u] = "kids"
    <3>1. stale[u] = {}
      BY <1>1, <1>8, <1>11, <2>4 DEF StrandInv, Follows, IInv, TypeOK
    <3>2. Full(u) /\ call[u].file = page[u].folder
      BY <1>11, <2>4, <3>1 DEF StrandInv, Follows
    <3>. QED
      BY <1>3, <1>4, <1>5, <1>7, <2>4, <3>2 DEF Full
  <2>. QED
    BY <2>1, <2>2, <2>3, <2>4
<1>. QED
  BY <1>1, <1>5, <1>6, <1>8, <1>9, <1>10, <1>11, StrandStep

LEMMA PathStrand ==
    ASSUME StrandInv, NEW u \in Users,
           \/ Trace(u) \/ PathOn(u) \/ PathEnds(u) \/ Refuse(u) \/ BothDone(u)
           \/ CloseAgain(u)
    PROVE  StrandInv'
<1>1. /\ ShapeInv' /\ BytesInv' /\ rows' = rows /\ stale' = stale
      /\ IInv /\ ~Idle(u)
  BY PathShape, NextBytes
     DEF StrandInv, ShapeInv, TreeInv, Trace, PathOn, PathEnds, Refuse, BothDone, CloseAgain,
         Unplaced, store, ghost, Gathered, Idle, Next, Serve
<1>2. /\ \A k, f : Lies(k, f)' <=> Lies(k, f)
      /\ \A f : /\ Children(f)' = Children(f) /\ IsPlain(f)' = IsPlain(f)
                /\ There(f)' = There(f) /\ Firm(f)' = Firm(f)
  BY <1>1 DEF Lies, Children, IsPlain, There, Firm, IsRow
<1>3. CASE Refuse(u) \/ CloseAgain(u)
  <2>1. /\ Only(u) /\ pc'[u] = "home" /\ UNCHANGED <<call, client>>
        /\ my'[u].kids = {} /\ my'[u].doc = NoDoc
    BY <1>1, <1>3 DEF Refuse, CloseAgain, Goes, Only, IInv, TypeOK, Blank
  <2>2. call[u].name = "upload"
    BY <1>3 DEF Refuse, CloseAgain, StrandInv, BytesInv, Follows
  <2>3. Full(u) => Full(u)'
    BY <1>1, <2>1, <2>2, FullOn
  <2>. QED
    BY <1>1, <2>1, <2>3, OnwardStrand
<1>4. CASE BothDone(u)
  <2>1. Answered(u, my[u].ok) /\ call[u].name \in {"upload", "delete"}
    BY <1>4 DEF BothDone, StrandInv, Follows
  <2>2. UNCHANGED <<call, client>> /\ my'[u].kids = my[u].kids
    BY <1>1, <2>1, AnsweredOut
  <2>3. Full(u) => Full(u)'
    BY <1>1, <2>1, <2>2, FullOn
  <2>. QED
    BY <1>1, <2>1, <2>3, AnsweredStrand
<1>5. ASSUME NEW at, Moves(u, "path", [my[u] EXCEPT !.at = at]),
             call[u].name \in {"children", "get", "upload", "createFolder"},
             \/ call[u].name # "children"
             \/ pc[u] = "path" /\ (my[u].at = call[u].file => at = call[u].file \/ Firm(call[u].file))
      PROVE  StrandInv'
  <2>1. /\ Only(u) /\ pc'[u] = "path" /\ my'[u] = [my[u] EXCEPT !.at = at]
        /\ UNCHANGED <<call, client>>
    BY <1>1, <1>5, MovesOnly DEF Moves
  <2>2. my'[u].kids = my[u].kids /\ my'[u].doc = my[u].doc /\ my'[u].at = at
    BY <1>1, <2>1, OwnOK DEF Mine
  <2>3. ASSUME Full(u), call[u].name = "children" PROVE Full(u)'
    <3>1. pc[u] = "path" /\ Listed(u) /\ ~Idle(u)'
      BY <1>5, <2>1, <2>3 DEF Listed, Idle
    <3>2. stage' = stage /\ page' = page /\ call' = call
      BY <2>1 DEF client
    <3>. QED
      BY <1>1, <1>2, <1>5, <2>1, <2>2, <2>3, <3>1, <3>2 DEF Full
  <2>4. Full(u) => Full(u)'
    BY <1>1, <1>5, <2>1, <2>2, <2>3, FullOn
  <2>. QED
    BY <1>1, <1>5, <2>1, <2>2, <2>4, OnwardStrand
<1>6. CASE Moves(u, "token", my[u])
  <2>1. Only(u) /\ pc'[u] = "token" /\ my'[u] = my[u] /\ UNCHANGED <<call, client>>
    BY <1>1, <1>6, MovesOnly DEF Moves
  <2>2. Full(u) => Full(u)'
    BY <1>1, <2>1, FullOn
  <2>. QED
    BY <1>1, <2>1, <2>2, OnwardStrand
<1>7. CASE Trace(u)
  BY <1>5, <1>7 DEF Trace, Gathered
<1>8. CASE PathOn(u)
  <2>1. call[u].name \in {"children", "get", "upload", "createFolder"}
    BY <1>8 DEF PathOn, StrandInv, Follows
  <2>2. PICK at : at = rows[my[u].at].parent
    OBVIOUS
  <2>3. my[u].at = call[u].file => at = call[u].file \/ Firm(call[u].file)
    BY <1>8, <2>2 DEF PathOn, Firm
  <2>4. Moves(u, "path", [my[u] EXCEPT !.at = at]) /\ pc[u] = "path"
    BY <1>8, <2>2 DEF PathOn
  <2>. QED
    BY <1>5, <2>1, <2>3, <2>4
<1>9. CASE PathEnds(u) /\ Answered(u, my[u].at = Root)
  <2>1. /\ pc'[u] = "home" /\ UNCHANGED <<call, client>>
        /\ my'[u].kids = my[u].kids /\ my'[u].ok = (my[u].at = Root)
    BY <1>1, <1>9, AnsweredOut
  <2>2. pc[u] = "path" /\ call[u].name \in {"children", "get", "upload", "createFolder"}
    BY <1>9 DEF PathEnds, StrandInv, Follows
  <2>3. ASSUME Full(u), call[u].name = "children" PROVE Full(u)'
    <3>1. stage' = stage /\ page' = page /\ call' = call
      BY <2>1 DEF client
    <3>2. Listed(u) /\ (Listed(u)' => my[u].at = Root)
      BY <2>1, <2>2 DEF Listed, Idle
    <3>3. stage[u] # "moving"
      BY <1>1, <2>3 DEF StrandInv, ShapeInv, Waits
    <3>4. Firm(Root) /\ Idle(u)'
      BY <2>1 DEF Firm, Idle
    <3>5. stage[u] \notin {"page", "away"}
      BY <1>1 DEF StrandInv, ShapeInv, Waits
    <3>. QED
      BY <1>2, <2>1, <2>3, <3>1, <3>2, <3>3, <3>4, <3>5 DEF Full
  <2>4. Full(u) => Full(u)'
    BY <1>1, <2>1, <2>2, <2>3, FullOn
  <2>. QED
    BY <1>1, <1>9, <2>4, AnsweredStrand
<1>. QED
  BY <1>3, <1>4, <1>6, <1>7, <1>8, <1>9 DEF PathEnds

LEMMA HalvesStrand ==
    ASSUME StrandInv, NEW u \in Users, Accept(u) \/ Delete(u)
    PROVE  StrandInv'
<1>1. /\ ShapeInv' /\ BytesInv' /\ rows' = rows /\ stale' = stale
      /\ IInv /\ ~Idle(u) /\ call[u].name \in {"upload", "delete"}
  BY HalvesShape, NextBytes
     DEF StrandInv, BytesInv, ShapeInv, TreeInv, Accept, Delete, Unplaced, store, ghost, Gathered,
         Idle, Next, Serve
<1>2. PICK m : Moves(u, "halves", m) /\ m.kids = my[u].kids /\ m.doc = my[u].doc
  <2>1. my[u] \in Mine
    BY <1>1, OwnOK
  <2>2. CASE Accept(u)
    <3>. DEFINE m == [my[u] EXCEPT !.new = used', !.halves = Halves]
    <3>1. Moves(u, "halves", m) /\ m.kids = my[u].kids /\ m.doc = my[u].doc
      BY <2>1, <2>2 DEF Accept, Mine
    <3>. QED
      BY <3>1
  <2>3. CASE Delete(u)
    <3>. DEFINE m == [my[u] EXCEPT !.halves = Halves]
    <3>1. Moves(u, "halves", m) /\ m.kids = my[u].kids /\ m.doc = my[u].doc
      BY <2>1, <2>3 DEF Delete, Mine
    <3>. QED
      BY <3>1
  <2>. QED
    BY <2>2, <2>3
<1>3. Only(u) /\ pc'[u] = "halves" /\ my'[u] = m /\ UNCHANGED <<call, client>>
  BY <1>1, <1>2, MovesOnly DEF Moves
<1>4. Full(u) => Full(u)'
  BY <1>1, <1>2, <1>3, FullOn
<1>. QED
  BY <1>1, <1>2, <1>3, <1>4, OnwardStrand

-----------------------------------------------------------------------------
(* The steps that change what lies where *)

\* A row is written, or goes; what it says of folders is what was known.
LEMMA ChangeStrand ==
    ASSUME StrandInv, ShapeInv', BytesInv', NEW u \in Users, ~Idle(u), Only(u), Placed(u),
           UNCHANGED <<call, client>>, my'[u].kids \subseteq my[u].kids,
           my'[u].doc \in {my[u].doc, NoDoc},
           pc'[u] \notin {"door", "read", "closed"},
           pc'[u] = "path" => call[u].name \in {"children", "get", "upload", "createFolder"},
           pc'[u] = "halves" => call[u].name \in {"upload", "delete"},
           NEW k \in Ids, NEW row, rows' = [rows EXCEPT ![k] = row],
           \/ row = Undef
           \/ /\ row \in Rows /\ row.parent \in KnownIds /\ IsDir(row.parent)
              /\ k \in KnownIds => rows[k] # Undef /\ row.folder = rows[k].folder,
           Careful /\ stale[u] = {} /\ Full(u) => Full(u)'
    PROVE  StrandInv'
<1>1. /\ \A f \in Ids : f # k => rows'[f] = rows[f]
      /\ rows'[k] = row
  BY DEF StrandInv, ShapeInv, TreeInv, IInv, TypeOK
<1>2. KindKept
  BY <1>1, DriveOK DEF KindKept
<1>3. RowsIn'
  <2>. SUFFICES ASSUME NEW f \in Ids, rows'[f] # Undef PROVE IsDir(rows[f].parent)'
    BY DEF RowsIn
  <2>1. PICK p : p = rows'[f].parent
    OBVIOUS
  <2>2. p \in KnownIds /\ IsDir(p)
    BY <1>1, <2>1 DEF StrandInv, ShapeInv, RowsIn
  <2>3. IsDir(p)'
    BY <1>2, <2>2, KindsKept
  <2>. QED
    BY <2>1, <2>3 DEF IsDir
<1>4. Kinds(u)'
  BY <1>2, KindsOn DEF client
<1>5. /\ stale'[u] = stale[u]
      /\ \A v \in Users \ {u} : stale'[v] = {"page", "kids"} \/ (stale'[v] = stale[v] /\ SameShape)
  <2>1. CASE \A f \in Ids : /\ (rows'[f] = Undef) = (rows[f] = Undef)
                            /\ rows[f] # Undef => rows'[f].parent = rows[f].parent
    BY <2>1 DEF Placed, SameShape
  <2>2. CASE ~\A f \in Ids : /\ (rows'[f] = Undef) = (rows[f] = Undef)
                             /\ rows[f] # Undef => rows'[f].parent = rows[f].parent
    BY <2>2 DEF Placed
  <2>. QED
    BY <2>1, <2>2
<1>6. Follows(u)'
  BY <1>5 DEF StrandInv, Follows, client, Idle
<1>7. Careful /\ stale'[u] = {} => Full(u)'
  BY <1>5 DEF StrandInv
<1>. QED
  BY <1>2, <1>3, <1>4, <1>5, <1>6, <1>7, StrandStep DEF client

LEMMA CreateFolderStrand ==
    ASSUME StrandInv, NEW u \in Users, CreateFolder(u)
    PROVE  StrandInv'
<1>1. /\ ShapeInv' /\ BytesInv' /\ IInv /\ ~Idle(u) /\ call[u].name = "createFolder"
  BY CreateFolderShape, NextBytes
     DEF StrandInv, ShapeInv, TreeInv, CreateFolder, Gathered, Idle, Next, Serve
<1>2. CASE Answered(u, FALSE) /\ Unplaced
  <2>1. UNCHANGED <<call, client>> /\ my'[u].kids = my[u].kids /\ rows' = rows /\ stale' = stale
    BY <1>1, <1>2, AnsweredOut DEF Unplaced, ghost
  <2>2. Full(u) => Full(u)'
    BY <1>1, <2>1, FullOn
  <2>. QED
    BY <1>1, <1>2, <2>1, <2>2, AnsweredStrand
<1>3. CASE ~(Answered(u, FALSE) /\ Unplaced)
  <2>. DEFINE new == [parent |-> call[u].file, name |-> call[u].info, folder |-> TRUE]
              m == [my[u] EXCEPT !.at = call[u].file]
  <2>1. /\ used < MaxId /\ used' = used + 1
        /\ rows' = [rows EXCEPT ![used'] = new]
        /\ Moves(u, "path", m) /\ Placed(u)
    BY <1>3 DEF CreateFolder
  <2>2. new \in Rows /\ new.parent = call[u].file
    BY <1>1, OwnOK DEF Rows
  <2>3. m.kids = my[u].kids /\ m.doc = my[u].doc
    BY <1>1, OwnOK DEF Mine
  <2>4. PICK row : row = new
    OBVIOUS
  <2>. HIDE DEF new, m
  <2>5. Only(u) /\ pc'[u] = "path" /\ my'[u] = m /\ UNCHANGED <<call, client>>
    BY <1>1, <2>1, MovesOnly DEF Moves
  <2>6. PICK k : k = used'
    OBVIOUS
  <2>7. k \in Ids \ KnownIds
    <3>1. k \in Ids /\ ~(k <= used)
      BY <1>1, <2>1, <2>6, NextId DEF IInv, TypeOK, Ids
    <3>. QED
      BY <3>1 DEF KnownIds
  <2>8. row \in Rows /\ row.parent \in KnownIds /\ IsDir(row.parent)
    BY <1>1, <2>2, <2>4 DEF StrandInv, ShapeInv, Tidy, Kinds, Creators
  <2>9. rows' = [rows EXCEPT ![k] = row]
    BY <2>1, <2>4, <2>6
  <2>10. Full(u)'
    <3>1. stage'[u] = "doing" /\ call'[u].name = "createFolder"
      BY <1>1, <2>5, DoingStage DEF client
    <3>. QED
      BY <3>1 DEF Full
  <2>. QED
    BY <1>1, <2>1, <2>3, <2>5, <2>7, <2>8, <2>9, <2>10, ChangeStrand
<1>. QED
  BY <1>2, <1>3

LEMMA HalfStrand ==
    ASSUME StrandInv, NEW u \in Users,
           AddRow(u) \/ WriteBytes(u) \/ RemoveRow(u) \/ Unlink(u)
    PROVE  StrandInv'
<1>1. /\ ShapeInv' /\ BytesInv' /\ IInv /\ pc[u] = "halves" /\ ~Idle(u)
      /\ call[u].name \in {"upload", "delete"}
  BY HalfShape, NextBytes
     DEF StrandInv, ShapeInv, TreeInv, AddRow, WriteBytes, RemoveRow, Unlink, Half, Idle, Next, Serve
<1>2. PICK h, ok : HalfDone(u, h, ok)
  BY DEF AddRow, WriteBytes, RemoveRow, Unlink
<1>3. /\ Only(u) /\ UNCHANGED <<call, client>>
      /\ my'[u].doc = my[u].doc /\ my'[u].kids = my[u].kids
  BY <1>1, <1>2, HalfDoneKeeps
<1>4. pc'[u] = "halves"
  BY <1>1, <1>2, MovesOnly DEF HalfDone
<1>5. CASE rows' = rows /\ stale' = stale
  <2>1. Full(u) => Full(u)'
    BY <1>1, <1>3, <1>4, <1>5, FullOn
  <2>. QED
    BY <1>1, <1>3, <1>4, <1>5, <2>1, OnwardStrand
<1>6. CASE rows' = rows /\ Placed(u)
  BY <1>5, <1>6 DEF Placed
<1>7. CASE AddRow(u) /\ rows' = [rows EXCEPT ![my[u].new] = NewRow(u)]
  <2>1. PICK row : row = NewRow(u)
    OBVIOUS
  <2>2. row \in Rows /\ row.parent = call[u].file
    BY <1>1, <2>1, OwnOK DEF NewRow, Rows
  <2>3. call[u].name = "upload" /\ Placed(u) /\ Coming(u)
    BY <1>1, <1>7 DEF AddRow, Half, Coming
  <2>4. row.parent \in KnownIds /\ IsDir(row.parent)
    BY <2>2, <2>3 DEF StrandInv, ShapeInv, Tidy, Kinds, Creators
  <2>5. PICK k : k = my[u].new
    OBVIOUS
  <2>6. k \in Ids \ KnownIds
    BY <1>1, <2>3, <2>5 DEF KnownIds, IInv, Control, Coming, Halves
  <2>7. rows' = [rows EXCEPT ![k] = row]
    BY <1>7, <2>1, <2>5
  <2>8. Full(u)'
    <3>1. stage'[u] = "doing" /\ call'[u].name = "upload"
      BY <1>1, <1>3, <2>3, DoingStage DEF client
    <3>. QED
      BY <3>1 DEF Full
  <2>. QED
    BY <1>1, <1>3, <1>4, <2>2, <2>3, <2>4, <2>6, <2>7, <2>8, ChangeStrand
<1>8. CASE RemoveRow(u) /\ rows' = [rows EXCEPT ![call[u].file] = Undef]
  <2>1. call[u].name = "delete" /\ Placed(u)
    BY <1>8 DEF RemoveRow
  <2>2. call[u].file \in Ids
    BY <1>1, <2>1 DEF IInv, Control, Changes
  <2>3. Full(u)'
    <3>1. stage'[u] = "doing" /\ call' = call
      BY <1>1, <1>3, <2>1, DoingStage DEF client
    <3>2. IsPlain(call[u].file)'
      BY <1>1, <1>3, <1>8, <2>2 DEF IsPlain, IInv, TypeOK
    <3>. QED
      BY <3>1, <3>2 DEF Full
  <2>. QED
    BY <1>1, <1>3, <1>4, <1>8, <2>1, <2>2, <2>3, ChangeStrand
<1>9. CASE WriteBytes(u) \/ Unlink(u)
  BY <1>5, <1>9 DEF WriteBytes, Unlink, ghost
<1>. QED
  BY <1>6, <1>7, <1>8, <1>9 DEF AddRow, RemoveRow

LEMMA BreaksOffStrand ==
    ASSUME StrandInv, NEW u \in Users, BreaksOff(u)
    PROVE  StrandInv'
<1>1. /\ ShapeInv' /\ BytesInv' /\ IInv /\ ~Idle(u)
      /\ call[u].name \in {"upload", "delete"}
  BY BreaksOffShape, NextBytes
     DEF StrandInv, BytesInv, ShapeInv, TreeInv, BreaksOff, Half, Idle, Next, Serve
<1>2. /\ Only(u) /\ pc'[u] = "halves" /\ UNCHANGED <<rows, call, client, stale>>
      /\ my'[u].kids = {} \/ my'[u].kids = my[u].kids
      /\ my'[u].doc \in {my[u].doc, NoDoc}
  BY <1>1, BreaksOffOnly DEF ghost
<1>3. my'[u].kids \subseteq my[u].kids
  BY <1>2
<1>4. Full(u) => Full(u)'
  BY <1>1, <1>2, <1>3, FullOn
<1>. QED
  BY <1>1, <1>2, <1>3, <1>4, OnwardStrand

\* A worker ends when a query fails, after which a folder may go with what is in it.
LEMMA WorkerEndsStrand ==
    ASSUME StrandInv, WorkerEnds
    PROVE  StrandInv'
<1>1. ShapeInv' /\ BytesInv' /\ IInv /\ rows' = rows
  BY WorkerEndsShape, WorkerEndsTree, NextBytes DEF StrandInv, ShapeInv, TreeInv, Next
<1>2. UNCHANGED <<call, stage, page, given, stale>> /\ \A u \in Users : pc'[u] = "home"
  BY <1>1, WorkerEndsAll
<1>3. ~Careful /\ ~Careful'
  BY <1>2 DEF WorkerEnds, Careful, Given
<1>4. KindKept /\ RowsIn'
  BY <1>1, RowsStay
<1>5. ASSUME NEW u \in Users PROVE Kinds(u)'
  <2>1. CASE Idle(u)
    <3>1. my'[u] = my[u]
      BY <1>1, <2>1, WorkerEndsAll
    <3>. QED
      BY <1>2, <1>4, <3>1, KindsOn
  <2>2. CASE ~Idle(u)
    <3>1. my'[u] = [Blank EXCEPT !.ok = FALSE]
      BY <1>1, <2>2, WorkerEndsAll
    <3>2. my'[u].kids = {} /\ my'[u].doc = NoDoc
      BY <3>1 DEF Blank
    <3>. QED
      BY <1>2, <1>4, <3>2, KindsOn
  <2>. QED
    BY <2>1, <2>2
<1>6. ASSUME NEW u \in Users PROVE Follows(u)'
  BY <1>2 DEF StrandInv, Follows, Idle
<1>. QED
  BY <1>1, <1>3, <1>4, <1>5, <1>6 DEF StrandInv

\* What is moved out of the folder is not in it any more.
LEMMA SaveStrand ==
    ASSUME StrandInv, NEW u \in Users, Save(u)
    PROVE  StrandInv'
<1>1. /\ ShapeInv' /\ BytesInv' /\ IInv /\ ~Idle(u) /\ pc[u] = "read" /\ my[u].want = {}
      /\ call[u].name \in {"setInfo", "insertChild", "removeChild"} /\ call[u].file \in Ids
  <2>1. pc[u] = "read" /\ my[u].want = {} /\ call[u].name \in {"setInfo", "insertChild", "removeChild"}
    BY DEF Save, Gathered
  <2>. QED
    BY <2>1, SaveShape, NextBytes
       DEF StrandInv, ShapeInv, TreeInv, IInv, Control, Changes, Idle, Next, Serve
<1>2. PICK ok : Answered(u, ok)
  BY DEF Save
<1>3. /\ Only(u) /\ pc'[u] = "home" /\ UNCHANGED <<call, client>>
      /\ my'[u].kids = my[u].kids /\ my'[u].doc = NoDoc
  BY <1>1, <1>2, AnsweredOut
<1>4. stage' = stage /\ page' = page /\ call' = call /\ Idle(u)'
  BY <1>3 DEF client, Idle
<1>5. stage[u] \in {"doing", "moving"} /\ (stage[u] = "moving" => call[u].name = "insertChild")
  BY <1>1 DEF StrandInv, ShapeInv, Waits, IInv, TypeOK, Stages
<1>. DEFINE k == call[u].file
<1>6. \/ rows' = rows
      \/ IsRow(k) /\ rows' = [rows EXCEPT ![k] = Changed(u)]
  BY DEF Save, Unplaced, store
<1>7. Placed(u) \/ (rows' = rows /\ stale' = stale)
  BY DEF Save, Unplaced, store, ghost
<1>8. /\ Changed(u) \in Rows /\ Changed(u).folder = my[u].doc.folder
      /\ call[u].name = "setInfo" => Changed(u).parent = my[u].doc.parent
      /\ call[u].name = "insertChild" => Changed(u).parent = call[u].to
      /\ call[u].name = "removeChild" => Changed(u).parent = Root
  BY <1>1, OwnOK DEF Changed, Rows, Nodes
<1>9. ASSUME Careful, Full(u) PROVE Full(u)'
  <2>1. CASE stage[u] = "doing"
    BY <1>4, <2>1 DEF Full
  <2>2. CASE stage[u] = "moving"
    <3>1. /\ call[u].name = "insertChild" /\ call[u].to = page[u].at
          /\ page[u].folder # page[u].at /\ There(page[u].at)
          /\ Children(page[u].folder) \subseteq page[u].todo \union {k}
      BY <1>1, <1>5, <1>9, <2>2 DEF StrandInv, Follows, Full
    <3>2. rows' = IF IsRow(k) THEN [rows EXCEPT ![k] = Changed(u)] ELSE rows
      BY <1>9, <3>1 DEF Save, Careful
    <3>3. /\ \A f \in Ids \ {k} : rows'[f] = rows[f]
          /\ rows[k] # Undef => rows'[k] = Changed(u)
          /\ rows[k] = Undef => rows'[k] = Undef
      BY <1>1, <3>2, DriveOK DEF IInv, TypeOK, IsRow, Ids, Root
    <3>4. There(page[u].at)'
      <4>1. page[u].at \in Nodes
        BY <1>1 DEF IInv, TypeOK, Pages
      <4>. QED
        BY <1>4, <1>8, <3>1, <3>3, <4>1, DriveOK DEF There, IsRow, Nodes
    <3>5. Children(page[u].folder)' \subseteq page[u].todo
      <4>. SUFFICES ASSUME NEW j \in Ids, rows'[j] # Undef, rows'[j].parent = page[u].folder
                    PROVE  j \in page[u].todo
        BY <1>4 DEF Children
      <4>1. j # k
        BY <1>8, <3>1, <3>3
      <4>. QED
        BY <3>1, <3>3, <4>1 DEF Children
    <3>. QED
      BY <1>4, <2>2, <3>1, <3>4, <3>5 DEF Full
  <2>. QED
    BY <1>5, <2>1, <2>2
<1>10. CASE rows' = rows
  <2>1. stale' = stale
    BY <1>7, <1>10 DEF Placed
  <2>. QED
    BY <1>1, <1>2, <1>9, <1>10, <2>1, AnsweredStrand
<1>11. CASE IsRow(k) /\ rows' = [rows EXCEPT ![k] = Changed(u)] /\ rows' # rows
  <2>1. Placed(u) /\ rows[k] # Undef
    BY <1>7, <1>11 DEF IsRow
  <2>2. Changed(u).parent \in KnownIds /\ IsDir(Changed(u).parent)
    BY <1>1, <1>8, RootKnown, RootDir DEF StrandInv, ShapeInv, Tidy, Kinds
  <2>3. Changed(u).folder = rows[k].folder
    <3>1. HasDoc(u)
      BY <1>1 DEF HasDoc, Changes
    <3>. QED
      BY <1>8, <2>1, <3>1 DEF StrandInv, BytesInv, DocKnown
  <2>4. PICK f, row : f = k /\ row = Changed(u)
    OBVIOUS
  <2>5. /\ rows' = [rows EXCEPT ![f] = row] /\ f \in Ids
        /\ row \in Rows /\ row.parent \in KnownIds /\ IsDir(row.parent)
        /\ rows[f] # Undef /\ row.folder = rows[f].folder
    BY <1>1, <1>8, <1>11, <2>1, <2>2, <2>3, <2>4
  <2>. QED
    BY <1>1, <1>3, <1>9, <2>1, <2>5, ChangeStrand
<1>. QED
  BY <1>6, <1>10, <1>11

-----------------------------------------------------------------------------
(* What the pages ask for *)

\* A page puts things into the folder it shows, or into one that it shows; it deletes by
\* itself only what is no folder.
LEMMA ChoicesKinds ==
    ASSUME NEW u \in Users, page[u].seen \subseteq Ids \X BOOLEAN, NEW c \in Choices(u)
    PROVE  /\ c.name # "children"
           /\ c.name \in Creators => c.file = page[u].at
           /\ c.to \in {Root, page[u].at} \/ \E x \in page[u].seen : x[2] /\ x[1] = c.to
           /\ c.name = "delete" => \E x \in page[u].seen : ~x[2] /\ x[1] = c.file
<1>. DEFINE seen == {x[1] : x \in page[u].seen}
            folders == {x[1] : x \in {x \in page[u].seen : x[2]}}
<1>1. /\ \A k \in folders : \E x \in page[u].seen : x[2] /\ x[1] = k
      /\ \A k \in seen \ folders : \E x \in page[u].seen : ~x[2] /\ x[1] = k
  OBVIOUS
<1>2. \/ \E name \in Creators, info \in Names : c = Call(name, page[u].at, Root, info)
      \/ \E k \in seen, info \in Names : c = Call("setInfo", k, Root, info)
      \/ \E k \in seen \X folders : k[1] # k[2] /\ c = Call("insertChild", k[1], k[2], NoDoc.name)
      \/ \E k \in seen : c = Call("removeChild", k, page[u].at, NoDoc.name)
      \/ \E k \in seen \ folders : c = Plain("delete", k)
      \/ \E k \in seen : c = Plain("get", k)
  BY DEF Choices
<1>. HIDE DEF seen, folders
<1>3. CASE \E name \in Creators, info \in Names : c = Call(name, page[u].at, Root, info)
  BY <1>3 DEF Call, Creators
<1>4. CASE \E k \in seen, info \in Names : c = Call("setInfo", k, Root, info)
  BY <1>4 DEF Call, Creators
<1>5. CASE \E k \in seen \X folders : k[1] # k[2] /\ c = Call("insertChild", k[1], k[2], NoDoc.name)
  BY <1>1, <1>5 DEF Call, Creators
<1>6. CASE \E k \in seen : c = Call("removeChild", k, page[u].at, NoDoc.name)
  BY <1>6 DEF Call, Creators
<1>7. CASE \E k \in seen \ folders : c = Plain("delete", k)
  BY <1>1, <1>7 DEF Call, Plain, Creators
<1>8. CASE \E k \in seen : c = Plain("get", k)
  BY <1>8 DEF Call, Plain, Creators
<1>. QED
  BY <1>2, <1>3, <1>4, <1>5, <1>6, <1>7, <1>8

\* A page goes on; no file changes.
LEMMA PageStrand ==
    ASSUME StrandInv, ShapeInv', BytesInv', NEW u \in Users, Only(u),
           UNCHANGED <<rows, stale>>, pc'[u] \in {"home", "door"},
           \A v \in Users \ {u} : stage'[v] = stage[v] /\ page'[v] = page[v],
           my'[u].kids = {}, my'[u].doc = NoDoc,
           IsDir(page'[u].at), IsDir(call'[u].to),
           call'[u].name \in {"children"} \union Creators => IsDir(call'[u].file),
           \A x \in page'[u].seen : IF x[2] THEN IsDir(x[1]) ELSE IsPlain(x[1]),
           pc'[u] = "door" => my'[u].want \subseteq {call'[u].file, call'[u].to},
           stage'[u] = "kids" => call'[u].file = page'[u].folder,
           stage'[u] = "moving" /\ pc'[u] # "home" => call'[u].to = page'[u].at,
           Careful /\ stale[u] = {} /\ Full(u) => Full(u)'
    PROVE  StrandInv'
<1>1. KindKept /\ SameShape /\ RowsIn'
  BY RowsStay
<1>2. \A f : (IsDir(f) => IsDir(f)') /\ (IsPlain(f) => IsPlain(f)')
  BY DEF IsDir, IsPlain
<1>3. IsDir(my[u].doc.parent)'
  <2>1. my'[u].doc.parent = Root
    BY DEF NoDoc
  <2>. QED
    BY <2>1, RootDir DEF IsDir
<1>4. Kinds(u)'
  BY <1>2, <1>3 DEF Kinds
<1>5. Follows(u)'
  BY DEF StrandInv, Follows, Idle
<1>6. Careful /\ stale'[u] = {} => Full(u)'
  BY DEF StrandInv
<1>. QED
  BY <1>1, <1>4, <1>5, <1>6, StrandStep

\* A page asks for c.
LEMMA AskedStrand ==
    ASSUME StrandInv, ShapeInv', BytesInv', NEW u \in Users, NEW c, NEW s, NEW p,
           Asks(u, c), Stage(u, s, p), stale' = stale,
           IsDir(p.at), IsDir(c.to),
           c.name \in {"children"} \union Creators => IsDir(c.file),
           \A x \in p.seen : IF x[2] THEN IsDir(x[1]) ELSE IsPlain(x[1]),
           s \in {"listing", "kids", "doing", "moving"},
           s = "kids" => c.file = p.folder,
           s = "moving" => c.to = p.at,
           Careful /\ stale[u] = {} /\ Full(u) =>
              /\ s \in {"kids", "moving"} => There(p.at) /\ p.folder # p.at
              /\ s = "moving" => Children(p.folder) \subseteq p.todo \union {c.file}
              /\ s = "doing" /\ c.name = "delete" => IsPlain(c.file) \/ Children(c.file) = {}
    PROVE  StrandInv'
<1>1. IInv
  BY DEF StrandInv, ShapeInv, TreeInv
<1>2. /\ Only(u) /\ UNCHANGED <<rows, used>> /\ pc'[u] = "door" /\ call'[u] = c
      /\ my'[u].kids = {} /\ my'[u].doc = NoDoc
  BY <1>1, AsksShape
<1>3. /\ stage'[u] = s /\ page'[u] = p
      /\ \A v \in Users \ {u} : stage'[v] = stage[v] /\ page'[v] = page[v]
  BY <1>1, StageShape
<1>4. my'[u].want \subseteq {c.file, c.to}
  <2>1. my'[u] = [Blank EXCEPT !.want = Wanted(c)]
    BY <1>1 DEF Asks, IInv, TypeOK
  <2>. QED
    BY <2>1 DEF Blank, Wanted
<1>5. ~Idle(u)' /\ ~Listed(u)'
  BY <1>2 DEF Idle, Listed
<1>6. \A f : Children(f)' = Children(f) /\ IsPlain(f)' = IsPlain(f) /\ There(f)' = There(f)
  BY <1>2 DEF Children, IsPlain, There, IsRow
<1>7. Careful /\ stale[u] = {} /\ Full(u) => Full(u)'
  BY <1>2, <1>3, <1>5, <1>6 DEF Full
<1>. QED
  BY <1>2, <1>3, <1>4, <1>7, PageStrand

\* A page goes on by itself.
LEMMA HomeStrand ==
    ASSUME StrandInv, ShapeInv', BytesInv', NEW u \in Users, Idle(u), NEW s, NEW p,
           Home(u, s, p), s \in {"away", "page", "moving"},
           IsDir(p.at), \A x \in p.seen : IF x[2] THEN IsDir(x[1]) ELSE IsPlain(x[1]),
           Careful /\ stale[u] = {} /\ Full(u) =>
              /\ s = "page" => Firm(p.at) /\ \A x \in p.seen : Lies(x[1], p.at)
              /\ s = "moving" => /\ There(p.at) /\ p.folder # p.at
                                 /\ Children(p.folder) \subseteq p.todo
    PROVE  StrandInv'
<1>1. IInv
  BY DEF StrandInv, ShapeInv, TreeInv
<1>2. /\ Only(u) /\ UNCHANGED <<rows, used, stale, crossed, call>> /\ pc'[u] = "home"
      /\ my'[u].kids = {} /\ my'[u].doc = NoDoc
      /\ stage'[u] = s /\ page'[u] = p
      /\ \A v \in Users \ {u} : stage'[v] = stage[v] /\ page'[v] = page[v]
  BY <1>1, HomeShape
<1>3. Idle(u)'
  BY <1>2 DEF Idle
<1>4. /\ \A k, f : Lies(k, f)' <=> Lies(k, f)
      /\ \A f : Children(f)' = Children(f) /\ There(f)' = There(f) /\ Firm(f)' = Firm(f)
  BY <1>2 DEF Lies, Children, There, Firm, IsRow
<1>5. Careful /\ stale[u] = {} /\ Full(u) => Full(u)'
  BY <1>2, <1>3, <1>4 DEF Full
<1>6. IsDir(call[u].to) /\ (call[u].name \in {"children"} \union Creators => IsDir(call[u].file))
  BY DEF StrandInv, Kinds
<1>. QED
  BY <1>2, <1>5, <1>6, PageStrand

LEMMA ActStrand ==
    ASSUME StrandInv, NEW u \in Users, Act(u)
    PROVE  StrandInv'
<1>1. ShapeInv' /\ BytesInv' /\ IInv /\ Idle(u) /\ pc[u] = "home"
  BY ActShape, NextBytes
     DEF StrandInv, ShapeInv, TreeInv, Act, Visit, Shown, Choose, Leave, Unfold, Kids, MoveKid,
         Unfolded, Idle, Next
<1>2. /\ IsDir(page[u].at) /\ IsDir(Root)
      /\ \A x \in my[u].kids \union page[u].seen : IF x[2] THEN IsDir(x[1]) ELSE IsPlain(x[1])
  BY RootDir DEF StrandInv, Kinds
<1>3. NoPage.at = Root /\ NoPage.folder = Root /\ NoPage.seen = {} /\ NoPage.todo = {}
  BY DEF NoPage
<1>4. \A name, f : Plain(name, f).name = name /\ Plain(name, f).file = f /\ Plain(name, f).to = Root
  BY DEF Plain, Call
<1>5. page[u] \in Pages /\ page[u].seen \subseteq Ids \X BOOLEAN
  BY <1>1 DEF IInv, TypeOK, Pages
<1>6. CASE Visit(u)
  <2>1. PICK f \in {Root} \union {k \in Ids : IsRow(k) /\ rows[k].folder} : Asks(u, Plain("children", f))
    BY <1>6 DEF Visit
  <2>2. IsDir(f)
    BY <1>2 DEF IsDir
  <2>3. Stage(u, "listing", NoPage) /\ stale' = stale
    BY <1>6 DEF Visit, ghost
  <2>4. PICK c : c = Plain("children", f)
    OBVIOUS
  <2>5. c.file = f /\ c.to = Root /\ c.name = "children" /\ Asks(u, c)
    BY <1>4, <2>1, <2>4
  <2>. QED
    BY <1>1, <1>2, <1>3, <2>2, <2>3, <2>5, AskedStrand
<1>7. CASE Choose(u)
  <2>1. PICK c \in Choices(u) : Asks(u, c)
    BY <1>7 DEF Choose
  <2>2. Stage(u, "doing", page[u]) /\ stale' = stale
    BY <1>7 DEF Choose, ghost
  <2>3. /\ c.name # "children"
        /\ c.name \in Creators => c.file = page[u].at
        /\ c.to \in {Root, page[u].at} \/ \E x \in page[u].seen : x[2] /\ x[1] = c.to
        /\ c.name = "delete" => \E x \in page[u].seen : ~x[2] /\ x[1] = c.file
    BY <1>5, ChoicesKinds
  <2>4. IsDir(c.to) /\ (c.name \in Creators => IsDir(c.file)) /\ (c.name = "delete" => IsPlain(c.file))
    BY <1>2, <2>3
  <2>. QED
    BY <1>1, <1>2, <2>1, <2>2, <2>3, <2>4, AskedStrand
<1>8. CASE Unfold(u)
  <2>1. PICK x \in page[u].seen : /\ x[2]
                                  /\ Asks(u, Plain("children", x[1]))
                                  /\ Stage(u, "kids", [page[u] EXCEPT !.folder = x[1]])
    BY <1>8 DEF Unfold
  <2>2. PICK p : p = [page[u] EXCEPT !.folder = x[1]]
    OBVIOUS
  <2>3. p.at = page[u].at /\ p.folder = x[1] /\ p.seen = page[u].seen
    BY <1>5, <2>2 DEF Pages
  <2>4. stage[u] = "page" /\ stale' = stale
    BY <1>8 DEF Unfold, ghost
  <2>5. PICK c : c = Plain("children", x[1])
    OBVIOUS
  <2>6. c.file = x[1] /\ c.to = Root /\ c.name = "children" /\ Asks(u, c) /\ Stage(u, "kids", p)
    BY <1>4, <2>1, <2>2, <2>5
  <2>7. IsDir(c.file)
    BY <1>2, <2>1, <2>6
  <2>8. ASSUME Full(u) PROVE There(p.at) /\ p.folder # p.at
    <3>1. Firm(page[u].at) /\ Lies(x[1], page[u].at)
      BY <2>4, <2>8 DEF Full
    <3>. QED
      BY <2>3, <3>1, DriveOK DEF Firm, There, Lies, Ids, Root
  <2>. QED
    BY <1>1, <1>2, <2>3, <2>4, <2>6, <2>7, <2>8, AskedStrand
<1>9. CASE MoveKid(u)
  <2>1. PICK k \in page[u].todo :
            /\ Asks(u, Call("insertChild", k, page[u].at, NoDoc.name))
            /\ Stage(u, "moving", [page[u] EXCEPT !.todo = @ \ {k}, !.any = @ \/ my[u].ok])
    BY <1>9 DEF MoveKid
  <2>2. PICK p : p = [page[u] EXCEPT !.todo = @ \ {k}, !.any = @ \/ my[u].ok]
    OBVIOUS
  <2>3. /\ p.at = page[u].at /\ p.folder = page[u].folder /\ p.seen = page[u].seen
        /\ p.todo = page[u].todo \ {k}
    BY <1>5, <2>2 DEF Pages
  <2>4. stage[u] = "moving" /\ stale' = stale
    BY <1>9 DEF MoveKid, ghost
  <2>5. PICK c : c = Call("insertChild", k, page[u].at, NoDoc.name)
    OBVIOUS
  <2>6. c.file = k /\ c.to = page[u].at /\ c.name = "insertChild" /\ Asks(u, c) /\ Stage(u, "moving", p)
    BY <2>1, <2>2, <2>5 DEF Call
  <2>7. ASSUME Full(u)
        PROVE  There(p.at) /\ p.folder # p.at /\ Children(p.folder) \subseteq p.todo \union {c.file}
    BY <1>1, <2>3, <2>4, <2>6, <2>7 DEF Full
  <2>. QED
    BY <1>1, <1>2, <2>3, <2>4, <2>6, <2>7, AskedStrand DEF Creators
<1>10. CASE Unfolded(u)
  <2>1. /\ Asks(u, Plain("delete", page[u].folder)) /\ Stage(u, "doing", page[u])
        /\ stale' = stale /\ stage[u] = "moving" /\ page[u].todo = {}
    BY <1>10 DEF Unfolded, ghost
  <2>2. PICK c : c = Plain("delete", page[u].folder)
    OBVIOUS
  <2>3. c.file = page[u].folder /\ c.to = Root /\ c.name = "delete" /\ Asks(u, c)
    BY <1>4, <2>1, <2>2
  <2>4. Full(u) => Children(c.file) = {}
    BY <1>1, <2>1, <2>3 DEF Full
  <2>. QED
    BY <1>1, <1>2, <2>1, <2>3, <2>4, AskedStrand DEF Creators
<1>11. CASE Home(u, "away", NoPage)
  BY <1>1, <1>2, <1>3, <1>11, HomeStrand
<1>12. CASE Shown(u) /\ my[u].ok
  <2>1. PICK p : p = [NoPage EXCEPT !.at = call[u].file, !.seen = my[u].kids]
    OBVIOUS
  <2>2. p.at = call[u].file /\ p.seen = my[u].kids
    BY <2>1 DEF NoPage
  <2>3. Home(u, "page", p) /\ stage[u] = "listing"
    BY <1>12, <2>1 DEF Shown
  <2>4. call[u].name = "children" /\ IsDir(p.at)
    BY <2>2, <2>3 DEF StrandInv, ShapeInv, Waits, Kinds
  <2>5. ASSUME Full(u) PROVE Firm(p.at) /\ \A x \in p.seen : Lies(x[1], p.at)
    <3>1. Listed(u) /\ pc[u] # "path"
      BY <1>1, <1>12 DEF Listed
    <3>. QED
      BY <2>2, <2>3, <2>5, <3>1 DEF Full
  <2>. QED
    BY <1>1, <1>2, <2>2, <2>3, <2>4, <2>5, HomeStrand DEF Creators
<1>13. CASE Kids(u)
  <2>1. PICK p : p = [page[u] EXCEPT !.todo = {x[1] : x \in my[u].kids}]
    OBVIOUS
  <2>2. /\ p.at = page[u].at /\ p.folder = page[u].folder /\ p.seen = page[u].seen
        /\ p.todo = Firsts(my[u].kids)
    BY <1>5, <2>1 DEF Pages, Firsts
  <2>3. Home(u, "moving", p) /\ stage[u] = "kids" /\ my[u].ok
    BY <1>13, <2>1 DEF Kids
  <2>4. call[u].name = "children"
    BY <2>3 DEF StrandInv, ShapeInv, Waits
  <2>5. ASSUME Full(u)
        PROVE  There(p.at) /\ p.folder # p.at /\ Children(p.folder) \subseteq p.todo
    BY <1>1, <2>2, <2>3, <2>5 DEF Full, Listed
  <2>. QED
    BY <1>1, <1>2, <2>2, <2>3, <2>4, <2>5, HomeStrand DEF Creators
<1>. QED
  BY <1>6, <1>7, <1>8, <1>9, <1>10, <1>11, <1>12, <1>13 DEF Act, Shown, Leave

LEMMA InitStrand == Init => StrandInv
<1>. SUFFICES ASSUME Init PROVE StrandInv
  OBVIOUS
<1>1. ShapeInv /\ BytesInv /\ IInv /\ rows \in First
  BY InitShape, InitBytes DEF ShapeInv, TreeInv, Init
<1>2. RowsIn
  <2>. SUFFICES ASSUME NEW f \in Ids, rows[f] # Undef, rows[f].parent \in Ids,
                       rows[rows[f].parent] # Undef
                PROVE  rows[rows[f].parent].folder
    BY DEF RowsIn, IsDir
  <2>. QED
    BY <1>1, FirstIsTree
<1>3. ASSUME NEW u \in Users PROVE Kinds(u) /\ Follows(u) /\ Full(u)
  <2>1. /\ call[u].file = Root /\ call[u].to = Root /\ page[u] = NoPage
        /\ my[u] = [Blank EXCEPT !.ok = FALSE] /\ Idle(u) /\ stage[u] = "away" /\ stale[u] = {}
    BY DEF Init, Plain, Call, Idle
  <2>2. my[u].doc.parent = Root /\ my[u].kids = {} /\ page[u].at = Root /\ page[u].seen = {}
    BY <2>1 DEF Blank, NoDoc, NoPage
  <2>. QED
    BY <2>1, <2>2, RootDir DEF Kinds, Follows, Full, Idle
<1>. QED
  BY <1>1, <1>2, <1>3 DEF StrandInv

LEMMA NextStrand == StrandInv /\ [Next]_vars => StrandInv'
<1>1. ASSUME StrandInv, UNCHANGED vars PROVE StrandInv'
  <2>1. ShapeInv' /\ BytesInv'
    BY <1>1, NextShape, NextBytes DEF StrandInv
  <2>2. UNCHANGED <<rows, pc, call, my, stage, page, given, stale>>
    BY <1>1 DEF vars
  <2>3. RowsIn'
    BY <1>1, <2>2, RowsStay
  <2>4. ASSUME NEW u \in Users PROVE Kinds(u)' /\ Follows(u)'
    BY <1>1, <2>2 DEF StrandInv, Kinds, Follows, Idle, IsDir, IsPlain
  <2>5. KindKept /\ SameShape
    BY <1>1, <2>2, RowsStay
  <2>6. ASSUME NEW u \in Users, Full(u) PROVE Full(u)'
    BY <1>1, <2>2, <2>5, <2>6, AsideFull
  <2>7. Careful' <=> Careful
    BY <2>2 DEF Careful, Given
  <2>. QED
    BY <1>1, <2>1, <2>2, <2>3, <2>4, <2>6, <2>7 DEF StrandInv
<1>2. ASSUME StrandInv, NEW u \in Users, Serve(u) PROVE StrandInv'
  BY <1>2, ReadStrand, QueryStrand, PathStrand, CreateFolderStrand, HalvesStrand, HalfStrand,
     BreaksOffStrand, SaveStrand DEF Serve
<1>. QED
  BY <1>1, <1>2, ActStrand, WorkerEndsStrand DEF Next, Rest

\* No row goes but the one that a request deletes.
LEMMA GoesDeleted ==
    ASSUME IInv, [Next]_vars, NEW f \in Ids, rows[f] # Undef, rows'[f] = Undef
    PROVE  \E u \in Users : RemoveRow(u) /\ call[u].file = f
<1>1. rows' # rows
  OBVIOUS
<1>2. PICK u \in Users : Serve(u) \/ Act(u)
  BY <1>1 DEF Next, Rest, WorkerEnds, store, vars
<1>3. CASE Act(u)
  BY <1>1, <1>3 DEF Act, Visit, Shown, Choose, Leave, Unfold, Kids, MoveKid, Unfolded, Asks, Home, store
<1>4. CASE Enter(u) \/ Read(u) \/ ReadFails(u) \/ Climb(u) \/ Query(u) \/ Trace(u) \/ PathOn(u)
             \/ PathEnds(u) \/ Refuse(u) \/ Accept(u) \/ Delete(u) \/ WriteBytes(u) \/ Unlink(u)
             \/ BothDone(u) \/ CloseAgain(u) \/ BreaksOff(u)
  BY <1>1, <1>4 DEF Enter, Read, ReadFails, Climb, Query, Trace, PathOn, PathEnds, Refuse, Accept,
     Delete, WriteBytes, Unlink, BothDone, CloseAgain, BreaksOff, Unplaced, store
<1>5. ASSUME NEW k \in Ids, NEW row \in Rows, rows' = [rows EXCEPT ![k] = row] PROVE FALSE
  BY <1>5, DriveOK DEF IInv, TypeOK
<1>6. CASE CreateFolder(u)
  <2>. DEFINE new == [parent |-> call[u].file, name |-> call[u].info, folder |-> TRUE]
  <2>1. new \in Rows
    BY OwnOK DEF Rows
  <2>2. used < MaxId /\ used' = used + 1 /\ rows' = [rows EXCEPT ![used'] = new]
    BY <1>1, <1>6 DEF CreateFolder, Unplaced, store
  <2>3. used' \in Ids
    BY <2>2, NextId DEF IInv
  <2>. HIDE DEF new
  <2>. QED
    BY <1>5, <2>1, <2>2, <2>3
<1>7. CASE AddRow(u)
  <2>1. rows' = [rows EXCEPT ![my[u].new] = NewRow(u)] /\ my[u].new \in Ids
    BY <1>1, <1>7 DEF AddRow, Half, IInv, Control, Halves
  <2>2. NewRow(u) \in Rows
    BY OwnOK DEF NewRow, Rows
  <2>. QED
    BY <1>5, <2>1, <2>2
<1>8. CASE Save(u)
  <2>1. /\ IsRow(call[u].file) /\ rows' = [rows EXCEPT ![call[u].file] = Changed(u)]
        /\ call[u].name \in {"setInfo", "insertChild", "removeChild"}
    BY <1>1, <1>8 DEF Save, Unplaced, store, Gathered
  <2>2. call[u].file \in Ids
    BY <2>1, OwnOK, NodesOK DEF IInv
  <2>3. Changed(u) \in Rows
    BY <2>1, OwnOK DEF Changed, Rows, Nodes
  <2>. QED
    BY <1>5, <2>1, <2>2, <2>3
<1>9. CASE RemoveRow(u)
  BY <1>1, <1>9 DEF RemoveRow, IInv, TypeOK
<1>. QED
  BY <1>2, <1>3, <1>4, <1>6, <1>7, <1>8, <1>9 DEF Serve

LEMMA StrandEnough ==
    ASSUME StrandInv, [Next]_vars, Given.failing \intersect {"read", "query", "save"} = {},
           NEW f \in Ids, rows[f] # Undef, rows'[f] = Undef
    PROVE  \/ \E u \in Users : /\ pc[u] = "halves" /\ call[u].file = f
                               /\ stale[u] # {}
           \/ Children(f) = {}
<1>1. PICK u \in Users : RemoveRow(u) /\ call[u].file = f
  BY GoesDeleted DEF StrandInv, ShapeInv, TreeInv
<1>2. pc[u] = "halves" /\ call[u].name = "delete" /\ ~Idle(u)
  BY <1>1 DEF RemoveRow, Half, Idle
<1>3. ASSUME stale[u] = {} PROVE Children(f) = {}
  <2>1. stage[u] = "doing"
    BY <1>2, DoingStage
  <2>2. IsPlain(f) \/ Children(f) = {}
    BY <1>1, <1>2, <1>3, <2>1 DEF StrandInv, Careful, Full
  <2>3. CASE IsPlain(f)
    BY <2>3 DEF StrandInv, RowsIn, IsDir, IsPlain, Children
  <2>. QED
    BY <2>2, <2>3
<1>. QED
  BY <1>1, <1>2, <1>3

\* For any users, pages and drive: as long as no read, no query and no write of a
\* changed file fails, a folder that is deleted from a page that is up to date has nothing left in it.
THEOREM FoldersEmptied == Spec => NothingStranded
<1>. DEFINE Stays ==
       Given.failing \intersect {"read", "query", "save"} = {} =>
          \A f \in Ids :
             rows[f] # Undef /\ rows'[f] = Undef =>
                \/ \E u \in Users : /\ pc[u] = "halves" /\ call[u].file = f
                                    /\ stale[u] # {}
                \/ Children(f) = {}
<1>1. StrandInv /\ [Next]_vars => Stays
  BY StrandEnough
<1>. HIDE DEF Stays
<1>2. Spec => [][Stays]_vars
  BY <1>1, InitStrand, NextStrand, PTL DEF Spec
<1>. QED
  BY <1>2 DEF NothingStranded, Stays
=============================================================================
