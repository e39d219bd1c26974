-------------------------- MODULE UserAccountsProofs -------------------------
(***************************************************************************)
(* Whatever members, requests and conditions there are: no two rows have   *)
(* one _id, no two transactions write one row, and what a transaction has  *)
(* taken out is there until it ends.  Upgrades that are alone with their   *)
(* member are seen whole; nobody comes to have two records where a         *)
(* squadron is run so that the lookups before each addition can tell; and  *)
(* where members go by upgrades only, nobody inherits what another had.    *)
(***************************************************************************)
EXTENDS UserAccounts, TLAPS

\* The operations that pass a place.
Doers(label) ==
    CASE label \in {"newId", "addPerson"} -> Logins
      [] label \in {"info", "count", "addToken", "mail"} -> Logins \union {"request"}
      [] label = "validate" -> {"finish"}
      [] label = "member" -> Creating \union {"discord"}
      [] label \in Making \ {"member"} -> Creating
      [] label \in {"find", "erase"} -> {"delete", "upgrade"}
      [] label \in {"finds", "replace"} -> {"upgrade"}
      [] label \in {"start", "commit"} -> {"upgrade", "roles"}
      [] label \in {"clear", "set", "put"} -> {"roles"}
      [] label \in {"peek", "register"} -> {"discord"}

\* The places where a transaction may run, and those where it has written nothing.
InTx == {"erase", "finds", "replace", "commit", "clear", "set", "put"}
Unwritten == {"erase", "clear"}

\* The places where a request knows whom it is about.
Knows == {"addPerson", "info", "count", "addToken", "mail", "validate", "put"}
            \union Making

\* The types, without the sizes of what is in rows.
Plain ==
    /\ rows \subseteq Rows
    /\ pc \in [Requests -> Labels]
    /\ op \in [Requests -> Ops \union {None}]
    /\ my \in [Requests -> Mine \union {None}]
    /\ tx \in [Requests -> Txs]
    /\ given \in DOMAIN Conditions

\* What a request has where it needs it.
Has(r) ==
    /\ pc[r] # "idle" => op[r] \in Ops /\ my[r] \in Mine
    /\ Active(r) => op[r].name \in Doers(pc[r])
    /\ pc[r] \in Knows => my[r].member \in Refs
    /\ pc[r] = "save" => my[r].found \in Rows
    /\ pc[r] = "put" => my[r].member \in my[r].left
    /\ pc[r] # "idle" => my[r].token = None \/ my[r].token.of = "tokens"
    /\ pc[r] # "idle" => \A x \in my[r].todo : x.of \in Updated
    /\ tx[r].open => pc[r] \in InTx /\ Is(r, {"upgrade", "roles"})
    /\ pc[r] = "clear" => tx[r].open
    /\ pc[r] \in Unwritten => tx[r].out = {} /\ tx[r].in = {}

Control == \A r \in Requests : Has(r)

\* One row for each _id, in what is stored and in what each transaction sees.
OneKey(S) == \A x, y \in S : Key(x) = Key(y) => x = y

Holds(r) ==
    /\ tx[r].out \subseteq rows
    /\ OneKey(tx[r].in)
    /\ \A x \in tx[r].in, y \in rows \ tx[r].out : Key(x) # Key(y)
    /\ \A x \in tx[r].in : x.by # r => \E y \in tx[r].out : Key(y) = Key(x)
    /\ \A x \in tx[r].out : x.of # "tokens"
    /\ ~tx[r].open => tx[r] = NoTx

Locks ==
    /\ OneKey(rows)
    /\ \A r \in Requests : Holds(r)
    /\ \A r, s \in Requests : r # s => tx[r].out \intersect tx[s].out = {}

\* The places where a request has added its row to a table.
Late(t) ==
    CASE t = "people" -> Labels \ {"idle", "newId", "addPerson"}
      [] t = "tokens" -> Labels \ {"idle", "newId", "addPerson", "info", "count", "addToken"}
      [] t = "users" -> Ended \union {"read", "save", "drop", "mail"}
      [] t = "perms" -> Ended \union {"set", "put", "commit"}
      [] t = "discord" -> Ended

\* A request adds one row to a table, of permissions one for each of its list.
Spent(x) ==
    x.by \in Requests =>
        /\ pc[x.by] \in Late(x.of)
        /\ x.of = "perms" => x.for \notin my[x.by].left

Fresh ==
    /\ \A x \in rows : Spent(x)
    /\ \A r \in Requests : \A x \in tx[r].in : Spent(x)

IInv == Plain /\ Control /\ Locks /\ Fresh

\* There is a row by that _id.
Known(x) ==
    \/ \E y \in rows : Key(y) = Key(x)
    \/ \E r \in Requests : \E y \in tx[r].in : Key(y) = Key(x)

\* What no step undoes: who has added a row does not come to that place again.
Onward ==
    \A r \in Requests :
        /\ \A t \in Tables : pc[r] \in Late(t) => pc'[r] \in Late(t)
        /\ pc[r] \in Late("perms") => my'[r].left \subseteq my[r].left

-----------------------------------------------------------------------------
(* Upgrades that are alone with their member *)

Alone ==
    /\ {"erase", "replace"} \intersect Given.failing = {}
    /\ \A a \in OpNames : OneAtATime(a, "upgrade")

Moving(r) == Active(r) /\ Is(r, {"upgrade"})

Apart ==
    \A r, s \in Requests : r # s /\ Moving(r) /\ Active(s) => ~Related(op[r], op[s])

\* An upgrade takes out rows of its member, and puts in rows of the CAP member.  It sees
\* the person no more once it has been deleted, and what it has not read as a row of the
\* member is not one.
Whole(r) ==
    /\ my[r].member = op[r].member
    /\ pc[r] \in {"erase", "finds", "replace", "commit"} => tx[r].open
    /\ \A x \in tx[r].out : x.member = op[r].member
    /\ \A x \in tx[r].in : x.member = op[r].to
    /\ pc[r] \in {"finds", "replace", "commit"} =>
          \A y \in View(r) : y.of = "people" => y.member # op[r].member
    /\ pc[r] \in {"replace", "commit"} =>
          \A y \in View(r) : y.of \in Owned /\ y.member = op[r].member =>
              \E x \in my[r].todo : Key(x) = Key(y)
    /\ pc[r] = "replace" =>
          /\ OneKey(my[r].todo)
          /\ \A x \in my[r].todo : \E y \in View(r) :
                Key(y) = Key(x) /\ y.member = op[r].member
    /\ pc[r] = "commit" => my[r].todo = {}

\* Permissions that are set stay those of the member they were of.
Stays(r) == \A x \in tx[r].in, y \in tx[r].out : Key(x) = Key(y) => x.member = y.member

Upgrades ==
    Alone =>
        /\ Apart
        /\ \A r \in Requests : Moving(r) => Whole(r)
        /\ \A r \in Requests : Active(r) /\ Is(r, {"roles"}) => Stays(r)
        /\ \A r \in Requests : Active(r) /\ Is(r, {"finish"}) => my[r].member = op[r].member

-----------------------------------------------------------------------------
(* Rows, keys and data *)

LEMMA OnlyIn == ASSUME NEW S PROVE Only(S) \in S \union {None}
BY DEF Only

\* Who passes a place, place by place.
LEMMA DoersAre ==
    /\ Doers("newId") = Logins /\ Doers("addPerson") = Logins
    /\ \A l \in {"info", "count", "addToken", "mail"} : Doers(l) = Logins \union {"request"}
    /\ Doers("validate") = {"finish"}
    /\ Doers("member") = Creating \union {"discord"}
    /\ \A l \in Making \ {"member"} : Doers(l) = Creating
    /\ Doers("find") = {"delete", "upgrade"} /\ Doers("erase") = {"delete", "upgrade"}
    /\ Doers("finds") = {"upgrade"} /\ Doers("replace") = {"upgrade"}
    /\ Doers("start") = {"upgrade", "roles"} /\ Doers("commit") = {"upgrade", "roles"}
    /\ \A l \in {"clear", "set", "put"} : Doers(l) = {"roles"}
    /\ Doers("peek") = {"discord"} /\ Doers("register") = {"discord"}
BY DEF Doers, Making

LEMMA NoneApart ==
    /\ None \notin Refs /\ None \notin Names /\ None \notin Makers /\ None \notin Rows
    /\ Requests \intersect Seeds = {}
BY AccountsOK

LEMMA OpFacts ==
    ASSUME NEW o \in Ops
    PROVE  /\ o.name \in OpNames /\ o.member \in Refs \union {None}
           /\ o.to \in Cadets \union {None} /\ o.user \in Names \union {None}
           /\ o.list \subseteq Refs /\ o.weak \in BOOLEAN
           /\ WellFormed(o)
BY DEF Ops

LEMMA RowOK ==
    ASSUME NEW r \in Requests, NEW t \in Tables, NEW m \in Refs,
           NEW n \in Names \union {None}, NEW p \in Makers \union {None}
    PROVE  /\ Row(r, t, m, n, p) \in Rows
           /\ Key(Row(r, t, m, n, p)) = <<t, r, m>>
           /\ Row(r, t, m, n, p).of = t /\ Row(r, t, m, n, p).by = r
           /\ Row(r, t, m, n, p).for = m
BY DEF Row, Rows, Key, Makers

\* What is rewritten keeps its _id.
LEMMA EditOK ==
    ASSUME NEW x \in Rows, NEW m \in Refs, NEW n \in Names \union {None},
           NEW p \in Makers
    PROVE  /\ [x EXCEPT !.member = m] \in Rows /\ Key([x EXCEPT !.member = m]) = Key(x)
           /\ [x EXCEPT !.name = n, !.pw = p] \in Rows
           /\ Key([x EXCEPT !.name = n, !.pw = p]) = Key(x)
           /\ [x EXCEPT !.pw = p] \in Rows /\ Key([x EXCEPT !.pw = p]) = Key(x)
BY DEF Rows, Key

LEMMA KeyFacts ==
    ASSUME NEW x \in Rows, NEW y \in Rows, Key(x) = Key(y)
    PROVE  x.of = y.of /\ x.by = y.by /\ x.for = y.for
BY DEF Key

LEMMA ViewOK ==
    ASSUME Plain, NEW r \in Requests
    PROVE  /\ View(r) \subseteq Rows
           /\ tx[r] = NoTx => View(r) = rows
BY DEF Plain, View, Txs, NoTx

LEMMA AboutOK ==
    ASSUME Plain, NEW r \in Requests, NEW t, NEW m
    PROVE  /\ About(r, t, m) \subseteq Rows /\ About(r, t, m) \subseteq View(r)
           /\ Named(r, t, m) \subseteq Rows
           /\ \A x \in About(r, t, m) : x.of = t
BY ViewOK DEF About, Named

\* A row that its request has yet to add has a new _id.
LEMMA NewKey ==
    ASSUME IInv, NEW x \in Rows, x.by \in Requests, ~Spent(x)
    PROVE  /\ \A y \in rows : Key(y) # Key(x)
           /\ \A r \in Requests : \A y \in tx[r].in : Key(y) # Key(x)
<1>1. \A y \in Rows : Spent(y) => Key(y) # Key(x)
  BY KeyFacts DEF Spent
<1>2. rows \subseteq Rows /\ \A r \in Requests : tx[r].in \subseteq Rows
  BY DEF IInv, Plain, Txs
<1>. QED
  BY <1>1, <1>2 DEF IInv, Fresh

-----------------------------------------------------------------------------
(* What each way of writing does to the locks *)

\* Rows are put in the place of others, outside of transactions, or removed.
LEMMA Edited ==
    ASSUME Plain, Locks, NEW out, NEW in \in SUBSET Rows,
           Stores(out, in), OneKey(in),
           \A x \in in : \E y \in out \intersect rows : Key(y) = Key(x),
           \A s \in Requests : tx[s].out \intersect out = {}
    PROVE  Locks'
<1>1. rows' = (rows \ out) \union in /\ tx' = tx
  BY DEF Stores
<1>2. OneKey(rows')
  BY <1>1 DEF OneKey, Locks
<1>3. ASSUME NEW s \in Requests PROVE Holds(s)'
  <2>1. Holds(s)
    BY DEF Locks
  <2>2. tx[s].out \subseteq rows'
    BY <1>1, <2>1 DEF Holds
  <2>3. ASSUME NEW x \in tx[s].in, NEW y \in rows' \ tx[s].out PROVE Key(x) # Key(y)
    <3>1. CASE y \in rows
      BY <2>1, <3>1 DEF Holds
    <3>2. CASE y \in in
      <4>1. PICK z \in out \intersect rows : Key(z) = Key(y)
        BY <3>2
      <4>2. z \notin tx[s].out
        BY <4>1
      <4>. QED
        BY <2>1, <4>1, <4>2 DEF Holds
    <3>. QED
      BY <1>1, <3>1, <3>2
  <2>. QED
    BY <1>1, <2>1, <2>2, <2>3 DEF Holds
<1>4. \A r, s \in Requests : r # s => tx'[r].out \intersect tx'[s].out = {}
  BY <1>1 DEF Locks
<1>. QED
  BY <1>2, <1>3, <1>4 DEF Locks

\* A row with a new _id is added, outside of transactions.
LEMMA Added ==
    ASSUME Plain, Locks, NEW x \in Rows, Stores({}, {x}),
           \A y \in rows : Key(y) # Key(x),
           \A s \in Requests : \A y \in tx[s].in : Key(y) # Key(x)
    PROVE  Locks'
<1>1. rows' = rows \union {x} /\ tx' = tx
  BY DEF Stores
<1>2. OneKey(rows')
  BY <1>1 DEF OneKey, Locks
<1>3. ASSUME NEW s \in Requests PROVE Holds(s)'
  <2>1. Holds(s)
    BY DEF Locks
  <2>. QED
    BY <1>1, <2>1 DEF Holds
<1>. QED
  BY <1>1, <1>2, <1>3 DEF Locks

\* A transaction that has put nothing in begins, takes rows out, or is rolled back.
LEMMA Taken ==
    ASSUME Plain, Locks, NEW r \in Requests, NEW t \in Txs,
           UNCHANGED rows, tx' = [tx EXCEPT ![r] = t],
           t.in = {}, t.open \/ t = NoTx,
           t.out \subseteq rows, \A x \in t.out : x.of # "tokens",
           \A s \in Requests \ {r} : tx[s].out \intersect t.out = {}
    PROVE  Locks'
<1>1. tx'[r] = t /\ \A s \in Requests \ {r} : tx'[s] = tx[s]
  BY DEF Plain
<1>2. Holds(r)'
  BY <1>1 DEF Holds, OneKey
<1>3. ASSUME NEW s \in Requests \ {r} PROVE Holds(s)'
  BY <1>1 DEF Holds, Locks
<1>4. \A q, s \in Requests : q # s => tx'[q].out \intersect tx'[s].out = {}
  BY <1>1 DEF Locks
<1>. QED
  BY <1>2, <1>3, <1>4 DEF Locks, OneKey

\* Some transactions are rolled back, or nothing is written.
LEMMA RolledBack ==
    ASSUME Plain, Locks, UNCHANGED rows,
           \A s \in Requests : tx'[s] \in {tx[s], NoTx}
    PROVE  Locks'
<1>1. ASSUME NEW s \in Requests PROVE Holds(s)'
  <2>1. CASE tx'[s] = tx[s]
    BY <2>1 DEF Holds, Locks
  <2>2. CASE tx'[s] = NoTx
    BY <2>2 DEF Holds, NoTx, OneKey
  <2>. QED
    BY <2>1, <2>2
<1>2. \A s \in Requests : tx'[s].out \subseteq tx[s].out
  BY DEF NoTx
<1>3. \A q, s \in Requests : q # s => tx'[q].out \intersect tx'[s].out = {}
  BY <1>2 DEF Locks
<1>. QED
  BY <1>1, <1>3 DEF Locks, OneKey

\* Rows are put in the place of others in a transaction.
LEMMA EditedInTx ==
    ASSUME Plain, Locks, NEW r \in Requests, tx[r].open,
           NEW out \in SUBSET View(r), NEW in \in SUBSET Rows,
           Writes(r, out, in), OneKey(in),
           \A x \in in : \E y \in out : Key(y) = Key(x),
           \A x \in out : x.of # "tokens",
           \A s \in Requests \ {r} : tx[s].out \intersect out = {}
    PROVE  Locks'
<1>. DEFINE o == tx[r].out
            i == tx[r].in
<1>1. /\ tx' = [tx EXCEPT ![r].out = o \union (out \intersect rows),
                          ![r].in = (i \ out) \union in]
      /\ rows' = rows
  BY DEF Writes
<1>2. /\ tx'[r].out = o \union (out \intersect rows)
      /\ tx'[r].in = (i \ out) \union in
      /\ tx'[r].open
      /\ \A s \in Requests \ {r} : tx'[s] = tx[s]
  BY <1>1 DEF Plain, Txs
<1>3. /\ OneKey(rows) /\ OneKey(i) /\ o \subseteq rows
      /\ \A x \in i, y \in rows \ o : Key(x) # Key(y)
      /\ \A x \in i : x.by # r => \E y \in o : Key(y) = Key(x)
      /\ \A x \in o : x.of # "tokens"
      /\ \A s \in Requests \ {r} : tx[s].out \intersect o = {}
  BY DEF Locks, Holds
<1>4. out \subseteq (rows \ o) \union i
  BY DEF View
<1>5. OneKey((i \ out) \union in)
  <2>1. ASSUME NEW x \in i \ out, NEW y \in in PROVE Key(x) # Key(y)
    <3>1. PICK z \in out : Key(z) = Key(y)
      OBVIOUS
    <3>. QED
      BY <1>3, <1>4, <3>1 DEF OneKey
  <2>. QED
    BY <1>3, <2>1 DEF OneKey
<1>6. ASSUME NEW x \in (i \ out) \union in, NEW y \in rows \ tx'[r].out
      PROVE  Key(x) # Key(y)
  <2>1. CASE x \in i
    BY <1>2, <1>3, <2>1
  <2>2. CASE x \in in
    <3>1. PICK z \in out : Key(z) = Key(x)
      BY <2>2
    <3>2. CASE z \in i
      BY <1>2, <1>3, <3>1, <3>2
    <3>3. CASE z \in rows
      BY <1>2, <1>3, <3>1, <3>3 DEF OneKey
    <3>. QED
      BY <1>4, <3>2, <3>3
  <2>. QED
    BY <2>1, <2>2
<1>7. ASSUME NEW x \in (i \ out) \union in, x.by # r
      PROVE  \E y \in tx'[r].out : Key(y) = Key(x)
  <2>1. CASE x \in i
    BY <1>2, <1>3, <1>7, <2>1
  <2>2. CASE x \in in
    <3>1. PICK z \in out : Key(z) = Key(x)
      BY <2>2
    <3>2. CASE z \in i
      <4>1. z.by = x.by
        BY <2>2, <3>1 DEF Key
      <4>. QED
        BY <1>2, <1>3, <1>7, <3>1, <3>2, <4>1
    <3>3. CASE z \in rows
      BY <1>2, <3>1, <3>3
    <3>. QED
      BY <1>4, <3>2, <3>3
  <2>. QED
    BY <2>1, <2>2
<1>8. Holds(r)'
  <2>1. tx'[r].out \subseteq rows' /\ \A x \in tx'[r].out : x.of # "tokens"
    BY <1>1, <1>2, <1>3
  <2>. QED
    BY <1>1, <1>2, <1>5, <1>6, <1>7, <2>1 DEF Holds
<1>9. ASSUME NEW s \in Requests \ {r} PROVE Holds(s)'
  <2>1. Holds(s) /\ rows' = rows /\ tx'[s] = tx[s]
    BY <1>1, <1>2 DEF Locks
  <2>. QED
    BY <2>1 DEF Holds
<1>10. \A q, s \in Requests : q # s => tx'[q].out \intersect tx'[s].out = {}
  BY <1>2, <1>3 DEF Locks
<1>. QED
  BY <1>1, <1>3, <1>8, <1>9, <1>10 DEF Locks

\* A row with a new _id is added in a transaction.
LEMMA AddedInTx ==
    ASSUME Plain, Locks, NEW r \in Requests, tx[r].open,
           NEW x \in Rows, x.by = r, Writes(r, {}, {x}),
           \A y \in rows : Key(y) # Key(x),
           \A y \in tx[r].in : Key(y) # Key(x)
    PROVE  Locks'
<1>1. /\ tx'[r].out = tx[r].out /\ tx'[r].in = tx[r].in \union {x} /\ tx'[r].open
      /\ \A s \in Requests \ {r} : tx'[s] = tx[s]
      /\ rows' = rows
  BY DEF Writes, Plain, Txs
<1>2. Holds(r)
  BY DEF Locks
<1>3. OneKey(tx[r].in \union {x})
  BY <1>2 DEF Holds, OneKey
<1>4. Holds(r)'
  BY <1>1, <1>2, <1>3 DEF Holds
<1>5. ASSUME NEW s \in Requests \ {r} PROVE Holds(s)'
  BY <1>1 DEF Holds, Locks
<1>6. \A q, s \in Requests : q # s => tx'[q].out \intersect tx'[s].out = {}
  BY <1>1 DEF Locks
<1>. QED
  BY <1>1, <1>4, <1>5, <1>6 DEF Locks

\* A transaction is committed.
LEMMA Committed ==
    ASSUME Plain, Locks, NEW r \in Requests,
           rows' = View(r), tx' = [tx EXCEPT ![r] = NoTx]
    PROVE  Locks'
<1>. DEFINE o == tx[r].out
            i == tx[r].in
<1>1. tx'[r] = NoTx /\ \A s \in Requests \ {r} : tx'[s] = tx[s]
  BY DEF Plain
<1>2. /\ OneKey(rows) /\ OneKey(i) /\ o \subseteq rows
      /\ \A x \in i, y \in rows \ o : Key(x) # Key(y)
      /\ \A x \in i : x.by # r => \E y \in o : Key(y) = Key(x)
  BY DEF Locks, Holds
<1>3. rows' = (rows \ o) \union i
  BY DEF View
<1>4. OneKey(rows')
  BY <1>2, <1>3 DEF OneKey
<1>5. Holds(r)'
  BY <1>1 DEF Holds, NoTx, OneKey
<1>6. ASSUME NEW s \in Requests \ {r} PROVE Holds(s)'
  <2>1. Holds(s) /\ tx[s].out \intersect o = {}
    BY DEF Locks
  <2>2. ASSUME NEW x \in tx[s].in, NEW y \in i PROVE Key(x) # Key(y)
    <3>. SUFFICES ASSUME Key(x) = Key(y) PROVE FALSE
      OBVIOUS
    <3>1. x.by = y.by
      BY DEF Key
    <3>2. CASE x.by # s
      <4>1. PICK z \in tx[s].out : Key(z) = Key(x)
        BY <2>1, <3>2 DEF Holds
      <4>2. z \in rows \ o
        BY <2>1, <4>1 DEF Holds
      <4>. QED
        BY <1>2, <4>1, <4>2
    <3>3. CASE x.by = s
      <4>1. PICK z \in o : Key(z) = Key(y)
        BY <1>2, <3>1, <3>3
      <4>2. z \in rows \ tx[s].out
        BY <1>2, <2>1, <4>1
      <4>. QED
        BY <2>1, <4>1, <4>2 DEF Holds
    <3>. QED
      BY <3>2, <3>3
  <2>3. ASSUME NEW x \in tx[s].in, NEW y \in rows' \ tx[s].out PROVE Key(x) # Key(y)
    BY <1>3, <2>1, <2>2 DEF Holds
  <2>4. tx[s].out \subseteq rows'
    BY <1>3, <2>1 DEF Holds
  <2>. QED
    BY <1>1, <2>1, <2>3, <2>4 DEF Holds
<1>7. \A q, s \in Requests : q # s => tx'[q].out \intersect tx'[s].out = {}
  BY <1>1 DEF Locks, NoTx
<1>. QED
  BY <1>4, <1>5, <1>6, <1>7 DEF Locks

-----------------------------------------------------------------------------
(* What each step does to who has added what *)

LEMMA SpentStays ==
    ASSUME Onward, NEW x \in Rows, NEW y \in Rows, Key(x) = Key(y), Spent(y)
    PROVE  Spent(x)'
<1>1. x.of = y.of /\ x.by = y.by /\ x.for = y.for /\ x.of \in Tables
  BY KeyFacts DEF Rows
<1>. QED
  BY <1>1 DEF Onward, Spent

\* Every row there is now was there by its _id before, or has been added by its request.
LEMMA FreshStays ==
    ASSUME IInv, Onward, rows' \subseteq Rows, \A s \in Requests : tx'[s].in \subseteq Rows,
           \A x \in rows' : Known(x) \/ Spent(x)',
           \A s \in Requests : \A x \in tx'[s].in : Known(x) \/ Spent(x)'
    PROVE  Fresh'
<1>1. \A x \in Rows : Known(x) => Spent(x)'
  <2>1. rows \subseteq Rows /\ \A s \in Requests : tx[s].in \subseteq Rows
    BY DEF IInv, Plain, Txs
  <2>. QED
    BY <2>1, SpentStays DEF IInv, Fresh, Known
<1>. QED
  BY <1>1 DEF Fresh

-----------------------------------------------------------------------------
(* Steps of one request *)

\* With this place, closure and transaction request r has what it needs.
Fits(r, l, m, t) ==
    /\ l \in Labels \ {"idle"} /\ m \in Mine /\ t \in Txs
    /\ l \in Ended \/ op[r].name \in Doers(l)
    /\ l \in Knows => m.member \in Refs
    /\ l = "save" => m.found \in Rows
    /\ l = "put" => m.member \in m.left
    /\ m.token = None \/ m.token.of = "tokens"
    /\ \A x \in m.todo : x.of \in Updated
    /\ t.open => l \in InTx /\ Is(r, {"upgrade", "roles"})
    /\ l = "clear" => t.open
    /\ l \in Unwritten => t.out = {} /\ t.in = {}
    /\ \A k \in Tables : pc[r] \in Late(k) => l \in Late(k)
    /\ pc[r] \in Late("perms") => m.left \subseteq my[r].left

LEMMA Moved ==
    ASSUME IInv, NEW r \in Requests, NEW l, NEW m, NEW t, Fits(r, l, m, t),
           pc[r] # "idle", pc' = [pc EXCEPT ![r] = l], my' = [my EXCEPT ![r] = m],
           tx' = [tx EXCEPT ![r] = t], UNCHANGED <<op, given>>,
           rows' \subseteq Rows, Locks',
           \A x \in rows' : Known(x) \/ Spent(x)',
           \A x \in t.in : Known(x) \/ Spent(x)'
    PROVE  IInv'
<1>1. /\ pc'[r] = l /\ my'[r] = m /\ tx'[r] = t /\ op'[r] = op[r]
      /\ \A s \in Requests \ {r} :
            pc'[s] = pc[s] /\ my'[s] = my[s] /\ tx'[s] = tx[s] /\ op'[s] = op[s]
  BY DEF IInv, Plain
<1>2. Plain'
  <2>1. l \in Labels /\ m \in Mine /\ t \in Txs
    BY DEF Fits
  <2>. QED
    BY <2>1 DEF IInv, Plain
<1>3. Control'
  <2>1. Has(r)'
    <3>1. op[r] \in Ops
      BY DEF IInv, Control, Has
    <3>. QED
      BY <1>1, <3>1 DEF Fits, Has, Active, Is
  <2>2. ASSUME NEW s \in Requests \ {r} PROVE Has(s)'
    BY <1>1 DEF IInv, Control, Has, Active, Is
  <2>. QED
    BY <2>1, <2>2 DEF Control
<1>4. Onward
  BY <1>1 DEF Onward, Fits
<1>5. Fresh'
  <2>1. \A s \in Requests : tx'[s].in \subseteq Rows
    BY <1>2 DEF Plain, Txs
  <2>2. ASSUME NEW s \in Requests, NEW x \in tx'[s].in PROVE Known(x) \/ Spent(x)'
    BY <1>1 DEF Known
  <2>. QED
    BY <1>4, <2>1, <2>2, FreshStays
<1>. QED
  BY <1>2, <1>3, <1>5 DEF IInv

\* A step that only reads.
LEMMA ReadStep ==
    ASSUME IInv, NEW r \in Requests, NEW l, NEW m, Fits(r, l, m, tx[r]),
           pc[r] # "idle", Reads(r, l, m)
    PROVE  IInv'
<1>1. /\ pc' = [pc EXCEPT ![r] = l] /\ my' = [my EXCEPT ![r] = m]
      /\ tx' = [tx EXCEPT ![r] = tx[r]] /\ tx' = tx
      /\ UNCHANGED <<rows, op, given>>
  BY DEF Reads, Goto, Keeps, IInv, Plain
<1>2. Locks'
  BY <1>1, RolledBack DEF IInv
<1>3. /\ rows' \subseteq Rows
      /\ \A x \in rows' : Known(x)
      /\ \A x \in tx[r].in : Known(x)
  BY <1>1 DEF IInv, Plain, Known
<1>. QED
  BY <1>1, <1>2, <1>3, Moved

LEMMA AnswerStep ==
    ASSUME IInv, NEW r \in Requests, NEW l, Fits(r, l, my[r], tx[r]),
           pc[r] # "idle", Answers(r, l)
    PROVE  IInv'
<1>1. Reads(r, l, my[r])
  BY DEF Answers, Reads, Keeps, IInv, Plain
<1>. QED
  BY <1>1, ReadStep

\* A step that writes outside of transactions.
LEMMA WriteStep ==
    ASSUME IInv, NEW r \in Requests, NEW l, NEW m, Fits(r, l, m, tx[r]),
           pc[r] # "idle", Goto(r, l), Keeps(r, m), UNCHANGED <<op, tx, given>>,
           rows' \subseteq Rows, Locks', \A x \in rows' : Known(x) \/ Spent(x)'
    PROVE  IInv'
<1>1. /\ pc' = [pc EXCEPT ![r] = l] /\ my' = [my EXCEPT ![r] = m]
      /\ tx' = [tx EXCEPT ![r] = tx[r]]
  BY DEF Goto, Keeps, IInv, Plain
<1>2. \A x \in tx[r].in : Known(x)
  BY DEF Known
<1>. QED
  BY <1>1, <1>2, Moved

\* What is known of a request at a place outside of transactions.
LEMMA AtPlace ==
    ASSUME IInv, NEW r \in Requests, pc[r] # "idle"
    PROVE  /\ op[r] \in Ops /\ my[r] \in Mine /\ tx[r] \in Txs
           /\ pc[r] \notin Ended => op[r].name \in Doers(pc[r])
           /\ my[r].token = None \/ my[r].token.of = "tokens"
           /\ \A x \in my[r].todo : x.of \in Updated
           /\ pc[r] \notin InTx => tx[r] = NoTx /\ ~tx[r].open
           /\ pc[r] \in Knows => my[r].member \in Refs
<1>1. Has(r) /\ Holds(r)
  BY DEF IInv, Control, Locks
<1>2. tx[r] \in Txs
  BY DEF IInv, Plain
<1>. QED
  BY <1>1, <1>2 DEF Has, Holds, Active

\* Where a request goes on to outside of transactions, with what its closures held.
LEMMA GoesOn ==
    ASSUME IInv, NEW r \in Requests, pc[r] \notin InTx \union {"idle"}, NEW l,
           l \in Labels \ (InTx \union {"idle", "save"}),
           l \in Ended \/ op[r].name \in Doers(l),
           l \in Knows => my[r].member \in Refs,
           \A k \in Tables : pc[r] \in Late(k) => l \in Late(k)
    PROVE  Fits(r, l, my[r], tx[r])
<1>1. tx[r] = NoTx /\ ~tx[r].open
  BY AtPlace
<1>. QED
  BY <1>1, AtPlace DEF Fits, InTx, Unwritten, NoTx

-----------------------------------------------------------------------------
(* Steps that only read, outside of transactions *)

LEMMA AfterOK ==
    ASSUME NEW r \in Requests, NEW good \in BOOLEAN, op[r].name \in OpNames
    PROVE  /\ After(r, good) \in {"mail", "done", "failed"}
           /\ After(r, good) = "mail" => op[r].name \in Logins
BY DEF After, Is, Logins

LEMMA LatePlaces ==
    ASSUME NEW k \in Tables
    PROVE  /\ Ended \subseteq Late(k)
           /\ Making \ {"read", "save", "drop"} \subseteq Late(k) <=> k \in {"people", "tokens"}
BY DEF Late, Tables, Labels, Making, Ended

LEMMA FailedStep ==
    ASSUME IInv, NEW r \in Requests, pc[r] \notin InTx \union Ended \union {"idle"},
           NEW l \in {"done", "failed"}, Answers(r, l)
    PROVE  IInv'
<1>1. Fits(r, l, my[r], tx[r])
  BY LatePlaces, GoesOn DEF Ended, Labels, InTx, Knows, Making
<1>. QED
  BY <1>1, AnswerStep

\* The steps of addUserAccount end in one of three ways.
LEMMA AfterStep ==
    ASSUME IInv, NEW r \in Requests, pc[r] \in Making, NEW good \in BOOLEAN,
           Answers(r, After(r, good))
    PROVE  IInv'
<1>1. op[r].name \in OpNames /\ my[r].member \in Refs
  BY AtPlace, OpFacts DEF Making, Ended, Knows
<1>2. \A k \in Tables : pc[r] \in Late(k) => After(r, good) \in Late(k)
  BY <1>1, AfterOK DEF Late, Tables, Labels, Making, Ended
<1>3. Fits(r, After(r, good), my[r], tx[r])
  BY <1>1, <1>2, AfterOK, GoesOn DEF Ended, Labels, InTx, Doers, Making, Logins
<1>. QED
  BY <1>3, AnswerStep DEF Making

LEMMA NewIdStep == ASSUME IInv, NEW r \in Requests, NewId(r) PROVE IInv'
<1>1. PICK n \in 2..MaxId : Reads(r, "addPerson", [my[r] EXCEPT !.member = n])
  BY DEF NewId
<1>2. n \in Refs
  BY AccountsOK DEF Refs, Prospects
<1>3. pc[r] = "newId"
  BY DEF NewId
<1>4. Fits(r, "addPerson", [my[r] EXCEPT !.member = n], tx[r])
  <2>1. /\ my[r] \in Mine /\ tx[r] = NoTx /\ NoTx \in Txs /\ op[r].name \in Logins
        /\ my[r].token = None \/ my[r].token.of = "tokens"
        /\ \A x \in my[r].todo : x.of \in Updated
    BY <1>3, DoersAre, AtPlace DEF Ended, InTx
  <2>2. \A k \in Tables : "newId" \notin Late(k)
    BY DEF Late, Tables, Ended
  <2>3. [my[r] EXCEPT !.member = n] \in Mine
    BY <1>2, <2>1 DEF Mine
  <2>. QED
    BY <1>2, <1>3, <2>1, <2>2, <2>3
    DEF Fits, Mine, NoTx, Doers, Labels, Making, Ended, Unwritten, Tables
<1>. QED
  BY <1>1, <1>3, <1>4, ReadStep

LEMMA InfoStep == ASSUME IInv, NEW r \in Requests, Info(r) PROVE IInv'
<1>1. pc[r] = "info" /\ (Answers(r, "failed") \/ Answers(r, "count"))
  BY DEF Info
<1>2. Fits(r, "count", my[r], tx[r])
  <2>1. \A k \in Tables : "info" \in Late(k) => "count" \in Late(k)
    BY DEF Late, Tables, Labels, Making, Ended
  <2>. QED
    BY <1>1, <2>1, AtPlace, GoesOn DEF Labels, Making, Ended, InTx, Doers, Knows
<1>. QED
  BY <1>1, <1>2, FailedStep, AnswerStep DEF InTx, Ended

LEMMA CountStep == ASSUME IInv, NEW r \in Requests, Count(r) PROVE IInv'
<1>1. pc[r] = "count" /\ (Answers(r, "failed") \/ Answers(r, "addToken"))
  BY DEF Count
<1>2. Fits(r, "addToken", my[r], tx[r])
  <2>1. \A k \in Tables : "count" \in Late(k) => "addToken" \in Late(k)
    BY DEF Late, Tables, Labels, Making, Ended
  <2>. QED
    BY <1>1, <2>1, AtPlace, GoesOn DEF Labels, Making, Ended, InTx, Doers, Knows
<1>. QED
  BY <1>1, <1>2, FailedStep, AnswerStep DEF InTx, Ended

LEMMA MailStep == ASSUME IInv, NEW r \in Requests, Mail(r) PROVE IInv'
BY FailedStep DEF Mail, InTx, Ended

LEMMA ValidateStep == ASSUME IInv, NEW r \in Requests, Validate(r) PROVE IInv'
<1>1. pc[r] = "validate"
  BY DEF Validate
<1>2. CASE Answers(r, "failed")
  BY <1>1, <1>2, FailedStep DEF InTx, Ended
<1>3. ASSUME NEW x \in About(r, "tokens", op[r].member),
             Reads(r, "name", [my[r] EXCEPT !.token = x])
      PROVE  IInv'
  <2>1. /\ my[r] \in Mine /\ tx[r] = NoTx /\ NoTx \in Txs /\ op[r].name = "finish"
        /\ my[r].member \in Refs
        /\ \A y \in my[r].todo : y.of \in Updated
    BY <1>1, DoersAre, AtPlace DEF Ended, InTx, Knows
  <2>2. x \in Rows /\ x.of = "tokens"
    BY AboutOK DEF IInv
  <2>3. \A k \in Tables : "validate" \in Late(k) => "name" \in Late(k)
    BY DEF Late, Tables, Labels, Making, Ended
  <2>4. [my[r] EXCEPT !.token = x] \in Mine
    BY <2>1, <2>2 DEF Mine
  <2>5. Fits(r, "name", [my[r] EXCEPT !.token = x], tx[r])
    BY <1>1, <2>1, <2>2, <2>3, <2>4
    DEF Fits, Mine, NoTx, Doers, Labels, Making, Ended, Unwritten, Creating
  <2>. QED
    BY <1>1, <1>3, <2>5, ReadStep
<1>. QED
  BY <1>2, <1>3 DEF Validate

LEMMA NameFreeStep == ASSUME IInv, NEW r \in Requests, NameFree(r) PROVE IInv'
<1>1. pc[r] = "name"
  BY DEF NameFree
<1>2. CASE Answers(r, After(r, FALSE))
  BY <1>1, <1>2, AfterStep DEF Making
<1>3. ASSUME NEW x \in Rows \union {None}, Reads(r, "rows", [my[r] EXCEPT !.found = x])
      PROVE  IInv'
  <2>1. /\ my[r] \in Mine /\ tx[r] = NoTx /\ NoTx \in Txs /\ op[r].name \in Creating
        /\ my[r].member \in Refs
        /\ my[r].token = None \/ my[r].token.of = "tokens"
        /\ \A y \in my[r].todo : y.of \in Updated
    BY <1>1, DoersAre, AtPlace DEF Ended, InTx, Knows, Making
  <2>2. \A k \in Tables : "name" \in Late(k) => "rows" \in Late(k)
    BY DEF Late, Tables, Labels, Making, Ended
  <2>3. [my[r] EXCEPT !.found = x] \in Mine
    BY <1>3, <2>1 DEF Mine
  <2>4. "rows" \in Labels /\ op[r].name \in Doers("rows")
    BY <2>1, DoersAre DEF Labels, Making
  <2>5. Fits(r, "rows", [my[r] EXCEPT !.found = x], tx[r])
    BY <1>1, <2>1, <2>2, <2>3, <2>4 DEF Fits, Mine, NoTx, Unwritten
  <2>. QED
    BY <1>1, <1>3, <2>5, ReadStep
<1>4. Only(Named(r, "users", op[r].user)) \in Rows \union {None}
  BY AboutOK, OnlyIn DEF IInv
<1>. QED
  BY <1>2, <1>3, <1>4 DEF NameFree

\* From one place of addUserAccount to the next.
LEMMA NextStep ==
    ASSUME IInv, NEW r \in Requests, pc[r] \in {"rows", "member"}, op[r].name \in Creating,
           NEW l \in {"member", "addRow"}, Answers(r, l)
    PROVE  IInv'
<1>1. \A k \in Tables : pc[r] \in Late(k) => l \in Late(k)
  BY DEF Late, Tables, Labels, Making, Ended
<1>2. op[r].name \in Doers(l) /\ l \in Labels
  BY DoersAre DEF Making, Labels
<1>3. my[r].member \in Refs
  BY AtPlace DEF Knows, Making
<1>4. Fits(r, l, my[r], tx[r])
  BY <1>1, <1>2, <1>3, GoesOn DEF InTx
<1>. QED
  BY <1>4, AnswerStep

LEMMA MemberFreeStep == ASSUME IInv, NEW r \in Requests, MemberFree(r) PROVE IInv'
<1>1. /\ pc[r] = "rows"
      /\ Answers(r, "member") \/ Answers(r, After(r, FALSE))
  BY DEF MemberFree
<1>2. op[r].name \in Creating
  BY <1>1, AtPlace, DoersAre DEF Ended, Making
<1>. QED
  BY <1>1, <1>2, NextStep, AfterStep DEF Making

LEMMA IsMemberStep == ASSUME IInv, NEW r \in Requests, IsMember(r) PROVE IInv'
<1>1. pc[r] = "member" /\ op[r].name \in Creating \union {"discord"}
  BY AtPlace, DoersAre DEF IsMember, Ended
<1>2. CASE Answers(r, After(r, FALSE))
  BY <1>1, <1>2, AfterStep DEF Making
<1>3. CASE Is(r, {"discord"}) /\ Answers(r, "peek")
  <2>1. \A k \in Tables : "member" \in Late(k) => "peek" \in Late(k)
    BY DEF Late, Tables, Labels, Making, Ended
  <2>2. op[r].name \in Doers("peek") /\ "peek" \in Labels /\ "peek" \notin Knows
    BY <1>3, DoersAre DEF Is, Labels, Knows, Making
  <2>3. Fits(r, "peek", my[r], tx[r])
    BY <1>1, <2>1, <2>2, GoesOn DEF InTx
  <2>. QED
    BY <1>1, <1>3, <2>3, AnswerStep
<1>4. CASE ~Is(r, {"discord"}) /\ Answers(r, "addRow")
  BY <1>1, <1>4, NextStep DEF Is
<1>. QED
  BY <1>2, <1>3, <1>4 DEF IsMember

LEMMA ReadBackStep == ASSUME IInv, NEW r \in Requests, ReadBack(r) PROVE IInv'
<1>1. pc[r] = "read"
  BY DEF ReadBack
<1>2. CASE Answers(r, After(r, FALSE))
  BY <1>1, <1>2, AfterStep DEF Making
<1>3. ASSUME NEW x \in Rows, Reads(r, "save", [my[r] EXCEPT !.found = x]) PROVE IInv'
  <2>1. /\ my[r] \in Mine /\ tx[r] = NoTx /\ NoTx \in Txs /\ op[r].name \in Creating
        /\ my[r].member \in Refs
        /\ my[r].token = None \/ my[r].token.of = "tokens"
        /\ \A y \in my[r].todo : y.of \in Updated
    BY <1>1, DoersAre, AtPlace DEF Ended, InTx, Knows, Making
  <2>2. \A k \in Tables : "read" \in Late(k) => "save" \in Late(k)
    BY DEF Late, Tables, Labels, Making, Ended
  <2>3. [my[r] EXCEPT !.found = x] \in Mine
    BY <1>3, <2>1 DEF Mine
  <2>4. "save" \in Labels /\ op[r].name \in Doers("save")
    BY <2>1, DoersAre DEF Labels, Making
  <2>5. Fits(r, "save", [my[r] EXCEPT !.found = x], tx[r])
    BY <1>1, <2>1, <2>2, <2>3, <2>4 DEF Fits, Mine, NoTx, Unwritten
  <2>. QED
    BY <1>1, <1>3, <2>5, ReadStep
<1>4. Only(Named(r, "users", op[r].user)) \in Rows \union {None}
  BY AboutOK, OnlyIn DEF IInv
<1>. QED
  BY <1>2, <1>3, <1>4 DEF ReadBack

LEMMA FindStep == ASSUME IInv, NEW r \in Requests, Find(r) PROVE IInv'
<1>1. pc[r] = "find"
  BY DEF Find
<1>2. CASE Answers(r, "failed")
  BY <1>1, <1>2, FailedStep DEF InTx, Ended
<1>3. ASSUME NEW x \in Rows, NEW l \in {"erase", "start"},
             l = "erase" \/ op[r].name # "delete",
             Reads(r, l, [my[r] EXCEPT !.found = x])
      PROVE IInv'
  <2>1. /\ my[r] \in Mine /\ tx[r] = NoTx /\ NoTx \in Txs
        /\ op[r].name \in {"delete", "upgrade"}
        /\ my[r].token = None \/ my[r].token.of = "tokens"
        /\ \A y \in my[r].todo : y.of \in Updated
    BY <1>1, DoersAre, AtPlace DEF Ended, InTx
  <2>2. \A k \in Tables : "find" \in Late(k) => l \in Late(k)
    BY DEF Late, Tables, Labels, Making, Ended
  <2>3. [my[r] EXCEPT !.found = x] \in Mine
    BY <1>3, <2>1 DEF Mine
  <2>4. l \in Labels /\ op[r].name \in Doers(l) /\ l \notin Knows
    BY <1>3, <2>1, DoersAre DEF Labels, Knows, Making
  <2>5. Fits(r, l, [my[r] EXCEPT !.found = x], tx[r])
    BY <1>1, <2>1, <2>2, <2>3, <2>4 DEF Fits, Mine, NoTx, Unwritten
  <2>. QED
    BY <1>1, <1>3, <2>5, ReadStep
<1>4. Only(About(r, "people", my[r].member)) \in Rows \union {None}
  BY AboutOK, OnlyIn DEF IInv
<1>. QED
  BY <1>2, <1>3, <1>4 DEF Find, Is

LEMMA PeekStep == ASSUME IInv, NEW r \in Requests, Peek(r) PROVE IInv'
<1>1. pc[r] = "peek" /\ (Answers(r, "register") \/ Answers(r, "failed"))
  BY DEF Peek
<1>2. Fits(r, "register", my[r], tx[r])
  <2>1. \A k \in Tables : "peek" \in Late(k) => "register" \in Late(k)
    BY DEF Late, Tables, Labels, Making, Ended
  <2>2. op[r].name \in Doers("register") /\ "register" \in Labels /\ "register" \notin Knows
    BY <1>1, AtPlace, DoersAre DEF Labels, Knows, Making, Ended
  <2>. QED
    BY <1>1, <2>1, <2>2, GoesOn DEF InTx
<1>. QED
  BY <1>1, <1>2, FailedStep, AnswerStep DEF InTx, Ended

-----------------------------------------------------------------------------
(* Steps that only read, where a transaction may run *)

\* What a request has where a transaction may run.
LEMMA AtTx ==
    ASSUME IInv, NEW r \in Requests, pc[r] \in InTx
    PROVE  /\ op[r] \in Ops /\ my[r] \in Mine /\ tx[r] \in Txs
           /\ op[r].name \in Doers(pc[r])
           /\ my[r].token = None \/ my[r].token.of = "tokens"
           /\ \A x \in my[r].todo : x.of \in Updated
           /\ tx[r].open => Is(r, {"upgrade", "roles"})
           /\ ~tx[r].open => tx[r] = NoTx
<1>1. Has(r) /\ Holds(r)
  BY DEF IInv, Control, Locks
<1>2. tx[r] \in Txs
  BY DEF IInv, Plain
<1>. QED
  BY <1>1, <1>2 DEF Has, Holds, Active, InTx, Ended

\* Where a request goes on to where a transaction may run, with what its closures held.
LEMMA GoesOnInTx ==
    ASSUME IInv, NEW r \in Requests, pc[r] \in InTx, NEW l \in InTx \union {"done", "failed"},
           l \in Unwritten \union {"put"} => FALSE,
           l \in InTx => op[r].name \in Doers(l),
           l \in {"done", "failed"} => ~tx[r].open,
           \A k \in Tables : pc[r] \in Late(k) => l \in Late(k)
    PROVE  Fits(r, l, my[r], tx[r])
<1>1. l \in Labels \ {"idle", "save", "clear", "put"} /\ l \notin Knows
  BY DEF Labels, InTx, Knows, Making, Ended, Unwritten
<1>. QED
  BY <1>1, AtTx DEF Fits, InTx, Ended, Unwritten

LEMMA FindsStep == ASSUME IInv, NEW r \in Requests, Finds(r) PROVE IInv'
<1>. DEFINE todo == UNION {About(r, t, my[r].member) : t \in Updated}
            m == [my[r] EXCEPT !.todo = todo]
<1>1. pc[r] = "finds" /\ Reads(r, "replace", m)
  BY DEF Finds
<1>2. todo \subseteq Rows /\ \A x \in todo : x.of \in Updated
  BY AboutOK DEF IInv
<1>3. Fits(r, "replace", m, tx[r])
  <2>1. \A k \in Tables : "finds" \in Late(k) => "replace" \in Late(k)
    BY DEF Late, Tables, Labels, Making, Ended
  <2>2. /\ my[r] \in Mine /\ tx[r] \in Txs /\ op[r].name = "upgrade"
        /\ my[r].token = None \/ my[r].token.of = "tokens"
    BY <1>1, AtTx, DoersAre DEF InTx
  <2>3. /\ m \in Mine /\ m.todo = todo /\ m.token = my[r].token /\ m.left = my[r].left
    BY <1>2, <2>2 DEF Mine
  <2>4. "replace" \in Labels /\ "replace" \notin Knows /\ op[r].name \in Doers("replace")
    BY <2>2, DoersAre DEF Labels, Knows, Making
  <2>. HIDE DEF m, todo
  <2>. QED
    BY <1>1, <1>2, <2>1, <2>2, <2>3, <2>4 DEF Fits, InTx, Unwritten, Is
<1>. QED
  BY <1>1, <1>3, ReadStep

LEMMA ReplacedStep == ASSUME IInv, NEW r \in Requests, Replaced(r) PROVE IInv'
<1>. DEFINE l == IF tx[r].open THEN "commit" ELSE "failed"
<1>1. pc[r] = "replace" /\ Answers(r, l)
  BY DEF Replaced
<1>2. \A k \in Tables : "replace" \in Late(k) => l \in Late(k)
  BY DEF Late, Tables, Labels, Making, Ended
<1>3. l \in InTx => op[r].name \in Doers(l)
  BY <1>1, AtTx, DoersAre DEF InTx
<1>4. Fits(r, l, my[r], tx[r])
  BY <1>1, <1>2, <1>3, GoesOnInTx DEF InTx, Unwritten
<1>. QED
  BY <1>1, <1>4, AnswerStep

LEMMA RolesSetStep == ASSUME IInv, NEW r \in Requests, RolesSet(r) PROVE IInv'
<1>. DEFINE l == IF tx[r].open THEN "commit" ELSE "done"
<1>1. pc[r] = "set" /\ Answers(r, l)
  BY DEF RolesSet
<1>2. \A k \in Tables : "set" \in Late(k) => l \in Late(k)
  BY DEF Late, Tables, Labels, Making, Ended
<1>3. l \in InTx => op[r].name \in Doers(l)
  BY <1>1, AtTx, DoersAre DEF InTx
<1>4. Fits(r, l, my[r], tx[r])
  BY <1>1, <1>2, <1>3, GoesOnInTx DEF InTx, Unwritten
<1>. QED
  BY <1>1, <1>4, AnswerStep

LEMMA LookStep == ASSUME IInv, NEW r \in Requests, Look(r) PROVE IInv'
<1>1. pc[r] = "set"
  BY DEF Look
<1>2. PICK m \in my[r].left, x \in Rows \union {None} :
           Reads(r, "put", [my[r] EXCEPT !.member = m, !.found = x])
  <2>1. \A m : Only(About(r, "perms", m)) \in Rows \union {None}
    BY AboutOK, OnlyIn DEF IInv
  <2>. QED
    BY <2>1 DEF Look
<1>. DEFINE n == [my[r] EXCEPT !.member = m, !.found = x]
<1>3. Fits(r, "put", n, tx[r])
  <2>1. \A k \in Tables : "set" \in Late(k) => "put" \in Late(k)
    BY DEF Late, Tables, Labels, Making, Ended
  <2>2. /\ my[r] \in Mine /\ tx[r] \in Txs /\ op[r].name = "roles"
        /\ my[r].token = None \/ my[r].token.of = "tokens"
        /\ \A y \in my[r].todo : y.of \in Updated
    BY <1>1, AtTx, DoersAre DEF InTx
  <2>3. m \in Refs /\ n \in Mine
    BY <1>2, <2>2 DEF Mine
  <2>4. /\ n.todo = my[r].todo /\ n.token = my[r].token /\ n.left = my[r].left
        /\ n.member = m
    BY <2>2 DEF Mine
  <2>5. "put" \in Labels /\ op[r].name \in Doers("put")
    BY <2>2, DoersAre DEF Labels
  <2>. HIDE DEF n
  <2>. QED
    BY <1>1, <1>2, <2>1, <2>2, <2>3, <2>4, <2>5 DEF Fits, InTx, Unwritten, Is
<1>. QED
  BY <1>1, <1>2, <1>3, ReadStep

-----------------------------------------------------------------------------
(* Steps that write outside of transactions *)

\* A request adds its row.
LEMMA AddStep ==
    ASSUME IInv, NEW r \in Requests, pc[r] # "idle",
           NEW l, NEW m, Fits(r, l, m, tx[r]), Goto(r, l), Keeps(r, m),
           UNCHANGED <<op, given>>,
           NEW x \in Rows, x.by = r, Stores({}, {x}), ~Spent(x), Spent(x)'
    PROVE  IInv'
<1>1. /\ \A y \in rows : Key(y) # Key(x)
      /\ \A s \in Requests : \A y \in tx[s].in : Key(y) # Key(x)
  BY NewKey
<1>2. Locks'
  BY <1>1, Added DEF IInv
<1>3. rows' = rows \union {x} /\ UNCHANGED tx
  BY DEF Stores
<1>4. rows' \subseteq Rows /\ \A y \in rows' : Known(y) \/ Spent(y)'
  <2>1. \A y \in rows : Known(y)
    BY DEF Known
  <2>. QED
    BY <1>3, <2>1 DEF IInv, Plain
<1>. QED
  BY <1>2, <1>3, <1>4, WriteStep

\* A request changes or removes rows that no transaction has taken out.
LEMMA EditStep ==
    ASSUME IInv, NEW r \in Requests, pc[r] # "idle", tx[r] = NoTx,
           NEW l, NEW m, Fits(r, l, m, tx[r]), Goto(r, l), Keeps(r, m),
           UNCHANGED <<op, given>>,
           NEW out, NEW in \in SUBSET Rows, Stores(out, in), OneKey(in),
           \A x \in in : \E y \in out \intersect rows : Key(y) = Key(x),
           \A s \in Requests \ {r} : tx[s].out \intersect out = {}
    PROVE  IInv'
<1>1. Locks'
  <2>1. tx[r].out \intersect out = {}
    BY DEF NoTx
  <2>. QED
    BY <2>1, Edited DEF IInv
<1>2. rows' = (rows \ out) \union in /\ UNCHANGED tx
  BY DEF Stores
<1>3. rows' \subseteq Rows /\ \A y \in rows' : Known(y) \/ Spent(y)'
  <2>1. \A y \in rows \union in : Known(y)
    BY DEF Known
  <2>. QED
    BY <1>2, <2>1 DEF IInv, Plain
<1>. QED
  BY <1>1, <1>2, <1>3, WriteStep

\* What another transaction has taken out is known, and no token.
LEMMA OthersHold ==
    ASSUME IInv, NEW s \in Requests
    PROVE  /\ tx[s].out \subseteq rows /\ tx[s].out \subseteq Rows
           /\ \A x \in tx[s].out : x.of # "tokens"
BY DEF IInv, Plain, Txs, Locks, Holds

LEMMA AddPersonStep == ASSUME IInv, NEW r \in Requests, AddPerson(r) PROVE IInv'
<1>0. PICK x : x = Row(r, "people", my[r].member, None, None)
  OBVIOUS
<1>1. /\ pc[r] = "addPerson" /\ Stores({}, {x}) /\ Goto(r, "info")
      /\ UNCHANGED <<op, my, given>>
  BY <1>0 DEF AddPerson
<1>2. my[r].member \in Refs /\ my[r] \in Mine /\ op[r].name \in Logins
  BY <1>1, AtPlace, DoersAre DEF Knows, Ended, InTx
<1>3. x \in Rows /\ x.by = r /\ x.of = "people"
  BY <1>0, <1>2, RowOK DEF Tables
<1>4. Fits(r, "info", my[r], tx[r])
  <2>1. \A k \in Tables : "addPerson" \in Late(k) => "info" \in Late(k)
    BY DEF Late, Tables, Labels, Making, Ended
  <2>2. "info" \in Labels /\ op[r].name \in Doers("info")
    BY <1>2, DoersAre DEF Labels
  <2>. QED
    BY <1>1, <1>2, <2>1, <2>2, GoesOn DEF InTx
<1>5. Keeps(r, my[r])
  BY <1>1 DEF Keeps, IInv, Plain
<1>6. ~Spent(x)
  BY <1>1, <1>3 DEF Spent, Late
<1>7. Spent(x)'
  <2>1. pc'[r] = "info"
    BY <1>1 DEF Goto, IInv, Plain
  <2>. QED
    BY <1>3, <2>1 DEF Spent, Late, Labels
<1>. QED
  BY <1>1, <1>3, <1>4, <1>5, <1>6, <1>7, AddStep

LEMMA AddTokenStep == ASSUME IInv, NEW r \in Requests, AddToken(r) PROVE IInv'
<1>0. PICK x : x = Row(r, "tokens", my[r].member, None, None)
  OBVIOUS
<1>. DEFINE l == IF Is(r, {"random", "chosen"}) THEN "name" ELSE "mail"
            m == [my[r] EXCEPT !.token = x]
<1>1. /\ pc[r] = "addToken" /\ Goto(r, l) /\ Keeps(r, m) /\ UNCHANGED <<op, given>>
      /\ Stores({}, {x}) \/ UNCHANGED <<rows, tx>>
  BY <1>0 DEF AddToken
<1>2. /\ my[r].member \in Refs /\ my[r] \in Mine
      /\ op[r].name \in Logins \union {"request"} /\ tx[r] = NoTx /\ NoTx \in Txs
      /\ \A y \in my[r].todo : y.of \in Updated
  BY <1>1, AtPlace, DoersAre DEF Knows, Ended, InTx
<1>3. x \in Rows /\ x.by = r /\ x.of = "tokens"
  BY <1>0, <1>2, RowOK DEF Tables
<1>4. Fits(r, l, m, tx[r])
  <2>1. \A k \in Tables : "addToken" \in Late(k) => l \in Late(k)
    BY DEF Late, Tables, Labels, Making, Ended
  <2>2. l \in Labels /\ op[r].name \in Doers(l) /\ l \notin {"idle", "save", "put", "clear"}
    BY <1>2, DoersAre DEF Labels, Making, Is, Creating, Logins
  <2>3. /\ m \in Mine /\ m.member = my[r].member /\ m.token = x
        /\ m.todo = my[r].todo /\ m.left = my[r].left
    BY <1>2, <1>3 DEF Mine
  <2>4. l \notin Unwritten
    BY DEF Unwritten
  <2>. HIDE DEF m, l
  <2>. QED
    BY <1>1, <1>2, <1>3, <2>1, <2>2, <2>3, <2>4 DEF Fits, NoTx
<1>5. ~Spent(x)
  BY <1>1, <1>3 DEF Spent, Late
<1>6. Spent(x)'
  <2>1. pc'[r] = l
    BY <1>1 DEF Goto, IInv, Plain
  <2>. QED
    BY <1>3, <2>1 DEF Spent, Late, Labels, Making
<1>7. CASE Stores({}, {x})
  <2>. HIDE DEF m, l
  <2>. QED
    BY <1>1, <1>3, <1>4, <1>5, <1>6, <1>7, AddStep
<1>8. CASE UNCHANGED <<rows, tx>>
  <2>. HIDE DEF m, l
  <2>. QED
    BY <1>1, <1>4, <1>8, ReadStep DEF Reads
<1>. QED
  BY <1>1, <1>7, <1>8

LEMMA AddRowStep == ASSUME IInv, NEW r \in Requests, AddRow(r) PROVE IInv'
<1>0. PICK x : x = Row(r, "users", my[r].member, op[r].user, None)
  OBVIOUS
<1>1. /\ pc[r] = "addRow" /\ Goto(r, "read") /\ UNCHANGED <<op, my, given>>
      /\ Stores({}, {x}) \/ Stores({}, {})
  BY <1>0 DEF AddRow
<1>2. /\ my[r].member \in Refs /\ my[r] \in Mine /\ op[r].name \in Creating
      /\ op[r].user \in Names \union {None}
  BY <1>1, AtPlace, OpFacts, DoersAre DEF Knows, Ended, InTx, Making
<1>3. x \in Rows /\ x.by = r /\ x.of = "users"
  BY <1>0, <1>2, RowOK DEF Tables
<1>4. Fits(r, "read", my[r], tx[r])
  <2>1. \A k \in Tables : "addRow" \in Late(k) => "read" \in Late(k)
    BY DEF Late, Tables, Labels, Making, Ended
  <2>2. "read" \in Labels /\ op[r].name \in Doers("read")
    BY <1>2, DoersAre DEF Labels, Making
  <2>. QED
    BY <1>1, <1>2, <2>1, <2>2, GoesOn DEF InTx
<1>5. Keeps(r, my[r])
  BY <1>1 DEF Keeps, IInv, Plain
<1>6. ~Spent(x)
  BY <1>1, <1>3 DEF Spent, Late, Ended
<1>7. Spent(x)'
  <2>1. pc'[r] = "read"
    BY <1>1 DEF Goto, IInv, Plain
  <2>. QED
    BY <1>3, <2>1 DEF Spent, Late
<1>8. CASE Stores({}, {x})
  <2>. QED
    BY <1>1, <1>3, <1>4, <1>5, <1>6, <1>7, <1>8, AddStep
<1>9. CASE Stores({}, {})
  <2>1. UNCHANGED <<rows, tx>>
    BY <1>9 DEF Stores
  <2>. QED
    BY <1>1, <1>4, <1>5, <2>1, ReadStep DEF Reads
<1>. QED
  BY <1>1, <1>8, <1>9

LEMMA RegisterStep == ASSUME IInv, NEW r \in Requests, Register(r) PROVE IInv'
<1>0. PICK x : x = Row(r, "discord", op[r].member, op[r].user, None)
  OBVIOUS
<1>1. /\ pc[r] = "register" /\ Stores({}, {x}) /\ Goto(r, "done")
      /\ UNCHANGED <<op, my, given>>
  BY <1>0 DEF Register
<1>2. op[r].member \in Refs /\ op[r].user \in Names \union {None} /\ my[r] \in Mine
  <2>1. op[r] \in Ops /\ op[r].name = "discord" /\ my[r] \in Mine
    BY <1>1, AtPlace, DoersAre DEF Ended, InTx
  <2>. QED
    BY <2>1, OpFacts DEF WellFormed, Logins
<1>3. x \in Rows /\ x.by = r /\ x.of = "discord"
  BY <1>0, <1>2, RowOK DEF Tables
<1>4. Fits(r, "done", my[r], tx[r])
  BY <1>1, LatePlaces, GoesOn DEF Ended, Labels, InTx, Knows, Making
<1>5. Keeps(r, my[r])
  BY <1>1 DEF Keeps, IInv, Plain
<1>6. ~Spent(x)
  BY <1>1, <1>3 DEF Spent, Late, Ended
<1>7. Spent(x)'
  <2>1. pc'[r] = "done"
    BY <1>1 DEF Goto, IInv, Plain
  <2>. QED
    BY <1>3, <2>1 DEF Spent, Late, Ended
<1>. QED
  BY <1>1, <1>3, <1>4, <1>5, <1>6, <1>7, AddStep

\* Each row of a set with one row for each _id is changed: still one for each.
LEMMA EditedKeys ==
    ASSUME NEW S \in SUBSET Rows, OneKey(S), NEW p \in Makers, NEW n \in Names \union {None},
           NEW T, \A x \in T : \E y \in S : x = [y EXCEPT !.name = n, !.pw = p]
    PROVE  T \in SUBSET Rows /\ OneKey(T) /\ \A x \in T : \E y \in S : Key(y) = Key(x)
<1>1. ASSUME NEW y \in S
      PROVE  /\ [y EXCEPT !.name = n, !.pw = p] \in Rows
             /\ Key([y EXCEPT !.name = n, !.pw = p]) = Key(y)
  BY ZenonT(60) DEF Rows, Key
<1>2. \A x \in T : \E y \in S :
          x = [y EXCEPT !.name = n, !.pw = p] /\ x \in Rows /\ Key(x) = Key(y)
  <2>1. ASSUME NEW x \in T
        PROVE  \E y \in S :
                   x = [y EXCEPT !.name = n, !.pw = p] /\ x \in Rows /\ Key(x) = Key(y)
    <3>1. PICK y \in S : x = [y EXCEPT !.name = n, !.pw = p]
      OBVIOUS
    <3>2. [y EXCEPT !.name = n, !.pw = p] \in Rows
      BY <1>1
    <3>3. Key([y EXCEPT !.name = n, !.pw = p]) = Key(y)
      BY <1>1
    <3>. QED
      BY <3>1, <3>2, <3>3
  <2>. QED
    BY <2>1
<1>3. ASSUME NEW x \in T, NEW z \in T, Key(x) = Key(z) PROVE x = z
  <2>1. PICK y \in S : x = [y EXCEPT !.name = n, !.pw = p] /\ Key(x) = Key(y)
    BY <1>2
  <2>2. PICK w \in S : z = [w EXCEPT !.name = n, !.pw = p] /\ Key(z) = Key(w)
    BY <1>2
  <2>3. y = w
    BY <1>3, <2>1, <2>2 DEF OneKey
  <2>. QED
    BY <2>1, <2>2, <2>3
<1>4. OneKey(T)
  BY <1>3 DEF OneKey
<1>5. T \subseteq Rows /\ \A x \in T : \E y \in S : Key(y) = Key(x)
  BY <1>2
<1>. QED
  BY <1>4, <1>5

LEMMA SaveStep == ASSUME IInv, NEW r \in Requests, Save(r) PROVE IInv'
<1>. DEFINE all == About(r, "users", my[r].found.member)
<1>0. PICK n, in : n = my[r].found.name /\ in = {[y EXCEPT !.name = n, !.pw = r] : y \in all}
  OBVIOUS
<1>1. /\ pc[r] = "save" /\ Goto(r, "drop") /\ UNCHANGED <<op, my, given>>
      /\ (Scans(r, "users") /\ Stores(all, in)) \/ UNCHANGED <<rows, tx>>
  BY <1>0 DEF Save
<1>2. /\ my[r].found \in Rows /\ my[r] \in Mine /\ op[r].name \in Creating /\ tx[r] = NoTx
      /\ my[r].member \in Refs
  <2>1. my[r].found \in Rows
    BY <1>1 DEF IInv, Control, Has
  <2>. QED
    BY <1>1, <2>1, AtPlace, DoersAre DEF Ended, InTx, Making, Knows
<1>3. Fits(r, "drop", my[r], tx[r])
  <2>1. \A k \in Tables : "save" \in Late(k) => "drop" \in Late(k)
    BY DEF Late, Tables, Labels, Making, Ended
  <2>2. "drop" \in Labels /\ op[r].name \in Doers("drop")
    BY <1>2, DoersAre DEF Labels, Making
  <2>. QED
    BY <1>1, <1>2, <2>1, <2>2, GoesOn DEF InTx
<1>4. Keeps(r, my[r])
  BY <1>1 DEF Keeps, IInv, Plain
<1>5. CASE UNCHANGED <<rows, tx>>
  BY <1>1, <1>3, <1>4, <1>5, ReadStep DEF Reads
<1>6. CASE Scans(r, "users") /\ Stores(all, in)
  <2>1. all \subseteq rows /\ all \subseteq Rows /\ OneKey(all)
    BY <1>2, ViewOK, AboutOK DEF IInv, Locks, OneKey
  <2>2. in \in SUBSET Rows /\ OneKey(in) /\ \A x \in in : \E y \in all : Key(y) = Key(x)
    <3>1. n \in Names \union {None} /\ r \in Makers
      BY <1>0, <1>2 DEF Rows, Makers
    <3>. HIDE DEF all
    <3>. QED
      <4>1. \A x \in in : \E y \in all : x = [y EXCEPT !.name = n, !.pw = r]
        BY <1>0
      <4>. QED
        BY ZenonT(60), <2>1, <3>1, <4>1, EditedKeys
  <2>3. \A s \in Requests \ {r} : tx[s].out \intersect all = {}
    <3>1. \A x \in all : x \in {y \in rows : y.of = "users"}
      BY <2>1, AboutOK DEF IInv
    <3>. QED
      BY <1>6, <3>1 DEF Scans, Unlocked
  <2>. HIDE DEF all
  <2>. QED
    BY <1>1, <1>2, <1>3, <1>4, <1>6, <2>1, <2>2, <2>3, EditStep
<1>. QED
  BY <1>1, <1>5, <1>6

LEMMA DropStep == ASSUME IInv, NEW r \in Requests, Drop(r) PROVE IInv'
<1>1. /\ pc[r] = "drop" /\ Goto(r, After(r, TRUE)) /\ UNCHANGED <<op, my, given>>
      /\ Stores({my[r].token}, {}) \/ UNCHANGED <<rows, tx>>
  BY DEF Drop
<1>2. /\ my[r] \in Mine /\ tx[r] = NoTx /\ op[r].name \in OpNames /\ my[r].member \in Refs
      /\ my[r].token = None \/ my[r].token.of = "tokens"
  BY <1>1, AtPlace, OpFacts DEF Ended, InTx, Making, Knows
<1>3. Fits(r, After(r, TRUE), my[r], tx[r])
  <2>1. \A k \in Tables : pc[r] \in Late(k) => After(r, TRUE) \in Late(k)
    BY <1>1, <1>2, AfterOK DEF Late, Tables, Labels, Making, Ended
  <2>. QED
    BY <1>1, <1>2, <2>1, AfterOK, GoesOn, DoersAre DEF Ended, Labels, InTx, Making
<1>4. Keeps(r, my[r])
  BY <1>1 DEF Keeps, IInv, Plain
<1>5. CASE UNCHANGED <<rows, tx>>
  BY <1>1, <1>3, <1>4, <1>5, ReadStep DEF Reads
<1>6. CASE Stores({my[r].token}, {})
  <2>1. \A s \in Requests \ {r} : tx[s].out \intersect {my[r].token} = {}
    BY <1>2, OthersHold, NoneApart
  <2>. QED
    BY <1>1, <1>2, <1>3, <1>4, <1>6, <2>1, EditStep DEF OneKey
<1>. QED
  BY <1>1, <1>5, <1>6

-----------------------------------------------------------------------------
(* Steps of transactions *)

\* A transaction that has put nothing in begins, or takes rows out.
LEMMA TakeStep ==
    ASSUME IInv, NEW r \in Requests, pc[r] # "idle",
           NEW l, NEW m, NEW t, Fits(r, l, m, t), Goto(r, l), Keeps(r, m),
           UNCHANGED <<rows, op, given>>, tx' = [tx EXCEPT ![r] = t],
           t.in = {}, t.open \/ t = NoTx,
           t.out \subseteq rows, \A x \in t.out : x.of # "tokens",
           \A s \in Requests \ {r} : tx[s].out \intersect t.out = {}
    PROVE  IInv'
<1>1. t \in Txs
  BY DEF Fits
<1>2. Locks'
  BY <1>1, Taken DEF IInv
<1>3. \A x \in rows' : Known(x)
  BY DEF Known
<1>. QED
  BY <1>2, <1>3, Moved DEF Goto, Keeps, IInv, Plain

LEMMA StartStep == ASSUME IInv, NEW r \in Requests, Start(r) PROVE IInv'
<1>. DEFINE l == IF Is(r, {"roles"}) THEN "clear" ELSE "erase"
<1>0. PICK t : t = [tx[r] EXCEPT !.open = TRUE]
  OBVIOUS
<1>1. /\ pc[r] = "start" /\ Goto(r, l) /\ UNCHANGED <<rows, op, my, given>>
      /\ tx' = [tx EXCEPT ![r].open = TRUE]
  BY DEF Start
<1>2. /\ my[r] \in Mine /\ tx[r] = NoTx /\ NoTx \in Txs /\ op[r].name \in {"upgrade", "roles"}
      /\ my[r].token = None \/ my[r].token.of = "tokens"
      /\ \A x \in my[r].todo : x.of \in Updated
  BY <1>1, AtPlace, DoersAre DEF Ended, InTx
<1>3. t \in Txs /\ t.open /\ t.out = {} /\ t.in = {} /\ tx' = [tx EXCEPT ![r] = t]
  <2>1. tx \in [Requests -> Txs]
    BY DEF IInv, Plain
  <2>2. tx' = [tx EXCEPT ![r] = t]
    BY <1>0, <1>1, <2>1
  <2>3. t = [open |-> TRUE, whole |-> {}, out |-> {}, in |-> {}]
    <3>1. t = [NoTx EXCEPT !.open = TRUE]
      BY <1>0, <1>2
    <3>. QED
      BY <3>1 DEF NoTx
  <2>. QED
    BY <2>2, <2>3 DEF Txs
<1>4. Fits(r, l, my[r], t)
  <2>1. \A k \in Tables : "start" \in Late(k) => l \in Late(k)
    BY DEF Late, Tables, Labels, Making, Ended
  <2>2. l \in Labels /\ op[r].name \in Doers(l) /\ l \in {"clear", "erase"}
    BY <1>2, DoersAre DEF Labels, Is
  <2>3. l \notin Knows /\ l \in InTx /\ l # "save" /\ l # "put" /\ l # "idle"
    BY DEF Knows, Making, InTx
  <2>. HIDE DEF l
  <2>. QED
    BY <1>1, <1>2, <1>3, <2>1, <2>2, <2>3 DEF Fits, Is
<1>5. Keeps(r, my[r])
  BY <1>1 DEF Keeps, IInv, Plain
<1>. HIDE DEF l
<1>. QED
  BY ZenonT(60), <1>1, <1>3, <1>4, <1>5, TakeStep

LEMMA ClearStep == ASSUME IInv, NEW r \in Requests, Clear(r) PROVE IInv'
<1>0. PICK t : t = [tx[r] EXCEPT !.out = {x \in rows : x.of = "perms"}, !.whole = {"perms"}]
  OBVIOUS
<1>1. /\ pc[r] = "clear" /\ Goto(r, "set") /\ UNCHANGED <<rows, op, my, given>>
      /\ \/ Scans(r, "perms") /\ tx' = [tx EXCEPT ![r] = t]
         \/ tx' = tx
  <2>1. tx \in [Requests -> Txs]
    BY DEF IInv, Plain
  <2>. QED
    BY <1>0, <2>1 DEF Clear, Txs
<1>2. /\ my[r] \in Mine /\ tx[r] \in Txs /\ op[r].name = "roles"
      /\ my[r].token = None \/ my[r].token.of = "tokens"
      /\ \A x \in my[r].todo : x.of \in Updated
  BY <1>1, AtTx, DoersAre DEF InTx
<1>3. tx[r].open /\ tx[r].in = {}
  BY <1>1 DEF IInv, Control, Has, Unwritten
<1>4. \A k \in Tables : "clear" \in Late(k) => "set" \in Late(k)
  BY DEF Late, Tables, Labels, Making, Ended
<1>5. "set" \in Labels /\ op[r].name \in Doers("set") /\ "set" \notin Knows
  BY <1>2, DoersAre DEF Labels, Knows, Making
<1>6. Keeps(r, my[r])
  BY <1>1 DEF Keeps, IInv, Plain
<1>7. CASE Scans(r, "perms") /\ tx' = [tx EXCEPT ![r] = t]
  <2>1. /\ t \in Txs /\ t.open /\ t.in = {}
        /\ t.out = {x \in rows : x.of = "perms"}
    <3>1. rows \subseteq Rows
      BY DEF IInv, Plain
    <3>. QED
      BY <1>0, <1>2, <1>3, <3>1 DEF Txs, Tables
  <2>2. Fits(r, "set", my[r], t)
    BY <1>1, <1>2, <1>4, <1>5, <2>1 DEF Fits, InTx, Unwritten, Is
  <2>3. \A s \in Requests \ {r} : tx[s].out \intersect t.out = {}
    BY <1>7, <2>1 DEF Scans, Unlocked
  <2>. QED
    BY <1>1, <1>6, <1>7, <2>1, <2>2, <2>3, TakeStep
<1>8. CASE tx' = tx
  <2>1. Fits(r, "set", my[r], tx[r])
    BY <1>1, <1>2, <1>4, <1>5 DEF Fits, InTx, Unwritten, Is
  <2>. QED
    BY <1>1, <1>6, <1>8, <2>1, ReadStep DEF Reads
<1>. QED
  BY <1>1, <1>7, <1>8

LEMMA EraseStep == ASSUME IInv, NEW r \in Requests, Erase(r) PROVE IInv'
<1>. DEFINE gone == About(r, "people", my[r].member)
            l == IF Is(r, {"delete"}) THEN "done" ELSE "finds"
<1>0. PICK t : t = [tx[r] EXCEPT !.out = gone, !.whole = {"people"}]
  OBVIOUS
<1>1. /\ pc[r] = "erase" /\ Scans(r, "people") /\ Goto(r, l) /\ UNCHANGED <<op, my, given>>
      /\ \/ ~tx[r].open /\ Stores(gone, {})
         \/ tx[r].open /\ tx' = [tx EXCEPT ![r] = t] /\ UNCHANGED rows
  <2>1. tx \in [Requests -> Txs]
    BY DEF IInv, Plain
  <2>. QED
    BY <1>0, <2>1 DEF Erase, Txs
<1>2. /\ my[r] \in Mine /\ tx[r] \in Txs /\ op[r].name \in {"delete", "upgrade"}
      /\ my[r].token = None \/ my[r].token.of = "tokens"
      /\ \A x \in my[r].todo : x.of \in Updated
      /\ tx[r].open => Is(r, {"upgrade", "roles"})
      /\ ~tx[r].open => tx[r] = NoTx
  BY <1>1, AtTx, DoersAre DEF InTx
<1>3. tx[r].out = {} /\ tx[r].in = {}
  BY <1>1 DEF IInv, Control, Has, Unwritten
<1>4. \A k \in Tables : "erase" \in Late(k) => l \in Late(k)
  BY DEF Late, Tables, Labels, Making, Ended
<1>5. /\ l \in {"done", "finds"} /\ l \in Labels /\ l \notin Knows \union Unwritten
      /\ l = "finds" => op[r].name \in Doers(l)
      /\ l = "done" => op[r].name = "delete"
  BY <1>2, DoersAre DEF Labels, Ended, Knows, Making, Unwritten, Is
<1>6. Keeps(r, my[r])
  BY <1>1 DEF Keeps, IInv, Plain
<1>7. gone \subseteq rows /\ gone \subseteq Rows /\ \A x \in gone : x.of = "people"
  BY <1>3, AboutOK DEF IInv, View
<1>8. \A s \in Requests \ {r} : tx[s].out \intersect gone = {}
  <2>1. \A x \in gone : x \in {y \in rows : y.of = "people"}
    BY <1>7
  <2>. QED
    BY <1>1, <2>1 DEF Scans, Unlocked
<1>9. CASE ~tx[r].open /\ Stores(gone, {})
  <2>1. Fits(r, l, my[r], tx[r])
    <3>. HIDE DEF l
    <3>. QED
      BY <1>1, <1>2, <1>4, <1>5, <1>9 DEF Fits, Ended
  <2>. HIDE DEF l, gone
  <2>. QED
    BY <1>1, <1>2, <1>6, <1>8, <1>9, <2>1, EditStep DEF OneKey
<1>10. CASE tx[r].open /\ tx' = [tx EXCEPT ![r] = t] /\ UNCHANGED rows
  <2>1. t \in Txs /\ t.open /\ t.in = {} /\ t.out = gone
    BY <1>0, <1>2, <1>3, <1>7, <1>10 DEF Txs, Tables
  <2>2. Fits(r, l, my[r], t)
    <3>1. l = "finds"
      BY <1>2, <1>5, <1>10 DEF Is
    <3>. HIDE DEF l
    <3>. QED
      BY <1>1, <1>2, <1>4, <1>5, <1>10, <2>1, <3>1 DEF Fits, InTx
  <2>. HIDE DEF l, gone
  <2>. QED
    BY <1>1, <1>6, <1>7, <1>8, <1>10, <2>1, <2>2, TakeStep
<1>. QED
  BY <1>1, <1>9, <1>10

LEMMA UpgradeFailsStep == ASSUME IInv, NEW r \in Requests, UpgradeFails(r) PROVE IInv'
<1>1. /\ UNCHANGED <<rows, op, given>> /\ tx' = [tx EXCEPT ![r] = NoTx]
      /\ pc[r] \in {"erase", "replace"}
  BY DEF UpgradeFails, Rollback
<1>2. /\ my[r] \in Mine /\ op[r].name \in Doers(pc[r])
      /\ my[r].token = None \/ my[r].token.of = "tokens"
      /\ \A x \in my[r].todo : x.of \in Updated
  BY <1>1, AtTx DEF InTx
<1>3. /\ NoTx \in Txs /\ NoTx.in = {} /\ NoTx.out = {} /\ ~NoTx.open
  BY DEF NoTx, Txs
<1>4. CASE pc[r] = "erase" /\ Is(r, {"upgrade"}) /\ Goto(r, "finds") /\ UNCHANGED my
  <2>1. \A k \in Tables : "erase" \in Late(k) => "finds" \in Late(k)
    BY DEF Late, Tables, Labels, Making, Ended
  <2>2. "finds" \in Labels /\ "finds" \notin Knows /\ op[r].name \in Doers("finds")
    BY <1>4, DoersAre DEF Labels, Knows, Making, Is
  <2>3. Fits(r, "finds", my[r], NoTx)
    BY <1>2, <1>3, <1>4, <2>1, <2>2 DEF Fits, Unwritten
  <2>4. Keeps(r, my[r])
    BY <1>4 DEF Keeps, IInv, Plain
  <2>. QED
    BY <1>1, <1>3, <1>4, <2>3, <2>4, TakeStep
<1>5. ASSUME pc[r] = "replace", UNCHANGED pc, NEW x \in my[r].todo,
             Keeps(r, [my[r] EXCEPT !.todo = @ \ {x}])
      PROVE  IInv'
  <2>1. PICK m : m = [my[r] EXCEPT !.todo = @ \ {x}]
    OBVIOUS
  <2>2. /\ m \in Mine /\ m.token = my[r].token /\ m.left = my[r].left
        /\ m.todo \subseteq my[r].todo
    BY <1>2, <2>1 DEF Mine
  <2>3. "replace" \in Labels /\ "replace" \notin Knows
    BY DEF Labels, Knows, Making
  <2>4. Fits(r, "replace", m, NoTx)
    BY <1>2, <1>3, <1>5, <2>2, <2>3 DEF Fits, Unwritten
  <2>5. Goto(r, "replace") /\ Keeps(r, m)
    BY <1>5, <2>1 DEF Goto, IInv, Plain
  <2>. QED
    BY <1>1, <1>3, <1>5, <2>4, <2>5, TakeStep
<1>. QED
  BY <1>4, <1>5 DEF UpgradeFails

\* A transaction is committed, or given up.
LEMMA EndStep ==
    ASSUME IInv, NEW r \in Requests, pc[r] # "idle",
           NEW l, NEW m, Fits(r, l, m, NoTx), Goto(r, l), Keeps(r, m),
           UNCHANGED <<op, given>>, tx' = [tx EXCEPT ![r] = NoTx],
           rows' = View(r) \/ rows' = rows
    PROVE  IInv'
<1>1. CASE rows' = View(r)
  <2>1. Locks'
    BY <1>1, Committed DEF IInv
  <2>2. rows' \subseteq Rows /\ \A x \in rows' : Known(x)
    BY <1>1, ViewOK DEF IInv, View, Known
  <2>3. NoTx.in = {}
    BY DEF NoTx
  <2>. QED
    BY <2>1, <2>2, <2>3, Moved DEF Goto, Keeps
<1>2. CASE rows' = rows
  <2>1. NoTx.in = {} /\ NoTx.out = {}
    BY DEF NoTx
  <2>. QED
    BY <1>2, <2>1, TakeStep
<1>. QED
  BY <1>1, <1>2

LEMMA CommitStep == ASSUME IInv, NEW r \in Requests, Commit(r) PROVE IInv'
<1>1. /\ pc[r] = "commit" /\ Goto(r, "done") /\ UNCHANGED <<op, my, given>>
      /\ tx' = [tx EXCEPT ![r] = NoTx] /\ (rows' = View(r) \/ rows' = rows)
  BY DEF Commit
<1>2. /\ my[r] \in Mine
      /\ my[r].token = None \/ my[r].token.of = "tokens"
      /\ \A x \in my[r].todo : x.of \in Updated
  BY <1>1, AtTx DEF InTx
<1>3. Fits(r, "done", my[r], NoTx)
  <2>1. "done" \in Labels \ {"idle"} /\ "done" \notin Knows \union Unwritten
    BY DEF Labels, Ended, Knows, Making, Unwritten
  <2>. QED
    BY <1>2, <2>1, LatePlaces DEF Fits, NoTx, Txs, Ended
<1>4. Keeps(r, my[r])
  BY <1>1 DEF Keeps, IInv, Plain
<1>. QED
  BY <1>1, <1>3, <1>4, EndStep

\* A request puts rows in the place of others, in its transaction or outside of it.
LEMMA RewriteStep ==
    ASSUME IInv, NEW r \in Requests, pc[r] \in {"replace", "put"},
           NEW l, NEW m, \A t \in Txs : t.open = tx[r].open => Fits(r, l, m, t),
           Goto(r, l), Keeps(r, m), UNCHANGED <<op, given>>,
           NEW out \in SUBSET View(r), NEW in \in SUBSET Rows, Writes(r, out, in), OneKey(in),
           \A x \in in : \E y \in out : Key(y) = Key(x),
           \A x \in out : x.of # "tokens",
           \A s \in Requests \ {r} : tx[s].out \intersect out = {}
    PROVE  IInv'
<1>1. tx[r] \in Txs /\ tx \in [Requests -> Txs] /\ (~tx[r].open => tx[r] = NoTx)
  BY AtTx DEF InTx, IInv, Plain
<1>2. CASE ~tx[r].open
  <2>1. Stores(out, in) /\ tx[r] = NoTx /\ View(r) = rows
    BY <1>1, <1>2, ViewOK DEF Writes, IInv
  <2>2. Fits(r, l, m, tx[r])
    BY <1>1
  <2>. QED
    BY <2>1, <2>2, EditStep
<1>3. CASE tx[r].open
  <2>1. PICK t : t = [tx[r] EXCEPT !.out = @ \union (out \intersect rows),
                                   !.in = (@ \ out) \union in]
    OBVIOUS
  <2>2. t \in Txs /\ t.open /\ t.in = (tx[r].in \ out) \union in
    <3>1. rows \subseteq Rows
      BY DEF IInv, Plain
    <3>. QED
      BY <1>1, <1>3, <2>1, <3>1 DEF Txs
  <2>3. tx' = [tx EXCEPT ![r] = t] /\ UNCHANGED rows
    BY <1>1, <1>3, <2>1 DEF Writes
  <2>4. Locks'
    BY <1>3, EditedInTx DEF IInv
  <2>5. \A x \in rows' : Known(x)
    BY <2>3 DEF Known
  <2>6. \A x \in t.in : Known(x)
    BY <2>2 DEF Known, View
  <2>7. Fits(r, l, m, t) /\ rows' \subseteq Rows
    BY <1>3, <2>2, <2>3 DEF IInv, Plain
  <2>. QED
    BY <2>3, <2>4, <2>5, <2>6, <2>7, Moved DEF Goto, Keeps
<1>. QED
  BY <1>2, <1>3

LEMMA ReplaceStep == ASSUME IInv, NEW r \in Requests, Replace(r) PROVE IInv'
<1>1. pc[r] = "replace" /\ UNCHANGED <<pc, op, given>>
  BY DEF Replace
<1>2. PICK x \in my[r].todo :
          LET now == {y \in View(r) : Key(y) = Key(x)} IN
          /\ Unlocked(r, x.of, now)
          /\ Writes(r, now, IF now = {} THEN {} ELSE {[x EXCEPT !.member = op[r].to]})
          /\ Keeps(r, [my[r] EXCEPT !.todo = @ \ {x}])
  BY DEF Replace
<1>3. PICK now, in, m :
          /\ now = {y \in View(r) : Key(y) = Key(x)}
          /\ in = IF now = {} THEN {} ELSE {[x EXCEPT !.member = op[r].to]}
          /\ m = [my[r] EXCEPT !.todo = @ \ {x}]
  OBVIOUS
<1>4. Unlocked(r, x.of, now) /\ Writes(r, now, in) /\ Keeps(r, m) /\ Goto(r, "replace")
  BY <1>1, <1>2, <1>3 DEF Goto, IInv, Plain
<1>5. /\ my[r] \in Mine /\ op[r].name = "upgrade" /\ op[r] \in Ops
      /\ my[r].token = None \/ my[r].token.of = "tokens"
      /\ \A y \in my[r].todo : y.of \in Updated
  BY <1>1, AtTx, DoersAre DEF InTx
<1>6. x \in Rows /\ x.of # "tokens" /\ op[r].to \in Refs
  BY <1>5, OpFacts DEF Mine, Updated, WellFormed, Refs
<1>7. in \in SUBSET Rows /\ OneKey(in) /\ \A z \in in : \E y \in now : Key(y) = Key(z)
  <2>1. [x EXCEPT !.member = op[r].to] \in Rows
    BY <1>6 DEF Rows
  <2>2. Key([x EXCEPT !.member = op[r].to]) = Key(x)
    BY <1>6 DEF Rows, Key
  <2>. QED
    BY <1>3, <2>1, <2>2 DEF OneKey
<1>8. /\ now \in SUBSET View(r) /\ \A y \in now : y.of # "tokens"
      /\ \A s \in Requests \ {r} : tx[s].out \intersect now = {}
  BY <1>3, <1>4, <1>6 DEF Key, Unlocked
<1>9. ASSUME NEW t \in Txs, t.open = tx[r].open PROVE Fits(r, "replace", m, t)
  <2>1. m \in Mine /\ m.token = my[r].token /\ m.left = my[r].left /\ m.todo \subseteq my[r].todo
    BY <1>3, <1>5 DEF Mine
  <2>2. "replace" \in Labels /\ "replace" \notin Knows
    BY DEF Labels, Knows, Making
  <2>. QED
    BY <1>1, <1>5, <1>9, <2>1, <2>2, DoersAre DEF Fits, InTx, Unwritten, Is
<1>. QED
  BY <1>1, <1>4, <1>7, <1>8, <1>9, RewriteStep

\* What a transaction sees has one row for each _id.
LEMMA ViewKeys == ASSUME Plain, Locks, NEW r \in Requests PROVE OneKey(View(r))
<1>1. Holds(r) /\ OneKey(rows)
  BY DEF Locks
<1>. QED
  BY <1>1 DEF Holds, OneKey, View

LEMMA SetRoleStep == ASSUME IInv, NEW r \in Requests, SetRole(r) PROVE IInv'
<1>0. PICK m, old, n, x, in :
          /\ m = my[r].member /\ old = About(r, "perms", m)
          /\ n = [my[r] EXCEPT !.left = @ \ {m}]
          /\ x = Row(r, "perms", m, None, r)
          /\ in = {[y EXCEPT !.pw = r] : y \in old}
  OBVIOUS
<1>1. /\ pc[r] = "put" /\ Goto(r, "set") /\ Keeps(r, n) /\ UNCHANGED <<op, given>>
      /\ \/ Scans(r, "perms") /\ Writes(r, old, in)
         \/ Writes(r, {}, {x})
         \/ rows' = View(r) /\ tx' = [tx EXCEPT ![r] = NoTx]
  BY <1>0 DEF SetRole
<1>2. /\ my[r] \in Mine /\ op[r].name = "roles" /\ m \in my[r].left /\ m \in Refs
      /\ my[r].token = None \/ my[r].token.of = "tokens"
      /\ \A y \in my[r].todo : y.of \in Updated
      /\ ~tx[r].open => tx[r] = NoTx
  <2>1. my[r].member \in my[r].left /\ my[r].member \in Refs
    BY <1>1 DEF IInv, Control, Has, Knows
  <2>. QED
    BY <1>0, <1>1, <2>1, AtTx, DoersAre DEF InTx
<1>3. /\ n \in Mine /\ n.token = my[r].token /\ n.todo = my[r].todo
      /\ n.left = my[r].left \ {m}
  BY <1>0, <1>2 DEF Mine
<1>4. ASSUME NEW t \in Txs PROVE Fits(r, "set", n, t)
  <2>1. "set" \in Labels /\ "set" \notin Knows /\ op[r].name \in Doers("set")
    BY <1>2, DoersAre DEF Labels, Knows, Making
  <2>2. \A k \in Tables : "put" \in Late(k) => "set" \in Late(k)
    BY DEF Late, Tables, Labels, Making, Ended
  <2>. QED
    BY <1>1, <1>2, <1>3, <2>1, <2>2 DEF Fits, InTx, Unwritten, Is
<1>5. CASE Scans(r, "perms") /\ Writes(r, old, in)
  <2>1. old \subseteq View(r) /\ old \subseteq Rows /\ \A y \in old : y.of = "perms"
    BY <1>0, AboutOK DEF IInv
  <2>2. OneKey(old)
    BY <2>1, ViewKeys DEF IInv, OneKey
  <2>3. in \in SUBSET Rows /\ OneKey(in) /\ \A z \in in : \E y \in old : Key(y) = Key(z)
    <3>1. \A z \in in : \E y \in old :
              z = [y EXCEPT !.pw = r] /\ z \in Rows /\ Key(z) = Key(y)
      BY <1>0, <2>1 DEF Rows, Key, Makers
    <3>. QED
      BY <2>2, <3>1 DEF OneKey
  <2>4. \A s \in Requests \ {r} : tx[s].out \intersect old = {}
    <3>1. \A s \in Requests : \A y \in tx[s].out \intersect old : y \in {z \in rows : z.of = "perms"}
      BY <2>1, OthersHold
    <3>. QED
      BY <1>5, <3>1 DEF Scans, Unlocked
  <2>. QED
    BY <1>1, <1>4, <1>5, <2>1, <2>3, <2>4, RewriteStep
<1>6. CASE Writes(r, {}, {x})
  <2>1. x \in Rows /\ x.by = r /\ x.of = "perms" /\ x.for = m
    BY SMTT(30), <1>0, <1>2, RowOK DEF Tables, Makers
  <2>2. ~Spent(x)
    BY <1>2, <2>1 DEF Spent
  <2>3. Spent(x)'
    <3>1. pc'[r] = "set" /\ my'[r] = n
      BY <1>1 DEF Goto, Keeps, IInv, Plain
    <3>. QED
      BY <1>3, <2>1, <3>1 DEF Spent, Late
  <2>4. CASE ~tx[r].open
    <3>1. Stores({}, {x}) /\ Fits(r, "set", n, tx[r])
      BY <1>4, <1>6, <2>4 DEF Writes, IInv, Plain
    <3>. QED
      BY <1>1, <2>1, <2>2, <2>3, <3>1, AddStep
  <2>5. CASE tx[r].open
    <3>1. /\ \A y \in rows : Key(y) # Key(x)
          /\ \A s \in Requests : \A y \in tx[s].in : Key(y) # Key(x)
      BY <2>1, <2>2, NewKey
    <3>2. Locks'
      BY <1>6, <2>1, <2>5, <3>1, AddedInTx DEF IInv
    <3>3. PICK t : t = [tx[r] EXCEPT !.out = @ \union ({} \intersect rows),
                                     !.in = (@ \ {}) \union {x}]
      OBVIOUS
    <3>4. tx \in [Requests -> Txs] /\ rows \subseteq Rows
      BY DEF IInv, Plain
    <3>5. t \in Txs /\ t.in = tx[r].in \union {x}
      BY ZenonT(60), <2>1, <3>3, <3>4 DEF Txs
    <3>6. tx' = [tx EXCEPT ![r] = t] /\ UNCHANGED rows
      BY <1>6, <2>5, <3>3, <3>4 DEF Writes
    <3>7. /\ \A y \in rows' : Known(y)
          /\ \A y \in t.in : Known(y) \/ Spent(y)'
      BY <2>3, <3>5, <3>6 DEF Known
    <3>8. Fits(r, "set", n, t)
      BY <1>4, <3>5
    <3>. QED
      BY <1>1, <3>2, <3>4, <3>6, <3>7, <3>8, Moved DEF Goto, Keeps
  <2>. QED
    BY <2>4, <2>5
<1>7. CASE rows' = View(r) /\ tx' = [tx EXCEPT ![r] = NoTx]
  <2>1. Fits(r, "set", n, NoTx)
    BY <1>4 DEF NoTx, Txs
  <2>. QED
    BY <1>1, <1>7, <2>1, EndStep
<1>. QED
  BY <1>1, <1>5, <1>6, <1>7

-----------------------------------------------------------------------------
(* Steps of the world around *)

LEMMA FailStep == ASSUME IInv, NEW r \in Requests, Fail(r) PROVE IInv'
<1>. DEFINE l == IF pc[r] \in Making THEN After(r, FALSE) ELSE "failed"
<1>1. /\ pc[r] \notin Ended \union {"idle"} /\ Goto(r, l) /\ UNCHANGED <<rows, op, my, given>>
      /\ tx' = [tx EXCEPT ![r] = NoTx]
      /\ pc[r] \notin {"set", "put", "commit", "save", "drop"}
  BY DEF Fail, Rollback, Making, Ended
<1>2. /\ my[r] \in Mine /\ op[r].name \in OpNames
      /\ my[r].token = None \/ my[r].token.of = "tokens"
      /\ \A x \in my[r].todo : x.of \in Updated
      /\ pc[r] \in Making => my[r].member \in Refs
  BY <1>1, AtPlace, OpFacts DEF Knows
<1>3. NoTx \in Txs /\ ~NoTx.open /\ NoTx.in = {} /\ NoTx.out = {}
  BY DEF NoTx, Txs
<1>4. Fits(r, l, my[r], NoTx)
  <2>1. CASE pc[r] \in Making
    <3>1. l \in {"mail", "done", "failed"} /\ (l = "mail" => op[r].name \in Logins)
      BY <1>2, <2>1, AfterOK
    <3>2. \A k \in Tables : pc[r] \in Late(k) => l \in Late(k)
      BY <2>1, <3>1 DEF Late, Tables, Labels, Making, Ended
    <3>3. l \in Labels \ {"idle"} /\ l \notin Unwritten
      BY <3>1 DEF Labels, Ended, Unwritten
    <3>4. l \in Ended \/ op[r].name \in Doers(l)
      BY <3>1, DoersAre DEF Ended
    <3>. HIDE DEF l
    <3>. QED
      BY <1>2, <1>3, <2>1, <3>1, <3>2, <3>3, <3>4 DEF Fits
  <2>2. CASE pc[r] \notin Making
    <3>1. l = "failed" /\ "failed" \in Labels \ {"idle"} /\ "failed" \notin Knows \union Unwritten
      BY <2>2 DEF Labels, Ended, Knows, Making, Unwritten
    <3>. HIDE DEF l
    <3>. QED
      BY <1>2, <1>3, <3>1, LatePlaces DEF Fits, Ended
  <2>. QED
    BY <2>1, <2>2
<1>5. Keeps(r, my[r])
  BY <1>1 DEF Keeps, IInv, Plain
<1>. HIDE DEF l
<1>. QED
  BY <1>1, <1>4, <1>5, EndStep

LEMMA CrashStep == ASSUME IInv, NEW r \in Requests, Crash(r) PROVE IInv'
<1>1. PICK lost \in SUBSET Requests :
          /\ \A s \in lost : pc[s] # "idle"
          /\ pc' = [s \in Requests |-> IF s \in lost THEN "lost" ELSE pc[s]]
          /\ tx' = [s \in Requests |-> IF s \in lost THEN NoTx ELSE tx[s]]
  <2>1. PICK others \in SUBSET {s \in Requests : Active(s)} :
            /\ pc' = [s \in Requests |-> IF s \in others \union {r} THEN "lost" ELSE pc[s]]
            /\ tx' = [s \in Requests |-> IF s \in others \union {r} THEN NoTx ELSE tx[s]]
    BY DEF Crash
  <2>2. pc[r] # "idle"
    BY DEF Crash, Streamed
  <2>. QED
    BY <2>1, <2>2 DEF Active
<1>2. UNCHANGED <<rows, op, my, given>>
  BY DEF Crash
<1>3. NoTx \in Txs /\ ~NoTx.open /\ NoTx.in = {} /\ NoTx.out = {}
  BY DEF NoTx, Txs
<1>4. "lost" \in Labels /\ \A k \in Tables : "lost" \in Late(k)
  BY LatePlaces DEF Labels, Ended
<1>5. Plain'
  BY <1>1, <1>2, <1>3, <1>4 DEF IInv, Plain
<1>6. ASSUME NEW s \in Requests PROVE Has(s)'
  <2>1. Has(s)
    BY DEF IInv, Control
  <2>2. CASE s \in lost
    <3>1. pc'[s] = "lost" /\ tx'[s] = NoTx /\ my'[s] = my[s] /\ op'[s] = op[s]
      BY <1>1, <1>2, <2>2
    <3>2. "lost" \notin Knows \union Unwritten /\ "lost" \in Ended
      BY DEF Knows, Making, Unwritten, Ended
    <3>. QED
      BY <1>1, <1>3, <2>1, <2>2, <3>1, <3>2 DEF Has, Active
  <2>3. CASE s \notin lost
    <3>1. pc'[s] = pc[s] /\ tx'[s] = tx[s] /\ my'[s] = my[s] /\ op'[s] = op[s]
      BY <1>1, <1>2, <2>3
    <3>. QED
      BY <2>1, <3>1 DEF Has, Active, Is
  <2>. QED
    BY <2>2, <2>3
<1>7. Locks'
  BY <1>1, <1>2, RolledBack DEF IInv
<1>8. Onward
  BY <1>1, <1>2, <1>4 DEF Onward
<1>9. Fresh'
  <2>1. rows' \subseteq Rows /\ \A s \in Requests : tx'[s].in \subseteq Rows
    BY <1>5 DEF Plain, Txs
  <2>2. \A x \in rows' : Known(x)
    BY <1>2 DEF Known
  <2>3. \A s \in Requests : \A x \in tx'[s].in : Known(x)
    BY <1>1, <1>3 DEF Known
  <2>. QED
    BY <1>8, <2>1, <2>2, <2>3, FreshStays
<1>. QED
  BY <1>5, <1>6, <1>7, <1>9 DEF IInv, Control

LEMMA LapseStep == ASSUME IInv, Lapse PROVE IInv'
<1>1. PICK x \in rows : x.of = "tokens" /\ rows' = rows \ {x}
  BY DEF Lapse
<1>2. UNCHANGED <<pc, op, my, tx, given>>
  BY DEF Lapse
<1>3. Plain' /\ Control'
  <2>1. \A s \in Requests : Has(s) => Has(s)'
    BY <1>2 DEF Has, Active, Is
  <2>. QED
    BY <1>1, <1>2, <2>1 DEF IInv, Plain, Control
<1>4. Locks'
  <2>1. Stores({x}, {}) /\ \A s \in Requests : tx[s].out \intersect {x} = {}
    BY <1>1, <1>2, OthersHold DEF Stores
  <2>. QED
    BY <2>1, Edited DEF IInv, OneKey
<1>5. Fresh'
  <2>1. \A y : Spent(y) => Spent(y)'
    BY <1>2 DEF Spent
  <2>. QED
    BY <1>1, <1>2, <2>1 DEF IInv, Fresh
<1>. QED
  BY <1>3, <1>4, <1>5 DEF IInv

LEMMA ArriveStep == ASSUME IInv, NEW r \in Requests, Arrive(r) PROVE IInv'
<1>1. pc[r] = "idle" /\ UNCHANGED <<rows, tx, given>>
  BY DEF Arrive
<1>0. PICK o \in Given.menu : \E l :
          /\ op' = [op EXCEPT ![r] = o]
          /\ Keeps(r, [member |-> o.member, found |-> None, token |-> None, todo |-> {},
                       left |-> o.list])
          /\ Goto(r, l)
          /\ l = CASE o.name \in Logins -> "newId"
                   [] o.name = "request" -> "info"
                   [] o.name = "finish" -> "validate"
                   [] o.name \in {"delete", "upgrade"} -> "find"
                   [] o.name = "roles" -> "start"
                   [] OTHER -> "member"
  BY DEF Arrive
<1>2. PICK l :
          /\ op' = [op EXCEPT ![r] = o]
          /\ Keeps(r, [member |-> o.member, found |-> None, token |-> None, todo |-> {},
                       left |-> o.list])
          /\ Goto(r, l)
          /\ l = CASE o.name \in Logins -> "newId"
                   [] o.name = "request" -> "info"
                   [] o.name = "finish" -> "validate"
                   [] o.name \in {"delete", "upgrade"} -> "find"
                   [] o.name = "roles" -> "start"
                   [] OTHER -> "member"
  BY <1>0
<1>3. PICK m : m = [member |-> o.member, found |-> None, token |-> None, todo |-> {},
                    left |-> o.list]
  OBVIOUS
<1>4. o \in Ops
  BY AccountsOK DEF Given, Setting, IInv, Plain
<1>5. /\ m \in Mine /\ m.token = None /\ m.todo = {} /\ m.member = o.member
  BY <1>3, <1>4, OpFacts DEF Mine
<1>6. l \in {"newId", "info", "validate", "find", "start", "member"}
  BY <1>2
<1>7. o.name \in Doers(l)
  <2>1. o.name \in OpNames
    BY <1>4, OpFacts
  <2>2. CASE o.name \in Logins
    BY <1>2, <2>2, DoersAre DEF Logins
  <2>3. CASE o.name \in {"request", "finish", "delete", "upgrade", "roles", "discord"}
    BY <1>2, <2>3, DoersAre DEF Logins
  <2>. QED
    BY <2>1, <2>2, <2>3 DEF OpNames
<1>8. l \in {"info", "validate", "member"} => o.member \in Refs
  <2>1. o.name \in OpNames /\ WellFormed(o) /\ o.member \in Refs \union {None}
    BY <1>4, OpFacts
  <2>2. l \in {"info", "validate", "member"} => o.name \in {"request", "finish", "discord"}
    BY <1>2, <2>1 DEF OpNames, Logins
  <2>. QED
    BY <2>1, <2>2 DEF WellFormed
<1>9. /\ pc' = [pc EXCEPT ![r] = l] /\ my' = [my EXCEPT ![r] = m]
      /\ pc'[r] = l /\ my'[r] = m /\ op'[r] = o
      /\ \A s \in Requests \ {r} : pc'[s] = pc[s] /\ my'[s] = my[s] /\ op'[s] = op[s]
  BY <1>2, <1>3 DEF Goto, Keeps, IInv, Plain
<1>10. l \in Labels /\ l \notin InTx \union Ended \union {"idle", "save", "put", "addPerson"}
  BY <1>6 DEF Labels, Making, InTx, Ended
<1>11. Plain'
  BY <1>1, <1>2, <1>4, <1>5, <1>9, <1>10 DEF IInv, Plain
<1>12. ASSUME NEW s \in Requests PROVE Has(s)'
  <2>1. Has(s)
    BY DEF IInv, Control
  <2>2. CASE s = r
    <3>1. ~tx[r].open
      BY <1>1, <2>1, <2>2 DEF Has, InTx
    <3>2. l \in Knows => m.member \in Refs
      BY <1>5, <1>6, <1>8 DEF Knows, Making
    <3>3. l \notin Unwritten \union {"clear"}
      BY <1>6 DEF Unwritten
    <3>. QED
      BY <1>1, <1>4, <1>5, <1>7, <1>9, <1>10, <2>2, <3>1, <3>2, <3>3 DEF Has, Active
  <2>3. CASE s # r
    <3>1. pc'[s] = pc[s] /\ tx'[s] = tx[s] /\ my'[s] = my[s] /\ op'[s] = op[s]
      BY <1>1, <1>9, <2>3
    <3>. QED
      BY <2>1, <3>1 DEF Has, Active, Is
  <2>. QED
    BY <2>2, <2>3
<1>13. Locks'
  BY <1>1, RolledBack DEF IInv
<1>14. Fresh'
  <2>1. Onward
    <3>1. \A k \in Tables : "idle" \notin Late(k)
      BY DEF Late, Tables, Ended
    <3>. QED
      BY <1>1, <1>9, <3>1 DEF Onward, Tables
  <2>2. rows' \subseteq Rows /\ \A s \in Requests : tx'[s].in \subseteq Rows
    BY <1>11 DEF Plain, Txs
  <2>3. /\ \A x \in rows' : Known(x)
        /\ \A s \in Requests : \A x \in tx'[s].in : Known(x)
    BY <1>1 DEF Known
  <2>. QED
    BY <2>1, <2>2, <2>3, FreshStays
<1>. QED
  BY <1>11, <1>12, <1>13, <1>14 DEF IInv, Control

-----------------------------------------------------------------------------
(* The invariant *)

LEMMA InitOK == Init => IInv
<1>. SUFFICES ASSUME Init PROVE IInv
  OBVIOUS
<1>1. /\ rows \subseteq Rows /\ OneKey(rows) /\ \A x \in rows : x.by \in Seeds
      /\ given \in DOMAIN Conditions
  BY AccountsOK DEF Init, OneKey
<1>2. NoTx \in Txs /\ ~NoTx.open /\ NoTx.in = {} /\ NoTx.out = {}
  BY DEF NoTx, Txs
<1>3. Plain
  BY <1>1, <1>2 DEF Init, Plain, Labels
<1>4. ASSUME NEW r \in Requests PROVE Has(r) /\ Holds(r)
  <2>1. pc[r] = "idle" /\ tx[r] = NoTx
    BY DEF Init
  <2>2. "idle" \notin Knows \union Unwritten
    BY DEF Knows, Making, Unwritten
  <2>. QED
    BY <1>2, <2>1, <2>2 DEF Has, Holds, Active, OneKey
<1>5. Locks
  BY <1>1, <1>2, <1>4 DEF Locks, Init
<1>6. Fresh
  <2>1. \A x \in rows : Spent(x)
    BY <1>1, NoneApart DEF Spent
  <2>2. \A r \in Requests : tx[r].in = {}
    BY <1>2 DEF Init
  <2>. QED
    BY <2>1, <2>2 DEF Fresh
<1>. QED
  BY <1>3, <1>4, <1>5, <1>6 DEF IInv, Control

LEMMA StepOK == ASSUME IInv, NEW r \in Requests, Step(r) PROVE IInv'
<1>1. CASE \/ NewId(r) \/ AddPerson(r) \/ Info(r) \/ Count(r) \/ AddToken(r) \/ Mail(r)
           \/ Validate(r) \/ NameFree(r) \/ MemberFree(r) \/ IsMember(r) \/ AddRow(r)
           \/ ReadBack(r) \/ Save(r) \/ Drop(r)
  BY <1>1, NewIdStep, AddPersonStep, InfoStep, CountStep, AddTokenStep, MailStep,
     ValidateStep, NameFreeStep, MemberFreeStep, IsMemberStep, AddRowStep, ReadBackStep,
     SaveStep, DropStep
<1>2. CASE \/ Find(r) \/ Start(r) \/ Erase(r) \/ Finds(r) \/ Replace(r) \/ Replaced(r)
           \/ Commit(r) \/ Clear(r) \/ Look(r) \/ SetRole(r) \/ RolesSet(r)
           \/ Peek(r) \/ Register(r)
  BY <1>2, FindStep, StartStep, EraseStep, FindsStep, ReplaceStep, ReplacedStep, CommitStep,
     ClearStep, LookStep, SetRoleStep, RolesSetStep, PeekStep, RegisterStep
<1>. QED
  BY <1>1, <1>2 DEF Step

LEMMA NextOK == IInv /\ [Next]_vars => IInv'
<1>. SUFFICES ASSUME IInv, [Next]_vars PROVE IInv'
  OBVIOUS
<1>1. CASE UNCHANGED vars
  BY <1>1 DEF vars, IInv, Plain, Control, Has, Active, Is, Locks, Holds, Fresh, Spent
<1>2. ASSUME NEW r \in Requests,
             Arrive(r) \/ Step(r) \/ Fail(r) \/ UpgradeFails(r) \/ Crash(r)
      PROVE  IInv'
  BY <1>2, ArriveStep, StepOK, FailStep, UpgradeFailsStep, CrashStep
<1>3. CASE Lapse
  BY <1>3, LapseStep
<1>. QED
  BY <1>1, <1>2, <1>3 DEF Next, Rest

LEMMA Invariant == Spec => []IInv
BY InitOK, NextOK, PTL DEF Spec

\* No two rows have one _id, and no transaction writes what another has written: what
\* addToCollection, saveInformationForUser, updateCollection and setpermissions.ts write
\* is kept apart by the locks of the database, whatever fails and whatever is rolled back.
THEOREM AccountsTyped == Spec => []TypeOK
<1>1. IInv => TypeOK
  <2>. SUFFICES ASSUME IInv PROVE TypeOK
    OBVIOUS
  <2>1. ASSUME NEW r \in Requests
        PROVE  /\ pc[r] # "idle" => op[r] \in Ops /\ my[r] \in Mine
               /\ tx[r].open => Active(r) /\ tx[r].out \subseteq rows
               /\ ~tx[r].open => tx[r] = NoTx
               /\ \A s \in Requests : tx[r].out \intersect tx[s].out # {} => r = s
    <3>1. Has(r) /\ Holds(r)
      BY DEF IInv, Control, Locks
    <3>. QED
      BY <3>1 DEF Has, Holds, IInv, Locks, Active, InTx, Ended
  <2>. QED
    BY <2>1 DEF IInv, Plain, Locks, OneKey, TypeOK
<1>. QED
  BY <1>1, Invariant, PTL

-----------------------------------------------------------------------------
(* What others do while a member is upgraded *)

LEMMA Unrelated ==
    ASSUME NEW o \in Ops, NEW p \in Ops, o.name = "upgrade", ~Related(o, p)
    PROVE  /\ p.name \notin Logins \union {"roles"}
           /\ o.member \in Prospects /\ o.member # p.member /\ o.member # p.to
           /\ o.to \in Cadets /\ p.to # o.member
<1>1. /\ o.member \in Prospects /\ o.to # None /\ o.to \in Cadets \union {None}
      /\ p.to \in Cadets \union {None} /\ o.member # None
  BY OpFacts, NoneApart DEF WellFormed, Refs
<1>2. p.name \notin Logins \union {"roles"}
  BY DEF Related, Logins
<1>3. o.member # p.member /\ o.member # p.to
  BY <1>1 DEF Related, Involved
<1>. QED
  BY <1>1, <1>2, <1>3

LEMMA RelatedBoth == ASSUME NEW o, NEW p PROVE Related(o, p) <=> Related(p, o)
<1>1. {o.name, p.name} = {p.name, o.name}
  OBVIOUS
<1>2. Involved(o) \intersect Involved(p) = Involved(p) \intersect Involved(o)
  OBVIOUS
<1>. QED
  BY <1>1, <1>2 DEF Related

\* Nothing of the member that r upgrades comes or goes.
Quiet(r) ==
    /\ \A y \in rows' \ rows : y.of # "tokens" /\ y.member = op[r].member =>
          \E x \in rows : Key(x) = Key(y) /\ x.member = y.member
    /\ \A x \in rows : x.of \in Updated /\ x.member = op[r].member =>
          \E y \in rows' : Key(y) = Key(x) /\ y.member = x.member

\* The step does not give a row to another member.
NotMoved ==
    \A x \in rows, y \in rows' : Key(x) = Key(y) => x.member = y.member

LEMMA QuietIsSeen ==
    ASSUME IInv, IInv', NEW r \in Requests, Quiet(r), Whole(r),
           pc[r] # "idle",
           pc'[r] = pc[r], op'[r] = op[r], my'[r] = my[r], tx'[r] = tx[r]
    PROVE  Whole(r)'
<1>1. /\ rows \subseteq Rows /\ rows' \subseteq Rows
      /\ OneKey(rows) /\ OneKey(rows')
      /\ tx[r].out \subseteq rows /\ tx[r].out \subseteq rows' /\ tx[r].in \subseteq Rows
  BY DEF IInv, Plain, Locks, Holds, Txs
<1>2. View(r)' = (rows' \ tx[r].out) \union tx[r].in
  BY DEF View
<1>3. ASSUME NEW y \in View(r)', y.of # "tokens", y.member = op[r].member
      PROVE  \E x \in View(r) : Key(x) = Key(y) /\ x.member = y.member /\ x.of = y.of
  <2>1. CASE y \in tx[r].in \/ y \in rows
    BY <1>2, <2>1 DEF View
  <2>2. CASE y \notin rows /\ y \in rows' \ tx[r].out
    <3>1. PICK x \in rows : Key(x) = Key(y) /\ x.member = y.member
      BY <1>3, <2>2 DEF Quiet
    <3>2. x \notin tx[r].out
      BY <1>1, <2>2, <3>1 DEF OneKey
    <3>. QED
      BY <1>1, <2>2, <3>1, <3>2, KeyFacts DEF View
  <2>. QED
    BY <1>2, <2>1, <2>2
<1>4. ASSUME NEW y \in View(r), y.of \in Updated, y.member = op[r].member
      PROVE  \E z \in View(r)' : Key(z) = Key(y) /\ z.member = op[r].member
  <2>1. CASE y \in tx[r].in
    BY <1>2, <1>4, <2>1
  <2>2. CASE y \in rows \ tx[r].out
    <3>1. PICK z \in rows' : Key(z) = Key(y) /\ z.member = y.member
      BY <1>4, <2>2 DEF Quiet
    <3>2. z \notin tx[r].out
      BY <1>1, <2>2, <3>1 DEF OneKey
    <3>. QED
      BY <1>2, <1>4, <3>1, <3>2
  <2>. QED
    BY <2>1, <2>2 DEF View
<1>5. \A y \in View(r)' : y.of = "people" => y.of # "tokens"
  OBVIOUS
<1>6. pc[r] \in {"finds", "replace", "commit"} =>
          \A y \in View(r)' : y.of = "people" => y.member # op[r].member
  BY <1>3 DEF Whole
<1>7. pc[r] \in {"replace", "commit"} =>
          \A y \in View(r)' : y.of \in Owned /\ y.member = op[r].member =>
              \E x \in my[r].todo : Key(x) = Key(y)
  <2>. SUFFICES ASSUME pc[r] \in {"replace", "commit"}, NEW y \in View(r)',
                       y.of \in Owned, y.member = op[r].member
                PROVE  \E x \in my[r].todo : Key(x) = Key(y)
    OBVIOUS
  <2>1. PICK x \in View(r) : Key(x) = Key(y) /\ x.member = y.member /\ x.of = y.of
    BY <1>3 DEF Owned
  <2>. QED
    BY <2>1 DEF Whole
<1>8. pc[r] = "replace" =>
          \A x \in my[r].todo : \E y \in View(r)' : Key(y) = Key(x) /\ y.member = op[r].member
  <2>. SUFFICES ASSUME pc[r] = "replace", NEW x \in my[r].todo
                PROVE  \E y \in View(r)' : Key(y) = Key(x) /\ y.member = op[r].member
    OBVIOUS
  <2>1. PICK y \in View(r) : Key(y) = Key(x) /\ y.member = op[r].member
    BY DEF Whole
  <2>2. x.of \in Updated /\ x \in Rows /\ y \in Rows
    <3>1. my[r] \in Mine /\ \A z \in my[r].todo : z.of \in Updated
      BY AtPlace
    <3>. QED
      BY <3>1, ViewOK DEF Mine, IInv
  <2>3. y.of \in Updated
    BY <2>1, <2>2, KeyFacts
  <2>. QED
    BY <1>4, <2>1, <2>3
<1>. QED
  BY <1>6, <1>7, <1>8 DEF Whole

LEMMA RemoveQuiet ==
    ASSUME IInv, rows' \subseteq rows, \A x \in rows \ rows' : x.of \notin Updated
    PROVE  NotMoved /\ \A r \in Requests : Quiet(r)
BY DEF IInv, Locks, OneKey, NotMoved, Quiet

LEMMA AddQuiet ==
    ASSUME IInv, NEW x \in Rows, rows' = rows \union {x}, x.by \in Requests, ~Spent(x)
    PROVE  /\ NotMoved
           /\ \A r \in Requests : x.of = "tokens" \/ x.member # op[r].member => Quiet(r)
<1>1. \A y \in rows : Key(y) # Key(x)
  BY NewKey
<1>. QED
  BY <1>1 DEF IInv, Locks, OneKey, NotMoved, Quiet

LEMMA EditQuiet ==
    ASSUME IInv, NEW out \in SUBSET rows, NEW in \in SUBSET Rows, Stores(out, in),
           \A x \in in : \E y \in out : Key(y) = Key(x) /\ y.member = x.member,
           \A y \in out : \E x \in in : Key(y) = Key(x) /\ y.member = x.member
    PROVE  NotMoved /\ \A r \in Requests : Quiet(r)
<1>1. rows' = (rows \ out) \union in /\ OneKey(rows)
  BY DEF Stores, IInv, Locks
<1>2. NotMoved
  BY <1>1 DEF OneKey, NotMoved
<1>3. ASSUME NEW r \in Requests PROVE Quiet(r)
  BY <1>1 DEF Quiet
<1>. QED
  BY <1>2, <1>3

\* Who gives permissions, or makes a new member, meets no upgrade.
LEMMA NoneMoving ==
    ASSUME IInv, Alone, Upgrades, NEW s \in Requests, Active(s),
           op[s].name \in Logins \union {"roles"}
    PROVE  \A r \in Requests \ {s} : ~Moving(r)
<1>. SUFFICES ASSUME NEW r \in Requests \ {s}, Moving(r) PROVE FALSE
  OBVIOUS
<1>1. op[r] \in Ops /\ op[s] \in Ops /\ op[r].name = "upgrade"
  BY AtPlace DEF Moving, Active, Is
<1>2. ~Related(op[r], op[s])
  BY DEF Upgrades, Apart
<1>. QED
  BY <1>1, <1>2, Unrelated

LEMMA OthersMember ==
    ASSUME IInv, Alone, Upgrades, NEW s \in Requests, Active(s),
           NEW r \in Requests \ {s}, Moving(r)
    PROVE  /\ op[r].member # op[s].member /\ op[r].member # op[s].to
           /\ op[s].name \notin Logins \union {"roles"}
<1>1. op[r] \in Ops /\ op[s] \in Ops /\ op[r].name = "upgrade"
  BY AtPlace DEF Moving, Active, Is
<1>2. ~Related(op[r], op[s])
  BY DEF Upgrades, Apart
<1>. QED
  BY <1>1, <1>2, Unrelated

\* What a step is to the others, and to whom the rows belong.
Tame(s) == NotMoved /\ \A r \in Requests \ {s} : Moving(r) => Quiet(r)

LEMMA TameReads == ASSUME IInv, NEW s \in Requests, UNCHANGED rows PROVE Tame(s)
BY RemoveQuiet DEF Tame

LEMMA TameMaking ==
    ASSUME IInv, Alone, Upgrades, NEW s \in Requests,
           AddPerson(s) \/ AddToken(s) \/ AddRow(s) \/ Register(s)
    PROVE  Tame(s)
<1>1. pc[s] \in {"addPerson", "addToken", "addRow", "register"}
  BY DEF AddPerson, AddToken, AddRow, Register
<1>2. Active(s) /\ op[s] \in Ops /\ op[s].name \in Doers(pc[s])
  BY <1>1, AtPlace DEF Active, Ended
<1>3. PICK t, m, n : /\ rows' = rows \/ rows' = rows \union {Row(s, t, m, n, None)}
                     /\ t \in {"people", "users", "discord", "tokens"} /\ pc[s] \notin Late(t)
                     /\ t = "people" => pc[s] = "addPerson" /\ m = my[s].member
                     /\ t = "users" => pc[s] = "addRow" /\ m = my[s].member
                     /\ t = "discord" => pc[s] = "register" /\ m = op[s].member
                     /\ t = "tokens" => pc[s] = "addToken" /\ m = my[s].member
                     /\ n \in Names \union {None}
  <2>1. op[s].user \in Names \union {None}
    BY <1>2, OpFacts
  <2>2. CASE AddPerson(s)
    BY <2>2 DEF AddPerson, Stores, Late
  <2>3. CASE AddToken(s)
    BY <2>3 DEF AddToken, Stores, Late
  <2>4. CASE AddRow(s)
    BY <2>1, <2>4 DEF AddRow, Stores, Late, Ended
  <2>5. CASE Register(s)
    BY <2>1, <2>5 DEF Register, Stores, Late, Ended
  <2>. QED
    BY <2>2, <2>3, <2>4, <2>5
<1>4. m \in Refs
  <2>1. CASE t = "discord"
    <3>1. op[s].name = "discord"
      BY <1>2, <1>3, <2>1, DoersAre
    <3>. QED
      BY <1>2, <1>3, <2>1, <3>1, OpFacts DEF WellFormed, Logins
  <2>2. CASE t # "discord"
    BY <1>3, <2>2, AtPlace DEF Knows, Making
  <2>. QED
    BY <2>1, <2>2
<1>5. PICK x : x = Row(s, t, m, n, None)
  OBVIOUS
<1>6. x \in Rows /\ x.by = s /\ x.of = t /\ x.member = m /\ ~Spent(x)
  <2>1. x \in Rows /\ x.by = s /\ x.of = t /\ x.member = m
    BY <1>3, <1>4, <1>5, RowOK DEF Tables, Row
  <2>. QED
    BY <1>3, <2>1 DEF Spent
<1>7. ASSUME NEW r \in Requests \ {s}, Moving(r)
      PROVE  t = "tokens" \/ m # op[r].member
  <2>1. op[s].name \notin Logins \union {"roles"} /\ op[r].member # op[s].member
    BY <1>2, <1>7, OthersMember
  <2>2. CASE t = "people"
    BY <1>2, <1>3, <2>1, <2>2, DoersAre
  <2>3. CASE t = "users"
    <3>1. op[s].name = "finish"
      BY <1>2, <1>3, <2>1, <2>3, DoersAre DEF Making, Creating, Logins
    <3>. QED
      BY <1>2, <1>3, <2>1, <2>3, <3>1 DEF Upgrades, Is
  <2>4. CASE t = "discord"
    BY <1>3, <2>1, <2>4
  <2>. QED
    BY <1>3, <2>2, <2>3, <2>4
<1>8. CASE rows' = rows \union {x}
  BY <1>6, <1>7, <1>8, AddQuiet DEF Tame
<1>9. CASE rows' = rows
  BY <1>9, TameReads
<1>. QED
  BY <1>3, <1>5, <1>8, <1>9

LEMMA TameSave == ASSUME IInv, NEW s \in Requests, Save(s) PROVE Tame(s)
<1>1. CASE UNCHANGED rows
  BY <1>1, TameReads
<1>2. ASSUME NEW m, NEW n, n \in Names \union {None},
             Stores(About(s, "users", m),
                    {[y EXCEPT !.name = n, !.pw = s] : y \in About(s, "users", m)}),
             pc[s] = "save"
      PROVE  Tame(s)
  <2>1. PICK out, in : /\ out = About(s, "users", m)
                       /\ in = {[y EXCEPT !.name = n, !.pw = s] : y \in out}
    OBVIOUS
  <2>2. out \subseteq rows /\ out \subseteq Rows
    <3>1. tx[s] = NoTx
      BY <1>2, AtPlace DEF InTx
    <3>. QED
      <4>1. View(s) = rows /\ View(s) \subseteq Rows
        BY <3>1, ViewOK DEF IInv
      <4>2. About(s, "users", m) \subseteq View(s)
        BY DEF About
      <4>. QED
        BY <2>1, <4>1, <4>2
  <2>3. ASSUME NEW y \in out
        PROVE  /\ [y EXCEPT !.name = n, !.pw = s] \in Rows
               /\ Key([y EXCEPT !.name = n, !.pw = s]) = Key(y)
               /\ [y EXCEPT !.name = n, !.pw = s].member = y.member
    BY <1>2, <2>2 DEF Rows, Key, Makers
  <2>4. /\ in \subseteq Rows
        /\ \A x \in in : \E y \in out : Key(y) = Key(x) /\ y.member = x.member
        /\ \A y \in out : \E x \in in : Key(y) = Key(x) /\ y.member = x.member
    BY ZenonT(60), <2>1, <2>3
  <2>5. Stores(out, in)
    BY <1>2, <2>1
  <2>. QED
    BY ZenonT(60), <2>2, <2>4, <2>5, EditQuiet DEF Tame
<1>3. pc[s] = "save" /\ my[s].found \in Rows
  BY DEF Save, IInv, Control, Has
<1>4. my[s].found.name \in Names \union {None}
  BY <1>3 DEF Rows
<1>. QED
  BY <1>1, <1>2, <1>3, <1>4 DEF Save

LEMMA TameRemoving ==
    ASSUME IInv, Alone, Upgrades, NEW s \in Requests, Drop(s) \/ Erase(s) PROVE Tame(s)
<1>1. CASE Drop(s)
  <2>1. my[s].token = None \/ my[s].token.of = "tokens"
    BY <1>1, AtPlace DEF Drop
  <2>2. rows' \subseteq rows /\ \A x \in rows \ rows' : x = my[s].token
    BY <1>1 DEF Drop, Stores
  <2>3. rows \subseteq Rows
    BY DEF IInv, Plain
  <2>. QED
    BY <2>1, <2>2, <2>3, NoneApart, RemoveQuiet DEF Tame, Updated
<1>2. CASE Erase(s)
  <2>1. rows' \subseteq rows /\ \A x \in rows \ rows' : x \in About(s, "people", my[s].member)
    BY <1>2 DEF Erase, Stores
  <2>2. \A x \in rows \ rows' : x.of = "people"
    BY <2>1, AboutOK DEF IInv
  <2>. QED
    BY <2>1, <2>2, RemoveQuiet DEF Tame, Updated
<1>. QED
  BY <1>1, <1>2

LEMMA TameReplace ==
    ASSUME IInv, Alone, Upgrades, NEW s \in Requests, Replace(s) PROVE Tame(s)
<1>1. pc[s] = "replace"
  BY DEF Replace
<1>2. Moving(s)
  BY <1>1, AtTx, DoersAre DEF Moving, Active, Is, InTx, Ended
<1>3. tx[s].open
  BY <1>1, <1>2 DEF Upgrades, Whole
<1>4. UNCHANGED rows
  BY <1>3 DEF Replace, Writes
<1>. QED
  BY <1>4, TameReads

LEMMA TameRoles ==
    ASSUME IInv, Alone, Upgrades, NEW s \in Requests, Active(s), op[s].name = "roles",
           SetRole(s) \/ (Commit(s))
    PROVE  Tame(s)
<1>1. \A r \in Requests \ {s} : ~Moving(r)
  BY NoneMoving
<1>2. CASE rows' = View(s)
  <2>1. /\ OneKey(rows) /\ Holds(s) /\ Stays(s)
    BY DEF IInv, Locks, Upgrades, Is
  <2>2. ASSUME NEW x \in rows, NEW y \in tx[s].in, Key(x) = Key(y) PROVE x.member = y.member
    <3>1. x \in tx[s].out
      BY <2>1, <2>2 DEF Holds
    <3>. QED
      BY <2>1, <2>2, <3>1 DEF Stays
  <2>3. NotMoved
    BY <1>2, <2>1, <2>2 DEF View, NotMoved, OneKey
  <2>. QED
    BY <1>1, <2>3 DEF Tame
<1>3. CASE UNCHANGED rows
  BY <1>3, TameReads
<1>4. CASE SetRole(s) /\ ~tx[s].open
  <2>. DEFINE m == my[s].member
              old == About(s, "perms", m)
  <2>1. pc[s] = "put" /\ m \in Refs
    BY <1>4, AtPlace DEF SetRole, Knows
  <2>2. old \subseteq rows /\ old \subseteq Rows
    <3>1. View(s) = rows /\ View(s) \subseteq Rows
      BY <1>4, ViewOK DEF IInv, Locks, Holds
    <3>2. old \subseteq View(s)
      BY DEF About
    <3>. QED
      BY <3>1, <3>2
  <2>3. CASE Stores(old, {[x EXCEPT !.pw = s] : x \in old})
    <3>1. PICK in : in = {[x EXCEPT !.pw = s] : x \in old}
      OBVIOUS
    <3>2. ASSUME NEW y \in old
          PROVE  /\ [y EXCEPT !.pw = s] \in Rows /\ Key([y EXCEPT !.pw = s]) = Key(y)
                 /\ [y EXCEPT !.pw = s].member = y.member
      BY <2>2 DEF Rows, Key, Makers
    <3>. HIDE DEF old
    <3>3. /\ in \subseteq Rows
          /\ \A x \in in : \E y \in old : Key(y) = Key(x) /\ y.member = x.member
          /\ \A y \in old : \E x \in in : Key(y) = Key(x) /\ y.member = x.member
      BY <3>1, <3>2
    <3>. QED
      <4>1. Stores(old, in)
        BY <2>3, <3>1
      <4>. QED
        BY ZenonT(60), <2>2, <3>3, <4>1, EditQuiet DEF Tame
  <2>4. CASE Stores({}, {Row(s, "perms", m, None, s)})
    <3>1. PICK x : x = Row(s, "perms", m, None, s)
      OBVIOUS
    <3>2. x \in Rows /\ x.by = s /\ x.of = "perms" /\ x.for = m
      BY <2>1, <3>1, RowOK DEF Tables, Makers
    <3>3. ~Spent(x)
      <4>1. m \in my[s].left
        BY <2>1 DEF IInv, Control, Has
      <4>. QED
        BY <3>2, <4>1 DEF Spent
    <3>. QED
      BY <1>1, <2>4, <3>1, <3>2, <3>3, AddQuiet DEF Tame, Stores
  <2>5. CASE rows' = View(s)
    BY <1>2, <2>5
  <2>. QED
    BY <1>4, <2>3, <2>4, <2>5 DEF SetRole, Writes
<1>5. CASE SetRole(s) /\ tx[s].open
  BY <1>2, <1>3, <1>5 DEF SetRole, Writes
<1>. QED
  BY <1>2, <1>3, <1>4, <1>5 DEF Commit

\* The commit of an upgrade is quiet to the upgrades of others.
LEMMA QuietUpgrade ==
    ASSUME IInv, Alone, Upgrades, NEW s \in Requests, Moving(s), Commit(s),
           NEW r \in Requests \ {s}, Moving(r)
    PROVE  Quiet(r)
<1>1. CASE UNCHANGED rows
  BY <1>1, TameReads DEF Tame
<1>2. CASE rows' = View(s)
  <2>1. Whole(s) /\ Whole(r)
    BY DEF Upgrades
  <2>2. op[r].member # op[s].member /\ op[r].member # op[s].to
    BY OthersMember DEF Moving
  <2>3. \A x \in tx[s].in \union tx[s].out : x.member # op[r].member
    BY <2>1, <2>2 DEF Whole
  <2>. QED
    BY <1>2, <2>3 DEF Quiet, View
<1>. QED
  BY <1>1, <1>2 DEF Commit

LEMMA TameStep ==
    ASSUME IInv, Alone, Upgrades, NEW s \in Requests, Step(s)
    PROVE  /\ \A r \in Requests \ {s} : Moving(r) => Quiet(r)
           /\ NotMoved \/ (Commit(s) /\ Moving(s))
<1>1. CASE AddPerson(s) \/ AddToken(s) \/ AddRow(s) \/ Register(s)
  BY <1>1, TameMaking DEF Tame
<1>2. CASE Save(s)
  BY <1>2, TameSave DEF Tame
<1>3. CASE Drop(s) \/ Erase(s)
  BY <1>3, TameRemoving DEF Tame
<1>4. CASE Replace(s)
  BY <1>4, TameReplace DEF Tame
<1>5. CASE SetRole(s) \/ Commit(s)
  <2>1. /\ Active(s)
        /\ op[s].name = "roles" \/ (Commit(s) /\ Moving(s))
    <3>1. pc[s] \in {"put", "commit"}
      BY <1>5 DEF SetRole, Commit
    <3>2. Active(s) /\ op[s].name \in Doers(pc[s])
      BY <3>1, AtTx DEF InTx, Active, Ended
    <3>. QED
      BY <1>5, <3>1, <3>2, DoersAre DEF SetRole, Moving, Is
  <2>. QED
    BY <1>5, <2>1, TameRoles, QuietUpgrade DEF Tame
<1>6. CASE \/ NewId(s) \/ Info(s) \/ Count(s) \/ Mail(s) \/ Validate(s) \/ NameFree(s)
           \/ MemberFree(s) \/ IsMember(s) \/ ReadBack(s) \/ Find(s) \/ Start(s)
           \/ Finds(s) \/ Replaced(s) \/ Clear(s) \/ Look(s) \/ RolesSet(s) \/ Peek(s)
  <2>1. UNCHANGED rows
    BY <1>6
    DEF NewId, Info, Count, Mail, Validate, NameFree, MemberFree, IsMember, ReadBack,
        Find, Start, Finds, Replaced, Clear, Look, RolesSet, Peek, Reads, Answers
  <2>. QED
    BY <2>1, TameReads DEF Tame
<1>. QED
  BY <1>1, <1>2, <1>3, <1>4, <1>5, <1>6 DEF Step

-----------------------------------------------------------------------------
(* What a step of an upgrade does to itself *)

LEMMA MovingPlaces ==
    ASSUME IInv, NEW s \in Requests, Moving(s)
    PROVE  /\ op[s].name = "upgrade" /\ op[s] \in Ops /\ my[s] \in Mine
           /\ pc[s] \in {"find", "start", "erase", "finds", "replace", "commit"}
<1>1. Active(s) /\ op[s].name = "upgrade"
  BY DEF Moving, Is
<1>2. op[s] \in Ops /\ my[s] \in Mine /\ pc[s] \in Labels /\ op[s].name \in Doers(pc[s])
  BY <1>1, AtPlace DEF Active, IInv, Plain
<1>. QED
  BY <1>1, <1>2, DoersAre DEF Labels, Making, Active, Logins, Creating

LEMMA OwnErase ==
    ASSUME IInv, Alone, Upgrades, NEW s \in Requests, Erase(s), Moving(s) PROVE Whole(s)'
<1>. DEFINE gone == About(s, "people", my[s].member)
<1>1. /\ Whole(s) /\ pc[s] = "erase" /\ tx[s].open /\ tx[s].out = {} /\ tx[s].in = {}
      /\ my[s].member = op[s].member
  BY DEF Upgrades, Whole, Erase, IInv, Control, Has, Unwritten
<1>2. /\ tx'[s].out = gone /\ tx'[s].in = {} /\ tx'[s].open
      /\ UNCHANGED <<rows, op, my>> /\ pc'[s] = "finds"
  BY <1>1 DEF Erase, Goto, Moving, Is, IInv, Plain, Txs
<1>3. \A y \in View(s)' : y.of = "people" => y.member # op[s].member
  BY <1>1, <1>2 DEF View, About
<1>4. \A x \in gone : x.member = op[s].member
  BY <1>1 DEF About
<1>. HIDE DEF gone
<1>. QED
  BY <1>1, <1>2, <1>3, <1>4 DEF Whole

LEMMA OwnFinds ==
    ASSUME IInv, Alone, Upgrades, NEW s \in Requests, Finds(s), Moving(s) PROVE Whole(s)'
<1>1. PICK todo : todo = UNION {About(s, t, my[s].member) : t \in Updated}
  OBVIOUS
<1>2. /\ Whole(s) /\ pc[s] = "finds" /\ tx[s].open /\ my[s].member = op[s].member
      /\ my[s] \in Mine
  BY MovingPlaces DEF Upgrades, Whole, Finds
<1>3. /\ UNCHANGED <<rows, op, tx>> /\ pc'[s] = "replace"
      /\ my'[s].todo = todo /\ my'[s].member = my[s].member
  BY <1>1, <1>2 DEF Finds, Reads, Goto, Keeps, IInv, Plain, Mine
<1>4. View(s)' = View(s)
  BY <1>3 DEF View
<1>5. \A x \in todo : x \in View(s) /\ x.member = op[s].member
  BY <1>1, <1>2 DEF About
<1>6. OneKey(todo)
  BY <1>5, ViewKeys DEF OneKey, IInv
<1>7. \A y \in View(s) : y.of \in Owned /\ y.member = op[s].member => y \in todo
  BY <1>1, <1>2 DEF About, Owned, Updated
<1>. QED
  BY <1>2, <1>3, <1>4, <1>5, <1>6, <1>7 DEF Whole

LEMMA OwnReplace ==
    ASSUME IInv, Alone, Upgrades, NEW s \in Requests, Replace(s), Moving(s) PROVE Whole(s)'
<1>1. /\ Whole(s) /\ pc[s] = "replace" /\ tx[s].open /\ my[s].member = op[s].member
      /\ my[s] \in Mine /\ op[s].name = "upgrade" /\ op[s] \in Ops
  BY MovingPlaces DEF Upgrades, Whole, Replace
<1>2. PICK x \in my[s].todo :
          LET now == {y \in View(s) : Key(y) = Key(x)} IN
          /\ Writes(s, now, IF now = {} THEN {} ELSE {[x EXCEPT !.member = op[s].to]})
          /\ Keeps(s, [my[s] EXCEPT !.todo = @ \ {x}])
  BY DEF Replace
<1>3. PICK now, z : /\ now = {y \in View(s) : Key(y) = Key(x)}
                    /\ z = [x EXCEPT !.member = op[s].to]
  OBVIOUS
<1>4. now # {} /\ \A y \in now : y.member = op[s].member
  <2>1. PICK y \in View(s) : Key(y) = Key(x) /\ y.member = op[s].member
    BY <1>1 DEF Whole
  <2>. QED
    BY <1>3, <2>1, ViewKeys DEF OneKey, IInv
<1>5. /\ UNCHANGED <<rows, op>> /\ pc'[s] = "replace" /\ tx'[s].open
      /\ tx'[s].out = tx[s].out \union (now \intersect rows)
      /\ tx'[s].in = (tx[s].in \ now) \union {z}
      /\ my'[s].todo = my[s].todo \ {x} /\ my'[s].member = my[s].member
  <2>1. Writes(s, now, {z}) /\ Keeps(s, [my[s] EXCEPT !.todo = @ \ {x}])
    BY <1>2, <1>3, <1>4
  <2>2. tx' = [tx EXCEPT ![s].out = @ \union (now \intersect rows),
                         ![s].in = (@ \ now) \union {z}]
    BY <1>1, <2>1 DEF Writes
  <2>3. /\ tx'[s].open /\ tx'[s].out = tx[s].out \union (now \intersect rows)
        /\ tx'[s].in = (tx[s].in \ now) \union {z}
    BY <1>1, <2>2 DEF IInv, Plain, Txs
  <2>4. my'[s].todo = my[s].todo \ {x} /\ my'[s].member = my[s].member
    BY <1>1, <2>1 DEF Keeps, IInv, Plain, Mine
  <2>5. UNCHANGED <<rows, op>> /\ pc'[s] = "replace"
    BY <1>1, <2>1 DEF Replace, Writes
  <2>. QED
    BY <2>3, <2>4, <2>5
<1>6. x \in Rows /\ z.member = op[s].to /\ z.of = x.of /\ op[s].to # op[s].member
  <2>1. x \in Rows
    BY <1>1 DEF Mine
  <2>2. op[s].to \in Cadets \union {None} /\ op[s].member \in Prospects
    BY <1>1, OpFacts DEF WellFormed
  <2>3. op[s].to # op[s].member
    BY <2>2, AccountsOK DEF Refs
  <2>. QED
    BY <1>3, <2>1, <2>3 DEF Rows
<1>7. View(s)' = (View(s) \ now) \union {z}
  BY <1>3, <1>5 DEF View
<1>8. \A y \in View(s)' : y.of = "people" => y.member # op[s].member
  BY <1>1, <1>6, <1>7 DEF Whole
<1>9. ASSUME NEW y \in View(s)', y.of \in Owned, y.member = op[s].member
      PROVE  \E w \in my'[s].todo : Key(w) = Key(y)
  <2>1. y \in View(s) /\ Key(y) # Key(x)
    BY <1>3, <1>6, <1>7, <1>9
  <2>. QED
    BY <1>1, <1>5, <1>9, <2>1 DEF Whole
<1>10. ASSUME NEW w \in my'[s].todo
       PROVE  \E y \in View(s)' : Key(y) = Key(w) /\ y.member = op[s].member
  <2>1. w \in my[s].todo /\ Key(w) # Key(x)
    BY <1>1, <1>5 DEF Whole, OneKey
  <2>2. PICK y \in View(s) : Key(y) = Key(w) /\ y.member = op[s].member
    BY <1>1, <2>1 DEF Whole
  <2>. QED
    BY <1>3, <1>7, <2>1, <2>2
<1>11. OneKey(my'[s].todo)
  BY <1>1, <1>5 DEF Whole, OneKey
<1>12. /\ \A y \in tx'[s].out : y.member = op[s].member
       /\ \A y \in tx'[s].in : y.member = op[s].to
  BY <1>1, <1>4, <1>5, <1>6 DEF Whole
<1>. QED
  BY <1>1, <1>5, <1>8, <1>9, <1>10, <1>11, <1>12 DEF Whole

LEMMA OwnStep ==
    ASSUME IInv, Alone, Upgrades, NEW s \in Requests, Step(s), Moving(s), Moving(s)'
    PROVE  Whole(s)'
<1>1. /\ op[s].name = "upgrade" /\ my[s] \in Mine
      /\ pc[s] \in {"find", "start", "erase", "finds", "replace", "commit"}
  BY MovingPlaces
<1>2. Whole(s)
  BY DEF Upgrades
<1>3. CASE Find(s)
  <2>1. tx[s] = NoTx /\ pc[s] = "find"
    BY <1>3, AtPlace DEF Find, InTx
  <2>2. pc'[s] \in {"failed", "start"} /\ UNCHANGED <<rows, op, tx>> /\ my'[s].member = my[s].member
    BY <1>1, <1>3, <2>1 DEF Find, Reads, Answers, Goto, Keeps, IInv, Plain, Is, Mine
  <2>. QED
    BY <1>2, <2>1, <2>2 DEF Whole, NoTx
<1>4. CASE Start(s)
  <2>1. tx[s] = NoTx /\ pc[s] = "start" /\ NoTx.out = {} /\ NoTx.in = {}
    BY <1>4, AtPlace DEF Start, InTx, NoTx
  <2>2. /\ pc'[s] = "erase" /\ UNCHANGED <<rows, op, my>>
        /\ tx'[s].open /\ tx'[s].out = tx[s].out /\ tx'[s].in = tx[s].in
    BY <1>1, <1>4, <2>1 DEF Start, Goto, IInv, Plain, Is, Txs
  <2>. QED
    BY <1>2, <2>1, <2>2 DEF Whole
<1>5. CASE Erase(s)
  BY <1>5, OwnErase
<1>6. CASE Finds(s)
  BY <1>6, OwnFinds
<1>7. CASE Replace(s)
  BY <1>7, OwnReplace
<1>8. CASE Replaced(s)
  <2>1. /\ pc[s] = "replace" /\ my[s].todo = {} /\ tx[s].open
        /\ UNCHANGED <<rows, op, my, tx>> /\ pc'[s] = "commit"
    BY <1>2, <1>8 DEF Replaced, Answers, Goto, Whole, IInv, Plain
  <2>2. View(s)' = View(s)
    BY <2>1 DEF View
  <2>. QED
    BY <1>2, <2>1, <2>2 DEF Whole
<1>9. CASE Commit(s)
  <2>1. pc'[s] = "done"
    BY <1>9 DEF Commit, Goto, IInv, Plain
  <2>. QED
    BY <2>1 DEF Moving, Active, Ended
<1>10. Find(s) \/ Start(s) \/ Erase(s) \/ Finds(s) \/ Replace(s) \/ Replaced(s) \/ Commit(s)
  BY <1>1 DEF Step, NewId, AddPerson, Info, Count, AddToken, Mail, Validate, NameFree,
     MemberFree, IsMember, AddRow, ReadBack, Save, Drop, Clear, Look, SetRole, RolesSet,
     Peek, Register
<1>. QED
  BY <1>3, <1>4, <1>5, <1>6, <1>7, <1>8, <1>9, <1>10

LEMMA StaysInTx ==
    ASSUME IInv, Alone, Upgrades, NEW s \in Requests, SetRole(s), op[s].name = "roles",
           tx[s].open, UNCHANGED rows
    PROVE  Stays(s)' \/ tx'[s] = NoTx
<1>. DEFINE m == my[s].member
            old == About(s, "perms", m)
<1>1. /\ Stays(s) /\ OneKey(View(s)) /\ OneKey(rows) /\ old \subseteq View(s)
      /\ tx[s] \in Txs /\ tx \in [Requests -> Txs] /\ rows \subseteq Rows
      /\ tx[s].out \subseteq rows /\ View(s) \subseteq Rows
      /\ pc[s] = "put" /\ m \in Refs
  <2>1. pc[s] = "put"
    BY DEF SetRole
  <2>2. m \in Refs /\ Active(s)
    BY <2>1, AtPlace DEF Knows, Active, Ended
  <2>. QED
    BY <2>1, <2>2, ViewKeys, ViewOK
    DEF Upgrades, Is, IInv, Locks, Holds, Plain, About
<1>2. CASE Writes(s, old, {[x EXCEPT !.pw = s] : x \in old})
  <2>1. PICK in : in = {[x EXCEPT !.pw = s] : x \in old}
    OBVIOUS
  <2>2. /\ tx'[s].out = tx[s].out \union (old \intersect rows)
        /\ tx'[s].in = (tx[s].in \ old) \union in
    BY <1>1, <1>2, <2>1 DEF Writes, Txs
  <2>3. ASSUME NEW x \in in
        PROVE  \E z \in old : Key(x) = Key(z) /\ x.member = z.member
    <3>1. PICK z \in old : x = [z EXCEPT !.pw = s]
      BY <2>1
    <3>2. z \in Rows
      BY <1>1
    <3>. HIDE DEF old
    <3>3. Key(x) = Key(z) /\ x.member = z.member
      BY <3>1, <3>2 DEF Rows, Key
    <3>. QED
      BY <3>3
  <2>4. ASSUME NEW z \in View(s), NEW y \in tx'[s].out, Key(z) = Key(y),
               z \in old \/ z \in tx[s].in \ old
        PROVE  z.member = y.member
    <3>1. CASE y \in old
      BY <1>1, <2>4, <3>1 DEF OneKey
    <3>2. CASE y \in tx[s].out /\ z \in tx[s].in
      BY <1>1, <2>4, <3>2 DEF Stays
    <3>3. CASE y \in tx[s].out /\ z \notin tx[s].in
      <4>1. z \in rows \ tx[s].out
        BY <3>3 DEF View
      <4>. QED
        BY <1>1, <2>4, <3>3, <4>1 DEF OneKey
    <3>. QED
      BY <2>2, <3>1, <3>2, <3>3
  <2>5. ASSUME NEW x \in tx'[s].in, NEW y \in tx'[s].out, Key(x) = Key(y)
        PROVE  x.member = y.member
    <3>1. CASE x \in in
      <4>1. PICK z \in old : Key(x) = Key(z) /\ x.member = z.member
        BY <2>3, <3>1
      <4>. QED
        BY <1>1, <2>4, <2>5, <4>1
    <3>2. CASE x \in tx[s].in \ old
      <4>1. x \in View(s)
        BY <3>2 DEF View
      <4>. QED
        BY <2>4, <2>5, <3>2, <4>1
    <3>. QED
      BY <2>2, <3>1, <3>2
  <2>. QED
    BY <2>5 DEF Stays
<1>3. CASE Writes(s, {}, {Row(s, "perms", m, None, s)})
  <2>1. PICK x : x = Row(s, "perms", m, None, s)
    OBVIOUS
  <2>2. x \in Rows /\ x.by = s /\ x.of = "perms" /\ x.for = m
    BY <1>1, <2>1, RowOK DEF Tables, Makers
  <2>3. ~Spent(x)
    <3>1. m \in my[s].left
      BY <1>1 DEF IInv, Control, Has
    <3>. QED
      BY <2>2, <3>1 DEF Spent
  <2>4. \A y \in rows : Key(y) # Key(x)
    BY <2>2, <2>3, NewKey
  <2>5. tx'[s].out = tx[s].out /\ tx'[s].in = tx[s].in \union {x}
    BY <1>1, <1>3, <2>1 DEF Writes, Txs
  <2>. QED
    BY <1>1, <2>4, <2>5 DEF Stays
<1>4. CASE tx' = [tx EXCEPT ![s] = NoTx]
  BY <1>1, <1>4
<1>. QED
  BY <1>2, <1>3, <1>4 DEF SetRole

LEMMA StaysStep ==
    ASSUME IInv, IInv', Alone, Upgrades, NEW s \in Requests, Step(s),
           Active(s)', op[s].name = "roles", UNCHANGED op
    PROVE  Stays(s)'
<1>1. NoTx.in = {}
  BY DEF NoTx
<1>2. CASE ~tx'[s].open
  <2>1. tx'[s] = NoTx
    BY <1>2 DEF IInv, Locks, Holds
  <2>. QED
    BY <1>1, <2>1 DEF Stays
<1>3. CASE tx'[s].open
  <2>1. pc[s] \notin Ended \union {"idle"}
    BY DEF Step, NewId, AddPerson, Info, Count, AddToken, Mail, Validate, NameFree,
       MemberFree, IsMember, AddRow, ReadBack, Save, Drop, Find, Start, Erase, Finds,
       Replace, Replaced, Commit, Clear, Look, SetRole, RolesSet, Peek, Register, Ended
  <2>2. pc[s] \in {"start", "commit", "clear", "set", "put"}
    <3>1. op[s].name \in Doers(pc[s]) /\ pc[s] \in Labels
      BY <2>1, AtPlace DEF IInv, Plain
    <3>. QED
      BY <2>1, <3>1, DoersAre DEF Labels, Making, Logins, Creating
  <2>3. Active(s) /\ Stays(s)
    BY <2>1 DEF Active, Upgrades, Is
  <2>4. CASE Start(s)
    <3>1. tx[s] = NoTx
      BY <2>4, AtPlace DEF Start, InTx
    <3>2. tx'[s].in = tx[s].in
      BY <2>4 DEF Start, IInv, Plain, Txs
    <3>. QED
      BY <1>1, <3>1, <3>2 DEF Stays
  <2>5. CASE Clear(s)
    <3>1. tx[s].in = {}
      BY <2>5 DEF Clear, IInv, Control, Has, Unwritten
    <3>2. tx'[s].in = tx[s].in
      BY <2>5 DEF Clear, IInv, Plain, Txs
    <3>. QED
      BY <3>1, <3>2 DEF Stays
  <2>6. CASE SetRole(s)
    <3>1. CASE tx[s].open /\ UNCHANGED rows
      BY <1>1, <2>6, <3>1, StaysInTx DEF Stays
    <3>2. CASE ~tx[s].open
      BY <1>3, <2>6, <3>2 DEF SetRole, Writes, Stores, IInv, Plain, NoTx
    <3>3. CASE tx[s].open /\ tx' = [tx EXCEPT ![s] = NoTx]
      BY <1>3, <3>3 DEF NoTx, IInv, Plain
    <3>. QED
      BY <2>6, <3>1, <3>2, <3>3 DEF SetRole, Writes
  <2>7. CASE Commit(s)
    BY <1>3, <2>7 DEF Commit, NoTx, IInv, Plain
  <2>8. CASE Look(s) \/ RolesSet(s)
    BY <2>3, <2>8 DEF Look, RolesSet, Reads, Answers, Stays
  <2>9. Start(s) \/ Clear(s) \/ Look(s) \/ SetRole(s) \/ RolesSet(s) \/ Commit(s)
    BY <2>2 DEF Step, NewId, AddPerson, Info, Count, AddToken, Mail, Validate, NameFree,
       MemberFree, IsMember, AddRow, ReadBack, Save, Drop, Find, Erase, Finds, Replace,
       Replaced, Peek, Register
  <2>. QED
    BY <2>4, <2>5, <2>6, <2>7, <2>8, <2>9
<1>. QED
  BY <1>2, <1>3

-----------------------------------------------------------------------------
(* Upgrades stay whole *)

\* A step of one request leaves the others where they are.
Beside(s) ==
    \A q \in Requests \ {s} :
        pc'[q] = pc[q] /\ op'[q] = op[q] /\ my'[q] = my[q] /\ tx'[q] = tx[q]

LEMMA StepBeside ==
    ASSUME IInv, NEW s \in Requests, Step(s)
    PROVE  Beside(s) /\ UNCHANGED <<op, given>> /\ Active(s)
<1>1. /\ pc \in [Requests -> Labels] /\ my \in [Requests -> Mine \union {None}]
      /\ tx \in [Requests -> Txs]
  BY DEF IInv, Plain
<1>2. UNCHANGED <<op, given>>
  BY DEF Step, NewId, AddPerson, Info, Count, AddToken, Mail, Validate, NameFree,
     MemberFree, IsMember, AddRow, ReadBack, Save, Drop, Find, Start, Erase, Finds,
     Replace, Replaced, Commit, Clear, Look, SetRole, RolesSet, Peek, Register,
     Reads, Answers
<1>3. Active(s)
  BY DEF Step, NewId, AddPerson, Info, Count, AddToken, Mail, Validate, NameFree,
     MemberFree, IsMember, AddRow, ReadBack, Save, Drop, Find, Start, Erase, Finds,
     Replace, Replaced, Commit, Clear, Look, SetRole, RolesSet, Peek, Register,
     Active, Ended
<1>4. \A q \in Requests \ {s} : pc'[q] = pc[q]
  BY <1>1 DEF Step, NewId, AddPerson, Info, Count, AddToken, Mail, Validate, NameFree,
     MemberFree, IsMember, AddRow, ReadBack, Save, Drop, Find, Start, Erase, Finds,
     Replace, Replaced, Commit, Clear, Look, SetRole, RolesSet, Peek, Register,
     Reads, Answers, Goto
<1>5. \A q \in Requests \ {s} : my'[q] = my[q]
  BY <1>1 DEF Step, NewId, AddPerson, Info, Count, AddToken, Mail, Validate, NameFree,
     MemberFree, IsMember, AddRow, ReadBack, Save, Drop, Find, Start, Erase, Finds,
     Replace, Replaced, Commit, Clear, Look, SetRole, RolesSet, Peek, Register,
     Reads, Answers, Keeps
<1>6. \A q \in Requests \ {s} : tx'[q] = tx[q]
  BY <1>1 DEF Step, NewId, AddPerson, Info, Count, AddToken, Mail, Validate, NameFree,
     MemberFree, IsMember, AddRow, ReadBack, Save, Drop, Find, Start, Erase, Finds,
     Replace, Replaced, Commit, Clear, Look, SetRole, RolesSet, Peek, Register,
     Reads, Answers, Stores, Writes
<1>. QED
  BY <1>2, <1>3, <1>4, <1>5, <1>6 DEF Beside

\* Who finishes an account does so for one member.
LEMMA FinishStep ==
    ASSUME IInv, NEW s \in Requests, Step(s), op[s].name = "finish"
    PROVE  my'[s].member = my[s].member
<1>1. /\ pc[s] \notin {"newId", "set", "put"} /\ my[s] \in Mine
      /\ my \in [Requests -> Mine \union {None}]
  <2>1. Active(s)
    BY StepBeside
  <2>2. op[s].name \in Doers(pc[s]) /\ my[s] \in Mine
    BY <2>1, AtPlace DEF Active
  <2>. QED
    BY <2>2, DoersAre DEF Logins, IInv, Plain
<1>. QED
  BY <1>1 DEF Step, NewId, AddPerson, Info, Count, AddToken, Mail, Validate, NameFree,
     MemberFree, IsMember, AddRow, ReadBack, Save, Drop, Find, Start, Erase, Finds,
     Replace, Replaced, Commit, Clear, Look, SetRole, RolesSet, Peek, Register,
     Reads, Answers, Keeps, Mine

LEMMA UpgradesStep ==
    ASSUME IInv, IInv', Alone, Upgrades, NEW s \in Requests, Step(s)
    PROVE  Upgrades'
<1>1. Beside(s) /\ UNCHANGED <<op, given>> /\ Active(s)
  BY StepBeside
<1>2. Apart'
  <2>1. \A q \in Requests : (Active(q)' => Active(q)) /\ (Moving(q)' => Moving(q))
    BY <1>1 DEF Beside, Active, Moving, Is
  <2>. QED
    BY <1>1, <2>1 DEF Upgrades, Apart
<1>3. ASSUME NEW r \in Requests, Moving(r)' PROVE Whole(r)'
  <2>1. CASE r = s
    <3>1. Moving(s)
      BY <1>1, <1>3, <2>1 DEF Moving, Is
    <3>. QED
      BY <1>3, <2>1, <3>1, OwnStep
  <2>2. CASE r # s
    <3>1. /\ pc'[r] = pc[r] /\ op'[r] = op[r] /\ my'[r] = my[r] /\ tx'[r] = tx[r]
          /\ Moving(r)
      BY <1>1, <1>3, <2>2 DEF Beside, Moving, Active, Is
    <3>2. Quiet(r) /\ Whole(r) /\ pc[r] # "idle"
      BY <2>2, <3>1, TameStep DEF Upgrades, Moving, Active
    <3>. QED
      BY <3>1, <3>2, QuietIsSeen
  <2>. QED
    BY <2>1, <2>2
<1>4. ASSUME NEW r \in Requests, Active(r)', Is(r, {"roles"})' PROVE Stays(r)'
  <2>1. CASE r = s
    BY <1>1, <1>4, <2>1, StaysStep DEF Is
  <2>2. CASE r # s
    BY <1>1, <1>4, <2>2 DEF Beside, Active, Is, Upgrades, Stays
  <2>. QED
    BY <2>1, <2>2
<1>5. ASSUME NEW r \in Requests, Active(r)', Is(r, {"finish"})'
      PROVE  (my[r].member = op[r].member)'
  <2>1. CASE r = s
    BY <1>1, <1>5, <2>1, FinishStep DEF Is, Upgrades
  <2>2. CASE r # s
    BY <1>1, <1>5, <2>2 DEF Beside, Active, Is, Upgrades
  <2>. QED
    BY <2>1, <2>2
<1>. QED
  BY <1>2, <1>3, <1>4, <1>5 DEF Upgrades

\* Requests end, by a failure or with the process.
LEMMA UpgradesEnd ==
    ASSUME IInv, Alone, Upgrades, UNCHANGED <<rows, op, my>>,
           \A q \in Requests :
               \/ pc'[q] \in Ended \union {"mail"}
               \/ pc'[q] = pc[q] /\ tx'[q] = tx[q],
           \A q \in Requests : pc'[q] # pc[q] => pc[q] \notin Ended \union {"idle"},
           \A q \in Requests : pc'[q] = "mail" =>
               \/ pc'[q] = pc[q] /\ tx'[q] = tx[q]
               \/ Is(q, {"random"})
    PROVE  Upgrades'
<1>1. \A q \in Requests : Active(q)' => Active(q)
  BY DEF Active
<1>2. \A q \in Requests :
          Active(q)' /\ ~Is(q, {"random"}) => pc'[q] = pc[q] /\ tx'[q] = tx[q]
  BY DEF Active
<1>3. Apart'
  BY <1>1 DEF Apart, Upgrades, Moving, Is
<1>4. ASSUME NEW r \in Requests, Moving(r)' PROVE Whole(r)'
  <2>1. pc'[r] = pc[r] /\ tx'[r] = tx[r] /\ Moving(r)
    BY <1>1, <1>2, <1>4 DEF Moving, Is
  <2>2. View(r)' = View(r)
    BY <2>1 DEF View
  <2>. QED
    BY <2>1, <2>2 DEF Whole, Upgrades
<1>5. ASSUME NEW r \in Requests, Active(r)', Is(r, {"roles"})' PROVE Stays(r)'
  BY <1>1, <1>2, <1>5 DEF Is, Upgrades, Stays
<1>6. ASSUME NEW r \in Requests, Active(r)', Is(r, {"finish"})'
      PROVE  (my[r].member = op[r].member)'
  BY <1>1, <1>6 DEF Is, Upgrades
<1>. QED
  BY <1>3, <1>4, <1>5, <1>6 DEF Upgrades

LEMMA UpgradesFail ==
    ASSUME IInv, Alone, Upgrades, NEW s \in Requests, Fail(s) \/ UpgradeFails(s) \/ Crash(s)
    PROVE  Upgrades'
<1>1. CASE Fail(s)
  <2>1. op[s].name \in OpNames /\ pc[s] \notin Ended \union {"idle"}
    <3>1. pc[s] \notin Ended \union {"idle"}
      BY <1>1 DEF Fail, Making, Ended
    <3>. QED
      BY <3>1, AtPlace, OpFacts
  <2>2. /\ pc'[s] \in {"mail", "failed", "done"} /\ (pc'[s] = "mail" => Is(s, {"random"}))
        /\ UNCHANGED <<rows, op, my>>
    BY <1>1 DEF Fail, Goto, IInv, Plain, After
  <2>3. \A q \in Requests \ {s} : pc'[q] = pc[q] /\ tx'[q] = tx[q]
    BY <1>1 DEF Fail, Goto, Rollback, IInv, Plain
  <2>. QED
    BY <2>1, <2>2, <2>3, UpgradesEnd DEF Ended
<1>2. CASE UpgradeFails(s)
  BY <1>2 DEF UpgradeFails, Fails, Alone
<1>3. CASE Crash(s)
  <2>1. /\ UNCHANGED <<rows, op, my>>
        /\ \A q \in Requests : pc'[q] = "lost" \/ (pc'[q] = pc[q] /\ tx'[q] = tx[q])
        /\ \A q \in Requests : pc'[q] # pc[q] => pc[q] \notin Ended \union {"idle"}
    BY <1>3 DEF Crash, Active, Streamed, Ended
  <2>. QED
    BY <2>1, UpgradesEnd DEF Ended
<1>. QED
  BY <1>1, <1>2, <1>3

LEMMA UpgradesArrive ==
    ASSUME IInv, IInv', Alone, Upgrades, NEW s \in Requests, Arrive(s) PROVE Upgrades'
<1>1. PICK o \in Given.menu :
          /\ \A q \in Requests : Active(q) /\ Related(o, op[q]) => Together(o, op[q])
          /\ op' = [op EXCEPT ![s] = o]
          /\ Keeps(s, [member |-> o.member, found |-> None, token |-> None, todo |-> {},
                       left |-> o.list])
  BY DEF Arrive
<1>2. /\ op'[s] = o /\ my'[s].member = o.member /\ my'[s].todo = {}
      /\ \A q \in Requests \ {s} : op'[q] = op[q] /\ my'[q] = my[q]
  BY <1>1 DEF Keeps, IInv, Plain
<1>3. /\ UNCHANGED <<rows, tx, given>> /\ pc[s] = "idle"
      /\ \A q \in Requests \ {s} : pc'[q] = pc[q]
      /\ o.name \in {"upgrade"} => pc'[s] = "find"
      /\ o.name \in {"roles"} => tx[s].in = {}
  <2>1. pc[s] = "idle" => tx[s] = NoTx
    BY DEF IInv, Control, Has, Locks, Holds, InTx
  <2>2. UNCHANGED <<rows, tx, given>> /\ pc[s] = "idle"
    BY DEF Arrive
  <2>3. \A q \in Requests \ {s} : pc'[q] = pc[q]
    BY DEF Arrive, Goto, IInv, Plain
  <2>4. o.name \in {"upgrade"} => pc'[s] = "find"
    <3>1. pc' = [pc EXCEPT ![s] = CASE op'[s].name \in Logins -> "newId"
                       [] op'[s].name = "request" -> "info"
                       [] op'[s].name = "finish" -> "validate"
                       [] op'[s].name \in {"delete", "upgrade"} -> "find"
                       [] op'[s].name = "roles" -> "start"
                       [] OTHER -> "member"]
      BY DEF Arrive, Goto, IInv, Plain
    <3>. QED
      BY <1>2, <3>1 DEF Logins, IInv, Plain
  <2>. QED
    BY <2>1, <2>2, <2>3, <2>4 DEF NoTx
<1>4. o \in Ops
  BY AccountsOK DEF Given, Setting, IInv, Plain
<1>5. ASSUME NEW q \in Requests, Active(q), o.name = "upgrade" \/ Moving(q)
      PROVE  ~Related(o, op[q])
  <2>1. op[q] \in Ops
    BY <1>5, AtPlace DEF Active
  <2>2. o.name \in OpNames /\ op[q].name \in OpNames
    BY <1>4, <2>1, OpFacts
  <2>3. ~Together(o, op[q])
    BY <1>5, <2>2 DEF Together, Alone, OneAtATime, Moving, Is
  <2>. QED
    BY <1>1, <1>5, <2>3
<1>6. Apart'
  <2>. SUFFICES ASSUME NEW r \in Requests, NEW q \in Requests, r # q,
                       Moving(r)', Active(q)'
                PROVE  ~Related(op'[r], op'[q])
    BY DEF Apart, Related, Involved
  <2>1. CASE r = s
    <3>1. o.name = "upgrade" /\ Active(q)
      BY <1>2, <1>3, <2>1 DEF Moving, Is, Active
    <3>. QED
      BY <1>2, <1>5, <2>1, <3>1
  <2>2. CASE q = s
    <3>1. Moving(r) /\ Active(r)
      BY <1>2, <1>3, <2>2 DEF Moving, Is, Active
    <3>. QED
      BY <1>2, <1>5, <2>2, <3>1, RelatedBoth
  <2>3. CASE r # s /\ q # s
    BY <1>2, <1>3, <2>3 DEF Upgrades, Apart, Moving, Is, Active
  <2>. QED
    BY <2>1, <2>2, <2>3
<1>7. ASSUME NEW r \in Requests, Moving(r)' PROVE Whole(r)'
  <2>1. CASE r = s
    <3>1. pc'[s] = "find"
      BY <1>2, <1>3, <1>7, <2>1 DEF Moving, Is
    <3>2. tx'[s].out = {} /\ tx'[s].in = {}
      BY <3>1 DEF IInv, Control, Has, InTx, Locks, Holds, NoTx
    <3>. QED
      BY <1>2, <2>1, <3>1, <3>2 DEF Whole
  <2>2. CASE r # s
    <3>1. Moving(r) /\ View(r)' = View(r)
      BY <1>2, <1>3, <1>7, <2>2 DEF Moving, Is, Active, View
    <3>. QED
      BY <1>2, <1>3, <2>2, <3>1 DEF Whole, Upgrades
  <2>. QED
    BY <2>1, <2>2
<1>8. ASSUME NEW r \in Requests, Active(r)', Is(r, {"roles"})' PROVE Stays(r)'
  BY <1>2, <1>3, <1>8 DEF Is, Active, Upgrades, Stays
<1>9. ASSUME NEW r \in Requests, Active(r)', Is(r, {"finish"})'
      PROVE  (my[r].member = op[r].member)'
  BY <1>2, <1>3, <1>9 DEF Is, Active, Upgrades
<1>. QED
  BY <1>6, <1>7, <1>8, <1>9 DEF Upgrades

LEMMA UpgradesLapse ==
    ASSUME IInv, IInv', Alone, Upgrades, Lapse PROVE Upgrades' /\ NotMoved
<1>1. UNCHANGED <<pc, op, my, tx, given>>
  BY DEF Lapse
<1>2. NotMoved /\ \A r \in Requests : Quiet(r)
  BY RemoveQuiet DEF Lapse, Updated
<1>3. Apart'
  BY <1>1 DEF Apart, Upgrades, Moving, Active, Is
<1>4. ASSUME NEW r \in Requests, Moving(r)' PROVE Whole(r)'
  <2>1. Moving(r) /\ Whole(r) /\ pc[r] # "idle"
    BY <1>1, <1>4 DEF Moving, Active, Is, Upgrades
  <2>. QED
    BY <1>1, <1>2, <2>1, QuietIsSeen
<1>5. ASSUME NEW r \in Requests, Active(r)', Is(r, {"roles"})' PROVE Stays(r)'
  BY <1>1, <1>5 DEF Active, Is, Upgrades, Stays
<1>6. ASSUME NEW r \in Requests, Active(r)', Is(r, {"finish"})'
      PROVE  (my[r].member = op[r].member)'
  BY <1>1, <1>6 DEF Is, Active, Upgrades
<1>. QED
  BY <1>2, <1>3, <1>4, <1>5, <1>6 DEF Upgrades

LEMMA GivenStays == Next => UNCHANGED given
<1>1. ASSUME NEW s \in Requests, Step(s) PROVE UNCHANGED given
  BY <1>1 DEF Step, NewId, AddPerson, Info, Count, AddToken, Mail, Validate, NameFree,
     MemberFree, IsMember, AddRow, ReadBack, Save, Drop, Find, Start, Erase, Finds,
     Replace, Replaced, Commit, Clear, Look, SetRole, RolesSet, Peek, Register,
     Reads, Answers
<1>. QED
  BY <1>1 DEF Next, Arrive, Fail, UpgradeFails, Crash, Lapse, Rest, vars

LEMMA NextUpgrades == IInv /\ IInv' /\ Upgrades /\ [Next]_vars => Upgrades'
<1>. SUFFICES ASSUME IInv, IInv', Upgrades, [Next]_vars, Alone' PROVE Upgrades'
  BY DEF Upgrades
<1>1. UNCHANGED given
  BY GivenStays DEF vars
<1>2. Alone
  BY <1>1 DEF Alone, Given, OneAtATime
<1>3. CASE UNCHANGED vars
  BY <1>2, <1>3 DEF vars, Upgrades, Alone, Given, OneAtATime, Apart, Moving, Active, Is,
     Whole, View, Stays
<1>4. ASSUME NEW s \in Requests,
             Arrive(s) \/ Step(s) \/ Fail(s) \/ UpgradeFails(s) \/ Crash(s)
      PROVE  Upgrades'
  BY <1>2, <1>4, UpgradesArrive, UpgradesStep, UpgradesFail
<1>5. CASE Lapse
  BY <1>2, <1>5, UpgradesLapse
<1>. QED
  BY <1>3, <1>4, <1>5 DEF Next, Rest

LEMMA InitUpgrades == Init => Upgrades
BY DEF Init, Upgrades, Apart, Moving, Active

\* Rows change hands in the commit of an upgrade only, and are then all handed on.
LEMMA HandedOn ==
    ASSUME IInv, IInv', Upgrades, Alone, Next, NEW m \in Prospects,
           NEW x \in rows, NEW y \in rows', Key(x) = Key(y), x.member = m, y.member # m
    PROVE  Upgraded(m)
<1>1. ~NotMoved
  BY DEF NotMoved
<1>2. ASSUME NEW s \in Requests, Arrive(s) \/ Fail(s) \/ UpgradeFails(s) \/ Crash(s)
      PROVE  FALSE
  <2>1. UNCHANGED rows
    BY <1>2 DEF Arrive, Fail, UpgradeFails, Crash
  <2>. QED
    BY <1>1, <1>2, <2>1, TameReads DEF Tame
<1>3. ~Lapse /\ ~Rest
  BY <1>1, UpgradesLapse, RemoveQuiet DEF Rest, vars
<1>4. PICK s \in Requests : Step(s)
  BY <1>2, <1>3 DEF Next
<1>5. Commit(s) /\ Moving(s)
  BY <1>1, <1>4, TameStep
<1>6. rows' = View(s)
  BY <1>1, <1>5, RemoveQuiet DEF Commit
<1>7. y \in tx[s].in
  BY <1>6 DEF View, IInv, Locks, OneKey
<1>8. x \in tx[s].out
  BY <1>7 DEF IInv, Locks, Holds
<1>9. op[s].member = m
  BY <1>5, <1>8 DEF Upgrades, Whole
<1>10. pc[s] = "commit" /\ pc'[s] = "done"
  BY <1>5 DEF Commit, Goto, IInv, Plain
<1>. QED
  BY <1>5, <1>9, <1>10 DEF Upgraded, Moving

LEMMA NothingLeft ==
    ASSUME IInv, Upgrades, Alone, Next, NEW m \in Prospects, Upgraded(m), rows' # rows
    PROVE  ~\E y \in rows' : y.of \in Owned \union {"people"} /\ y.member = m
<1>1. PICK r \in Requests : /\ pc[r] = "commit" /\ pc'[r] = "done"
                            /\ Is(r, {"upgrade"}) /\ op[r].member = m
  BY DEF Upgraded
<1>2. PICK s \in Requests : Step(s)
  <2>1. \A s \in Requests : ~Arrive(s) /\ ~Fail(s) /\ ~UpgradeFails(s) /\ ~Crash(s)
    BY DEF Arrive, Fail, UpgradeFails, Crash
  <2>2. ~Lapse /\ ~Rest
    BY <1>1 DEF Lapse, Rest, vars
  <2>. QED
    BY <2>1, <2>2 DEF Next
<1>3. s = r
  BY <1>1, <1>2, StepBeside DEF Beside
<1>4. Commit(r)
  BY <1>1, <1>2, <1>3
  DEF Step, NewId, AddPerson, Info, Count, AddToken, Mail, Validate, NameFree,
     MemberFree, IsMember, AddRow, ReadBack, Save, Drop, Find, Start, Erase, Finds,
     Replace, Replaced, Clear, Look, SetRole, RolesSet, Peek, Register
<1>5. rows' = View(r)
  BY <1>4 DEF Commit
<1>6. Whole(r)
  BY <1>1 DEF Upgrades, Moving, Active, Ended
<1>. QED
  BY <1>1, <1>5, <1>6 DEF Whole

\* upgradeProspectiveMemberToCAPNHQ: the person is gone with the first row that has the
\* new reference, and no row keeps the old one, whatever is done in the meantime for others,
\* upgrades among it; nobody joins, and no permissions are set, while it goes on.
THEOREM UpgradesWhole == Spec => UpgradeWhole
<1>1. IInv /\ IInv' /\ Upgrades /\ [Next]_vars =>
      [ /\ {"erase", "replace"} \intersect Given.failing = {}
        /\ \A a \in OpNames : OneAtATime(a, "upgrade")
        => \A m \in Prospects :
              LET Of(t, x) == x.of \in t /\ x.member = m
                  moved == \E x \in rows, y \in rows' :
                              Key(x) = Key(y) /\ Of(Owned, x) /\ y.member # m
              IN
              /\ moved => Upgraded(m)
              /\ Upgraded(m) /\ rows' # rows =>
                    ~\E y \in rows' : Of(Owned \union {"people"}, y) ]_vars
  <2>. SUFFICES ASSUME IInv, IInv', Upgrades, Next, Alone, NEW m \in Prospects
                PROVE  /\ (\E x \in rows, y \in rows' :
                              Key(x) = Key(y) /\ (x.of \in Owned /\ x.member = m)
                              /\ y.member # m) => Upgraded(m)
                       /\ Upgraded(m) /\ rows' # rows =>
                              ~\E y \in rows' : y.of \in Owned \union {"people"} /\ y.member = m
    BY DEF Alone
  <2>. QED
    BY HandedOn, NothingLeft
<1>. QED
  BY <1>1, Invariant, InitUpgrades, NextUpgrades, PTL DEF Spec, UpgradeWhole

-----------------------------------------------------------------------------
(* One record each *)

\* Whatever rows there are: stored, in transactions, still to be replaced, or read for a
\* password that is to be saved.
Seen(v) ==
    \/ v \in rows
    \/ \E r \in Requests :
          \/ v \in tx[r].in
          \/ pc[r] # "idle" /\ v \in my[r].todo
          \/ pc[r] = "save" /\ v = my[r].found

\* A row has been there from the beginning, or has been added by a request for
\* the member and under the name that it was about.
Made(v) ==
    LET o == op[v.by] IN
    /\ v.by \in Requests /\ pc[v.by] # "idle"
    /\ v.for \in Prospects \union {o.member} \union o.list
    /\ v.of = "users" => Makes(v.by) /\ v.name = o.user /\ v.for = my[v.by].member
    /\ v.of = "perms" => o.name = "roles" /\ v.name = None
    /\ v.of = "discord" => o.name = "discord" /\ v.name = o.user /\ v.for = o.member
Origin(v) == Made(v) \/ \E t \in First : \E x \in t : Key(x) = Key(v) /\ x.name = v.name

\* It is of the member that it was added for, or that this one has become.
Upgrader(u) == pc[u] # "idle" /\ Is(u, {"upgrade"})
Heir(v) ==
    \/ v.member = v.for
    \/ \E u \in Requests : Upgrader(u) /\ op[u].member = v.for /\ op[u].to = v.member

Traced == \A v : Seen(v) /\ v.of \in Owned => Origin(v) /\ Heir(v)
OneName ==
    \A v, w : Seen(v) /\ Seen(w) /\ v.of \in Owned /\ Key(v) = Key(w) => v.name = w.name

\* The accounts that there were at the beginning for one member have one name.
SeedNames ==
    \A v, w : /\ Seen(v) /\ Seen(w) /\ v.of = "users" /\ w.of = "users"
             /\ v.by \notin Requests /\ w.by \notin Requests /\ v.for = w.for
             => v.name = w.name

\* Who is about the same, and wants one of the same, waits.
Separate ==
    \A r, q \in Requests : r # q /\ Active(r) /\ Active(q) /\ Related(op[r], op[q]) =>
        Together(op[r], op[q])

\* One at a time has the table of permissions to itself.
OneLock ==
    \A r, q \in Requests : "perms" \in tx[r].whole /\ "perms" \in tx[q].whole => r = q

\* What an upgrade has yet to replace, and what it has replaced, is one row of each table.
OfHeir(u) == my[u].todo \union {x \in rows \union tx[u].in : x.member = op[u].to}
HandingOn(u) ==
    /\ my[u].member = op[u].member
    /\ \A x, y \in OfHeir(u) : x.of \in Owned /\ x.of = y.of => Key(x) = Key(y)
    /\ \A x \in my[u].todo : x.member = op[u].member
    /\ \A x \in tx[u].in : x.member = op[u].to
    /\ pc[u] \in {"find", "start", "erase", "finds"} =>
          tx[u].in = {} /\ \A x \in rows : x.of \in Owned => x.member # op[u].to

\* Who makes an account for a member found nobody with the name, and nobody has come.
MakingFor(r) ==
    /\ my[r].member \in Prospects \union {op[r].member}
    /\ pc[r] \in {"rows", "member", "addRow"} /\ my[r].found = None =>
          \A x \in rows : x.of = "users" => x.name # op[r].user
    /\ pc[r] = "save" => my[r].found.of = "users" /\ my[r].found.name = op[r].user

\* The same of who registers a Discord account.
Registering(r) ==
    pc[r] = "register" =>
        \A x \in rows : x.of = "discord" => x.member # op[r].member /\ x.name # op[r].user

\* Who sets permissions has taken out all there were, and has put in one for each member.
Ruling(r) ==
    /\ my[r].left \subseteq op[r].list
    /\ pc[r] \in {"set", "put", "commit"} =>
          /\ tx[r].open /\ tx[r].whole = {"perms"}
          /\ \A x \in rows : x.of = "perms" => x \in tx[r].out
          /\ \A x \in tx[r].out : x.of = "perms"
          /\ \A x \in tx[r].in :
                x.of = "perms" /\ x.by = r /\ x.member = x.for /\ x.for \in op[r].list
          /\ OneEach(tx[r].in)
    /\ pc[r] = "put" /\ my[r].found = None =>
          \A x \in tx[r].in : x.member # my[r].member

Settled(r) ==
    /\ pc[r] # "idle" => op[r] \in Given.menu
    /\ Upgrader(r) => HandingOn(r)
    /\ Active(r) /\ Is(r, Creating) => MakingFor(r)
    /\ Active(r) => Registering(r)
    /\ Active(r) /\ Is(r, {"roles"}) => Ruling(r)
    /\ "perms" \in tx[r].whole => pc[r] \in {"set", "put", "commit"} /\ Is(r, {"roles"})

AllSettled ==
    /\ Traced /\ OneName /\ SeedNames /\ OneEach(rows) /\ Separate /\ OneLock
    /\ \A r \in Requests : Settled(r)

\* Who gets a number has no token yet, and who makes an account has one.
Tokened ==
    \A r \in Requests :
        /\ pc[r] = "newId" => my[r].token = None
        /\ pc[r] \in Making /\ Is(r, Creating) => my[r].token # None
OneInv == Tokened /\ (Steady => AllSettled)

\* What no step undoes: who has come stays, with what he asks for.
Forth == UNCHANGED given /\ \A r \in Requests : pc[r] # "idle" => pc'[r] # "idle" /\ op'[r] = op[r]

\* Nor does who has a token come to make an account for somebody else.
MakersStay == \A r \in Requests : Makes(r) => Makes(r)' /\ my'[r].member = my[r].member

-----------------------------------------------------------------------------
(* Who is who *)

LEMMA SteadyBefore == ASSUME Forth, MakersStay, Steady' PROVE Steady
<1>1. Given' = Given
  BY DEF Forth, Given
<1>2. UpgradedOnce
  <2>. SUFFICES ASSUME NEW r \in Requests, pc[r] # "idle", Is(r, {"upgrade"})
                PROVE  /\ \A q \in Requests \ {r} : pc[q] # "idle" => op[r].to \notin Involved(op[q])
                       /\ \A t \in First : \A x \in t : x.member # op[r].to
    BY DEF UpgradedOnce
  <2>1. pc'[r] # "idle" /\ op'[r] = op[r] /\ Is(r, {"upgrade"})'
    BY DEF Forth, Is
  <2>2. /\ \A q \in Requests \ {r} : pc'[q] # "idle" => op'[r].to \notin Involved(op'[q])
        /\ \A t \in First : \A x \in t : x.member # op'[r].to
    BY <2>1 DEF Steady, UpgradedOnce, Involved
  <2>. QED
    BY <2>1, <2>2 DEF Forth
<1>3. AllApart(Creating) /\ AllApart({"discord"})
  BY <1>1 DEF Steady, AllApart, OneAtATime
<1>4. NamesKept
  <2>. SUFFICES ASSUME NEW r \in Requests, Makes(r)
                PROVE  /\ \A q \in Requests :
                             Makes(q) /\ my[q].member = my[r].member => op[q].user = op[r].user
                       /\ \A t \in First : \A x \in t :
                             x.of = "users" /\ x.member = my[r].member => x.name = op[r].user
    BY DEF NamesKept
  <2>1. \A q \in Requests :
           Makes(q) => Makes(q)' /\ my'[q].member = my[q].member /\ op'[q] = op[q]
    BY DEF Forth, MakersStay, Makes
  <2>2. /\ \A q \in Requests :
              Makes(q)' /\ my'[q].member = my'[r].member => op'[q].user = op'[r].user
        /\ \A t \in First : \A x \in t :
              x.of = "users" /\ x.member = my'[r].member => x.name = op'[r].user
    BY <2>1 DEF Steady, NamesKept
  <2>. QED
    BY <2>1, <2>2
<1>. QED
  BY <1>1, <1>2, <1>3, <1>4 DEF Steady

LEMMA UpgraderIs ==
    ASSUME IInv, NEW u \in Requests, Upgrader(u)
    PROVE  /\ op[u] \in Ops /\ op[u].name = "upgrade" /\ my[u] \in Mine
           /\ op[u].member \in Prospects /\ op[u].to \in Cadets /\ op[u].list = {}
           /\ op[u].to # op[u].member
<1>1. op[u] \in Ops /\ op[u].name = "upgrade" /\ my[u] \in Mine
  BY AtPlace DEF Upgrader, Is
<1>2. op[u].member \in Prospects /\ op[u].to \in Cadets /\ op[u].list = {}
  BY <1>1, OpFacts DEF WellFormed
<1>. QED
  BY <1>1, <1>2, AccountsOK

\* Nothing has been added for somebody who is upgraded to.
LEMMA HeirsNew ==
    ASSUME IInv, Steady, NEW u \in Requests, Upgrader(u), NEW v, Origin(v)
    PROVE  v.for # op[u].to
<1>1. op[u].name = "upgrade" /\ op[u].to \in Cadets /\ op[u].to \notin Prospects
      /\ op[u].to # op[u].member /\ op[u].list = {}
  BY UpgraderIs, AccountsOK
<1>2. /\ \A q \in Requests \ {u} : pc[q] # "idle" => op[u].to \notin Involved(op[q])
      /\ \A t \in First : \A x \in t : x.member # op[u].to
  BY DEF Steady, UpgradedOnce, Upgrader
<1>3. CASE Made(v)
  BY <1>1, <1>2, <1>3 DEF Made, Involved
<1>4. ASSUME NEW t \in First, NEW x \in t, Key(x) = Key(v) PROVE v.for # op[u].to
  <2>1. x.member = x.for
    BY AccountsOK
  <2>2. x.for = v.for
    BY <1>4 DEF Key
  <2>. QED
    BY <1>2, <2>1, <2>2
<1>. QED
  BY <1>3, <1>4 DEF Origin

LEMMA OneHeir ==
    ASSUME IInv, Steady, NEW u \in Requests, NEW w \in Requests, Upgrader(u), Upgrader(w),
           op[u].to = op[w].to
    PROVE  u = w
<1>1. u # w => op[u].to \notin Involved(op[w])
  BY DEF Steady, UpgradedOnce, Upgrader
<1>. QED
  BY <1>1 DEF Involved

\* Rows of one member have been added for one member.
LEMMA SameFor ==
    ASSUME IInv, Steady, NEW v, NEW w, Origin(v), Origin(w), Heir(v), Heir(w),
           v.member = w.member
    PROVE  v.for = w.for
<1>1. CASE v.member = v.for /\ w.member = w.for
  BY <1>1
<1>2. CASE v.member = v.for /\ w.member # w.for
  BY <1>2, HeirsNew DEF Heir
<1>3. CASE v.member # v.for /\ w.member = w.for
  BY <1>3, HeirsNew DEF Heir
<1>4. CASE v.member # v.for /\ w.member # w.for
  BY <1>4, OneHeir DEF Heir
<1>. QED
  BY <1>1, <1>2, <1>3, <1>4

\* Who has been about to have an account goes by the name of the account of that member.
LEMMA MadeFirst ==
    ASSUME Steady, NEW v, NEW w, v.of = "users", w.of = "users", v.for = w.for, Made(v),
           NEW t \in First, NEW x \in t, Key(x) = Key(w), x.name = w.name
    PROVE  v.name = w.name
<1>1. x.of = "users" /\ x.for = w.for
  BY DEF Key
<1>2. x.member = x.for
  BY AccountsOK
<1>3. v.by \in Requests /\ Makes(v.by) /\ v.name = op[v.by].user /\ v.for = my[v.by].member
  BY DEF Made
<1>. QED
  BY <1>1, <1>2, <1>3 DEF Steady, NamesKept

\* The accounts that were made for one member have one name.
LEMMA SameName ==
    ASSUME Steady, SeedNames, NEW v, NEW w, v.of = "users", w.of = "users", v.for = w.for,
           Origin(v), Origin(w), Seen(v) \/ Made(v), Seen(w) \/ Made(w)
    PROVE  v.name = w.name
<1>1. CASE Made(v) /\ Made(w)
  <2>1. /\ v.by \in Requests /\ Makes(v.by) /\ v.name = op[v.by].user
        /\ v.for = my[v.by].member
    BY <1>1 DEF Made
  <2>2. /\ w.by \in Requests /\ Makes(w.by) /\ w.name = op[w.by].user
        /\ w.for = my[w.by].member
    BY <1>1 DEF Made
  <2>. QED
    BY <2>1, <2>2 DEF Steady, NamesKept
<1>2. CASE Made(v) /\ ~Made(w)
  BY <1>2, MadeFirst DEF Origin
<1>3. CASE ~Made(v) /\ Made(w)
  BY <1>3, MadeFirst DEF Origin
<1>4. CASE ~Made(v) /\ ~Made(w)
  <2>1. \A y : Origin(y) /\ ~Made(y) => y.by \notin Requests
    BY AccountsOK DEF Origin, Key
  <2>. QED
    BY <1>4, <2>1 DEF SeedNames
<1>. QED
  BY <1>1, <1>2, <1>3, <1>4

\* A row of the collections that a prospective member may be in is of the member it was
\* added for.
LEMMA ProspectsOwn ==
    ASSUME IInv, NEW v, Heir(v), v.member \in Prospects PROVE v.for = v.member
BY UpgraderIs, AccountsOK DEF Heir

\* Who does the same for one name, or for one member, waits.
LEMMA OthersName ==
    ASSUME IInv, Steady, Separate, NEW r \in Requests, NEW q \in Requests, r # q,
           Active(r), Active(q)
    PROVE  /\ Is(r, Creating) /\ Is(q, Creating) => op[r].user # op[q].user
           /\ Is(r, {"discord"}) /\ Is(q, {"discord"}) =>
                 op[r].user # op[q].user /\ op[r].member # op[q].member
<1>1. op[r] \in Ops /\ op[q] \in Ops
  BY AtPlace DEF Active
<1>2. WellFormed(op[r]) /\ WellFormed(op[q])
  BY <1>1, OpFacts
<1>3. Related(op[r], op[q]) => Together(op[r], op[q])
  BY DEF Separate
<1>4. ASSUME NEW S, AllApart(S), op[r].name \in S, op[q].name \in S PROVE ~Related(op[r], op[q])
  BY <1>3, <1>4 DEF Together, AllApart, OneAtATime
<1>5. op[r].name \in Creating \union {"discord"} => op[r].user # None
  BY <1>2 DEF WellFormed
<1>6. op[r].name = "discord" => op[r].member # None
  BY <1>2 DEF WellFormed
<1>7. AllApart(Creating) /\ AllApart({"discord"})
  BY DEF Steady
<1>8. ASSUME Is(r, Creating), Is(q, Creating) PROVE op[r].user # op[q].user
  BY <1>4, <1>5, <1>7, <1>8 DEF Is, Related
<1>9. ASSUME Is(r, {"discord"}), Is(q, {"discord"})
      PROVE  op[r].user # op[q].user /\ op[r].member # op[q].member
  BY <1>4, <1>5, <1>6, <1>7, <1>9 DEF Is, Related, Involved
<1>. QED
  BY <1>8, <1>9

-----------------------------------------------------------------------------
(* What a step of request q may do to rows *)

\* The row is as it was but for the password; it has been handed on; it is new.
Kept(y) == \E x \in rows : Key(x) = Key(y) /\ x.name = y.name /\ x.member = y.member
Passed(q, y) ==
    /\ Upgrader(q) /\ y.member = op[q].to
    /\ \E x \in rows : Key(x) = Key(y) /\ x.name = y.name
Anew(q, y) == Made(y) /\ y.by = q /\ y.member = y.for

RowsFrom(q) == \A y \in rows' : y.of \in Owned => Kept(y) \/ Passed(q, y) \/ Anew(q, y)
PermsStay(q) ==
    \A r \in Requests \ {q} : "perms" \in tx[r].whole =>
        \A y \in rows' : y.of = "perms" => y \in rows

\* It has been seen before.
Comes(q, v) ==
    \E w :
        /\ Seen(w) /\ Key(w) = Key(v) /\ w.name = v.name
        /\ \/ w.member = v.member
           \/ Upgrader(q) /\ w.member = op[q].member /\ v.member = op[q].to
SeenFrom(q) == \A v : Seen(v)' /\ v.of \in Owned => Comes(q, v) \/ Anew(q, v)

LEMMA MadeStays ==
    ASSUME Forth, MakersStay, NEW v, NEW w, Made(w), Key(w) = Key(v), w.name = v.name
    PROVE  Made(v)'
<1>1. v.of = w.of /\ v.by = w.by /\ v.for = w.for
  BY DEF Key
<1>2. w.by \in Requests /\ pc[w.by] # "idle" /\ pc'[w.by] # "idle" /\ op'[w.by] = op[w.by]
  BY DEF Made, Forth
<1>3. Makes(w.by) => Makes(w.by)' /\ my'[w.by].member = my[w.by].member
  BY <1>2 DEF MakersStay
<1>. QED
  BY <1>1, <1>2, <1>3 DEF Made

LEMMA OriginStays ==
    ASSUME Forth, MakersStay, NEW v, NEW w, Origin(w), Key(w) = Key(v), w.name = v.name
    PROVE  Origin(v)'
BY MadeStays DEF Origin

LEMMA HeirStays ==
    ASSUME Forth, NEW v, NEW w, Heir(w), Key(w) = Key(v), w.member = v.member PROVE Heir(v)'
<1>1. v.for = w.for
  BY DEF Key
<1>2. \A u \in Requests : Upgrader(u) => Upgrader(u)' /\ op'[u] = op[u]
  BY DEF Forth, Upgrader, Is
<1>. QED
  BY <1>1, <1>2 DEF Heir

LEMMA OwnedAre == Owned = {"users", "perms", "discord"} /\ Updated = Owned
BY DEF Owned, Updated

LEMMA TracedStep ==
    ASSUME IInv, AllSettled, Forth, MakersStay, NEW q \in Requests, SeenFrom(q)
    PROVE  Traced' /\ OneName' /\ SeedNames'
<1>1. ASSUME NEW v, Seen(v)', v.of \in Owned PROVE Origin(v)' /\ Heir(v)'
  <2>1. CASE Anew(q, v)
    BY <2>1, MadeStays DEF Anew, Origin, Heir
  <2>2. CASE Comes(q, v)
    <3>1. PICK w :
              /\ Seen(w) /\ Key(w) = Key(v) /\ w.name = v.name
              /\ \/ w.member = v.member
                 \/ Upgrader(q) /\ w.member = op[q].member /\ v.member = op[q].to
      BY <2>2 DEF Comes
    <3>2. w.of = v.of /\ w.for = v.for
      BY <3>1 DEF Key
    <3>3. Origin(w) /\ Heir(w)
      BY <1>1, <3>1, <3>2 DEF AllSettled, Traced
    <3>4. CASE w.member = v.member
      BY <3>1, <3>3, <3>4, OriginStays, HeirStays
    <3>5. CASE Upgrader(q) /\ w.member = op[q].member /\ v.member = op[q].to
      <4>1. w.for = w.member
        BY <3>3, <3>5, UpgraderIs, ProspectsOwn
      <4>2. Upgrader(q)' /\ op'[q] = op[q]
        BY <3>5 DEF Forth, Upgrader, Is
      <4>. QED
        BY <3>1, <3>2, <3>3, <3>5, <4>1, <4>2, OriginStays DEF Heir
    <3>. QED
      BY <3>1, <3>4, <3>5
  <2>. QED
    BY <1>1, <2>1, <2>2 DEF SeenFrom
<1>2. ASSUME NEW v, NEW w, Seen(v)', Seen(w)', v.of \in Owned, Key(v) = Key(w)
      PROVE  v.name = w.name
  <2>1. w.of = v.of /\ w.by = v.by
    BY <1>2 DEF Key
  <2>2. CASE v.by \in Requests
    <3>1. Made(v)' /\ Made(w)'
      <4>1. \A t \in First : \A x \in t : x.by \notin Requests
        BY AccountsOK
      <4>2. \A x, y : Key(x) = Key(y) => x.by = y.by
        BY DEF Key
      <4>. QED
        BY <1>1, <1>2, <2>1, <2>2, <4>1, <4>2 DEF Origin
    <3>. QED
      BY <1>2, <2>1, <3>1 DEF Made, Owned
  <2>3. CASE v.by \notin Requests
    <3>1. Comes(q, v) /\ Comes(q, w)
      BY <1>2, <2>1, <2>3 DEF SeenFrom, Anew, Made
    <3>2. PICK x : Seen(x) /\ Key(x) = Key(v) /\ x.name = v.name
      BY <3>1 DEF Comes
    <3>3. PICK y : Seen(y) /\ Key(y) = Key(w) /\ y.name = w.name
      BY <3>1 DEF Comes
    <3>4. x.of \in Owned
      BY <1>2, <3>2 DEF Key
    <3>. QED
      BY <1>2, <3>2, <3>3, <3>4 DEF AllSettled, OneName
  <2>. QED
    BY <2>2, <2>3
<1>3. ASSUME NEW v, NEW w, Seen(v)', Seen(w)', v.of = "users", w.of = "users",
             v.by \notin Requests, w.by \notin Requests, v.for = w.for
      PROVE  v.name = w.name
  <2>1. Comes(q, v) /\ Comes(q, w)
    BY <1>3 DEF SeenFrom, Anew, Made, Owned
  <2>2. PICK x : Seen(x) /\ Key(x) = Key(v) /\ x.name = v.name
    BY <2>1 DEF Comes
  <2>3. PICK y : Seen(y) /\ Key(y) = Key(w) /\ y.name = w.name
    BY <2>1 DEF Comes
  <2>4. /\ x.of = v.of /\ x.by = v.by /\ x.for = v.for
        /\ y.of = w.of /\ y.by = w.by /\ y.for = w.for
    BY <2>2, <2>3 DEF Key
  <2>. QED
    BY <1>3, <2>2, <2>3, <2>4 DEF AllSettled, SeedNames
<1>. QED
  BY <1>1, <1>2, <1>3 DEF Traced, OneName, SeedNames

LEMMA SeparateStays ==
    ASSUME Separate, Forth, \A r \in Requests : Active(r)' => Active(r)
    PROVE  Separate'
<1>1. \A r \in Requests : Active(r) => op'[r] = op[r]
  BY DEF Forth, Active
<1>2. ASSUME NEW r \in Requests, NEW q \in Requests, r # q, Active(r)', Active(q)',
             Related(op[r], op[q])'
      PROVE  Together(op[r], op[q])'
  <2>1. Related(op[r], op[q])
    BY <1>1, <1>2 DEF Related, Involved
  <2>2. Together(op[r], op[q])
    BY <1>2, <2>1 DEF Separate
  <2>. QED
    BY <1>1, <1>2, <2>2 DEF Together, Forth, Given
<1>. QED
  BY <1>2 DEF Separate

\* What becomes of the others.
LEMMA OthersSettled ==
    ASSUME IInv, Steady, AllSettled, NEW q \in Requests, Beside(q), UNCHANGED <<op, given>>,
           Active(q), RowsFrom(q), PermsStay(q), NEW r \in Requests \ {q}
    PROVE  Settled(r)'
<1>1. /\ pc'[r] = pc[r] /\ op'[r] = op[r] /\ my'[r] = my[r] /\ tx'[r] = tx[r]
      /\ Settled(r)
  BY DEF Beside, AllSettled
<1>2. /\ Upgrader(r)' <=> Upgrader(r)
      /\ Active(r)' <=> Active(r)
      /\ Is(r, Creating)' <=> Is(r, Creating)
      /\ Is(r, {"roles"})' <=> Is(r, {"roles"})
  BY <1>1 DEF Upgrader, Active, Is
<1>3. ASSUME NEW y \in rows', y.of \in Owned
      PROVE  \/ Kept(y) \/ Passed(q, y)
             \/ Anew(q, y)
  BY <1>3 DEF RowsFrom
<1>4. ASSUME Upgrader(r), NEW y \in rows', y.of \in Owned, y.member = op[r].to
      PROVE  Kept(y)
  <2>1. ~Passed(q, y)
    BY <1>4, OneHeir DEF Passed
  <2>2. ~Anew(q, y)
    BY <1>4, HeirsNew DEF Anew, Origin
  <2>. QED
    BY <1>3, <1>4, <2>1, <2>2
<1>5. Upgrader(r) => HandingOn(r)'
  <2>. SUFFICES ASSUME Upgrader(r) PROVE HandingOn(r)'
    OBVIOUS
  <2>1. HandingOn(r)
    BY <1>1 DEF Settled
  <2>2. ASSUME NEW y \in OfHeir(r)', y.of \in Owned
        PROVE  \E x \in OfHeir(r) : Key(x) = Key(y) /\ x.of = y.of
    <3>1. CASE y \in my[r].todo \union tx[r].in
      BY <1>1, <2>2, <3>1 DEF OfHeir
    <3>2. CASE y \in rows' /\ y.member = op[r].to
      <4>1. PICK x \in rows : Key(x) = Key(y) /\ x.member = y.member
        BY <1>4, <2>2, <3>2 DEF Kept
      <4>2. x.of = y.of
        BY <4>1 DEF Key
      <4>. QED
        BY <3>2, <4>1, <4>2 DEF OfHeir
    <3>. QED
      BY <1>1, <2>2, <3>1, <3>2 DEF OfHeir
  <2>3. \A x, y \in OfHeir(r)' : x.of \in Owned /\ x.of = y.of => Key(x) = Key(y)
    <3>. SUFFICES ASSUME NEW x \in OfHeir(r)', NEW y \in OfHeir(r)', x.of \in Owned, x.of = y.of
                  PROVE  Key(x) = Key(y)
      OBVIOUS
    <3>1. PICK v \in OfHeir(r) : Key(v) = Key(x) /\ v.of = x.of
      BY <2>2
    <3>2. PICK w \in OfHeir(r) : Key(w) = Key(y) /\ w.of = y.of
      BY <2>2
    <3>. QED
      BY <2>1, <3>1, <3>2 DEF HandingOn
  <2>4. pc[r] \in {"find", "start", "erase", "finds"} =>
            tx[r].in = {} /\ \A y \in rows' : y.of \in Owned => y.member # op[r].to
    <3>. SUFFICES ASSUME pc[r] \in {"find", "start", "erase", "finds"}
                  PROVE  tx[r].in = {} /\ \A y \in rows' : y.of \in Owned => y.member # op[r].to
      OBVIOUS
    <3>1. tx[r].in = {} /\ \A y \in rows : y.of \in Owned => y.member # op[r].to
      BY <2>1 DEF HandingOn
    <3>2. ASSUME NEW y \in rows', y.of \in Owned, y.member = op[r].to PROVE FALSE
      <4>1. PICK x \in rows : Key(x) = Key(y) /\ x.member = y.member
        BY <1>4, <3>2 DEF Kept
      <4>2. x.of = y.of
        BY <4>1 DEF Key
      <4>. QED
        BY <3>1, <3>2, <4>1, <4>2
    <3>. QED
      BY <3>1, <3>2
  <2>. QED
    BY <1>1, <2>1, <2>3, <2>4 DEF HandingOn
<1>6. Active(r) /\ Is(r, Creating) => MakingFor(r)'
  <2>. SUFFICES ASSUME Active(r), Is(r, Creating) PROVE MakingFor(r)'
    OBVIOUS
  <2>1. MakingFor(r)
    BY <1>1 DEF Settled
  <2>2. ASSUME pc[r] \in {"rows", "member", "addRow"}, my[r].found = None,
               NEW y \in rows', y.of = "users", y.name = op[r].user
        PROVE  FALSE
    <3>1. \A x \in rows : x.of = "users" => x.name # op[r].user
      BY <2>1, <2>2 DEF MakingFor
    <3>2. \A x \in rows : Key(x) = Key(y) => x.name # y.name
      BY <2>2, <3>1 DEF Key
    <3>3. Anew(q, y)
      BY <1>3, <2>2, <3>2 DEF Kept, Passed, Owned
    <3>4. Is(q, Creating) /\ y.name = op[q].user
      BY <2>2, <3>3 DEF Anew, Made, Makes
    <3>. QED
      BY <2>2, <3>4, OthersName DEF AllSettled
  <2>. QED
    BY <1>1, <2>1, <2>2 DEF MakingFor
<1>7. Active(r) => Registering(r)'
  <2>. SUFFICES ASSUME Active(r), pc[r] = "register", NEW y \in rows', y.of = "discord",
                       y.member = op[r].member \/ y.name = op[r].user
                PROVE  FALSE
    BY <1>1 DEF Registering
  <2>1. \A x \in rows : x.of = "discord" => x.member # op[r].member /\ x.name # op[r].user
    BY <1>1 DEF Settled, Registering
  <2>2. \A x \in rows : Key(x) = Key(y) => x.member # op[r].member /\ x.name # op[r].user
    BY <2>1 DEF Key
  <2>3. Is(r, {"discord"})
    BY AtPlace, DoersAre DEF Is, Ended
  <2>4. CASE Kept(y)
    BY <2>2, <2>4 DEF Kept
  <2>5. CASE Passed(q, y)
    <3>1. op[q].to \notin Involved(op[r])
      BY <2>5 DEF Passed, Steady, UpgradedOnce, Upgrader
    <3>2. op[q].to # op[r].member
      BY <3>1 DEF Involved
    <3>. QED
      BY <2>2, <2>5, <3>2 DEF Passed
  <2>6. CASE Anew(q, y)
    <3>1. Is(q, {"discord"}) /\ y.name = op[q].user /\ y.member = op[q].member
      BY <2>6 DEF Anew, Made, Is
    <3>. QED
      BY <2>3, <3>1, OthersName DEF AllSettled
  <2>. QED
    BY <1>3, <2>4, <2>5, <2>6 DEF Owned
<1>8. Active(r) /\ Is(r, {"roles"}) => Ruling(r)'
  <2>. SUFFICES ASSUME Active(r), Is(r, {"roles"}) PROVE Ruling(r)'
    OBVIOUS
  <2>1. Ruling(r)
    BY <1>1 DEF Settled
  <2>2. pc[r] \in {"set", "put", "commit"} =>
            \A y \in rows' : y.of = "perms" => y \in tx[r].out
    BY <2>1 DEF Ruling, PermsStay
  <2>. QED
    BY <1>1, <2>1, <2>2 DEF Ruling, OneEach
<1>. QED
  BY <1>1, <1>2, <1>5, <1>6, <1>7, <1>8 DEF Settled, Given

\* A step of one request, on the whole.
LEMMA SettledStep ==
    ASSUME IInv, IInv', Steady, AllSettled, MakersStay, NEW q \in Requests, Beside(q),
           UNCHANGED <<op, given>>, Active(q), pc'[q] # "idle",
           RowsFrom(q), PermsStay(q), SeenFrom(q), OneEach(rows'), Settled(q)',
           \/ "perms" \in tx'[q].whole => "perms" \in tx[q].whole
           \/ \A r \in Requests \ {q} : "perms" \notin tx[r].whole
    PROVE  AllSettled'
<1>1. Forth
  BY DEF Beside, Forth
<1>2. Traced' /\ OneName' /\ SeedNames'
  BY <1>1, TracedStep
<1>3. Separate'
  <2>1. \A r \in Requests : Active(r)' => Active(r)
    BY DEF Beside, Active
  <2>. QED
    BY <1>1, <2>1, SeparateStays DEF AllSettled
<1>4. OneLock'
  BY DEF Beside, OneLock, AllSettled
<1>5. \A r \in Requests \ {q} : Settled(r)'
  BY OthersSettled
<1>. QED
  BY <1>2, <1>3, <1>4, <1>5 DEF AllSettled, OneEach, Same

-----------------------------------------------------------------------------
(* What there is to see after a step *)

LEMMA SeenParts ==
    ASSUME NEW q \in Requests, Beside(q), NEW v, Seen(v)'
    PROVE  \/ Seen(v) \/ v \in rows' \/ v \in tx'[q].in \/ v \in my'[q].todo
           \/ pc'[q] = "save" /\ v = my'[q].found
<1>1. CASE v \in rows'
  BY <1>1
<1>2. ASSUME NEW r \in Requests \ {q},
             \/ v \in tx'[r].in
             \/ pc'[r] # "idle" /\ v \in my'[r].todo
             \/ pc'[r] = "save" /\ v = my'[r].found
      PROVE  Seen(v)
  BY <1>2 DEF Beside, Seen
<1>. QED
  BY <1>1, <1>2 DEF Seen

LEMMA SeenAre ==
    /\ \A v \in rows : Seen(v)
    /\ \A r \in Requests : \A v \in tx[r].in : Seen(v)
    /\ \A r \in Requests : pc[r] # "idle" => \A v \in my[r].todo : Seen(v)
    /\ \A r \in Requests : pc[r] = "save" => Seen(my[r].found)
BY DEF Seen

LEMMA SeenStep ==
    ASSUME NEW q \in Requests, Beside(q),
           \A v \in rows' : v.of \in Owned => Kept(v) \/ Comes(q, v) \/ Anew(q, v),
           \A v \in tx'[q].in : Seen(v) \/ Comes(q, v) \/ Anew(q, v),
           \A v \in my'[q].todo : Seen(v),
           pc'[q] = "save" => Seen(my'[q].found)
    PROVE  SeenFrom(q)
<1>1. \A v : Seen(v) => Comes(q, v)
  BY DEF Comes
<1>2. \A v : Kept(v) => Comes(q, v)
  BY SeenAre DEF Kept, Comes
<1>. QED
  BY <1>1, <1>2, SeenParts DEF SeenFrom

LEMMA KeyOf == \A x, y : Key(x) = Key(y) => x.of = y.of /\ x.by = y.by /\ x.for = y.for
BY DEF Key

\* Rows that are as they were, but for the password, are one of each if they were.
LEMMA EachKept ==
    ASSUME NEW S, NEW T, OneEach(S), OneKey(T),
           \A y \in T : y.of \in Owned =>
               \E x \in S : Key(x) = Key(y) /\ x.name = y.name /\ x.member = y.member
    PROVE  OneEach(T)
<1>. SUFFICES ASSUME NEW x \in T, NEW y \in T, x.of \in Owned, Same(x, y) PROVE x = y
  BY DEF OneEach
<1>1. x.of = y.of
  BY DEF Same
<1>2. PICK a \in S : Key(a) = Key(x) /\ a.name = x.name /\ a.member = x.member
  OBVIOUS
<1>3. PICK b \in S : Key(b) = Key(y) /\ b.name = y.name /\ b.member = y.member
  BY <1>1
<1>4. a.of = x.of /\ b.of = y.of
  BY <1>2, <1>3, KeyOf
<1>5. Same(a, b) /\ a.of \in Owned
  BY <1>2, <1>3, <1>4 DEF Same
<1>6. a = b
  BY <1>5 DEF OneEach
<1>. QED
  BY <1>2, <1>3, <1>6 DEF OneKey

\* Rows that have been handed on to somebody who has one of each.
LEMMA EachPassed ==
    ASSUME OneEach(rows), OneKey(rows'), NEW q \in Requests,
           \A y \in rows' : y.of \in Owned => Kept(y) \/ Passed(q, y),
           \A x, y \in rows' : /\ x.of \in Owned /\ x.of = y.of
                           /\ x.member = op[q].to /\ y.member = op[q].to => Key(x) = Key(y)
    PROVE  OneEach(rows')
<1>. SUFFICES ASSUME NEW x \in rows', NEW y \in rows', x.of \in Owned, Same(x, y) PROVE x = y
  BY DEF OneEach
<1>1. x.of = y.of
  BY DEF Same
<1>2. PICK a \in rows : /\ Key(a) = Key(x) /\ a.name = x.name
                        /\ a.member = x.member \/ x.member = op[q].to
  BY DEF Kept, Passed
<1>3. PICK b \in rows : /\ Key(b) = Key(y) /\ b.name = y.name
                        /\ b.member = y.member \/ y.member = op[q].to
  BY <1>1 DEF Kept, Passed
<1>4. a.of = x.of /\ b.of = y.of
  BY <1>2, <1>3, KeyOf
<1>5. CASE x.member = y.member /\ x.member = op[q].to
  BY <1>1, <1>5 DEF OneKey
<1>6. CASE ~(x.member = y.member /\ x.member = op[q].to)
  <2>1. Same(a, b) /\ a.of \in Owned
    BY <1>2, <1>3, <1>4, <1>6 DEF Same
  <2>2. a = b
    BY <2>1 DEF OneEach
  <2>. QED
    BY <1>2, <1>3, <2>2 DEF OneKey
<1>. QED
  BY <1>5, <1>6

\* A step that adds no row of those that are to be one each.
LEMMA QuietSettled ==
    ASSUME IInv, IInv', Steady, AllSettled, MakersStay, NEW q \in Requests, Beside(q),
           UNCHANGED <<op, given>>, Active(q), pc'[q] # "idle",
           \A y \in rows' : y.of \in Owned => y \in rows,
           tx'[q].in \subseteq tx[q].in, \A v \in my'[q].todo : Seen(v),
           pc'[q] = "save" => Seen(my'[q].found), Settled(q)',
           \/ "perms" \in tx'[q].whole => "perms" \in tx[q].whole
           \/ \A r \in Requests \ {q} : "perms" \notin tx[r].whole
    PROVE  AllSettled'
<1>1. \A y \in rows' : y.of \in Owned => Kept(y)
  BY DEF Kept
<1>2. RowsFrom(q) /\ PermsStay(q)
  BY <1>1 DEF RowsFrom, PermsStay, Owned
<1>3. SeenFrom(q)
  BY <1>1, SeenAre, SeenStep
<1>4. OneEach(rows')
  BY DEF AllSettled, OneEach, Same
<1>. QED
  BY <1>2, <1>3, <1>4, SettledStep

-----------------------------------------------------------------------------
(* Accounts, tokens, Discord accounts, and one record each *)

\* Where there are no upgrades and no changes of permissions.
LEMMA PlaceApart ==
    ASSUME IInv, NEW q \in Requests,
           pc[q] \in {"newId", "addPerson", "info", "count", "addToken", "mail", "validate",
                      "peek", "register"} \union Making
    PROVE  /\ ~Is(q, {"upgrade", "roles"}) /\ ~Is(q, {"upgrade"}) /\ ~Is(q, {"roles"})
           /\ pc[q] \notin {"member", "peek", "register"} => ~Is(q, {"discord"})
           /\ pc[q] \in Making \ {"member"} => Is(q, Creating)
           /\ pc[q] \in {"peek", "register"} => Is(q, {"discord"})
<1>1. op[q].name \in Doers(pc[q])
  BY AtPlace DEF Making, Ended
<1>2. CASE pc[q] \in {"newId", "addPerson"}
  BY <1>1, <1>2, DoersAre DEF Is, Logins, Making
<1>3. CASE pc[q] \in {"info", "count", "addToken", "mail"}
  BY <1>1, <1>3, DoersAre DEF Is, Logins, Making
<1>4. CASE pc[q] = "validate"
  BY <1>1, <1>4, DoersAre DEF Is, Making
<1>5. CASE pc[q] \in {"peek", "register"}
  BY <1>1, <1>5, DoersAre DEF Is, Making
<1>6. CASE pc[q] = "member"
  BY <1>1, <1>6, DoersAre DEF Is, Creating, Making
<1>7. CASE pc[q] \in Making \ {"member"}
  <2>1. op[q].name \in Creating
    BY <1>1, <1>7, DoersAre
  <2>2. pc[q] \notin {"peek", "register"}
    BY <1>7 DEF Making
  <2>. QED
    BY <2>1, <2>2 DEF Is, Creating
<1>. QED
  BY <1>2, <1>3, <1>4, <1>5, <1>6, <1>7 DEF Making

\* Who neither upgrades nor sets permissions has no transaction.
LEMMA ApartTx ==
    ASSUME IInv, NEW q \in Requests, Active(q), ~Is(q, {"upgrade", "roles"})
    PROVE  tx[q] = NoTx /\ View(q) = rows
<1>1. tx[q] = NoTx
  BY DEF IInv, Control, Has, Locks, Holds
<1>. QED
  BY <1>1, ViewOK DEF IInv

LEMMA ApartSettled ==
    ASSUME IInv, AllSettled, NEW q \in Requests, UNCHANGED <<op, given, tx>>,
           Active(q), ~Is(q, {"upgrade", "roles"}),
           Active(q)' /\ Is(q, Creating) => MakingFor(q)', Active(q)' => Registering(q)'
    PROVE  Settled(q)'
<1>1. op[q] \in Given.menu /\ tx[q].whole = {}
  BY ApartTx DEF AllSettled, Settled, Active, NoTx
<1>2. Is(q, Creating)' <=> Is(q, Creating)
  BY DEF Is
<1>3. ~Is(q, {"upgrade"})' /\ ~Is(q, {"roles"})'
  BY DEF Is
<1>. QED
  BY <1>1, <1>2, <1>3 DEF Settled, Given, Upgrader

\* A step that neither looks for accounts nor adds one.
LEMMA QuietApart ==
    ASSUME IInv, IInv', Steady, AllSettled, MakersStay, NEW q \in Requests, Beside(q),
           UNCHANGED <<op, given, tx>>, Active(q), ~Is(q, {"upgrade", "roles"}),
           \A y \in rows' : y.of \in Owned => y \in rows,
           my'[q].todo = my[q].todo, my'[q].member = my[q].member,
           my'[q].found = my[q].found,
           pc'[q] \in {"rows", "member", "addRow"} => pc[q] \in {"rows", "member", "addRow"},
           pc'[q] \notin {"save", "register", "idle"}
    PROVE  AllSettled'
<1>1. Active(q)' /\ Is(q, Creating) => MakingFor(q)'
  BY DEF AllSettled, Settled, MakingFor, Owned
<1>2. Registering(q)'
  BY DEF Registering
<1>3. Settled(q)'
  BY <1>1, <1>2, ApartSettled
<1>4. pc[q] # "idle"
  BY DEF Active
<1>. QED
  BY <1>3, <1>4, SeenAre, QuietSettled

LEMMA AnswersSettled ==
    ASSUME IInv, IInv', Steady, AllSettled, MakersStay, NEW q \in Requests,
           Info(q) \/ Count(q) \/ Mail(q) \/ MemberFree(q) \/ IsMember(q)
    PROVE  AllSettled'
<1>1. Beside(q) /\ UNCHANGED <<op, given>> /\ Active(q)
  BY StepBeside DEF Step
<1>2. pc \in [Requests -> Labels]
  BY DEF IInv, Plain
<1>3. UNCHANGED <<rows, my, tx>>
  BY DEF Info, Count, Mail, MemberFree, IsMember, Answers
<1>4. /\ pc'[q] \in {"rows", "member", "addRow"} => pc[q] \in {"rows", "member", "addRow"}
      /\ pc'[q] \notin {"save", "register", "idle"}
  BY <1>2 DEF Info, Count, Mail, MemberFree, IsMember, Answers, Goto, After
<1>5. ~Is(q, {"upgrade", "roles"})
  BY PlaceApart DEF Info, Count, Mail, MemberFree, IsMember, Making
<1>. QED
  BY <1>1, <1>3, <1>4, <1>5, QuietApart

LEMMA ValidateSettled ==
    ASSUME IInv, IInv', Steady, AllSettled, MakersStay, NEW q \in Requests, Validate(q)
    PROVE  AllSettled'
<1>1. Beside(q) /\ UNCHANGED <<op, given>> /\ Active(q)
  BY StepBeside DEF Step
<1>2. pc \in [Requests -> Labels] /\ my \in [Requests -> Mine \union {None}] /\ my[q] \in Mine
  BY AtPlace, <1>1 DEF IInv, Plain, Active
<1>3. UNCHANGED <<rows, tx>> /\ pc'[q] \in {"failed", "name"}
  BY <1>2 DEF Validate, Reads, Answers, Goto
<1>4. /\ my'[q].todo = my[q].todo /\ my'[q].member = my[q].member
      /\ my'[q].found = my[q].found
  BY <1>2 DEF Validate, Reads, Answers, Keeps, Mine
<1>5. ~Is(q, {"upgrade", "roles"})
  BY PlaceApart DEF Validate
<1>. QED
  BY <1>1, <1>3, <1>4, <1>5, QuietApart

\* What is stored or removed is a person or a token.
LEMMA StoresSettled ==
    ASSUME IInv, IInv', Steady, AllSettled, MakersStay, NEW q \in Requests,
           AddPerson(q) \/ AddToken(q) \/ Drop(q) \/ (Erase(q) /\ Is(q, {"delete"}))
    PROVE  AllSettled'
<1>1. Beside(q) /\ UNCHANGED <<op, given>> /\ Active(q)
  BY StepBeside DEF Step
<1>2. pc \in [Requests -> Labels] /\ my \in [Requests -> Mine \union {None}] /\ my[q] \in Mine
  BY AtPlace, <1>1 DEF IInv, Plain, Active
<1>3. ~Is(q, {"upgrade", "roles"})
  <2>1. Is(q, {"delete"}) => ~Is(q, {"upgrade", "roles"})
    BY DEF Is
  <2>. QED
    BY <2>1, PlaceApart DEF AddPerson, AddToken, Drop, Making
<1>4. tx[q] = NoTx /\ ~tx[q].open
  BY <1>1, <1>3, ApartTx DEF NoTx
<1>5. UNCHANGED tx
  BY <1>4 DEF AddPerson, AddToken, Drop, Erase, Stores
<1>6. \A y \in rows' : y.of \in Owned => y \in rows
  <2>1. \A m \in Refs : /\ Row(q, "people", m, None, None).of \notin Owned
                        /\ Row(q, "tokens", m, None, None).of \notin Owned
    BY DEF Row, Owned
  <2>2. pc[q] \in {"addPerson", "addToken"} => my[q].member \in Refs
    BY AtPlace DEF Knows
  <2>. QED
    BY <1>4, <2>1, <2>2 DEF AddPerson, AddToken, Drop, Erase, Stores
<1>7. /\ pc'[q] \notin {"rows", "member", "addRow"}
      /\ pc'[q] \notin {"save", "register", "idle"}
  BY <1>2, <1>3 DEF AddPerson, AddToken, Drop, Erase, Goto, After, Is
<1>8. /\ my'[q].todo = my[q].todo /\ my'[q].member = my[q].member
      /\ my'[q].found = my[q].found
  BY <1>2 DEF AddPerson, AddToken, Drop, Erase, Keeps, Mine
<1>. QED
  BY <1>1, <1>3, <1>5, <1>6, <1>7, <1>8, QuietApart

LEMMA ReadsApart ==
    ASSUME IInv, IInv', Steady, AllSettled, MakersStay, NEW q \in Requests, Beside(q),
           UNCHANGED <<rows, op, given, tx>>, Active(q), ~Is(q, {"upgrade", "roles"}),
           pc'[q] # "idle", my'[q].todo = my[q].todo,
           pc'[q] = "save" => Seen(my'[q].found),
           Is(q, Creating) => MakingFor(q)', Registering(q)'
    PROVE  AllSettled'
<1>1. Settled(q)' /\ pc[q] # "idle"
  BY ApartSettled DEF Active
<1>. QED
  BY <1>1, SeenAre, QuietSettled

LEMMA NewIdSettled ==
    ASSUME IInv, IInv', Steady, AllSettled, MakersStay, NEW q \in Requests, NewId(q) PROVE AllSettled'
<1>1. Beside(q) /\ UNCHANGED <<op, given>> /\ Active(q)
  BY StepBeside DEF Step
<1>2. pc \in [Requests -> Labels] /\ my \in [Requests -> Mine \union {None}] /\ my[q] \in Mine
  BY AtPlace, <1>1 DEF IInv, Plain, Active
<1>3. PICK n \in 2..MaxId : my'[q] = [my[q] EXCEPT !.member = n]
  BY <1>2 DEF NewId, Reads, Keeps
<1>4. my'[q].todo = my[q].todo /\ my'[q].member = n
  BY <1>2, <1>3 DEF Mine
<1>5. pc'[q] = "addPerson" /\ UNCHANGED <<rows, tx>>
  BY <1>2 DEF NewId, Reads, Goto
<1>6. ~Is(q, {"upgrade", "roles"}) /\ op[q].name \in Logins /\ op[q] \in Ops
  BY AtPlace, DoersAre, PlaceApart DEF NewId, Ended
<1>7. n \in Prospects
  BY AccountsOK DEF Prospects
<1>8. MakingFor(q)' /\ Registering(q)'
  BY <1>1, <1>4, <1>5, <1>7 DEF MakingFor, Registering
<1>. QED
  BY <1>1, <1>4, <1>5, <1>6, <1>8, ReadsApart

\* A lookup that finds nothing finds that there is nothing, as there are no two.
LEMMA NobodyFound ==
    ASSUME OneEach(rows), rows \subseteq Rows, NEW S \in SUBSET rows, Only(S) = None,
           \A x, y \in S : x.of \in Owned /\ Same(x, y)
    PROVE  S = {}
<1>. SUFFICES ASSUME NEW x \in S PROVE FALSE
  OBVIOUS
<1>1. S = {x}
  BY DEF OneEach
<1>2. Only(S) \in S
  BY <1>1 DEF Only
<1>. QED
  BY <1>2, NoneApart

LEMMA NameFreeSettled ==
    ASSUME IInv, IInv', Steady, AllSettled, MakersStay, NEW q \in Requests, NameFree(q) PROVE AllSettled'
<1>1. Beside(q) /\ UNCHANGED <<op, given>> /\ Active(q)
  BY StepBeside DEF Step
<1>2. pc \in [Requests -> Labels] /\ my \in [Requests -> Mine \union {None}] /\ my[q] \in Mine
  BY AtPlace, <1>1 DEF IInv, Plain, Active
<1>3. ~Is(q, {"upgrade", "roles"}) /\ Is(q, Creating) /\ tx[q] = NoTx /\ View(q) = rows
  BY <1>1, PlaceApart, ApartTx DEF NameFree, Making
<1>4. MakingFor(q)
  BY <1>1, <1>3 DEF AllSettled, Settled
<1>. DEFINE S == Named(q, "users", op[q].user)
<1>5. ~Fails(q) /\ UNCHANGED <<rows, tx>>
  BY DEF Fails, NameFree, Reads, Answers, Steady
<1>6. /\ my'[q].todo = my[q].todo /\ my'[q].member = my[q].member
      /\ pc'[q] \notin {"idle", "save", "register", "member", "addRow"}
      /\ pc'[q] = "rows" => my'[q].found = Only(S)
  BY <1>2, <1>5 DEF NameFree, Reads, Answers, Goto, Keeps, After, Mine
<1>7. S \subseteq rows /\ \A x \in S : x.of = "users" /\ x.name = op[q].user
  BY <1>3 DEF Named
<1>8. op[q].user # None
  <2>1. op[q] \in Ops
    BY <1>1, AtPlace DEF Active
  <2>. QED
    BY <1>3, <2>1, OpFacts DEF WellFormed, Is
<1>9. Only(S) = None => S = {}
  <2>1. \A x, y \in S : x.of \in Owned /\ Same(x, y)
    BY <1>7, <1>8 DEF Same, Owned
  <2>. QED
    BY <1>7, <2>1, NobodyFound DEF AllSettled, IInv, Plain
<1>10. S = {} => \A x \in rows : x.of = "users" => x.name # op[q].user
  BY <1>3 DEF Named
<1>11. MakingFor(q)' /\ Registering(q)'
  BY <1>1, <1>4, <1>5, <1>6, <1>9, <1>10 DEF MakingFor, Registering
<1>. QED
  BY <1>1, <1>3, <1>5, <1>6, <1>11, ReadsApart

LEMMA ReadBackSettled ==
    ASSUME IInv, IInv', Steady, AllSettled, MakersStay, NEW q \in Requests, ReadBack(q) PROVE AllSettled'
<1>1. Beside(q) /\ UNCHANGED <<op, given>> /\ Active(q)
  BY StepBeside DEF Step
<1>2. pc \in [Requests -> Labels] /\ my \in [Requests -> Mine \union {None}] /\ my[q] \in Mine
  BY AtPlace, <1>1 DEF IInv, Plain, Active
<1>3. ~Is(q, {"upgrade", "roles"}) /\ Is(q, Creating) /\ tx[q] = NoTx /\ View(q) = rows
  BY <1>1, PlaceApart, ApartTx DEF ReadBack, Making
<1>4. MakingFor(q)
  BY <1>1, <1>3 DEF AllSettled, Settled
<1>. DEFINE S == Named(q, "users", op[q].user)
<1>5. S \subseteq rows /\ \A x \in S : x.of = "users" /\ x.name = op[q].user
  BY <1>3 DEF Named
<1>6. /\ my'[q].todo = my[q].todo /\ my'[q].member = my[q].member
      /\ pc'[q] \notin {"idle", "rows", "register", "member", "addRow"}
      /\ pc'[q] = "save" => my'[q].found \in S
      /\ UNCHANGED <<rows, tx>>
  <2>1. Only(S) # None => Only(S) \in S
    BY OnlyIn
  <2>. QED
    BY <1>2, <2>1 DEF ReadBack, Reads, Answers, Goto, Keeps, After, Mine
<1>7. MakingFor(q)' /\ Registering(q)'
  BY <1>1, <1>4, <1>5, <1>6 DEF MakingFor, Registering
<1>8. pc'[q] = "save" => Seen(my'[q].found)
  BY <1>5, <1>6, SeenAre
<1>. QED
  BY <1>1, <1>3, <1>6, <1>7, <1>8, ReadsApart

LEMMA FindSettled ==
    ASSUME IInv, IInv', Steady, AllSettled, MakersStay, NEW q \in Requests, Find(q), Is(q, {"delete"})
    PROVE  AllSettled'
<1>1. Beside(q) /\ UNCHANGED <<op, given>> /\ Active(q)
  BY StepBeside DEF Step
<1>2. pc \in [Requests -> Labels] /\ my \in [Requests -> Mine \union {None}] /\ my[q] \in Mine
  BY AtPlace, <1>1 DEF IInv, Plain, Active
<1>3. ~Is(q, {"upgrade", "roles"}) /\ ~Is(q, Creating)
  BY DEF Is, Creating
<1>4. /\ my'[q].todo = my[q].todo /\ pc'[q] \in {"failed", "erase"}
      /\ UNCHANGED <<rows, tx>>
  BY <1>2 DEF Find, Reads, Answers, Goto, Keeps, Mine
<1>5. Registering(q)'
  BY <1>4 DEF Registering
<1>. QED
  BY <1>1, <1>3, <1>4, <1>5, ReadsApart

LEMMA PeekSettled ==
    ASSUME IInv, IInv', Steady, AllSettled, MakersStay, NEW q \in Requests, Peek(q) PROVE AllSettled'
<1>1. Beside(q) /\ UNCHANGED <<op, given>> /\ Active(q)
  BY StepBeside DEF Step
<1>2. pc \in [Requests -> Labels]
  BY DEF IInv, Plain
<1>3. /\ ~Is(q, {"upgrade", "roles"}) /\ Is(q, {"discord"}) /\ ~Is(q, Creating)
      /\ tx[q] = NoTx /\ View(q) = rows
  BY <1>1, PlaceApart, ApartTx DEF Peek, Is, Creating
<1>4. UNCHANGED <<rows, my, tx>> /\ pc'[q] \in {"register", "failed"}
  BY <1>2 DEF Peek, Answers, Goto
<1>5. pc'[q] = "register" =>
         About(q, "discord", op[q].member) = {} /\ Named(q, "discord", op[q].user) = {}
  BY <1>2 DEF Peek, Answers, Goto
<1>6. Registering(q)'
  BY <1>1, <1>3, <1>4, <1>5 DEF Registering, About, Named
<1>. QED
  BY <1>1, <1>3, <1>4, <1>6, ReadsApart

LEMMA WritesApart ==
    ASSUME IInv, IInv', Steady, AllSettled, MakersStay, NEW q \in Requests, Beside(q),
           UNCHANGED <<op, given, my, tx>>, Active(q), ~Is(q, {"upgrade", "roles"}),
           pc'[q] \notin {"idle", "save"},
           \A y \in rows' : y.of \in Owned => Kept(y) \/ Anew(q, y),
           \A y \in rows' : y.of = "perms" => y \in rows,
           OneEach(rows'),
           Active(q)' /\ Is(q, Creating) => MakingFor(q)', Active(q)' => Registering(q)'
    PROVE  AllSettled'
<1>1. Settled(q)' /\ pc[q] # "idle"
  BY ApartSettled DEF Active
<1>2. RowsFrom(q) /\ PermsStay(q)
  BY DEF RowsFrom, PermsStay
<1>3. SeenFrom(q)
  BY <1>1, SeenAre, SeenStep
<1>. QED
  BY <1>1, <1>2, <1>3, SettledStep

\* A row that is like none there was.
LEMMA EachAdded ==
    ASSUME OneEach(rows), NEW n, rows' = rows \union {n},
           \A x \in rows : x.of = n.of => x.member # n.member /\ (n.name # None => x.name # n.name)
    PROVE  OneEach(rows')
<1>. SUFFICES ASSUME NEW x \in rows', NEW y \in rows', x.of \in Owned, Same(x, y) PROVE x = y
  BY DEF OneEach, Same
<1>1. CASE x \in rows /\ y \in rows
  BY <1>1 DEF OneEach
<1>2. CASE x = n /\ y \in rows
  BY <1>2 DEF Same
<1>3. CASE x \in rows /\ y = n
  BY <1>3 DEF Same
<1>. QED
  BY <1>1, <1>2, <1>3

\* An account is added to nobody who has one: with his would come the name.
LEMMA AddRowSettled ==
    ASSUME IInv, IInv', Steady, AllSettled, MakersStay, Tokened, NEW q \in Requests, AddRow(q)
    PROVE  AllSettled'
<1>1. Beside(q) /\ UNCHANGED <<op, given>> /\ Active(q)
  BY StepBeside DEF Step
<1>2. pc \in [Requests -> Labels] /\ rows \subseteq Rows
  BY DEF IInv, Plain
<1>3. ~Is(q, {"upgrade", "roles"}) /\ Is(q, Creating) /\ MakingFor(q)
  BY <1>1, PlaceApart DEF AddRow, Making, AllSettled, Settled
<1>4. pc'[q] = "read" /\ UNCHANGED <<my, tx>>
  BY <1>2 DEF AddRow, Goto, Stores
<1>5. MakingFor(q)' /\ Registering(q)'
  BY <1>1, <1>3, <1>4 DEF MakingFor, Registering
<1>6. CASE my[q].found # None
  <2>1. rows' = rows
    BY <1>6 DEF AddRow, Stores
  <2>2. \A y \in rows' : Kept(y)
    BY <2>1 DEF Kept
  <2>. QED
    BY <1>1, <1>3, <1>4, <1>5, <2>1, <2>2, WritesApart DEF AllSettled
<1>7. CASE my[q].found = None
  <2>. DEFINE n == Row(q, "users", my[q].member, op[q].user, None)
  <2>1. rows' = rows \union {n}
    BY <1>7 DEF AddRow, Stores
  <2>2. /\ n.of = "users" /\ n.by = q /\ n.for = my[q].member /\ n.member = my[q].member
        /\ n.name = op[q].user
    BY DEF Row
  <2>3. Made(n)
    <3>1. Makes(q)
      BY <1>1, <1>3 DEF Tokened, AddRow, Making, Makes, Active
    <3>. QED
      BY <1>1, <1>3, <2>2, <3>1 DEF Made, MakingFor, Active
  <2>4. \A x \in rows : x.of = "users" => x.name # op[q].user
    BY <1>3, <1>7 DEF MakingFor, AddRow
  <2>5. ASSUME NEW x \in rows, x.of = "users", x.member = my[q].member PROVE FALSE
    <3>1. Origin(x) /\ Heir(x)
      BY <2>5, SeenAre DEF AllSettled, Traced, Owned
    <3>2. Origin(n) /\ Heir(n)
      BY <2>2, <2>3 DEF Origin, Heir
    <3>3. x.for = my[q].member
      BY <2>2, <2>5, <3>1, <3>2, SameFor
    <3>4. x.name = n.name
      BY <2>2, <2>3, <2>5, <3>1, <3>2, <3>3, SeenAre, SameName DEF AllSettled
    <3>. QED
      BY <2>2, <2>4, <2>5, <3>4
  <2>6. OneEach(rows')
    BY <2>1, <2>2, <2>4, <2>5, EachAdded DEF AllSettled
  <2>7. \A y \in rows' : Kept(y) \/ Anew(q, y)
    BY <2>1, <2>2, <2>3 DEF Kept, Anew
  <2>. QED
    BY <1>1, <1>3, <1>4, <1>5, <2>1, <2>2, <2>6, <2>7, WritesApart
<1>. QED
  BY <1>6, <1>7

\* A password is saved for somebody who has that name already.
LEMMA SaveSettled ==
    ASSUME IInv, IInv', Steady, AllSettled, MakersStay, NEW q \in Requests, Save(q) PROVE AllSettled'
<1>1. Beside(q) /\ UNCHANGED <<op, given>> /\ Active(q)
  BY StepBeside DEF Step
<1>2. pc \in [Requests -> Labels] /\ rows \subseteq Rows
  BY DEF IInv, Plain
<1>3. /\ ~Is(q, {"upgrade", "roles"}) /\ Is(q, Creating) /\ MakingFor(q)
      /\ View(q) = rows
  BY <1>1, PlaceApart, ApartTx DEF Save, Making, AllSettled, Settled
<1>4. pc'[q] = "drop" /\ UNCHANGED <<my, tx>>
  BY <1>2 DEF Save, Goto, Stores
<1>5. MakingFor(q)' /\ Registering(q)'
  BY <1>1, <1>3, <1>4 DEF MakingFor, Registering
<1>. DEFINE x == my[q].found
            all == About(q, "users", x.member)
<1>6. \A y \in all : y \in rows /\ y.of = "users" /\ y.member = x.member
  BY <1>3 DEF About
<1>7. ASSUME NEW y \in all PROVE y.name = x.name
  <2>1. y.of = "users" /\ Seen(y) /\ y.member = x.member
    BY <1>6, SeenAre
  <2>2. x.of = "users" /\ Seen(x) /\ x.name = op[q].user
    BY <1>3, SeenAre DEF Save, MakingFor
  <2>3. Origin(x) /\ Heir(x) /\ Origin(y) /\ Heir(y)
    BY <2>1, <2>2 DEF AllSettled, Traced, Owned
  <2>4. x.for = y.for
    BY <2>1, <2>3, SameFor
  <2>. QED
    BY <2>1, <2>2, <2>3, <2>4, SameName DEF AllSettled
<1>8. ASSUME NEW y \in rows' PROVE Kept(y) /\ (y.of = "perms" => y \in rows)
  <2>1. CASE y \in rows
    BY <2>1 DEF Kept
  <2>2. ASSUME NEW z \in all, y = [z EXCEPT !.name = x.name, !.pw = q]
        PROVE  Kept(y) /\ y.of # "perms"
    <3>1. z \in rows /\ z \in Rows /\ z.of = "users"
      BY <1>2, <1>6
    <3>2. Key(y) = Key(z) /\ y.name = x.name /\ y.member = z.member /\ y.of = z.of
      BY <2>2, <3>1 DEF Rows, Key
    <3>. QED
      BY <1>7, <3>1, <3>2 DEF Kept
  <2>. QED
    BY <2>1, <2>2 DEF Save, Stores
<1>9. OneEach(rows')
  <2>1. OneKey(rows') /\ OneEach(rows)
    BY DEF IInv, Locks, AllSettled, OneKey
  <2>2. \A y \in rows' : \E z \in rows : Key(z) = Key(y) /\ z.name = y.name /\ z.member = y.member
    BY <1>8 DEF Kept
  <2>. QED
    BY <2>1, <2>2, EachKept
<1>. QED
  BY <1>1, <1>3, <1>4, <1>5, <1>8, <1>9, WritesApart

LEMMA RegisterSettled ==
    ASSUME IInv, IInv', Steady, AllSettled, MakersStay, NEW q \in Requests, Register(q) PROVE AllSettled'
<1>1. Beside(q) /\ UNCHANGED <<op, given>> /\ Active(q)
  BY StepBeside DEF Step
<1>2. pc \in [Requests -> Labels] /\ rows \subseteq Rows
  BY DEF IInv, Plain
<1>3. ~Is(q, {"upgrade", "roles"}) /\ Is(q, {"discord"}) /\ ~Is(q, Creating) /\ Registering(q)
  BY <1>1, PlaceApart DEF Register, AllSettled, Settled, Is, Creating
<1>4. pc'[q] = "done" /\ UNCHANGED <<my, tx>>
  BY <1>2 DEF Register, Goto, Stores
<1>. DEFINE n == Row(q, "discord", op[q].member, op[q].user, None)
<1>5. rows' = rows \union {n}
  BY DEF Register, Stores
<1>6. /\ n.of = "discord" /\ n.by = q /\ n.for = op[q].member /\ n.member = op[q].member
      /\ n.name = op[q].user
  BY DEF Row
<1>7. OneEach(rows')
  BY <1>3, <1>5, <1>6, EachAdded DEF AllSettled, Registering, Register
<1>8. \A y \in rows' : Kept(y) \/ Anew(q, y)
  BY <1>1, <1>3, <1>5, <1>6 DEF Kept, Anew, Made, Is, Active
<1>9. Registering(q)'
  BY <1>4 DEF Registering
<1>. QED
  BY <1>1, <1>3, <1>4, <1>5, <1>6, <1>7, <1>8, <1>9, WritesApart

-----------------------------------------------------------------------------
(* Requests that end, and one record each *)

\* Rows go, and requests come to their end, or to the mail they send.
LEMMA LessSettled ==
    ASSUME IInv, AllSettled, UNCHANGED <<op, my, given>>,
           \A y \in rows' : y \in rows,
           \A r \in Requests :
              \/ pc'[r] = pc[r] /\ tx'[r] = tx[r]
              \/ /\ Active(r) /\ pc'[r] \in Ended \union {"mail"} /\ tx'[r] = NoTx
                 /\ Is(r, {"roles"}) => pc'[r] \in Ended
    PROVE  AllSettled'
<1>1. Forth /\ MakersStay /\ \A r \in Requests : Active(r)' => Active(r)
  BY DEF Forth, MakersStay, Makes, Is, Active, Ended
<1>2. \A v : Seen(v)' => Seen(v)
  <2>. SUFFICES ASSUME NEW v, NEW r \in Requests,
                       \/ v \in tx'[r].in
                       \/ pc'[r] # "idle" /\ v \in my'[r].todo
                       \/ pc'[r] = "save" /\ v = my'[r].found
                PROVE  Seen(v)
    BY DEF Seen
  <2>1. CASE pc'[r] = pc[r] /\ tx'[r] = tx[r]
    BY <2>1 DEF Seen
  <2>2. CASE Active(r) /\ pc'[r] \in Ended \union {"mail"} /\ tx'[r] = NoTx
    BY <2>2 DEF Seen, Active, NoTx, Ended
  <2>. QED
    BY <2>1, <2>2
<1>3. Traced'
  BY <1>1, <1>2, OriginStays, HeirStays DEF AllSettled, Traced
<1>4. OneName' /\ SeedNames'
  BY <1>2 DEF AllSettled, OneName, SeedNames
<1>5. OneEach(rows')
  BY DEF AllSettled, OneEach
<1>6. Separate'
  BY <1>1, SeparateStays DEF AllSettled
<1>7. OneLock'
  <2>1. \A r \in Requests : tx'[r].whole \subseteq tx[r].whole
    BY DEF NoTx
  <2>. QED
    BY <2>1 DEF AllSettled, OneLock
<1>8. ASSUME NEW r \in Requests PROVE Settled(r)'
  <2>1. Settled(r)
    BY DEF AllSettled
  <2>2. /\ Upgrader(r)' => Upgrader(r)
        /\ Is(r, Creating)' <=> Is(r, Creating)
        /\ Is(r, {"roles"})' <=> Is(r, {"roles"})
    BY DEF Upgrader, Is, Active
  <2>3. /\ pc'[r] = pc[r] => (Active(r)' <=> Active(r))
        /\ pc'[r] \in Ended => ~Active(r)'
        /\ pc'[r] # "idle" => op[r] \in Given.menu
    BY <2>1 DEF Active, Settled
  <2>4. Upgrader(r)' => HandingOn(r)'
    <3>. SUFFICES ASSUME HandingOn(r) PROVE HandingOn(r)'
      BY <2>1, <2>2 DEF Settled
    <3>1. tx'[r].in \subseteq tx[r].in
      BY DEF NoTx
    <3>2. \A x \in OfHeir(r)' : x \in OfHeir(r)
      BY <3>1 DEF OfHeir
    <3>3. pc'[r] \in {"find", "start", "erase", "finds"} => pc'[r] = pc[r]
      BY DEF Ended
    <3>. QED
      BY <3>1, <3>2, <3>3 DEF HandingOn
  <2>5. CASE pc'[r] = pc[r] /\ tx'[r] = tx[r]
    <3>1. MakingFor(r) => MakingFor(r)'
      BY <2>5 DEF MakingFor
    <3>2. Registering(r) => Registering(r)'
      BY <2>5 DEF Registering
    <3>3. Ruling(r) => Ruling(r)'
      BY <2>5 DEF Ruling, OneEach
    <3>. QED
      BY <2>1, <2>2, <2>3, <2>4, <2>5, <3>1, <3>2, <3>3 DEF Settled, Given
  <2>6. CASE /\ Active(r) /\ pc'[r] \in Ended \union {"mail"} /\ tx'[r] = NoTx
             /\ Is(r, {"roles"}) => pc'[r] \in Ended
    <3>1. MakingFor(r) => MakingFor(r)'
      BY <2>6 DEF MakingFor, Ended
    <3>2. Registering(r)'
      BY <2>6 DEF Registering, Ended
    <3>3. "perms" \notin tx'[r].whole
      BY <2>6 DEF NoTx
    <3>. QED
      BY <2>1, <2>2, <2>3, <2>4, <2>6, <3>1, <3>2, <3>3 DEF Settled, Given
  <2>. QED
    BY <2>5, <2>6
<1>. QED
  BY <1>3, <1>4, <1>5, <1>6, <1>7, <1>8 DEF AllSettled, OneEach, Same

LEMMA FailSettled ==
    ASSUME IInv, AllSettled, NEW q \in Requests, Fail(q) PROVE AllSettled'
<1>1. pc \in [Requests -> Labels] /\ tx \in [Requests -> Txs]
  BY DEF IInv, Plain
<1>2. UNCHANGED <<rows, op, my, given>> /\ tx' = [tx EXCEPT ![q] = NoTx]
  BY DEF Fail, Rollback
<1>3. \A r \in Requests \ {q} : pc'[r] = pc[r] /\ tx'[r] = tx[r]
  BY <1>1 DEF Fail, Rollback, Goto
<1>4. Active(q) /\ tx'[q] = NoTx
  BY <1>1 DEF Fail, Rollback, Active, Ended, Making
<1>5. pc'[q] \in {"mail", "done", "failed"} /\ (Is(q, {"roles"}) => pc'[q] # "mail")
  BY <1>1 DEF Fail, Goto, After, Is
<1>6. pc'[q] \in Ended \union {"mail"} /\ (Is(q, {"roles"}) => pc'[q] \in Ended)
  BY <1>5 DEF Ended
<1>. QED
  BY <1>2, <1>3, <1>4, <1>6, LessSettled

LEMMA CrashSettled ==
    ASSUME IInv, AllSettled, NEW q \in Requests, Crash(q) PROVE AllSettled'
<1>1. UNCHANGED <<rows, op, my, given>> /\ Active(q)
  BY DEF Crash, Active, Streamed, Ended
<1>2. PICK others \in SUBSET {s \in Requests : Active(s)} :
         /\ pc' = [s \in Requests |-> IF s \in others \union {q} THEN "lost" ELSE pc[s]]
         /\ tx' = [s \in Requests |-> IF s \in others \union {q} THEN NoTx ELSE tx[s]]
  BY DEF Crash
<1>3. "lost" \in Ended
  BY DEF Ended
<1>4. ASSUME NEW r \in Requests
      PROVE  \/ pc'[r] = pc[r] /\ tx'[r] = tx[r]
             \/ Active(r) /\ pc'[r] = "lost" /\ tx'[r] = NoTx
  BY <1>1, <1>2
<1>. QED
  BY <1>1, <1>3, <1>4, LessSettled

LEMMA LapseSettled == ASSUME IInv, AllSettled, Lapse PROVE AllSettled'
BY LessSettled DEF Lapse

LEMMA StutterSettled == ASSUME IInv, AllSettled, UNCHANGED vars PROVE AllSettled'
BY LessSettled DEF vars

-----------------------------------------------------------------------------
(* Upgrades, and one record each *)

LEMMA UpgradeSettled ==
    ASSUME IInv, AllSettled, NEW q \in Requests, UNCHANGED <<op, given>>,
           Active(q), Is(q, {"upgrade"}), HandingOn(q)', "perms" \notin tx'[q].whole,
           pc'[q] # "register"
    PROVE  Settled(q)'
<1>1. op[q] \in Given.menu
  BY DEF AllSettled, Settled, Active
<1>2. ~Is(q, Creating)' /\ ~Is(q, {"roles"})'
  BY DEF Is, Creating
<1>. QED
  BY <1>1, <1>2 DEF Settled, Registering, Given

\* Nothing more is to be handed on, or has been.
LEMMA HandsLess ==
    ASSUME NEW q \in Requests, HandingOn(q), UNCHANGED op, my'[q].member = my[q].member,
           my'[q].todo \subseteq my[q].todo, tx'[q].in \subseteq tx[q].in,
           \A y \in rows' : y.of \in Owned => y \in rows \/ y \in tx[q].in,
           pc'[q] \in {"find", "start", "erase", "finds"} =>
              pc[q] \in {"find", "start", "erase", "finds"}
    PROVE  HandingOn(q)'
<1>1. \A x \in OfHeir(q)' : x.of \in Owned => x \in OfHeir(q)
  BY DEF OfHeir
<1>2. \A x, y \in OfHeir(q)' : x.of \in Owned /\ x.of = y.of => Key(x) = Key(y)
  BY <1>1 DEF HandingOn
<1>. QED
  BY <1>2 DEF HandingOn

LEMMA QuietHanding ==
    ASSUME IInv, IInv', Steady, AllSettled, MakersStay, NEW q \in Requests, Beside(q),
           UNCHANGED <<op, given>>, Active(q), Is(q, {"upgrade"}),
           \A y \in rows' : y.of \in Owned => y \in rows,
           my'[q].member = my[q].member, my'[q].todo \subseteq my[q].todo,
           tx'[q].in \subseteq tx[q].in,
           tx'[q].whole \in {tx[q].whole, {}, {"people"}},
           pc'[q] \notin {"idle", "save", "register"},
           pc'[q] \in {"find", "start", "erase", "finds"} =>
              pc[q] \in {"find", "start", "erase", "finds"}
    PROVE  AllSettled'
<1>1. HandingOn(q)' /\ pc[q] # "idle"
  BY HandsLess DEF AllSettled, Settled, Upgrader, Active
<1>2. "perms" \notin tx'[q].whole
  BY DEF AllSettled, Settled, Is
<1>3. Settled(q)'
  BY <1>1, <1>2, UpgradeSettled
<1>. QED
  BY <1>1, <1>2, <1>3, SeenAre, QuietSettled

LEMMA BeginsSettled ==
    ASSUME IInv, IInv', Steady, AllSettled, MakersStay, NEW q \in Requests, Is(q, {"upgrade"}),
           Find(q) \/ Start(q) \/ Erase(q) \/ Replaced(q)
    PROVE  AllSettled'
<1>1. Beside(q) /\ UNCHANGED <<op, given>> /\ Active(q)
  BY StepBeside DEF Step
<1>2. /\ pc \in [Requests -> Labels] /\ my \in [Requests -> Mine \union {None}]
      /\ my[q] \in Mine /\ tx \in [Requests -> Txs]
  BY AtPlace, <1>1 DEF IInv, Plain, Active
<1>3. my'[q].todo = my[q].todo /\ my'[q].member = my[q].member
  BY <1>2 DEF Find, Start, Erase, Replaced, Reads, Answers, Keeps, Mine
<1>4. \A y \in rows' : y \in rows
  BY DEF Find, Start, Erase, Replaced, Reads, Answers, Stores
<1>5. tx'[q].in = tx[q].in /\ tx'[q].whole \in {tx[q].whole, {"people"}}
  BY <1>2 DEF Find, Start, Erase, Replaced, Reads, Answers, Stores, Txs
<1>6. /\ pc'[q] \notin {"idle", "save", "register"}
      /\ pc'[q] \in {"find", "start", "erase", "finds"} =>
            pc[q] \in {"find", "start", "erase", "finds"}
  BY <1>2 DEF Find, Start, Erase, Replaced, Reads, Answers, Goto
<1>. QED
  BY <1>1, <1>3, <1>4, <1>5, <1>6, QuietHanding

LEMMA UpgradeFailsSettled ==
    ASSUME IInv, IInv', Steady, AllSettled, MakersStay, NEW q \in Requests, UpgradeFails(q)
    PROVE  AllSettled'
<1>1. /\ pc \in [Requests -> Labels] /\ my \in [Requests -> Mine \union {None}]
      /\ tx \in [Requests -> Txs]
  BY DEF IInv, Plain
<1>2. UNCHANGED <<rows, op, given>> /\ tx' = [tx EXCEPT ![q] = NoTx]
  BY DEF UpgradeFails, Rollback
<1>3. Active(q)
  BY DEF UpgradeFails, Active, Ended
<1>4. my[q] \in Mine
  BY <1>3, AtPlace DEF Active
<1>5. Is(q, {"upgrade"})
  BY AtPlace, DoersAre DEF UpgradeFails, Is, Ended
<1>6. Beside(q)
  BY <1>1, <1>2 DEF UpgradeFails, Goto, Keeps, Beside
<1>7. my'[q].todo \subseteq my[q].todo /\ my'[q].member = my[q].member
  BY <1>1, <1>4 DEF UpgradeFails, Keeps, Mine
<1>8. /\ pc'[q] \notin {"idle", "save", "register"}
      /\ pc'[q] \in {"find", "start", "erase", "finds"} =>
            pc[q] \in {"find", "start", "erase", "finds"}
  BY <1>1 DEF UpgradeFails, Goto
<1>9. tx'[q].in = {} /\ tx'[q].whole = {}
  BY <1>1, <1>2 DEF NoTx
<1>. QED
  BY <1>2, <1>3, <1>5, <1>6, <1>7, <1>8, <1>9, QuietHanding

\* Nobody whose rows are to be handed on has two of a kind, and the heir has none.
LEMMA FindsSettled ==
    ASSUME IInv, IInv', Steady, AllSettled, MakersStay, NEW q \in Requests, Finds(q) PROVE AllSettled'
<1>1. Beside(q) /\ UNCHANGED <<op, given>> /\ Active(q)
  BY StepBeside DEF Step
<1>2. /\ pc \in [Requests -> Labels] /\ my \in [Requests -> Mine \union {None}]
      /\ my[q] \in Mine /\ rows \subseteq Rows
  BY AtPlace, <1>1 DEF IInv, Plain, Active
<1>3. Is(q, {"upgrade"})
  BY AtPlace, DoersAre DEF Finds, Is, Ended
<1>4. HandingOn(q) /\ pc[q] = "finds" /\ "perms" \notin tx[q].whole
  BY <1>1, <1>3 DEF AllSettled, Settled, Upgrader, Active, Finds, Is
<1>5. UNCHANGED <<rows, tx>> /\ pc'[q] = "replace"
  BY <1>2 DEF Finds, Reads, Goto
<1>6. /\ my'[q].member = my[q].member
      /\ my'[q].todo = UNION {About(q, t, my[q].member) : t \in Updated}
  BY <1>2 DEF Finds, Reads, Keeps, Mine
<1>7. tx[q].in = {} /\ View(q) \subseteq rows
      /\ \A x \in rows : x.of \in Owned => x.member # op[q].to
  BY <1>4 DEF HandingOn, View
<1>8. \A x \in my'[q].todo : x \in rows /\ x.member = op[q].member
  BY <1>4, <1>6, <1>7 DEF About, HandingOn
<1>9. \A x \in OfHeir(q)' : x.of \in Owned => x \in my'[q].todo
  BY <1>1, <1>5, <1>7 DEF OfHeir
<1>10. ASSUME NEW x \in OfHeir(q)', NEW y \in OfHeir(q)', x.of \in Owned, x.of = y.of
       PROVE  Key(x) = Key(y)
  <2>1. x \in rows /\ y \in rows /\ x.member = y.member
    BY <1>8, <1>9, <1>10
  <2>2. x = y
    BY <1>10, <2>1 DEF AllSettled, OneEach, Same
  <2>. QED
    BY <2>2
<1>11. HandingOn(q)'
  BY <1>1, <1>4, <1>5, <1>6, <1>7, <1>8, <1>10 DEF HandingOn
<1>12. Settled(q)'
  BY <1>1, <1>3, <1>4, <1>5, <1>11, UpgradeSettled
<1>. QED
  BY <1>1, <1>4, <1>5, <1>8, <1>12, SeenAre, QuietSettled

\* What stands where a row was read has the name that this one had.
LEMMA ReplaceSettled ==
    ASSUME IInv, IInv', Steady, AllSettled, MakersStay, NEW q \in Requests, Replace(q) PROVE AllSettled'
<1>1. Beside(q) /\ UNCHANGED <<op, given>> /\ Active(q)
  BY StepBeside DEF Step
<1>2. /\ pc \in [Requests -> Labels] /\ my \in [Requests -> Mine \union {None}]
      /\ my[q] \in Mine /\ rows \subseteq Rows /\ tx \in [Requests -> Txs]
  BY AtPlace, <1>1 DEF IInv, Plain, Active
<1>3. pc[q] = "replace" /\ Is(q, {"upgrade"}) /\ Upgrader(q)
  BY <1>1, AtPlace, DoersAre DEF Replace, Is, Ended, Upgrader, Active
<1>4. HandingOn(q) /\ "perms" \notin tx[q].whole
  BY <1>3 DEF AllSettled, Settled, Is
<1>5. PICK x \in my[q].todo :
         LET now == {y \in View(q) : Key(y) = Key(x)} IN
         /\ Unlocked(q, x.of, now)
         /\ Writes(q, now, IF now = {} THEN {} ELSE {[x EXCEPT !.member = op[q].to]})
         /\ Keeps(q, [my[q] EXCEPT !.todo = @ \ {x}])
  BY DEF Replace
<1>. DEFINE now == {y \in View(q) : Key(y) = Key(x)}
            new == [x EXCEPT !.member = op[q].to]
<1>6. pc'[q] = "replace"
  BY <1>3 DEF Replace
<1>7. my'[q].todo = my[q].todo \ {x} /\ my'[q].member = my[q].member
  BY <1>2, <1>5 DEF Keeps, Mine
<1>8. x \in Rows /\ x.of \in Owned /\ Seen(x) /\ x.member = op[q].member
  <2>1. x.of \in Owned
    BY <1>3, AtPlace, OwnedAre
  <2>2. x \in Rows
    BY <1>2 DEF Mine
  <2>. QED
    BY <1>3, <1>4, <2>1, <2>2, SeenAre DEF HandingOn
<1>9. /\ Key(new) = Key(x) /\ new.name = x.name /\ new.of = x.of
      /\ new.member = op[q].to
  BY <1>8 DEF Rows, Key
<1>10. x \in OfHeir(q) /\ Comes(q, new)
  BY <1>3, <1>8, <1>9 DEF OfHeir, Comes
<1>11. /\ tx'[q].whole = tx[q].whole
       /\ \A y \in tx'[q].in : y \in tx[q].in \/ y = new
       /\ \A y \in rows' : y \in rows \/ y = new
  BY <1>2, <1>5 DEF Writes, Stores, Txs
<1>12. HandingOn(q)'
  <2>1. \A y \in tx'[q].in : y.member = op[q].to
    BY <1>4, <1>9, <1>11 DEF HandingOn
  <2>2. ASSUME NEW y \in OfHeir(q)', y.of \in Owned
        PROVE  \E z \in OfHeir(q) : z.of = y.of /\ Key(z) = Key(y)
    <3>1. y \in my[q].todo \/ y = new
          \/ (y \in rows \union tx[q].in /\ y.member = op[q].to)
      BY <1>1, <1>7, <1>11 DEF OfHeir
    <3>. QED
      BY <1>9, <1>10, <3>1 DEF OfHeir
  <2>3. ASSUME NEW y \in OfHeir(q)', NEW z \in OfHeir(q)', y.of \in Owned, y.of = z.of
        PROVE  Key(y) = Key(z)
    <3>1. PICK a \in OfHeir(q) : a.of = y.of /\ Key(a) = Key(y)
      BY <2>2, <2>3
    <3>2. PICK b \in OfHeir(q) : b.of = z.of /\ Key(b) = Key(z)
      BY <2>2, <2>3
    <3>. QED
      BY <1>4, <2>3, <3>1, <3>2 DEF HandingOn
  <2>. QED
    BY <1>1, <1>4, <1>6, <1>7, <2>1, <2>3 DEF HandingOn
<1>13. Settled(q)'
  BY <1>1, <1>3, <1>4, <1>6, <1>11, <1>12, UpgradeSettled
<1>14. CASE tx[q].open
  <2>1. UNCHANGED rows
    BY <1>5, <1>14 DEF Writes
  <2>2. \A y \in rows' : Kept(y)
    BY <2>1 DEF Kept
  <2>3. RowsFrom(q) /\ PermsStay(q) /\ OneEach(rows')
    BY <2>1, <2>2 DEF RowsFrom, PermsStay, AllSettled
  <2>4. SeenFrom(q)
    BY <1>1, <1>3, <1>6, <1>7, <1>10, <1>11, <2>2, SeenAre, SeenStep
  <2>. QED
    BY <1>1, <1>6, <1>11, <1>13, <2>3, <2>4, SettledStep
<1>15. CASE ~tx[q].open
  <2>1. UNCHANGED tx
    BY <1>5, <1>15 DEF Writes, Stores
  <2>2. ASSUME NEW y \in rows' PROVE Kept(y) \/ (y = new /\ Passed(q, y))
    <3>1. CASE y \in rows
      BY <3>1 DEF Kept
    <3>2. CASE y \notin rows
      <4>1. now # {} /\ y = new
        BY <1>5, <1>11, <1>15, <3>2 DEF Writes, Stores
      <4>2. PICK z \in now : TRUE
        BY <4>1
      <4>3. z \in rows /\ Key(z) = Key(x)
        BY <1>15, ViewOK, <4>2 DEF IInv, Locks, Holds
      <4>4. z.name = x.name
        BY <1>8, <4>3, SeenAre DEF AllSettled, OneName
      <4>. QED
        BY <1>3, <1>9, <4>1, <4>3, <4>4 DEF Passed
    <3>. QED
      BY <3>1, <3>2
  <2>3. RowsFrom(q)
    BY <2>2 DEF RowsFrom
  <2>4. PermsStay(q)
    <3>. SUFFICES ASSUME NEW r \in Requests \ {q}, "perms" \in tx[r].whole,
                         NEW y \in rows', y.of = "perms"
                  PROVE  y \in rows
      BY DEF PermsStay
    <3>1. x.of # "perms"
      BY <1>5 DEF Unlocked
    <3>. QED
      BY <1>9, <1>11, <3>1
  <2>5. SeenFrom(q)
    BY <1>1, <1>3, <1>6, <1>7, <1>10, <2>1, <2>2, SeenAre, SeenStep
  <2>6. OneEach(rows')
    <3>1. OneKey(rows') /\ OneEach(rows)
      BY DEF IInv, Locks, OneKey, AllSettled
    <3>2. ASSUME NEW y \in rows', NEW z \in rows', y.of \in Owned, y.of = z.of,
                 y.member = op[q].to, z.member = op[q].to
          PROVE  Key(y) = Key(z)
      <4>1. y \in OfHeir(q)' /\ z \in OfHeir(q)'
        BY <1>1, <3>2 DEF OfHeir
      <4>. QED
        BY <1>12, <3>2, <4>1 DEF HandingOn
    <3>3. \A y, z \in rows' : /\ y.of \in Owned /\ y.of = z.of
                             /\ y.member = op[q].to /\ z.member = op[q].to => Key(y) = Key(z)
      BY <3>2
    <3>4. \A y \in rows' : y.of \in Owned => Kept(y) \/ Passed(q, y)
      BY <2>2
    <3>. QED
      BY <3>1, <3>3, <3>4, EachPassed
  <2>. QED
    BY <1>1, <1>6, <1>11, <1>13, <2>3, <2>4, <2>5, <2>6, SettledStep
<1>. QED
  BY <1>2, <1>14, <1>15

\* What a transaction has put in stands where something was taken out.
LEMMA CommitUpgradeSettled ==
    ASSUME IInv, IInv', Steady, AllSettled, MakersStay, NEW q \in Requests, Commit(q), Is(q, {"upgrade"})
    PROVE  AllSettled'
<1>1. Beside(q) /\ UNCHANGED <<op, given>> /\ Active(q)
  BY StepBeside DEF Step
<1>2. /\ pc \in [Requests -> Labels] /\ tx \in [Requests -> Txs]
  BY DEF IInv, Plain
<1>3. UNCHANGED my /\ pc'[q] = "done" /\ tx'[q] = NoTx
  BY <1>2 DEF Commit, Goto
<1>4. Upgrader(q) /\ HandingOn(q) /\ Holds(q)
  BY <1>1 DEF Upgrader, Active, AllSettled, Settled, IInv, Locks
<1>5. tx'[q].in = {} /\ tx'[q].whole = {}
  BY <1>3 DEF NoTx
<1>6. CASE UNCHANGED rows
  BY <1>1, <1>3, <1>5, <1>6, QuietHanding
<1>7. CASE rows' = View(q)
  <2>1. \A y \in rows' : y \in rows \/ y \in tx[q].in
    BY <1>7 DEF View
  <2>2. HandingOn(q)'
    BY <1>1, <1>3, <1>4, <1>5, <2>1, HandsLess
  <2>3. ASSUME NEW y \in tx[q].in, y.of \in Owned
        PROVE  /\ Passed(q, y)
               /\ \E x \in tx[q].out : Key(x) = Key(y) /\ x.of = y.of
    <3>1. Seen(y) /\ y.member = op[q].to
      BY <1>4, SeenAre DEF HandingOn
    <3>2. y.by # q
      <4>1. Origin(y)
        BY <2>3, <3>1 DEF AllSettled, Traced
      <4>2. \A t \in First : \A x \in t : x.by \notin Requests
        BY AccountsOK
      <4>3. Made(y) => op[y.by].name # "upgrade"
        BY <2>3 DEF Made, Makes, Is, Owned, Creating
      <4>. QED
        BY <4>1, <4>2, <4>3, KeyOf DEF Origin, Is
    <3>3. PICK x \in tx[q].out : Key(x) = Key(y)
      BY <1>4, <3>2 DEF Holds
    <3>4. x \in rows /\ x.of = y.of
      BY <1>4, <3>3, KeyOf DEF Holds
    <3>5. x.name = y.name
      BY <2>3, <3>1, <3>3, <3>4, SeenAre DEF AllSettled, OneName
    <3>. QED
      BY <1>4, <3>1, <3>3, <3>4, <3>5 DEF Passed
  <2>4. \A y \in rows' : y.of \in Owned => Kept(y) \/ Passed(q, y)
    BY <2>1, <2>3 DEF Kept
  <2>5. RowsFrom(q)
    BY <2>4 DEF RowsFrom
  <2>6. PermsStay(q)
    <3>. SUFFICES ASSUME NEW r \in Requests \ {q}, "perms" \in tx[r].whole,
                         NEW y \in tx[q].in, y.of = "perms"
                  PROVE  FALSE
      BY <2>1 DEF PermsStay
    <3>1. PICK x \in tx[q].out : x.of = "perms"
      BY <2>3 DEF Owned
    <3>2. x \in rows
      BY <1>4 DEF Holds
    <3>3. Settled(r) /\ pc[r] \in {"set", "put", "commit"} /\ Is(r, {"roles"})
      BY DEF AllSettled, Settled
    <3>4. x \in tx[r].out
      BY <3>1, <3>2, <3>3 DEF Settled, Ruling, Active, Ended
    <3>. QED
      BY <3>4 DEF IInv, Locks
  <2>7. \A v \in rows' : v.of \in Owned => Kept(v) \/ Comes(q, v) \/ Anew(q, v)
    BY <2>1, SeenAre DEF Kept, Comes
  <2>8. SeenFrom(q)
    BY <1>1, <1>3, <1>5, <2>7, SeenAre, SeenStep DEF Active
  <2>9. OneEach(rows')
    <3>1. OneKey(rows') /\ OneEach(rows)
      BY DEF IInv, Locks, OneKey, AllSettled
    <3>2. ASSUME NEW y \in rows', NEW z \in rows', y.of \in Owned, y.of = z.of,
                 y.member = op[q].to, z.member = op[q].to
          PROVE  Key(y) = Key(z)
      <4>1. y \in OfHeir(q)' /\ z \in OfHeir(q)'
        BY <1>1, <3>2 DEF OfHeir
      <4>. QED
        BY <2>2, <3>2, <4>1 DEF HandingOn
    <3>3. \A y, z \in rows' : /\ y.of \in Owned /\ y.of = z.of
                             /\ y.member = op[q].to /\ z.member = op[q].to => Key(y) = Key(z)
      BY <3>2
    <3>. QED
      BY <2>4, <3>1, <3>3, EachPassed
  <2>10. Settled(q)'
    BY <1>1, <1>3, <1>5, <2>2, UpgradeSettled
  <2>. QED
    BY <1>1, <1>3, <1>5, <2>5, <2>6, <2>8, <2>9, <2>10, SettledStep
<1>. QED
  BY <1>6, <1>7 DEF Commit

-----------------------------------------------------------------------------
(* Permissions, and one record each *)

LEMMA RolesSettled ==
    ASSUME IInv, AllSettled, NEW q \in Requests, UNCHANGED <<op, given>>,
           Active(q), Is(q, {"roles"}), Active(q)' => Ruling(q)',
           "perms" \in tx'[q].whole => pc'[q] \in {"set", "put", "commit"},
           pc'[q] # "register"
    PROVE  Settled(q)'
<1>1. op[q] \in Given.menu
  BY DEF AllSettled, Settled, Active
<1>2. ~Is(q, Creating)' /\ ~Is(q, {"upgrade"})' /\ Is(q, {"roles"})'
  BY DEF Is, Creating
<1>. QED
  BY <1>1, <1>2 DEF Settled, Registering, Given, Upgrader

LEMMA RuledOut ==
    ASSUME IInv, Steady, AllSettled, NEW q \in Requests, pc[q] \in {"clear", "set", "put"}
    PROVE  /\ Active(q) /\ Is(q, {"roles"}) /\ Ruling(q) /\ ~Fails(q)
           /\ \A x \in View(q) : pc[q] # "clear" /\ x.of = "perms" => x \in tx[q].in
<1>1. Active(q) /\ Is(q, {"roles"})
  BY AtPlace, DoersAre DEF Active, Is, Ended
<1>2. Ruling(q)
  BY <1>1 DEF AllSettled, Settled
<1>3. ~Fails(q)
  BY DEF Fails, Steady
<1>. QED
  BY <1>1, <1>2, <1>3 DEF Ruling, View

LEMMA StartRolesSettled ==
    ASSUME IInv, IInv', Steady, AllSettled, MakersStay, NEW q \in Requests, Start(q), Is(q, {"roles"})
    PROVE  AllSettled'
<1>1. Beside(q) /\ UNCHANGED <<op, given>> /\ Active(q)
  BY StepBeside DEF Step
<1>2. pc \in [Requests -> Labels] /\ tx \in [Requests -> Txs]
  BY DEF IInv, Plain
<1>3. /\ UNCHANGED <<rows, my>> /\ pc'[q] = "clear"
      /\ tx'[q].in = tx[q].in /\ tx'[q].whole = tx[q].whole
  BY <1>2 DEF Start, Goto, Txs
<1>4. "perms" \notin tx[q].whole /\ Ruling(q)
  BY <1>1 DEF Start, AllSettled, Settled
<1>5. Ruling(q)'
  BY <1>1, <1>3, <1>4 DEF Ruling
<1>6. Settled(q)'
  BY <1>1, <1>3, <1>4, <1>5, RolesSettled
<1>. QED
  BY <1>1, <1>3, <1>6, SeenAre, QuietSettled DEF Active

LEMMA ClearSettled ==
    ASSUME IInv, IInv', Steady, AllSettled, MakersStay, NEW q \in Requests, Clear(q) PROVE AllSettled'
<1>1. Beside(q) /\ UNCHANGED <<op, given>> /\ Active(q)
  BY StepBeside DEF Step
<1>2. pc \in [Requests -> Labels] /\ tx \in [Requests -> Txs]
  BY DEF IInv, Plain
<1>3. pc[q] = "clear" /\ Is(q, {"roles"}) /\ Ruling(q) /\ ~Fails(q)
  BY RuledOut DEF Clear
<1>4. tx[q].open /\ tx[q].in = {}
  BY <1>3 DEF IInv, Control, Has, Unwritten
<1>5. /\ Scans(q, "perms")
      /\ tx' = [tx EXCEPT ![q].out = {x \in rows : x.of = "perms"}, ![q].whole = {"perms"}]
      /\ UNCHANGED <<rows, my>> /\ pc'[q] = "set"
  BY <1>2, <1>3 DEF Clear, Goto
<1>6. /\ tx'[q].open /\ tx'[q].in = {} /\ tx'[q].whole = {"perms"}
      /\ tx'[q].out = {x \in rows : x.of = "perms"}
  BY <1>2, <1>4, <1>5 DEF Txs
<1>7. Ruling(q)'
  BY <1>1, <1>3, <1>5, <1>6 DEF Ruling, OneEach
<1>8. Settled(q)'
  BY <1>1, <1>3, <1>5, <1>7, RolesSettled
<1>9. \A r \in Requests \ {q} : "perms" \notin tx[r].whole
  BY <1>5 DEF Scans, Unlocked
<1>. QED
  BY <1>1, <1>5, <1>6, <1>8, <1>9, SeenAre, QuietSettled DEF Active

LEMMA LookSettled ==
    ASSUME IInv, IInv', Steady, AllSettled, MakersStay, NEW q \in Requests, Look(q) PROVE AllSettled'
<1>1. Beside(q) /\ UNCHANGED <<op, given>> /\ Active(q)
  BY StepBeside DEF Step
<1>2. /\ pc \in [Requests -> Labels] /\ my \in [Requests -> Mine \union {None}]
      /\ my[q] \in Mine /\ tx[q] \in Txs
  BY AtPlace, <1>1 DEF IInv, Plain, Active
<1>3. /\ pc[q] = "set" /\ Is(q, {"roles"}) /\ Ruling(q) /\ ~Fails(q)
      /\ \A x \in View(q) : x.of = "perms" => x \in tx[q].in
  BY RuledOut DEF Look
<1>4. PICK m \in my[q].left :
         Reads(q, "put", [my[q] EXCEPT !.member = m, !.found = Only(About(q, "perms", m))])
  BY <1>3 DEF Look
<1>5. /\ UNCHANGED <<rows, tx>> /\ pc'[q] = "put"
      /\ my'[q].todo = my[q].todo /\ my'[q].left = my[q].left
      /\ my'[q].member = m /\ my'[q].found = Only(About(q, "perms", m))
  BY <1>2, <1>4 DEF Reads, Goto, Keeps, Mine
<1>6. ASSUME Only(About(q, "perms", m)) = None, NEW x \in tx[q].in, x.member = m PROVE FALSE
  <2>1. x \in About(q, "perms", m)
    BY <1>3, <1>6 DEF About, View, Ruling
  <2>2. ASSUME NEW y \in About(q, "perms", m) PROVE y = x
    <3>1. y \in tx[q].in /\ y.of = "perms" /\ y.member = m
      BY <1>3, <2>2 DEF About
    <3>. QED
      BY <1>3, <1>6, <3>1 DEF Ruling, OneEach, Same, Owned
  <2>3. About(q, "perms", m) = {x}
    BY <2>1, <2>2
  <2>4. Only(About(q, "perms", m)) \in About(q, "perms", m)
    BY <2>1, <2>3 DEF Only
  <2>5. None \notin Rows /\ About(q, "perms", m) \subseteq Rows
    BY NoneApart, AboutOK DEF IInv
  <2>. QED
    BY <1>6, <2>4, <2>5
<1>7. Ruling(q)'
  BY <1>1, <1>3, <1>5, <1>6 DEF Ruling, OneEach
<1>8. Settled(q)'
  BY <1>1, <1>3, <1>5, <1>7, RolesSettled
<1>. QED
  BY <1>1, <1>5, <1>8, SeenAre, QuietSettled DEF Active

LEMMA RolesSetSettled ==
    ASSUME IInv, IInv', Steady, AllSettled, MakersStay, NEW q \in Requests, RolesSet(q) PROVE AllSettled'
<1>1. Beside(q) /\ UNCHANGED <<op, given>> /\ Active(q)
  BY StepBeside DEF Step
<1>2. pc \in [Requests -> Labels]
  BY DEF IInv, Plain
<1>3. pc[q] = "set" /\ Is(q, {"roles"}) /\ Ruling(q)
  BY RuledOut DEF RolesSet
<1>4. UNCHANGED <<rows, my, tx>> /\ pc'[q] = "commit"
  BY <1>2, <1>3 DEF RolesSet, Answers, Goto, Ruling
<1>5. Ruling(q)'
  BY <1>1, <1>3, <1>4 DEF Ruling, OneEach
<1>6. Settled(q)'
  BY <1>1, <1>3, <1>4, <1>5, RolesSettled
<1>. QED
  BY <1>1, <1>4, <1>6, SeenAre, QuietSettled DEF Active

\* Whose permissions were found has them changed, and who has none gets some.
LEMMA SetRoleSettled ==
    ASSUME IInv, IInv', Steady, AllSettled, MakersStay, NEW q \in Requests, SetRole(q) PROVE AllSettled'
<1>1. Beside(q) /\ UNCHANGED <<op, given>> /\ Active(q)
  BY StepBeside DEF Step
<1>2. /\ pc \in [Requests -> Labels] /\ my \in [Requests -> Mine \union {None}]
      /\ my[q] \in Mine /\ tx \in [Requests -> Txs] /\ tx[q].in \subseteq Rows
  BY AtPlace, <1>1 DEF IInv, Plain, Active, Txs
<1>3. /\ pc[q] = "put" /\ Is(q, {"roles"}) /\ Ruling(q) /\ ~Fails(q)
      /\ \A x \in View(q) : x.of = "perms" => x \in tx[q].in
  BY RuledOut DEF SetRole
<1>. DEFINE m == my[q].member
            old == About(q, "perms", m)
            edit == {[x EXCEPT !.pw = q] : x \in old}
            n == Row(q, "perms", m, None, q)
<1>4. m \in my[q].left /\ m \in op[q].list
  BY <1>3 DEF IInv, Control, Has, Ruling
<1>5. /\ pc'[q] = "set" /\ my'[q].todo = my[q].todo
      /\ my'[q].left \subseteq my[q].left
  BY <1>2 DEF SetRole, Goto, Keeps, Mine
<1>6. tx[q].open /\ tx[q].whole = {"perms"}
  BY <1>3 DEF Ruling
<1>7. old \subseteq tx[q].in
  BY <1>3 DEF About
<1>8. \/ Writes(q, old, edit)
      \/ my[q].found = None /\ Writes(q, {}, {n})
  BY <1>3 DEF SetRole
<1>9. /\ UNCHANGED rows /\ tx'[q].open /\ tx'[q].whole = {"perms"}
      /\ tx'[q].out = tx[q].out \/ tx'[q].out = tx[q].out \union (old \intersect rows)
  BY <1>2, <1>6, <1>8 DEF Writes, Txs
<1>10. \A x \in old \intersect rows : x \in tx[q].out /\ x.of = "perms"
  BY <1>3, <1>7 DEF Ruling
<1>11. tx'[q].out = tx[q].out
  BY <1>9, <1>10
<1>12. ASSUME NEW y \in tx'[q].in
       PROVE  \/ \E x \in tx[q].in : /\ Key(x) = Key(y) /\ x.name = y.name
                                     /\ x.member = y.member
              \/ my[q].found = None /\ y = n
  <2>1. CASE y \in tx[q].in
    BY <2>1
  <2>2. ASSUME NEW x \in old, y = [x EXCEPT !.pw = q]
        PROVE  \E z \in tx[q].in : Key(z) = Key(y) /\ z.name = y.name /\ z.member = y.member
    <3>1. x \in Rows /\ x \in tx[q].in
      BY <1>2, <1>7
    <3>2. Key(x) = Key(y) /\ x.name = y.name /\ x.member = y.member
      BY <2>2, <3>1 DEF Rows, Key
    <3>. QED
      BY <3>1, <3>2
  <2>3. y \in tx[q].in \/ y \in edit \/ (my[q].found = None /\ y = n)
    BY <1>2, <1>6, <1>8 DEF Writes, Txs
  <2>. QED
    BY <2>1, <2>2, <2>3
<1>13. /\ n.of = "perms" /\ n.by = q /\ n.for = m /\ n.member = m /\ n.name = None
  BY DEF Row
<1>14. Anew(q, n)
  BY <1>1, <1>3, <1>4, <1>13 DEF Anew, Made, Is, Active
<1>15. \A x \in tx'[q].in : x.of = "perms" /\ x.by = q /\ x.member = x.for /\ x.for \in op[q].list
  BY <1>3, <1>4, <1>12, <1>13, KeyOf DEF Ruling
<1>16. OneEach(tx'[q].in)
  <2>. SUFFICES ASSUME NEW x \in tx'[q].in, NEW y \in tx'[q].in, x.of \in Owned, Same(x, y)
                PROVE  x = y
    BY DEF OneEach
  <2>1. OneKey(tx'[q].in)
    BY DEF IInv, Locks, Holds, OneKey
  <2>2. x.of = "perms" /\ y.of = "perms" /\ x.by = q /\ y.by = q
        /\ x.member = x.for /\ y.member = y.for
    BY <1>15
  <2>3. x.name = None /\ y.name = None
    <3>1. ASSUME NEW z \in tx'[q].in PROVE z.name = None
      <4>1. CASE z = n
        BY <1>13, <4>1
      <4>2. ASSUME NEW a \in tx[q].in, Key(a) = Key(z), a.name = z.name PROVE z.name = None
        <5>1. Origin(a) /\ a.of = "perms" /\ a.by = q
          BY <1>3, SeenAre DEF AllSettled, Traced, Owned, Ruling
        <5>2. \A t \in First : \A x_1 \in t : x_1.by \notin Requests
          BY AccountsOK
        <5>3. Made(a)
          BY <5>1, <5>2, KeyOf DEF Origin
        <5>. QED
          BY <4>2, <5>1, <5>3 DEF Made
      <4>. QED
        BY <1>12, <4>1, <4>2
    <3>. QED
      BY <3>1
  <2>4. x.for = y.for
    BY <2>2, <2>3 DEF Same
  <2>5. Key(x) = Key(y)
    BY <2>2, <2>4 DEF Key
  <2>. QED
    BY <2>1, <2>5 DEF OneKey
<1>17. Ruling(q)'
  <2>1. /\ \A x \in rows' : x.of = "perms" => x \in tx'[q].out
        /\ \A x \in tx'[q].out : x.of = "perms"
    BY <1>3, <1>9, <1>11 DEF Ruling
  <2>2. my'[q].left \subseteq op'[q].list
    BY <1>1, <1>3, <1>5 DEF Ruling
  <2>. QED
    BY <1>1, <1>5, <1>9, <1>15, <1>16, <2>1, <2>2 DEF Ruling, OneEach, Same
<1>18. Settled(q)'
  BY <1>1, <1>3, <1>5, <1>17, RolesSettled
<1>19. SeenFrom(q)
  <2>1. \A y \in tx'[q].in : Comes(q, y) \/ Anew(q, y)
    BY <1>12, <1>14, SeenAre DEF Comes
  <2>2. \A y \in rows' : Kept(y)
    BY <1>9 DEF Kept
  <2>. QED
    BY <1>1, <1>5, <2>1, <2>2, SeenAre, SeenStep DEF Active
<1>20. RowsFrom(q) /\ PermsStay(q) /\ OneEach(rows')
  BY <1>9 DEF RowsFrom, PermsStay, Kept, AllSettled
<1>. QED
  BY <1>1, <1>5, <1>6, <1>18, <1>19, <1>20, SettledStep

LEMMA CommitRolesSettled ==
    ASSUME IInv, IInv', Steady, AllSettled, MakersStay, NEW q \in Requests, Commit(q), Is(q, {"roles"})
    PROVE  AllSettled'
<1>1. Beside(q) /\ UNCHANGED <<op, given>> /\ Active(q)
  BY StepBeside DEF Step
<1>2. /\ pc \in [Requests -> Labels] /\ tx \in [Requests -> Txs]
  BY DEF IInv, Plain
<1>3. UNCHANGED my /\ pc'[q] = "done" /\ tx'[q] = NoTx
  BY <1>2 DEF Commit, Goto
<1>4. Ruling(q) /\ pc[q] = "commit"
  BY <1>1 DEF Commit, AllSettled, Settled
<1>5. tx'[q].in = {} /\ tx'[q].whole = {} /\ ~Active(q)'
  BY <1>3 DEF NoTx, Active, Ended
<1>6. Settled(q)'
  BY <1>1, <1>3, <1>5, RolesSettled
<1>7. CASE UNCHANGED rows
  BY <1>1, <1>3, <1>5, <1>6, <1>7, SeenAre, QuietSettled DEF Active
<1>8. CASE rows' = View(q)
  <2>1. ASSUME NEW y \in rows'
        PROVE  (y \in rows /\ y.of # "perms") \/ (y \in tx[q].in /\ Anew(q, y))
    <3>1. CASE y \in rows /\ y \notin tx[q].out
      BY <1>4, <3>1 DEF Ruling
    <3>2. CASE y \in tx[q].in
      <4>1. y.of = "perms" /\ y.by = q /\ y.member = y.for
        BY <1>4, <3>2 DEF Ruling
      <4>2. Origin(y)
        BY <3>2, <4>1, SeenAre DEF AllSettled, Traced, Owned
      <4>3. \A t \in First : \A x \in t : x.by \notin Requests
        BY AccountsOK
      <4>4. Made(y)
        BY <4>1, <4>2, <4>3, KeyOf DEF Origin
      <4>. QED
        BY <3>2, <4>1, <4>4 DEF Anew
    <3>. QED
      BY <1>8, <3>1, <3>2 DEF View
  <2>2. RowsFrom(q)
    BY <2>1 DEF RowsFrom, Kept
  <2>3. \A r \in Requests \ {q} : "perms" \notin tx[r].whole
    BY <1>4 DEF AllSettled, OneLock, Ruling
  <2>4. PermsStay(q)
    BY <2>3 DEF PermsStay
  <2>5. SeenFrom(q)
    BY <1>1, <1>3, <1>5, <2>1, SeenAre, SeenStep DEF Kept, Active
  <2>6. OneEach(rows')
    <3>. SUFFICES ASSUME NEW x \in rows', NEW y \in rows', x.of \in Owned, Same(x, y)
                  PROVE  x = y
      BY DEF OneEach
    <3>1. x.of = y.of
      BY DEF Same
    <3>2. CASE x.of = "perms"
      <4>1. x \in tx[q].in /\ y \in tx[q].in
        BY <2>1, <3>1, <3>2
      <4>2. OneEach(tx[q].in)
        BY <1>4 DEF Ruling
      <4>. QED
        BY <4>1, <4>2 DEF OneEach
    <3>3. CASE x.of # "perms"
      <4>1. x \in rows /\ y \in rows
        BY <1>4, <2>1, <3>1, <3>3 DEF Ruling
      <4>. QED
        BY <4>1 DEF AllSettled, OneEach
    <3>. QED
      BY <3>2, <3>3
  <2>. QED
    BY <1>1, <1>3, <1>6, <2>2, <2>3, <2>4, <2>5, <2>6, SettledStep
<1>. QED
  BY <1>7, <1>8 DEF Commit

-----------------------------------------------------------------------------
(* One record each, at each step *)

LEMMA ArriveSettled ==
    ASSUME IInv, IInv', Steady, Steady', AllSettled, NEW q \in Requests, Arrive(q)
    PROVE  AllSettled'
<1>1. PICK o \in Given.menu :
          /\ \A r \in Requests : Active(r) /\ Related(o, op[r]) => Together(o, op[r])
          /\ op' = [op EXCEPT ![q] = o]
          /\ Keeps(q, [member |-> o.member, found |-> None, token |-> None, todo |-> {},
                       left |-> o.list])
          /\ Goto(q, CASE o.name \in Logins -> "newId"
                       [] o.name = "request" -> "info"
                       [] o.name = "finish" -> "validate"
                       [] o.name \in {"delete", "upgrade"} -> "find"
                       [] o.name = "roles" -> "start"
                       [] OTHER -> "member")
  BY DEF Arrive
<1>2. /\ op'[q] = o /\ my'[q].member = o.member /\ my'[q].todo = {} /\ my'[q].found = None
      /\ my'[q].left = o.list
      /\ \A r \in Requests \ {q} : op'[r] = op[r] /\ my'[r] = my[r]
  BY <1>1 DEF Keeps, IInv, Plain
<1>3. /\ UNCHANGED <<rows, tx, given>> /\ pc[q] = "idle"
      /\ \A r \in Requests \ {q} : pc'[r] = pc[r]
      /\ pc'[q] \in {"newId", "info", "validate", "find", "start", "member"}
      /\ pc'[q] = "member" => o.name \notin Creating
  BY <1>1 DEF Arrive, Goto, IInv, Plain, Logins, Creating
<1>4. tx[q] = NoTx
  BY <1>3 DEF IInv, Control, Has, Locks, Holds, InTx
<1>5. o \in Ops /\ WellFormed(o)
  BY AccountsOK, OpFacts DEF Given, Setting, IInv, Plain
<1>6. Forth /\ MakersStay
  BY <1>2, <1>3 DEF Forth, MakersStay, Makes, Is
<1>7. ASSUME NEW v, Seen(v)' PROVE Seen(v)
  <2>1. ASSUME NEW r \in Requests \ {q},
               \/ v \in tx'[r].in
               \/ pc'[r] # "idle" /\ v \in my'[r].todo
               \/ pc'[r] = "save" /\ v = my'[r].found
        PROVE  Seen(v)
    BY <1>2, <1>3, <2>1 DEF Seen
  <2>2. v \notin tx'[q].in /\ v \notin my'[q].todo /\ pc'[q] # "save"
    BY <1>2, <1>3, <1>4 DEF NoTx
  <2>. QED
    BY <1>3, <1>7, <2>1, <2>2 DEF Seen
<1>8. Traced' /\ OneName' /\ SeedNames'
  BY <1>6, <1>7, OriginStays, HeirStays DEF AllSettled, Traced, OneName, SeedNames
<1>9. Separate'
  <2>. SUFFICES ASSUME NEW r \in Requests, NEW k \in Requests, r # k,
                       Active(r)', Active(k)', Related(op[r], op[k])'
                PROVE  Together(op[r], op[k])'
    BY DEF Separate
  <2>1. CASE r = q
    <3>1. Active(k) /\ Related(o, op[k])
      BY <1>2, <1>3, <2>1 DEF Active, Related, Involved
    <3>2. Together(o, op[k])
      BY <1>1, <3>1
    <3>. QED
      BY <1>2, <1>3, <2>1, <3>2 DEF Together, Given
  <2>2. CASE k = q
    <3>1. Active(r) /\ Related(op[r], o)
      BY <1>2, <1>3, <2>2 DEF Active, Related, Involved
    <3>2. Together(o, op[r])
      BY <1>1, <3>1, RelatedBoth
    <3>3. {<<o.name, op[r].name>>, <<op[r].name, o.name>>}
             = {<<op[r].name, o.name>>, <<o.name, op[r].name>>}
      OBVIOUS
    <3>. QED
      BY <1>2, <1>3, <2>2, <3>2, <3>3 DEF Together, Given
  <2>3. CASE r # q /\ k # q
    <3>1. Active(r) /\ Active(k) /\ Related(op[r], op[k])
      BY <1>2, <1>3, <2>3 DEF Active, Related, Involved
    <3>2. Together(op[r], op[k])
      BY <3>1 DEF AllSettled, Separate
    <3>. QED
      BY <1>2, <1>3, <2>3, <3>2 DEF Together, Given
  <2>. QED
    BY <2>1, <2>2, <2>3
<1>10. OneLock' /\ OneEach(rows)
  BY <1>3 DEF AllSettled, OneLock
<1>11. ASSUME NEW r \in Requests \ {q} PROVE Settled(r)'
  <2>1. /\ Settled(r) /\ pc'[r] = pc[r] /\ op'[r] = op[r] /\ my'[r] = my[r] /\ tx'[r] = tx[r]
        /\ UNCHANGED <<rows, given>>
    BY <1>2, <1>3 DEF AllSettled
  <2>. QED
    BY <2>1 DEF Settled, Upgrader, Active, Is, HandingOn, OfHeir, MakingFor, Registering,
       Ruling, OneEach, Same, Given
<1>12. o.name = "upgrade" => HandingOn(q)'
  <2>. SUFFICES ASSUME o.name = "upgrade" PROVE HandingOn(q)'
    OBVIOUS
  <2>1. /\ o.to \in Cadets /\ o.to \notin Prospects
        /\ \A r \in Requests \ {q} : pc[r] # "idle" => o.to \notin Involved(op[r])
        /\ \A t \in First : \A x \in t : x.member # o.to
    <3>1. UpgradedOnce' /\ Is(q, {"upgrade"})' /\ pc'[q] # "idle"
      BY <1>2, <1>3 DEF Steady, Is
    <3>2. /\ \A r \in Requests \ {q} : pc'[r] # "idle" => op'[q].to \notin Involved(op'[r])
          /\ \A t \in First : \A x \in t : x.member # op'[q].to
      BY <3>1 DEF UpgradedOnce, Involved
    <3>3. o.to \in Cadets
      BY <1>5, OpFacts DEF WellFormed
    <3>. QED
      BY <1>2, <1>3, <3>2, <3>3, AccountsOK
  <2>2. ASSUME NEW x \in rows, x.of \in Owned, x.member = o.to PROVE FALSE
    <3>1. Origin(x) /\ Heir(x)
      BY <2>2, SeenAre DEF AllSettled, Traced
    <3>2. x.for # o.to
      <4>1. CASE Made(x)
        BY <1>3, <2>1, <4>1 DEF Made, Involved
      <4>2. ASSUME NEW t \in First, NEW y \in t, Key(y) = Key(x) PROVE x.for # o.to
        <5>1. y.member = y.for /\ y.for = x.for
          BY <4>2, AccountsOK, KeyOf
        <5>. QED
          BY <2>1, <5>1
      <4>. QED
        BY <3>1, <4>1, <4>2 DEF Origin
    <3>3. PICK u \in Requests : Upgrader(u) /\ op[u].to = o.to
      BY <2>2, <3>1, <3>2 DEF Heir
    <3>. QED
      BY <1>3, <2>1, <3>3 DEF Upgrader, Involved
  <2>3. tx'[q].in = {} /\ UNCHANGED rows
    BY <1>3, <1>4 DEF NoTx
  <2>. QED
    BY <1>2, <2>2, <2>3 DEF HandingOn, OfHeir
<1>13. o.name \in Creating => MakingFor(q)'
  BY <1>2, <1>3 DEF MakingFor
<1>14. Registering(q)' /\ Ruling(q)' /\ "perms" \notin tx'[q].whole
  BY <1>2, <1>3, <1>4 DEF Registering, Ruling, NoTx
<1>15. Settled(q)'
  BY <1>2, <1>3, <1>12, <1>13, <1>14 DEF Settled, Upgrader, Is, Given
<1>. QED
  BY <1>3, <1>8, <1>9, <1>10, <1>11, <1>15 DEF AllSettled, OneEach, Same

LEMMA StepSettled ==
    ASSUME IInv, IInv', Steady, AllSettled, MakersStay, Tokened, NEW q \in Requests, Step(q)
    PROVE  AllSettled'
<1>1. pc[q] \in {"find", "erase"} => Is(q, {"delete"}) \/ Is(q, {"upgrade"})
  BY AtPlace, DoersAre DEF Is, Ended
<1>2. pc[q] \in {"start", "commit"} => Is(q, {"roles"}) \/ Is(q, {"upgrade"})
  BY AtPlace, DoersAre DEF Is, Ended
<1>3. CASE Find(q) \/ Erase(q)
  <2>1. Is(q, {"delete"}) \/ Is(q, {"upgrade"})
    BY <1>1, <1>3 DEF Find, Erase
  <2>. QED
    BY <1>3, <2>1, FindSettled, StoresSettled, BeginsSettled
<1>4. CASE Start(q) \/ Commit(q)
  <2>1. Is(q, {"roles"}) \/ Is(q, {"upgrade"})
    BY <1>2, <1>4 DEF Start, Commit
  <2>. QED
    BY <1>4, <2>1, StartRolesSettled, BeginsSettled, CommitRolesSettled, CommitUpgradeSettled
<1>5. CASE Replaced(q)
  <2>1. Is(q, {"upgrade"})
    BY <1>5, AtPlace, DoersAre DEF Replaced, Is, Ended
  <2>. QED
    BY <1>5, <2>1, BeginsSettled
<1>. QED
  BY <1>3, <1>4, <1>5, NewIdSettled, StoresSettled, AnswersSettled, ValidateSettled,
     NameFreeSettled, AddRowSettled, ReadBackSettled, SaveSettled, FindsSettled,
     ReplaceSettled, ClearSettled, LookSettled, SetRoleSettled, RolesSetSettled,
     PeekSettled, RegisterSettled DEF Step

LEMMA NextForth == IInv /\ [Next]_vars => Forth
<1>. SUFFICES ASSUME IInv, [Next]_vars PROVE Forth
  OBVIOUS
<1>0. /\ pc \in [Requests -> Labels] /\ op \in [Requests -> Ops \union {None}]
  BY DEF IInv, Plain
<1>1. CASE UNCHANGED vars
  BY <1>1 DEF vars, Forth
<1>2. ASSUME NEW q \in Requests, Step(q) PROVE Forth
  <2>1. Beside(q) /\ UNCHANGED <<op, given>>
    BY <1>2, StepBeside
  <2>2. pc'[q] # "idle"
    BY <1>0, <1>2 DEF Step, NewId, AddPerson, Info, Count, AddToken, Mail, Validate, NameFree,
       MemberFree, IsMember, AddRow, ReadBack, Save, Drop, Find, Start, Erase, Finds,
       Replace, Replaced, Commit, Clear, Look, SetRole, RolesSet, Peek, Register,
       Reads, Answers, Goto, After
  <2>. QED
    BY <2>1, <2>2 DEF Beside, Forth
<1>3. ASSUME NEW q \in Requests, Arrive(q) PROVE Forth
  BY <1>0, <1>3 DEF Arrive, Goto, Forth
<1>4. ASSUME NEW q \in Requests, Fail(q) \/ UpgradeFails(q) PROVE Forth
  BY <1>0, <1>4 DEF Fail, UpgradeFails, Goto, After, Forth
<1>5. ASSUME NEW q \in Requests, Crash(q) PROVE Forth
  BY <1>0, <1>5 DEF Crash, Forth
<1>6. CASE Lapse
  BY <1>6 DEF Lapse, Forth
<1>. QED
  BY <1>1, <1>2, <1>3, <1>4, <1>5, <1>6 DEF Next, Rest

\* What a step does to the closure of who makes an account.
LEMMA StepTokens ==
    ASSUME IInv, NEW q \in Requests, Step(q)
    PROVE  /\ pc'[q] \notin {"idle", "newId"}
           /\ pc[q] # "newId" /\ Is(q, Creating) => my'[q].member = my[q].member
           /\ my[q].token # None => my'[q].token # None
           /\ pc'[q] \in Making /\ Is(q, Creating) => pc[q] \in Making \/ my'[q].token # None
<1>0. /\ pc \in [Requests -> Labels] /\ my \in [Requests -> Mine \union {None}]
      /\ my[q] \in Mine /\ pc[q] \notin Ended /\ rows \subseteq Rows /\ None \notin Rows
  BY StepBeside, AtPlace, NoneApart DEF IInv, Plain, Active
<1>1. CASE NewId(q)
  BY <1>0, <1>1 DEF NewId, Reads, Goto, Keeps, Making, Mine
<1>2. CASE AddToken(q)
  <2>1. Row(q, "tokens", my[q].member, None, None) \in Rows
    BY <1>2, AtPlace, RowOK DEF AddToken, Knows, Tables
  <2>. QED
    BY <1>0, <1>2, <2>1 DEF AddToken, Goto, Keeps, Mine
<1>3. CASE Validate(q)
  <2>1. CASE Answers(q, "failed")
    BY <1>0, <2>1 DEF Answers, Goto, Making
  <2>2. ASSUME NEW x \in About(q, "tokens", op[q].member),
               Reads(q, "name", [my[q] EXCEPT !.token = x])
        PROVE  my'[q].token # None /\ my'[q].member = my[q].member /\ pc'[q] = "name"
    <3>1. x # None
      BY <1>0, AboutOK DEF IInv
    <3>. QED
      BY <1>0, <2>2, <3>1 DEF Reads, Goto, Keeps, Mine
  <2>3. Answers(q, "failed") => UNCHANGED my
    BY DEF Answers
  <2>. QED
    BY <1>3, <2>1, <2>2, <2>3 DEF Validate
<1>4. CASE MemberFree(q) \/ IsMember(q) \/ AddRow(q) \/ Save(q) \/ Drop(q)
  <2>1. pc[q] \in Making /\ UNCHANGED my
    BY <1>4 DEF MemberFree, IsMember, AddRow, Save, Drop, Answers, Making
  <2>2. pc'[q] \notin {"idle", "newId"}
    BY <1>0, <1>4 DEF MemberFree, IsMember, AddRow, Save, Drop, Answers, Goto, After
  <2>. QED
    BY <2>1, <2>2
<1>5. CASE NameFree(q) \/ ReadBack(q)
  <2>1. pc[q] \in Making /\ pc'[q] \notin {"idle", "newId"}
    BY <1>0, <1>5 DEF NameFree, ReadBack, Answers, Reads, Goto, After, Making
  <2>2. my'[q] = my[q] \/ \E x : my'[q] = [my[q] EXCEPT !.found = x]
    BY <1>0, <1>5 DEF NameFree, ReadBack, Answers, Reads, Keeps
  <2>3. my'[q].member = my[q].member /\ my'[q].token = my[q].token
    BY <1>0, <2>2 DEF Mine
  <2>. QED
    BY <2>1, <2>3
<1>6. CASE AddPerson(q) \/ Info(q) \/ Count(q) \/ Mail(q) \/ Peek(q) \/ Register(q)
  BY <1>0, <1>6 DEF AddPerson, Info, Count, Mail, Peek, Register, Answers, Goto, Making
<1>7. CASE \/ Find(q) \/ Start(q) \/ Erase(q) \/ Finds(q) \/ Replace(q) \/ Replaced(q)
           \/ Commit(q) \/ Clear(q) \/ Look(q) \/ SetRole(q) \/ RolesSet(q)
  <2>1. ~Is(q, Creating)
    <3>1. pc[q] \in {"find", "start", "erase", "finds", "replace", "commit", "clear", "set",
                    "put"}
      BY <1>7 DEF Find, Start, Erase, Finds, Replace, Replaced, Commit, Clear, Look, SetRole,
         RolesSet
    <3>2. op[q].name \in {"delete", "upgrade", "roles"}
      BY <1>0, <3>1, AtPlace, DoersAre
    <3>. QED
      BY <3>2 DEF Is, Creating
  <2>2. pc'[q] \notin {"idle", "newId"}
    BY <1>0, <1>7 DEF Find, Start, Erase, Finds, Replace, Replaced, Commit, Clear, Look,
       SetRole, RolesSet, Reads, Answers, Goto
  <2>3. my[q].token # None => my'[q].token # None
    <3>1. CASE Find(q) \/ Start(q) \/ Erase(q) \/ Commit(q) \/ Clear(q) \/ RolesSet(q)
               \/ Replaced(q)
      BY <1>0, <3>1 DEF Find, Start, Erase, Replaced, Commit, Clear, RolesSet, Reads, Answers,
         Keeps, Mine
    <3>2. CASE Finds(q) \/ Replace(q)
      BY <1>0, <3>2 DEF Finds, Replace, Reads, Keeps, Mine
    <3>3. CASE Look(q)
      <4>1. PICK m \in my[q].left :
               \/ Reads(q, "put", [my[q] EXCEPT !.member = m,
                                               !.found = Only(About(q, "perms", m))])
               \/ Reads(q, "put", [my[q] EXCEPT !.member = m, !.found = None])
        BY <3>3 DEF Look
      <4>2. ASSUME NEW x, Reads(q, "put", [my[q] EXCEPT !.member = m, !.found = x])
            PROVE  my'[q].token = my[q].token
        BY <1>0, <4>2 DEF Reads, Keeps, Mine
      <4>. QED
        BY <4>1, <4>2
    <3>4. CASE SetRole(q)
      BY <1>0, <3>4 DEF SetRole, Keeps, Mine
    <3>. QED
      BY <1>7, <3>1, <3>2, <3>3, <3>4
  <2>. QED
    BY <2>1, <2>2, <2>3
<1>. QED
  BY <1>1, <1>2, <1>3, <1>4, <1>5, <1>6, <1>7 DEF Step

\* The same of requests that come and end.
Carries(r) ==
    /\ pc[r] # "idle" =>
          /\ my'[r].member = my[r].member /\ my'[r].token = my[r].token
          /\ op'[r] = op[r] /\ pc'[r] # "idle"
          /\ pc'[r] \in Making \union {"newId"} => pc'[r] = pc[r]
    /\ pc[r] = "idle" =>
          /\ pc'[r] = "newId" => my'[r].token = None
          /\ pc'[r] \in Making => op'[r].name \notin Creating

LEMMA ElseTokens ==
    ASSUME IInv, [Next]_vars, \A q \in Requests : ~Step(q), NEW r \in Requests
    PROVE  Carries(r)
<1>0. /\ pc \in [Requests -> Labels] /\ op \in [Requests -> Ops \union {None}]
      /\ my \in [Requests -> Mine \union {None}] /\ (pc[r] # "idle" => my[r] \in Mine)
  BY AtPlace DEF IInv, Plain
<1>1. CASE UNCHANGED vars \/ Lapse
  BY <1>1 DEF vars, Lapse, Making, Carries
<1>2. ASSUME NEW q \in Requests, Arrive(q) PROVE Carries(r)
  <2>1. PICK o \in Given.menu :
            /\ op' = [op EXCEPT ![q] = o]
            /\ Keeps(q, [member |-> o.member, found |-> None, token |-> None, todo |-> {},
                         left |-> o.list])
            /\ Goto(q, CASE o.name \in Logins -> "newId"
                         [] o.name = "request" -> "info"
                         [] o.name = "finish" -> "validate"
                         [] o.name \in {"delete", "upgrade"} -> "find"
                         [] o.name = "roles" -> "start"
                         [] OTHER -> "member")
    BY <1>2 DEF Arrive
  <2>2. pc[q] = "idle"
    BY <1>2 DEF Arrive
  <2>3. CASE r # q
    BY <1>0, <2>1, <2>3 DEF Keeps, Goto, Making, Carries
  <2>4. CASE r = q
    <3>1. op'[r] = o /\ my'[r].token = None
      BY <1>0, <2>1, <2>4 DEF Keeps
    <3>2. /\ pc'[r] \in {"newId", "info", "validate", "find", "start", "member"}
          /\ pc'[r] = "member" => o.name \notin Creating
      BY <1>0, <2>1, <2>4 DEF Goto, Logins, Creating
    <3>. QED
      BY <2>2, <2>4, <3>1, <3>2 DEF Carries, Making
  <2>. QED
    BY <2>3, <2>4
<1>3. ASSUME NEW q \in Requests, Fail(q) \/ UpgradeFails(q) PROVE Carries(r)
  <2>1. pc[q] # "idle"
    BY <1>3 DEF Fail, UpgradeFails, Making
  <2>2. UNCHANGED op /\ my'[r].member = my[r].member /\ my'[r].token = my[r].token
    <3>1. CASE Fail(q)
      BY <3>1 DEF Fail
    <3>2. CASE UpgradeFails(q)
      BY <1>0, <2>1, <3>2 DEF UpgradeFails, Keeps, Mine
    <3>. QED
      BY <1>3, <3>1, <3>2
  <2>3. pc'[r] = pc[r] \/ (r = q /\ pc'[r] \in {"mail", "done", "failed", "finds"})
    BY <1>0, <1>3 DEF Fail, UpgradeFails, Goto, After
  <2>. QED
    BY <2>1, <2>2, <2>3 DEF Carries, Making
<1>4. ASSUME NEW q \in Requests, Crash(q) PROVE Carries(r)
  <2>1. UNCHANGED <<op, my>> /\ pc[q] # "idle"
    BY <1>4 DEF Crash, Streamed
  <2>2. pc'[r] = pc[r] \/ (pc[r] # "idle" /\ pc'[r] = "lost")
    BY <1>4, <2>1 DEF Crash, Active
  <2>. QED
    BY <2>1, <2>2 DEF Carries, Making
<1>. QED
  BY <1>1, <1>2, <1>3, <1>4 DEF Next, Rest

LEMMA NextTokens == IInv /\ Tokened /\ [Next]_vars => Tokened' /\ MakersStay
<1>. SUFFICES ASSUME IInv, Tokened, [Next]_vars, NEW r \in Requests
              PROVE  /\ pc'[r] = "newId" => my'[r].token = None
                     /\ pc'[r] \in Making /\ Is(r, Creating)' => my'[r].token # None
                     /\ Makes(r) => Makes(r)' /\ my'[r].member = my[r].member
  BY DEF Tokened, MakersStay
<1>1. /\ pc[r] = "newId" => my[r].token = None
      /\ pc[r] \in Making /\ Is(r, Creating) => my[r].token # None
  BY DEF Tokened
<1>2. CASE Carries(r)
  <2>1. CASE pc[r] = "idle"
    BY <1>2, <2>1 DEF Carries, Makes, Is
  <2>2. CASE pc[r] # "idle"
    BY <1>1, <1>2, <2>2 DEF Carries, Makes, Is
  <2>. QED
    BY <2>1, <2>2
<1>3. ASSUME NEW q \in Requests, Step(q), q # r PROVE Carries(r)
  BY <1>3, StepBeside DEF Beside, Carries, Making
<1>4. CASE Step(r)
  <2>1. UNCHANGED op /\ pc[r] # "idle"
    BY <1>4, StepBeside DEF Active
  <2>2. Is(r, Creating)' <=> Is(r, Creating)
    BY <2>1 DEF Is
  <2>. QED
    BY <1>1, <1>4, <2>1, <2>2, StepTokens DEF Makes
<1>. QED
  BY <1>2, <1>3, <1>4, ElseTokens

LEMMA NextSettled == IInv /\ IInv' /\ OneInv /\ [Next]_vars => OneInv'
<1>. SUFFICES ASSUME IInv, IInv', OneInv, [Next]_vars, Steady' PROVE AllSettled'
  BY NextTokens DEF OneInv
<1>0. Tokened /\ Forth /\ MakersStay
  BY NextForth, NextTokens DEF OneInv
<1>1. Steady /\ AllSettled
  BY <1>0, SteadyBefore DEF OneInv
<1>2. CASE UNCHANGED vars
  BY <1>1, <1>2, StutterSettled
<1>3. ASSUME NEW q \in Requests,
             Arrive(q) \/ Step(q) \/ Fail(q) \/ UpgradeFails(q) \/ Crash(q)
      PROVE  AllSettled'
  BY <1>0, <1>1, <1>3, ArriveSettled, StepSettled, FailSettled, UpgradeFailsSettled,
     CrashSettled
<1>4. CASE Lapse
  BY <1>1, <1>4, LapseSettled
<1>. QED
  BY <1>2, <1>3, <1>4 DEF Next, Rest

LEMMA InitSettled == Init => OneInv
<1>. SUFFICES ASSUME Init PROVE AllSettled
  BY DEF OneInv, Tokened, Init, Making
<1>1. /\ rows \in First
      /\ \A r \in Requests : pc[r] = "idle" /\ tx[r] = NoTx
  BY DEF Init
<1>2. /\ OneEach(rows) /\ OneKey(rows)
      /\ \A x \in rows : x.member = x.for
  BY <1>1, AccountsOK DEF OneKey
<1>3. \A v : Seen(v) => v \in rows
  BY <1>1 DEF Seen, NoTx
<1>4. Traced /\ OneName
  BY <1>1, <1>2, <1>3 DEF Traced, Origin, Heir, OneName, OneKey
<1>7. SeedNames
  BY <1>2, <1>3 DEF SeedNames, OneEach, Same, Owned
<1>5. Separate /\ OneLock
  BY <1>1 DEF Separate, OneLock, Active, NoTx
<1>6. \A r \in Requests : Settled(r)
  BY <1>1 DEF Settled, Upgrader, Active, NoTx
<1>. QED
  BY <1>2, <1>4, <1>5, <1>6, <1>7 DEF AllSettled

\* No member has two accounts, two sets of permissions or two Discord accounts, and no
\* name two members, as long as those who add for one member or with one name wait for
\* each other, each member keeps to a username, nobody is upgraded to twice, and the
\* lookups do not fail.  Members go by as many usernames as there are, and may ask for
\* one that another has.
THEOREM RecordsOne == Spec => []OneOfEach
<1>1. OneInv => OneOfEach
  BY DEF OneInv, OneOfEach, AllSettled
<1>. QED
  BY <1>1, Invariant, InitSettled, NextSettled, PTL DEF Spec

-----------------------------------------------------------------------------
(* Members go by upgrades only *)

OnlyUpgraded ==
    /\ \A o \in Given.menu : o.name # "delete" /\ o.list \subseteq Cadets
    /\ AllApart(Logins)
    /\ \A a \in Creating \union {"discord"} : OneAtATime(a, "upgrade")

\* Prospective members are those there is a person for.
HasPerson(m) == m \in Cadets \/ \E y \in rows : y.of = "people" /\ y.member = m
Backed == \A x \in rows : x.of \in Owned => HasPerson(x.member)

\* An upgrade takes out one person, and before it commits it has met all rows of that
\* member, or has yet to replace them.
Taking(u) ==
    /\ my[u].member = op[u].member
    /\ pc[u] = "erase" => tx[u].open
    /\ \A x \in tx[u].out : x.of = "people" => x.member = op[u].member
    /\ \A x \in tx[u].in : x.of # "people" /\ x.member = op[u].to
    /\ tx[u].open /\ pc[u] \in {"replace", "commit"} =>
          \A y \in rows \ tx[u].out : y.of \in Owned /\ y.member = op[u].member =>
              \E x \in my[u].todo : Key(x) = Key(y)
    /\ pc[u] = "commit" => my[u].todo = {}

\* Something is made for members that are there, and a new member is nobody yet.
Guarded(r) ==
    /\ pc[r] # "idle" => op[r] \in Given.menu
    /\ Active(r) /\ Is(r, {"finish", "discord"}) => my[r].member = op[r].member
    /\ pc[r] \in {"addRow", "peek", "register"} => HasPerson(my[r].member)
    /\ pc[r] = "addPerson" => ~HasPerson(my[r].member)
    /\ Active(r) /\ Is(r, {"upgrade"}) => Taking(r)
    /\ Active(r) /\ Is(r, {"roles"}) =>
          /\ my[r].left \subseteq Cadets
          /\ \A x \in tx[r].in : x.of # "people" /\ x.member \in Cadets
          /\ \A x \in tx[r].out : x.of # "people"

AllGuarded == Separate /\ Backed /\ \A r \in Requests : Guarded(r)
NewInv == OnlyUpgraded => AllGuarded

\* A row is of the member it was of, of a member of CAP, or made for somebody who is there;
\* who goes leaves nothing; and who comes is new.
RowsAre(q) ==
    \A y \in rows' : y.of \in Owned =>
        \/ \E x \in rows : Key(x) = Key(y) /\ x.member = y.member
        \/ y.member \in Cadets
        \/ pc[q] \in {"addRow", "register"} /\ y.member = my[q].member
PeopleStay(q) ==
    \A y \in rows : y.of = "people" =>
        \/ y \in rows'
        \/ /\ Is(q, {"upgrade"}) /\ y.member = op[q].member
           /\ \A x \in rows' : x.of \in Owned => x.member # y.member
PeopleCome(q) ==
    \A y \in rows' : y.of = "people" =>
        y \in rows \/ (pc[q] = "addPerson" /\ y.member = my[q].member)

LEMMA MustWait ==
    ASSUME Separate, NEW r \in Requests, NEW q \in Requests, r # q, Active(r), Active(q),
           Related(op[r], op[q]), OneAtATime(op[r].name, op[q].name)
    PROVE  FALSE
<1>1. Together(op[r], op[q])
  BY DEF Separate
<1>. QED
  BY <1>1 DEF Together, OneAtATime

\* Nothing is made for somebody who is being upgraded.
LEMMA MakersApart ==
    ASSUME IInv, OnlyUpgraded, AllGuarded, NEW r \in Requests, NEW u \in Requests,
           Active(r), Active(u), Is(r, Creating \union {"discord"}), Is(u, {"upgrade"})
    PROVE  my[r].member # op[u].member
<1>1. r # u
  BY DEF Is, Creating
<1>2. OneAtATime(op[r].name, op[u].name)
  BY DEF OnlyUpgraded, Is
<1>3. ~Related(op[r], op[u])
  BY <1>1, <1>2, MustWait DEF AllGuarded
<1>4. Is(r, {"finish", "discord"})
  <2>1. op[u].name = "upgrade"
    BY DEF Is
  <2>2. op[r].name \notin Logins
    BY <1>3, <2>1 DEF Related
  <2>. QED
    BY <2>2 DEF Is, Creating, Logins
<1>5. my[r].member = op[r].member
  BY <1>4 DEF AllGuarded, Guarded
<1>6. op[u].member # None
  <2>1. op[u] \in Ops /\ op[u].name = "upgrade"
    BY AtPlace DEF Active, Is
  <2>2. op[u].member \in Prospects
    BY <2>1, OpFacts DEF WellFormed
  <2>. QED
    BY <2>2, NoneApart DEF Refs
<1>. QED
  BY <1>3, <1>5, <1>6 DEF Related, Involved

\* Numbers are handed out to one at a time.
LEMMA NewAlone ==
    ASSUME IInv, OnlyUpgraded, AllGuarded, NEW r \in Requests, NEW q \in Requests, r # q,
           pc[r] = "addPerson", pc[q] = "addPerson"
    PROVE  FALSE
<1>1. /\ op[r].name \in Logins /\ op[q].name \in Logins /\ Active(r) /\ Active(q)
  BY AtPlace, DoersAre DEF Active, Ended
<1>2. OneAtATime(op[r].name, op[q].name) /\ Related(op[r], op[q])
  BY <1>1 DEF OnlyUpgraded, AllApart, Related
<1>. QED
  BY <1>1, <1>2, MustWait DEF AllGuarded

LEMMA GuardedStep ==
    ASSUME IInv, IInv', OnlyUpgraded, AllGuarded, NEW q \in Requests, Beside(q),
           UNCHANGED <<op, given>>, Active(q), pc'[q] # "idle", RowsAre(q), PeopleStay(q), PeopleCome(q),
           Guarded(q)'
    PROVE  AllGuarded'
<1>1. ASSUME NEW m, HasPerson(m)
      PROVE  \/ HasPerson(m)'
             \/ /\ Is(q, {"upgrade"}) /\ m = op[q].member
                /\ \A x \in rows' : x.of \in Owned => x.member # m
  BY <1>1 DEF HasPerson, PeopleStay
<1>2. Forth /\ \A r \in Requests : Active(r)' => Active(r)
  BY DEF Beside, Forth, Active
<1>3. Separate'
  BY <1>2, SeparateStays DEF AllGuarded
<1>4. Backed'
  <2>. SUFFICES ASSUME NEW y \in rows', y.of \in Owned PROVE HasPerson(y.member)'
    BY DEF Backed
  <2>1. ASSUME NEW x \in rows, Key(x) = Key(y), x.member = y.member
        PROVE  HasPerson(y.member)'
    <3>1. HasPerson(y.member)
      BY <2>1, KeyOf DEF AllGuarded, Backed
    <3>. QED
      BY <1>1, <3>1
  <2>2. CASE y.member \in Cadets
    BY <2>2 DEF HasPerson
  <2>3. CASE pc[q] \in {"addRow", "register"} /\ y.member = my[q].member
    <3>1. HasPerson(y.member)
      BY <2>3 DEF AllGuarded, Guarded
    <3>. QED
      BY <1>1, <3>1
  <2>. QED
    BY <2>1, <2>2, <2>3 DEF RowsAre
<1>5. ASSUME NEW r \in Requests \ {q} PROVE Guarded(r)'
  <2>1. /\ Guarded(r) /\ pc'[r] = pc[r] /\ op'[r] = op[r] /\ my'[r] = my[r] /\ tx'[r] = tx[r]
        /\ UNCHANGED given
    BY DEF Beside, AllGuarded
  <2>2. /\ Active(r)' <=> Active(r)
        /\ Is(r, {"finish", "discord"})' <=> Is(r, {"finish", "discord"})
        /\ Is(r, {"upgrade"})' <=> Is(r, {"upgrade"})
        /\ Is(r, {"roles"})' <=> Is(r, {"roles"})
    BY <2>1 DEF Active, Is
  <2>3. ASSUME pc[r] \in {"addRow", "peek", "register"} PROVE HasPerson(my[r].member)'
    <3>1. HasPerson(my[r].member)
      BY <2>1, <2>3 DEF Guarded
    <3>2. Active(r) /\ Is(r, Creating \union {"discord"})
      BY <2>3, PlaceApart DEF Active, Ended, Making, Is
    <3>3. Is(q, {"upgrade"}) => my[r].member # op[q].member
      BY <3>2, MakersApart
    <3>. DEFINE m == my[r].member
    <3>4. m \in Cadets \/ (\E y \in rows' : y.of = "people" /\ y.member = m)
      BY <1>1, <3>1, <3>3 DEF HasPerson
    <3>. QED
      BY <2>1, <3>4 DEF HasPerson
  <2>4. ASSUME pc[r] = "addPerson", HasPerson(my[r].member)' PROVE FALSE
    <3>1. ~HasPerson(my[r].member)
      BY <2>1, <2>4 DEF Guarded
    <3>2. PICK y \in rows' : y.of = "people" /\ y.member = my[r].member
      BY <2>1, <2>4, <3>1 DEF HasPerson
    <3>3. y \notin rows
      BY <3>1, <3>2 DEF HasPerson
    <3>. QED
      BY <2>4, <3>2, <3>3, NewAlone DEF PeopleCome
  <2>5. ASSUME Active(r), Is(r, {"upgrade"}) PROVE Taking(r)'
    <3>1. Taking(r)
      BY <2>1, <2>5 DEF Guarded
    <3>2. op[r].member \notin Cadets
      <4>1. op[r] \in Ops /\ op[r].name = "upgrade"
        BY <2>5, AtPlace DEF Active, Is
      <4>2. op[r].member \in Prospects
        BY <4>1, OpFacts DEF WellFormed
      <4>. QED
        BY <4>2, AccountsOK
    <3>3. ASSUME tx[r].open, pc[r] \in {"replace", "commit"}, NEW y \in rows' \ tx[r].out,
                 y.of \in Owned, y.member = op[r].member
          PROVE  \E x \in my[r].todo : Key(x) = Key(y)
      <4>1. ASSUME NEW x \in rows, Key(x) = Key(y), x.member = y.member
            PROVE  \E z \in my[r].todo : Key(z) = Key(y)
        <5>1. x \notin tx[r].out
          <6>1. tx[r].out \subseteq rows' /\ OneKey(rows')
            BY <2>1 DEF IInv, Locks, Holds, OneKey
          <6>. QED
            BY <3>3, <4>1, <6>1 DEF OneKey
        <5>2. x.of \in Owned /\ x.member = op[r].member
          BY <3>3, <4>1, KeyOf
        <5>3. \E z \in my[r].todo : Key(z) = Key(x)
          BY <3>1, <3>3, <5>1, <5>2 DEF Taking
        <5>. QED
          BY <4>1, <5>3
      <4>2. y.member \notin Cadets
        BY <3>2, <3>3
      <4>3. ~(pc[q] \in {"addRow", "register"} /\ y.member = my[q].member)
        <5>1. pc[q] \in {"addRow", "register"} => Is(q, Creating \union {"discord"})
          BY PlaceApart DEF Making, Is
        <5>. QED
          BY <2>5, <3>3, <5>1, MakersApart
      <4>. QED
        BY <3>3, <4>1, <4>2, <4>3 DEF RowsAre
    <3>. QED
      BY <2>1, <3>1, <3>3 DEF Taking
  <2>. QED
    BY <2>1, <2>2, <2>3, <2>4, <2>5 DEF Guarded, Given
<1>. QED
  BY <1>3, <1>4, <1>5 DEF AllGuarded

\* A step that changes nothing of people, accounts, permissions, Discord accounts.
LEMMA QuietGuarded ==
    ASSUME IInv, IInv', OnlyUpgraded, AllGuarded, NEW q \in Requests, Beside(q),
           UNCHANGED <<op, given>>, Active(q), pc'[q] # "idle", Guarded(q)',
           \A y \in rows' : y.of \in Owned \union {"people"} => y \in rows,
           \A y \in rows : y.of = "people" => y \in rows'
    PROVE  AllGuarded' /\ PeopleCome(q)
<1>1. RowsAre(q) /\ PeopleStay(q) /\ PeopleCome(q)
  BY DEF RowsAre, PeopleStay, PeopleCome
<1>. QED
  BY <1>1, GuardedStep

-----------------------------------------------------------------------------
(* Joining, accounts, Discord accounts, and who is there *)

LEMMA GuardedApart ==
    ASSUME IInv, AllGuarded, NEW q \in Requests, UNCHANGED <<op, given>>,
           Active(q), ~Is(q, {"upgrade", "roles"}),
           Is(q, {"finish", "discord"}) => my'[q].member = my[q].member,
           pc'[q] \in {"addRow", "peek", "register"} => HasPerson(my[q].member)',
           pc'[q] = "addPerson" => ~HasPerson(my[q].member)'
    PROVE  Guarded(q)'
<1>1. op[q] \in Given.menu
  BY DEF AllGuarded, Guarded, Active
<1>2. /\ Is(q, {"finish", "discord"})' <=> Is(q, {"finish", "discord"})
      /\ ~Is(q, {"upgrade"})' /\ ~Is(q, {"roles"})'
  BY DEF Is
<1>3. Is(q, {"finish", "discord"}) => my[q].member = op[q].member
  BY DEF AllGuarded, Guarded
<1>. QED
  BY <1>1, <1>2, <1>3 DEF Guarded, Given

LEMMA AnswersGuarded ==
    ASSUME IInv, IInv', OnlyUpgraded, AllGuarded, NEW q \in Requests,
           Info(q) \/ Count(q) \/ Mail(q) \/ MemberFree(q) \/ IsMember(q) \/ Peek(q)
    PROVE  AllGuarded' /\ PeopleCome(q)
<1>1. Beside(q) /\ UNCHANGED <<op, given>> /\ Active(q)
  BY StepBeside DEF Step
<1>2. pc \in [Requests -> Labels]
  BY DEF IInv, Plain
<1>3. UNCHANGED <<rows, my, tx>>
  BY DEF Info, Count, Mail, MemberFree, IsMember, Peek, Answers
<1>4. ~Is(q, {"upgrade", "roles"})
  BY PlaceApart DEF Info, Count, Mail, MemberFree, IsMember, Peek, Making
<1>5. View(q) = rows
  BY <1>1, <1>4, ApartTx
<1>6. /\ pc'[q] \notin {"idle", "addPerson"}
      /\ pc'[q] \in {"addRow", "peek", "register"} => pc[q] = "peek" \/ IsMember(q)
  BY <1>2 DEF Info, Count, Mail, MemberFree, IsMember, Peek, Answers, Goto, After
<1>7. pc'[q] \in {"addRow", "peek", "register"} => HasPerson(my[q].member)
  <2>1. pc[q] = "peek" => HasPerson(my[q].member)
    BY DEF AllGuarded, Guarded
  <2>2. CASE IsMember(q)
    <3>1. \/ my[q].member \in Cadets \/ Only(About(q, "people", my[q].member)) # None
          \/ pc'[q] \notin {"addRow", "peek", "register"}
      BY <1>2, <2>2 DEF IsMember, Answers, Goto, After
    <3>2. Only(About(q, "people", my[q].member)) # None =>
             Only(About(q, "people", my[q].member)) \in About(q, "people", my[q].member)
      BY OnlyIn
    <3>. QED
      BY <1>5, <3>1, <3>2 DEF HasPerson, About
  <2>. QED
    BY <1>6, <2>1, <2>2
<1>8. Guarded(q)'
  BY <1>1, <1>3, <1>4, <1>6, <1>7, GuardedApart DEF HasPerson
<1>. QED
  BY <1>1, <1>3, <1>6, <1>8, QuietGuarded

\* The number of a new member is above those of all who are there.
LEMMA NewIdGuarded ==
    ASSUME IInv, IInv', OnlyUpgraded, AllGuarded, NEW q \in Requests, NewId(q)
    PROVE  AllGuarded' /\ PeopleCome(q)
<1>1. Beside(q) /\ UNCHANGED <<op, given>> /\ Active(q)
  BY StepBeside DEF Step
<1>2. pc \in [Requests -> Labels] /\ my \in [Requests -> Mine \union {None}] /\ my[q] \in Mine
  BY AtPlace, <1>1 DEF IInv, Plain, Active
<1>3. PICK n \in 2..MaxId :
         /\ \A x \in rows : x.of = "people" => x.member < n
         /\ my'[q] = [my[q] EXCEPT !.member = n]
  BY <1>2 DEF NewId, Reads, Keeps
<1>4. my'[q].member = n
  BY <1>2, <1>3 DEF Mine
<1>5. pc'[q] = "addPerson" /\ UNCHANGED <<rows, tx>>
  BY <1>2 DEF NewId, Reads, Goto
<1>6. ~Is(q, {"upgrade", "roles"}) /\ ~Is(q, {"finish", "discord"})
  BY AtPlace, DoersAre DEF NewId, Ended, Is, Logins
<1>7. n \notin Cadets /\ \A x \in rows : x.of = "people" => x.member # n
  <2>1. n \in Prospects /\ n \in Nat /\ ~(n < n)
    BY AccountsOK DEF Prospects
  <2>. QED
    BY <1>3, <2>1, AccountsOK
<1>8. Guarded(q)'
  BY <1>1, <1>4, <1>5, <1>6, <1>7, GuardedApart DEF HasPerson
<1>. QED
  BY <1>1, <1>5, <1>8, QuietGuarded

LEMMA ReadsGuarded ==
    ASSUME IInv, IInv', OnlyUpgraded, AllGuarded, NEW q \in Requests,
           Validate(q) \/ NameFree(q) \/ ReadBack(q)
    PROVE  AllGuarded' /\ PeopleCome(q)
<1>1. Beside(q) /\ UNCHANGED <<op, given>> /\ Active(q)
  BY StepBeside DEF Step
<1>2. pc \in [Requests -> Labels] /\ my \in [Requests -> Mine \union {None}] /\ my[q] \in Mine
  BY AtPlace, <1>1 DEF IInv, Plain, Active
<1>3. UNCHANGED rows /\ pc'[q] \notin {"idle", "addPerson", "addRow", "peek", "register"}
  BY <1>2 DEF Validate, NameFree, ReadBack, Reads, Answers, Goto, After
<1>4. my'[q].member = my[q].member
  BY <1>2 DEF Validate, NameFree, ReadBack, Reads, Answers, Keeps, Mine
<1>5. ~Is(q, {"upgrade", "roles"})
  BY PlaceApart DEF Validate, NameFree, ReadBack, Making
<1>6. Guarded(q)'
  BY <1>1, <1>3, <1>4, <1>5, GuardedApart
<1>. QED
  BY <1>1, <1>3, <1>6, QuietGuarded

LEMMA StoresGuarded ==
    ASSUME IInv, IInv', OnlyUpgraded, AllGuarded, NEW q \in Requests,
           AddPerson(q) \/ AddToken(q) \/ AddRow(q) \/ Save(q) \/ Drop(q) \/ Register(q)
    PROVE  AllGuarded' /\ PeopleCome(q)
<1>1. Beside(q) /\ UNCHANGED <<op, given>> /\ Active(q)
  BY StepBeside DEF Step
<1>2. /\ pc \in [Requests -> Labels] /\ my \in [Requests -> Mine \union {None}]
      /\ my[q] \in Mine /\ rows \subseteq Rows
  BY AtPlace, <1>1 DEF IInv, Plain, Active
<1>3. ~Is(q, {"upgrade", "roles"})
  BY PlaceApart DEF AddPerson, AddToken, AddRow, Save, Drop, Register, Making
<1>4. View(q) = rows
  BY <1>1, <1>3, ApartTx
<1>5. pc'[q] \notin {"idle", "addPerson", "addRow", "peek", "register"}
  BY <1>2, AfterOK DEF AddPerson, AddToken, AddRow, Save, Drop, Register, Goto, After
<1>6. my'[q].member = my[q].member
  BY <1>2 DEF AddPerson, AddToken, AddRow, Save, Drop, Register, Keeps, Mine
<1>7. Guarded(q)'
  BY <1>1, <1>3, <1>5, <1>6, GuardedApart
<1>8. RowsAre(q) /\ PeopleStay(q) /\ PeopleCome(q)
  <2>1. CASE AddPerson(q)
    <3>. DEFINE n == Row(q, "people", my[q].member, None, None)
    <3>1. pc[q] = "addPerson" /\ rows' = rows \union {n}
      BY <2>1 DEF AddPerson, Stores
    <3>2. n.of = "people" /\ n.member = my[q].member
      BY DEF Row
    <3>. QED
      BY <3>1, <3>2 DEF RowsAre, PeopleStay, PeopleCome, Owned
  <2>2. CASE AddToken(q)
    <3>. DEFINE n == Row(q, "tokens", my[q].member, None, None)
    <3>1. rows' \subseteq rows \union {n} /\ rows \subseteq rows'
      BY <2>2 DEF AddToken, Stores
    <3>2. n.of = "tokens"
      BY DEF Row
    <3>. QED
      BY <3>1, <3>2 DEF RowsAre, PeopleStay, PeopleCome, Owned
  <2>3. CASE AddRow(q)
    <3>. DEFINE n == Row(q, "users", my[q].member, op[q].user, None)
    <3>1. pc[q] = "addRow" /\ rows' \subseteq rows \union {n} /\ rows \subseteq rows'
      BY <2>3 DEF AddRow, Stores
    <3>2. n.of = "users" /\ n.member = my[q].member
      BY DEF Row
    <3>. QED
      BY <3>1, <3>2 DEF RowsAre, PeopleStay, PeopleCome
  <2>4. CASE Save(q)
    <3>. DEFINE x == my[q].found
                all == About(q, "users", x.member)
    <3>1. \A z \in all : z \in rows /\ z \in Rows /\ z.of = "users"
      BY <1>2, <1>4 DEF About
    <3>2. ASSUME NEW y \in rows', y \notin rows
          PROVE  \E z \in all : Key(z) = Key(y) /\ z.member = y.member /\ y.of = "users"
      <4>1. PICK z \in all : y = [z EXCEPT !.name = x.name, !.pw = q]
        BY <2>4, <3>2 DEF Save, Stores
      <4>2. z \in Rows /\ z.of = "users"
        BY <3>1
      <4>3. Key(z) = Key(y) /\ z.member = y.member /\ y.of = z.of
        BY <4>1, <4>2 DEF Rows, Key
      <4>. QED
        BY <4>2, <4>3
    <3>3. \A y \in rows : y \in rows' \/ y \in all
      BY <2>4 DEF Save, Stores
    <3>. HIDE DEF all
    <3>4. RowsAre(q)
      BY <3>1, <3>2 DEF RowsAre
    <3>5. PeopleStay(q) /\ PeopleCome(q)
      BY <3>1, <3>2, <3>3 DEF PeopleStay, PeopleCome
    <3>. QED
      BY <3>4, <3>5
  <2>5. CASE Drop(q)
    <3>1. my[q].token = None \/ my[q].token.of = "tokens"
      BY <1>1, AtPlace DEF Active
    <3>2. rows' \subseteq rows /\ \A x \in rows : x \in rows' \/ x = my[q].token
      BY <2>5 DEF Drop, Stores
    <3>3. \A x \in rows : x # None
      BY <1>2, NoneApart
    <3>. QED
      BY <3>1, <3>2, <3>3 DEF RowsAre, PeopleStay, PeopleCome
  <2>6. CASE Register(q)
    <3>. DEFINE n == Row(q, "discord", op[q].member, op[q].user, None)
    <3>1. pc[q] = "register" /\ rows' = rows \union {n}
      BY <2>6 DEF Register, Stores
    <3>2. n.of = "discord" /\ n.member = op[q].member
      BY DEF Row
    <3>3. Is(q, {"finish", "discord"})
      BY <3>1, PlaceApart DEF Is
    <3>4. op[q].member = my[q].member
      BY <1>1, <3>3 DEF AllGuarded, Guarded
    <3>. QED
      BY <3>1, <3>2, <3>4 DEF RowsAre, PeopleStay, PeopleCome
  <2>. QED
    BY <2>1, <2>2, <2>3, <2>4, <2>5, <2>6
<1>. QED
  BY <1>1, <1>5, <1>7, <1>8, GuardedStep

-----------------------------------------------------------------------------
(* Upgrades *)

LEMMA TakerIs ==
    ASSUME IInv, NEW u \in Requests, Active(u), Is(u, {"upgrade"})
    PROVE  op[u].to \in Cadets /\ op[u].member \notin Cadets /\ op[u].to # op[u].member
<1>1. Upgrader(u)
  BY DEF Upgrader, Active
<1>. QED
  BY <1>1, UpgraderIs, AccountsOK

LEMMA UpgradeGuarded ==
    ASSUME IInv, AllGuarded, NEW q \in Requests, UNCHANGED <<op, given>>,
           Active(q), Is(q, {"upgrade"}),
           pc'[q] \in {"done", "failed"} \/ Taking(q)',
           pc'[q] \notin {"addRow", "peek", "register", "addPerson"}
    PROVE  Guarded(q)'
<1>1. op[q] \in Given.menu
  BY DEF AllGuarded, Guarded, Active
<1>2. ~Is(q, {"finish", "discord"})' /\ ~Is(q, {"roles"})'
  BY DEF Is
<1>3. pc'[q] \in {"done", "failed"} => ~Active(q)'
  BY DEF Active, Ended
<1>. QED
  BY <1>1, <1>2, <1>3 DEF Guarded, Given

\* Nobody is deleted.
LEMMA OnlyUpgrades ==
    ASSUME IInv, OnlyUpgraded, AllGuarded, NEW q \in Requests, pc[q] \in {"find", "erase"}
    PROVE  Active(q) /\ Is(q, {"upgrade"})
<1>1. Active(q) /\ op[q].name \in {"delete", "upgrade"}
  BY AtPlace, DoersAre DEF Active, Ended
<1>2. op[q] \in Given.menu
  BY DEF AllGuarded, Guarded
<1>. QED
  BY <1>1, <1>2 DEF OnlyUpgraded, Is

LEMMA BeginsGuarded ==
    ASSUME IInv, IInv', OnlyUpgraded, AllGuarded, NEW q \in Requests,
           Active(q), Is(q, {"upgrade"}), Find(q) \/ Start(q) \/ Replaced(q)
    PROVE  AllGuarded' /\ PeopleCome(q)
<1>1. Beside(q) /\ UNCHANGED <<op, given>>
  BY StepBeside DEF Step
<1>2. /\ pc \in [Requests -> Labels] /\ my \in [Requests -> Mine \union {None}]
      /\ my[q] \in Mine /\ tx \in [Requests -> Txs]
  BY AtPlace, <1>1 DEF IInv, Plain, Active
<1>3. Taking(q)
  BY DEF AllGuarded, Guarded
<1>4. my'[q].member = my[q].member /\ my'[q].todo = my[q].todo
  BY <1>2 DEF Find, Start, Replaced, Reads, Answers, Keeps, Mine
<1>5. UNCHANGED rows /\ tx'[q].out = tx[q].out /\ tx'[q].in = tx[q].in
  BY <1>2 DEF Find, Start, Replaced, Reads, Answers, Txs
<1>6. pc'[q] \in {"failed", "start", "erase", "commit"}
  BY <1>2 DEF Find, Start, Replaced, Reads, Answers, Goto, Is
<1>7. /\ pc'[q] = "erase" => tx'[q].open
      /\ pc'[q] = "commit" => pc[q] = "replace" /\ my[q].todo = {} /\ tx[q].open
  BY <1>2 DEF Find, Start, Replaced, Reads, Answers, Goto, Is, Txs
<1>8. Taking(q)'
  BY <1>1, <1>3, <1>4, <1>5, <1>6, <1>7 DEF Taking
<1>9. Guarded(q)'
  BY <1>1, <1>6, <1>8, UpgradeGuarded
<1>. QED
  BY <1>1, <1>5, <1>6, <1>9, QuietGuarded

LEMMA EraseGuarded ==
    ASSUME IInv, IInv', OnlyUpgraded, AllGuarded, NEW q \in Requests, Erase(q)
    PROVE  AllGuarded' /\ PeopleCome(q)
<1>1. Beside(q) /\ UNCHANGED <<op, given>>
  BY StepBeside DEF Step
<1>2. Active(q) /\ Is(q, {"upgrade"}) /\ Taking(q) /\ pc[q] = "erase"
  BY OnlyUpgrades DEF Erase, AllGuarded, Guarded
<1>3. tx \in [Requests -> Txs] /\ pc \in [Requests -> Labels]
  BY DEF IInv, Plain
<1>4. tx[q].open
  BY <1>2 DEF Taking
<1>5. /\ UNCHANGED <<rows, my>> /\ tx'[q].in = tx[q].in
      /\ tx'[q].out = About(q, "people", my[q].member)
  BY <1>3, <1>4 DEF Erase, Txs
<1>6. pc'[q] = "finds"
  BY <1>2, <1>3 DEF Erase, Goto, Is
<1>7. Taking(q)'
  BY <1>1, <1>2, <1>5, <1>6 DEF Taking, About
<1>8. Guarded(q)'
  BY <1>1, <1>2, <1>6, <1>7, UpgradeGuarded
<1>. QED
  BY <1>1, <1>2, <1>5, <1>6, <1>8, QuietGuarded

LEMMA UpgradeFailsGuarded ==
    ASSUME IInv, IInv', OnlyUpgraded, AllGuarded, NEW q \in Requests, UpgradeFails(q)
    PROVE  AllGuarded' /\ PeopleCome(q)
<1>1. /\ pc \in [Requests -> Labels] /\ my \in [Requests -> Mine \union {None}]
      /\ tx \in [Requests -> Txs]
  BY DEF IInv, Plain
<1>2. UNCHANGED <<rows, op, given>> /\ tx' = [tx EXCEPT ![q] = NoTx]
  BY DEF UpgradeFails, Rollback
<1>3. Active(q)
  BY DEF UpgradeFails, Active, Ended
<1>4. my[q] \in Mine
  BY <1>3, AtPlace DEF Active
<1>5. Is(q, {"upgrade"}) /\ Taking(q)
  <2>1. Is(q, {"upgrade"})
    BY AtPlace, DoersAre DEF UpgradeFails, Is, Ended
  <2>. QED
    BY <1>3, <2>1 DEF AllGuarded, Guarded
<1>6. Beside(q)
  BY <1>1, <1>2 DEF UpgradeFails, Goto, Keeps, Beside
<1>7. my'[q].member = my[q].member
  BY <1>1, <1>4 DEF UpgradeFails, Keeps, Mine
<1>8. pc'[q] \in {"finds", "replace"}
  BY <1>1 DEF UpgradeFails, Goto
<1>9. tx'[q] = NoTx
  BY <1>1, <1>2
<1>10. Taking(q)'
  BY <1>2, <1>5, <1>7, <1>8, <1>9 DEF Taking, NoTx
<1>11. Guarded(q)'
  BY <1>2, <1>3, <1>5, <1>8, <1>10, UpgradeGuarded
<1>. QED
  BY <1>2, <1>3, <1>6, <1>8, <1>11, QuietGuarded

\* All rows of the member are read for the upgrade.
LEMMA FindsGuarded ==
    ASSUME IInv, IInv', OnlyUpgraded, AllGuarded, NEW q \in Requests, Finds(q)
    PROVE  AllGuarded' /\ PeopleCome(q)
<1>1. Beside(q) /\ UNCHANGED <<op, given>> /\ Active(q)
  BY StepBeside DEF Step
<1>2. /\ pc \in [Requests -> Labels] /\ my \in [Requests -> Mine \union {None}]
      /\ my[q] \in Mine
  BY AtPlace, <1>1 DEF IInv, Plain, Active
<1>3. Is(q, {"upgrade"})
  BY AtPlace, DoersAre DEF Finds, Is, Ended
<1>4. Taking(q)
  BY <1>1, <1>3 DEF AllGuarded, Guarded
<1>5. UNCHANGED <<rows, tx>> /\ pc'[q] = "replace"
  BY <1>2 DEF Finds, Reads, Goto
<1>6. /\ my'[q].member = my[q].member
      /\ my'[q].todo = UNION {About(q, t, my[q].member) : t \in Updated}
  BY <1>2 DEF Finds, Reads, Keeps, Mine
<1>7. ASSUME NEW y \in rows \ tx[q].out, y.of \in Owned, y.member = op[q].member
      PROVE  y \in my'[q].todo
  <2>1. y \in About(q, y.of, my[q].member)
    BY <1>4, <1>7 DEF About, View, Taking
  <2>. QED
    BY <1>6, <1>7, <2>1, OwnedAre
<1>8. Taking(q)'
  BY <1>1, <1>4, <1>5, <1>6, <1>7 DEF Taking
<1>9. Guarded(q)'
  BY <1>1, <1>3, <1>5, <1>8, UpgradeGuarded
<1>. QED
  BY <1>1, <1>5, <1>9, QuietGuarded

LEMMA ReplaceGuarded ==
    ASSUME IInv, IInv', OnlyUpgraded, AllGuarded, NEW q \in Requests, Replace(q)
    PROVE  AllGuarded' /\ PeopleCome(q)
<1>1. Beside(q) /\ UNCHANGED <<op, given>> /\ Active(q)
  BY StepBeside DEF Step
<1>2. /\ pc \in [Requests -> Labels] /\ my \in [Requests -> Mine \union {None}]
      /\ my[q] \in Mine /\ tx \in [Requests -> Txs]
  BY AtPlace, <1>1 DEF IInv, Plain, Active
<1>3. pc[q] = "replace" /\ Is(q, {"upgrade"})
  BY AtPlace, DoersAre DEF Replace, Is, Ended
<1>4. Taking(q) /\ op[q].to \in Cadets
  BY <1>1, <1>3, TakerIs DEF AllGuarded, Guarded
<1>5. PICK x \in my[q].todo :
         LET now == {y \in View(q) : Key(y) = Key(x)} IN
         /\ Unlocked(q, x.of, now)
         /\ Writes(q, now, IF now = {} THEN {} ELSE {[x EXCEPT !.member = op[q].to]})
         /\ Keeps(q, [my[q] EXCEPT !.todo = @ \ {x}])
  BY DEF Replace
<1>. DEFINE now == {y \in View(q) : Key(y) = Key(x)}
            new == [x EXCEPT !.member = op[q].to]
<1>6. pc'[q] = "replace"
  BY <1>3 DEF Replace
<1>7. my'[q].todo = my[q].todo \ {x} /\ my'[q].member = my[q].member
  BY <1>2, <1>5 DEF Keeps, Mine
<1>8. x \in Rows /\ x.of \in Owned /\ x.of # "people"
  BY <1>2, <1>3, AtPlace, OwnedAre DEF Mine
<1>9. new.member = op[q].to /\ new.of # "people"
  BY <1>8 DEF Rows
<1>10. \A y \in now : y \in View(q) /\ Key(y) = Key(x) /\ y.of # "people"
  BY <1>8, KeyOf
<1>11. CASE tx[q].open
  <2>1. /\ UNCHANGED rows
        /\ tx'[q].out = tx[q].out \union (now \intersect rows)
        /\ \A y \in tx'[q].in : y \in tx[q].in \/ y = new
    BY <1>2, <1>5, <1>11 DEF Writes, Txs
  <2>2. ASSUME NEW y \in rows \ tx'[q].out, y.of \in Owned, y.member = op[q].member
        PROVE  \E z \in my'[q].todo : Key(z) = Key(y)
    <3>1. PICK z \in my[q].todo : Key(z) = Key(y)
      BY <1>3, <1>4, <1>11, <2>1, <2>2 DEF Taking
    <3>2. z # x
      BY <2>1, <2>2, <3>1 DEF View
    <3>. QED
      BY <1>7, <3>1, <3>2
  <2>. HIDE DEF now, new
  <2>3. /\ \A y \in tx'[q].out : y.of = "people" => y.member = op[q].member
        /\ \A y \in tx'[q].in : y.of # "people" /\ y.member = op[q].to
    BY <1>4, <1>9, <1>10, <2>1 DEF Taking
  <2>4. Taking(q)'
    BY <1>1, <1>4, <1>6, <1>7, <2>1, <2>2, <2>3 DEF Taking
  <2>5. Guarded(q)'
    BY <1>1, <1>3, <1>6, <2>4, UpgradeGuarded
  <2>. QED
    BY <1>1, <1>6, <2>1, <2>5, QuietGuarded
<1>12. CASE ~tx[q].open
  <2>1. /\ UNCHANGED tx
        /\ \A y \in rows : y \in rows' \/ y \in now
        /\ \A y \in rows' : y \in rows \/ y = new
    BY <1>5, <1>12 DEF Writes, Stores
  <2>. HIDE DEF now, new
  <2>2. Taking(q)'
    BY <1>1, <1>4, <1>6, <1>7, <1>12, <2>1 DEF Taking
  <2>3. Guarded(q)'
    BY <1>1, <1>3, <1>6, <2>2, UpgradeGuarded
  <2>4. RowsAre(q) /\ PeopleStay(q) /\ PeopleCome(q)
    BY <1>4, <1>9, <1>10, <2>1 DEF RowsAre, PeopleStay, PeopleCome
  <2>. QED
    BY <1>1, <1>6, <2>3, <2>4, GuardedStep
<1>. QED
  BY <1>11, <1>12

\* When the person goes, all that was of that member goes to the heir.
LEMMA CommitUpgradeGuarded ==
    ASSUME IInv, IInv', OnlyUpgraded, AllGuarded, NEW q \in Requests, Commit(q),
           Is(q, {"upgrade"})
    PROVE  AllGuarded' /\ PeopleCome(q)
<1>1. Beside(q) /\ UNCHANGED <<op, given>> /\ Active(q)
  BY StepBeside DEF Step
<1>2. /\ pc \in [Requests -> Labels] /\ tx \in [Requests -> Txs]
  BY DEF IInv, Plain
<1>3. pc[q] = "commit" /\ pc'[q] = "done"
  BY <1>2 DEF Commit, Goto
<1>4. /\ Taking(q) /\ my[q].todo = {}
      /\ op[q].to \in Cadets /\ op[q].to # op[q].member
  BY <1>1, <1>3, TakerIs DEF AllGuarded, Guarded, Taking
<1>5. Guarded(q)'
  BY <1>1, <1>3, UpgradeGuarded
<1>6. ~tx[q].open => View(q) = rows
  BY ViewOK DEF IInv, Locks, Holds
<1>7. CASE UNCHANGED rows
  BY <1>1, <1>3, <1>5, <1>7, QuietGuarded
<1>8. CASE rows' = View(q) /\ tx[q].open
  <2>1. \A y \in rows' : y \in rows \ tx[q].out \/ y \in tx[q].in
    BY <1>8 DEF View
  <2>2. \A y \in rows \ tx[q].out : y.of \in Owned => y.member # op[q].member
    BY <1>3, <1>4, <1>8 DEF Taking
  <2>3. \A y \in tx[q].in : y.of # "people" /\ y.member = op[q].to
    BY <1>4 DEF Taking
  <2>4. RowsAre(q) /\ PeopleCome(q)
    BY <1>4, <2>1, <2>3 DEF RowsAre, PeopleCome
  <2>5. ASSUME NEW y \in rows, y.of = "people", y \notin rows'
        PROVE  y.member = op[q].member
    BY <1>4, <1>8, <2>5 DEF View, Taking
  <2>6. \A y \in rows' : y.of \in Owned => y.member # op[q].member
    BY <1>4, <2>1, <2>2, <2>3
  <2>7. PeopleStay(q)
    BY <2>5, <2>6 DEF PeopleStay
  <2>. QED
    BY <1>1, <1>3, <1>5, <2>4, <2>7, GuardedStep
<1>. QED
  BY <1>6, <1>7, <1>8 DEF Commit

-----------------------------------------------------------------------------
(* Permissions, and who is there *)

Ruled(q) ==
    /\ my[q].left \subseteq Cadets
    /\ \A x \in tx[q].in : x.of # "people" /\ x.member \in Cadets
    /\ \A x \in tx[q].out : x.of # "people"

LEMMA RolesGuarded ==
    ASSUME IInv, AllGuarded, NEW q \in Requests, UNCHANGED <<op, given>>,
           Active(q), Is(q, {"roles"}), Ruled(q)',
           pc'[q] \notin {"addRow", "peek", "register", "addPerson"}
    PROVE  Guarded(q)'
<1>1. op[q] \in Given.menu
  BY DEF AllGuarded, Guarded, Active
<1>2. ~Is(q, {"finish", "discord"})' /\ ~Is(q, {"upgrade"})'
  BY DEF Is
<1>. QED
  BY <1>1, <1>2 DEF Guarded, Given, Ruled

LEMMA RulesGuarded ==
    ASSUME IInv, IInv', OnlyUpgraded, AllGuarded, NEW q \in Requests,
           Active(q), Is(q, {"roles"}), Start(q) \/ Clear(q) \/ Look(q) \/ RolesSet(q)
    PROVE  AllGuarded' /\ PeopleCome(q)
<1>1. Beside(q) /\ UNCHANGED <<op, given>>
  BY StepBeside DEF Step
<1>2. /\ pc \in [Requests -> Labels] /\ my \in [Requests -> Mine \union {None}]
      /\ my[q] \in Mine /\ tx \in [Requests -> Txs]
  BY AtPlace, <1>1 DEF IInv, Plain, Active
<1>3. Ruled(q)
  BY DEF AllGuarded, Guarded, Ruled
<1>4. my'[q].left = my[q].left
  <2>1. CASE Look(q)
    <3>1. PICK m, x : Reads(q, "put", [my[q] EXCEPT !.member = m, !.found = x])
      BY <2>1 DEF Look
    <3>2. [my[q] EXCEPT !.member = m, !.found = x].left = my[q].left
      BY <1>2 DEF Mine
    <3>. QED
      BY <1>2, <3>1, <3>2 DEF Reads, Keeps
  <2>. QED
    BY <2>1 DEF Start, Clear, RolesSet, Answers
<1>5. /\ UNCHANGED rows /\ tx'[q].in = tx[q].in
      /\ \A x \in tx'[q].out : x \in tx[q].out \/ x.of = "perms"
  <2>1. CASE Start(q)
    BY <1>2, <2>1 DEF Start, Txs
  <2>2. CASE Clear(q)
    BY <1>2, <2>2 DEF Clear, Txs
  <2>. QED
    BY <2>1, <2>2 DEF Look, RolesSet, Reads, Answers
<1>6. pc'[q] \in {"clear", "set", "put", "commit", "done"}
  BY <1>2 DEF Start, Clear, Look, RolesSet, Reads, Answers, Goto, Is
<1>7. Ruled(q)'
  BY <1>3, <1>4, <1>5 DEF Ruled
<1>8. Guarded(q)'
  BY <1>1, <1>6, <1>7, RolesGuarded
<1>. QED
  BY <1>1, <1>5, <1>6, <1>8, QuietGuarded

\* What is put in is of members of CAP, and takes nobody out.
LEMMA SetRoleGuarded ==
    ASSUME IInv, IInv', OnlyUpgraded, AllGuarded, NEW q \in Requests, SetRole(q)
    PROVE  AllGuarded' /\ PeopleCome(q)
<1>1. Beside(q) /\ UNCHANGED <<op, given>> /\ Active(q)
  BY StepBeside DEF Step
<1>2. /\ pc \in [Requests -> Labels] /\ my \in [Requests -> Mine \union {None}]
      /\ my[q] \in Mine /\ tx \in [Requests -> Txs]
  BY AtPlace, <1>1 DEF IInv, Plain, Active
<1>3. pc[q] = "put" /\ Is(q, {"roles"})
  BY AtPlace, DoersAre DEF SetRole, Is, Ended
<1>4. Ruled(q) /\ my[q].member \in Cadets
  BY <1>1, <1>3 DEF AllGuarded, Guarded, Ruled, IInv, Control, Has
<1>. DEFINE m == my[q].member
            old == About(q, "perms", m)
            edit == {[x EXCEPT !.pw = q] : x \in old}
            n == Row(q, "perms", m, None, q)
<1>5. /\ my'[q].left \subseteq my[q].left /\ pc'[q] = "set"
  BY <1>2 DEF SetRole, Goto, Keeps, Mine
<1>6. \A x \in old : x \in Rows /\ x.of = "perms" /\ x.member = m
  BY AboutOK DEF About, IInv
<1>7. ASSUME NEW y \in edit \union {n} PROVE y.of = "perms" /\ y.member \in Cadets
  <2>1. CASE y = n
    BY <1>4, <2>1 DEF Row
  <2>2. ASSUME NEW x \in old, y = [x EXCEPT !.pw = q] PROVE y.of = x.of /\ y.member = x.member
    BY <1>6, <2>2 DEF Rows
  <2>. QED
    BY <1>4, <1>6, <2>1, <2>2
<1>8. \/ Writes(q, old, edit)
      \/ Writes(q, {}, {n})
      \/ rows' = View(q) /\ tx' = [tx EXCEPT ![q] = NoTx]
  BY DEF SetRole
<1>9. \/ tx[q].open /\ UNCHANGED rows
      \/ /\ \A y \in rows : y \in rows' \/ y \in old \/ y \in tx[q].out
         /\ \A y \in rows' : y \in rows \/ y \in edit \union {n} \/ y \in tx[q].in
  BY <1>8 DEF Writes, Stores, View
<1>10. /\ \A y \in tx'[q].in : y \in edit \union {n} \/ y \in tx[q].in
       /\ \A y \in tx'[q].out : y \in old \/ y \in tx[q].out
  <2>1. CASE Writes(q, old, edit)
    BY <1>2, <2>1 DEF Writes, Stores, Txs
  <2>2. CASE Writes(q, {}, {n})
    BY <1>2, <2>2 DEF Writes, Stores, Txs
  <2>3. CASE tx' = [tx EXCEPT ![q] = NoTx]
    BY <1>2, <2>3 DEF NoTx
  <2>. QED
    BY <1>8, <2>1, <2>2, <2>3
<1>. HIDE DEF old, edit, n
<1>11. Ruled(q)'
  BY <1>4, <1>5, <1>6, <1>7, <1>10 DEF Ruled
<1>12. Guarded(q)'
  BY <1>1, <1>3, <1>5, <1>11, RolesGuarded
<1>13. RowsAre(q) /\ PeopleStay(q) /\ PeopleCome(q)
  BY <1>4, <1>6, <1>7, <1>9 DEF Ruled, RowsAre, PeopleStay, PeopleCome
<1>. QED
  BY <1>1, <1>5, <1>12, <1>13, GuardedStep

LEMMA CommitRolesGuarded ==
    ASSUME IInv, IInv', OnlyUpgraded, AllGuarded, NEW q \in Requests, Commit(q),
           Is(q, {"roles"})
    PROVE  AllGuarded' /\ PeopleCome(q)
<1>1. Beside(q) /\ UNCHANGED <<op, given>> /\ Active(q)
  BY StepBeside DEF Step
<1>2. /\ pc \in [Requests -> Labels] /\ tx \in [Requests -> Txs]
  BY DEF IInv, Plain
<1>3. Ruled(q)
  BY <1>1 DEF AllGuarded, Guarded, Ruled
<1>4. UNCHANGED my /\ pc'[q] = "done" /\ tx'[q] = NoTx
  BY <1>2 DEF Commit, Goto
<1>5. Ruled(q)'
  BY <1>3, <1>4 DEF Ruled, NoTx
<1>6. Guarded(q)'
  BY <1>1, <1>4, <1>5, RolesGuarded
<1>7. RowsAre(q) /\ PeopleStay(q) /\ PeopleCome(q)
  BY <1>3 DEF Commit, View, Ruled, RowsAre, PeopleStay, PeopleCome
<1>. QED
  BY <1>1, <1>4, <1>6, <1>7, GuardedStep

-----------------------------------------------------------------------------
(* Requests that come and end, and who is there *)

LEMMA LessGuarded ==
    ASSUME IInv, AllGuarded, UNCHANGED <<op, my, given>>,
           \A y \in rows' : y \in rows,
           \A y \in rows : y.of = "people" => y \in rows',
           \A r \in Requests :
              \/ pc'[r] = pc[r] /\ tx'[r] = tx[r]
              \/ /\ Active(r) /\ pc'[r] \in Ended \union {"mail"}
                 /\ Is(r, {"upgrade", "roles"}) => pc'[r] \in Ended
    PROVE  AllGuarded'
<1>1. Forth /\ \A r \in Requests : Active(r)' => Active(r)
  BY DEF Forth, Active, Ended
<1>2. Separate'
  BY <1>1, SeparateStays DEF AllGuarded
<1>3. \A m : HasPerson(m)' <=> HasPerson(m)
  BY DEF HasPerson
<1>4. Backed'
  BY <1>3 DEF AllGuarded, Backed
<1>5. ASSUME NEW r \in Requests PROVE Guarded(r)'
  <2>1. Guarded(r)
    BY DEF AllGuarded
  <2>2. /\ Is(r, {"finish", "discord"})' <=> Is(r, {"finish", "discord"})
        /\ Is(r, {"upgrade"})' <=> Is(r, {"upgrade"})
        /\ Is(r, {"roles"})' <=> Is(r, {"roles"})
    BY DEF Is
  <2>3. CASE pc'[r] = pc[r] /\ tx'[r] = tx[r]
    <3>1. Active(r)' <=> Active(r)
      BY <2>3 DEF Active
    <3>2. Taking(r) => Taking(r)'
      BY <2>3 DEF Taking
    <3>3. /\ HasPerson(my[r].member)' <=> HasPerson(my[r].member)
      BY DEF HasPerson
    <3>. QED
      BY <2>1, <2>2, <2>3, <3>1, <3>2, <3>3 DEF Guarded, Given
  <2>4. CASE /\ Active(r) /\ pc'[r] \in Ended \union {"mail"}
             /\ Is(r, {"upgrade", "roles"}) => pc'[r] \in Ended
    <3>1. op[r] \in Given.menu /\ (Is(r, {"finish", "discord"}) => my[r].member = op[r].member)
      BY <2>1, <2>4 DEF Guarded, Active
    <3>2. Is(r, {"upgrade"}) \/ Is(r, {"roles"}) => ~Active(r)'
      BY <2>4 DEF Is, Active
    <3>3. pc'[r] \notin {"addRow", "peek", "register", "addPerson"}
      BY <2>4 DEF Ended
    <3>. QED
      BY <2>2, <3>1, <3>2, <3>3 DEF Guarded, Given
  <2>. QED
    BY <2>3, <2>4
<1>. QED
  BY <1>2, <1>4, <1>5 DEF AllGuarded

LEMMA FailGuarded ==
    ASSUME IInv, AllGuarded, NEW q \in Requests, Fail(q) PROVE AllGuarded'
<1>1. pc \in [Requests -> Labels] /\ tx \in [Requests -> Txs]
  BY DEF IInv, Plain
<1>2. UNCHANGED <<rows, op, my, given>>
  BY DEF Fail
<1>3. \A r \in Requests \ {q} : pc'[r] = pc[r] /\ tx'[r] = tx[r]
  BY <1>1 DEF Fail, Rollback, Goto
<1>4. Active(q)
  BY DEF Fail, Active, Ended, Making
<1>5. pc'[q] \in {"mail", "done", "failed"} /\ (Is(q, {"upgrade", "roles"}) => pc'[q] # "mail")
  BY <1>1 DEF Fail, Goto, After, Is
<1>6. pc'[q] \in Ended \union {"mail"} /\ (Is(q, {"upgrade", "roles"}) => pc'[q] \in Ended)
  BY <1>5 DEF Ended
<1>. QED
  BY <1>2, <1>3, <1>4, <1>6, LessGuarded

LEMMA CrashGuarded ==
    ASSUME IInv, AllGuarded, NEW q \in Requests, Crash(q) PROVE AllGuarded'
<1>1. UNCHANGED <<rows, op, my, given>> /\ Active(q)
  BY DEF Crash, Active, Streamed, Ended
<1>2. PICK others \in SUBSET {s \in Requests : Active(s)} :
         /\ pc' = [s \in Requests |-> IF s \in others \union {q} THEN "lost" ELSE pc[s]]
         /\ tx' = [s \in Requests |-> IF s \in others \union {q} THEN NoTx ELSE tx[s]]
  BY DEF Crash
<1>3. "lost" \in Ended
  BY DEF Ended
<1>4. ASSUME NEW r \in Requests
      PROVE  \/ pc'[r] = pc[r] /\ tx'[r] = tx[r]
             \/ Active(r) /\ pc'[r] = "lost"
  BY <1>1, <1>2
<1>. QED
  BY <1>1, <1>3, <1>4, LessGuarded

LEMMA LapseGuarded == ASSUME IInv, AllGuarded, Lapse PROVE AllGuarded'
<1>1. UNCHANGED <<pc, op, my, tx, given>>
  BY DEF Lapse
<1>2. (\A y \in rows' : y \in rows) /\ (\A y \in rows : y.of = "people" => y \in rows')
  BY DEF Lapse
<1>. QED
  BY <1>1, <1>2, LessGuarded

LEMMA StutterGuarded == ASSUME IInv, AllGuarded, UNCHANGED vars PROVE AllGuarded'
BY LessGuarded DEF vars

LEMMA ArriveGuarded ==
    ASSUME IInv, OnlyUpgraded, AllGuarded, NEW q \in Requests, Arrive(q)
    PROVE  AllGuarded'
<1>1. PICK o \in Given.menu :
          /\ \A r \in Requests : Active(r) /\ Related(o, op[r]) => Together(o, op[r])
          /\ op' = [op EXCEPT ![q] = o]
          /\ Keeps(q, [member |-> o.member, found |-> None, token |-> None, todo |-> {},
                       left |-> o.list])
          /\ Goto(q, CASE o.name \in Logins -> "newId"
                       [] o.name = "request" -> "info"
                       [] o.name = "finish" -> "validate"
                       [] o.name \in {"delete", "upgrade"} -> "find"
                       [] o.name = "roles" -> "start"
                       [] OTHER -> "member")
  BY DEF Arrive
<1>2. /\ op'[q] = o /\ my'[q].member = o.member /\ my'[q].left = o.list
      /\ \A r \in Requests \ {q} : op'[r] = op[r] /\ my'[r] = my[r]
  BY <1>1 DEF Keeps, IInv, Plain
<1>3. /\ UNCHANGED <<rows, tx, given>> /\ pc[q] = "idle"
      /\ \A r \in Requests \ {q} : pc'[r] = pc[r]
      /\ pc'[q] \in {"newId", "info", "validate", "find", "start", "member"}
  BY <1>1 DEF Arrive, Goto, IInv, Plain, Logins
<1>4. tx[q] = NoTx
  BY <1>3 DEF IInv, Control, Has, Locks, Holds, InTx
<1>5. Separate'
  <2>. SUFFICES ASSUME NEW r \in Requests, NEW k \in Requests, r # k,
                       Active(r)', Active(k)', Related(op[r], op[k])'
                PROVE  Together(op[r], op[k])'
    BY DEF Separate
  <2>1. CASE r = q
    <3>1. Active(k) /\ Related(o, op[k])
      BY <1>2, <1>3, <2>1 DEF Active, Related, Involved
    <3>2. Together(o, op[k])
      BY <1>1, <3>1
    <3>. QED
      BY <1>2, <1>3, <2>1, <3>2 DEF Together, Given
  <2>2. CASE k = q
    <3>1. Active(r) /\ Related(op[r], o)
      BY <1>2, <1>3, <2>2 DEF Active, Related, Involved
    <3>2. Together(o, op[r])
      BY <1>1, <3>1, RelatedBoth
    <3>3. {<<o.name, op[r].name>>, <<op[r].name, o.name>>}
             = {<<op[r].name, o.name>>, <<o.name, op[r].name>>}
      OBVIOUS
    <3>. QED
      BY <1>2, <1>3, <2>2, <3>2, <3>3 DEF Together, Given
  <2>3. CASE r # q /\ k # q
    <3>1. Active(r) /\ Active(k) /\ Related(op[r], op[k])
      BY <1>2, <1>3, <2>3 DEF Active, Related, Involved
    <3>2. Together(op[r], op[k])
      BY <3>1 DEF AllGuarded, Separate
    <3>. QED
      BY <1>2, <1>3, <2>3, <3>2 DEF Together, Given
  <2>. QED
    BY <2>1, <2>2, <2>3
<1>6. Backed'
  BY <1>3 DEF AllGuarded, Backed, HasPerson
<1>7. ASSUME NEW r \in Requests \ {q} PROVE Guarded(r)'
  <2>1. /\ Guarded(r) /\ pc'[r] = pc[r] /\ op'[r] = op[r] /\ my'[r] = my[r] /\ tx'[r] = tx[r]
        /\ UNCHANGED <<rows, given>>
    BY <1>2, <1>3, <1>7 DEF AllGuarded
  <2>. QED
    BY <2>1 DEF Guarded, Active, Is, Taking, HasPerson, Given
<1>8. Guarded(q)'
  <2>1. Taking(q)'
    BY <1>2, <1>3, <1>4 DEF Taking, NoTx
  <2>2. tx'[q].in = {} /\ tx'[q].out = {} /\ my'[q].left \subseteq Cadets
    BY <1>2, <1>3, <1>4 DEF NoTx, OnlyUpgraded
  <2>3. op'[q] \in Given'.menu
    BY <1>2, <1>3 DEF Given
  <2>. QED
    BY <1>2, <1>3, <2>1, <2>2, <2>3 DEF Guarded, Given
<1>. QED
  BY <1>5, <1>6, <1>7, <1>8 DEF AllGuarded

-----------------------------------------------------------------------------
(* Newcomers *)

LEMMA StepGuarded ==
    ASSUME IInv, IInv', OnlyUpgraded, AllGuarded, NEW q \in Requests, Step(q)
    PROVE  AllGuarded' /\ PeopleCome(q)
<1>1. Active(q)
  BY StepBeside
<1>2. CASE Find(q)
  BY <1>2, OnlyUpgrades, BeginsGuarded DEF Find
<1>3. CASE Start(q) \/ Commit(q)
  <2>1. Is(q, {"roles"}) \/ Is(q, {"upgrade"})
    BY <1>3, AtPlace, DoersAre DEF Start, Commit, Is, Ended
  <2>. QED
    BY <1>1, <1>3, <2>1, BeginsGuarded, RulesGuarded, CommitRolesGuarded, CommitUpgradeGuarded
<1>4. CASE Replaced(q)
  <2>1. Is(q, {"upgrade"})
    BY <1>4, AtPlace, DoersAre DEF Replaced, Is, Ended
  <2>. QED
    BY <1>1, <1>4, <2>1, BeginsGuarded
<1>5. CASE Clear(q) \/ Look(q) \/ RolesSet(q)
  <2>1. Is(q, {"roles"})
    <3>1. pc[q] \in {"clear", "set"}
      BY <1>5 DEF Clear, Look, RolesSet
    <3>. QED
      BY <3>1, AtPlace, DoersAre DEF Is, Ended
  <2>. QED
    BY <1>1, <1>5, <2>1, RulesGuarded
<1>. QED
  BY <1>2, <1>3, <1>4, <1>5, AnswersGuarded, NewIdGuarded, ReadsGuarded, StoresGuarded,
     EraseGuarded, FindsGuarded, ReplaceGuarded, SetRoleGuarded DEF Step

LEMMA NextGuarded == IInv /\ IInv' /\ NewInv /\ [Next]_vars => NewInv'
<1>. SUFFICES ASSUME IInv, IInv', NewInv, [Next]_vars, OnlyUpgraded' PROVE AllGuarded'
  BY DEF NewInv
<1>1. UNCHANGED given
  BY NextForth DEF Forth
<1>2. OnlyUpgraded /\ AllGuarded
  BY <1>1 DEF NewInv, OnlyUpgraded, AllApart, OneAtATime, Given
<1>3. CASE UNCHANGED vars
  BY <1>2, <1>3, StutterGuarded
<1>4. ASSUME NEW q \in Requests,
             Arrive(q) \/ Step(q) \/ Fail(q) \/ UpgradeFails(q) \/ Crash(q)
      PROVE  AllGuarded'
  BY <1>2, <1>4, ArriveGuarded, StepGuarded, FailGuarded, UpgradeFailsGuarded, CrashGuarded
<1>5. CASE Lapse
  BY <1>2, <1>5, LapseGuarded
<1>. QED
  BY <1>3, <1>4, <1>5 DEF Next, Rest

LEMMA InitGuarded == Init => NewInv
<1>. SUFFICES ASSUME Init PROVE AllGuarded
  BY DEF NewInv
<1>1. /\ rows \in First
      /\ \A r \in Requests : pc[r] = "idle" /\ tx[r] = NoTx
  BY DEF Init
<1>2. Backed
  <2>. SUFFICES ASSUME NEW x \in rows, x.of \in Owned PROVE HasPerson(x.member)
    BY DEF Backed
  <2>1. x.member \in Prospects \/ x.member \in Cadets
    BY <1>1, AccountsOK DEF Rows, Refs
  <2>2. x.member \in Prospects => \E y \in rows : y.of = "people" /\ y.member = x.member
    BY <1>1, AccountsOK
  <2>. QED
    BY <2>1, <2>2 DEF HasPerson
<1>3. Separate /\ \A r \in Requests : Guarded(r)
  BY <1>1 DEF Separate, Guarded, Active
<1>. QED
  BY <1>2, <1>3 DEF AllGuarded

\* Only who joins comes, with a number that nobody has.
LEMMA WhoComes ==
    ASSUME IInv, IInv', OnlyUpgraded, AllGuarded, Next,
           NEW x \in rows' \ rows, x.of = "people"
    PROVE  ~\E y \in rows' : y.of \in Owned /\ y.member = x.member
<1>1. PICK q \in Requests : Step(q)
  BY DEF Next, Arrive, Fail, UpgradeFails, Crash, Lapse, Rest, vars
<1>2. pc[q] = "addPerson" /\ x.member = my[q].member
  BY <1>1, StepGuarded DEF PeopleCome
<1>3. AddPerson(q)
  BY <1>1, <1>2 DEF Step, Info, Count, AddToken, Mail, Validate, NameFree, MemberFree,
     IsMember, AddRow, ReadBack, Save, Drop, NewId, Find, Start, Erase, Finds, Replace,
     Replaced, Commit, Clear, Look, SetRole, RolesSet, Peek, Register
<1>4. ~HasPerson(x.member)
  BY <1>2 DEF AllGuarded, Guarded
<1>5. \A y \in rows' : y.of \in Owned => y \in rows
  BY <1>3 DEF AddPerson, Stores, Row, Owned
<1>. QED
  BY <1>4, <1>5 DEF AllGuarded, Backed

\* Where members go by upgrades only, numbers are handed out to one at a time, nothing is
\* made for who is being upgraded, and permissions are those of CAP members, a new
\* prospective member finds no account, no permissions and no Discord account under his
\* number.
THEOREM NewcomersInheritNothing == Spec => NewcomersFresh
<1>1. IInv /\ IInv' /\ NewInv /\ [Next]_vars =>
        [ /\ \A o \in Given.menu : o.name # "delete" /\ o.list \subseteq Cadets
          /\ AllApart(Logins)
          /\ \A a \in Creating \union {"discord"} : OneAtATime(a, "upgrade")
          => \A x \in rows' \ rows : x.of = "people" /\ (\A y \in rows : Key(y) # Key(x)) =>
                ~\E y \in rows' : y.of \in Owned /\ y.member = x.member ]_vars
  <2>. SUFFICES ASSUME IInv, IInv', OnlyUpgraded, AllGuarded, Next,
                       NEW x \in rows' \ rows, x.of = "people"
                PROVE  ~\E y \in rows' : y.of \in Owned /\ y.member = x.member
    BY DEF NewInv, OnlyUpgraded
  <2>. QED
    BY WhoComes
<1>. QED
  BY <1>1, Invariant, InitGuarded, NextGuarded, PTL DEF Spec, NewcomersFresh
=============================================================================
