---------------------------- MODULE UserAccounts ----------------------------
(***************************************************************************)
(* Who the members of a squadron are and what accounts they have: the      *)
(* collections ProspectiveMembers, UserAccountTokens, UserAccountInfo,     *)
(* UserPermissions and DiscordAccounts, and the requests that create,      *)
(* delete and upgrade prospective members, give accounts to members, set   *)
(* the permissions of everybody, and register a Discord account            *)
(* (server/src/api/member/{account,permissions}, pam/Account.ts,           *)
(* members/cap/ProspectiveMember.ts).                                      *)
(*                                                                         *)
(* None of the collections has a unique key: a record is looked for, and   *)
(* then added.  Upgrades and changes of permissions run in a transaction   *)
(* of the database session of their request; everything else is stored at  *)
(* once.  The database (InnoDB) lets readers see what is committed, and    *)
(* makes a writer wait for a row that another transaction has written.     *)
(***************************************************************************)
EXTENDS Naturals

CONSTANTS
    Cadets,      \* members of CAP, who have a CAPID
    MaxId,       \* the greatest number of a prospective member
    Names,       \* usernames, and names of Discord accounts
    Requests,    \* each is served once
    Seeds,       \* those by whom there are rows at the beginning
    First,       \* the rows that there may be at the beginning
    Conditions,  \* under which the requests come: one of them holds throughout
    None         \* no name, no password, no row

\* A prospective member is known by a number: the greatest of the account plus one.
Prospects == 1..MaxId
Refs == Prospects \union Cadets
Makers == Requests \union Seeds

Tables == {"people", "tokens", "users", "perms", "discord"}

\* A row, its _id made of whose request has added it and for whom.  pw: by whom the
\* newest password, or what the member may do, was set.
Rows == [of : Tables, by : Makers, for : Refs, member : Refs,
         name : Names \union {None}, pw : Makers \union {None}]
Key(x) == <<x.of, x.by, x.for>>

\* What a member is to have one of.
Owned == {"users", "perms", "discord"}
Same(x, y) == x.of = y.of /\ (x.member = y.member \/ (x.name # None /\ x.name = y.name))
OneEach(t) == \A x, y \in t : x.of \in Owned /\ Same(x, y) => x = y

Logins == {"link", "random", "chosen"}
OpNames == Logins \union {"request", "finish", "delete", "upgrade", "roles", "discord"}

\* member: whom it is about (a new member: None); to: the CAP member that a prospective
\* one becomes; name: the username; weak: the password is refused; list: who is
\* to have permissions.
Creating == {"random", "chosen", "finish"}
WellFormed(o) ==
    /\ o.name \in Logins \union {"roles"} => o.member = None
    /\ o.name \in {"request", "finish", "discord"} => o.member # None
    /\ o.name \in {"delete", "upgrade"} => o.member \in Prospects
    /\ o.to # None <=> o.name = "upgrade"
    /\ o.user # None <=> o.name \in Creating \union {"discord"}
    /\ o.list # {} => o.name = "roles"
Ops == {o \in [name : OpNames, member : Refs \union {None}, to : Cadets \union {None},
               user : Names \union {None}, weak : BOOLEAN, list : SUBSET Refs] :
           WellFormed(o)}

Ended == {"done", "failed", "lost"}
Making == {"name", "rows", "member", "addRow", "read", "save", "drop"}
Labels == Ended \union Making \union
    {"idle", "newId", "addPerson", "info", "count", "addToken", "mail", "validate",
     "find", "erase", "start", "finds", "replace", "commit", "clear", "set", "put",
     "peek", "register"}

\* Queries read through generateResults: a rejection ends the process.
Streamed == {"newId", "validate", "finds"}

Setting == [menu : SUBSET Ops, apart : SUBSET (OpNames \X OpNames), failing : SUBSET Labels,
            lapse : BOOLEAN]

ASSUME AccountsOK ==
    /\ MaxId \in Nat \ {0}
    /\ \A i \in DOMAIN Conditions : Conditions[i] \in Setting
    /\ First \subseteq SUBSET Rows
    /\ \A t \in First : OneEach(t) /\ \A x, y \in t : Key(x) = Key(y) => x = y
    /\ \A t \in First : \A x \in t :
          /\ x.by \in Seeds /\ x.member = x.for
          /\ x.of \in Owned /\ x.member \in Prospects =>
                \E y \in t : y.of = "people" /\ y.member = x.member
    /\ Requests \intersect Seeds = {} /\ Prospects \intersect Cadets = {}
    /\ None \notin Refs \union Names \union Makers \union Rows

VARIABLES
    rows,   \* what is stored, by transactions that are committed
    pc,     \* where each request is
    op,     \* what it asks for
    my,     \* what its closures hold
    tx,     \* what its transaction has taken out and put in
    given   \* which condition holds

Given == Conditions[given]
vars == <<rows, pc, op, my, tx, given>>

-----------------------------------------------------------------------------
(* Tables, transactions, locks *)

\* open: a transaction runs; whole: the tables that it has locked: there are no indexes,
\* and what removes by anything else than _id scans a table from end to end.
NoTx == [open |-> FALSE, whole |-> {}, out |-> {}, in |-> {}]
Txs == [open : BOOLEAN, whole : SUBSET Tables, out : SUBSET Rows, in : SUBSET Rows]
Mine == [member : Refs \union {None}, found : Rows \union {None},
         token : Rows \union {None}, todo : SUBSET Rows, left : SUBSET Refs]

\* What request r sees: what is committed, and what its transaction has written.
View(r) == (rows \ tx[r].out) \union tx[r].in

\* Rows of table t of member m, and with name n.
About(r, t, m) == {x \in View(r) : x.of = t /\ x.member = m}
Named(r, t, n) == {x \in View(r) : x.of = t /\ x.name = n}

\* The only one there is, or None.
Only(S) == IF \E x \in S : S = {x} THEN CHOOSE x \in S : TRUE ELSE None

\* May r write the row of table t that has that _id, if there is one?
Unlocked(r, t, S) ==
    \A s \in Requests \ {r} : t \notin tx[s].whole /\ tx[s].out \intersect S = {}

\* May r scan table t to write in it?
Scans(r, t) == Unlocked(r, t, {x \in rows : x.of = t})

\* Rows are taken out and others put in at once, or when r commits.
Stores(out, in) == rows' = (rows \ out) \union in /\ UNCHANGED tx
Writes(r, out, in) ==
    \/ ~tx[r].open /\ Stores(out, in)
    \/ /\ tx[r].open
       /\ tx' = [tx EXCEPT ![r].out = @ \union (out \intersect rows),
                           ![r].in = (@ \ out) \union in]
       /\ UNCHANGED rows

\* Slip: nothing is rolled back.
RollbackNot(r) == UNCHANGED tx
Rollback(r) == tx' = [tx EXCEPT ![r] = NoTx]

Goto(r, label) == pc' = [pc EXCEPT ![r] = label]
Keeps(r, m) == my' = [my EXCEPT ![r] = m]
Reads(r, label, m) == Goto(r, label) /\ Keeps(r, m) /\ UNCHANGED <<rows, op, tx, given>>
Answers(r, label) == Goto(r, label) /\ UNCHANGED <<rows, op, my, tx, given>>

Active(r) == pc[r] \notin Ended \union {"idle"}
Is(r, names) == op[r].name \in names
Fails(r) == pc[r] \in Given.failing

Row(r, t, m, n, p) == [of |-> t, by |-> r, for |-> m, member |-> m, name |-> n, pw |-> p]

\* Two requests are about the same: a member, a username, everybody, who comes next (who
\* may be the one to be upgraded).
Involved(o) == {o.member, o.to} \union o.list
Related(o, p) ==
    \/ /\ {o.name, p.name} \intersect Logins # {}
       /\ {o.name, p.name} \subseteq Logins \union {"upgrade"}
    \/ "roles" \in {o.name, p.name}
    \/ ((Involved(o) \intersect Involved(p)) \ {None}) # {}
    \/ o.user # None /\ o.user = p.user

Together(o, p) == {<<o.name, p.name>>, <<p.name, o.name>>} \intersect Given.apart = {}

\* A request comes in.  What comes one at a time is how a squadron may be run, not
\* something the code enforces.
Arrive(r) ==
    /\ pc[r] = "idle"
    /\ \E o \in Given.menu :
          /\ \A s \in Requests : Active(s) /\ Related(o, op[s]) => Together(o, op[s])
          /\ op' = [op EXCEPT ![r] = o]
          /\ Keeps(r, [member |-> o.member, found |-> None, token |-> None, todo |-> {},
                       left |-> o.list])
          /\ Goto(r, CASE o.name \in Logins -> "newId"
                       [] o.name = "request" -> "info"
                       [] o.name = "finish" -> "validate"
                       [] o.name \in {"delete", "upgrade"} -> "find"
                       [] o.name = "roles" -> "start"
                       [] OTHER -> "member")
    /\ UNCHANGED <<rows, tx, given>>

\* Where a request goes when the steps of addUserAccount are over: who has created a
\* member with a password is told that all is well whatever has become of them.
After(r, good) == IF Is(r, {"random"}) THEN "mail"
                  ELSE IF good \/ Is(r, {"chosen"}) THEN "done" ELSE "failed"

\* A call is refused, or times out.  What fails in a transaction takes back all of it.
Fail(r) ==
    /\ Fails(r)
    /\ \/ pc[r] \in (Making \ {"name", "save", "drop"}) \union
             {"newId", "addPerson", "count", "mail", "validate", "find", "start", "finds",
              "peek", "register"}
       \/ pc[r] = "erase" /\ Is(r, {"delete"})
    /\ Goto(r, IF pc[r] \in Making THEN After(r, FALSE) ELSE "failed")
    /\ Rollback(r)
    /\ UNCHANGED <<rows, op, my, given>>

\* A streamed query is rejected: the process ends, with the requests it was at, and
\* the database takes back their transactions.
Crash(r) ==
    /\ pc[r] \in Streamed /\ Fails(r)
    /\ \E others \in SUBSET {s \in Requests : Active(s)} :
          LET lost == others \union {r} IN
          /\ pc' = [s \in Requests |-> IF s \in lost THEN "lost" ELSE pc[s]]
          /\ tx' = [s \in Requests |-> IF s \in lost THEN NoTx ELSE tx[s]]
    /\ UNCHANGED <<rows, op, my, given>>

\* Tokens of creation are good for 24 hours.
Lapse ==
    /\ Given.lapse
    /\ \E x \in rows : x.of = "tokens" /\ rows' = rows \ {x}
    /\ UNCHANGED <<pc, op, my, tx, given>>

-----------------------------------------------------------------------------
(* New prospective members *)

\* The first one of an account is number 2.
NewId(r) ==
    /\ pc[r] = "newId"
    /\ \E n \in 2..MaxId :
          /\ n - 1 \in {1} \union {x.member : x \in {y \in rows : y.of = "people"}}
          /\ \A x \in rows : x.of = "people" => x.member < n
          /\ Reads(r, "addPerson", [my[r] EXCEPT !.member = n])

\* addToCollection; what expandProspectiveMember reads about the new member changes
\* nothing, and may fail as the count of tokens may.
AddPerson(r) ==
    /\ pc[r] = "addPerson"
    /\ Stores({}, {Row(r, "people", my[r].member, None, None)})
    /\ Goto(r, "info")
    /\ UNCHANGED <<op, my, given>>

-----------------------------------------------------------------------------
(* addUserAccountCreationToken *)

\* A query that fails counts as a member without an account.
Info(r) ==
    LET x == Only(About(r, "users", my[r].member)) IN
    /\ pc[r] = "info"
    /\ \/ x # None /\ Answers(r, "failed")
       \/ (x = None \/ Fails(r)) /\ Answers(r, "count")

Count(r) ==
    /\ pc[r] = "count"
    /\ Answers(r, IF About(r, "tokens", my[r].member) = {} THEN "addToken" ELSE "failed")

\* The token is stored in a tap.
AddToken(r) ==
    LET t == Row(r, "tokens", my[r].member, None, None) IN
    /\ pc[r] = "addToken"
    /\ \/ Stores({}, {t})
       \/ Fails(r) /\ UNCHANGED <<rows, tx>>
    /\ Keeps(r, [my[r] EXCEPT !.token = t])
    /\ Goto(r, IF Is(r, {"random", "chosen"}) THEN "name" ELSE "mail")
    /\ UNCHANGED <<op, given>>

Mail(r) ==
    /\ pc[r] = "mail"
    /\ Answers(r, "done")

-----------------------------------------------------------------------------
(* addUserAccount *)

\* isUserValid.
Valid(x) == x # None /\ x.pw # None

\* validateUserAccountCreationToken: the token of a member to whom one was mailed.
Validate(r) ==
    LET Mailed(x) == x.by \in Seeds \/ (pc[x.by] = "done" /\ Is(x.by, {"link", "request"}))
        tokens == {x \in About(r, "tokens", op[r].member) : Mailed(x)}
    IN
    /\ pc[r] = "validate"
    /\ \/ tokens = {} /\ Answers(r, "failed")
       \/ \E x \in tokens : Reads(r, "name", [my[r] EXCEPT !.token = x])

\* The user of that name, unless it has a password.  A query that fails, or finds
\* several, counts as a name that nobody has.
NameFree(r) ==
    LET x == Only(Named(r, "users", op[r].user)) IN
    /\ pc[r] = "name"
    /\ \/ Valid(x) /\ Answers(r, After(r, FALSE))
       \/ ~Valid(x) /\ Reads(r, "rows", [my[r] EXCEPT !.found = x])
       \/ Fails(r) /\ Reads(r, "rows", [my[r] EXCEPT !.found = None])

\* The member has no account, or one without a password, or several.
MemberFree(r) ==
    LET x == Only(About(r, "users", my[r].member)) IN
    /\ pc[r] = "rows"
    /\ Answers(r, IF Valid(x) THEN After(r, FALSE) ELSE "member")

\* getMember, of the new account or of the session: CAP members are looked up elsewhere.
IsMember(r) ==
    /\ pc[r] = "member"
    /\ Answers(r, IF my[r].member \in Cadets \/ Only(About(r, "people", my[r].member)) # None
                  THEN IF Is(r, {"discord"}) THEN "peek" ELSE "addRow"
                  ELSE After(r, FALSE))

AddRow(r) ==
    /\ pc[r] = "addRow"
    /\ Stores({}, IF my[r].found # None THEN {}
                  ELSE {Row(r, "users", my[r].member, op[r].user, None)})
    /\ Goto(r, "read")
    /\ UNCHANGED <<op, my, given>>

\* addPasswordForUser reads the user by name, and looks at the password.
ReadBack(r) ==
    LET x == Only(Named(r, "users", op[r].user)) IN
    /\ pc[r] = "read"
    /\ \/ (x = None \/ op[r].weak) /\ Answers(r, After(r, FALSE))
       \/ x # None /\ ~op[r].weak /\ Reads(r, "save", [my[r] EXCEPT !.found = x])

\* saveInformationForUser: the patch, with the name, goes to all rows of that member.
\* It is made in a tap.
Save(r) ==
    LET x == my[r].found
        all == About(r, "users", x.member)
    IN
    /\ pc[r] = "save"
    /\ \/ /\ Scans(r, "users")
          /\ Stores(all, {[y EXCEPT !.name = x.name, !.pw = r] : y \in all})
       \/ Fails(r) /\ UNCHANGED <<rows, tx>>
    /\ Goto(r, "drop")
    /\ UNCHANGED <<op, my, given>>

\* removeAccountToken, in a tap too.
Drop(r) ==
    /\ pc[r] = "drop"
    /\ \/ Stores({my[r].token}, {})
       \/ Fails(r) /\ UNCHANGED <<rows, tx>>
    /\ Goto(r, After(r, TRUE))
    /\ UNCHANGED <<op, my, given>>

-----------------------------------------------------------------------------
(* Prospective members that go, and that become CAP members *)

\* getMember of the one that is to be deleted or upgraded.
Find(r) ==
    LET x == Only(About(r, "people", my[r].member)) IN
    /\ pc[r] = "find"
    /\ \/ x = None /\ Answers(r, "failed")
       \/ x # None /\ Reads(r, IF Is(r, {"delete"}) THEN "erase" ELSE "start",
                            [my[r] EXCEPT !.found = x])

\* Slip: no transaction is started.
StartNot(r) ==
    /\ pc[r] = "start"
    /\ Goto(r, IF Is(r, {"roles"}) THEN "clear" ELSE "erase")
    /\ UNCHANGED <<rows, op, my, tx, given>>

\* startTransaction.
Start(r) ==
    /\ pc[r] = "start"
    /\ tx' = [tx EXCEPT ![r].open = TRUE]
    /\ Goto(r, IF Is(r, {"roles"}) THEN "clear" ELSE "erase")
    /\ UNCHANGED <<rows, op, my, given>>

\* deleteFromCollectionA, by account and id.
Erase(r) ==
    LET gone == About(r, "people", my[r].member) IN
    /\ pc[r] = "erase"
    /\ Scans(r, "people")
    /\ \/ ~tx[r].open /\ Stores(gone, {})
       \/ /\ tx[r].open
          /\ tx' = [tx EXCEPT ![r].out = gone, ![r].whole = {"people"}]
          /\ UNCHANGED rows
    /\ Goto(r, IF Is(r, {"delete"}) THEN "done" ELSE "finds")
    /\ UNCHANGED <<op, my, given>>

\* AsyncEither.All does not wait for the others when one has failed: the transaction
\* is rolled back, and what remains of the upgrade goes on outside of it.
UpgradeFails(r) ==
    /\ Fails(r)
    /\ \/ /\ pc[r] = "erase" /\ Is(r, {"upgrade"})
          /\ Goto(r, "finds")
          /\ UNCHANGED my
       \/ /\ pc[r] = "replace"
          /\ \E x \in my[r].todo : Keeps(r, [my[r] EXCEPT !.todo = @ \ {x}])
          /\ UNCHANGED pc
    /\ Rollback(r)
    /\ UNCHANGED <<rows, op, given>>

\* Slip: the updater of permissions is left out.
UpdatedLess == {"users", "discord"}

\* The collections in which an upgrade puts the new reference for the old one; of those
\* modelled here, not that of tokens.
Updated == {"users", "perms", "discord"}

\* All queries of updateCollection are on their way before the first row is replaced.
Finds(r) ==
    /\ pc[r] = "finds"
    /\ Reads(r, "replace", [my[r] EXCEPT
          !.todo = UNION {About(r, t, my[r].member) : t \in Updated}])

\* replaceOne puts the row as it was read, with the new reference, in the place of what
\* is there by that _id now.
Replace(r) ==
    /\ pc[r] = "replace"
    /\ \E x \in my[r].todo :
          LET now == {y \in View(r) : Key(y) = Key(x)} IN
          /\ Unlocked(r, x.of, now)
          /\ Writes(r, now, IF now = {} THEN {} ELSE {[x EXCEPT !.member = op[r].to]})
          /\ Keeps(r, [my[r] EXCEPT !.todo = @ \ {x}])
    /\ UNCHANGED <<pc, op, given>>

Replaced(r) ==
    /\ pc[r] = "replace" /\ my[r].todo = {}
    /\ Answers(r, IF tx[r].open THEN "commit" ELSE "failed")

\* The commit is made in a tap: the answer is the same when it fails.
Commit(r) ==
    /\ pc[r] = "commit"
    /\ \/ rows' = View(r)
       \/ Fails(r) /\ UNCHANGED rows
    /\ tx' = [tx EXCEPT ![r] = NoTx]
    /\ Goto(r, "done")
    /\ UNCHANGED <<op, my, given>>

-----------------------------------------------------------------------------
(* Permissions *)

\* All records of the account are removed, in a tap.  The removal reads the whole
\* table, and so waits for whoever has changed it, and keeps others from adding to it.
Clear(r) ==
    /\ pc[r] = "clear"
    /\ \/ /\ Scans(r, "perms")
          /\ tx' = [tx EXCEPT ![r].out = {x \in rows : x.of = "perms"}, ![r].whole = {"perms"}]
       \/ Fails(r) /\ UNCHANGED tx
    /\ Goto(r, "set")
    /\ UNCHANGED <<rows, op, my, given>>

\* setPermissionsForMemberInAccount, for each of the list: it looks for the record,
Look(r) ==
    /\ pc[r] = "set"
    /\ \E m \in my[r].left :
          \/ Reads(r, "put", [my[r] EXCEPT !.member = m, !.found = Only(About(r, "perms", m))])
          \/ Fails(r) /\ Reads(r, "put", [my[r] EXCEPT !.member = m, !.found = None])

\* changes it, or adds one where there was none and also where the lookup or the change
\* has failed.  When it fails altogether the commit does not wait for the others of
\* the list, which go on outside of the transaction.
SetRole(r) ==
    LET m == my[r].member
        old == About(r, "perms", m)
    IN
    /\ pc[r] = "put"
    /\ \/ /\ my[r].found # None /\ Scans(r, "perms")
          /\ Writes(r, old, {[x EXCEPT !.pw = r] : x \in old})
       \/ /\ my[r].found = None \/ Fails(r)
          /\ Unlocked(r, "perms", {})
          /\ Writes(r, {}, {Row(r, "perms", m, None, r)})
       \/ Fails(r) /\ rows' = View(r) /\ tx' = [tx EXCEPT ![r] = NoTx]
    /\ Keeps(r, [my[r] EXCEPT !.left = @ \ {m}])
    /\ Goto(r, "set")
    /\ UNCHANGED <<op, given>>

RolesSet(r) ==
    /\ pc[r] = "set" /\ my[r].left = {}
    /\ Answers(r, IF tx[r].open THEN "commit" ELSE "done")

-----------------------------------------------------------------------------
(* registerdiscord *)

\* Slip: only the Discord account is looked for.
PeekName(r) ==
    /\ pc[r] = "peek"
    /\ Answers(r, IF Named(r, "discord", op[r].user) = {} THEN "register" ELSE "failed")

Peek(r) ==
    /\ pc[r] = "peek"
    /\ LET taken == About(r, "discord", op[r].member) \union Named(r, "discord", op[r].user)
       IN  Answers(r, IF taken = {} THEN "register" ELSE "failed")

Register(r) ==
    /\ pc[r] = "register"
    /\ Stores({}, {Row(r, "discord", op[r].member, op[r].user, None)})
    /\ Goto(r, "done")
    /\ UNCHANGED <<op, my, given>>

-----------------------------------------------------------------------------
(* The specification *)

Init ==
    /\ rows \in First
    /\ pc = [r \in Requests |-> "idle"]
    /\ op = [r \in Requests |-> None]
    /\ my = [r \in Requests |-> None]
    /\ tx = [r \in Requests |-> NoTx]
    /\ given \in DOMAIN Conditions

Step(r) ==
    \/ NewId(r) \/ AddPerson(r) \/ Info(r) \/ Count(r) \/ AddToken(r) \/ Mail(r)
    \/ Validate(r) \/ NameFree(r) \/ MemberFree(r) \/ IsMember(r) \/ AddRow(r)
    \/ ReadBack(r) \/ Save(r) \/ Drop(r)
    \/ Find(r) \/ Start(r) \/ Erase(r) \/ Finds(r) \/ Replace(r) \/ Replaced(r) \/ Commit(r)
    \/ Clear(r) \/ Look(r) \/ SetRole(r) \/ RolesSet(r) \/ Peek(r) \/ Register(r)

Rest == (\A r \in Requests : pc[r] \in Ended) /\ UNCHANGED vars

Next ==
    \/ \E r \in Requests : Arrive(r) \/ Step(r) \/ Fail(r) \/ UpgradeFails(r) \/ Crash(r)
    \/ Lapse
    \/ Rest

Spec == Init /\ [][Next]_vars

-----------------------------------------------------------------------------
(* What the module claims *)

\* Every variable has its type.
TypeOK ==
    /\ rows \subseteq Rows
    /\ \A x, y \in rows : Key(x) = Key(y) => x = y
    /\ pc \in [Requests -> Labels]
    /\ op \in [Requests -> Ops \union {None}]
    /\ my \in [Requests -> Mine \union {None}]
    /\ tx \in [Requests -> Txs]
    /\ given \in DOMAIN Conditions
    /\ \A r \in Requests :
          /\ pc[r] # "idle" => op[r] \in Ops /\ my[r] \in Mine
          /\ tx[r].open => Active(r) /\ tx[r].out \subseteq rows
          /\ ~tx[r].open => tx[r] = NoTx
          /\ \A s \in Requests : tx[r].out \intersect tx[s].out # {} => r = s

OneAtATime(a, b) == <<a, b>> \in Given.apart \/ <<b, a>> \in Given.apart
AllApart(S) == \A a, b \in S : OneAtATime(a, b)

\* Who has a token, and makes an account with it, or has done so.
Makes(r) == pc[r] # "idle" /\ Is(r, Creating) /\ my[r].token # None

\* Whoever gets as far as that keeps to one username.  Others may ask for the same one.
\* Who has the number of somebody who is gone cannot be told from him: he has to go by
\* the same username, or is to be refused a token.
NamesKept ==
    \A r \in Requests : Makes(r) =>
        /\ \A s \in Requests :
              Makes(s) /\ my[s].member = my[r].member => op[s].user = op[r].user
        /\ \A t \in First : \A x \in t :
              x.of = "users" /\ x.member = my[r].member => x.name = op[r].user

\* Who is upgraded to has nothing of his own, and is so once.
UpgradedOnce ==
    \A r \in Requests : pc[r] # "idle" /\ Is(r, {"upgrade"}) =>
        /\ \A s \in Requests \ {r} : pc[s] # "idle" => op[r].to \notin Involved(op[s])
        /\ \A t \in First : \A x \in t : x.member # op[r].to

\* What it takes to keep one record each: accounts are made one at a time for one member
\* and with one name, each member keeps to a name, nobody is upgraded to twice, and names
\* and permissions are looked up, removed and set without fail.
Steady ==
    /\ AllApart(Creating) /\ AllApart({"discord"})
    /\ {"name", "clear", "set", "put"} \intersect Given.failing = {}
    /\ NamesKept /\ UpgradedOnce

\* No member has two accounts, two sets of permissions or two Discord accounts, and no
\* name two members: getInformationForMember, getInformationForUser and
\* getPermissionsRecordForMemberInAccount fail for whoever has two.  Nothing but the
\* lookups before each addition sees to that.
OneOfEach == Steady => OneEach(rows)

\* The number of the newest prospective member is handed out again when that one is
\* gone.  As long as they go by upgrades only, with nothing made for them meanwhile, and
\* nobody gives permissions to them, nobody inherits what somebody else had.
NewcomersFresh ==
    [][ /\ \A o \in Given.menu : o.name # "delete" /\ o.list \subseteq Cadets
        /\ AllApart(Logins)
        /\ \A a \in Creating \union {"discord"} : OneAtATime(a, "upgrade")
        => \A x \in rows' \ rows : x.of = "people" /\ (\A y \in rows : Key(y) # Key(x)) =>
              ~\E y \in rows' : y.of \in Owned /\ y.member = x.member ]_vars

\* The step commits an upgrade of m.
Upgraded(m) ==
    \E r \in Requests : /\ pc[r] = "commit" /\ pc'[r] = "done"
                        /\ Is(r, {"upgrade"}) /\ op[r].member = m

\* An upgrade is seen whole or not at all: with the first row that has the new
\* reference the person is gone, with the person all rows that had the old one.
UpgradeWhole ==
    [][ /\ {"erase", "replace"} \intersect Given.failing = {}
        /\ \A a \in OpNames : OneAtATime(a, "upgrade")
        => \A m \in Prospects :
              LET Of(t, x) == x.of \in t /\ x.member = m
                  moved == \E x \in rows, y \in rows' :
                              Key(x) = Key(y) /\ Of(Owned, x) /\ y.member # m
              IN
              /\ moved => Upgraded(m)
              /\ Upgraded(m) /\ rows' # rows =>
                    ~\E y \in rows' : Of(Owned \union {"people"}, y) ]_vars

=============================================================================
