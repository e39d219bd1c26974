------------------------------- MODULE SignIn -------------------------------
(***************************************************************************)
(* Signing in, passwords, sessions, second factors and form tokens         *)
(* (Auth.ts, Password.ts and Session.ts of server-common/src/member/pam    *)
(* and the handlers that call them).                                       *)
(*                                                                         *)
(* An action is what one request does between two awaits that touch shared *)
(* state.  Nothing here is done in a transaction, and the collections have *)
(* no unique key other than _id.  Random ids and tokens are drawn from     *)
(* those that nobody holds.                                                *)
(***************************************************************************)
EXTENDS Integers, Sequences, FiniteSets

CONSTANTS
    Users,          \* users with an account (UserAccountInfo)
    Passwords,      \* those that meet the requirements
    HistoryLength,  \* PASSWORD_HISTORY_LENGTH
    Histories,      \* passwords that users may have at the beginning
    Standing,       \* sessions that there may be at the beginning
    Ids,            \* session ids
    Secrets,        \* secrets for a second factor
    Forms,          \* form tokens
    Issued,         \* those that users have at the beginning
    Resets,         \* password reset tokens
    Fitted,         \* set-ups and second factors, alike
    Requests,
    Menu,           \* the operations that requests may ask for
    Apart,          \* pairs of operations that do not overlap for one user
    Failing,        \* the places where a call may fail
    Undef           \* no row, or a field that is not given

\* change: member/passwordreset; second: session/finishmfa; scan:
\* session/setscanaddsession; start, finish: session/startmfasetup and
\* finishmfasetup; form: /api/token; visit: any other request of a member;
\* request, reset: account/requestpasswordreset and finishpasswordreset.
WithForm == {"change", "second", "scan", "start", "finish"}
InSession == WithForm \union {"form", "visit"}
OpNames == InSession \union {"signin", "request", "reset"}

\* user: whose session, account or token it is.
Ops == [name : OpNames, user : Users, id : Ids \union {Undef},
        pw : Passwords \union {Undef}, form : Forms \union {Undef},
        reset : Resets \union {Undef}]

\* How old a password is: up to PASSWORD_MAX_AGE, older, or older and from
\* before February 2024, which is when signing in says that it has expired.
Ages == {"new", "aged", "old"}
Entries == [pw : Passwords, age : Ages]

Types == {"REGULAR", "SCAN_ADD", "PASSWORD_RESET", "IN_PROGRESS_MFA"}

\* until: it is over, or expires in a few minutes or when an event ends.
Stored == [user : Users, type : Types, until : {"over", "soon", "event"}]

Ended == {"done", "failed"}
Labels == Ended \union {"idle", "door", "renew", "token", "spend", "lookup",
    "reread", "rehash", "factor", "create", "limit", "greet", "save", "upgrade",
    "verify", "expiry", "setup", "propose", "confirm", "enable", "issue",
    "mail", "redeem", "consume"}

ASSUME SetsOK ==
    /\ HistoryLength \in Nat \ {0}
    /\ IsFiniteSet(Secrets)
    /\ Histories \subseteq {h \in Seq(Entries) : Len(h) <= HistoryLength}
    /\ Standing \subseteq [Ids -> Stored \union {Undef}]
    /\ \A t \in Standing, i \in Ids :
          t[i] # Undef /\ t[i].type = "SCAN_ADD" => t[i].until # "soon"
    /\ Menu \subseteq Ops
    /\ \A o \in Menu : /\ o.name \in InSession => o.id # Undef
                       /\ o.name \in WithForm \union {"form"} => o.form # Undef
                       /\ o.name \in {"signin", "change", "reset"} => o.pw # Undef
                       /\ o.name \in {"request", "reset"} => o.reset # Undef
    /\ Issued \subseteq Forms
    /\ Fitted \subseteq (SUBSET (Users \X Secrets)) \X (SUBSET (Users \X Secrets))
    /\ \A t \in Fitted, u \in Users :
          Cardinality({x \in Secrets : <<u, x>> \in t[1] \union t[2]}) <= 1
    /\ Apart \subseteq OpNames \X OpNames
    /\ Failing \subseteq Labels
    /\ Undef \notin Users \union Ids \union Passwords \union Forms \union Resets \union Secrets

VARIABLES
    info,      \* passwordHistory of each user, the newest first
    resets,    \* PasswordResetTokens: whose each is
    sessions,  \* Sessions
    forms,     \* Tokens: whose each is
    setups,    \* MFASetup: pairs of a user and a secret
    secrets,   \* MFATokens, alike
    pc,        \* where each request is
    op,        \* what it asks for
    my,        \* what it has read or made
    born,      \* session ids that have been made
    shown,     \* those that users have been given
    guarded,   \* sessions of those who had a second factor when signing in
    proven,    \* sessions for which a second factor has been verified
    owed       \* sessions for which the password was to be changed, and no other
               \* has been handed over to be saved since

account == <<info, resets>>
factors == <<setups, secrets>>
ghosts == <<born, shown, guarded, proven, owed>>
vars == <<info, resets, sessions, forms, setups, secrets, pc, op, my, born, shown,
          guarded, proven, owed>>

-----------------------------------------------------------------------------
(* Requests *)

Active(r) == pc[r] \notin Ended \union {"idle"}

\* read: a passwordHistory; id and type: of a session; secret: one for a second
\* factor; late: the password has expired; mine: the token is of the same member;
\* todo: what is left to do.
Blank == [read |-> <<>>, id |-> Undef, type |-> "REGULAR", secret |-> Undef,
          late |-> FALSE, mine |-> FALSE, todo |-> {}]

\* Request r goes on at label with what it has in m, all of it gone at the end.
Goes(r, label, m) ==
    /\ pc' = [pc EXCEPT ![r] = label]
    /\ my' = [my EXCEPT ![r] = IF label \in Ended THEN Blank ELSE m]
    /\ UNCHANGED op

Goto(r, label) == Goes(r, label, my[r])

Is(r, names) == op[r].name \in names

\* Whose password, session or token it is about.
Whose(r) == op[r].user

First(name) ==
    CASE name \in InSession -> "door"
      [] name \in {"signin", "request"} -> "lookup"
      [] name = "reset" -> "redeem"

\* The random token that o is about to make is one that nobody has had.
New(o) ==
    /\ o.name = "form" => forms[o.form] = Undef
    /\ o.name = "request" => resets[o.reset] = Undef
    /\ \A s \in Requests : pc[s] # "idle" =>
          /\ o.name = "form" => op[s].form # o.form
          /\ o.name = "request" => op[s].reset # o.reset

\* A request comes in.  Users do not send the operations of a pair in Apart at
\* the same time; the code does nothing to prevent it.
Arrive(r) ==
    /\ pc[r] = "idle"
    /\ \E o \in Menu :
          /\ \A s \in Requests : Active(s) /\ op[s].user = o.user =>
                <<o.name, op[s].name>> \notin Apart /\ <<op[s].name, o.name>> \notin Apart
          /\ o.id # Undef => /\ o.id \in shown
                             /\ sessions[o.id] # Undef => sessions[o.id].user = o.user
          /\ o.name \in {"form", "request"} => New(o)
          /\ op' = [op EXCEPT ![r] = o]
          /\ pc' = [pc EXCEPT ![r] = First(o.name)]
    /\ UNCHANGED <<account, sessions, forms, factors, my, ghosts>>

\* Calls whose failure is not noticed: they are made in a tap.
Tapped(r) ==
    \/ pc[r] \in {"save", "enable", "consume"}
    \/ pc[r] = "upgrade" /\ Is(r, {"second"})

Refuse(r) ==
    /\ Goto(r, "failed")
    /\ UNCHANGED <<account, sessions, forms, factors, ghosts>>

Fail(r) ==
    /\ pc[r] \in Failing
    /\ Active(r)
    /\ ~Tapped(r)
    /\ Refuse(r)

-----------------------------------------------------------------------------
(* Sessions: validateSession and the form token of the request *)

Live(i) == sessions[i] # Undef /\ sessions[i].until # "over"

\* removeOldSessions and getSessionFromID, and the check of RequireSessionType
\* as soon as it can be told.
Door(r) ==
    LET i == op[r].id IN
    /\ pc[r] = "door"
    /\ sessions' = [j \in Ids |-> IF Live(j) THEN sessions[j] ELSE Undef]
    /\ IF Live(i)
       THEN Goes(r, "renew", [my[r] EXCEPT !.id = i, !.type = sessions[i].type])
       ELSE Goto(r, "failed")
    /\ UNCHANGED <<account, forms, factors, ghosts>>

\* Slip: any session can become one for scanning.
AllowedLax(name) ==
    CASE name = "change" -> {"REGULAR", "PASSWORD_RESET"}
      [] name = "second" -> {"IN_PROGRESS_MFA"}
      [] name \in {"start", "finish"} -> {"REGULAR"}
      [] OTHER -> Types

\* The types of session that RequireSessionType lets an operation have.
Allowed(name) ==
    CASE name = "change" -> {"REGULAR", "PASSWORD_RESET"}
      [] name = "second" -> {"IN_PROGRESS_MFA"}
      [] name \in {"scan", "start", "finish"} -> {"REGULAR"}
      [] OTHER -> Types

\* What an operation does first once the session and the token have been seen to.
Then(name) ==
    CASE name = "change" -> "lookup"
      [] name = "second" -> "verify"
      [] name = "scan" -> "upgrade"
      [] name = "start" -> "setup"
      [] name = "finish" -> "confirm"
      [] name = "form" -> "issue"
      [] name = "visit" -> "done"

\* RequireSessionType.
Admit(r) == IF my[r].type \in Allowed(op[r].name) THEN Then(op[r].name) ELSE "failed"

\* Slip: every session is renewed.
RenewedAlways(r) ==
    IF sessions[my[r].id] # Undef
    THEN [sessions EXCEPT ![my[r].id].until = "soon"] ELSE sessions

\* updateSessionExpireTime: by what the request has read.
Renewed(r) ==
    IF my[r].type = "REGULAR" /\ sessions[my[r].id] # Undef
    THEN [sessions EXCEPT ![my[r].id].until = "soon"] ELSE sessions

Renew(r) ==
    /\ pc[r] = "renew"
    /\ sessions' = Renewed(r)
    /\ Goto(r, IF Is(r, WithForm) THEN "token" ELSE Admit(r))
    /\ UNCHANGED <<account, forms, factors, ghosts>>

\* isTokenValid: the token is found, ...
Token(r) ==
    /\ pc[r] = "token"
    /\ Goes(r, IF forms[op[r].form] # Undef THEN "spend" ELSE "failed",
            [my[r] EXCEPT !.mine = forms[op[r].form] = Whose(r)])
    /\ UNCHANGED <<account, sessions, forms, factors, ghosts>>

\* ... removed, and compared with the member.
Spend(r) ==
    /\ pc[r] = "spend"
    /\ forms' = [forms EXCEPT ![op[r].form] = Undef]
    /\ Goto(r, IF my[r].mine THEN Admit(r) ELSE "failed")
    /\ UNCHANGED <<account, sessions, factors, ghosts>>

\* getTokenForUser.
Issue(r) ==
    /\ pc[r] = "issue"
    /\ forms' = [forms EXCEPT ![op[r].form] = Whose(r)]
    /\ Goto(r, "done")
    /\ UNCHANGED <<account, sessions, factors, ghosts>>

-----------------------------------------------------------------------------
(* Passwords *)

Pws(h) == [i \in 1..Len(h) |-> h[i].pw]
Used(h) == {h[i].pw : i \in 1..Len(h)}

Upto(n, s) == SubSeq(s, 1, IF Len(s) < n THEN Len(s) ELSE n)

\* isUserValid and isPasswordValidForUser.
Matches(r, h) == Len(h) > 0 /\ h[1].pw = op[r].pw

\* Slip: only the newest password may not be used again.
RefusedNewest(r, h) == Len(h) > 0 /\ op[r].pw = h[1].pw

\* hasPasswordBeenUsed.
Refused(r, h) == op[r].pw \in Used(h)

\* Slip: a password that has been used is looked up until it has not.
AfterLookupAgain(r, h) ==
    CASE Is(r, {"signin"}) -> IF Matches(r, h) THEN "reread" ELSE "failed"
      [] Is(r, {"change", "reset"}) -> IF Refused(r, h) THEN "lookup" ELSE "save"
      [] Is(r, {"request"}) -> "mail"

\* To sign in takes a valid password, to change it one that has not been used and
\* to ask for a reset any account.
AfterLookup(r, h) ==
    CASE Is(r, {"signin"}) -> IF Matches(r, h) THEN "reread" ELSE "failed"
      [] Is(r, {"change", "reset"}) -> IF Refused(r, h) THEN "failed" ELSE "save"
      [] Is(r, {"request"}) -> "mail"

\* getInformationForUser.
Lookup(r) ==
    LET h == info[Whose(r)] IN
    /\ pc[r] = "lookup"
    /\ Goes(r, AfterLookup(r, h), [my[r] EXCEPT !.read = h, !.late = Len(h) > 0 /\ h[1].age = "old"])
    /\ UNCHANGED <<account, sessions, forms, factors, ghosts>>

\* updatePasswordForUser reads the account again, ...
Reread(r) ==
    /\ pc[r] = "reread"
    /\ Goes(r, IF info[Whose(r)] = <<>> THEN "failed" ELSE "rehash",
            [my[r] EXCEPT !.read = info[Whose(r)]])
    /\ UNCHANGED <<account, sessions, forms, factors, ghosts>>

\* ... puts a new hash of the password that has been given in the place of the
\* newest and saves it all.  This is done at every sign-in: the length of the
\* stored hash, in hex, is never DEFAULT_PASSWORD_STORED_LENGTH.
Rehashed(r) == [my[r].read EXCEPT ![1].pw = op[r].pw]

Rehash(r) ==
    /\ pc[r] = "rehash"
    /\ info' = [info EXCEPT ![Whose(r)] = Rehashed(r)]
    /\ Goto(r, "factor")
    /\ UNCHANGED <<resets, sessions, forms, factors, ghosts>>

\* Slip: the history is not cut.
AddedUncut(r) == <<[pw |-> op[r].pw, age |-> "new"]>> \o my[r].read

\* addPasswordForUser.
Added(r) == Upto(HistoryLength, <<[pw |-> op[r].pw, age |-> "new"]>> \o my[r].read)

\* Where a request goes when the password has been saved, or has not.
AfterSave(r) ==
    CASE Is(r, {"reset"}) -> "consume"
      [] Is(r, {"change"}) -> IF my[r].type = "PASSWORD_RESET" THEN "upgrade" ELSE "done"

\* What is left of owed.
OwedWithout(u) == {i \in owed : sessions[i] # Undef /\ sessions[i].user # u}

Save(r) ==
    /\ pc[r] = "save"
    /\ info' = [info EXCEPT ![Whose(r)] = Added(r)]
    /\ owed' = OwedWithout(Whose(r))
    /\ Goto(r, AfterSave(r))
    /\ UNCHANGED <<resets, sessions, forms, factors, born, shown, guarded, proven>>

\* The save is made in a tap: the request goes on as if it had succeeded.
SaveFails(r) ==
    /\ pc[r] = "save" /\ "save" \in Failing
    /\ owed' = OwedWithout(Whose(r))
    /\ Goto(r, AfterSave(r))
    /\ UNCHANGED <<account, sessions, forms, factors, born, shown, guarded, proven>>

-----------------------------------------------------------------------------
(* Password reset tokens *)

\* createPasswordResetToken and the mail.
Mail(r) ==
    /\ pc[r] = "mail"
    /\ resets' = [resets EXCEPT ![op[r].reset] = Whose(r)]
    /\ \/ Goto(r, "done")
       \/ "mail" \in Failing /\ Goto(r, "failed")
    /\ UNCHANGED <<info, sessions, forms, factors, ghosts>>

\* validatePasswordResetToken.
Redeem(r) ==
    /\ pc[r] = "redeem"
    /\ Goto(r, IF resets[op[r].reset] = Whose(r) THEN "lookup" ELSE "failed")
    /\ UNCHANGED <<account, sessions, forms, factors, ghosts>>

\* removePasswordValidationToken, in a tap.
Consume(r) ==
    /\ pc[r] = "consume"
    /\ \/ resets' = [resets EXCEPT ![op[r].reset] = Undef]
       \/ "consume" \in Failing /\ UNCHANGED resets
    /\ Goto(r, "create")
    /\ UNCHANGED <<info, sessions, forms, factors, ghosts>>

-----------------------------------------------------------------------------
(* Signing in *)

\* The secrets of a user, and the set-ups that have been started.
SecretsOf(u) == {x \in Secrets : <<u, x>> \in secrets}
SetupsOf(u) == {x \in Secrets : <<u, x>> \in setups}

\* getUserID, getMember and memberUsesMFA.
Factor(r) ==
    /\ pc[r] = "factor"
    /\ Goes(r, "create", [my[r] EXCEPT !.todo =
                              IF Cardinality(SecretsOf(Whose(r))) = 1 THEN {"factor"} ELSE {}])
    /\ UNCHANGED <<account, sessions, forms, factors, ghosts>>

NewSession(u) == [user |-> u, type |-> "REGULAR", until |-> "soon"]

Limits(r) == Is(r, {"signin"}) /\ (my[r].todo # {} \/ my[r].late)

\* createSessionForUser.
Create(r) ==
    /\ pc[r] = "create"
    /\ \E i \in Ids \ born :
          /\ sessions' = [sessions EXCEPT ![i] = NewSession(Whose(r))]
          /\ Goes(r, IF Limits(r) THEN "limit" ELSE "greet", [my[r] EXCEPT !.id = i])
          /\ guarded' = IF my[r].todo # {} THEN guarded \union {i} ELSE guarded
          /\ born' = born \union {i}
    /\ UNCHANGED <<account, forms, factors, shown, proven, owed>>

\* updateSession: the whole session as the request has it, with another type,
\* whatever has become of it meanwhile.  It expires when it did, because sessions
\* of the types that are changed so are not renewed.
Put(r, type) ==
    IF sessions[my[r].id] = Undef THEN sessions
    ELSE [sessions EXCEPT ![my[r].id] =
            [user |-> @.user, type |-> type,
             until |-> IF type = "SCAN_ADD" THEN "event" ELSE @.until]]

\* Slip: an expired password comes first.
LimitedByAge(r) == IF my[r].late THEN "PASSWORD_RESET" ELSE "IN_PROGRESS_MFA"

\* What the session of a sign-in may be used for.
Limited(r) == IF my[r].todo # {} THEN "IN_PROGRESS_MFA" ELSE "PASSWORD_RESET"

Limit(r) ==
    /\ pc[r] = "limit"
    /\ sessions' = Put(r, Limited(r))
    /\ owed' = IF Limited(r) = "PASSWORD_RESET" THEN owed \union {my[r].id} ELSE owed
    /\ Goto(r, "greet")
    /\ UNCHANGED <<account, forms, factors, born, shown, guarded, proven>>

\* The answer carries the session id.
Greet(r) ==
    /\ pc[r] = "greet"
    /\ shown' = shown \union {my[r].id}
    /\ Goto(r, "done")
    /\ UNCHANGED <<account, sessions, forms, factors, born, guarded, proven, owed>>

\* verifyMFAToken: exactly one secret, of which the user has shown a code.
Verify(r) ==
    /\ pc[r] = "verify"
    /\ \/ /\ Cardinality(SecretsOf(Whose(r))) = 1
          /\ proven' = proven \union {my[r].id}
          /\ Goto(r, "expiry")
       \/ Goto(r, "failed") /\ UNCHANGED proven
    /\ UNCHANGED <<account, sessions, forms, factors, born, shown, guarded, owed>>

\* checkIfPasswordExpired: here every password expires.
Expiry(r) ==
    LET h == info[Whose(r)] IN
    /\ pc[r] = "expiry"
    /\ Goes(r, IF h = <<>> THEN "failed" ELSE "upgrade",
            [my[r] EXCEPT !.late = h # <<>> /\ h[1].age # "new"])
    /\ UNCHANGED <<account, sessions, forms, factors, ghosts>>

\* What a session becomes.
Upgraded(r) ==
    CASE Is(r, {"second"}) -> IF my[r].late THEN "PASSWORD_RESET" ELSE "REGULAR"
      [] Is(r, {"change"}) -> "REGULAR"
      [] Is(r, {"scan"}) -> "SCAN_ADD"

Upgrade(r) ==
    /\ pc[r] = "upgrade"
    /\ sessions' = Put(r, Upgraded(r))
    /\ owed' = IF Upgraded(r) = "PASSWORD_RESET" THEN owed \union {my[r].id} ELSE owed
    /\ Goto(r, "done")
    /\ UNCHANGED <<account, forms, factors, born, shown, guarded, proven>>

\* finishmfa updates the session in a tap.
UpgradeFails(r) ==
    /\ pc[r] = "upgrade" /\ Is(r, {"second"}) /\ "upgrade" \in Failing
    /\ Goto(r, "done")
    /\ UNCHANGED <<account, sessions, forms, factors, ghosts>>

-----------------------------------------------------------------------------
(* Setting up a second factor *)

\* Slip: a set-up may be started anew.
NothingSetUpYet(u) == SecretsOf(u) = {}

NothingSetUp(u) == SetupsOf(u) = {} /\ SecretsOf(u) = {}

\* startMFASetup looks whether there is a set-up or a secret, ...
Setup(r) ==
    /\ pc[r] = "setup"
    /\ Goto(r, IF NothingSetUp(Whose(r)) THEN "propose" ELSE "failed")
    /\ UNCHANGED <<account, sessions, forms, factors, ghosts>>

\* ... makes a secret and stores it.
Propose(r) ==
    /\ pc[r] = "propose"
    /\ \E x \in {y \in Secrets : \A u \in Users : <<u, y>> \notin setups \union secrets} :
          setups' = setups \union {<<Whose(r), x>>}
    /\ Goto(r, "done")
    /\ UNCHANGED <<account, sessions, forms, secrets, ghosts>>

\* finishMFASetup finds exactly one set-up, of which the user has shown a code.
Confirm(r) ==
    /\ pc[r] = "confirm"
    /\ \/ \E x \in Secrets :
             /\ SetupsOf(Whose(r)) = {x}
             /\ Goes(r, "enable", [my[r] EXCEPT !.secret = x, !.todo = {"remove", "add"}])
       \/ Goto(r, "failed")
    /\ UNCHANGED <<account, sessions, forms, factors, ghosts>>

\* Two writes at once, in a tap: either may come first, and either may fail.  A
\* secret that is there already is not added twice, because it keeps its _id.
Enable(r) ==
    /\ pc[r] = "enable"
    /\ \E w \in my[r].todo, ok \in IF "enable" \in Failing THEN BOOLEAN ELSE {TRUE} :
          /\ Goes(r, IF my[r].todo = {w} THEN "done" ELSE "enable", [my[r] EXCEPT !.todo = @ \ {w}])
          /\ setups' = IF w = "remove" /\ ok
                       THEN {t \in setups : t[1] # Whose(r)} ELSE setups
          /\ secrets' = IF w = "add" /\ ok
                        THEN secrets \union {<<Whose(r), my[r].secret>>} ELSE secrets
    /\ UNCHANGED <<account, sessions, forms, ghosts>>

-----------------------------------------------------------------------------
(* The specification *)

\* Some users have passwords, second factors and sessions.
Init ==
    /\ info \in [Users -> Histories]
    /\ resets = [t \in Resets |-> Undef]
    /\ forms \in [Forms -> Users \union {Undef}]
    /\ Issued = {f \in Forms : forms[f] # Undef}
    /\ sessions \in Standing
    /\ \E t \in Fitted : setups = t[1] /\ secrets = t[2]
    /\ pc = [r \in Requests |-> "idle"]
    /\ op = [r \in Requests |-> Undef]
    /\ my = [r \in Requests |-> Blank]
    /\ born = {i \in Ids : sessions[i] # Undef}
    /\ shown = born
    /\ guarded = {i \in shown : sessions[i].type = "IN_PROGRESS_MFA"}
    /\ owed = {i \in shown : sessions[i].type = "PASSWORD_RESET"}
    /\ proven = {}

\* Time passes, and a session is over.  A token that has become too old is like
\* one that cannot be read.
Lapse(i) ==
    /\ Live(i)
    /\ sessions' = [sessions EXCEPT ![i].until = "over"]
    /\ UNCHANGED <<account, forms, factors, pc, op, my, ghosts>>

Step(r) ==
    \/ Door(r) \/ Renew(r) \/ Token(r) \/ Spend(r) \/ Issue(r)
    \/ Lookup(r) \/ Reread(r) \/ Rehash(r) \/ Save(r) \/ Mail(r) \/ Redeem(r) \/ Consume(r)
    \/ Factor(r) \/ Create(r) \/ Limit(r) \/ Greet(r) \/ Verify(r) \/ Expiry(r) \/ Upgrade(r)
    \/ Setup(r) \/ Propose(r) \/ Confirm(r) \/ Enable(r)

Slack(r) == Fail(r) \/ SaveFails(r) \/ UpgradeFails(r)

\* Every request has been answered.
Rest == (\A r \in Requests : ~Active(r)) /\ UNCHANGED vars

Next ==
    \/ \E r \in Requests : Arrive(r) \/ Step(r) \/ Slack(r)
    \/ \E i \in Ids : Lapse(i)
    \/ Rest

Spec == Init /\ [][Next]_vars

\* A request that has come in is worked on: every await settles.
FairSpec == Spec /\ \A r \in Requests : WF_vars(Step(r))

-----------------------------------------------------------------------------
(* Properties *)

Mine == [read : Seq(Entries), id : Ids \union {Undef}, type : Types,
         secret : Secrets \union {Undef}, late : BOOLEAN, mine : BOOLEAN,
         todo : SUBSET {"factor", "remove", "add"}]

\* All variables stay within what they are made of: histories are never longer than
\* the limit, and a request has what its kind of operation needs.
TypeOK ==
    /\ info \in [Users -> Seq(Entries)]
    /\ \A u \in Users : Len(info[u]) <= HistoryLength
    /\ resets \in [Resets -> Users \union {Undef}]
    /\ sessions \in [Ids -> Stored \union {Undef}]
    /\ forms \in [Forms -> Users \union {Undef}]
    /\ setups \subseteq Users \X Secrets
    /\ secrets \subseteq Users \X Secrets
    /\ pc \in [Requests -> Labels]
    /\ op \in [Requests -> Ops \union {Undef}]
    /\ my \in [Requests -> Mine]
    /\ born \subseteq Ids /\ shown \subseteq Ids /\ guarded \subseteq Ids
    /\ proven \subseteq Ids /\ owed \subseteq Ids

\* Passwords are what PasswordBook says: each is put on top of those that were
\* there, and none of them is among the last few.  A request that saves passwords
\* it read before another changed them, or that re-hashes the wrong one, breaks it.
Book == INSTANCE PasswordBook WITH book <- [u \in Users |-> Pws(info[u])]
ImplementsPasswordBook == Book!Spec

Full == {"REGULAR", "SCAN_ADD"}

\* Whoever had a second factor when signing in has shown it before the session is
\* good for more than showing it.
SecondFactorShown ==
    \A i \in guarded \intersect shown :
        sessions[i] # Undef /\ sessions[i].type # "IN_PROGRESS_MFA" => i \in proven

\* A session that was given to change a password is good for more only when
\* another has been handed over to be saved since (a save that fails is not
\* noticed).
ExpiredPasswordChanged ==
    \A i \in owed : sessions[i] # Undef => sessions[i].type \notin Full

\* A member has at most one second factor and one set-up, without which neither
\* verifyMFAToken, finishMFASetup nor memberUsesMFA work.
OneFactor ==
    \A u \in Users : Cardinality(SecretsOf(u)) <= 1 /\ Cardinality(SetupsOf(u)) <= 1

\* A session for scanning ids at an event stays one, and lasts until the event
\* ends.
ScanSessionStays ==
    [][\A i \in Ids :
          /\ sessions[i] # Undef /\ sessions[i].type = "SCAN_ADD"
          /\ sessions'[i] # Undef
          => /\ sessions'[i].type = "SCAN_ADD"
             /\ sessions'[i].until \in {"over", "event"}]_vars

\* Every request is answered.
RequestsAnswered == \A r \in Requests : Active(r) ~> ~Active(r)

\* A form token is good for one request.
FormsUsedOnce ==
    \A r, s \in Requests :
        /\ pc[r] = "done" /\ pc[s] = "done"
        /\ Is(r, WithForm) /\ Is(s, WithForm)
        /\ op[r].form = op[s].form
        => r = s
=============================================================================
