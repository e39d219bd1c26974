---------------------------- MODULE SignInProofs ----------------------------
(***************************************************************************)
(* Whatever users and requests there are and whichever calls fail: who has *)
(* a second factor shows it before a session is good for more.  As far as  *)
(* the operations that would disturb it do not overlap, an expired         *)
(* password is changed first, a member has one second factor, a session    *)
(* for scanning stays one, and passwords come on top of those that were    *)
(* there.                                                                  *)
(***************************************************************************)
EXTENDS SignIn, FiniteSetTheorems, SequenceTheorems, TLAPS

\* The operations that pass a place.
Doers(label) ==
    CASE label \in {"door", "renew"} -> InSession
      [] label \in {"token", "spend"} -> WithForm
      [] label = "lookup" -> {"signin", "request", "reset", "change"}
      [] label \in {"reread", "rehash", "factor", "limit"} -> {"signin"}
      [] label \in {"create", "greet"} -> {"signin", "reset"}
      [] label = "save" -> {"change", "reset"}
      [] label = "mail" -> {"request"}
      [] label \in {"redeem", "consume"} -> {"reset"}
      [] label = "upgrade" -> {"change", "second", "scan"}
      [] label \in {"verify", "expiry"} -> {"second"}
      [] label \in {"setup", "propose"} -> {"start"}
      [] label \in {"confirm", "enable"} -> {"finish"}
      [] label = "issue" -> {"form"}

\* A request that has been let into a session, and one that makes a session.
Inside(r) == Active(r) /\ Is(r, InSession) /\ pc[r] # "door"
Making(r) == pc[r] \in {"limit", "greet"}

\* Past the check of RequireSessionType.
Admitted(r) == Inside(r) /\ pc[r] \notin {"renew", "token", "spend"}

\* What a request has where it needs it.
Control ==
    \A r \in Requests :
        /\ pc[r] # "idle" => op[r] \in Menu
        /\ Active(r) => op[r].name \in Doers(pc[r])
        /\ Inside(r) => my[r].id = op[r].id
        /\ Making(r) => my[r].id \in Ids
        /\ pc[r] = "rehash" => my[r].read # <<>>
        /\ pc[r] = "enable" => my[r].secret \in Secrets
        /\ Len(my[r].read) <= HistoryLength
        /\ pc[r] = "idle" \/ (Active(r) /\ Is(r, {"reset"})) => my[r].todo = {}

IInv == TypeOK /\ Control

\* What a request knows of the session that it is in.
Insight(r) ==
    /\ Active(r) /\ Is(r, InSession) =>
          /\ op[r].id \in shown
          /\ sessions[op[r].id] # Undef => sessions[op[r].id].user = op[r].user
    /\ Inside(r) /\ op[r].id \in guarded /\ my[r].type # "IN_PROGRESS_MFA" => op[r].id \in proven
    /\ Admitted(r) => my[r].type \in Allowed(op[r].name)
    /\ pc[r] \in {"expiry", "upgrade"} /\ Is(r, {"second"}) => op[r].id \in proven

\* What the session is that a request makes.
Fresh(r) ==
    /\ Making(r) => my[r].id \in born \ shown
    /\ pc[r] = "limit" => /\ my[r].id \in guarded <=> my[r].todo # {}
                          /\ my[r].id \notin owed
    /\ pc[r] = "greet" /\ sessions[my[r].id] # Undef =>
          /\ my[r].id \in guarded => sessions[my[r].id].type = "IN_PROGRESS_MFA"
          /\ my[r].id \in owed => sessions[my[r].id].type = "PASSWORD_RESET"

SessInv ==
    /\ IInv /\ SecondFactorShown
    /\ shown \subseteq born /\ guarded \subseteq born /\ owed \subseteq born
    /\ \A i \in Ids : sessions[i] # Undef => i \in born
    /\ \A i \in Ids \ shown : sessions[i] # Undef => sessions[i].type # "SCAN_ADD"
    /\ \A r \in Requests : Insight(r) /\ Fresh(r)
    /\ \A r, s \in Requests : Making(r) /\ Making(s) /\ my[r].id = my[s].id => r = s

\* Operations that are a pair of Apart do not overlap for one user.
ApartKept ==
    \A r, s \in Requests :
        r # s /\ Active(r) /\ Active(s) /\ op[r].user = op[s].user =>
            <<op[r].name, op[s].name>> \notin Apart

\* Two requests do not show a second factor for one user at the same time.
SecondsApart == <<"second", "second">> \in Apart

\* What keeps a session that was given to change a password from more.
Shut(r) ==
    /\ Inside(r) /\ my[r].type # "IN_PROGRESS_MFA" /\ sessions[op[r].id] # Undef =>
          sessions[op[r].id].type # "IN_PROGRESS_MFA"
    /\ /\ Inside(r) /\ my[r].type = "IN_PROGRESS_MFA" /\ Is(r, {"second"})
       /\ sessions[op[r].id] # Undef
       => sessions[op[r].id].type = "IN_PROGRESS_MFA"
    /\ Inside(r) /\ my[r].type \in Full /\ sessions[op[r].id] # Undef => op[r].id \notin owed
    /\ pc[r] = "upgrade" /\ Is(r, {"change"}) /\ sessions[op[r].id] # Undef => op[r].id \notin owed

ExpiryInv ==
    /\ SessInv /\ ApartKept
    /\ \A i \in owed : sessions[i] # Undef => sessions[i].type = "PASSWORD_RESET"
    /\ \A r \in Requests : Shut(r)

\* Nothing else goes on in a session while it becomes one for scanning.
ScansApart == \A name \in InSession : <<"scan", name>> \in Apart \/ <<name, "scan">> \in Apart

ScanInv ==
    /\ SessInv /\ ApartKept
    /\ \A i \in Ids : sessions[i] # Undef /\ sessions[i].type = "SCAN_ADD" =>
          sessions[i].until # "soon"
    /\ \A r \in Requests :
          Inside(r) /\ sessions[op[r].id] # Undef /\ sessions[op[r].id].type = "SCAN_ADD"
          => my[r].type = "SCAN_ADD"

\* A start of a second factor overlaps neither another nor a finish.
StartsApart ==
    /\ <<"start", "start">> \in Apart
    /\ <<"start", "finish">> \in Apart \/ <<"finish", "start">> \in Apart

FactorsOf(v) == SecretsOf(v) \union SetupsOf(v)

\* Whatever saves passwords of a user, saves them by itself.
PasswordsApart ==
    \A a, b \in {"signin", "change", "reset"} : {a, b} # {"signin"} =>
        <<a, b>> \in Apart \/ <<b, a>> \in Apart

-----------------------------------------------------------------------------
(* Types *)

StoreOK ==
    /\ info \in [Users -> Seq(Entries)]
    /\ \A u \in Users : Len(info[u]) <= HistoryLength
    /\ resets \in [Resets -> Users \union {Undef}]
    /\ sessions \in [Ids -> Stored \union {Undef}]
    /\ forms \in [Forms -> Users \union {Undef}]
    /\ setups \subseteq Users \X Secrets
    /\ secrets \subseteq Users \X Secrets
    /\ born \subseteq Ids /\ shown \subseteq Ids /\ guarded \subseteq Ids
    /\ proven \subseteq Ids /\ owed \subseteq Ids

RequestsOK ==
    /\ pc \in [Requests -> Labels] /\ my \in [Requests -> Mine]
    /\ op \in [Requests -> Ops \union {Undef}]

LEMMA PartsAfter == TypeOK' <=> StoreOK' /\ RequestsOK'
BY DEF TypeOK, StoreOK, RequestsOK

\* What the operation of a request names.
LEMMA OpOK ==
    ASSUME IInv, NEW r \in Requests, pc[r] # "idle"
    PROVE  /\ op[r] \in Menu /\ op[r] \in Ops /\ op[r].user \in Users
           /\ op[r].name \in InSession => op[r].id \in Ids
           /\ op[r].name \in WithForm \union {"form"} => op[r].form \in Forms
           /\ op[r].name \in {"signin", "change", "reset"} => op[r].pw \in Passwords
           /\ op[r].name \in {"request", "reset"} => op[r].reset \in Resets
<1>1. op[r] \in Menu /\ op[r] \in Ops
  BY SetsOK DEF IInv, Control
<1>. QED
  BY <1>1, SetsOK DEF Ops

LEMMA MyOK ==
    ASSUME IInv, NEW r \in Requests
    PROVE  /\ my[r] \in Mine /\ my[r].read \in Seq(Entries) /\ my[r].id \in Ids \union {Undef}
           /\ my[r].type \in Types /\ my[r].secret \in Secrets \union {Undef}
           /\ my[r].late \in BOOLEAN /\ my[r].mine \in BOOLEAN
           /\ my[r].todo \in SUBSET {"factor", "remove", "add"}
           /\ Len(my[r].read) <= HistoryLength
BY DEF IInv, TypeOK, Control, Mine

LEMMA BlankOK == Blank \in Mine /\ Len(Blank.read) <= HistoryLength /\ Blank.todo = {}
BY SetsOK DEF Blank, Mine, Types

\* Where a request may go, with m.
Ready(r, label, m) ==
    /\ m \in Mine /\ Len(m.read) <= HistoryLength
    /\ label \in Labels \ {"idle"}
    /\ label \notin Ended =>
          /\ op[r].name \in Doers(label)
          /\ op[r].name \in InSession /\ label # "door" => m.id = op[r].id
          /\ op[r].name = "reset" => m.todo = {}
    /\ label \in {"limit", "greet"} => m.id \in Ids
    /\ label = "rehash" => m.read # <<>>
    /\ label = "enable" => m.secret \in Secrets

LEMMA GoesOnly ==
    ASSUME IInv, NEW r \in Requests, NEW label, NEW m, Goes(r, label, m)
    PROVE  /\ pc' = [pc EXCEPT ![r] = label] /\ pc'[r] = label /\ op' = op
           /\ my'[r] = IF label \in Ended THEN Blank ELSE m
           /\ \A s \in Requests \ {r} : pc'[s] = pc[s] /\ my'[s] = my[s]
BY DEF Goes, IInv, TypeOK

LEMMA Advance ==
    ASSUME IInv, NEW r \in Requests, pc[r] # "idle", StoreOK',
           NEW label, NEW m, Goes(r, label, m), Ready(r, label, m)
    PROVE  IInv'
<1>1. RequestsOK'
  BY BlankOK DEF IInv, TypeOK, RequestsOK, Goes, Ready
<1>2. ASSUME NEW s \in Requests
      PROVE  /\ pc'[s] # "idle" => op'[s] \in Menu
             /\ Active(s)' => op'[s].name \in Doers(pc'[s])
             /\ Inside(s)' => my'[s].id = op'[s].id
             /\ Making(s)' => my'[s].id \in Ids
             /\ pc'[s] = "rehash" => my'[s].read # <<>>
             /\ pc'[s] = "enable" => my'[s].secret \in Secrets
             /\ Len(my'[s].read) <= HistoryLength
             /\ pc'[s] = "idle" \/ (Active(s)' /\ Is(s, {"reset"})') => my'[s].todo = {}
  <2>1. CASE s = r
    <3>1. /\ op'[r] = op[r] /\ op[r] \in Menu /\ pc'[r] = label
          /\ my'[r] = IF label \in Ended THEN Blank ELSE m
      BY GoesOnly, OpOK
    <3>2. CASE label \in Ended
      BY <2>1, <3>1, <3>2, BlankOK DEF Active, Inside, Making, Is, Ended
    <3>3. CASE label \notin Ended
      BY <2>1, <3>1, <3>3 DEF Ready, Active, Inside, Making, Is
    <3>. QED
      BY <3>2, <3>3
  <2>2. CASE s # r
    BY <2>2, GoesOnly DEF IInv, Control, Active, Inside, Making, Is
  <2>. QED
    BY <2>1, <2>2
<1>3. Control'
  BY <1>2 DEF Control
<1>. QED
  BY <1>1, <1>3, PartsAfter DEF IInv

\* Going on with what it has.
LEMMA GotoOK ==
    ASSUME IInv, NEW r \in Requests, Active(r), StoreOK', NEW label, Goto(r, label),
           \/ label \in Ended
           \/ /\ label \in Labels \ {"idle", "rehash", "enable"} /\ op[r].name \in Doers(label)
              /\ Is(r, InSession) => pc[r] # "door"
              /\ label \in {"limit", "greet"} => Making(r)
    PROVE  IInv'
<1>1. pc[r] # "idle"
  BY DEF Active
<1>2. Ready(r, label, my[r])
  <2>1. CASE label \in Ended
    BY <2>1, MyOK DEF Ready, Ended, Labels
  <2>2. CASE label \notin Ended
    <3>1. Is(r, InSession) => my[r].id = op[r].id
      BY <2>2 DEF IInv, Control, Inside
    <3>2. Is(r, {"reset"}) => my[r].todo = {}
      BY DEF IInv, Control, Is
    <3>3. Making(r) => my[r].id \in Ids
      BY DEF IInv, Control
    <3>. QED
      BY <2>2, <3>1, <3>2, <3>3, MyOK DEF Ready, Is
  <2>. QED
    BY <2>1, <2>2
<1>. QED
  BY <1>1, <1>2, Advance DEF Goto

\* Nothing of the store changes but what is named.
LEMMA SameStore ==
    ASSUME IInv, UNCHANGED <<account, sessions, forms, factors, ghosts>>
    PROVE  StoreOK'
BY DEF IInv, TypeOK, StoreOK, account, factors, ghosts

-----------------------------------------------------------------------------
(* The steps of a request *)

LEMMA ArriveOK ==
    ASSUME IInv, NEW r \in Requests, Arrive(r)
    PROVE  IInv'
<1>1. PICK o \in Menu : op' = [op EXCEPT ![r] = o] /\ pc' = [pc EXCEPT ![r] = First(o.name)]
  BY DEF Arrive
<1>2. pc[r] = "idle" /\ my' = my
  BY DEF Arrive
<1>3. o \in Ops /\ o.name \in OpNames
  BY SetsOK DEF Ops
<1>4. /\ First(o.name) \in {"door", "lookup", "redeem"}
      /\ o.name \in Doers(First(o.name))
      /\ o.name \in InSession <=> First(o.name) = "door"
  BY <1>3 DEF First, OpNames, InSession, WithForm, Doers
<1>5. StoreOK'
  BY SameStore DEF Arrive, account, factors, ghosts
<1>6. RequestsOK'
  BY <1>1, <1>2, <1>3, <1>4 DEF IInv, TypeOK, RequestsOK, Labels
<1>7. my[r].todo = {}
  BY <1>2 DEF IInv, Control
<1>8. Control'
  BY <1>1, <1>2, <1>3, <1>4, <1>7 DEF IInv, TypeOK, Control, Active, Inside, Making, Is, Ended
<1>. QED
  BY <1>5, <1>6, <1>8, PartsAfter DEF IInv

\* A request fails, or goes on without a change to what is stored.
LEMMA SlackOK ==
    ASSUME IInv, NEW r \in Requests, Slack(r)
    PROVE  IInv'
<1>1. CASE Fail(r)
  <2>1. Active(r) /\ Goto(r, "failed") /\ StoreOK'
    BY <1>1, SameStore DEF Fail, Refuse
  <2>. QED
    BY <2>1, GotoOK DEF Ended
<1>2. CASE SaveFails(r)
  <2>1. Active(r) /\ op[r].name \in {"change", "reset"} /\ Goto(r, AfterSave(r))
    BY <1>2 DEF SaveFails, Active, Ended, IInv, Control, Doers
  <2>2. StoreOK'
    BY <1>2 DEF SaveFails, OwedWithout, IInv, TypeOK, StoreOK, account, factors
  <2>3. AfterSave(r) \in Ended \/ (AfterSave(r) = "consume" /\ Is(r, {"reset"}))
            \/ (AfterSave(r) = "upgrade" /\ Is(r, {"change"}))
    BY <2>1 DEF AfterSave, Is, Ended
  <2>4. pc[r] # "door"
    BY <1>2 DEF SaveFails
  <2>. QED
    BY <2>1, <2>2, <2>3, <2>4, GotoOK DEF Doers, Labels, Is
<1>3. CASE UpgradeFails(r)
  <2>1. Active(r) /\ Goto(r, "done") /\ StoreOK'
    BY <1>3, SameStore DEF UpgradeFails, Active, Ended
  <2>. QED
    BY <2>1, GotoOK DEF Ended
<1>. QED
  BY <1>1, <1>2, <1>3 DEF Slack

LEMMA DoorOK ==
    ASSUME IInv, NEW r \in Requests, Door(r)
    PROVE  IInv'
<1>. DEFINE i == op[r].id
<1>1. Active(r) /\ pc[r] # "idle" /\ op[r].name \in InSession /\ i \in Ids
  BY OpOK DEF Door, Active, Ended, IInv, Control, Doers
<1>2. StoreOK'
  BY DEF Door, IInv, TypeOK, StoreOK, account, factors, ghosts
<1>3. CASE Goto(r, "failed")
  BY <1>1, <1>2, <1>3, GotoOK DEF Ended
<1>4. CASE Live(i) /\ Goes(r, "renew", [my[r] EXCEPT !.id = i, !.type = sessions[i].type])
  <2>. DEFINE m == [my[r] EXCEPT !.id = i, !.type = sessions[i].type]
  <2>1. sessions[i].type \in Types
    BY <1>1, <1>4 DEF Live, IInv, TypeOK, Stored
  <2>2. m \in Mine /\ m.id = op[r].id /\ m.read = my[r].read /\ m.todo = my[r].todo
    BY <1>1, <2>1, MyOK DEF Mine
  <2>3. op[r].name # "reset" /\ op[r].name \in Doers("renew")
    BY <1>1 DEF InSession, WithForm, Doers
  <2>. HIDE DEF m
  <2>4. Ready(r, "renew", m)
    BY <2>2, <2>3, MyOK DEF Ready, Labels
  <2>5. Goes(r, "renew", m)
    BY <1>4 DEF m
  <2>. QED
    BY <1>1, <1>2, <2>4, <2>5, Advance
<1>. QED
  BY <1>3, <1>4 DEF Door

\* Where a request goes that RequireSessionType has let in, or has not.
LEMMA AdmitOK ==
    ASSUME IInv, NEW r \in Requests, op[r].name \in InSession
    PROVE  \/ Admit(r) \in Ended
           \/ /\ Admit(r) \in Labels \ {"idle", "rehash", "enable", "limit", "greet", "door"}
              /\ op[r].name \in Doers(Admit(r))
BY DEF Admit, Then, InSession, WithForm, Ended, Labels, Doers

LEMMA TokenOK ==
    ASSUME IInv, NEW r \in Requests, Renew(r) \/ Token(r) \/ Spend(r) \/ Issue(r)
    PROVE  IInv'
<1>1. /\ Active(r) /\ pc[r] # "idle" /\ pc[r] # "door" /\ Inside(r)
      /\ op[r].name \in InSession /\ op[r].id \in Ids /\ my[r].id = op[r].id
  BY OpOK DEF Renew, Token, Spend, Issue, Active, Inside, Is, Ended, IInv, Control, Doers,
              InSession, WithForm
<1>2. CASE Renew(r)
  <2>1. StoreOK'
    <3>1. Renewed(r) \in [Ids -> Stored \union {Undef}]
      BY <1>1, ZenonT(60) DEF Renewed, IInv, TypeOK, Stored
    <3>. QED
      BY <1>2, <3>1 DEF Renew, IInv, TypeOK, StoreOK, account, factors, ghosts
  <2>2. CASE Goto(r, Admit(r))
    BY <1>1, <2>1, <2>2, AdmitOK, GotoOK
  <2>3. CASE Is(r, WithForm) /\ Goto(r, "token")
    BY <1>1, <2>1, <2>3, GotoOK DEF Doers, Labels, Is
  <2>. QED
    BY <1>2, <2>2, <2>3 DEF Renew
<1>3. CASE Token(r)
  <2>. DEFINE m == [my[r] EXCEPT !.mine = forms[op[r].form] = Whose(r)]
              label == IF forms[op[r].form] # Undef THEN "spend" ELSE "failed"
  <2>1. m \in Mine /\ m.id = my[r].id /\ m.read = my[r].read /\ m.todo = my[r].todo
    BY MyOK DEF Mine
  <2>2. label \in {"spend", "failed"} /\ Goes(r, label, m) /\ op[r].name \in WithForm
    BY <1>3 DEF Token, IInv, Control, Active, Ended, Doers
  <2>. HIDE DEF m, label
  <2>3. Ready(r, label, m)
    BY <1>1, <2>1, <2>2, MyOK DEF Ready, Labels, Ended, Doers, WithForm
  <2>4. StoreOK'
    BY <1>3, SameStore DEF Token
  <2>. QED
    BY <1>1, <2>2, <2>3, <2>4, Advance
<1>4. CASE Spend(r)
  <2>1. StoreOK'
    BY <1>4 DEF Spend, IInv, TypeOK, StoreOK, account, factors, ghosts
  <2>2. Goto(r, Admit(r)) \/ Goto(r, "failed")
    BY <1>4 DEF Spend
  <2>. QED
    BY <1>1, <2>1, <2>2, AdmitOK, GotoOK DEF Ended
<1>5. CASE Issue(r)
  <2>1. StoreOK'
    BY <1>1, <1>5, OpOK DEF Issue, Whose, IInv, TypeOK, StoreOK, account, factors, ghosts
  <2>. QED
    BY <1>1, <1>5, <2>1, GotoOK DEF Issue, Ended
<1>. QED
  BY <1>2, <1>3, <1>4, <1>5

LEMMA UptoOK ==
    ASSUME NEW S, NEW s \in Seq(S), NEW n \in Nat
    PROVE  /\ Upto(n, s) \in Seq(S)
           /\ Len(Upto(n, s)) = IF Len(s) < n THEN Len(s) ELSE n
           /\ \A i \in 1..Len(Upto(n, s)) : Upto(n, s)[i] = s[i]
<1>. DEFINE k == IF Len(s) < n THEN Len(s) ELSE n
<1>1. Len(s) \in Nat /\ k \in Nat /\ k <= Len(s)
  BY LenProperties
<1>. HIDE DEF k
<1>2. \A i \in 1..k : s[i] \in S
  BY <1>1, ElementOfSeq
<1>3. /\ SubSeq(s, 1, k) \in Seq(S)
      /\ Len(SubSeq(s, 1, k)) = IF 1 <= k THEN k - 1 + 1 ELSE 0
      /\ \A i \in 1..(k - 1 + 1) : SubSeq(s, 1, k)[i] = s[1 + i - 1]
  BY <1>1, <1>2, SubSeqProperties
<1>4. Len(SubSeq(s, 1, k)) = k
  BY <1>1, <1>3
<1>5. \A i \in 1..k : SubSeq(s, 1, k)[i] = s[i]
  BY <1>1, <1>3
<1>6. Upto(n, s) = SubSeq(s, 1, k)
  BY DEF Upto, k
<1>. QED
  BY <1>3, <1>4, <1>5, <1>6 DEF k

LEMMA AddedOK ==
    ASSUME IInv, NEW r \in Requests, pc[r] # "idle", Is(r, {"change", "reset"})
    PROVE  Added(r) \in Seq(Entries) /\ Len(Added(r)) <= HistoryLength
<1>. DEFINE e == [pw |-> op[r].pw, age |-> "new"]
<1>1. e \in Entries
  BY OpOK DEF Is, Entries, Ages
<1>. HIDE DEF e
<1>2. <<e>> \in Seq(Entries) /\ my[r].read \in Seq(Entries)
  BY <1>1, MyOK
<1>3. <<e>> \o my[r].read \in Seq(Entries)
  BY <1>2, ConcatProperties
<1>4. Added(r) = Upto(HistoryLength, <<e>> \o my[r].read)
  BY DEF Added, e
<1>5. HistoryLength \in Nat
  BY SetsOK
<1>6. Len(<<e>> \o my[r].read) \in Nat
  BY <1>3, LenProperties
<1>. DEFINE t == <<e>> \o my[r].read
<1>7. /\ Added(r) \in Seq(Entries)
      /\ Len(Added(r)) = IF Len(t) < HistoryLength THEN Len(t) ELSE HistoryLength
  <2>. HIDE DEF t
  <2>1. Added(r) = Upto(HistoryLength, t) /\ t \in Seq(Entries)
    BY <1>3, <1>4 DEF t
  <2>2. /\ Upto(HistoryLength, t) \in Seq(Entries)
        /\ Len(Upto(HistoryLength, t)) = IF Len(t) < HistoryLength THEN Len(t) ELSE HistoryLength
    BY <2>1, <1>5, UptoOK, Zenon
  <2>. QED
    BY <2>1, <2>2
<1>. QED
  BY <1>5, <1>6, <1>7

\* A re-hash keeps the history as long as it was, and everything but the password.
LEMMA RehashedOK ==
    ASSUME IInv, NEW r \in Requests, pc[r] = "rehash"
    PROVE  /\ Rehashed(r) \in Seq(Entries) /\ Len(Rehashed(r)) = Len(my[r].read)
           /\ Len(my[r].read) \in Nat \ {0}
           /\ \A i \in 1..Len(my[r].read) :
                 Rehashed(r)[i] = IF i = 1 THEN [my[r].read[1] EXCEPT !.pw = op[r].pw]
                                  ELSE my[r].read[i]
<1>1. my[r].read \in Seq(Entries) /\ my[r].read # <<>> /\ op[r].pw \in Passwords
  <2>1. Active(r) /\ pc[r] # "idle"
    BY DEF Active, Ended
  <2>2. op[r].name = "signin"
    BY <2>1 DEF IInv, Control, Doers
  <2>. QED
    BY <2>1, <2>2, MyOK, OpOK DEF IInv, Control
<1>2. Len(my[r].read) \in Nat \ {0}
  BY <1>1, EmptySeq
<1>3. 1 \in 1..Len(my[r].read) /\ my[r].read[1] \in Entries
  BY <1>1, <1>2, ElementOfSeq
<1>. DEFINE e == [my[r].read[1] EXCEPT !.pw = op[r].pw]
<1>4. e \in Entries
  BY <1>1, <1>3 DEF Entries
<1>. HIDE DEF e
<1>5. Rehashed(r) = [my[r].read EXCEPT ![1] = e]
  BY DEF Rehashed, e
<1>6. /\ [my[r].read EXCEPT ![1] = e] \in Seq(Entries)
      /\ Len([my[r].read EXCEPT ![1] = e]) = Len(my[r].read)
      /\ \A j \in 1..Len(my[r].read) :
            [my[r].read EXCEPT ![1] = e][j] = IF j = 1 THEN e ELSE my[r].read[j]
  BY <1>1, <1>3, <1>4, ExceptSeq
<1>. QED
  BY <1>2, <1>5, <1>6 DEF e

LEMMA PasswordOK ==
    ASSUME IInv, NEW r \in Requests, Lookup(r) \/ Reread(r) \/ Rehash(r) \/ Save(r)
    PROVE  IInv'
<1>1. Active(r) /\ pc[r] # "idle" /\ pc[r] # "door" /\ op[r].user \in Users /\ Whose(r) = op[r].user
  BY OpOK DEF Lookup, Reread, Rehash, Save, Active, Ended, Whose
<1>2. info[Whose(r)] \in Seq(Entries) /\ Len(info[Whose(r)]) <= HistoryLength
  BY <1>1 DEF IInv, TypeOK
<1>3. Is(r, InSession) => my[r].id = op[r].id
  BY <1>1 DEF IInv, Control, Inside
<1>4. CASE Lookup(r)
  <2>. DEFINE h == info[Whose(r)]
              late == Len(h) > 0 /\ h[1].age = "old"
              m == [my[r] EXCEPT !.read = h, !.late = late]
  <2>1. Goes(r, AfterLookup(r, h), m) /\ StoreOK'
    BY <1>4, SameStore DEF Lookup
  <2>2. late \in BOOLEAN
    OBVIOUS
  <2>. HIDE DEF h, late
  <2>3. m \in Mine /\ m.id = my[r].id /\ m.read = h /\ m.todo = my[r].todo
    BY <1>2, <2>2, MyOK DEF Mine, h
  <2>. HIDE DEF m
  <2>4. op[r].name \in {"signin", "request", "reset", "change"}
    BY <1>1, <1>4 DEF Lookup, IInv, Control, Doers
  <2>5. \/ AfterLookup(r, h) = "failed"
        \/ AfterLookup(r, h) = "reread" /\ op[r].name = "signin"
        \/ AfterLookup(r, h) = "save" /\ op[r].name \in {"change", "reset"}
        \/ AfterLookup(r, h) = "mail" /\ op[r].name = "request"
    BY <2>4 DEF AfterLookup, Is
  <2>6. op[r].name = "reset" => m.todo = {}
    BY <1>1, <2>3 DEF IInv, Control, Is
  <2>7. op[r].name \in InSession => m.id = op[r].id
    BY <1>3, <2>3 DEF Is
  <2>8. Len(m.read) <= HistoryLength
    BY <1>2, <2>3 DEF h
  <2>9. Ready(r, AfterLookup(r, h), m)
    BY <2>3, <2>5, <2>6, <2>7, <2>8 DEF Ready, Doers, Labels, Ended
  <2>. QED
    BY <1>1, <2>1, <2>9, Advance
<1>5. CASE Reread(r)
  <2>. DEFINE m == [my[r] EXCEPT !.read = info[Whose(r)]]
              label == IF info[Whose(r)] = <<>> THEN "failed" ELSE "rehash"
  <2>1. Goes(r, label, m) /\ StoreOK' /\ op[r].name = "signin"
    BY <1>1, <1>5, SameStore DEF Reread, IInv, Control, Doers
  <2>2. m \in Mine /\ m.read = info[Whose(r)]
    BY <1>2, MyOK DEF Mine
  <2>3. label \in {"failed", "rehash"} /\ (label = "rehash" => info[Whose(r)] # <<>>)
    OBVIOUS
  <2>. HIDE DEF m, label
  <2>4. Ready(r, label, m)
    BY <1>2, <2>1, <2>2, <2>3 DEF Ready, Doers, Labels, Ended, InSession, WithForm
  <2>. QED
    BY <1>1, <2>1, <2>4, Advance
<1>6. CASE Rehash(r)
  <2>1. pc[r] = "rehash" /\ info' = [info EXCEPT ![Whose(r)] = Rehashed(r)] /\ Goto(r, "factor")
    BY <1>6 DEF Rehash
  <2>2. Rehashed(r) \in Seq(Entries) /\ Len(Rehashed(r)) <= HistoryLength
    BY <2>1, RehashedOK, MyOK
  <2>3. StoreOK'
    BY <1>6, <2>1, <2>2 DEF Rehash, IInv, TypeOK, StoreOK, factors, ghosts
  <2>4. op[r].name = "signin"
    BY <1>1, <2>1 DEF IInv, Control, Doers
  <2>. QED
    BY <1>1, <2>1, <2>3, <2>4, GotoOK DEF Doers, Labels
<1>7. CASE Save(r)
  <2>1. pc[r] = "save" /\ info' = [info EXCEPT ![Whose(r)] = Added(r)] /\ Goto(r, AfterSave(r))
    BY <1>7 DEF Save
  <2>2. op[r].name \in {"change", "reset"}
    BY <1>1, <2>1 DEF IInv, Control, Doers
  <2>3. StoreOK'
    BY <1>1, <1>7, <2>1, <2>2, AddedOK
       DEF Save, Is, OwedWithout, IInv, TypeOK, StoreOK, factors
  <2>4. \/ AfterSave(r) \in Ended
        \/ AfterSave(r) = "consume" /\ op[r].name = "reset"
        \/ AfterSave(r) = "upgrade" /\ op[r].name = "change"
    BY <2>2 DEF AfterSave, Is, Ended
  <2>. QED
    BY <1>1, <2>1, <2>3, <2>4, GotoOK DEF Doers, Labels
<1>. QED
  BY <1>4, <1>5, <1>6, <1>7

LEMMA ResetOK ==
    ASSUME IInv, NEW r \in Requests, Mail(r) \/ Redeem(r) \/ Consume(r)
    PROVE  IInv'
<1>1. /\ Active(r) /\ pc[r] # "door" /\ op[r].user \in Users /\ op[r].reset \in Resets
      /\ op[r].name \in {"request", "reset"}
  BY OpOK DEF Mail, Redeem, Consume, Active, Ended, IInv, Control, Doers
<1>2. CASE Mail(r)
  <2>1. StoreOK'
    BY <1>1, <1>2 DEF Mail, Whose, IInv, TypeOK, StoreOK, factors, ghosts
  <2>2. Goto(r, "done") \/ Goto(r, "failed")
    BY <1>2 DEF Mail
  <2>. QED
    BY <1>1, <2>1, <2>2, GotoOK DEF Ended
<1>3. CASE Redeem(r)
  <2>1. op[r].name = "reset" /\ StoreOK'
    BY <1>1, <1>3, SameStore DEF Redeem, IInv, Control, Doers
  <2>2. Goto(r, "lookup") \/ Goto(r, "failed")
    BY <1>3 DEF Redeem
  <2>. QED
    BY <1>1, <2>1, <2>2, GotoOK DEF Ended, Doers, Labels
<1>4. CASE Consume(r)
  <2>1. StoreOK' /\ op[r].name = "reset"
    BY <1>1, <1>4 DEF Consume, IInv, TypeOK, StoreOK, factors, ghosts, Control, Doers
  <2>. QED
    BY <1>1, <1>4, <2>1, GotoOK DEF Consume, Doers, Labels
<1>. QED
  BY <1>2, <1>3, <1>4

\* What updateSession does to the sessions.
LEMMA PutOK ==
    ASSUME TypeOK, NEW r \in Requests, my[r].id \in Ids, NEW type \in Types
    PROVE  /\ Put(r, type) \in [Ids -> Stored \union {Undef}]
           /\ \A j \in Ids \ {my[r].id} : Put(r, type)[j] = sessions[j]
           /\ sessions[my[r].id] = Undef => Put(r, type)[my[r].id] = Undef
           /\ sessions[my[r].id] # Undef =>
                 /\ Put(r, type)[my[r].id].user = sessions[my[r].id].user
                 /\ Put(r, type)[my[r].id].type = type
<1>. DEFINE i == my[r].id
            until == IF type = "SCAN_ADD" THEN "event" ELSE sessions[i].until
            s == [user |-> sessions[i].user, type |-> type, until |-> until]
<1>1. CASE sessions[i] = Undef
  BY <1>1 DEF Put, TypeOK
<1>2. CASE sessions[i] # Undef
  <2>1. sessions \in [Ids -> Stored \union {Undef}] /\ i \in Ids /\ sessions[i] \in Stored
    BY <1>2 DEF TypeOK
  <2>2. s \in Stored
    BY <2>1 DEF Stored
  <2>3. Put(r, type) = [sessions EXCEPT ![i] = s]
    BY <1>2, <2>1 DEF Put
  <2>. HIDE DEF s, i
  <2>4. /\ Put(r, type) \in [Ids -> Stored \union {Undef}] /\ Put(r, type)[i] = s
        /\ \A j \in Ids \ {i} : Put(r, type)[j] = sessions[j]
    BY <2>1, <2>2, <2>3
  <2>5. s.user = sessions[i].user /\ s.type = type
    BY DEF s
  <2>. QED
    BY <1>2, <2>4, <2>5 DEF i
<1>. QED
  BY <1>1, <1>2

LEMMA MakeOK ==
    ASSUME IInv, NEW r \in Requests, Factor(r) \/ Create(r) \/ Limit(r) \/ Greet(r)
    PROVE  IInv'
<1>1. /\ Active(r) /\ pc[r] # "idle" /\ pc[r] # "door" /\ op[r].user \in Users
      /\ op[r].name \in {"signin", "reset"} /\ op[r].name \notin InSession
  BY OpOK DEF Factor, Create, Limit, Greet, Active, Ended, IInv, Control, Doers, InSession, WithForm
<1>2. CASE Factor(r)
  <2>. DEFINE todo == IF Cardinality(SecretsOf(Whose(r))) = 1 THEN {"factor"} ELSE {}
              m == [my[r] EXCEPT !.todo = todo]
  <2>1. Goes(r, "create", m) /\ StoreOK' /\ op[r].name = "signin"
    BY <1>1, <1>2, SameStore DEF Factor, IInv, Control, Doers
  <2>2. todo \in SUBSET {"factor", "remove", "add"}
    OBVIOUS
  <2>. HIDE DEF todo
  <2>3. m \in Mine /\ m.read = my[r].read
    BY <2>2, MyOK DEF Mine
  <2>. HIDE DEF m
  <2>4. Ready(r, "create", m)
    BY <1>1, <2>1, <2>3, MyOK DEF Ready, Doers, Labels
  <2>. QED
    BY <1>1, <2>1, <2>4, Advance
<1>3. CASE Create(r)
  <2>1. PICK i \in Ids \ born :
          /\ sessions' = [sessions EXCEPT ![i] = NewSession(Whose(r))]
          /\ Goes(r, IF Limits(r) THEN "limit" ELSE "greet", [my[r] EXCEPT !.id = i])
          /\ guarded' = IF my[r].todo # {} THEN guarded \union {i} ELSE guarded
          /\ born' = born \union {i}
    BY <1>3 DEF Create
  <2>. DEFINE m == [my[r] EXCEPT !.id = i]
              label == IF Limits(r) THEN "limit" ELSE "greet"
  <2>2. NewSession(Whose(r)) \in Stored
    BY <1>1 DEF NewSession, Whose, Stored, Types
  <2>3. StoreOK'
    BY <1>3, <2>1, <2>2 DEF Create, IInv, TypeOK, StoreOK, account, factors
  <2>4. m \in Mine /\ m.read = my[r].read /\ m.todo = my[r].todo /\ m.id = i
    BY MyOK DEF Mine
  <2>5. label \in {"limit", "greet"} /\ op[r].name \in Doers(label)
    BY <1>1 DEF Limits, Is, Doers
  <2>6. op[r].name = "reset" => m.todo = {}
    BY <1>1, <2>4 DEF IInv, Control, Is
  <2>7. Goes(r, label, m)
    BY <2>1
  <2>. HIDE DEF m, label
  <2>8. Ready(r, label, m)
    BY <1>1, <2>4, <2>5, <2>6, MyOK DEF Ready, Labels
  <2>. QED
    BY <1>1, <2>3, <2>7, <2>8, Advance
<1>4. CASE Limit(r)
  <2>1. my[r].id \in Ids /\ Limited(r) \in Types /\ Making(r) /\ op[r].name = "signin"
    BY <1>1, <1>4 DEF Limit, IInv, Control, Making, Limited, Types, Doers
  <2>2. Put(r, Limited(r)) \in [Ids -> Stored \union {Undef}]
    BY <2>1, PutOK DEF IInv
  <2>3. StoreOK'
    BY <1>4, <2>1, <2>2 DEF Limit, IInv, TypeOK, StoreOK, account, factors
  <2>. QED
    BY <1>1, <1>4, <2>1, <2>3, GotoOK DEF Limit, Doers, Labels
<1>5. CASE Greet(r)
  <2>1. my[r].id \in Ids
    BY <1>5 DEF Greet, IInv, Control, Making
  <2>2. StoreOK'
    BY <1>5, <2>1 DEF Greet, IInv, TypeOK, StoreOK, account, factors
  <2>. QED
    BY <1>1, <1>5, <2>2, GotoOK DEF Greet, Ended
<1>. QED
  BY <1>2, <1>3, <1>4, <1>5

LEMMA WidenOK ==
    ASSUME IInv, NEW r \in Requests, Verify(r) \/ Expiry(r) \/ Upgrade(r)
    PROVE  IInv'
<1>1. /\ Active(r) /\ pc[r] # "idle" /\ pc[r] # "door" /\ op[r].user \in Users
      /\ op[r].name \in {"second", "change", "scan"} /\ op[r].name \in InSession
      /\ op[r].id \in Ids /\ my[r].id = op[r].id
  BY OpOK DEF Verify, Expiry, Upgrade, Active, Ended, IInv, Control, Doers, InSession, WithForm,
              Inside, Is
<1>2. CASE Verify(r)
  <2>1. StoreOK' /\ op[r].name = "second"
    BY <1>1, <1>2 DEF Verify, IInv, TypeOK, StoreOK, account, factors, Control, Doers
  <2>2. Goto(r, "expiry") \/ Goto(r, "failed")
    BY <1>2 DEF Verify
  <2>. QED
    BY <1>1, <2>1, <2>2, GotoOK DEF Ended, Doers, Labels
<1>3. CASE Expiry(r)
  <2>. DEFINE h == info[Whose(r)]
              late == h # <<>> /\ h[1].age # "new"
              m == [my[r] EXCEPT !.late = late]
              label == IF h = <<>> THEN "failed" ELSE "upgrade"
  <2>1. Goes(r, label, m) /\ StoreOK'
    BY <1>3, SameStore DEF Expiry
  <2>2. late \in BOOLEAN /\ label \in {"failed", "upgrade"}
    OBVIOUS
  <2>. HIDE DEF late, label
  <2>3. m \in Mine /\ m.read = my[r].read /\ m.id = my[r].id
    BY <2>2, MyOK DEF Mine
  <2>. HIDE DEF m
  <2>4. Ready(r, label, m)
    BY <1>1, <2>2, <2>3, MyOK DEF Ready, Doers, Labels, Ended
  <2>. QED
    BY <1>1, <2>1, <2>4, Advance
<1>4. CASE Upgrade(r)
  <2>1. Upgraded(r) \in Types
    BY <1>1 DEF Upgraded, Is, Types
  <2>2. Put(r, Upgraded(r)) \in [Ids -> Stored \union {Undef}]
    BY <1>1, <2>1, PutOK DEF IInv
  <2>3. StoreOK'
    BY <1>1, <1>4, <2>2 DEF Upgrade, IInv, TypeOK, StoreOK, account, factors
  <2>. QED
    BY <1>1, <1>4, <2>3, GotoOK DEF Upgrade, Ended
<1>. QED
  BY <1>2, <1>3, <1>4

LEMMA SetUpOK ==
    ASSUME IInv, NEW r \in Requests, Setup(r) \/ Propose(r) \/ Confirm(r) \/ Enable(r)
    PROVE  IInv'
<1>1. /\ Active(r) /\ pc[r] # "idle" /\ pc[r] # "door" /\ op[r].user \in Users
      /\ op[r].name \in {"start", "finish"} /\ op[r].name \in InSession
      /\ my[r].id = op[r].id
  BY OpOK DEF Setup, Propose, Confirm, Enable, Active, Ended, IInv, Control, Doers, InSession,
              WithForm, Inside, Is
<1>2. CASE Setup(r)
  <2>1. StoreOK' /\ op[r].name = "start"
    BY <1>1, <1>2, SameStore DEF Setup, IInv, Control, Doers
  <2>2. Goto(r, "propose") \/ Goto(r, "failed")
    BY <1>2 DEF Setup
  <2>. QED
    BY <1>1, <2>1, <2>2, GotoOK DEF Ended, Doers, Labels
<1>3. CASE Propose(r)
  <2>1. StoreOK'
    BY <1>1, <1>3 DEF Propose, Whose, IInv, TypeOK, StoreOK, account, ghosts
  <2>. QED
    BY <1>1, <1>3, <2>1, GotoOK DEF Propose, Ended
<1>4. CASE Confirm(r)
  <2>1. StoreOK' /\ op[r].name = "finish"
    BY <1>1, <1>4, SameStore DEF Confirm, IInv, Control, Doers
  <2>2. CASE Goto(r, "failed")
    BY <1>1, <2>1, <2>2, GotoOK DEF Ended
  <2>3. ASSUME NEW x \in Secrets,
               Goes(r, "enable", [my[r] EXCEPT !.secret = x, !.todo = {"remove", "add"}])
        PROVE  IInv'
    <3>. DEFINE m == [my[r] EXCEPT !.secret = x, !.todo = {"remove", "add"}]
    <3>1. m \in Mine /\ m.read = my[r].read /\ m.id = my[r].id /\ m.secret = x
      BY MyOK DEF Mine
    <3>. HIDE DEF m
    <3>2. Ready(r, "enable", m)
      BY <1>1, <2>1, <3>1, MyOK DEF Ready, Doers, Labels
    <3>3. Goes(r, "enable", m)
      BY <2>3 DEF m
    <3>. QED
      BY <1>1, <2>1, <3>2, <3>3, Advance
  <2>. QED
    BY <1>4, <2>2, <2>3 DEF Confirm
<1>5. CASE Enable(r)
  <2>1. PICK w \in my[r].todo, ok \in BOOLEAN :
          /\ Goes(r, IF my[r].todo = {w} THEN "done" ELSE "enable", [my[r] EXCEPT !.todo = @ \ {w}])
          /\ setups' = IF w = "remove" /\ ok
                       THEN {t \in setups : t[1] # Whose(r)} ELSE setups
          /\ secrets' = IF w = "add" /\ ok
                        THEN secrets \union {<<Whose(r), my[r].secret>>} ELSE secrets
    BY <1>5 DEF Enable
  <2>. DEFINE m == [my[r] EXCEPT !.todo = @ \ {w}]
              label == IF my[r].todo = {w} THEN "done" ELSE "enable"
  <2>2. m \in Mine /\ m.read = my[r].read /\ m.id = my[r].id /\ m.secret = my[r].secret
    BY MyOK DEF Mine
  <2>3. /\ label \in {"done", "enable"} /\ op[r].name = "finish"
        /\ my[r].secret \in Secrets
    BY <1>1, <1>5 DEF Enable, IInv, Control, Doers
  <2>4. Goes(r, label, m)
    BY <2>1
  <2>. HIDE DEF m, label
  <2>5. Ready(r, label, m)
    BY <1>1, <2>2, <2>3, MyOK DEF Ready, Doers, Labels, Ended
  <2>6. StoreOK'
    <3>1. my[r].secret \in Secrets
      BY <1>5 DEF Enable, IInv, Control
    <3>. QED
      BY <1>1, <1>5, <2>1, <3>1 DEF Enable, Whose, IInv, TypeOK, StoreOK, account, ghosts
  <2>. QED
    BY <1>1, <2>4, <2>5, <2>6, Advance
<1>. QED
  BY <1>2, <1>3, <1>4, <1>5
LEMMA LapseOK ==
    ASSUME IInv, NEW i \in Ids, Lapse(i)
    PROVE  IInv'
<1>1. /\ sessions[i] \in Stored /\ sessions' = [sessions EXCEPT ![i].until = "over"]
      /\ sessions \in [Ids -> Stored \union {Undef}]
  BY DEF Lapse, Live, IInv, TypeOK
<1>2. [sessions[i] EXCEPT !.until = "over"] \in Stored
  BY <1>1 DEF Stored
<1>3. sessions' \in [Ids -> Stored \union {Undef}]
  BY <1>1, <1>2
<1>4. TypeOK'
  BY <1>3 DEF Lapse, IInv, TypeOK, account, factors, ghosts
<1>5. Control'
  BY DEF Lapse, IInv, Control, Active, Inside, Making, Is
<1>. QED
  BY <1>4, <1>5 DEF IInv

LEMMA InitOK == Init => IInv
<1>1. SUFFICES ASSUME Init PROVE IInv
  OBVIOUS
<1>2. \A h \in Histories : h \in Seq(Entries) /\ Len(h) <= HistoryLength
  BY SetsOK
<1>3. /\ info \in [Users -> Seq(Entries)]
      /\ \A u \in Users : Len(info[u]) <= HistoryLength
  BY <1>1, <1>2 DEF Init
<1>4. sessions \in [Ids -> Stored \union {Undef}]
  BY <1>1, SetsOK DEF Init
<1>5. setups \subseteq Users \X Secrets /\ secrets \subseteq Users \X Secrets
  BY <1>1, SetsOK DEF Init
<1>6. TypeOK
  BY <1>1, <1>3, <1>4, <1>5, BlankOK DEF Init, TypeOK, Labels
<1>7. Control
  BY <1>1, BlankOK DEF Init, Control, Active, Inside, Making, Is
<1>. QED
  BY <1>6, <1>7 DEF IInv

LEMMA StepOK ==
    ASSUME IInv, [Next]_vars
    PROVE  IInv'
<1>1. ASSUME NEW r \in Requests, Step(r)
      PROVE  IInv'
  BY <1>1, DoorOK, TokenOK, PasswordOK, ResetOK, MakeOK, WidenOK, SetUpOK DEF Step
<1>2. ASSUME UNCHANGED vars
      PROVE  IInv'
  BY <1>2 DEF vars, IInv, TypeOK, Control, Active, Inside, Making, Is
<1>. QED
  BY <1>1, <1>2, ArriveOK, SlackOK, LapseOK DEF Next, Rest

\* All variables stay within what they are made of, whatever requests there are and
\* whichever calls fail.
THEOREM SignInTyped == Spec => []TypeOK
<1>1. IInv /\ [Next]_vars => IInv'
  BY StepOK
<1>2. IInv => TypeOK
  BY DEF IInv
<1>. QED
  BY InitOK, <1>1, <1>2, PTL DEF Spec

-----------------------------------------------------------------------------
(* Sessions *)

\* No session is made, given or changed in its type or user, and no second factor
\* that has been shown is forgotten.
Kept ==
    /\ \A i \in Ids : sessions'[i] # Undef =>
          /\ sessions[i] # Undef
          /\ sessions'[i].user = sessions[i].user /\ sessions'[i].type = sessions[i].type
    /\ born' = born /\ shown' = shown /\ guarded' = guarded
    /\ proven \subseteq proven' /\ owed' \subseteq owed

\* The steps of a request that keep the sessions.
Quiet(r) ==
    \/ Door(r) \/ Renew(r) \/ Token(r) \/ Spend(r) \/ Issue(r)
    \/ Lookup(r) \/ Reread(r) \/ Rehash(r) \/ Save(r) \/ Mail(r) \/ Redeem(r) \/ Consume(r)
    \/ Factor(r) \/ Verify(r) \/ Expiry(r)
    \/ Setup(r) \/ Propose(r) \/ Confirm(r) \/ Enable(r) \/ Slack(r)

\* What the request knows after such a step.
Learns(r) ==
    /\ pc[r] # "idle" /\ op' = op
    /\ \A s \in Requests \ {r} : pc'[s] = pc[s] /\ my'[s] = my[s]
    /\ ~Making(r)'
    /\ Active(r)' => Active(r)
    /\ Inside(r)' =>
          \/ Inside(r) /\ my'[r].type = my[r].type
          \/ ~Admitted(r)' /\ sessions[op[r].id] # Undef /\ my'[r].type = sessions[op[r].id].type
    /\ Admitted(r)' => Admitted(r) \/ my'[r].type \in Allowed(op[r].name)
    /\ pc'[r] \in {"expiry", "upgrade"} /\ Is(r, {"second"}) =>
          op[r].id \in proven' \/ pc[r] = "expiry"
    /\ pc'[r] = "upgrade" /\ Is(r, {"change"}) => owed' = OwedWithout(op[r].user)

LEMMA QuietKept ==
    ASSUME IInv, NEW r \in Requests, Quiet(r)
    PROVE  Kept
<1>1. CASE Door(r)
  BY <1>1 DEF Door, Kept, ghosts
<1>2. CASE Renew(r)
  <2>1. \A i \in Ids : sessions[i] # Undef => sessions[i] \in Stored
    BY DEF IInv, TypeOK
  <2>2. my[r].id \in Ids
    BY <1>2, OpOK DEF Renew, IInv, Control, Active, Ended, Inside, Is, Doers, InSession, WithForm
  <2>3. \A i \in Ids : Renewed(r)[i] # Undef =>
            /\ sessions[i] # Undef
            /\ Renewed(r)[i].user = sessions[i].user /\ Renewed(r)[i].type = sessions[i].type
    BY <2>1, <2>2 DEF Renewed, IInv, TypeOK, Stored
  <2>. QED
    BY <1>2, <2>3 DEF Renew, Kept, ghosts
<1>3. CASE Save(r) \/ SaveFails(r)
  BY <1>3 DEF Save, SaveFails, OwedWithout, Kept
<1>4. CASE Verify(r)
  BY <1>4 DEF Verify, Kept
<1>5. CASE UNCHANGED <<sessions, ghosts>>
  BY <1>5 DEF Kept, ghosts
<1>. QED
  BY <1>1, <1>2, <1>3, <1>4, <1>5
     DEF Quiet, Slack, Token, Spend, Issue, Lookup, Reread, Rehash, Mail, Redeem, Consume, Factor,
         Expiry, Setup, Propose, Confirm, Enable, Fail, Refuse, UpgradeFails

\* A request that has been answered knows nothing.
LEMMA LearnsNothing ==
    ASSUME IInv, NEW r \in Requests, Active(r), NEW label \in Ended, NEW m, Goes(r, label, m)
    PROVE  Learns(r)
BY GoesOnly DEF Learns, Active, Inside, Admitted, Making, Ended

\* One that is not in a session neither.
LEMMA LearnsOutside ==
    ASSUME IInv, NEW r \in Requests, Active(r), ~Is(r, InSession), NEW label, NEW m,
           Goes(r, label, m), label \notin {"limit", "greet"}
    PROVE  Learns(r)
BY GoesOnly DEF Learns, Active, Inside, Admitted, Making, Is, InSession, WithForm

\* One that goes on in a session knows what it has known.
LEMMA LearnsInside ==
    ASSUME IInv, NEW r \in Requests, Inside(r), NEW label, NEW m, Goes(r, label, m),
           m.type = my[r].type, label \notin {"limit", "greet"},
           label \in {"renew", "token", "spend"} \/ Admitted(r) \/ m.type \in Allowed(op[r].name),
           label \in {"expiry", "upgrade"} /\ Is(r, {"second"}) =>
              op[r].id \in proven' \/ pc[r] = "expiry",
           label = "upgrade" /\ Is(r, {"change"}) => owed' = OwedWithout(op[r].user)
    PROVE  Learns(r)
<1>1. Active(r) /\ pc[r] # "idle"
  BY DEF Inside, Active
<1>2. CASE label \in Ended
  BY <1>1, <1>2, LearnsNothing
<1>3. CASE label \notin Ended
  BY <1>1, <1>3, GoesOnly DEF Learns, Active, Inside, Admitted, Making, Is
<1>. QED
  BY <1>2, <1>3

LEMMA QuietLearns ==
    ASSUME IInv, NEW r \in Requests, Quiet(r)
    PROVE  Learns(r)
<1>1. Active(r) /\ pc[r] # "idle" /\ op[r].name \in Doers(pc[r])
  BY DEF Quiet, Door, Renew, Token, Spend, Issue, Lookup, Reread, Rehash, Save, Mail, Redeem,
         Consume, Factor, Verify, Expiry, Setup, Propose, Confirm, Enable, Slack, Fail, SaveFails,
         UpgradeFails, Active, Ended, IInv, Control
<1>2. CASE Door(r)
  <2>1. CASE Goto(r, "failed")
    BY <1>1, <2>1, LearnsNothing DEF Goto, Ended
  <2>2. ASSUME Live(op[r].id),
               Goes(r, "renew", [my[r] EXCEPT !.id = op[r].id, !.type = sessions[op[r].id].type])
        PROVE  Learns(r)
    <3>. DEFINE m == [my[r] EXCEPT !.id = op[r].id, !.type = sessions[op[r].id].type]
    <3>1. m.type = sessions[op[r].id].type /\ sessions[op[r].id] # Undef
      BY <2>2, MyOK DEF Mine, Live
    <3>2. Goes(r, "renew", m)
      BY <2>2
    <3>. HIDE DEF m
    <3>3. pc'[r] = "renew" /\ my'[r] = m
      BY <3>2, GoesOnly DEF Ended
    <3>. QED
      BY <1>1, <3>1, <3>2, <3>3, GoesOnly DEF Learns, Active, Inside, Admitted, Making, Is
  <2>. QED
    BY <1>2, <2>1, <2>2 DEF Door
<1>3. CASE Renew(r) \/ Token(r) \/ Spend(r) \/ Issue(r)
  <2>1. Inside(r) /\ op[r].name \in InSession /\ pc[r] \notin {"expiry", "save"}
    BY <1>1, <1>3 DEF Renew, Token, Spend, Issue, Inside, Is, Doers, InSession, WithForm
  <2>2. ASSUME Goto(r, Admit(r))
        PROVE  Learns(r)
    <3>1. CASE Admit(r) = "failed"
      BY <1>1, <2>2, <3>1, LearnsNothing DEF Goto, Ended
    <3>2. CASE my[r].type \in Allowed(op[r].name) /\ Admit(r) = Then(op[r].name)
      <4>1. Admit(r) \notin {"limit", "greet", "expiry"} /\ (Admit(r) = "upgrade" => op[r].name = "scan")
        BY <2>1, <3>2 DEF Then, InSession, WithForm
      <4>. QED
        BY <2>1, <2>2, <3>2, <4>1, LearnsInside DEF Goto, Is
    <3>. QED
      BY <3>1, <3>2 DEF Admit
  <2>3. ASSUME NEW label \in {"token", "failed", "done"}, Goto(r, label)
        PROVE  Learns(r)
    <3>1. CASE label = "token"
      BY <2>1, <2>3, <3>1, LearnsInside DEF Goto
    <3>2. CASE label \in Ended
      BY <1>1, <2>3, <3>2, LearnsNothing DEF Goto
    <3>. QED
      BY <2>3, <3>1, <3>2 DEF Ended
  <2>4. CASE Token(r)
    <3>. DEFINE m == [my[r] EXCEPT !.mine = forms[op[r].form] = Whose(r)]
                label == IF forms[op[r].form] # Undef THEN "spend" ELSE "failed"
    <3>1. m.type = my[r].type /\ label \in {"spend", "failed"} /\ Goes(r, label, m)
      BY <2>4, MyOK DEF Token, Mine
    <3>. HIDE DEF m, label
    <3>2. CASE label = "failed"
      BY <1>1, <3>1, <3>2, LearnsNothing DEF Ended
    <3>3. CASE label = "spend"
      BY <2>1, <3>1, <3>3, LearnsInside
    <3>. QED
      BY <3>1, <3>2, <3>3
  <2>. QED
    BY <1>3, <2>2, <2>3, <2>4 DEF Renew, Spend, Issue
<1>4. CASE Lookup(r)
  <2>. DEFINE h == info[Whose(r)]
              m == [my[r] EXCEPT !.read = h, !.late = Len(h) > 0 /\ h[1].age = "old"]
  <2>1. Goes(r, AfterLookup(r, h), m) /\ m.type = my[r].type
    BY <1>4, MyOK DEF Lookup, Mine
  <2>2. op[r].name \in {"signin", "request", "reset", "change"} /\ pc[r] = "lookup"
    BY <1>1, <1>4 DEF Lookup, Doers
  <2>3. AfterLookup(r, h) \in {"failed", "reread", "save", "mail"}
    BY <2>2 DEF AfterLookup, Is
  <2>. HIDE DEF m, h
  <2>4. CASE op[r].name = "change"
    BY <1>1, <2>1, <2>2, <2>3, <2>4, LearnsInside DEF Inside, Admitted, Is, InSession, WithForm
  <2>5. CASE op[r].name # "change"
    BY <1>1, <2>1, <2>2, <2>3, <2>5, LearnsOutside DEF Is, InSession, WithForm
  <2>. QED
    BY <2>4, <2>5
<1>5. CASE Reread(r) \/ Rehash(r) \/ Mail(r) \/ Redeem(r) \/ Consume(r) \/ Factor(r)
  <2>1. ~Is(r, InSession)
    BY <1>1, <1>5 DEF Reread, Rehash, Mail, Redeem, Consume, Factor, Doers, Is, InSession, WithForm
  <2>2. \E label, m : Goes(r, label, m) /\ label \notin {"limit", "greet"}
    BY <1>5 DEF Reread, Rehash, Mail, Redeem, Consume, Factor, Goto, Labels, Ended
  <2>. QED
    BY <1>1, <2>1, <2>2, LearnsOutside
<1>6. CASE Save(r) \/ SaveFails(r)
  <2>1. /\ op[r].name \in {"change", "reset"} /\ owed' = OwedWithout(op[r].user)
        /\ Goes(r, AfterSave(r), my[r]) /\ pc[r] = "save"
    BY <1>1, <1>6 DEF Save, SaveFails, Doers, Goto, Whose
  <2>2. AfterSave(r) \in {"consume", "upgrade", "done"}
    BY <2>1 DEF AfterSave, Is
  <2>3. CASE op[r].name = "change"
    BY <1>1, <2>1, <2>2, <2>3, LearnsInside DEF Inside, Admitted, Is, InSession, WithForm
  <2>4. CASE op[r].name = "reset"
    BY <1>1, <2>1, <2>2, <2>4, LearnsOutside DEF Is, InSession, WithForm
  <2>. QED
    BY <2>1, <2>3, <2>4
<1>7. CASE Verify(r)
  <2>1. op[r].name = "second" /\ Inside(r) /\ Admitted(r) /\ my[r].id = op[r].id
    BY <1>1, <1>7 DEF Verify, Doers, Inside, Admitted, Is, InSession, WithForm, IInv, Control
  <2>2. CASE proven' = proven \union {my[r].id} /\ Goto(r, "expiry")
    BY <2>1, <2>2, LearnsInside DEF Goto
  <2>3. CASE Goto(r, "failed")
    BY <1>1, <2>3, LearnsNothing DEF Goto, Ended
  <2>. QED
    BY <1>7, <2>2, <2>3 DEF Verify
<1>8. CASE Expiry(r)
  <2>. DEFINE h == info[Whose(r)]
              m == [my[r] EXCEPT !.late = h # <<>> /\ h[1].age # "new"]
              label == IF h = <<>> THEN "failed" ELSE "upgrade"
  <2>1. Goes(r, label, m) /\ m.type = my[r].type /\ label \in {"failed", "upgrade"}
    BY <1>8, MyOK DEF Expiry, Mine
  <2>2. op[r].name = "second" /\ Inside(r) /\ Admitted(r) /\ pc[r] = "expiry"
    BY <1>1, <1>8 DEF Expiry, Doers, Inside, Admitted, Is, InSession, WithForm
  <2>. HIDE DEF m, h, label
  <2>. QED
    BY <2>1, <2>2, LearnsInside DEF Is
<1>9. CASE Setup(r) \/ Propose(r) \/ Confirm(r) \/ Enable(r)
  <2>1. Inside(r) /\ Admitted(r)
    BY <1>1, <1>9 DEF Setup, Propose, Confirm, Enable, Doers, Inside, Admitted, Is, InSession, WithForm
  <2>2. \E label, m : Goes(r, label, m) /\ m.type = my[r].type /\ label \in {"propose", "enable"} \union Ended
    <3>1. ASSUME NEW x \in Secrets
          PROVE  [my[r] EXCEPT !.secret = x, !.todo = {"remove", "add"}].type = my[r].type
      BY MyOK DEF Mine
    <3>2. ASSUME NEW w
          PROVE  [my[r] EXCEPT !.todo = @ \ {w}].type = my[r].type
      BY MyOK DEF Mine
    <3>3. CASE Setup(r) \/ Propose(r)
      BY <3>3 DEF Setup, Propose, Goto, Ended
    <3>4. CASE Confirm(r)
      BY <3>1, <3>4 DEF Confirm, Goto, Ended
    <3>5. CASE Enable(r)
      BY <3>2, <3>5 DEF Enable, Ended
    <3>. QED
      BY <1>9, <3>3, <3>4, <3>5
  <2>. QED
    BY <2>1, <2>2, LearnsInside DEF Ended
<1>10. CASE Fail(r) \/ UpgradeFails(r)
  BY <1>1, <1>10, LearnsNothing DEF Fail, Refuse, UpgradeFails, Goto, Ended
<1>. QED
  BY <1>2, <1>3, <1>4, <1>5, <1>6, <1>7, <1>8, <1>9, <1>10 DEF Quiet, Slack

\* What every other request knows still holds.
LEMMA KeptOthers ==
    ASSUME SessInv, Kept, op' = op, NEW s \in Requests, pc'[s] = pc[s], my'[s] = my[s]
    PROVE  Insight(s)' /\ Fresh(s)'
<1>1. Insight(s) /\ Fresh(s) /\ IInv
  BY DEF SessInv
<1>2. Insight(s)'
  <2>1. Active(s) /\ Is(s, InSession) => op[s].id \in Ids
    BY <1>1, OpOK DEF Active, Is
  <2>. QED
    BY <1>1, <2>1 DEF Kept, Insight, Active, Inside, Admitted, Is
<1>3. Fresh(s)'
  <2>1. Making(s) => my[s].id \in Ids
    BY <1>1 DEF IInv, Control
  <2>2. sessions'[my[s].id] # Undef /\ Making(s) =>
            sessions[my[s].id] # Undef /\ sessions'[my[s].id].type = sessions[my[s].id].type
    BY <2>1 DEF Kept
  <2>3. my[s].id \in owed' => my[s].id \in owed
    BY DEF Kept
  <2>4. born' = born /\ shown' = shown /\ guarded' = guarded
    BY DEF Kept
  <2>. QED
    BY <1>1, <2>2, <2>3, <2>4 DEF Fresh, Making
<1>. QED
  BY <1>2, <1>3

LEMMA KeptStore ==
    ASSUME SessInv, Kept, IInv'
    PROVE  /\ SecondFactorShown'
           /\ shown' \subseteq born' /\ guarded' \subseteq born' /\ owed' \subseteq born'
           /\ \A i \in Ids : sessions'[i] # Undef => i \in born'
           /\ \A i \in Ids \ shown' : sessions'[i] # Undef => sessions'[i].type # "SCAN_ADD"
<1>1. SecondFactorShown'
  BY DEF SessInv, SecondFactorShown, Kept, IInv, TypeOK
<1>. QED
  BY <1>1 DEF SessInv, Kept

LEMMA SessQuiet ==
    ASSUME SessInv, NEW r \in Requests, Quiet(r), IInv'
    PROVE  SessInv'
<1>1. Kept /\ Learns(r) /\ IInv /\ Insight(r)
  BY QuietKept, QuietLearns DEF SessInv
<1>2. \A s \in Requests \ {r} : Insight(s)' /\ Fresh(s)'
  BY <1>1, KeptOthers DEF Learns
<1>3. Insight(r)'
  <2>. DEFINE i == op[r].id
  <2>1. op'[r] = op[r] /\ (Active(r)' => Active(r)) /\ op[r].name = op'[r].name
    BY <1>1 DEF Learns
  <2>2. CASE Active(r)' /\ Is(r, InSession)
    <3>1. i \in Ids /\ i \in shown /\ (sessions[i] # Undef => sessions[i].user = op[r].user)
      BY <1>1, <2>1, <2>2, OpOK DEF Insight, Active, Is
    <3>2. i \in shown' /\ (sessions'[i] # Undef => sessions'[i].user = op[r].user)
      BY <1>1, <3>1 DEF Kept
    <3>3. Inside(r)' /\ i \in guarded' /\ my'[r].type # "IN_PROGRESS_MFA" => i \in proven'
      BY <1>1, <3>1 DEF Learns, Kept, Insight, SessInv, SecondFactorShown
    <3>4. Admitted(r)' => my'[r].type \in Allowed(op[r].name)
      BY <1>1 DEF Learns, Insight, Admitted
    <3>5. pc'[r] \in {"expiry", "upgrade"} /\ Is(r, {"second"}) => i \in proven'
      BY <1>1 DEF Learns, Kept, Insight
    <3>. QED
      BY <2>1, <3>2, <3>3, <3>4, <3>5 DEF Insight, Is
  <2>3. CASE ~(Active(r)' /\ Is(r, InSession))
    BY <1>1, <2>1, <2>3 DEF Insight, Active, Inside, Admitted, Is, Ended, InSession, WithForm
  <2>. QED
    BY <2>2, <2>3
<1>4. Fresh(r)'
  BY <1>1 DEF Learns, Fresh, Making
<1>5. \A s, t \in Requests : Making(s)' /\ Making(t)' /\ my'[s].id = my'[t].id => s = t
  BY <1>1 DEF Learns, SessInv, Making
<1>. QED
  BY <1>1, <1>2, <1>3, <1>4, <1>5, KeptStore DEF SessInv

\* Nothing but the sessions of the store, and no request, changes.
LEMMA SessStill ==
    ASSUME SessInv, Kept, IInv', pc' = pc, op' = op, my' = my
    PROVE  SessInv'
<1>1. \A s \in Requests : Insight(s)' /\ Fresh(s)'
  BY KeptOthers
<1>2. \A s, t \in Requests : Making(s)' /\ Making(t)' /\ my'[s].id = my'[t].id => s = t
  BY DEF SessInv, Making
<1>. QED
  BY <1>1, <1>2, KeptStore DEF SessInv

LEMMA SessArrive ==
    ASSUME SessInv, NEW r \in Requests, Arrive(r), IInv'
    PROVE  SessInv'
<1>1. Kept /\ IInv
  BY DEF Arrive, Kept, ghosts, SessInv
<1>2. PICK o \in Menu :
        /\ o.id # Undef => /\ o.id \in shown
                           /\ sessions[o.id] # Undef => sessions[o.id].user = o.user
        /\ op' = [op EXCEPT ![r] = o]
        /\ pc' = [pc EXCEPT ![r] = First(o.name)]
  BY DEF Arrive
<1>3. my' = my /\ sessions' = sessions /\ shown' = shown /\ pc'[r] = First(o.name) /\ op'[r] = o
  BY <1>1, <1>2 DEF Arrive, ghosts, IInv, TypeOK
<1>4. \A s \in Requests \ {r} : pc'[s] = pc[s] /\ op'[s] = op[s]
  BY <1>1, <1>2 DEF IInv, TypeOK
<1>5. ASSUME NEW s \in Requests \ {r}
      PROVE  Insight(s)' /\ Fresh(s)'
  <2>1. Insight(s) /\ Fresh(s)
    BY DEF SessInv
  <2>. QED
    BY <1>3, <1>4, <2>1
       DEF Arrive, ghosts, Insight, Fresh, Active, Inside, Admitted, Making, Is
<1>6. o.name \in OpNames /\ (o.name \in InSession => o.id # Undef)
  BY SetsOK DEF Ops
<1>7. First(o.name) \in {"door", "lookup", "redeem"} /\ (o.name \in InSession <=> First(o.name) = "door")
  BY <1>6 DEF First, OpNames, InSession, WithForm
<1>8. Insight(r)' /\ Fresh(r)'
  BY <1>2, <1>3, <1>6, <1>7 DEF Insight, Fresh, Active, Inside, Admitted, Making, Is
<1>9. \A s, t \in Requests : Making(s)' /\ Making(t)' /\ my'[s].id = my'[t].id => s = t
  BY <1>3, <1>4, <1>7 DEF SessInv, Making
<1>. QED
  BY <1>1, <1>5, <1>8, <1>9, KeptStore DEF SessInv

\* A session that nobody has had.
LEMMA CreateDoes ==
    ASSUME IInv, NEW r \in Requests, Create(r)
    PROVE  \E i \in Ids \ born :
              /\ sessions' = [sessions EXCEPT ![i] = NewSession(op[r].user)]
              /\ sessions'[i] = NewSession(op[r].user)
              /\ sessions'[i].type = "REGULAR" /\ sessions'[i].user = op[r].user
              /\ \A j \in Ids \ {i} : sessions'[j] = sessions[j]
              /\ guarded' = IF my[r].todo # {} THEN guarded \union {i} ELSE guarded
              /\ born' = born \union {i} /\ shown' = shown /\ proven' = proven /\ owed' = owed
              /\ op' = op /\ my'[r].id = i /\ my'[r].todo = my[r].todo
              /\ pc'[r] \in {"limit", "greet"}
              /\ pc'[r] = "greet" => my[r].todo = {}
              /\ \A s \in Requests \ {r} : pc'[s] = pc[s] /\ my'[s] = my[s]
<1>1. PICK i \in Ids \ born :
        /\ sessions' = [sessions EXCEPT ![i] = NewSession(Whose(r))]
        /\ Goes(r, IF Limits(r) THEN "limit" ELSE "greet", [my[r] EXCEPT !.id = i])
        /\ guarded' = IF my[r].todo # {} THEN guarded \union {i} ELSE guarded
        /\ born' = born \union {i}
  BY DEF Create
<1>. DEFINE m == [my[r] EXCEPT !.id = i]
            label == IF Limits(r) THEN "limit" ELSE "greet"
<1>2. m.id = i /\ m.todo = my[r].todo /\ Goes(r, label, m)
  BY <1>1, MyOK DEF Mine
<1>3. label \in {"limit", "greet"}
  OBVIOUS
<1>4. Active(r) /\ op[r].name \in {"signin", "reset"} /\ pc[r] # "idle" /\ op[r].user \in Users
  BY OpOK DEF Create, Active, Ended, IInv, Control, Doers
<1>5. label = "greet" => my[r].todo = {}
  BY <1>4 DEF Limits, Is, IInv, Control
<1>. HIDE DEF m, label
<1>6. pc'[r] = label /\ my'[r] = m /\ op' = op
      /\ \A s \in Requests \ {r} : pc'[s] = pc[s] /\ my'[s] = my[s]
  BY <1>2, <1>3, GoesOnly DEF Ended
<1>. DEFINE n == NewSession(op[r].user)
<1>7. n \in Stored /\ n.type = "REGULAR" /\ n.user = op[r].user
  BY <1>4 DEF NewSession, Stored, Types
<1>. HIDE DEF n
<1>8. sessions' = [sessions EXCEPT ![i] = n] /\ sessions \in [Ids -> Stored \union {Undef}]
  BY <1>1 DEF Whose, n, IInv, TypeOK
<1>9. sessions'[i] = n /\ \A j \in Ids \ {i} : sessions'[j] = sessions[j]
  BY <1>8
<1>10. shown' = shown /\ proven' = proven /\ owed' = owed
  BY DEF Create
<1>. QED
  BY <1>1, <1>2, <1>3, <1>5, <1>6, <1>7, <1>8, <1>9, <1>10 DEF n

LEMMA SessCreate ==
    ASSUME SessInv, NEW r \in Requests, Create(r), IInv'
    PROVE  SessInv'
<1>1. IInv /\ \A s \in Requests : Insight(s) /\ Fresh(s)
  BY DEF SessInv
<1>2. PICK i \in Ids \ born :
        /\ sessions'[i].type = "REGULAR"
        /\ \A j \in Ids \ {i} : sessions'[j] = sessions[j]
        /\ guarded' = IF my[r].todo # {} THEN guarded \union {i} ELSE guarded
        /\ born' = born \union {i} /\ shown' = shown /\ proven' = proven /\ owed' = owed
        /\ op' = op /\ my'[r].id = i /\ my'[r].todo = my[r].todo
        /\ pc'[r] \in {"limit", "greet"}
        /\ pc'[r] = "greet" => my[r].todo = {}
        /\ \A s \in Requests \ {r} : pc'[s] = pc[s] /\ my'[s] = my[s]
  BY <1>1, CreateDoes
<1>3. i \notin shown /\ i \notin guarded /\ i \notin owed
  BY <1>2 DEF SessInv
<1>4. ASSUME NEW s \in Requests \ {r}
      PROVE  Insight(s)' /\ Fresh(s)'
  <2>1. Active(s) /\ Is(s, InSession) => op[s].id \in Ids \ {i}
    BY <1>1, <1>3, OpOK DEF Insight, Active, Is
  <2>2. Insight(s)'
    BY <1>1, <1>2, <2>1 DEF Insight, Active, Inside, Admitted, Is, Ended, InSession, WithForm
  <2>3. Making(s) => my[s].id \in Ids \ {i}
    BY <1>1, <1>2 DEF Fresh, IInv, Control
  <2>4. Fresh(s)'
    BY <1>1, <1>2, <2>3 DEF Fresh, Making
  <2>. QED
    BY <2>2, <2>4
<1>5. Insight(r)' /\ Fresh(r)'
  <2>1. ~Is(r, InSession)
    BY <1>1, <1>2 DEF Create, IInv, Control, Active, Ended, Doers, Is, InSession, WithForm
  <2>2. Insight(r)'
    BY <1>2, <2>1 DEF Insight, Inside, Admitted, Is, InSession, WithForm
  <2>3. Fresh(r)'
    BY <1>2, <1>3 DEF Fresh, Making
  <2>. QED
    BY <2>2, <2>3
<1>6. \A s, t \in Requests : Making(s)' /\ Making(t)' /\ my'[s].id = my'[t].id => s = t
  <2>1. \A s \in Requests \ {r} : Making(s)' => Making(s) /\ my'[s].id = my[s].id /\ my[s].id # i
    BY <1>1, <1>2 DEF Fresh, Making
  <2>. QED
    BY <1>2, <2>1 DEF SessInv
<1>7. SecondFactorShown'
  BY <1>2, <1>3 DEF SessInv, SecondFactorShown, IInv, TypeOK
<1>8. /\ shown' \subseteq born' /\ guarded' \subseteq born' /\ owed' \subseteq born'
      /\ \A j \in Ids : sessions'[j] # Undef => j \in born'
      /\ \A j \in Ids \ shown' : sessions'[j] # Undef => sessions'[j].type # "SCAN_ADD"
  BY <1>2 DEF SessInv
<1>. QED
  BY <1>2, <1>4, <1>5, <1>6, <1>7, <1>8 DEF SessInv

\* What a request puts in the place of its session, and which one that is.
LEMMA LimitDoes ==
    ASSUME IInv, NEW r \in Requests, Limit(r)
    PROVE  /\ pc[r] = "limit" /\ my[r].id \in Ids /\ Limited(r) \in {"IN_PROGRESS_MFA", "PASSWORD_RESET"}
           /\ \A j \in Ids \ {my[r].id} : sessions'[j] = sessions[j]
           /\ sessions'[my[r].id] # Undef => sessions'[my[r].id].type = Limited(r)
           /\ owed' = IF Limited(r) = "PASSWORD_RESET" THEN owed \union {my[r].id} ELSE owed
           /\ UNCHANGED <<op, my, born, shown, guarded, proven>>
           /\ pc'[r] = "greet" /\ \A s \in Requests \ {r} : pc'[s] = pc[s]
<1>1. my[r].id \in Ids /\ pc[r] = "limit"
  BY DEF Limit, IInv, Control, Making
<1>2. Limited(r) \in {"IN_PROGRESS_MFA", "PASSWORD_RESET"} /\ Limited(r) \in Types
  BY DEF Limited, Types
<1>3. /\ \A j \in Ids \ {my[r].id} : sessions'[j] = sessions[j]
      /\ sessions'[my[r].id] # Undef => sessions'[my[r].id].type = Limited(r)
  BY <1>1, <1>2, PutOK DEF Limit, IInv
<1>4. pc' = [pc EXCEPT ![r] = "greet"] /\ my' = my /\ op' = op
  BY DEF Limit, Goto, Goes, Ended, IInv, TypeOK
<1>. QED
  BY <1>1, <1>2, <1>3, <1>4 DEF Limit, IInv, TypeOK

LEMMA SessLimit ==
    ASSUME SessInv, NEW r \in Requests, Limit(r), IInv'
    PROVE  SessInv'
<1>1. IInv /\ \A s \in Requests : Insight(s) /\ Fresh(s)
  BY DEF SessInv
<1>. DEFINE i == my[r].id
<1>2. /\ pc[r] = "limit" /\ i \in Ids /\ Limited(r) \in {"IN_PROGRESS_MFA", "PASSWORD_RESET"}
      /\ \A j \in Ids \ {i} : sessions'[j] = sessions[j]
      /\ sessions'[i] # Undef => sessions'[i].type = Limited(r)
      /\ owed' = IF Limited(r) = "PASSWORD_RESET" THEN owed \union {i} ELSE owed
      /\ UNCHANGED <<op, my, born, shown, guarded, proven>>
      /\ pc'[r] = "greet" /\ \A s \in Requests \ {r} : pc'[s] = pc[s]
  BY <1>1, LimitDoes
<1>3. Making(r) /\ i \in born \ shown /\ (i \in guarded <=> my[r].todo # {}) /\ i \notin owed
  BY <1>1, <1>2 DEF Fresh, Making
<1>4. ASSUME NEW s \in Requests \ {r}
      PROVE  Insight(s)' /\ Fresh(s)'
  <2>1. Active(s) /\ Is(s, InSession) => op[s].id \in Ids \ {i}
    BY <1>1, <1>3, OpOK DEF Insight, Active, Is
  <2>2. Insight(s)'
    BY <1>1, <1>2, <2>1 DEF Insight, Active, Inside, Admitted, Is, Ended, InSession, WithForm
  <2>3. Making(s) => my[s].id \in Ids \ {i}
    BY <1>1, <1>3 DEF SessInv, IInv, Control
  <2>4. Fresh(s)'
    BY <1>1, <1>2, <2>3 DEF Fresh, Making
  <2>. QED
    BY <2>2, <2>4
<1>5. Insight(r)' /\ Fresh(r)'
  <2>1. ~Is(r, InSession)
    BY <1>1, <1>2 DEF IInv, Control, Active, Ended, Doers, Is, InSession, WithForm
  <2>2. Insight(r)'
    BY <1>2, <2>1 DEF Insight, Inside, Admitted, Is, InSession, WithForm
  <2>3. Fresh(r)'
    BY <1>2, <1>3 DEF Fresh, Making, Limited
  <2>. QED
    BY <2>2, <2>3
<1>6. \A s, t \in Requests : Making(s)' /\ Making(t)' /\ my'[s].id = my'[t].id => s = t
  BY <1>2, <1>3 DEF SessInv, Making
<1>7. SecondFactorShown'
  BY <1>2, <1>3 DEF SessInv, SecondFactorShown, IInv, TypeOK
<1>8. /\ shown' \subseteq born' /\ guarded' \subseteq born' /\ owed' \subseteq born'
      /\ \A j \in Ids : sessions'[j] # Undef => j \in born'
      /\ \A j \in Ids \ shown' : sessions'[j] # Undef => sessions'[j].type # "SCAN_ADD"
  BY <1>2, <1>3 DEF SessInv
<1>. QED
  BY <1>4, <1>5, <1>6, <1>7, <1>8 DEF SessInv

LEMMA SessGreet ==
    ASSUME SessInv, NEW r \in Requests, Greet(r), IInv'
    PROVE  SessInv'
<1>1. IInv /\ \A s \in Requests : Insight(s) /\ Fresh(s)
  BY DEF SessInv
<1>. DEFINE i == my[r].id
<1>2. /\ pc[r] = "greet" /\ shown' = shown \union {i} /\ op' = op /\ pc'[r] = "done"
      /\ UNCHANGED <<sessions, born, guarded, proven, owed>>
      /\ \A s \in Requests \ {r} : pc'[s] = pc[s] /\ my'[s] = my[s]
  BY <1>1, GoesOnly DEF Greet, Goto
<1>3. Making(r) /\ i \in born \ shown /\ i \in Ids
      /\ (sessions[i] # Undef /\ i \in guarded => sessions[i].type = "IN_PROGRESS_MFA")
  BY <1>1, <1>2 DEF Fresh, Making, IInv, Control
<1>4. ASSUME NEW s \in Requests \ {r}
      PROVE  Insight(s)' /\ Fresh(s)'
  <2>1. Insight(s)'
    BY <1>1, <1>2 DEF Insight, Active, Inside, Admitted, Is
  <2>2. Making(s) => my[s].id # i
    BY <1>3 DEF SessInv
  <2>3. Fresh(s)'
    BY <1>1, <1>2, <2>2 DEF Fresh, Making
  <2>. QED
    BY <2>1, <2>3
<1>5. Insight(r)' /\ Fresh(r)'
  BY <1>2 DEF Insight, Fresh, Active, Inside, Admitted, Making, Ended
<1>6. \A s, t \in Requests : Making(s)' /\ Making(t)' /\ my'[s].id = my'[t].id => s = t
  BY <1>2 DEF SessInv, Making
<1>7. SecondFactorShown'
  BY <1>2, <1>3 DEF SessInv, SecondFactorShown
<1>8. /\ shown' \subseteq born' /\ guarded' \subseteq born' /\ owed' \subseteq born'
      /\ \A j \in Ids : sessions'[j] # Undef => j \in born'
      /\ \A j \in Ids \ shown' : sessions'[j] # Undef => sessions'[j].type # "SCAN_ADD"
  BY <1>2, <1>3 DEF SessInv
<1>. QED
  BY <1>4, <1>5, <1>6, <1>7, <1>8 DEF SessInv

LEMMA UpgradeDoes ==
    ASSUME IInv, NEW r \in Requests, Upgrade(r)
    PROVE  LET i == op[r].id IN
           /\ pc[r] = "upgrade" /\ op[r].name \in {"change", "second", "scan"}
           /\ i \in Ids /\ Admitted(r) /\ Active(r)
           /\ \A j \in Ids \ {i} : sessions'[j] = sessions[j]
           /\ sessions'[i] # Undef => /\ sessions[i] # Undef
                                      /\ sessions'[i].type = Upgraded(r)
                                      /\ sessions'[i].user = sessions[i].user
           /\ owed' = IF Upgraded(r) = "PASSWORD_RESET" THEN owed \union {i} ELSE owed
           /\ UNCHANGED <<op, born, shown, guarded, proven>>
           /\ pc'[r] = "done" /\ \A s \in Requests \ {r} : pc'[s] = pc[s] /\ my'[s] = my[s]
<1>1. /\ pc[r] = "upgrade" /\ op[r].name \in {"change", "second", "scan"}
      /\ op[r].id \in Ids /\ Admitted(r) /\ Active(r) /\ my[r].id = op[r].id
  BY OpOK DEF Upgrade, IInv, Control, Doers, Active, Inside, Admitted, Is, Ended, InSession, WithForm
<1>2. Upgraded(r) \in Types
  BY <1>1 DEF Upgraded, Is, Types
<1>3. /\ \A j \in Ids \ {op[r].id} : sessions'[j] = sessions[j]
      /\ sessions[op[r].id] = Undef => sessions'[op[r].id] = Undef
      /\ sessions[op[r].id] # Undef => /\ sessions'[op[r].id].type = Upgraded(r)
                                       /\ sessions'[op[r].id].user = sessions[op[r].id].user
  BY <1>1, <1>2, PutOK DEF Upgrade, IInv
<1>4. pc'[r] = "done" /\ op' = op /\ \A s \in Requests \ {r} : pc'[s] = pc[s] /\ my'[s] = my[s]
  BY GoesOnly DEF Upgrade, Goto
<1>. QED
  BY <1>1, <1>3, <1>4 DEF Upgrade

LEMMA SessUpgrade ==
    ASSUME SessInv, NEW r \in Requests, Upgrade(r), IInv'
    PROVE  SessInv'
<1>1. IInv /\ \A s \in Requests : Insight(s) /\ Fresh(s)
  BY DEF SessInv
<1>. DEFINE i == op[r].id
<1>2. /\ pc[r] = "upgrade" /\ op[r].name \in {"change", "second", "scan"}
      /\ i \in Ids /\ Admitted(r) /\ Active(r)
      /\ \A j \in Ids \ {i} : sessions'[j] = sessions[j]
      /\ sessions'[i] # Undef => /\ sessions[i] # Undef
                                 /\ sessions'[i].type = Upgraded(r)
                                 /\ sessions'[i].user = sessions[i].user
      /\ owed' = IF Upgraded(r) = "PASSWORD_RESET" THEN owed \union {i} ELSE owed
      /\ UNCHANGED <<op, born, shown, guarded, proven>>
      /\ pc'[r] = "done" /\ \A s \in Requests \ {r} : pc'[s] = pc[s] /\ my'[s] = my[s]
  BY <1>1, UpgradeDoes
<1>3. i \in shown
  BY <1>1, <1>2 DEF Insight, Is, InSession, WithForm
<1>4. i \in guarded => i \in proven
  <2>1. my[r].type \in Allowed(op[r].name) /\ Inside(r)
    BY <1>1, <1>2 DEF Insight, Admitted
  <2>2. CASE op[r].name = "second"
    BY <1>1, <1>2, <2>2 DEF Insight, Is
  <2>3. CASE op[r].name \in {"change", "scan"}
    BY <1>1, <2>1, <2>3 DEF Insight, Allowed
  <2>. QED
    BY <1>2, <2>2, <2>3
<1>5. ASSUME NEW s \in Requests \ {r}
      PROVE  Insight(s)' /\ Fresh(s)'
  <2>1. Active(s) /\ Is(s, InSession) => op[s].id \in Ids
    BY <1>1, OpOK DEF Active, Is
  <2>2. Insight(s)'
    BY <1>1, <1>2, <2>1 DEF Insight, Active, Inside, Admitted, Is
  <2>3. Making(s) => my[s].id \in Ids \ {i}
    BY <1>1, <1>3 DEF Fresh, IInv, Control
  <2>4. Fresh(s)'
    BY <1>1, <1>2, <2>3 DEF Fresh, Making
  <2>. QED
    BY <2>2, <2>4
<1>6. Insight(r)' /\ Fresh(r)'
  BY <1>2 DEF Insight, Fresh, Active, Inside, Admitted, Making, Ended
<1>7. \A s, t \in Requests : Making(s)' /\ Making(t)' /\ my'[s].id = my'[t].id => s = t
  BY <1>2 DEF SessInv, Making
<1>8. SecondFactorShown'
  BY <1>2, <1>4 DEF SessInv, SecondFactorShown, IInv, TypeOK
<1>9. /\ shown' \subseteq born' /\ guarded' \subseteq born' /\ owed' \subseteq born'
      /\ \A j \in Ids : sessions'[j] # Undef => j \in born'
      /\ \A j \in Ids \ shown' : sessions'[j] # Undef => sessions'[j].type # "SCAN_ADD"
  BY <1>2, <1>3 DEF SessInv
<1>. QED
  BY <1>5, <1>6, <1>7, <1>8, <1>9 DEF SessInv

LEMMA LapseKept ==
    ASSUME IInv, NEW i \in Ids, Lapse(i)
    PROVE  Kept
<1>1. /\ sessions[i] \in Stored /\ sessions' = [sessions EXCEPT ![i].until = "over"]
      /\ sessions \in [Ids -> Stored \union {Undef}] /\ sessions[i] # Undef
  BY DEF Lapse, Live, IInv, TypeOK
<1>. QED
  BY <1>1 DEF Lapse, Kept, Stored, ghosts

LEMMA SessInit == Init => SessInv
<1>1. SUFFICES ASSUME Init PROVE SessInv
  OBVIOUS
<1>2. IInv
  BY <1>1, InitOK
<1>3. \A r \in Requests : pc[r] = "idle"
  BY <1>1 DEF Init
<1>4. \A r \in Requests : Insight(r) /\ Fresh(r) /\ ~Making(r)
  BY <1>3 DEF Insight, Fresh, Active, Inside, Admitted, Making
<1>5. SecondFactorShown
  BY <1>1 DEF Init, SecondFactorShown
<1>6. /\ shown \subseteq born /\ guarded \subseteq born /\ owed \subseteq born
      /\ \A i \in Ids : sessions[i] # Undef => i \in born
      /\ \A i \in Ids \ shown : sessions[i] # Undef => sessions[i].type # "SCAN_ADD"
  BY <1>1 DEF Init
<1>. QED
  BY <1>2, <1>4, <1>5, <1>6 DEF SessInv

\* A step keeps the sessions, or is one of the four that do not.
LEMMA Cases ==
    ASSUME Next
    PROVE  \/ \E r \in Requests : Arrive(r)
           \/ \E r \in Requests : Quiet(r)
           \/ \E r \in Requests : Create(r) \/ Limit(r) \/ Greet(r) \/ Upgrade(r)
           \/ \E i \in Ids : Lapse(i)
           \/ UNCHANGED vars
BY DEF Next, Step, Quiet, Rest

LEMMA SessStep ==
    ASSUME SessInv, [Next]_vars
    PROVE  SessInv'
<1>1. IInv'
  BY StepOK DEF SessInv
<1>2. ASSUME UNCHANGED vars
      PROVE  SessInv'
  <2>1. Kept
    BY <1>2 DEF vars, Kept
  <2>. QED
    BY <1>1, <1>2, <2>1, SessStill DEF vars
<1>3. ASSUME NEW i \in Ids, Lapse(i)
      PROVE  SessInv'
  BY <1>1, <1>3, LapseKept, SessStill DEF Lapse, SessInv
<1>. QED
  BY <1>1, <1>2, <1>3, Cases, SessArrive, SessQuiet, SessCreate, SessLimit, SessGreet, SessUpgrade

\* Whoever had a second factor when signing in has shown it before the session is
\* good for more, whatever overlaps and whichever calls fail.
THEOREM SecondFactors == Spec => []SecondFactorShown
<1>1. SessInv /\ [Next]_vars => SessInv'
  BY SessStep
<1>2. SessInv => SecondFactorShown
  BY DEF SessInv
<1>. QED
  BY SessInit, <1>1, <1>2, PTL DEF Spec

-----------------------------------------------------------------------------
(* What does not overlap *)

\* No request but one that arrives becomes active, and none changes what it asks for.
LEMMA GoesOn ==
    ASSUME IInv, NEW r \in Requests, Step(r) \/ Slack(r)
    PROVE  /\ Active(r) /\ op' = op
           /\ \A s \in Requests \ {r} : pc'[s] = pc[s] /\ my'[s] = my[s]
<1>1. Active(r)
  BY DEF Step, Door, Renew, Token, Spend, Issue, Lookup, Reread, Rehash, Save, Mail, Redeem,
         Consume, Factor, Create, Limit, Greet, Verify, Expiry, Upgrade, Setup, Propose, Confirm,
         Enable, Slack, Fail, SaveFails, UpgradeFails, Active, Ended
<1>2. CASE Quiet(r)
  BY <1>1, <1>2, QuietLearns DEF Learns
<1>3. CASE Create(r)
  BY <1>1, <1>3, CreateDoes
<1>4. CASE Limit(r) \/ Greet(r) \/ Upgrade(r)
  BY <1>1, <1>4, GoesOnly DEF Limit, Greet, Upgrade, Goto
<1>. QED
  BY <1>1, <1>2, <1>3, <1>4 DEF Step, Quiet

LEMMA ApartStep ==
    ASSUME IInv, ApartKept, [Next]_vars
    PROVE  ApartKept'
<1>1. ASSUME NEW r \in Requests, Step(r) \/ Slack(r)
      PROVE  ApartKept'
  <2>1. \A s \in Requests : op'[s] = op[s] /\ (Active(s)' => Active(s))
    BY <1>1, GoesOn DEF Active
  <2>. QED
    BY <2>1 DEF ApartKept
<1>2. ASSUME NEW r \in Requests, Arrive(r)
      PROVE  ApartKept'
  <2>1. PICK o \in Menu :
          /\ \A s \in Requests : Active(s) /\ op[s].user = o.user =>
                <<o.name, op[s].name>> \notin Apart /\ <<op[s].name, o.name>> \notin Apart
          /\ op' = [op EXCEPT ![r] = o]
          /\ pc' = [pc EXCEPT ![r] = First(o.name)]
    BY <1>2 DEF Arrive
  <2>2. op'[r] = o /\ \A s \in Requests \ {r} : op'[s] = op[s] /\ (Active(s)' => Active(s))
    BY <2>1 DEF IInv, TypeOK, Active
  <2>. QED
    BY <2>1, <2>2, ZenonT(60) DEF ApartKept
<1>3. CASE UNCHANGED <<pc, op>>
  BY <1>3 DEF ApartKept, Active
<1>. QED
  BY <1>1, <1>2, <1>3 DEF Next, Lapse, Rest, vars

LEMMA ApartInit == Init => ApartKept
BY DEF Init, ApartKept, Active

-----------------------------------------------------------------------------
(* Expired passwords *)

\* Nothing but the sessions of the store changes for another request.
LEMMA ShutOthers ==
    ASSUME SessInv, Kept, op' = op, NEW s \in Requests, pc'[s] = pc[s], my'[s] = my[s], Shut(s)
    PROVE  Shut(s)'
<1>1. Inside(s) => op[s].id \in Ids
  BY OpOK DEF SessInv, Inside, Active, Is
<1>2. pc[s] = "upgrade" /\ Is(s, {"change"}) => Inside(s)
  BY DEF Inside, Active, Ended, Is, InSession, WithForm
<1>. QED
  BY <1>1, <1>2 DEF Kept, Shut, Active, Inside, Is

LEMMA OwedKept ==
    ASSUME ExpiryInv, Kept
    PROVE  \A i \in owed' : sessions'[i] # Undef => sessions'[i].type = "PASSWORD_RESET"
BY DEF ExpiryInv, SessInv, IInv, TypeOK, Kept

LEMMA ExpiryQuiet ==
    ASSUME ExpiryInv, NEW r \in Requests, Quiet(r), SessInv', ApartKept'
    PROVE  ExpiryInv'
<1>1. SessInv /\ IInv /\ Kept /\ Learns(r) /\ Insight(r) /\ Shut(r)
  BY QuietKept, QuietLearns DEF ExpiryInv, SessInv
<1>2. \A s \in Requests \ {r} : Shut(s)'
  BY <1>1, ShutOthers DEF Learns, ExpiryInv
<1>3. Shut(r)'
  <2>. DEFINE i == op[r].id
  <2>1. op'[r] = op[r]
    BY <1>1 DEF Learns
  <2>2. CASE Inside(r)'
    <3>1. i \in Ids
      BY <1>1, <2>1, <2>2, OpOK DEF Learns, Inside, Is
    <3>2. sessions'[i] # Undef => sessions[i] # Undef /\ sessions'[i].type = sessions[i].type
                                  /\ (i \in owed' => sessions[i].type = "PASSWORD_RESET")
      BY <1>1, <3>1 DEF Kept, ExpiryInv
    <3>3. CASE Inside(r) /\ my'[r].type = my[r].type
      BY <1>1, <2>1, <3>2, <3>3 DEF Shut, Learns, Kept, Is, OwedWithout, Insight, Inside
    <3>4. CASE ~Admitted(r)' /\ sessions[i] # Undef /\ my'[r].type = sessions[i].type
      <4>1. pc'[r] # "upgrade"
        BY <2>2, <3>4 DEF Admitted
      <4>. QED
        BY <2>1, <3>2, <3>4, <4>1 DEF Shut, Full, Is
    <3>. QED
      BY <1>1, <2>2, <3>3, <3>4 DEF Learns
  <2>3. CASE ~Inside(r)'
    BY <2>1, <2>3 DEF Shut, Inside, Active, Is, Ended, InSession, WithForm
  <2>. QED
    BY <2>2, <2>3
<1>. QED
  BY <1>1, <1>2, <1>3, OwedKept DEF ExpiryInv

\* A session that nobody has been given, or that there has not been, is in nobody's
\* way.
LEMMA ShutElsewhere ==
    ASSUME SessInv, NEW r \in Requests, Create(r) \/ Limit(r) \/ Greet(r),
           \A s \in Requests : Shut(s)
    PROVE  \A s \in Requests : Shut(s)'
<1>1. IInv /\ \A s \in Requests : Insight(s) /\ Fresh(s)
  BY DEF SessInv
<1>2. ~Is(r, InSession) /\ op' = op /\ \A s \in Requests \ {r} : pc'[s] = pc[s] /\ my'[s] = my[s]
  <2>1. pc[r] \in {"create", "limit", "greet"} /\ Step(r)
    BY DEF Create, Limit, Greet, Step
  <2>2. ~Is(r, InSession)
    BY <1>1, <2>1 DEF IInv, Control, Active, Ended, Doers, Is, InSession, WithForm
  <2>. QED
    BY <1>1, <2>1, <2>2, GoesOn
<1>3. Shut(r)'
  BY <1>2 DEF Shut, Inside, Is, InSession, WithForm
<1>4. ASSUME NEW i \in shown
      PROVE  sessions'[i] = sessions[i] /\ (i \in owed' => i \in owed)
  <2>1. i \in Ids /\ i \in born
    BY DEF SessInv, IInv, TypeOK
  <2>2. CASE Create(r)
    BY <1>1, <2>1, <2>2, CreateDoes
  <2>3. CASE Limit(r)
    <3>1. my[r].id \notin shown
      BY <1>1, <2>3 DEF Fresh, Making, Limit
    <3>. QED
      BY <1>1, <2>1, <2>3, <3>1, LimitDoes
  <2>4. CASE Greet(r)
    BY <2>4 DEF Greet
  <2>. QED
    BY <2>2, <2>3, <2>4
<1>5. ASSUME NEW s \in Requests \ {r}
      PROVE  Shut(s)'
  <2>1. Inside(s) => op[s].id \in shown
    BY <1>1 DEF Insight, Inside
  <2>2. pc[s] = "upgrade" /\ Is(s, {"change"}) => Inside(s)
    BY DEF Inside, Active, Ended, Is, InSession, WithForm
  <2>. QED
    BY <1>2, <1>4, <2>1, <2>2 DEF Shut, Active, Inside, Is
<1>. QED
  BY <1>3, <1>5

LEMMA OwedMade ==
    ASSUME ExpiryInv, NEW r \in Requests, Create(r) \/ Limit(r) \/ Greet(r)
    PROVE  \A i \in owed' : sessions'[i] # Undef => sessions'[i].type = "PASSWORD_RESET"
<1>1. SessInv /\ IInv /\ \A s \in Requests : Fresh(s)
  BY DEF ExpiryInv, SessInv
<1>2. owed \subseteq born /\ owed \subseteq Ids
  BY <1>1 DEF SessInv, IInv, TypeOK
<1>3. CASE Create(r)
  BY <1>1, <1>2, <1>3, CreateDoes DEF ExpiryInv
<1>4. CASE Limit(r)
  <2>1. my[r].id \notin owed
    BY <1>1, <1>4 DEF Fresh, Limit
  <2>. QED
    BY <1>1, <1>2, <1>4, <2>1, LimitDoes DEF ExpiryInv
<1>5. CASE Greet(r)
  BY <1>5 DEF Greet, ExpiryInv
<1>. QED
  BY <1>3, <1>4, <1>5

LEMMA ExpiryUpgrade ==
    ASSUME SecondsApart, ExpiryInv, NEW r \in Requests, Upgrade(r), SessInv', ApartKept'
    PROVE  ExpiryInv'
<1>1. IInv /\ SessInv /\ \A s \in Requests : Insight(s) /\ Shut(s)
  BY DEF ExpiryInv, SessInv
<1>. DEFINE i == op[r].id
<1>2. /\ pc[r] = "upgrade" /\ op[r].name \in {"change", "second", "scan"}
      /\ i \in Ids /\ Admitted(r) /\ Active(r)
      /\ \A j \in Ids \ {i} : sessions'[j] = sessions[j]
      /\ sessions'[i] # Undef => /\ sessions[i] # Undef
                                 /\ sessions'[i].type = Upgraded(r)
                                 /\ sessions'[i].user = sessions[i].user
      /\ owed' = IF Upgraded(r) = "PASSWORD_RESET" THEN owed \union {i} ELSE owed
      /\ op' = op
      /\ pc'[r] = "done" /\ \A s \in Requests \ {r} : pc'[s] = pc[s] /\ my'[s] = my[s]
  BY <1>1, UpgradeDoes
<1>3. Inside(r) /\ my[r].type \in Allowed(op[r].name)
  BY <1>1, <1>2 DEF Insight, Admitted
<1>4. CASE sessions'[i] = Undef
  <2>1. \A j \in owed' : sessions'[j] # Undef => sessions'[j].type = "PASSWORD_RESET"
    BY <1>1, <1>2, <1>4 DEF ExpiryInv, SessInv, IInv, TypeOK
  <2>2. ASSUME NEW s \in Requests \ {r}
        PROVE  Shut(s)'
    <3>1. Inside(s) => op[s].id \in Ids
      BY <1>1, OpOK DEF Inside, Active, Is
    <3>2. pc[s] = "upgrade" /\ Is(s, {"change"}) => Inside(s)
      BY DEF Inside, Active, Ended, Is, InSession, WithForm
    <3>. QED
      BY <1>1, <1>2, <1>4, <3>1, <3>2 DEF Shut, Active, Inside, Is
  <2>3. Shut(r)'
    BY <1>2 DEF Shut, Inside, Active, Ended
  <2>. QED
    BY <2>1, <2>2, <2>3 DEF ExpiryInv
<1>5. CASE sessions'[i] # Undef
  <2>1. sessions[i] # Undef /\ sessions[i].user = op[r].user
    BY <1>1, <1>2, <1>3, <1>5 DEF Insight, Inside
  \* What the session was.
  <2>2. /\ op[r].name = "second" => sessions[i].type = "IN_PROGRESS_MFA" /\ i \notin owed
        /\ op[r].name \in {"change", "scan"} =>
              sessions[i].type # "IN_PROGRESS_MFA" /\ i \notin owed
    <3>1. CASE op[r].name = "second"
      <4>1. my[r].type = "IN_PROGRESS_MFA"
        BY <1>3, <3>1 DEF Allowed
      <4>. QED
        BY <1>1, <1>3, <2>1, <3>1, <4>1 DEF Shut, Is, ExpiryInv
    <3>2. CASE op[r].name = "change"
      BY <1>1, <1>2, <1>3, <2>1, <3>2 DEF Shut, Is, Allowed
    <3>3. CASE op[r].name = "scan"
      BY <1>1, <1>3, <2>1, <3>3 DEF Shut, Is, Allowed, Full
    <3>. QED
      BY <3>1, <3>2, <3>3
  \* What it becomes.
  <2>3. /\ Upgraded(r) # "IN_PROGRESS_MFA"
        /\ Upgraded(r) = "PASSWORD_RESET" => op[r].name = "second"
    BY <1>2 DEF Upgraded, Is
  <2>4. \A j \in owed' : sessions'[j] # Undef => sessions'[j].type = "PASSWORD_RESET"
    <3>1. owed \subseteq Ids /\ i \notin owed
      BY <1>1, <1>2, <2>2 DEF IInv, TypeOK
    <3>. QED
      BY <1>2, <1>5, <3>1 DEF ExpiryInv
  <2>5. ASSUME NEW s \in Requests \ {r}
        PROVE  Shut(s)'
    <3>1. Inside(s) => op[s].id \in Ids /\ (sessions[op[s].id] # Undef => sessions[op[s].id].user = op[s].user)
      BY <1>1, OpOK DEF Inside, Active, Is, Insight
    <3>2. pc[s] = "upgrade" /\ Is(s, {"change"}) => Inside(s) /\ Admitted(s)
      BY DEF Inside, Admitted, Active, Ended, Is, InSession, WithForm
    <3>3. CASE Inside(s) /\ op[s].id = i
      <4>1. op[s].user = op[r].user /\ Active(s)
        BY <2>1, <3>1, <3>3 DEF Inside
      <4>2. ~(Is(r, {"second"}) /\ Is(s, {"second"}))
        BY <1>2, <4>1 DEF ExpiryInv, ApartKept, SecondsApart, Is
      <4>3. Is(s, {"second"}) /\ my[s].type = "IN_PROGRESS_MFA" => FALSE
        <5>1. SUFFICES ASSUME Is(s, {"second"}), my[s].type = "IN_PROGRESS_MFA"
                       PROVE  FALSE
          OBVIOUS
        <5>2. sessions[i].type = "IN_PROGRESS_MFA"
          BY <1>1, <2>1, <3>3, <5>1 DEF Shut
        <5>. QED
          BY <1>2, <2>2, <4>2, <5>1, <5>2 DEF Is
      <4>4. my[s].type \in Full \/ (pc[s] = "upgrade" /\ Is(s, {"change"})) => my[s].type # "IN_PROGRESS_MFA"
        BY <1>1, <3>2 DEF Full, Insight, Is, Allowed
      <4>5. my[s].type # "IN_PROGRESS_MFA" => op[r].name # "second"
        BY <1>1, <2>1, <2>2, <3>3 DEF Shut
      <4>6. my[s].type # "IN_PROGRESS_MFA" => owed' = owed
        BY <1>2, <2>3, <4>5
      <4>7. /\ Inside(s)' <=> Inside(s)
            /\ my'[s] = my[s] /\ op'[s] = op[s] /\ pc'[s] = pc[s] /\ (Is(s, {"change"})' <=> Is(s, {"change"}))
            /\ (Is(s, {"second"})' <=> Is(s, {"second"}))
        BY <1>2 DEF Inside, Active, Is
      <4>8. i \notin owed
        BY <1>2, <2>2
      <4>. QED
        BY <1>2, <1>5, <2>3, <3>3, <4>3, <4>4, <4>6, <4>7, <4>8 DEF Shut
    <3>4. CASE Inside(s) /\ op[s].id # i
      <4>1. sessions'[op[s].id] = sessions[op[s].id] /\ (op[s].id \in owed' => op[s].id \in owed)
        BY <1>2, <3>1, <3>4
      <4>. QED
        BY <1>1, <1>2, <3>4, <4>1 DEF Shut, Active, Inside, Is
    <3>5. CASE ~Inside(s)
      BY <1>2, <3>2, <3>5 DEF Shut, Active, Inside, Is
    <3>. QED
      BY <3>3, <3>4, <3>5
  <2>6. Shut(r)'
    BY <1>2 DEF Shut, Inside, Active, Ended
  <2>. QED
    BY <2>4, <2>5, <2>6 DEF ExpiryInv
<1>. QED
  BY <1>4, <1>5

LEMMA ExpiryStep ==
    ASSUME SecondsApart, ExpiryInv, [Next]_vars
    PROVE  ExpiryInv'
<1>1. SessInv /\ IInv /\ SessInv' /\ ApartKept' /\ \A s \in Requests : Shut(s)
  BY SessStep, ApartStep DEF ExpiryInv, SessInv
<1>2. ASSUME Kept, pc' = pc, op' = op, my' = my
      PROVE  ExpiryInv'
  <2>1. \A s \in Requests : Shut(s)'
    BY <1>1, <1>2, ShutOthers
  <2>. QED
    BY <1>1, <1>2, <2>1, OwedKept DEF ExpiryInv
<1>3. ASSUME NEW r \in Requests, Create(r) \/ Limit(r) \/ Greet(r)
      PROVE  ExpiryInv'
  BY <1>1, <1>3, ShutElsewhere, OwedMade DEF ExpiryInv
<1>4. ASSUME NEW r \in Requests, Arrive(r)
      PROVE  ExpiryInv'
  <2>1. /\ my' = my /\ sessions' = sessions /\ owed' = owed /\ ~Inside(r)' /\ pc'[r] # "upgrade"
        /\ \A s \in Requests \ {r} : pc'[s] = pc[s] /\ op'[s] = op[s]
    <3>1. PICK o \in Menu : op' = [op EXCEPT ![r] = o] /\ pc' = [pc EXCEPT ![r] = First(o.name)]
      BY <1>4 DEF Arrive
    <3>2. o.name \in OpNames
      BY SetsOK DEF Ops
    <3>3. First(o.name) \in {"door", "lookup", "redeem"} /\ (o.name \in InSession => First(o.name) = "door")
      BY <3>2 DEF First, OpNames, InSession, WithForm
    <3>. QED
      BY <1>1, <1>4, <3>1, <3>3 DEF Arrive, ghosts, IInv, TypeOK, Inside, Is
  <2>2. Shut(r)'
    BY <2>1 DEF Shut
  <2>3. \A s \in Requests \ {r} : Shut(s)'
    BY <1>1, <2>1 DEF Shut, Active, Inside, Is
  <2>. QED
    BY <1>1, <2>1, <2>2, <2>3 DEF ExpiryInv
<1>5. ASSUME NEW i \in Ids, Lapse(i)
      PROVE  ExpiryInv'
  BY <1>1, <1>2, <1>5, LapseKept DEF Lapse
<1>6. ASSUME UNCHANGED vars
      PROVE  ExpiryInv'
  BY <1>2, <1>6 DEF vars, Kept
<1>. QED
  BY <1>1, <1>3, <1>4, <1>5, <1>6, Cases, ExpiryQuiet, ExpiryUpgrade

\* A session that was given to change a password is good for more only when one has
\* been handed over to be saved, as long as no user shows two second factors at the
\* same time.
THEOREM ExpiredPasswords ==
    ASSUME SecondsApart
    PROVE  Spec => []ExpiredPasswordChanged
<1>1. Init => ExpiryInv
  <2>1. Init => /\ \A i \in owed : sessions[i] # Undef => sessions[i].type = "PASSWORD_RESET"
                /\ \A r \in Requests : Shut(r)
    BY DEF Init, Shut, Inside, Active
  <2>. QED
    BY <2>1, SessInit, ApartInit DEF ExpiryInv
<1>2. ExpiryInv /\ [Next]_vars => ExpiryInv'
  BY ExpiryStep
<1>3. ExpiryInv => ExpiredPasswordChanged
  BY DEF ExpiryInv, ExpiredPasswordChanged, Full
<1>. QED
  BY <1>1, <1>2, <1>3, PTL DEF Spec

-----------------------------------------------------------------------------
(* Sessions for scanning *)

\* A session for scanning that is still there is one, and does not expire soon.
Stays ==
    \A i \in Ids :
        /\ sessions[i] # Undef /\ sessions[i].type = "SCAN_ADD"
        /\ sessions'[i] # Undef
        => /\ sessions'[i].type = "SCAN_ADD"
           /\ sessions'[i].until # "soon"

\* A session that is not changed to one for scanning was one.
Comes ==
    \A i \in Ids :
        sessions'[i] # Undef /\ sessions'[i].type = "SCAN_ADD" =>
            sessions[i] # Undef /\ sessions[i].type = "SCAN_ADD"

\* What a request that is in a session knows of it holds on.
LEMMA ScanOthers ==
    ASSUME ScanInv, op' = op, NEW s \in Requests, pc'[s] = pc[s], my'[s] = my[s], Comes
    PROVE  Inside(s)' /\ sessions'[op'[s].id] # Undef /\ sessions'[op'[s].id].type = "SCAN_ADD"
           => my'[s].type = "SCAN_ADD"
<1>1. Inside(s)' => Inside(s) /\ op[s].id \in Ids
  BY OpOK DEF ScanInv, SessInv, Inside, Active, Is
<1>. QED
  BY <1>1 DEF ScanInv, Comes

\* Only the request that is renewed or limited touches the sessions for scanning.
LEMMA QuietStays ==
    ASSUME ScanInv, NEW r \in Requests, Quiet(r)
    PROVE  Stays
<1>1. IInv /\ Kept
  BY QuietKept DEF ScanInv, SessInv
<1>2. CASE Door(r)
  BY <1>2 DEF Door, Stays, ScanInv
<1>3. CASE Renew(r)
  <2>1. pc[r] = "renew" /\ Inside(r) /\ my[r].id = op[r].id /\ op[r].id \in Ids
    BY <1>1, <1>3, OpOK DEF Renew, IInv, Control, Active, Ended, Inside, Is, Doers, InSession, WithForm
  <2>2. \A j \in Ids \ {op[r].id} : sessions'[j] = sessions[j]
    BY <1>1, <1>3, <2>1 DEF Renew, Renewed, IInv, TypeOK
  <2>3. CASE my[r].type = "SCAN_ADD"
    BY <1>3, <2>3 DEF Renew, Renewed, Stays, ScanInv
  <2>4. CASE my[r].type # "SCAN_ADD"
    BY <2>1, <2>2, <2>4 DEF Stays, ScanInv
  <2>. QED
    BY <2>3, <2>4
<1>4. CASE UNCHANGED sessions
  BY <1>4 DEF Stays, ScanInv
<1>. QED
  BY <1>2, <1>3, <1>4
     DEF Quiet, Slack, Token, Spend, Issue, Lookup, Reread, Rehash, Save, Mail, Redeem, Consume,
         Factor, Verify, Expiry, Setup, Propose, Confirm, Enable, Fail, Refuse, SaveFails,
         UpgradeFails, ghosts

\* The sessions that requests make are not for scanning.
LEMMA MakingStays ==
    ASSUME ScanInv, NEW r \in Requests, Create(r) \/ Limit(r) \/ Greet(r)
    PROVE  Stays /\ Comes
<1>1. SessInv /\ IInv /\ \A s \in Requests : Fresh(s)
  BY DEF ScanInv, SessInv
<1>2. CASE Create(r)
  <2>1. PICK i \in Ids \ born : /\ sessions'[i].type = "REGULAR"
                                /\ \A j \in Ids \ {i} : sessions'[j] = sessions[j]
    BY <1>1, <1>2, CreateDoes
  <2>2. sessions[i] = Undef
    BY <1>1, <2>1 DEF SessInv
  <2>. QED
    BY <2>1, <2>2 DEF Stays, Comes, ScanInv
<1>3. CASE Limit(r)
  <2>. DEFINE i == my[r].id
  <2>1. /\ i \in Ids /\ Limited(r) # "SCAN_ADD" /\ pc[r] = "limit"
        /\ \A j \in Ids \ {i} : sessions'[j] = sessions[j]
        /\ sessions'[i] # Undef => sessions'[i].type = Limited(r)
    BY <1>1, <1>3, LimitDoes
  <2>2. sessions[i] # Undef => sessions[i].type # "SCAN_ADD"
    BY <1>1, <2>1 DEF Fresh, Making, SessInv
  <2>. QED
    BY <2>1, <2>2 DEF Stays, Comes, ScanInv
<1>4. CASE Greet(r)
  BY <1>4 DEF Greet, Stays, Comes, ScanInv
<1>. QED
  BY <1>2, <1>3, <1>4

LEMMA ScanUpgrade ==
    ASSUME ScansApart, ScanInv, NEW r \in Requests, Upgrade(r)
    PROVE  /\ Stays
           /\ \A i \in Ids : sessions'[i] # Undef /\ sessions'[i].type = "SCAN_ADD" =>
                 sessions'[i].until # "soon"
           /\ \A s \in Requests :
                 Inside(s)' /\ sessions'[op'[s].id] # Undef /\ sessions'[op'[s].id].type = "SCAN_ADD"
                 => my'[s].type = "SCAN_ADD"
<1>1. SessInv /\ IInv /\ ApartKept /\ \A s \in Requests : Insight(s)
  BY DEF ScanInv, SessInv
<1>. DEFINE i == op[r].id
<1>2. /\ pc[r] = "upgrade" /\ op[r].name \in {"change", "second", "scan"}
      /\ i \in Ids /\ Admitted(r) /\ Active(r)
      /\ \A j \in Ids \ {i} : sessions'[j] = sessions[j]
      /\ sessions'[i] # Undef => /\ sessions[i] # Undef
                                 /\ sessions'[i].type = Upgraded(r)
                                 /\ sessions'[i].user = sessions[i].user
      /\ op' = op
      /\ pc'[r] = "done" /\ \A s \in Requests \ {r} : pc'[s] = pc[s] /\ my'[s] = my[s]
  BY <1>1, UpgradeDoes
<1>3. Inside(r) /\ my[r].type # "SCAN_ADD"
  BY <1>1, <1>2 DEF Insight, Admitted, Allowed
<1>4. sessions[i] # Undef => sessions[i].type # "SCAN_ADD"
  BY <1>3 DEF ScanInv
<1>5. Upgraded(r) = "SCAN_ADD" <=> op[r].name = "scan"
  BY <1>2 DEF Upgraded, Is
<1>6. Stays
  BY <1>2, <1>4 DEF Stays, ScanInv
<1>7. sessions'[i] # Undef /\ sessions'[i].type = "SCAN_ADD" => sessions'[i].until # "soon"
  <2>1. SUFFICES ASSUME sessions'[i] # Undef, sessions'[i].type = "SCAN_ADD"
                 PROVE  sessions'[i].until # "soon"
    OBVIOUS
  <2>2. Upgraded(r) = "SCAN_ADD" /\ sessions[i] # Undef /\ sessions[i] \in Stored
    BY <1>1, <1>2, <2>1 DEF IInv, TypeOK
  <2>3. sessions' = [sessions EXCEPT ![i] = [user |-> @.user, type |-> "SCAN_ADD", until |-> "event"]]
    BY <1>1, <1>2, <1>3, <2>2 DEF Upgrade, Put, IInv, Control
  <2>. QED
    BY <1>1, <1>2, <2>3 DEF IInv, TypeOK
<1>8. ASSUME NEW s \in Requests, Inside(s)', sessions'[op'[s].id] # Undef,
             sessions'[op'[s].id].type = "SCAN_ADD"
      PROVE  my'[s].type = "SCAN_ADD"
  <2>1. s # r
    BY <1>2, <1>8 DEF Inside, Active, Ended
  <2>2. Inside(s) /\ op[s].id \in Ids /\ my'[s] = my[s] /\ op'[s] = op[s] /\ op[s].name \in InSession
    BY <1>1, <1>2, <1>8, <2>1, OpOK DEF Inside, Active, Is
  <2>3. CASE op[s].id = i
    <3>1. sessions[i] # Undef /\ op[r].name = "scan"
      BY <1>2, <1>5, <1>8, <2>2, <2>3
    <3>2. op[s].user = op[r].user /\ Active(s)
      BY <1>1, <1>2, <1>3, <2>2, <2>3, <3>1 DEF Insight, Inside
    <3>. QED
      BY <1>1, <1>2, <2>1, <2>2, <3>1, <3>2 DEF ApartKept, ScansApart
  <2>4. CASE op[s].id # i
    BY <1>2, <1>8, <2>2, <2>4 DEF ScanInv
  <2>. QED
    BY <2>3, <2>4
<1>9. \A j \in Ids : sessions'[j] # Undef /\ sessions'[j].type = "SCAN_ADD" => sessions'[j].until # "soon"
  BY <1>2, <1>7 DEF ScanInv
<1>. QED
  BY <1>6, <1>8, <1>9

LEMMA KeptComes == ASSUME Kept PROVE Comes
BY DEF Kept, Comes

LEMMA Lasts ==
    ASSUME ScanInv, Stays, Comes
    PROVE  \A i \in Ids : sessions'[i] # Undef /\ sessions'[i].type = "SCAN_ADD" =>
              sessions'[i].until # "soon"
BY DEF Stays, Comes

LEMMA ScanStep ==
    ASSUME ScansApart, ScanInv, [Next]_vars
    PROVE  ScanInv' /\ Stays
<1>1. SessInv /\ IInv /\ SessInv' /\ ApartKept'
  BY SessStep, ApartStep DEF ScanInv, SessInv
<1>2. ASSUME Stays, Comes, pc' = pc, op' = op, my' = my
      PROVE  ScanInv'
  <2>1. \A s \in Requests : Inside(s)' /\ sessions'[op'[s].id] # Undef /\ sessions'[op'[s].id].type = "SCAN_ADD"
                            => my'[s].type = "SCAN_ADD"
    BY <1>2, ScanOthers
  <2>. QED
    BY <1>1, <1>2, <2>1, Lasts DEF ScanInv
<1>3. ASSUME NEW r \in Requests, Quiet(r)
      PROVE  ScanInv' /\ Stays
  <2>1. Kept /\ Learns(r) /\ Stays /\ Comes
    BY <1>1, <1>3, QuietKept, QuietLearns, QuietStays, KeptComes
  <2>2. \A s \in Requests \ {r} :
            Inside(s)' /\ sessions'[op'[s].id] # Undef /\ sessions'[op'[s].id].type = "SCAN_ADD"
            => my'[s].type = "SCAN_ADD"
    BY <2>1, ScanOthers DEF Learns
  <2>3. ASSUME Inside(r)', sessions'[op'[r].id] # Undef, sessions'[op'[r].id].type = "SCAN_ADD"
        PROVE  my'[r].type = "SCAN_ADD"
    <3>1. op'[r] = op[r] /\ op[r].id \in Ids
      BY <1>1, <2>1, <2>3, OpOK DEF Learns, Inside, Is
    <3>2. sessions[op[r].id] # Undef /\ sessions[op[r].id].type = "SCAN_ADD"
      BY <2>1, <2>3, <3>1 DEF Comes
    <3>. QED
      BY <2>1, <2>3, <3>2 DEF Learns, ScanInv
  <2>. QED
    BY <1>1, <2>1, <2>2, <2>3, Lasts DEF ScanInv
<1>4. ASSUME NEW r \in Requests, Create(r) \/ Limit(r) \/ Greet(r)
      PROVE  ScanInv' /\ Stays
  <2>1. Stays /\ Comes
    BY <1>4, MakingStays
  <2>2. op' = op /\ \A s \in Requests \ {r} : pc'[s] = pc[s] /\ my'[s] = my[s]
    BY <1>1, <1>4, GoesOn DEF Step
  <2>3. ~Inside(r)'
    BY <1>1, <1>4, <2>2
       DEF Create, Limit, Greet, IInv, Control, Active, Ended, Doers, Inside, Is, InSession, WithForm
  <2>4. \A s \in Requests \ {r} :
            Inside(s)' /\ sessions'[op'[s].id] # Undef /\ sessions'[op'[s].id].type = "SCAN_ADD"
            => my'[s].type = "SCAN_ADD"
    BY <2>1, <2>2, ScanOthers
  <2>. QED
    BY <1>1, <2>1, <2>3, <2>4, Lasts DEF ScanInv
<1>5. ASSUME NEW r \in Requests, Upgrade(r)
      PROVE  ScanInv' /\ Stays
  BY <1>1, <1>5, ScanUpgrade DEF ScanInv
<1>6. ASSUME NEW r \in Requests, Arrive(r)
      PROVE  ScanInv' /\ Stays
  <2>1. /\ my' = my /\ sessions' = sessions /\ ~Inside(r)'
        /\ \A s \in Requests \ {r} : pc'[s] = pc[s] /\ op'[s] = op[s]
    <3>1. PICK o \in Menu : op' = [op EXCEPT ![r] = o] /\ pc' = [pc EXCEPT ![r] = First(o.name)]
      BY <1>6 DEF Arrive
    <3>2. o.name \in OpNames
      BY SetsOK DEF Ops
    <3>3. o.name \in InSession => First(o.name) = "door"
      BY <3>2 DEF First, OpNames, InSession, WithForm
    <3>. QED
      BY <1>1, <1>6, <3>1, <3>3 DEF Arrive, IInv, TypeOK, Inside, Is
  <2>2. Stays /\ Comes
    BY <2>1 DEF Stays, Comes, ScanInv
  <2>3. \A s \in Requests \ {r} :
            Inside(s)' /\ sessions'[op'[s].id] # Undef /\ sessions'[op'[s].id].type = "SCAN_ADD"
            => my'[s].type = "SCAN_ADD"
    BY <2>1 DEF ScanInv, Inside, Active, Is
  <2>. QED
    BY <1>1, <2>1, <2>2, <2>3, Lasts DEF ScanInv
<1>7. ASSUME NEW i \in Ids, Lapse(i)
      PROVE  ScanInv' /\ Stays
  <2>1. Comes
    BY <1>1, <1>7, LapseKept, KeptComes
  <2>2. /\ sessions[i] \in Stored /\ sessions' = [sessions EXCEPT ![i].until = "over"]
        /\ sessions \in [Ids -> Stored \union {Undef}]
    BY <1>1, <1>7 DEF Lapse, Live, IInv, TypeOK
  <2>3. Stays
    BY <2>2 DEF Stays, ScanInv, Stored
  <2>. QED
    BY <1>2, <1>7, <2>1, <2>3 DEF Lapse
<1>8. ASSUME UNCHANGED vars
      PROVE  ScanInv' /\ Stays
  <2>1. Stays /\ Comes
    BY <1>8 DEF vars, Stays, Comes, ScanInv
  <2>. QED
    BY <1>2, <1>8, <2>1 DEF vars
<1>. QED
  BY <1>3, <1>4, <1>5, <1>6, <1>7, <1>8, Cases

\* A session for scanning stays one until the event ends, as long as its user sends
\* nothing else while it becomes one.
THEOREM ScanSessions ==
    ASSUME ScansApart
    PROVE  Spec => ScanSessionStays
<1>1. Init => ScanInv
  <2>1. Init => \A i \in Ids : sessions[i] # Undef /\ sessions[i].type = "SCAN_ADD" =>
                                  sessions[i].until # "soon"
    BY SetsOK DEF Init
  <2>2. Init => \A r \in Requests : ~Inside(r)
    BY DEF Init, Inside, Active
  <2>. QED
    BY <2>1, <2>2, SessInit, ApartInit DEF ScanInv
<1>2. ScanInv /\ [Next]_vars => ScanInv'
  BY ScanStep
<1>3. ScanInv /\ ScanInv' /\ [Next]_vars =>
        [\A i \in Ids :
            /\ sessions[i] # Undef /\ sessions[i].type = "SCAN_ADD"
            /\ sessions'[i] # Undef
            => /\ sessions'[i].type = "SCAN_ADD"
               /\ sessions'[i].until \in {"over", "event"}]_vars
  <2>1. SUFFICES ASSUME ScanInv, ScanInv', [Next]_vars, NEW i \in Ids,
                        sessions[i] # Undef, sessions[i].type = "SCAN_ADD", sessions'[i] # Undef
                 PROVE  sessions'[i].type = "SCAN_ADD" /\ sessions'[i].until \in {"over", "event"}
    OBVIOUS
  <2>2. sessions'[i].type = "SCAN_ADD" /\ sessions'[i].until # "soon"
    BY <2>1, ScanStep DEF Stays
  <2>3. sessions'[i] \in Stored
    BY <2>1 DEF ScanInv, SessInv, IInv, TypeOK
  <2>. QED
    BY <2>2, <2>3 DEF Stored
<1>. QED
  BY <1>1, <1>2, <1>3, PTL DEF Spec, ScanSessionStays

-----------------------------------------------------------------------------
(* Second factors *)

\* The steps that are about second factors and about passwords, and what the others
\* leave alone.
AboutFactors(r) == Setup(r) \/ Propose(r) \/ Confirm(r) \/ Enable(r)
AboutPasswords(r) == Lookup(r) \/ Reread(r) \/ Rehash(r) \/ Save(r)

LEMMA Elsewhere ==
    ASSUME IInv, NEW r \in Requests, Step(r) \/ Slack(r)
    PROVE  /\ ~AboutFactors(r) => UNCHANGED factors /\ pc'[r] \notin {"propose", "enable"}
           /\ ~AboutPasswords(r) => UNCHANGED info /\ pc'[r] \notin {"reread", "rehash", "save"}
<1>1. CASE AboutFactors(r)
  <2>1. UNCHANGED info
    BY <1>1 DEF AboutFactors, Setup, Propose, Confirm, Enable, account
  <2>2. \E label, m : Goes(r, label, m) /\ label \in {"propose", "enable", "done", "failed"}
    BY <1>1 DEF AboutFactors, Setup, Propose, Confirm, Enable, Goto
  <2>3. pc'[r] \notin {"reread", "rehash", "save"}
    BY <2>2, GoesOnly
  <2>. QED
    BY <1>1, <2>1, <2>3
<1>2. CASE AboutPasswords(r)
  <2>1. UNCHANGED factors
    BY <1>2 DEF AboutPasswords, Lookup, Reread, Rehash, Save, factors
  <2>2. \E label, m : Goes(r, label, m) /\ label \notin {"propose", "enable"}
    <3>1. pc[r] = "lookup" => op[r].name \in {"signin", "request", "reset", "change"}
      BY DEF IInv, Control, Active, Ended, Doers
    <3>2. pc[r] = "save" => op[r].name \in {"reset", "change"}
      BY DEF IInv, Control, Active, Ended, Doers
    <3>3. CASE Lookup(r)
      BY <3>1, <3>3 DEF Lookup, AfterLookup, Is
    <3>4. CASE Reread(r)
      BY <3>4 DEF Reread
    <3>5. CASE Rehash(r)
      BY <3>5 DEF Rehash, Goto
    <3>6. CASE Save(r)
      BY <3>2, <3>6 DEF Save, AfterSave, Is, Goto
    <3>. QED
      BY <1>2, <3>3, <3>4, <3>5, <3>6 DEF AboutPasswords
  <2>3. pc'[r] \notin {"propose", "enable"}
    BY <2>2, GoesOnly
  <2>. QED
    BY <1>2, <2>1, <2>3
<1>3. CASE Door(r) \/ Renew(r) \/ Token(r) \/ Spend(r) \/ Issue(r)
  <2>1. UNCHANGED factors /\ UNCHANGED info
    BY <1>3 DEF Door, Renew, Token, Spend, Issue, account, factors
  <2>2. op[r].name \in InSession
    BY <1>3 DEF Door, Renew, Token, Spend, Issue, IInv, Control, Active, Ended, Doers, InSession, WithForm
  <2>3. Admit(r) \notin {"propose", "enable", "reread", "rehash", "save"}
    BY <2>2 DEF Admit, Then, InSession, WithForm
  <2>4. \E label, m : Goes(r, label, m) /\ label \notin {"propose", "enable", "reread", "rehash", "save"}
    <3>1. CASE Door(r)
      BY <3>1 DEF Door, Goto
    <3>2. CASE Renew(r) \/ Spend(r)
      BY <2>3, <3>2 DEF Renew, Spend, Goto
    <3>3. CASE Token(r)
      BY <3>3 DEF Token
    <3>4. CASE Issue(r)
      BY <3>4 DEF Issue, Goto
    <3>. QED
      BY <1>3, <3>1, <3>2, <3>3, <3>4
  <2>. QED
    BY <2>1, <2>4, GoesOnly
<1>4. CASE Mail(r) \/ Redeem(r) \/ Consume(r)
  <2>1. \E label, m : Goes(r, label, m) /\ label \notin {"propose", "enable", "reread", "rehash", "save"}
    BY <1>4 DEF Mail, Redeem, Consume, Goto
  <2>2. UNCHANGED factors /\ UNCHANGED info
    BY <1>4 DEF Mail, Redeem, Consume, account, factors
  <2>. QED
    BY <2>1, <2>2, GoesOnly
<1>5. CASE Factor(r) \/ Create(r) \/ Limit(r) \/ Greet(r)
  <2>1. UNCHANGED factors /\ UNCHANGED info
    BY <1>5 DEF Factor, Create, Limit, Greet, account, factors
  <2>2. CASE Create(r)
    BY <2>1, <2>2, CreateDoes
  <2>3. CASE Factor(r)
    BY <2>1, <2>3, GoesOnly DEF Factor
  <2>4. CASE Limit(r) \/ Greet(r)
    BY <2>1, <2>4, GoesOnly DEF Limit, Greet, Goto
  <2>. QED
    BY <1>5, <2>2, <2>3, <2>4
<1>6. CASE Verify(r) \/ Expiry(r) \/ Upgrade(r)
  <2>1. \E label, m : Goes(r, label, m) /\ label \notin {"propose", "enable", "reread", "rehash", "save"}
    BY <1>6 DEF Verify, Expiry, Upgrade, Goto
  <2>2. UNCHANGED factors /\ UNCHANGED info
    BY <1>6 DEF Verify, Expiry, Upgrade, account, factors
  <2>. QED
    BY <2>1, <2>2, GoesOnly
<1>7. CASE Slack(r)
  <2>1. pc[r] = "save" => op[r].name \in {"reset", "change"}
    BY DEF IInv, Control, Active, Ended, Doers
  <2>2. \E label, m : Goes(r, label, m) /\ label \notin {"propose", "enable", "reread", "rehash", "save"}
    BY <1>7, <2>1 DEF Slack, Fail, Refuse, SaveFails, UpgradeFails, AfterSave, Is, Goto
  <2>3. UNCHANGED factors /\ UNCHANGED info
    BY <1>7 DEF Slack, Fail, Refuse, SaveFails, UpgradeFails, account, factors
  <2>. QED
    BY <2>2, <2>3, GoesOnly
<1>. QED
  BY <1>1, <1>2, <1>3, <1>4, <1>5, <1>6, <1>7 DEF Step, AboutFactors, AboutPasswords

\* What the requests and the store have to do with each other.
FactorsFit ==
    /\ \A v \in Users : \A a, b \in FactorsOf(v) : a = b
    /\ \A r \in Requests :
          /\ pc[r] = "propose" => FactorsOf(op[r].user) = {}
          /\ pc[r] = "enable" => FactorsOf(op[r].user) \subseteq {my[r].secret}
    /\ \A r, s \in Requests :
          pc[r] = "enable" /\ pc[s] = "enable" /\ op[r].user = op[s].user
          => my[r].secret = my[s].secret

LEMMA FactorsSame ==
    ASSUME FactorsFit, UNCHANGED factors, UNCHANGED op,
           \A s \in Requests : pc'[s] \in {"propose", "enable"} => pc'[s] = pc[s] /\ my'[s] = my[s]
    PROVE  FactorsFit'
<1>1. \A v : FactorsOf(v)' = FactorsOf(v)
  BY DEF FactorsOf, SecretsOf, SetupsOf, factors
<1>. QED
  BY <1>1 DEF FactorsFit

\* Whoever starts a second factor is the only one who starts or finishes one for the
\* user.
LEMMA Alone ==
    ASSUME StartsApart, ApartKept, IInv, NEW r \in Requests, pc[r] = "propose",
           NEW s \in Requests \ {r}, op[s].user = op[r].user
    PROVE  pc[s] \notin {"propose", "enable"}
BY DEF StartsApart, ApartKept, IInv, Control, Active, Ended, Doers

LEMMA FactorAbout ==
    ASSUME StartsApart, ApartKept, IInv, FactorsFit, NEW r \in Requests, AboutFactors(r)
    PROVE  FactorsFit'
<1>. DEFINE v == op[r].user
<1>1. /\ Active(r) /\ pc[r] # "idle" /\ v \in Users /\ Whose(r) = v
      /\ op' = op /\ \A s \in Requests \ {r} : pc'[s] = pc[s] /\ my'[s] = my[s]
  <2>1. Step(r)
    BY DEF AboutFactors, Step
  <2>. QED
    BY <2>1, GoesOn, OpOK DEF Active, Whose
<1>2. CASE Setup(r)
  <2>1. UNCHANGED factors
    BY <1>2 DEF Setup
  <2>2. CASE Goto(r, "failed")
    BY <1>1, <2>1, <2>2, GoesOnly, FactorsSame DEF Goto
  <2>3. CASE NothingSetUp(v) /\ Goto(r, "propose")
    <3>1. FactorsOf(v) = {} /\ pc'[r] = "propose"
      BY <2>3, GoesOnly DEF NothingSetUp, FactorsOf, Goto
    <3>2. \A w : FactorsOf(w)' = FactorsOf(w)
      BY <2>1 DEF FactorsOf, SecretsOf, SetupsOf, factors
    <3>. QED
      BY <1>1, <3>1, <3>2 DEF FactorsFit
  <2>. QED
    BY <1>1, <1>2, <2>2, <2>3 DEF Setup
<1>3. CASE Propose(r)
  <2>1. PICK x \in Secrets : setups' = setups \union {<<v, x>>}
    BY <1>1, <1>3 DEF Propose
  <2>2. pc[r] = "propose" /\ secrets' = secrets /\ pc'[r] = "done" /\ FactorsOf(v) = {}
    BY <1>3, GoesOnly DEF Propose, Goto, FactorsFit
  <2>3. /\ FactorsOf(v)' = {x}
        /\ \A w \in Users \ {v} : FactorsOf(w)' = FactorsOf(w)
    <3>1. \A w \in Users, y \in Secrets :
            /\ <<w, y>> \in setups' <=> <<w, y>> \in setups \/ (w = v /\ y = x)
            /\ <<w, y>> \in secrets' <=> <<w, y>> \in secrets
      BY <2>1, <2>2
    <3>. QED
      BY <1>1, <2>2, <3>1 DEF FactorsOf, SecretsOf, SetupsOf
  <2>4. \A s \in Requests \ {r} : pc[s] \in {"propose", "enable"} => op[s].user \in Users \ {v}
    <3>1. \A s \in Requests : pc[s] \in {"propose", "enable"} => op[s].user \in Users
      BY OpOK
    <3>. QED
      BY <2>2, <3>1, Alone
  <2>. QED
    BY <1>1, <2>2, <2>3, <2>4 DEF FactorsFit
<1>4. CASE Confirm(r)
  <2>1. UNCHANGED factors
    BY <1>4 DEF Confirm
  <2>2. CASE Goto(r, "failed")
    BY <1>1, <2>1, <2>2, GoesOnly, FactorsSame DEF Goto
  <2>3. ASSUME NEW x \in Secrets, SetupsOf(v) = {x},
               Goes(r, "enable", [my[r] EXCEPT !.secret = x, !.todo = {"remove", "add"}])
        PROVE  FactorsFit'
    <3>. DEFINE m == [my[r] EXCEPT !.secret = x, !.todo = {"remove", "add"}]
    <3>1. m.secret = x
      BY MyOK DEF Mine
    <3>2. pc'[r] = "enable" /\ my'[r] = m
      BY <2>3, GoesOnly DEF Ended
    <3>. HIDE DEF m
    <3>3. x \in FactorsOf(v) /\ FactorsOf(v) \subseteq {x}
      BY <1>1, <2>3 DEF FactorsOf, FactorsFit
    <3>4. \A w : FactorsOf(w)' = FactorsOf(w)
      BY <2>1 DEF FactorsOf, SecretsOf, SetupsOf, factors
    <3>5. \A s \in Requests : pc[s] = "enable" /\ op[s].user = v => my[s].secret = x
      BY <3>3 DEF FactorsFit
    <3>. QED
      BY <1>1, <3>1, <3>2, <3>3, <3>4, <3>5, SMTT(40) DEF FactorsFit
  <2>. QED
    BY <1>1, <1>4, <2>2, <2>3 DEF Confirm
<1>5. CASE Enable(r)
  <2>1. PICK w \in my[r].todo, ok \in BOOLEAN :
          /\ Goes(r, IF my[r].todo = {w} THEN "done" ELSE "enable", [my[r] EXCEPT !.todo = @ \ {w}])
          /\ setups' = IF w = "remove" /\ ok THEN {t \in setups : t[1] # v} ELSE setups
          /\ secrets' = IF w = "add" /\ ok THEN secrets \union {<<v, my[r].secret>>} ELSE secrets
    BY <1>1, <1>5 DEF Enable
  <2>. DEFINE m == [my[r] EXCEPT !.todo = @ \ {w}]
              label == IF my[r].todo = {w} THEN "done" ELSE "enable"
  <2>2. m.secret = my[r].secret /\ Goes(r, label, m) /\ label \in {"done", "enable"}
    BY <2>1, MyOK DEF Mine
  <2>. HIDE DEF m, label
  <2>3. pc'[r] \in {"done", "enable"} /\ (pc'[r] = "enable" => my'[r].secret = my[r].secret)
    BY <2>2, GoesOnly DEF Ended
  <2>4. pc[r] = "enable" /\ FactorsOf(v) \subseteq {my[r].secret}
    BY <1>5 DEF Enable, FactorsFit
  <2>5. /\ \A u \in Users \ {v} : FactorsOf(u)' \subseteq FactorsOf(u)
        /\ FactorsOf(v)' \subseteq {my[r].secret}
    <3>1. \A u \in Users, x \in Secrets :
            /\ <<u, x>> \in setups' => <<u, x>> \in setups
            /\ <<u, x>> \in secrets' => <<u, x>> \in secrets \/ (u = v /\ x = my[r].secret)
      BY <2>1
    <3>. QED
      BY <1>1, <2>4, <3>1 DEF FactorsOf, SecretsOf, SetupsOf
  <2>6. \A s \in Requests : pc[s] = "propose" => op[s].user \in Users \ {v}
    <3>1. \A s \in Requests : pc[s] = "propose" => op[s].user \in Users
      BY OpOK
    <3>. QED
      BY <2>4, <3>1, Alone
  <2>7. \A s \in Requests : pc[s] = "enable" => op[s].user \in Users
    BY OpOK
  <2>8. \A s \in Requests : pc[s] = "enable" /\ op[s].user = v => my[s].secret = my[r].secret
    BY <2>4 DEF FactorsFit
  <2>9. \A u \in Users : \A a, b \in FactorsOf(u)' : a = b
    <3>1. \A u \in Users : u = v \/ FactorsOf(u)' \subseteq FactorsOf(u)
      BY <2>5
    <3>2. \A a, b \in FactorsOf(v)' : a = b
      BY <2>5
    <3>. QED
      BY <1>1, <3>1, <3>2 DEF FactorsFit
  <2>10. \A s \in Requests : /\ pc'[s] = "propose" => FactorsOf(op[s].user)' = {}
                             /\ pc'[s] = "enable" => FactorsOf(op[s].user)' \subseteq {my'[s].secret}
    BY <1>1, <2>3, <2>5, <2>6, <2>7, <2>8 DEF FactorsFit
  <2>11. \A s, t \in Requests :
            pc'[s] = "enable" /\ pc'[t] = "enable" /\ op[s].user = op[t].user
            => my'[s].secret = my'[t].secret
    BY <1>1, <2>3, <2>4 DEF FactorsFit
  <2>. QED
    BY <1>1, <2>9, <2>10, <2>11 DEF FactorsFit
<1>. QED
  BY <1>2, <1>3, <1>4, <1>5 DEF AboutFactors

LEMMA FactorStep ==
    ASSUME StartsApart, ApartKept, IInv, FactorsFit, [Next]_vars
    PROVE  FactorsFit'
<1>1. ASSUME NEW r \in Requests, Step(r) \/ Slack(r), ~AboutFactors(r)
      PROVE  FactorsFit'
  BY <1>1, Elsewhere, GoesOn, FactorsSame
<1>2. ASSUME NEW r \in Requests, Arrive(r)
      PROVE  FactorsFit'
  <2>1. PICK o \in Menu : op' = [op EXCEPT ![r] = o] /\ pc' = [pc EXCEPT ![r] = First(o.name)]
    BY <1>2 DEF Arrive
  <2>2. o.name \in OpNames
    BY SetsOK DEF Ops
  <2>3. First(o.name) \in {"door", "lookup", "redeem"}
    BY <2>2 DEF First, OpNames, InSession, WithForm
  <2>4. \A v : FactorsOf(v)' = FactorsOf(v)
    BY <1>2 DEF Arrive, FactorsOf, SecretsOf, SetupsOf, factors
  <2>5. \A s \in Requests : pc'[s] \in {"propose", "enable"} => pc'[s] = pc[s] /\ my'[s] = my[s] /\ op'[s] = op[s]
    BY <1>2, <2>1, <2>3 DEF Arrive, IInv, TypeOK
  <2>. QED
    BY <2>4, <2>5 DEF FactorsFit
<1>3. ASSUME UNCHANGED <<factors, pc, op, my>>
      PROVE  FactorsFit'
  BY <1>3, FactorsSame
<1>. QED
  BY <1>1, <1>2, <1>3, FactorAbout DEF Next, Step, Slack, AboutFactors, Lapse, Rest, vars, factors

\* A set with at most one element, counted and compared.
LEMMA AtMostOne ==
    ASSUME NEW S \in SUBSET Secrets
    PROVE  Cardinality(S) <= 1 <=> \A a, b \in S : a = b
<1>1. IsFiniteSet(S) /\ Cardinality(S) \in Nat
  BY SetsOK, FS_Subset, FS_CardinalityType
<1>2. ASSUME Cardinality(S) <= 1, NEW a \in S, NEW b \in S, a # b
      PROVE  FALSE
  <2>1. IsFiniteSet({a}) /\ Cardinality({a}) = 1
    BY FS_Singleton
  <2>2. IsFiniteSet({a} \union {b}) /\ Cardinality({a} \union {b}) = 2
    <3>. DEFINE T == {a}
    <3>1. b \notin T
      BY <1>2
    <3>2. IsFiniteSet(T) /\ Cardinality(T) = 1
      BY <2>1
    <3>. HIDE DEF T
    <3>3. IsFiniteSet(T \union {b})
      BY <3>2, FS_AddElement
    <3>4. Cardinality(T \union {b}) = Cardinality(T) + 1
      BY <3>1, <3>2, FS_AddElement
    <3>. QED
      BY <3>2, <3>3, <3>4 DEF T
  <2>3. Cardinality({a} \union {b}) <= Cardinality(S)
    BY <1>1, FS_Subset
  <2>. QED
    BY <1>1, <1>2, <2>2, <2>3
<1>3. ASSUME \A a, b \in S : a = b
      PROVE  Cardinality(S) <= 1
  <2>1. CASE S = {}
    BY <2>1, FS_EmptySet
  <2>2. ASSUME NEW a \in S
        PROVE  Cardinality(S) <= 1
    <3>1. S = {a}
      BY <1>3
    <3>. QED
      BY <3>1, FS_Singleton
  <2>. QED
    BY <2>1, <2>2
<1>. QED
  BY <1>2, <1>3

LEMMA FactorInit == Init => FactorsFit
<1>1. SUFFICES ASSUME Init PROVE FactorsFit
  OBVIOUS
<1>2. ASSUME NEW v \in Users
      PROVE  \A a, b \in FactorsOf(v) : a = b
  <2>1. PICK t \in Fitted : setups = t[1] /\ secrets = t[2]
    BY <1>1 DEF Init
  <2>. DEFINE S == {x \in Secrets : <<v, x>> \in t[1] \union t[2]}
  <2>2. FactorsOf(v) = S
    BY <2>1 DEF FactorsOf, SecretsOf, SetupsOf
  <2>3. Cardinality(S) <= 1
    BY SetsOK
  <2>4. S \in SUBSET Secrets
    OBVIOUS
  <2>. HIDE DEF S
  <2>. QED
    BY <2>2, <2>3, <2>4, AtMostOne
<1>. QED
  BY <1>1, <1>2 DEF Init, FactorsFit

\* A member has at most one second factor and one set-up, as long as nobody starts a
\* second factor while starting or finishing one.
THEOREM SecondFactorIsOne ==
    ASSUME StartsApart
    PROVE  Spec => []OneFactor
<1>. DEFINE FInv == IInv /\ ApartKept /\ FactorsFit
<1>1. Init => FInv
  BY InitOK, ApartInit, FactorInit
<1>2. FInv /\ [Next]_vars => FInv'
  BY StepOK, ApartStep, FactorStep
<1>3. FInv => OneFactor
  <2>1. SUFFICES ASSUME FInv, NEW v \in Users
                 PROVE  Cardinality(SecretsOf(v)) <= 1 /\ Cardinality(SetupsOf(v)) <= 1
    BY DEF OneFactor
  <2>2. \A a, b \in FactorsOf(v) : a = b
    BY <2>1 DEF FactorsFit
  <2>3. SecretsOf(v) \in SUBSET Secrets /\ SetupsOf(v) \in SUBSET Secrets
    BY DEF SecretsOf, SetupsOf
  <2>. QED
    BY <2>2, <2>3, AtMostOne DEF FactorsOf
<1>. HIDE DEF FInv
<1>. QED
  BY <1>1, <1>2, <1>3, PTL DEF Spec

-----------------------------------------------------------------------------
(* Passwords *)

\* What a request has read is still what there is when it saves it.
BookFit ==
    \A r \in Requests :
        /\ pc[r] \in {"reread", "rehash"} => Matches(r, info[op[r].user])
        /\ pc[r] \in {"rehash", "save"} => Pws(my[r].read) = Pws(info[op[r].user])
        /\ pc[r] = "save" => ~Refused(r, info[op[r].user])

LEMMA PwsLen ==
    ASSUME NEW h \in Seq(Entries)
    PROVE  Pws(h) \in Seq(Passwords) /\ Len(Pws(h)) = Len(h)
<1>1. Len(h) \in Nat /\ \A i \in 1..Len(h) : h[i] \in Entries
  BY LenProperties, ElementOfSeq
<1>2. \A i \in 1..Len(h) : h[i].pw \in Passwords
  BY <1>1 DEF Entries
<1>3. Pws(h) = [i \in 1..Len(h) |-> h[i].pw]
  BY DEF Pws
<1>. QED
  BY <1>1, <1>2, <1>3

\* Histories of the same passwords.
LEMMA Alike ==
    ASSUME NEW g \in Seq(Entries), NEW h \in Seq(Entries), NEW r, Pws(g) = Pws(h)
    PROVE  Matches(r, g) = Matches(r, h) /\ (Refused(r, g) <=> Refused(r, h)) /\ Len(g) = Len(h)
<1>1. Len(g) \in Nat /\ Len(h) \in Nat
  BY LenProperties
<1>2. DOMAIN Pws(g) = 1..Len(g) /\ DOMAIN Pws(h) = 1..Len(h)
  BY DEF Pws
<1>3. Len(g) = Len(h)
  BY <1>1, <1>2, SMT
<1>4. \A i \in 1..Len(g) : g[i].pw = h[i].pw
  <2>1. \A i \in 1..Len(g) : Pws(g)[i] = g[i].pw
    BY DEF Pws
  <2>2. \A i \in 1..Len(h) : Pws(h)[i] = h[i].pw
    BY DEF Pws
  <2>. QED
    BY <1>3, <2>1, <2>2
<1>5. Used(g) = Used(h)
  BY <1>3, <1>4 DEF Used
<1>6. Len(g) > 0 => g[1].pw = h[1].pw
  BY <1>1, <1>4
<1>. QED
  BY <1>3, <1>5, <1>6 DEF Matches, Refused

\* A request whose history stays alike.
LEMMA BookSame ==
    ASSUME BookFit, IInv, IInv', UNCHANGED op,
           NEW r \in Requests, pc'[r] \in {"reread", "rehash", "save"} => pc'[r] = pc[r] /\ my'[r] = my[r],
           Pws(info'[op[r].user]) = Pws(info[op[r].user])
    PROVE  /\ pc'[r] \in {"reread", "rehash"} => Matches(r, info'[op[r].user])
           /\ pc'[r] \in {"rehash", "save"} => Pws(my'[r].read) = Pws(info'[op[r].user])
           /\ pc'[r] = "save" => ~Refused(r, info'[op[r].user])
<1>1. SUFFICES ASSUME pc'[r] \in {"reread", "rehash", "save"}
               PROVE  /\ pc'[r] \in {"reread", "rehash"} => Matches(r, info'[op[r].user])
                      /\ pc'[r] \in {"rehash", "save"} => Pws(my'[r].read) = Pws(info'[op[r].user])
                      /\ pc'[r] = "save" => ~Refused(r, info'[op[r].user])
  OBVIOUS
<1>2. op[r].user \in Users
  BY <1>1, OpOK
<1>3. info[op[r].user] \in Seq(Entries) /\ info'[op[r].user] \in Seq(Entries)
  BY <1>2 DEF IInv, TypeOK
<1>. QED
  BY <1>1, <1>3, Alike DEF BookFit

\* Where BookFit holds after a step, by parts.
LEMMA BookParts ==
    ASSUME UNCHANGED op,
           \A r \in Requests :
              /\ pc'[r] \in {"reread", "rehash"} => Matches(r, info'[op[r].user])
              /\ pc'[r] \in {"rehash", "save"} => Pws(my'[r].read) = Pws(info'[op[r].user])
              /\ pc'[r] = "save" => ~Refused(r, info'[op[r].user])
    PROVE  BookFit'
<1>1. op' = op
  OBVIOUS
<1>2. \A r \in Requests :
          /\ Matches(r, info[op[r].user])' <=> Matches(r, info'[op[r].user])
          /\ Refused(r, info[op[r].user])' <=> Refused(r, info'[op[r].user])
  BY <1>1 DEF Matches, Refused, Used
<1>3. \A r \in Requests :
          /\ Pws(my[r].read)' = Pws(my'[r].read)
          /\ Pws(info[op[r].user])' = Pws(info'[op[r].user])
  BY <1>1 DEF Pws
<1>. QED
  BY <1>2, <1>3 DEF BookFit

LEMMA BookElse ==
    ASSUME BookFit, IInv, IInv', UNCHANGED <<op, info>>,
           \A r \in Requests : pc'[r] \in {"reread", "rehash", "save"} => pc'[r] = pc[r] /\ my'[r] = my[r]
    PROVE  BookFit'
BY BookSame, BookParts

\* The passwords of the others do not change.
OnlyOf(v) == \A w \in Users \ {v} : Pws(info'[w]) = Pws(info[w])

\* A re-hash changes no password.
LEMMA RehashKeeps ==
    ASSUME BookFit, IInv, NEW r \in Requests, Rehash(r)
    PROVE  \A w \in Users : Pws(info'[w]) = Pws(info[w])
<1>. DEFINE v == op[r].user
            h == info[v]
            g == Rehashed(r)
<1>1. pc[r] = "rehash" /\ v \in Users /\ info' = [info EXCEPT ![v] = g]
  BY OpOK DEF Rehash, Whose
<1>2. /\ g \in Seq(Entries) /\ Len(g) = Len(my[r].read) /\ Len(my[r].read) \in Nat \ {0}
      /\ \A i \in 1..Len(my[r].read) :
            g[i] = IF i = 1 THEN [my[r].read[1] EXCEPT !.pw = op[r].pw] ELSE my[r].read[i]
  BY <1>1, RehashedOK
<1>3. my[r].read \in Seq(Entries) /\ h \in Seq(Entries)
  BY <1>1, MyOK DEF IInv, TypeOK
<1>4. Pws(my[r].read) = Pws(h) /\ Matches(r, h)
  BY <1>1 DEF BookFit
<1>5. Matches(r, my[r].read)
  BY <1>3, <1>4, Alike
<1>. DEFINE m == my[r].read
<1>6. \A i \in 1..Len(m) : m[i] \in Entries
  BY <1>3, ElementOfSeq
<1>7. \A i \in 1..Len(m) : g[i].pw = m[i].pw
  <2>1. 1 \in 1..Len(m)
    BY <1>2
  <2>2. m[1] \in Entries /\ m[1].pw = op[r].pw
    BY <1>5, <1>6, <2>1 DEF Matches
  <2>3. [m[1] EXCEPT !.pw = op[r].pw].pw = m[1].pw
    BY <2>2 DEF Entries
  <2>. QED
    BY <1>2, <2>3
<1>8. Pws(g) = Pws(m)
  BY <1>2, <1>7 DEF Pws
<1>9. info'[v] = g /\ \A w \in Users \ {v} : info'[w] = info[w]
  BY <1>1 DEF IInv, TypeOK
<1>. QED
  BY <1>4, <1>8, <1>9

\* Whoever saves a new password of a user is the only one to do something with it.
LEMMA SavesAlone ==
    ASSUME PasswordsApart, ApartKept, IInv, NEW r \in Requests, pc[r] = "save",
           NEW s \in Requests \ {r}, op[s].user = op[r].user
    PROVE  pc[s] \notin {"reread", "rehash", "save"}
<1>1. SUFFICES ASSUME pc[s] \in {"reread", "rehash", "save"} PROVE FALSE
  OBVIOUS
<1>2. /\ op[r].name \in {"change", "reset"} /\ op[s].name \in {"signin", "change", "reset"}
      /\ Active(r) /\ Active(s)
  BY <1>1 DEF IInv, Control, Active, Ended, Doers
<1>3. {op[r].name, op[s].name} # {"signin"}
  BY <1>2
<1>4. <<op[r].name, op[s].name>> \in Apart \/ <<op[s].name, op[r].name>> \in Apart
  BY <1>2, <1>3 DEF PasswordsApart
<1>. QED
  BY <1>2, <1>4 DEF ApartKept

\* What the steps about passwords do to what is read.
LEMMA PasswordReads ==
    ASSUME IInv, NEW r \in Requests, pc[r] # "idle", Lookup(r) \/ Reread(r)
    PROVE  /\ info' = info
           /\ pc'[r] \notin Ended => my'[r].read = info[op[r].user]
           /\ Lookup(r) => pc'[r] = AfterLookup(r, info[op[r].user])
           /\ Reread(r) => pc[r] = "reread" /\ pc'[r] \in {"failed", "rehash"}
<1>. DEFINE h == info[op[r].user]
<1>1. CASE Lookup(r)
  <2>. DEFINE m == [my[r] EXCEPT !.read = h, !.late = Len(h) > 0 /\ h[1].age = "old"]
  <2>1. m.read = h /\ Goes(r, AfterLookup(r, h), m)
    BY <1>1, MyOK DEF Lookup, Whose, Mine
  <2>2. op[r].name \in {"signin", "request", "reset", "change"}
    BY <1>1 DEF Lookup, IInv, Control, Active, Ended, Doers
  <2>. HIDE DEF m
  <2>3. pc'[r] = AfterLookup(r, h) /\ (pc'[r] \notin Ended => my'[r] = m)
    BY <2>1, GoesOnly
  <2>4. ~Reread(r)
    BY <1>1 DEF Lookup, Reread
  <2>. QED
    BY <1>1, <2>1, <2>3, <2>4 DEF Lookup, account
<1>2. CASE Reread(r)
  <2>. DEFINE m == [my[r] EXCEPT !.read = h]
              label == IF h = <<>> THEN "failed" ELSE "rehash"
  <2>1. m.read = h /\ Goes(r, label, m) /\ label \in {"failed", "rehash"}
    BY <1>2, MyOK DEF Reread, Whose, Mine
  <2>. HIDE DEF m, label
  <2>2. pc'[r] = label /\ (pc'[r] \notin Ended => my'[r] = m)
    BY <2>1, GoesOnly
  <2>3. ~Lookup(r) /\ pc[r] = "reread" /\ info' = info
    BY <1>2 DEF Lookup, Reread, account
  <2>. QED
    BY <2>1, <2>2, <2>3
<1>. QED
  BY <1>1, <1>2

LEMMA BookReads ==
    ASSUME BookFit, IInv, IInv', NEW r \in Requests, Lookup(r) \/ Reread(r)
    PROVE  BookFit'
<1>1. /\ op' = op /\ Active(r) /\ pc[r] # "idle"
      /\ \A s \in Requests \ {r} : pc'[s] = pc[s] /\ my'[s] = my[s]
  BY GoesOn DEF Step, Active
<1>2. /\ info' = info
      /\ pc'[r] \notin Ended => my'[r].read = info[op[r].user]
      /\ Lookup(r) => pc'[r] = AfterLookup(r, info[op[r].user])
      /\ Reread(r) => pc[r] = "reread" /\ pc'[r] \in {"failed", "rehash"}
  BY <1>1, PasswordReads
<1>. DEFINE h == info[op[r].user]
<1>3. /\ pc'[r] \in {"reread", "rehash"} => Matches(r, h)
      /\ pc'[r] \in {"rehash", "save"} => Pws(my'[r].read) = Pws(h)
      /\ pc'[r] = "save" => ~Refused(r, h)
  <2>1. CASE Lookup(r)
    <3>1. op[r].name \in {"signin", "request", "reset", "change"}
      BY <2>1 DEF Lookup, IInv, Control, Active, Ended, Doers
    <3>2. \/ AfterLookup(r, h) \in {"failed", "mail"}
          \/ AfterLookup(r, h) = "reread" /\ Matches(r, h)
          \/ AfterLookup(r, h) = "save" /\ ~Refused(r, h)
      BY <3>1 DEF AfterLookup, Is
    <3>. QED
      BY <1>2, <2>1, <3>2 DEF Ended
  <2>2. CASE Reread(r)
    BY <1>2, <2>2 DEF BookFit, Ended
  <2>. QED
    BY <2>1, <2>2
<1>4. \A s \in Requests \ {r} :
        /\ pc'[s] \in {"reread", "rehash"} => Matches(s, info'[op[s].user])
        /\ pc'[s] \in {"rehash", "save"} => Pws(my'[s].read) = Pws(info'[op[s].user])
        /\ pc'[s] = "save" => ~Refused(s, info'[op[s].user])
  BY <1>1, <1>2 DEF BookFit
<1>. QED
  BY <1>1, <1>2, <1>3, <1>4, BookParts

\* A password that is saved comes on top of those that were there.
LEMMA SavePuts ==
    ASSUME BookFit, IInv, NEW r \in Requests, Save(r)
    PROVE  LET v == op[r].user IN
           /\ pc[r] = "save" /\ v \in Users /\ op[r].pw \in Passwords
           /\ op[r].pw \notin Used(info[v])
           /\ Pws(info'[v]) = Upto(HistoryLength, <<op[r].pw>> \o Pws(info[v]))
           /\ \A w \in Users \ {v} : info'[w] = info[w]
<1>. DEFINE v == op[r].user
            p == op[r].pw
            m == my[r].read
            e == [pw |-> p, age |-> "new"]
            t == <<e>> \o m
            q == <<p>> \o Pws(m)
<1>1. pc[r] = "save" /\ pc[r] # "idle" /\ Is(r, {"change", "reset"})
  BY DEF Save, IInv, Control, Active, Ended, Doers, Is
<1>2. v \in Users /\ p \in Passwords
  BY <1>1, OpOK DEF Is
<1>3. info'[v] = Added(r) /\ \A w \in Users \ {v} : info'[w] = info[w]
  BY <1>2 DEF Save, Whose, IInv, TypeOK
<1>4. Pws(m) = Pws(info[v]) /\ p \notin Used(info[v])
  BY <1>1 DEF BookFit, Refused
<1>5. m \in Seq(Entries) /\ e \in Entries
  BY <1>2, MyOK DEF Entries, Ages
<1>6. Len(m) \in Nat /\ \A i \in 1..Len(m) : m[i] \in Entries
  BY <1>5, LenProperties, ElementOfSeq
<1>7. Pws(m) \in Seq(Passwords) /\ Len(Pws(m)) = Len(m) /\ \A i \in 1..Len(m) : Pws(m)[i] = m[i].pw
  BY <1>5, PwsLen DEF Pws
<1>8. /\ t \in Seq(Entries) /\ Len(t) = Len(m) + 1
      /\ \A i \in 1..Len(t) : t[i] = IF i = 1 THEN e ELSE m[i - 1]
  <2>. HIDE DEF e, m
  <2>1. <<e>> \in Seq(Entries) /\ Len(<<e>>) = 1 /\ <<e>>[1] = e
    BY <1>5
  <2>. QED
    BY <1>5, <1>6, <2>1, ConcatProperties
<1>9. /\ q \in Seq(Passwords) /\ Len(q) = Len(m) + 1
      /\ \A i \in 1..Len(q) : q[i] = IF i = 1 THEN p ELSE Pws(m)[i - 1]
  <2>. DEFINE b == Pws(m)
  <2>1. <<p>> \in Seq(Passwords) /\ Len(<<p>>) = 1 /\ <<p>>[1] = p
    BY <1>2
  <2>2. b \in Seq(Passwords) /\ Len(b) = Len(m)
    BY <1>7
  <2>. HIDE DEF b, p, m
  <2>3. /\ <<p>> \o b \in Seq(Passwords) /\ Len(<<p>> \o b) = Len(m) + 1
        /\ \A i \in 1..Len(<<p>> \o b) : (<<p>> \o b)[i] = IF i = 1 THEN p ELSE b[i - 1]
    BY <1>2, <1>6, <2>1, <2>2, ConcatProperties
  <2>. QED
    BY <2>3 DEF b
<1>10. \A i \in 1..Len(t) : t[i].pw = q[i]
  <2>1. e.pw = p
    OBVIOUS
  <2>. HIDE DEF e, p, m, t, q
  <2>2. SUFFICES ASSUME NEW i \in 1..Len(t) PROVE t[i].pw = q[i]
    OBVIOUS
  <2>3. CASE i = 1
    BY <1>6, <1>8, <1>9, <2>1, <2>3
  <2>4. CASE i # 1
    <3>1. i - 1 \in 1..Len(m) /\ i \in 1..Len(q)
      BY <1>6, <1>8, <1>9, <2>4
    <3>2. t[i] = m[i - 1] /\ q[i] = Pws(m)[i - 1]
      BY <1>8, <1>9, <2>4, <3>1
    <3>. QED
      BY <1>7, <3>1, <3>2
  <2>. QED
    BY <2>3, <2>4
<1>11. Pws(Upto(HistoryLength, t)) = Upto(HistoryLength, q)
  <2>. DEFINE n == IF Len(t) < HistoryLength THEN Len(t) ELSE HistoryLength
              a == Upto(HistoryLength, t)
              b == Upto(HistoryLength, q)
  <2>. HIDE DEF t, q, m, e, p
  <2>1. HistoryLength \in Nat /\ Len(t) \in Nat /\ Len(q) = Len(t)
    BY SetsOK, <1>6, <1>8, <1>9
  <2>2. /\ a \in Seq(Entries) /\ Len(a) = n
        /\ \A i \in 1..Len(a) : a[i] = t[i]
    BY <1>8, <2>1, UptoOK, Zenon
  <2>3. /\ b \in Seq(Passwords) /\ Len(b) = n
        /\ \A i \in 1..Len(b) : b[i] = q[i]
    <3>1. /\ b \in Seq(Passwords)
          /\ Len(b) = IF Len(q) < HistoryLength THEN Len(q) ELSE HistoryLength
          /\ \A i \in 1..Len(b) : b[i] = q[i]
      BY <1>9, <2>1, UptoOK, Zenon
    <3>. QED
      BY <2>1, <3>1
  <2>4. n \in Nat /\ n <= Len(t)
    BY <2>1
  <2>. HIDE DEF n, a, b
  <2>5. Pws(a) = [i \in 1..n |-> a[i].pw]
    BY <2>2 DEF Pws
  <2>6. b = [i \in 1..n |-> b[i]]
    BY <2>3, LenProperties
  <2>7. \A i \in 1..n : a[i].pw = b[i]
    BY <1>10, <2>1, <2>2, <2>3, <2>4
  <2>8. Pws(a) = b
    BY <2>5, <2>6, <2>7
  <2>. QED
    BY <2>8 DEF a, b
<1>12. Added(r) = Upto(HistoryLength, t)
  BY DEF Added
<1>. HIDE DEF t, e
<1>. QED
  BY <1>1, <1>2, <1>3, <1>4, <1>11, <1>12

LEMMA BookSave ==
    ASSUME PasswordsApart, ApartKept, BookFit, IInv, IInv', NEW r \in Requests, Save(r)
    PROVE  BookFit'
<1>1. /\ op' = op /\ \A s \in Requests \ {r} : pc'[s] = pc[s] /\ my'[s] = my[s]
  BY GoesOn DEF Step
<1>2. /\ pc[r] = "save" /\ op[r].user \in Users
      /\ \A w \in Users \ {op[r].user} : info'[w] = info[w]
  BY SavePuts
<1>3. pc'[r] \notin {"reread", "rehash", "save"}
  <2>1. op[r].name \in {"change", "reset"}
    BY <1>2 DEF IInv, Control, Active, Ended, Doers
  <2>2. AfterSave(r) \in {"consume", "upgrade", "done"}
    BY <2>1 DEF AfterSave, Is
  <2>3. pc'[r] = AfterSave(r)
    BY GoesOnly DEF Save, Goto
  <2>. QED
    BY <2>2, <2>3
<1>4. \A s \in Requests \ {r} : pc[s] \in {"reread", "rehash", "save"} =>
        op[s].user \in Users \ {op[r].user}
  <2>1. \A s \in Requests : pc[s] \in {"reread", "rehash", "save"} => op[s].user \in Users
    BY OpOK
  <2>. QED
    BY <1>2, <2>1, SavesAlone
<1>5. \A s \in Requests :
        /\ pc'[s] \in {"reread", "rehash"} => Matches(s, info'[op[s].user])
        /\ pc'[s] \in {"rehash", "save"} => Pws(my'[s].read) = Pws(info'[op[s].user])
        /\ pc'[s] = "save" => ~Refused(s, info'[op[s].user])
  BY <1>1, <1>2, <1>3, <1>4 DEF BookFit
<1>. QED
  BY <1>1, <1>5, BookParts

LEMMA BookRehash ==
    ASSUME BookFit, IInv, IInv', NEW r \in Requests, Rehash(r)
    PROVE  BookFit'
<1>1. /\ op' = op /\ \A s \in Requests \ {r} : pc'[s] = pc[s] /\ my'[s] = my[s]
  BY GoesOn DEF Step
<1>2. pc'[r] = "factor"
  BY GoesOnly DEF Rehash, Goto
<1>3. \A w \in Users : Pws(info'[w]) = Pws(info[w])
  BY RehashKeeps
<1>4. ASSUME NEW s \in Requests
      PROVE  /\ pc'[s] \in {"reread", "rehash"} => Matches(s, info'[op[s].user])
             /\ pc'[s] \in {"rehash", "save"} => Pws(my'[s].read) = Pws(info'[op[s].user])
             /\ pc'[s] = "save" => ~Refused(s, info'[op[s].user])
  <2>1. CASE pc'[s] \in {"reread", "rehash", "save"}
    <3>1. s # r /\ pc'[s] = pc[s] /\ my'[s] = my[s]
      BY <1>1, <1>2, <2>1
    <3>2. op[s].user \in Users
      BY <2>1, <3>1, OpOK
    <3>. QED
      BY <1>1, <1>3, <3>1, <3>2, BookSame
  <2>2. CASE pc'[s] \notin {"reread", "rehash", "save"}
    BY <2>2
  <2>. QED
    BY <2>1, <2>2
<1>. QED
  BY <1>1, <1>4, BookParts

\* The passwords of the book are the same, or one is set.
LEMMA BookStep ==
    ASSUME PasswordsApart, ApartKept, BookFit, IInv, IInv', [Next]_vars
    PROVE  /\ BookFit'
           /\ \/ \A w \in Users : Pws(info'[w]) = Pws(info[w])
              \/ \E r \in Requests : Save(r)
<1>1. ASSUME NEW r \in Requests, Step(r) \/ Slack(r), ~AboutPasswords(r)
      PROVE  BookFit' /\ info' = info
  BY <1>1, Elsewhere, GoesOn, BookElse
<1>2. ASSUME NEW r \in Requests, Lookup(r) \/ Reread(r)
      PROVE  BookFit' /\ info' = info
  BY <1>2, BookReads DEF Lookup, Reread, account
<1>3. ASSUME NEW r \in Requests, Rehash(r)
      PROVE  BookFit' /\ \A w \in Users : Pws(info'[w]) = Pws(info[w])
  BY <1>3, BookRehash, RehashKeeps
<1>4. ASSUME NEW r \in Requests, Save(r)
      PROVE  BookFit'
  BY <1>4, BookSave
<1>5. ASSUME NEW r \in Requests, Arrive(r)
      PROVE  BookFit' /\ info' = info
  <2>1. PICK o \in Menu : op' = [op EXCEPT ![r] = o] /\ pc' = [pc EXCEPT ![r] = First(o.name)]
    BY <1>5 DEF Arrive
  <2>2. o.name \in OpNames
    BY SetsOK DEF Ops
  <2>3. First(o.name) \in {"door", "lookup", "redeem"}
    BY <2>2 DEF First, OpNames, InSession, WithForm
  <2>4. info' = info /\ my' = my
    BY <1>5 DEF Arrive, account
  <2>5. \A s \in Requests : pc'[s] \in {"reread", "rehash", "save"} => pc'[s] = pc[s] /\ op'[s] = op[s]
    BY <2>1, <2>3 DEF IInv, TypeOK
  <2>6. \A s \in Requests : pc'[s] \in {"reread", "rehash", "save"} =>
            /\ Matches(s, info[op[s].user])' <=> Matches(s, info[op[s].user])
            /\ Refused(s, info[op[s].user])' <=> Refused(s, info[op[s].user])
            /\ Pws(my[s].read)' = Pws(my[s].read)
            /\ Pws(info[op[s].user])' = Pws(info[op[s].user])
    BY <2>4, <2>5 DEF Matches, Refused, Used, Pws
  <2>. QED
    BY <2>4, <2>5, <2>6 DEF BookFit
<1>6. ASSUME UNCHANGED <<info, pc, op, my>>
      PROVE  BookFit' /\ info' = info
  BY <1>6, BookElse
<1>. QED
  BY <1>1, <1>2, <1>3, <1>4, <1>5, <1>6
     DEF Next, Step, Slack, AboutPasswords, Lapse, Rest, vars, account

\* Passwords are what PasswordBook says, as long as no user changes or resets one
\* while signing in, changing or resetting.
THEOREM PasswordsImplemented ==
    ASSUME PasswordsApart
    PROVE  Spec => ImplementsPasswordBook
<1>. DEFINE BInv == IInv /\ ApartKept /\ BookFit
            book == [u \in Users |-> Pws(info[u])]
<1>1. Init => BInv
  BY InitOK, ApartInit DEF Init, BookFit
<1>2. BInv /\ [Next]_vars => BInv'
  BY StepOK, ApartStep, BookStep
<1>3. Init => Book!Init
  <2>1. SUFFICES ASSUME Init, NEW v \in Users PROVE Pws(info[v]) \in Seq(Passwords)
    BY DEF Book!Init
  <2>2. info[v] \in Seq(Entries)
    BY <2>1, InitOK DEF IInv, TypeOK
  <2>. QED
    BY <2>2, PwsLen
<1>4. BInv /\ BInv' /\ [Next]_vars => [Book!Next]_book
  <2>1. SUFFICES ASSUME BInv, BInv', [Next]_vars PROVE [Book!Next]_book
    OBVIOUS
  <2>2. CASE \A w \in Users : Pws(info'[w]) = Pws(info[w])
    BY <2>2
  <2>3. ASSUME NEW r \in Requests, Save(r)
        PROVE  Book!Next
    <3>. DEFINE v == op[r].user
    <3>1. /\ v \in Users /\ op[r].pw \in Passwords
          /\ op[r].pw \notin Used(info[v])
          /\ Pws(info'[v]) = Upto(HistoryLength, <<op[r].pw>> \o Pws(info[v]))
          /\ \A w \in Users \ {v} : info'[w] = info[w]
      BY <2>1, <2>3, SavePuts
    <3>2. Book!Used(v) = Used(info[v])
      <4>1. Len(info[v]) \in Nat /\ info[v] \in Seq(Entries)
        BY <2>1, <3>1, LenProperties DEF IInv, TypeOK
      <4>2. Len(Pws(info[v])) = Len(info[v])
        BY <4>1, PwsLen
      <4>3. Book!Used(v) = {Pws(info[v])[i] : i \in 1..Len(Pws(info[v]))}
        BY <3>1 DEF Book!Used
      <4>. QED
        BY <4>2, <4>3 DEF Used, Pws
    <3>3. book' = [book EXCEPT ![v] = Book!Upto(HistoryLength, <<op[r].pw>> \o book[v])]
      <4>1. Book!Upto(HistoryLength, <<op[r].pw>> \o book[v]) = Pws(info'[v])
        BY <3>1 DEF Book!Upto, Upto
      <4>2. \A w \in Users : book'[w] = IF w = v THEN Pws(info'[v]) ELSE book[w]
        BY <3>1
      <4>. QED
        BY <3>1, <4>1, <4>2
    <3>. QED
      BY <3>1, <3>2, <3>3 DEF Book!Next, Book!SetPassword
  <2>. QED
    BY <2>1, <2>2, <2>3, BookStep
<1>5. Book!Spec <=> Book!Init /\ [][Book!Next]_book
  BY DEF Book!Spec
<1>. HIDE DEF BInv, book
<1>. QED
  BY <1>1, <1>2, <1>3, <1>4, <1>5, PTL DEF Spec, ImplementsPasswordBook
=============================================================================
