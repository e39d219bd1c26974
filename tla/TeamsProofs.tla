----------------------------- MODULE TeamsProofs ----------------------------
(***************************************************************************)
(* Whatever teams, requests and conditions there are: where changes of one *)
(* team do not overlap, a team can be got at by its id, and whoever leaves *)
(* it is written into its history, once; where requests wait for each      *)
(* other and for the bot, members come to have the roles of the teams.     *)
(***************************************************************************)
EXTENDS Teams, FiniteSetTheorems, SequenceTheorems, TLAPS

\* The parts of TypeOK.
StoreOK == teams \in [Slots -> Teams \union {Undef}] /\ given \in DOMAIN Conditions

RequestsOK ==
    /\ pc \in [Requests -> Labels]
    /\ op \in [Requests -> Ops \union {Undef}]
    /\ my \in [Requests -> Teams \union {Undef}]

BotOK ==
    /\ guild \in Seq(Kinds \X (0..MaxId))
    /\ roles \in [Members -> SUBSET Nat]
    /\ tasks \subseteq Tasks
    /\ turn \in (Requests \X Members) \union {Undef}
    /\ opened \subseteq Requests \X Members
    /\ up \in BOOLEAN
    /\ crossed \subseteq Members

LEMMA Parts == TypeOK <=> StoreOK /\ RequestsOK /\ BotOK
BY DEF TypeOK, StoreOK, RequestsOK, BotOK

LEMMA PartsAfter == TypeOK' <=> StoreOK' /\ RequestsOK' /\ BotOK'
BY DEF TypeOK, StoreOK, RequestsOK, BotOK

\* The operations that pass a place.
Doers(label) ==
    CASE label \in {"newid", "insert", "names"} -> {"create"}
      [] label \in {"get", "apply"} -> OfTeam
      [] label = "member" -> {"add"}
      [] label = "save" -> OfTeam \ {"delete"}
      [] label = "delete" -> {"delete"}
      [] label = "tell" -> {"member"}

\* A request that has read the team it is about.
HasTeam(r) == pc[r] \in {"member", "apply", "save"}

\* What a request has where it needs it.
Control ==
    \A r \in Requests :
        /\ pc[r] # "idle" => op[r] \in Given.menu
        /\ Active(r) => op[r].name \in Doers(pc[r])
        /\ HasTeam(r) \/ pc[r] = "insert" => my[r] \in Teams
        /\ HasTeam(r) => my[r].id = op[r].id

IInv == TypeOK /\ Control

-----------------------------------------------------------------------------
(* Teams in memory *)

LEMMA GivenOK == TypeOK => Given \in Setting /\ Given.menu \subseteq Ops
BY TeamsOK DEF TypeOK, Given, Setting

LEMMA NewTeamOK ==
    ASSUME NEW n \in 0..MaxId, NEW o \in Ops
    PROVE  NewTeam(n, o.lead) \in Teams /\ NewTeam(n, o.lead).id = n
BY DEF NewTeam, Teams, Ops

LEMMA WithoutOK ==
    ASSUME NEW t \in Teams, NEW gone \in SUBSET Members, NEW f \in [Members -> Jobs]
    PROVE  Without(t, gone, f) \in Teams /\ Without(t, gone, f).id = t.id
<1>. DEFINE jobs == [m \in Members |-> IF Left(t, m, gone) THEN {} ELSE t.jobs[m]]
            past == [m \in Members |-> [j \in Jobs |->
                        t.past[m][j] + IF Left(t, m, gone) /\ f[m] = j THEN 1 ELSE 0]]
<1>1. jobs \in [Members -> SUBSET Jobs]
  BY DEF Teams
<1>2. past \in [Members -> [Jobs -> Nat]]
  <2>1. t.past \in [Members -> [Jobs -> Nat]]
    BY DEF Teams
  <2>. QED
    BY <2>1
<1>3. Without(t, gone, f) = [t EXCEPT !.jobs = jobs, !.past = past]
  BY DEF Without
<1>. HIDE DEF jobs, past
<1>. QED
  BY <1>1, <1>2, <1>3 DEF Teams

LEMMA WithOK ==
    ASSUME NEW t \in Teams, NEW jobs \in [Members -> Jobs \union {Undef}]
    PROVE  /\ With(t, jobs) \in Teams /\ With(t, jobs).id = t.id
           /\ With(t, jobs).past = t.past
BY DEF With, Teams, IsMember, IsLeader

LEMMA ComeOK ==
    ASSUME NEW t \in Teams, NEW o \in Ops
    PROVE  Come(t, o) \in [Members -> Jobs \union {Undef}] /\ Gone(t, o) \in SUBSET Members
BY DEF Come, Gone, Ops

LEMMA AppliedOK ==
    ASSUME NEW t \in Teams, NEW o \in Ops, o.name \in OfTeam, NEW f \in [Members -> Jobs]
    PROVE  Applied(t, o, f) \in Teams /\ Applied(t, o, f).id = t.id
<1>1. CASE o.name = "set"
  <2>. DEFINE s == Without(t, Gone(t, o), f)
              n == With(s, Come(t, o))
  <2>1. s \in Teams /\ s.id = t.id
    BY ComeOK, WithoutOK
  <2>2. n \in Teams /\ n.id = t.id
    BY <2>1, ComeOK, WithOK
  <2>3. Leader(t, o) \in Members \union {Undef}
    BY DEF Leader, Teams, Ops
  <2>4. Applied(t, o, f) = [n EXCEPT !.lead = Leader(t, o)]
    BY <1>1 DEF Applied
  <2>. HIDE DEF n
  <2>. QED
    BY <2>2, <2>3, <2>4 DEF Teams
<1>2. CASE o.name = "add"
  <2>1. o.jobs \in [Members -> Jobs \union {Undef}]
    BY DEF Ops
  <2>. QED
    BY <1>2, <2>1 DEF Applied, Added, Teams
<1>3. CASE o.name = "modify"
  <2>1. o.jobs \in [Members -> Jobs \union {Undef}]
    BY DEF Ops
  <2>. QED
    BY <1>3, <2>1 DEF Applied, Modified, Teams, IsMember
<1>4. CASE o.name = "remove"
  BY <1>4, WithoutOK DEF Applied
<1>5. CASE o.name = "delete"
  BY <1>5 DEF Applied
<1>. QED
  BY <1>1, <1>2, <1>3, <1>4, <1>5 DEF OfTeam

Events ==
    [kind : {"add", "remove", "setup"}, who : Members, part : BOOLEAN, lead : BOOLEAN]

LEMMA EventOK ==
    \A kind \in {"add", "remove", "setup"}, m \in Members, p, l \in BOOLEAN :
        Event(kind, m, p, l) \in Events
BY DEF Event, Events

LEMMA ToldOK ==
    ASSUME NEW t, NEW o
    PROVE  Told(t, o) \subseteq Events
<1>0. \A s, m : IsMember(s, m) \in BOOLEAN /\ IsLeader(s, m) \in BOOLEAN
  BY DEF IsMember, IsLeader
<1>1. \A s, gone : Leavers(s, gone) \subseteq Events
  BY EventOK DEF Leavers
<1>2. \A s, jobs : Joiners(s, jobs) \subseteq Events
  BY EventOK DEF Joiners
<1>3. \A s : OldLeader(s) \subseteq Events
  BY <1>0, EventOK DEF OldLeader
<1>4. \A l : NewLeader(l) \subseteq Events
  BY EventOK DEF NewLeader
<1>5. {Event("add", m, TRUE, IsLeader(t, m)) : m \in {x \in Members : o.jobs[x] # Undef}} \subseteq Events
  BY <1>0, EventOK
<1>. QED
  BY <1>1, <1>2, <1>3, <1>4, <1>5 DEF Told

-----------------------------------------------------------------------------
(* Types: requests *)

\* Request r goes on at label with t.
LEMMA GoesOK ==
    ASSUME IInv, NEW r \in Requests, Active(r), NEW label \in Labels \ {"idle"},
           NEW t \in Teams \union {Undef}, Goes(r, label, t),
           \/ label \in Ended
           \/ /\ op[r].name \in Doers(label)
              /\ label \in {"insert", "member", "apply", "save"} => t \in Teams
              /\ label \in {"member", "apply", "save"} => t.id = op[r].id
    PROVE  RequestsOK' /\ Control' /\ given' = given
<1>1. pc \in [Requests -> Labels] /\ my \in [Requests -> Teams \union {Undef}] /\ given' = given
      /\ op' = op /\ Given' = Given
  BY DEF IInv, TypeOK, Goes, Given
<1>2. RequestsOK'
  BY <1>1 DEF IInv, TypeOK, RequestsOK, Goes
<1>3. ASSUME NEW s \in Requests
      PROVE  /\ pc'[s] # "idle" => op'[s] \in Given'.menu
             /\ Active(s)' => op'[s].name \in Doers(pc'[s])
             /\ HasTeam(s)' \/ pc'[s] = "insert" => my'[s] \in Teams
             /\ HasTeam(s)' => my'[s].id = op'[s].id
  <2>1. CASE s = r
    <3>1. pc'[r] = label /\ my'[r] = (IF label \in Ended THEN Undef ELSE t)
      BY <1>1 DEF Goes
    <3>2. op[r] \in Given.menu
      BY DEF IInv, Control, Active
    <3>. QED
      BY <1>1, <2>1, <3>1, <3>2 DEF Active, HasTeam, Ended
  <2>2. CASE s # r
    <3>1. pc'[s] = pc[s] /\ my'[s] = my[s]
      BY <1>1, <2>2 DEF Goes
    <3>. QED
      BY <1>1, <3>1 DEF IInv, Control, Active, HasTeam
  <2>. QED
    BY <2>1, <2>2
<1>. QED
  BY <1>1, <1>2, <1>3 DEF Control

LEMMA TellOK ==
    ASSUME IInv, NEW r \in Requests, op[r] \in Ops, NEW events \in SUBSET Events, Tell(r, events)
    PROVE  tasks' \subseteq Tasks /\ crossed' \subseteq Members
<1>1. tasks \subseteq Tasks /\ crossed \subseteq Members
  BY DEF IInv, TypeOK
<1>2. ASSUME NEW e \in events PROVE Task(r, op[r].id, e) \in Tasks
  <2>1. op[r].id \in 0..MaxId /\ e \in Events
    BY DEF Ops
  <2>2. [k \in Kinds |-> 0] \in [Kinds -> Nat]
    OBVIOUS
  <2>. QED
    BY <2>1, <2>2 DEF Task, Tasks, Events
<1>3. {Task(r, op[r].id, e) : e \in events} \subseteq Tasks
  BY <1>2
<1>4. {m \in Members : Cardinality({t \in tasks' : t.who = m}) > 1} \subseteq Members
  OBVIOUS
<1>5. CASE up /\ r \notin Given.away
  <2>1. tasks' = tasks \union {Task(r, op[r].id, e) : e \in events}
        /\ crossed' = crossed \union {m \in Members : Cardinality({t \in tasks' : t.who = m}) > 1}
    BY <1>5 DEF Tell
  <2>. QED
    BY <1>1, <1>3, <1>4, <2>1
<1>6. CASE ~(up /\ r \notin Given.away)
  BY <1>1, <1>6 DEF Tell
<1>. QED
  BY <1>5, <1>6

\* A request that is at it asks for something of the menu.
LEMMA Asks == IInv => \A r \in Requests : Active(r) => op[r] \in Given.menu /\ op[r] \in Ops
BY GivenOK DEF IInv, Control, Active

LEMMA ArriveOK == ASSUME IInv, NEW r \in Requests, Arrive(r) PROVE IInv'
<1>1. PICK o \in Given.menu : op' = [op EXCEPT ![r] = o] /\ pc' = [pc EXCEPT ![r] = Start(o.name)]
  BY DEF Arrive
<1>2. Given' = Given /\ my' = my /\ pc[r] = "idle" /\ Given.menu \subseteq Ops
  BY GivenOK DEF Arrive, Given, IInv
<1>3. o \in Ops /\ o.name \in OpNames
  BY <1>2 DEF Ops
<1>4. Start(o.name) \in Labels /\ o.name \in Doers(Start(o.name))
      /\ Start(o.name) \in {"newid", "get", "tell"}
  BY <1>3 DEF Start, Labels, OpNames, OfTeam, Doers
<1>5. RequestsOK'
  BY <1>1, <1>2, <1>3, <1>4 DEF IInv, TypeOK, RequestsOK
<1>6. Control'
  <2>. SUFFICES ASSUME NEW s \in Requests
                PROVE  /\ pc'[s] # "idle" => op'[s] \in Given'.menu
                       /\ Active(s)' => op'[s].name \in Doers(pc'[s])
                       /\ HasTeam(s)' \/ pc'[s] = "insert" => my'[s] \in Teams
                       /\ HasTeam(s)' => my'[s].id = op'[s].id
    BY DEF Control
  <2>0. pc \in [Requests -> Labels] /\ op \in [Requests -> Ops \union {Undef}]
    BY DEF IInv, TypeOK
  <2>1. CASE s = r
    <3>1. pc'[r] = Start(o.name) /\ op'[r] = o
      BY <1>1, <2>0
    <3>. QED
      BY <1>2, <1>4, <2>1, <3>1 DEF HasTeam, Active
  <2>2. CASE s # r
    <3>1. pc'[s] = pc[s] /\ op'[s] = op[s]
      BY <1>1, <2>0, <2>2
    <3>. QED
      BY <1>2, <3>1 DEF IInv, Control, Active, HasTeam
  <2>. QED
    BY <2>1, <2>2
<1>7. StoreOK' /\ BotOK'
  BY DEF IInv, TypeOK, StoreOK, BotOK, Arrive, bot
<1>. QED
  BY <1>5, <1>6, <1>7, PartsAfter DEF IInv

LEMMA FailOK == ASSUME IInv, NEW r \in Requests, Fail(r) PROVE IInv'
<1>1. Active(r) /\ my[r] \in Teams \union {Undef}
  BY DEF Fail, IInv, TypeOK
<1>2. PICK label \in Ended : Goes(r, label, my[r])
  BY DEF Fail, Goto, Ended
<1>3. RequestsOK' /\ Control' /\ given' = given
  BY <1>1, <1>2, GoesOK DEF Ended, Labels
<1>4. StoreOK' /\ BotOK'
  BY <1>3 DEF IInv, TypeOK, StoreOK, BotOK, Fail, bot
<1>. QED
  BY <1>3, <1>4, PartsAfter DEF IInv

LEMMA StepOK == ASSUME IInv, NEW r \in Requests, Step(r) PROVE IInv'
<1>0. /\ teams \in [Slots -> Teams \union {Undef}] /\ given \in DOMAIN Conditions
      /\ my[r] \in Teams \union {Undef}
      /\ BotOK
  BY DEF IInv, TypeOK, BotOK
<1>1. CASE NewID(r)
  <2>1. Active(r) /\ op[r] \in Ops /\ op[r].name \in {"create"}
    BY <1>1, Asks DEF NewID, Active, Ended, IInv, Control, Doers
  <2>2. PICK n \in 1..MaxId : Goes(r, "insert", NewTeam(n, op[r].lead))
    BY <1>1 DEF NewID
  <2>3. NewTeam(n, op[r].lead) \in Teams
    BY <2>1, NewTeamOK, TeamsOK
  <2>4. RequestsOK' /\ Control' /\ given' = given
    BY <2>1, <2>2, <2>3, GoesOK DEF Labels, Ended, Doers
  <2>. QED
    BY <1>0, <1>1, <2>4, PartsAfter DEF IInv, StoreOK, BotOK, NewID, bot
<1>2. CASE Insert(r)
  <2>1. Active(r) /\ op[r] \in Ops /\ op[r].name \in {"create"} /\ my[r] \in Teams
    BY <1>2, Asks DEF Insert, Active, Ended, IInv, Control, Doers
  <2>2. RequestsOK' /\ Control' /\ given' = given
    BY <1>2, <2>1, GoesOK DEF Insert, Goto, Labels, Ended, Doers
  <2>3. tasks' \subseteq Tasks /\ crossed' \subseteq Members
    BY <1>2, <2>1, TellOK, ToldOK DEF Insert
  <2>4. teams' \in [Slots -> Teams \union {Undef}]
    BY <1>0, <1>2, <2>1 DEF Insert
  <2>. QED
    BY <1>0, <1>2, <2>2, <2>3, <2>4, PartsAfter DEF IInv, StoreOK, BotOK, Insert
<1>3. CASE Names(r)
  <2>1. Active(r)
    BY <1>3 DEF Names, Active, Ended
  <2>2. RequestsOK' /\ Control' /\ given' = given
    BY <1>0, <1>3, <2>1, GoesOK DEF Names, Goto, Labels, Ended
  <2>. QED
    BY <1>0, <1>3, <2>2, PartsAfter DEF IInv, StoreOK, BotOK, Names, bot
<1>4. CASE Get(r)
  <2>. DEFINE i == op[r].id
              next == IF op[r].name = "add" THEN "member" ELSE "apply"
  <2>1. Active(r) /\ op[r] \in Ops /\ op[r].name \in OfTeam
    BY <1>4, Asks DEF Get, Active, Ended, IInv, Control, Doers
  <2>2. next \in Labels \ {"idle"} /\ op[r].name \in Doers(next)
    BY <2>1 DEF Labels, Doers, Ended
  <2>3. RequestsOK' /\ Control' /\ given' = given
    <3>1. CASE i = 0 /\ Goes(r, next, Staff)
      BY <2>1, <2>2, <3>1, GoesOK, TeamsOK
    <3>2. CASE \E w \in Slots : Found(i) = {w} /\ Goes(r, next, teams[w])
      <4>1. PICK w \in Slots : Found(i) = {w} /\ Goes(r, next, teams[w])
        BY <3>2
      <4>2. teams[w] \in Teams /\ teams[w].id = i
        BY <1>0, <4>1 DEF Found
      <4>. QED
        BY <2>1, <2>2, <4>1, <4>2, GoesOK
    <3>3. CASE Goto(r, "failed")
      BY <1>0, <2>1, <3>3, GoesOK DEF Goto, Labels, Ended
    <3>. QED
      BY <1>4, <3>1, <3>2, <3>3 DEF Get
  <2>. QED
    BY <1>0, <1>4, <2>3, PartsAfter DEF IInv, StoreOK, BotOK, Get, bot
<1>5. CASE LookForMember(r)
  <2>1. Active(r) /\ op[r].name \in OfTeam /\ my[r] \in Teams /\ my[r].id = op[r].id
    BY <1>5, Asks DEF LookForMember, Active, Ended, IInv, Control, Doers, HasTeam, OfTeam
  <2>2. RequestsOK' /\ Control' /\ given' = given
    BY <1>5, <2>1, GoesOK DEF LookForMember, Goto, Labels, Ended, Doers
  <2>. QED
    BY <1>0, <1>5, <2>2, PartsAfter DEF IInv, StoreOK, BotOK, LookForMember, bot
<1>6. CASE Apply(r)
  <2>1. Active(r) /\ op[r] \in Ops /\ op[r].name \in OfTeam /\ my[r] \in Teams /\ my[r].id = op[r].id
    BY <1>6, Asks DEF Apply, Active, Ended, IInv, Control, Doers, HasTeam
  <2>2. CASE op[r].name = "delete" /\ op[r].id = 0
    <3>1. Goto(r, "failed") /\ UNCHANGED <<tasks, crossed>>
      BY <1>6, <2>2 DEF Apply
    <3>2. RequestsOK' /\ Control' /\ given' = given
      BY <1>0, <2>1, <3>1, GoesOK DEF Goto, Labels, Ended
    <3>. QED
      BY <1>0, <1>6, <3>1, <3>2, PartsAfter DEF IInv, StoreOK, BotOK, Apply
  <2>3. CASE ~(op[r].name = "delete" /\ op[r].id = 0)
    <3>. DEFINE label == IF op[r].name = "delete" THEN "delete" ELSE "save"
    <3>1. PICK f \in [Members -> Jobs] : Goes(r, label, Applied(my[r], op[r], f))
      BY <1>6, <2>3 DEF Apply
    <3>2. label \in Labels \ {"idle"} /\ op[r].name \in Doers(label)
      BY <2>1 DEF Labels, Doers
    <3>3. Applied(my[r], op[r], f) \in Teams /\ Applied(my[r], op[r], f).id = op[r].id
      BY <2>1, AppliedOK
    <3>4. RequestsOK' /\ Control' /\ given' = given
      BY <2>1, <3>1, <3>2, <3>3, GoesOK
    <3>5. Tell(r, Told(my[r], op[r]))
      BY <1>6, <2>3 DEF Apply
    <3>6. tasks' \subseteq Tasks /\ crossed' \subseteq Members
      BY <2>1, <3>5, TellOK, ToldOK
    <3>. QED
      BY <1>0, <1>6, <3>4, <3>6, PartsAfter DEF IInv, StoreOK, BotOK, Apply
  <2>. QED
    BY <2>2, <2>3
<1>7. CASE Save(r)
  <2>1. Active(r) /\ my[r] \in Teams
    BY <1>7 DEF Save, Active, Ended, IInv, Control, HasTeam
  <2>2. RequestsOK' /\ Control' /\ given' = given
    <3>1. PICK label \in Ended : Goes(r, label, my[r])
      BY <1>7 DEF Save, Goto, Ended
    <3>. QED
      BY <1>0, <2>1, <3>1, GoesOK DEF Labels, Ended
  <2>3. teams' \in [Slots -> Teams \union {Undef}]
    BY <1>0, <1>7, <2>1 DEF Save, Saved
  <2>. QED
    BY <1>0, <1>7, <2>2, <2>3, PartsAfter DEF IInv, StoreOK, BotOK, Save, bot
<1>8. CASE Delete(r)
  <2>1. Active(r)
    BY <1>8 DEF Delete, Active, Ended
  <2>2. RequestsOK' /\ Control' /\ given' = given
    BY <1>0, <1>8, <2>1, GoesOK DEF Delete, Goto, Labels, Ended
  <2>3. teams' \in [Slots -> Teams \union {Undef}]
    BY <1>0, <1>8 DEF Delete
  <2>. QED
    BY <1>0, <1>8, <2>2, <2>3, PartsAfter DEF IInv, StoreOK, BotOK, Delete, bot
<1>9. CASE TellOfMember(r)
  <2>1. Active(r) /\ op[r] \in Ops
    BY <1>9, Asks DEF TellOfMember, Active, Ended
  <2>2. RequestsOK' /\ Control' /\ given' = given
    BY <1>0, <1>9, <2>1, GoesOK DEF TellOfMember, Goto, Labels, Ended
  <2>3. {Event("setup", m, FALSE, FALSE) : m \in {x \in Members : op[r].jobs[x] # Undef}} \in SUBSET Events
    BY EventOK
  <2>4. tasks' \subseteq Tasks /\ crossed' \subseteq Members
    BY <1>9, <2>1, <2>3, TellOK DEF TellOfMember
  <2>. QED
    BY <1>0, <1>9, <2>2, <2>4, PartsAfter DEF IInv, StoreOK, BotOK, TellOfMember
<1>. QED
  BY <1>1, <1>2, <1>3, <1>4, <1>5, <1>6, <1>7, <1>8, <1>9 DEF Step

-----------------------------------------------------------------------------
(* Types: the handlers of the bot *)

\* The least of some numbers, and 0 when there are none.
LEMMA LeastIs ==
    ASSUME NEW ns \in SUBSET (Nat \ {0}), NEW l,
           l = IF ns = {} THEN 0 ELSE CHOOSE n \in ns : \A x \in ns : n <= x
    PROVE  l \in Nat /\ (l = 0 <=> ns = {}) /\ (l # 0 => l \in ns) /\ \A x \in ns : l <= x
<1>1. CASE ns = {}
  BY <1>1
<1>2. CASE ns # {}
  <2>. DEFINE Less == {ss \in Nat \X Nat : ss[1] < ss[2]}
  <2>1. IsWellFoundedOn(Less, Nat)
    <3>1. OpToRel(<, Nat) = Less
      BY Zenon DEF OpToRel
    <3>. QED
      BY <3>1, NatLessThanWellFounded
  <2>2. PICK n \in ns : \A x \in ns : <<x, n>> \notin Less
    <3>1. ns \subseteq Nat
      OBVIOUS
    <3>. HIDE DEF Less
    <3>. QED
      BY <1>2, <2>1, <3>1, WFMin
  <2>3. ASSUME NEW x \in ns PROVE n <= x
    <3>1. <<x, n>> \notin Less /\ x \in Nat /\ n \in Nat
      BY <2>2
    <3>2. ~(x < n)
      BY <3>1
    <3>. QED
      BY <3>1, <3>2
  <2>4. l \in ns /\ \A x \in ns : l <= x
    BY <1>2, <2>3
  <2>. QED
    BY <1>2, <2>4
<1>. QED
  BY <1>1, <1>2

\* The first of the roles that are named so.
LEMMA LowestIs ==
    ASSUME guild \in Seq(Kinds \X (0..MaxId)), NEW k, NEW i
    PROVE  /\ Lowest(k, i) \in Nat
           /\ Lowest(k, i) = 0 <=> Numbers(k, i) = {}
           /\ Lowest(k, i) # 0 => Lowest(k, i) \in Numbers(k, i)
           /\ \A x \in Numbers(k, i) : Lowest(k, i) <= x
<1>1. Len(guild) \in Nat
  BY LenProperties
<1>2. Numbers(k, i) \in SUBSET (Nat \ {0})
  BY <1>1 DEF Numbers
<1>3. Lowest(k, i) = IF Numbers(k, i) = {} THEN 0
                     ELSE CHOOSE n \in Numbers(k, i) : \A x \in Numbers(k, i) : n <= x
  BY DEF Lowest
<1>. QED
  BY <1>2, <1>3, LeastIs, ZenonT(30)

LEMMA LowestIsAfter ==
    ASSUME guild' \in Seq(Kinds \X (0..MaxId)), NEW k, NEW i
    PROVE  /\ Lowest(k, i)' \in Nat
           /\ Lowest(k, i)' = 0 <=> Numbers(k, i)' = {}
           /\ Lowest(k, i)' # 0 => Lowest(k, i)' \in Numbers(k, i)'
           /\ \A x \in Numbers(k, i)' : Lowest(k, i)' <= x
<1>1. Len(guild') \in Nat
  BY LenProperties
<1>2. Numbers(k, i)' \in SUBSET (Nat \ {0})
  BY <1>1 DEF Numbers
<1>3. Lowest(k, i)' = IF Numbers(k, i)' = {} THEN 0
                     ELSE CHOOSE n \in Numbers(k, i)' : \A x \in Numbers(k, i)' : n <= x
  BY DEF Lowest
<1>. QED
  BY <1>2, <1>3, LeastIs, ZenonT(30)

LEMMA LowestOK ==
    ASSUME guild \in Seq(Kinds \X (0..MaxId)), NEW k, NEW i
    PROVE  Lowest(k, i) \in Nat
BY LowestIs

LEMMA LookedOK == ASSUME NEW t \in Tasks PROVE Looked(t) \in Tasks /\ Key(t) \in Requests \X Members
<1>1. /\ t.now \in 0..MaxId /\ t.has \in [Kinds -> Nat] /\ t.left \in SUBSET (0..MaxId)
      /\ t.leads \in SUBSET (0..MaxId) /\ t.mine \in SUBSET Nat
      /\ t.by \in Requests /\ t.who \in Members
  BY DEF Tasks
<1>. DEFINE left == t.left \ {t.now}
            found == {t.has["member"]} \union (IF t.now \in t.leads THEN {t.has["lead"]} ELSE {})
<1>2. left \in SUBSET (0..MaxId) /\ t.mine \union found \in SUBSET Nat
  BY <1>1 DEF Kinds
<1>3. CASE t.make # {}
  <2>1. Looked(t) = [t EXCEPT !.at = "make"]
    BY <1>3 DEF Looked
  <2>. QED
    BY <1>1, <2>1 DEF Tasks, Key
<1>4. CASE t.make = {} /\ t.kind # "setup"
  <2>1. Looked(t) = [t EXCEPT !.at = "read", !.left = {}]
    BY <1>4 DEF Looked
  <2>. QED
    BY <1>1, <2>1 DEF Tasks, Key
<1>5. CASE t.make = {} /\ t.kind = "setup"
  <2>1. Looked(t) = [t EXCEPT !.at = IF left = {} THEN "clear" ELSE "find", !.left = left,
                              !.mine = t.mine \union found]
    BY <1>5 DEF Looked
  <2>. HIDE DEF left, found
  <2>. QED
    BY <1>1, <1>2, <2>1 DEF Tasks, Key
<1>. QED
  BY <1>3, <1>4, <1>5

LEMMA GoesOnOK ==
    ASSUME TypeOK, NEW t \in Tasks, NEW u \in Tasks, GoesOn(t, u)
    PROVE  tasks' \subseteq Tasks /\ opened' \subseteq Requests \X Members
<1>1. tasks' = (tasks \ {t}) \union {Looked(u)}
  BY DEF GoesOn, Becomes
<1>2. opened' \subseteq opened \union {Key(t)}
  BY DEF GoesOn
<1>. QED
  BY <1>1, <1>2, LookedOK DEF TypeOK

\* What the requests have is left alone.
LEMMA SameRequests ==
    ASSUME IInv, UNCHANGED <<teams, pc, op, my, given>>, BotOK'
    PROVE  IInv'
BY PartsAfter DEF IInv, TypeOK, StoreOK, RequestsOK, Control, Given, Active, HasTeam

LEMMA NewRolesOK ==
    ASSUME TypeOK, NEW t \in Tasks
    PROVE  NewRoles(t) \in SUBSET Nat
<1>1. t.has["member"] \in Nat /\ t.has["lead"] \in Nat /\ roles[t.who] \in SUBSET Nat
  BY DEF TypeOK, Tasks, Kinds
<1>. QED
  BY <1>1 DEF NewRoles

LEMMA WorkOK == ASSUME IInv, NEW t \in tasks, Work(t) PROVE IInv'
<1>1. t \in Tasks /\ BotOK /\ TypeOK
  BY DEF IInv, TypeOK, BotOK
<1>2. CASE Find(t)
  <2>1. PICK i \in t.left :
          LET has == [k \in Kinds |-> Lowest(k, i)] IN
          GoesOn(t, [t EXCEPT !.now = i, !.has = has, !.make = {k \in Kinds : has[k] = 0}])
    BY <1>2 DEF Find
  <2>. DEFINE has == [k \in Kinds |-> Lowest(k, i)]
              make == {k \in Kinds : has[k] = 0}
  <2>2. has \in [Kinds -> Nat] /\ make \in SUBSET Kinds /\ i \in 0..MaxId
    BY <1>1, LowestOK DEF BotOK, Tasks
  <2>3. GoesOn(t, [t EXCEPT !.now = i, !.has = has, !.make = make])
    BY <2>1
  <2>. HIDE DEF has, make
  <2>4. [t EXCEPT !.now = i, !.has = has, !.make = make] \in Tasks
    BY <1>1, <2>2 DEF Tasks
  <2>5. tasks' \subseteq Tasks /\ opened' \subseteq Requests \X Members
    BY <1>1, <2>3, <2>4, GoesOnOK
  <2>6. BotOK'
    BY <1>1, <1>2, <2>5 DEF Find, BotOK
  <2>. QED
    BY <1>2, <2>6, SameRequests DEF Find
<1>3. CASE Make(t)
  <2>. DEFINE k == IF "lead" \in t.make THEN "lead" ELSE "member"
  <2>1. /\ guild' = Append(guild, <<k, t.now>>)
        /\ GoesOn(t, [t EXCEPT !.make = @ \ {k}, !.has[k] = Len(guild) + 1])
    BY <1>3 DEF Make
  <2>2. k \in Kinds /\ t.now \in 0..MaxId /\ Len(guild) + 1 \in Nat
    BY <1>1, LenProperties DEF Kinds, Tasks, BotOK
  <2>3. guild' \in Seq(Kinds \X (0..MaxId))
    BY <1>1, <2>1, <2>2, AppendProperties DEF BotOK
  <2>. HIDE DEF k
  <2>4. [t EXCEPT !.make = @ \ {k}, !.has[k] = Len(guild) + 1] \in Tasks
    BY <1>1, <2>2 DEF Tasks
  <2>5. tasks' \subseteq Tasks /\ opened' \subseteq Requests \X Members
    BY <1>1, <2>1, <2>4, GoesOnOK
  <2>6. BotOK'
    BY <1>1, <1>3, <2>3, <2>5 DEF Make, BotOK
  <2>. QED
    BY <1>3, <2>6, SameRequests DEF Make
<1>4. CASE Read(t)
  <2>1. [t EXCEPT !.at = "write", !.mine = NewRoles(t)] \in Tasks
    BY <1>1, NewRolesOK DEF Tasks
  <2>2. BotOK'
    BY <1>1, <1>4, <2>1 DEF Read, Becomes, BotOK
  <2>. QED
    BY <1>4, <2>2, SameRequests DEF Read
<1>5. CASE Write(t)
  <2>1. t.mine \in SUBSET Nat /\ t.who \in Members
    BY <1>1 DEF Tasks
  <2>2. BotOK'
    BY <1>1, <1>5, <2>1 DEF Write, BotOK
  <2>. QED
    BY <1>5, <2>2, SameRequests DEF Write
<1>6. CASE ReadTeams(t)
  <2>. DEFINE part == {teams[w].id : w \in {x \in Slots : teams[x] # Undef /\ IsPart(teams[x], t.who)}}
              lead == {teams[w].id : w \in {x \in Slots : teams[x] # Undef /\ IsLeader(teams[x], t.who)}}
              at == IF part = {} THEN "clear" ELSE "queue"
  <2>1. \A w \in Slots : teams[w] # Undef => teams[w].id \in 0..MaxId
    BY <1>1 DEF TypeOK, Teams
  <2>2. part \in SUBSET (0..MaxId) /\ lead \in SUBSET (0..MaxId)
    BY <2>1
  <2>3. Becomes(t, [t EXCEPT !.left = part, !.leads = lead, !.at = at])
    BY <1>6 DEF ReadTeams
  <2>4. at \in {"clear", "queue"}
    OBVIOUS
  <2>. HIDE DEF part, lead, at
  <2>5. [t EXCEPT !.left = part, !.leads = lead, !.at = at] \in Tasks
    BY <1>1, <2>2, <2>4 DEF Tasks
  <2>6. BotOK'
    BY <1>1, <1>6, <2>3, <2>5 DEF ReadTeams, Becomes, BotOK
  <2>. QED
    BY <1>6, <2>6, SameRequests DEF ReadTeams
<1>7. CASE Queue(t)
  <2>1. [t EXCEPT !.at = "wait", !.after = turn] \in Tasks
    BY <1>1 DEF Tasks, BotOK
  <2>2. BotOK'
    BY <1>1, <1>7, <2>1 DEF Queue, Becomes, BotOK
  <2>. QED
    BY <1>7, <2>2, SameRequests DEF Queue
<1>8. CASE TakeTurn(t)
  <2>1. [t EXCEPT !.at = "find"] \in Tasks /\ Key(t) \in Requests \X Members
    BY <1>1 DEF Tasks, Key
  <2>2. BotOK'
    BY <1>1, <1>8, <2>1 DEF TakeTurn, Becomes, BotOK
  <2>. QED
    BY <1>8, <2>2, SameRequests DEF TakeTurn
<1>9. CASE Clear(t)
  <2>1. [t EXCEPT !.at = "write"] \in Tasks
    BY <1>1 DEF Tasks
  <2>2. BotOK'
    BY <1>1, <1>9, <2>1 DEF Clear, Becomes, BotOK
  <2>. QED
    BY <1>9, <2>2, SameRequests DEF Clear
<1>. QED
  BY <1>2, <1>3, <1>4, <1>5, <1>6, <1>7, <1>8, <1>9 DEF Work

LEMMA EndOK == ASSUME IInv, NEW t \in tasks, SetupFails(t) \/ Crash(t) PROVE IInv'
<1>1. CASE SetupFails(t)
  <2>1. BotOK'
    BY <1>1 DEF IInv, TypeOK, SetupFails, BotOK
  <2>. QED
    BY <1>1, <2>1, SameRequests DEF SetupFails
<1>2. CASE Crash(t)
  <2>0. roles' \in [Members -> SUBSET Nat]
    BY <1>2 DEF IInv, TypeOK, Crash, BotOK, Tasks
  <2>1. BotOK'
    BY <1>2, <2>0 DEF IInv, TypeOK, Crash, BotOK
  <2>2. StoreOK' /\ RequestsOK' /\ given' = given /\ op' = op
    BY <1>2 DEF IInv, TypeOK, Crash, StoreOK, RequestsOK, Labels, Ended
  <2>3. Control'
    <3>. SUFFICES ASSUME NEW r \in Requests
                  PROVE  /\ pc'[r] # "idle" => op'[r] \in Given'.menu
                         /\ Active(r)' => op'[r].name \in Doers(pc'[r])
                         /\ HasTeam(r)' \/ pc'[r] = "insert" => my'[r] \in Teams
                         /\ HasTeam(r)' => my'[r].id = op'[r].id
      BY DEF Control
    <3>1. Given' = Given
      BY <2>2 DEF Given
    <3>2. pc'[r] = (IF Active(r) /\ r \notin Given.away THEN "failed" ELSE pc[r])
          /\ my'[r] = (IF r \in Given.away THEN my[r] ELSE Undef)
      BY <1>2 DEF Crash
    <3>3. CASE Active(r) /\ r \notin Given.away
      BY <2>2, <3>1, <3>2, <3>3 DEF IInv, Control, Active, HasTeam, Ended
    <3>4. CASE r \in Given.away
      BY <2>2, <3>1, <3>2, <3>4 DEF IInv, Control, Active, HasTeam
    <3>5. CASE ~Active(r)
      BY <2>2, <3>1, <3>2, <3>5 DEF IInv, Control, Active, HasTeam, Ended
    <3>. QED
      BY <3>3, <3>4, <3>5
  <2>. QED
    BY <2>1, <2>2, <2>3, PartsAfter DEF IInv
<1>. QED
  BY <1>1, <1>2

LEMMA InitOK == Init => IInv
<1>. SUFFICES ASSUME Init PROVE IInv
  OBVIOUS
<1>1. StoreOK /\ RequestsOK
  BY TeamsOK DEF Init, StoreOK, RequestsOK, Labels
<1>2. Control
  BY DEF Init, Control, Active, HasTeam
<1>3. guild \in Seq(Kinds \X (0..MaxId))
  <2>1. CASE Given.fresh
    BY <2>1 DEF Init
  <2>2. CASE ~Given.fresh
    <3>. DEFINE S == Kinds \X IdsUsed
                n == Cardinality(S)
                Lists == [1..n -> S]
    <3>1. IdsUsed \subseteq 0..MaxId
      BY <1>1 DEF IdsUsed, StoreOK, Teams
    <3>2. IsFiniteSet(S)
      <4>1. IsFiniteSet(0..MaxId)
        BY TeamsOK, FS_Interval
      <4>2. IsFiniteSet(IdsUsed)
        BY <3>1, <4>1, FS_Subset
      <4>3. IsFiniteSet(Kinds)
        <5>1. IsFiniteSet({"lead"})
          BY FS_Singleton
        <5>2. Kinds = {"lead"} \union {"member"}
          BY DEF Kinds
        <5>. QED
          BY <5>1, <5>2, FS_AddElement
      <4>. QED
        BY <4>2, <4>3, FS_Product
    <3>3. n \in Nat /\ ExistsBijection(1..n, S)
      BY <3>2, FS_CardinalityType
    <3>4. \E s \in Lists : {s[i] : i \in DOMAIN s} = S
      <4>1. PICK s \in Lists : \A x \in S : \E i \in 1..n : s[i] = x
        BY <3>3 DEF ExistsBijection, Bijection, Surjection
      <4>2. DOMAIN s = 1..n /\ \A i \in 1..n : s[i] \in S
        BY <4>1
      <4>. HIDE DEF S, n
      <4>3. {s[i] : i \in DOMAIN s} = S
        BY <4>1, <4>2
      <4>. QED
        BY <4>3
    <3>5. guild = CHOOSE s \in Lists : {s[i] : i \in DOMAIN s} = S
      BY <2>2 DEF Init
    <3>6. guild \in Lists
      BY <3>4, <3>5
    <3>7. guild \in Seq(S)
      <4>. HIDE DEF n, S
      <4>. QED
        BY <3>3, <3>6
    <3>. QED
      BY <3>1, <3>7, SeqMonotonic
  <2>. QED
    BY <2>1, <2>2
<1>4. roles \in [Members -> SUBSET Nat]
  <2>1. Len(guild) \in Nat
    BY <1>3, LenProperties
  <2>2. \A m \in Members : {n \in 1..Len(guild) : \E w \in Found(guild[n][2]) :
            IF guild[n][1] = "lead" THEN IsLeader(teams[w], m) ELSE IsPart(teams[w], m)} \in SUBSET Nat
    BY <2>1
  <2>. QED
    BY <2>2 DEF Init
<1>5. BotOK
  BY <1>3, <1>4 DEF Init, BotOK
<1>. QED
  BY <1>1, <1>2, <1>5, Parts DEF IInv

LEMMA NextOK == IInv /\ [Next]_vars => IInv'
<1>1. IInv /\ UNCHANGED vars => IInv'
  BY DEF IInv, TypeOK, Control, Given, Active, HasTeam, vars
<1>. QED
  BY <1>1, ArriveOK, StepOK, FailOK, WorkOK, EndOK DEF Next, Rest

\* Teams, requests, roles and the handlers of the bot keep their shape.
THEOREM TeamsTyped == Spec => []TypeOK
<1>1. IInv => TypeOK
  BY DEF IInv
<1>. QED
  BY <1>1, InitOK, NextOK, PTL DEF Spec

-----------------------------------------------------------------------------
(* Records *)

\* What getTeam wants of the rows that there are at the beginning, and which
\* requests do not overlap: two creations, and two changes of one team.
RecordsApart ==
    /\ \A f \in First : \A v, w \in Slots :
          f[v] # Undef /\ f[w] # Undef /\ f[v].id = f[w].id => v = w
    /\ \A i \in DOMAIN Conditions :
          /\ \A o \in Conditions[i].menu : o.name = "create" => o.id = 0
          /\ Conditions[i].quiet
             \/ (OfTeam \X OfTeam) \union {<<"create", "create">>} \subseteq Conditions[i].apart

Rivals(o, p) ==
    /\ o.id = p.id
    /\ (o.name \in OfTeam /\ p.name \in OfTeam) \/ (o.name = "create" /\ p.name = "create")

ApartKept ==
    \A r, s \in Requests : r # s /\ Active(r) /\ Active(s) => ~Rivals(op[r], op[s])

\* What a request is about to store fits what is stored.
Ready(r) ==
    /\ pc[r] = "insert" =>
          /\ my[r].id \notin IdsUsed
          /\ my[r].jobs = [m \in Members |-> {}]
          /\ my[r].past = [m \in Members |-> [j \in Jobs |-> 0]]
    /\ pc[r] \in {"member", "apply"} /\ op[r].id # 0 =>
          \E w \in Slots : Found(op[r].id) = {w} /\ teams[w] = my[r]
    /\ pc[r] = "save" /\ op[r].id # 0 =>
          \E w \in Slots : /\ Found(op[r].id) = {w}
                           /\ \A m \in Members : Book!Leaves(teams[w], my[r], m)

BookInv == IInv /\ TeamsFound /\ ApartKept /\ \A r \in Requests : Ready(r)

\* Whoever is on the team and is not on it afterwards has been written into its
\* history.
LEMMA WithoutLeaves ==
    ASSUME NEW t \in Teams, NEW gone \in SUBSET Members, NEW f \in [Members -> Jobs],
           \A m \in Members : IsMember(t, m) => f[m] \in t.jobs[m], NEW m \in Members
    PROVE  /\ Left(t, m, gone) => Without(t, gone, f).jobs[m] = {}
           /\ ~Left(t, m, gone) => Without(t, gone, f).jobs[m] = t.jobs[m]
           /\ Book!Leaves(t, Without(t, gone, f), m)
<1>. DEFINE n == Without(t, gone, f)
<1>1. t.jobs \in [Members -> SUBSET Jobs] /\ t.past \in [Members -> [Jobs -> Nat]]
      /\ DOMAIN t = {"id", "jobs", "lead", "past"}
  BY DEF Teams
<1>2. /\ n.jobs = [x \in Members |-> IF Left(t, x, gone) THEN {} ELSE t.jobs[x]]
      /\ n.past = [x \in Members |-> [j \in Jobs |->
                      t.past[x][j] + IF Left(t, x, gone) /\ f[x] = j THEN 1 ELSE 0]]
  BY <1>1 DEF Without
<1>. HIDE DEF n
<1>3. n.jobs[m] = IF Left(t, m, gone) THEN {} ELSE t.jobs[m]
  BY <1>2
<1>4. n.past[m] = [j \in Jobs |-> t.past[m][j] + IF Left(t, m, gone) /\ f[m] = j THEN 1 ELSE 0]
  BY <1>2
<1>5. CASE Left(t, m, gone)
  <2>1. t.jobs[m] # {} /\ f[m] \in t.jobs[m] /\ n.jobs[m] = {}
    BY <1>3, <1>5 DEF Left, IsMember
  <2>2. \A k \in Jobs : n.past[m][k] = t.past[m][k] + (IF k = f[m] THEN 1 ELSE 0)
    BY <1>4, <1>5
  <2>. QED
    BY <1>5, <2>1, <2>2 DEF Book!Leaves, n
<1>6. CASE ~Left(t, m, gone)
  <2>1. n.jobs[m] = t.jobs[m]
    BY <1>3, <1>6
  <2>2. n.past[m] = t.past[m]
    <3>1. t.past[m] \in [Jobs -> Nat]
      BY <1>1
    <3>2. n.past[m] = [j \in Jobs |-> t.past[m][j] + 0]
      BY <1>4, <1>6
    <3>. HIDE DEF n
    <3>. QED
      BY <3>1, <3>2
  <2>. QED
    BY <1>6, <2>1, <2>2 DEF Book!Leaves, n
<1>. QED
  BY <1>5, <1>6

LEMMA AppliedLeaves ==
    ASSUME NEW t \in Teams, NEW o \in Ops, o.name \in OfTeam \ {"delete"}, NEW f \in [Members -> Jobs],
           \A m \in Members : IsMember(t, m) => f[m] \in t.jobs[m], NEW m \in Members
    PROVE  Book!Leaves(t, Applied(t, o, f), m)
<1>0. o.jobs \in [Members -> Jobs \union {Undef}] /\ t.jobs \in [Members -> SUBSET Jobs]
      /\ DOMAIN t = {"id", "jobs", "lead", "past"}
  BY DEF Ops, Teams
<1>1. CASE o.name = "set"
  <2>. DEFINE s == Without(t, Gone(t, o), f)
              n == With(s, Come(t, o))
  <2>1. s \in Teams /\ Come(t, o) \in [Members -> Jobs \union {Undef}] /\ n \in Teams /\ n.past = s.past
    BY ComeOK, WithoutOK, WithOK
  <2>2. /\ Left(t, m, Gone(t, o)) => s.jobs[m] = {}
        /\ ~Left(t, m, Gone(t, o)) => s.jobs[m] = t.jobs[m]
        /\ Book!Leaves(t, s, m)
    BY ComeOK, WithoutLeaves
  <2>3. Applied(t, o, f) = [n EXCEPT !.lead = Leader(t, o)]
    BY <1>1 DEF Applied
  <2>. HIDE DEF s
  <2>4. n.jobs[m] = s.jobs[m] \/ (Come(t, o)[m] # Undef /\ n.jobs[m] # {})
    BY <2>1 DEF With, Teams
  <2>5. t.jobs[m] # {} => Come(t, o)[m] = Undef
    BY DEF Come, IsMember
  <2>. HIDE DEF n
  <2>6. Applied(t, o, f).jobs[m] = n.jobs[m] /\ Applied(t, o, f).past[m] = s.past[m]
    BY <2>1, <2>3 DEF Teams
  <2>7. CASE t.jobs[m] # {}
    <3>1. Applied(t, o, f).jobs[m] = s.jobs[m]
      BY <2>4, <2>5, <2>6, <2>7
    <3>. QED
      BY <2>2, <2>6, <3>1 DEF Book!Leaves
  <2>8. CASE t.jobs[m] = {}
    BY <2>2, <2>6, <2>8 DEF Book!Leaves
  <2>. QED
    BY <2>7, <2>8
<1>2. CASE o.name = "add"
  <2>1. Applied(t, o, f).past = t.past
        /\ Applied(t, o, f).jobs[m] = IF o.jobs[m] = Undef THEN t.jobs[m] ELSE t.jobs[m] \union {o.jobs[m]}
    BY <1>0, <1>2 DEF Applied, Added
  <2>. QED
    BY <2>1 DEF Book!Leaves
<1>3. CASE o.name = "modify"
  <2>1. Applied(t, o, f).past = t.past
        /\ Applied(t, o, f).jobs[m] =
              IF o.jobs[m] = Undef \/ ~IsMember(t, m) THEN t.jobs[m] ELSE {o.jobs[m]}
    BY <1>0, <1>3 DEF Applied, Modified
  <2>. QED
    BY <2>1 DEF Book!Leaves
<1>4. CASE o.name = "remove"
  <2>. DEFINE gone == {x \in Members : o.jobs[x] # Undef}
  <2>1. Applied(t, o, f) = Without(t, gone, f) /\ gone \in SUBSET Members
    BY <1>4 DEF Applied
  <2>2. Book!Leaves(t, Without(t, gone, f), m)
    <3>. HIDE DEF gone
    <3>. QED
      BY <2>1, WithoutLeaves
  <2>. QED
    BY <2>1, <2>2
<1>. QED
  BY <1>1, <1>2, <1>3, <1>4 DEF OfTeam

-----------------------------------------------------------------------------
(* What a step of one request disturbs *)

\* The rows that request s is about are as they were.
Undisturbed(s) ==
    /\ pc[s] = "insert" => my[s].id \notin IdsUsed'
    /\ HasTeam(s) /\ op[s].id # 0 =>
          /\ Found(op[s].id)' = Found(op[s].id)
          /\ \A w \in Found(op[s].id) : teams'[w] = teams[w]

\* Requests go on, and none comes in.
LEMMA StaysReady ==
    ASSUME BookInv, IInv', op' = op, TeamsFound',
           \A s \in Requests : Active(s)' =>
              /\ Active(s)
              /\ Ready(s)' \/ (pc'[s] = pc[s] /\ my'[s] = my[s] /\ Undisturbed(s))
    PROVE  BookInv'
<1>1. ApartKept'
  BY DEF BookInv, ApartKept
<1>2. ASSUME NEW s \in Requests PROVE Ready(s)'
  <2>1. CASE ~Active(s)'
    BY <2>1 DEF Ready, Active, Ended
  <2>2. CASE pc'[s] = pc[s] /\ my'[s] = my[s] /\ Undisturbed(s)
    <3>1. Ready(s)
      BY DEF BookInv
    <3>2. HasTeam(s) /\ op[s].id # 0 =>
            \A w : Found(op[s].id) = {w} => Found(op[s].id)' = {w} /\ teams'[w] = teams[w]
      BY <2>2 DEF Undisturbed
    <3>. QED
      BY <2>2, <3>1, <3>2 DEF Ready, Undisturbed, HasTeam
  <2>. QED
    BY <2>1, <2>2
<1>. QED
  BY <1>1, <1>2 DEF BookInv

\* The collection is left alone.
LEMMA SameTeams ==
    ASSUME BookInv, teams' = teams
    PROVE  TeamsFound' /\ Records' = Records /\ \A s \in Requests : op' = op => Undisturbed(s)
<1>1. IdsUsed' = IdsUsed /\ \A i : Found(i)' = Found(i)
  BY DEF IdsUsed, Found
<1>2. TeamsFound'
  BY <1>1 DEF BookInv, TeamsFound
<1>3. Records' = Records
  BY DEF Records
<1>4. \A s \in Requests : op' = op => Undisturbed(s)
  BY <1>1 DEF BookInv, Undisturbed, Ready
<1>. QED
  BY <1>2, <1>3, <1>4

\* One row changes.
LEMMA OneRow ==
    ASSUME TypeOK, NEW w \in Slots, NEW t, teams' = [teams EXCEPT ![w] = t]
    PROVE  /\ Records[w] = View(teams[w]) /\ Records'[w] = View(t)
           /\ Records' = [Records EXCEPT ![w] = Records'[w]]
<1>1. \A x \in Slots : teams'[x] = IF x = w THEN t ELSE teams[x]
  BY DEF TypeOK
<1>2. Records = [x \in Slots |-> View(teams[x])] /\ Records' = [x \in Slots |-> View(teams'[x])]
  BY DEF Records, View
<1>3. \A x \in Slots \ {w} : Records'[x] = Records[x]
  BY <1>1, <1>2
<1>4. Records[w] = View(teams[w]) /\ Records'[w] = View(t)
  BY <1>1, <1>2
<1>. QED
  BY <1>2, <1>3, <1>4

LEMMA ViewOK ==
    ASSUME NEW t \in Teams
    PROVE  View(t) # Undef /\ View(t).jobs = t.jobs /\ View(t).past = t.past
<1>1. t # Undef /\ View(t) = [jobs |-> t.jobs, past |-> t.past]
  BY TeamsOK DEF View
<1>2. View(t) \in [jobs : [Members -> SUBSET Jobs], past : [Members -> [Jobs -> Nat]]]
  BY <1>1 DEF Teams
<1>. QED
  BY <1>1, <1>2, TeamsOK

\* Request r goes on at label.
LEMMA GoesReady ==
    ASSUME BookInv, IInv', NEW r \in Requests, Active(r), NEW label, NEW t, Goes(r, label, t),
           TeamsFound', label \notin Ended => Ready(r)',
           \A s \in Requests \ {r} : Active(s) => Undisturbed(s)
    PROVE  BookInv'
<1>1. pc \in [Requests -> Labels] /\ my \in [Requests -> Teams \union {Undef}]
  BY DEF BookInv, IInv, TypeOK
<1>2. op' = op /\ pc' = [pc EXCEPT ![r] = label]
      /\ \A s \in Requests \ {r} : my'[s] = my[s]
  BY <1>1 DEF Goes
<1>3. \A s \in Requests \ {r} : pc'[s] = pc[s] /\ my'[s] = my[s] /\ (Active(s)' <=> Active(s))
  BY <1>1, <1>2 DEF Active
<1>4. Active(r)' => Ready(r)'
  BY <1>1, <1>2 DEF Active
<1>. QED
  BY <1>2, <1>3, <1>4, StaysReady

\* ... and leaves the collection alone.
LEMMA GoesQuietly ==
    ASSUME BookInv, IInv', NEW r \in Requests, Active(r), NEW label, NEW t, Goes(r, label, t),
           teams' = teams, label \notin Ended => Ready(r)'
    PROVE  BookInv' /\ Records' = Records
<1>1. op' = op
  BY DEF Goes
<1>. QED
  BY <1>1, SameTeams, GoesReady

-----------------------------------------------------------------------------
(* The steps *)

LEMMA ArriveBook ==
    ASSUME RecordsApart, BookInv, IInv', NEW r \in Requests, Arrive(r)
    PROVE  BookInv' /\ Records' = Records
<1>1. PICK o \in Given.menu :
          /\ \A s \in Requests : Active(s) /\ op[s].id = o.id =>
                <<o.name, op[s].name>> \notin Given.apart /\ <<op[s].name, o.name>> \notin Given.apart
          /\ op' = [op EXCEPT ![r] = o]
          /\ pc' = [pc EXCEPT ![r] = Start(o.name)]
  BY DEF Arrive
<1>2. /\ pc \in [Requests -> Labels] /\ op \in [Requests -> Ops \union {Undef}]
      /\ given \in DOMAIN Conditions /\ o \in Ops
  BY GivenOK DEF BookInv, IInv, TypeOK
<1>3. my' = my /\ teams' = teams /\ pc[r] = "idle"
      /\ (Given.quiet => \A s \in Requests : ~Active(s))
  BY DEF Arrive
<1>4. pc'[r] = Start(o.name) /\ op'[r] = o /\ Start(o.name) \in {"newid", "get", "tell"}
  BY <1>1, <1>2 DEF Start, Ops, OpNames
<1>5. \A s \in Requests \ {r} : pc'[s] = pc[s] /\ op'[s] = op[s] /\ (Active(s)' <=> Active(s))
  BY <1>1, <1>2 DEF Active
<1>6. \A s \in Requests : Active(s) => ~Rivals(o, op[s]) /\ ~Rivals(op[s], o)
  <2>. SUFFICES ASSUME NEW s \in Requests, Active(s) PROVE ~Rivals(o, op[s]) /\ ~Rivals(op[s], o)
    OBVIOUS
  <2>1. (OfTeam \X OfTeam) \union {<<"create", "create">>} \subseteq Given.apart
    BY <1>2, <1>3 DEF RecordsApart, Given
  <2>. QED
    BY <1>1, <2>1 DEF Rivals
<1>7. ApartKept'
  <2>. SUFFICES ASSUME NEW s \in Requests, NEW q \in Requests, s # q, Active(s)', Active(q)'
                PROVE  ~Rivals(op'[s], op'[q])
    BY DEF ApartKept, Rivals
  <2>1. CASE s # r /\ q # r
    BY <1>5, <2>1 DEF BookInv, ApartKept
  <2>2. CASE s = r
    BY <1>4, <1>5, <1>6, <2>2
  <2>3. CASE q = r
    BY <1>4, <1>5, <1>6, <2>3
  <2>. QED
    BY <2>1, <2>2, <2>3
<1>8. IdsUsed' = IdsUsed /\ \A i : Found(i)' = Found(i)
  BY <1>3 DEF IdsUsed, Found
<1>9. \A s \in Requests : Ready(s)'
  <2>. SUFFICES ASSUME NEW s \in Requests PROVE Ready(s)'
    OBVIOUS
  <2>1. CASE s = r
    BY <1>4, <2>1 DEF Ready
  <2>2. CASE s # r
    <3>1. Ready(s) /\ pc'[s] = pc[s] /\ op'[s] = op[s]
      BY <1>5, <2>2 DEF BookInv
    <3>2. Found(op[s].id)' = Found(op[s].id)
      BY <1>3, <3>1 DEF Found
    <3>. QED
      BY <1>3, <1>8, <3>1, <3>2 DEF Ready
  <2>. QED
    BY <2>1, <2>2
<1>10. TeamsFound' /\ Records' = Records
  BY <1>3, SameTeams
<1>. QED
  BY <1>7, <1>9, <1>10 DEF BookInv

LEMMA FailBook ==
    ASSUME BookInv, IInv', NEW r \in Requests, Fail(r)
    PROVE  BookInv' /\ Records' = Records
<1>1. PICK label \in Ended : Goes(r, label, my[r])
  BY DEF Fail, Goto, Ended
<1>. QED
  BY <1>1, GoesQuietly DEF Fail

\* The steps of a request that read.
LEMMA ReadBook ==
    ASSUME BookInv, IInv', NEW r \in Requests,
           NewID(r) \/ Names(r) \/ Get(r) \/ LookForMember(r) \/ TellOfMember(r)
    PROVE  BookInv' /\ Records' = Records
<1>0. pc \in [Requests -> Labels] /\ my \in [Requests -> Teams \union {Undef}]
      /\ teams \in [Slots -> Teams \union {Undef}]
  BY DEF BookInv, IInv, TypeOK
<1>1. CASE NewID(r)
  <2>1. PICK n \in 1..MaxId : IsNextId(n) /\ Goes(r, "insert", NewTeam(n, op[r].lead))
    BY <1>1 DEF NewID
  <2>2. pc'[r] = "insert" /\ my'[r] = NewTeam(n, op[r].lead) /\ teams' = teams
    BY <1>0, <1>1, <2>1 DEF Goes, NewID, Ended
  <2>3. n \notin IdsUsed /\ IdsUsed' = IdsUsed
    <3>1. \A i \in IdsUsed : i < n
      BY <2>1 DEF IsNextId
    <3>2. ~(n < n)
      OBVIOUS
    <3>. QED
      BY <2>2, <3>1, <3>2 DEF IdsUsed
  <2>4. Ready(r)'
    BY <2>2, <2>3 DEF Ready, NewTeam
  <2>. QED
    BY <1>1, <2>1, <2>2, <2>4, GoesQuietly DEF NewID, Active, Ended
<1>2. CASE Names(r)
  BY <1>2, GoesQuietly DEF Names, Goto, Active, Ended
<1>3. CASE Get(r)
  <2>. DEFINE i == op[r].id
              next == IF op[r].name = "add" THEN "member" ELSE "apply"
  <2>1. teams' = teams /\ op' = op /\ Found(i)' = Found(i) /\ Active(r)
    BY <1>3 DEF Get, Goes, Goto, Found, Active, Ended
  <2>2. CASE i = 0 /\ Goes(r, next, Staff)
    <3>1. Ready(r)'
      BY <1>0, <2>1, <2>2 DEF Goes, Ready
    <3>. QED
      BY <2>1, <2>2, <3>1, GoesQuietly
  <2>3. CASE \E w \in Slots : Found(i) = {w} /\ Goes(r, next, teams[w])
    <3>1. PICK w \in Slots : Found(i) = {w} /\ Goes(r, next, teams[w])
      BY <2>3
    <3>2. pc'[r] = next /\ my'[r] = teams[w]
      BY <1>0, <3>1 DEF Goes, Ended
    <3>3. Ready(r)'
      BY <2>1, <3>1, <3>2 DEF Ready
    <3>. QED
      BY <2>1, <3>1, <3>3, GoesQuietly
  <2>4. CASE Goto(r, "failed")
    BY <2>1, <2>4, GoesQuietly DEF Goto, Ended
  <2>. QED
    BY <1>3, <2>2, <2>3, <2>4 DEF Get
<1>4. CASE LookForMember(r)
  <2>1. teams' = teams /\ op' = op /\ Found(op[r].id)' = Found(op[r].id) /\ Active(r)
        /\ Goes(r, "apply", my[r]) /\ pc[r] = "member"
    BY <1>4 DEF LookForMember, Goes, Goto, Found, Active, Ended
  <2>2. pc'[r] = "apply" /\ my'[r] = my[r]
    BY <1>0, <2>1 DEF Goes, Ended
  <2>3. Ready(r)'
    BY <2>1, <2>2 DEF BookInv, Ready
  <2>. QED
    BY <2>1, <2>3, GoesQuietly
<1>5. CASE TellOfMember(r)
  BY <1>5, GoesQuietly DEF TellOfMember, Goto, Active, Ended
<1>. QED
  BY <1>1, <1>2, <1>3, <1>4, <1>5

LEMMA ApplyBook ==
    ASSUME BookInv, IInv', NEW r \in Requests, Apply(r)
    PROVE  BookInv' /\ Records' = Records
<1>0. /\ pc \in [Requests -> Labels] /\ my \in [Requests -> Teams \union {Undef}]
      /\ teams' = teams /\ pc[r] = "apply" /\ Active(r) /\ Ready(r) /\ my[r] \in Teams
      /\ op[r] \in Ops /\ op[r].name \in OfTeam
  BY Asks DEF BookInv, IInv, TypeOK, Apply, Active, Ended, Control, HasTeam, Doers
<1>1. CASE op[r].name = "delete" /\ op[r].id = 0
  BY <1>0, <1>1, GoesQuietly DEF Apply, Goto, Ended
<1>2. CASE ~(op[r].name = "delete" /\ op[r].id = 0)
  <2>. DEFINE label == IF op[r].name = "delete" THEN "delete" ELSE "save"
  <2>1. PICK f \in [Members -> Jobs] :
          /\ \A m \in Members : IsMember(my[r], m) => f[m] \in my[r].jobs[m]
          /\ Goes(r, label, Applied(my[r], op[r], f))
    BY <1>2 DEF Apply
  <2>2. op' = op /\ Found(op[r].id)' = Found(op[r].id)
    BY <1>0, <2>1 DEF Goes, Found
  <2>3. Ready(r)'
    <3>1. CASE op[r].name = "delete"
      BY <1>0, <2>1, <3>1 DEF Goes, Ready
    <3>2. CASE op[r].name # "delete"
      <4>1. pc'[r] = "save" /\ my'[r] = Applied(my[r], op[r], f)
        BY <1>0, <2>1, <3>2 DEF Goes, Ended
      <4>2. \A m \in Members : Book!Leaves(my[r], my'[r], m)
        BY <1>0, <2>1, <3>2, <4>1, AppliedLeaves
      <4>3. op[r].id # 0 => \E w \in Slots : Found(op[r].id)' = {w} /\ teams'[w] = my[r]
        BY <1>0, <2>2 DEF Ready
      <4>. QED
        BY <2>2, <4>1, <4>2, <4>3 DEF Ready
    <3>. QED
      BY <3>1, <3>2
  <2>. QED
    BY <1>0, <2>1, <2>3, GoesQuietly
<1>. QED
  BY <1>1, <1>2

\* The steps that write.
LEMMA InsertBook ==
    ASSUME RecordsApart, BookInv, IInv', NEW r \in Requests, Insert(r)
    PROVE  BookInv' /\ Book!Next
<1>0. /\ pc \in [Requests -> Labels] /\ teams \in [Slots -> Teams \union {Undef}] /\ TypeOK
      /\ pc[r] = "insert" /\ Active(r) /\ Ready(r) /\ my[r] \in Teams
      /\ op[r].name = "create" /\ op[r].id = 0
  <2>1. pc[r] = "insert" /\ Active(r)
    BY DEF Insert, Active, Ended
  <2>2. op[r].name = "create" /\ op[r] \in Given.menu /\ my[r] \in Teams
    BY <2>1, Asks DEF BookInv, IInv, Control, Doers
  <2>3. op[r].id = 0
    BY <2>2 DEF RecordsApart, Given, BookInv, IInv, TypeOK
  <2>. QED
    BY <2>1, <2>2, <2>3 DEF BookInv, IInv, TypeOK
<1>1. PICK w \in Slots : teams[w] = Undef /\ teams' = [teams EXCEPT ![w] = my[r]]
  BY DEF Insert
<1>2. \A x \in Slots : teams'[x] = IF x = w THEN my[r] ELSE teams[x]
  BY <1>0, <1>1
<1>3. \A x \in Slots : teams[x] # Undef => teams[x].id # my[r].id
  BY <1>0 DEF Ready, IdsUsed
<1>4. my[r] # Undef
  BY <1>0, TeamsOK
<1>5. \A i : i # my[r].id => Found(i)' = Found(i)
  BY <1>1, <1>2 DEF Found
<1>6. TeamsFound'
  <2>. SUFFICES ASSUME NEW x \in Slots, teams'[x] # Undef
                PROVE  \A y \in Slots : teams'[y] # Undef /\ teams'[y].id = teams'[x].id <=> y = x
    BY DEF TeamsFound, Found
  <2>1. \A y, z \in Slots : teams[y] # Undef /\ teams[z] # Undef /\ teams[y].id = teams[z].id => y = z
    BY DEF BookInv, TeamsFound, Found
  <2>. QED
    BY <1>2, <1>3, <2>1
<1>7. ASSUME NEW s \in Requests \ {r}, Active(s) PROVE Undisturbed(s)
  <2>1. pc[s] # "insert"
    <3>. SUFFICES ASSUME pc[s] = "insert" PROVE FALSE
      OBVIOUS
    <3>1. op[s].name = "create" /\ op[s] \in Given.menu
      BY <1>7, Asks DEF BookInv, IInv, Control, Doers
    <3>2. op[s].id = 0
      BY <3>1 DEF RecordsApart, Given, BookInv, IInv, TypeOK
    <3>. QED
      BY <1>0, <1>7, <3>1, <3>2 DEF BookInv, ApartKept, Rivals
  <2>2. ASSUME HasTeam(s), op[s].id # 0
        PROVE  Found(op[s].id)' = Found(op[s].id) /\ \A x \in Found(op[s].id) : teams'[x] = teams[x]
    <3>1. PICK x \in Slots : Found(op[s].id) = {x}
      BY <2>2 DEF BookInv, Ready, HasTeam
    <3>2. teams[x] # Undef /\ teams[x].id = op[s].id
      BY <3>1 DEF Found
    <3>3. op[s].id # my[r].id /\ op' = op
      BY <1>3, <3>2 DEF Insert, Goto, Goes
    <3>4. Found(op[s].id)' = Found(op[s].id)
      BY <1>1, <1>2, <3>3 DEF Found
    <3>. QED
      BY <1>1, <1>2, <3>1, <3>2, <3>4
  <2>. QED
    BY <2>1, <2>2 DEF Undisturbed
<1>8. BookInv'
  <2>1. Goes(r, "names", my[r])
    BY DEF Insert, Goto
  <2>2. Ready(r)'
    <3>1. pc'[r] = "names"
      BY <1>0, <2>1 DEF Goes
    <3>. QED
      BY <3>1 DEF Ready
  <2>. QED
    BY <1>0, <1>6, <1>7, <2>1, <2>2, GoesReady
<1>9. Records[w] = Undef
  <2>1. Records[w] = View(teams[w])
    BY <1>0, <1>1, OneRow
  <2>. QED
    BY <1>1, <2>1 DEF View
<1>10. Records'[w] = [jobs |-> [m \in Members |-> {}], past |-> [m \in Members |-> [j \in Jobs |-> 0]]]
  <2>1. Records'[w] = View(my[r])
    BY <1>0, <1>1, OneRow
  <2>2. View(my[r]) = [jobs |-> my[r].jobs, past |-> my[r].past]
    BY <1>4 DEF View
  <2>. QED
    BY <1>0, <2>1, <2>2 DEF Ready
<1>11. Records' = [Records EXCEPT ![w] = Records'[w]]
  BY <1>0, <1>1, OneRow
<1>12. Book!Next
  BY <1>9, <1>10, <1>11 DEF Book!Next, Book!Found
<1>. QED
  BY <1>8, <1>12

\* The other requests are about other teams, when r writes the row of its own.
LEMMA OthersUndisturbed ==
    ASSUME BookInv, NEW r \in Requests, Active(r), op[r].name \in OfTeam, op' = op,
           NEW w \in Slots, Found(op[r].id) = {w}, NEW t \in Teams \union {Undef},
           t # Undef => t.id = op[r].id, teams' = [teams EXCEPT ![w] = t],
           NEW s \in Requests \ {r}, Active(s)
    PROVE  Undisturbed(s)
<1>0. teams \in [Slots -> Teams \union {Undef}] /\ teams[w] # Undef /\ teams[w].id = op[r].id
  BY DEF BookInv, IInv, TypeOK, Found
<1>1. \A x \in Slots : teams'[x] = IF x = w THEN t ELSE teams[x]
  BY <1>0
<1>2. IdsUsed' \subseteq IdsUsed
  BY <1>0, <1>1 DEF IdsUsed
<1>3. pc[s] = "insert" => my[s].id \notin IdsUsed'
  BY <1>2 DEF BookInv, Ready
<1>4. ASSUME HasTeam(s)
      PROVE  Found(op[s].id)' = Found(op[s].id) /\ \A x \in Found(op[s].id) : teams'[x] = teams[x]
  <2>1. op[s].name \in OfTeam
    BY <1>4 DEF BookInv, IInv, Control, HasTeam, Doers, OfTeam
  <2>2. op[s].id # op[r].id
    BY <2>1 DEF BookInv, ApartKept, Rivals
  <2>3. \A x \in Slots : teams'[x] # Undef /\ teams'[x].id = op[s].id <=>
                         teams[x] # Undef /\ teams[x].id = op[s].id
    BY <1>0, <1>1, <2>2
  <2>4. Found(op[s].id)' = Found(op[s].id)
    BY <2>3 DEF Found
  <2>. QED
    BY <1>0, <1>1, <2>2, <2>4 DEF Found
<1>. QED
  BY <1>3, <1>4 DEF Undisturbed

LEMMA StillFound ==
    ASSUME BookInv, NEW w \in Slots, NEW t \in Teams \union {Undef}, teams[w] # Undef,
           t # Undef => t.id = teams[w].id, teams' = [teams EXCEPT ![w] = t]
    PROVE  TeamsFound'
<1>0. teams \in [Slots -> Teams \union {Undef}]
  BY DEF BookInv, IInv, TypeOK
<1>1. \A x \in Slots : teams'[x] = IF x = w THEN t ELSE teams[x]
  BY <1>0
<1>. SUFFICES ASSUME NEW x \in Slots, teams'[x] # Undef
              PROVE  \A y \in Slots : teams'[y] # Undef /\ teams'[y].id = teams'[x].id <=> y = x
  BY DEF TeamsFound, Found
<1>2. \A y, z \in Slots : teams[y] # Undef /\ teams[z] # Undef /\ teams[y].id = teams[z].id => y = z
  BY DEF BookInv, TeamsFound, Found
<1>. QED
  BY <1>1, <1>2

LEMMA SaveBook ==
    ASSUME BookInv, IInv', NEW r \in Requests, Save(r)
    PROVE  BookInv' /\ [Book!Next]_Records
<1>0. /\ pc[r] = "save" /\ Active(r) /\ Ready(r) /\ my[r] \in Teams /\ my[r].id = op[r].id /\ TypeOK
      /\ op[r].name \in OfTeam /\ teams \in [Slots -> Teams \union {Undef}]
  BY DEF BookInv, IInv, TypeOK, Save, Active, Ended, Control, HasTeam, Doers
<1>1. PICK label \in Ended : Goes(r, label, my[r])
  BY DEF Save, Goto, Ended
<1>2. CASE op[r].id = 0
  BY <1>0, <1>1, <1>2, GoesQuietly DEF Save
<1>3. CASE op[r].id # 0
  <2>1. PICK w \in Slots : Found(op[r].id) = {w} /\ \A m \in Members : Book!Leaves(teams[w], my[r], m)
    BY <1>0, <1>3 DEF Ready
  <2>2. teams[w] \in Teams /\ teams[w].id = op[r].id /\ teams[w] # Undef /\ my[r] # Undef
    BY <1>0, <2>1, TeamsOK DEF Found
  <2>3. teams' = [teams EXCEPT ![w] = my[r]]
    <3>1. teams' = [x \in Slots |-> IF x \in {w} THEN my[r] ELSE teams[x]]
      BY <1>3, <2>1 DEF Save, Saved
    <3>. QED
      BY <1>0, <3>1
  <2>4. TeamsFound'
    BY <1>0, <2>2, <2>3, StillFound
  <2>5. op' = op
    BY <1>1 DEF Goes
  <2>6. \A s \in Requests \ {r} : Active(s) => Undisturbed(s)
    BY <1>0, <2>1, <2>3, <2>5, OthersUndisturbed
  <2>7. BookInv'
    BY <1>0, <1>1, <2>4, <2>6, GoesReady
  <2>8. Records[w] = View(teams[w]) /\ Records'[w] = View(my[r])
        /\ Records' = [Records EXCEPT ![w] = Records'[w]]
    BY <1>0, <2>3, OneRow
  <2>9. Book!Change(w)
    <3>1. Records[w] # Undef /\ Records'[w] # Undef
      BY <1>0, <2>2, <2>8, ViewOK
    <3>2. Records[w].jobs = teams[w].jobs /\ Records[w].past = teams[w].past
          /\ Records'[w].jobs = my[r].jobs /\ Records'[w].past = my[r].past
      BY <1>0, <2>2, <2>8, ViewOK
    <3>3. \A m \in Members : Book!Leaves(Records[w], Records'[w], m)
      BY <2>1, <3>2 DEF Book!Leaves
    <3>. QED
      BY <3>1, <3>3 DEF Book!Change
  <2>. QED
    BY <2>7, <2>8, <2>9 DEF Book!Next
<1>. QED
  BY <1>2, <1>3

LEMMA DeleteBook ==
    ASSUME BookInv, IInv', NEW r \in Requests, Delete(r)
    PROVE  BookInv' /\ [Book!Next]_Records
<1>0. /\ Active(r) /\ TypeOK /\ teams \in [Slots -> Teams \union {Undef}] /\ op[r].name \in OfTeam
      /\ Goes(r, "done", my[r]) /\ op' = op
  BY DEF BookInv, IInv, TypeOK, Delete, Active, Ended, Control, Doers, OfTeam, Goto, Goes
<1>1. teams' = [x \in Slots |-> IF x \in Found(op[r].id) THEN Undef ELSE teams[x]]
  BY DEF Delete
<1>2. CASE Found(op[r].id) = {}
  <2>1. teams' = teams
    BY <1>0, <1>1, <1>2
  <2>. QED
    BY <1>0, <2>1, GoesQuietly DEF Ended
<1>3. CASE Found(op[r].id) # {}
  <2>1. PICK w \in Slots : Found(op[r].id) = {w} /\ teams[w] # Undef
    <3>1. PICK w \in Found(op[r].id) : TRUE
      BY <1>3
    <3>2. w \in Slots /\ teams[w] # Undef /\ teams[w].id = op[r].id
      BY <3>1 DEF Found
    <3>. QED
      BY <3>2 DEF BookInv, TeamsFound
  <2>2. teams' = [teams EXCEPT ![w] = Undef]
    BY <1>0, <1>1, <2>1
  <2>3. TeamsFound'
    BY <2>1, <2>2, StillFound
  <2>4. \A s \in Requests \ {r} : Active(s) => Undisturbed(s)
    BY <1>0, <2>1, <2>2, OthersUndisturbed
  <2>5. BookInv'
    BY <1>0, <2>3, <2>4, GoesReady DEF Ended
  <2>6. Records[w] = View(teams[w]) /\ Records'[w] = View(Undef)
        /\ Records' = [Records EXCEPT ![w] = Records'[w]]
    BY <1>0, <2>2, OneRow
  <2>7. Records[w] # Undef /\ Records'[w] = Undef
    BY <1>0, <2>1, <2>6, ViewOK DEF View
  <2>. QED
    BY <2>5, <2>6, <2>7 DEF Book!Next, Book!Disband
<1>. QED
  BY <1>2, <1>3

\* The bot does not touch the collection, and its end only ends requests.
LEMMA BotBook ==
    ASSUME BookInv, IInv', NEW t \in tasks, Work(t) \/ SetupFails(t) \/ Crash(t)
    PROVE  BookInv' /\ Records' = Records
<1>1. teams' = teams /\ op' = op
  BY DEF Work, Find, Make, Read, Write, ReadTeams, Queue, TakeTurn, Clear, SetupFails, Crash
<1>2. ASSUME NEW s \in Requests, Active(s)' PROVE Active(s) /\ pc'[s] = pc[s] /\ my'[s] = my[s]
  <2>1. CASE UNCHANGED <<pc, my>>
    BY <1>2, <2>1 DEF Active
  <2>2. CASE Crash(t)
    <3>1. pc'[s] = (IF Active(s) /\ s \notin Given.away THEN "failed" ELSE pc[s])
          /\ my'[s] = (IF s \in Given.away THEN my[s] ELSE Undef)
      BY <2>2 DEF Crash
    <3>. QED
      BY <1>2, <3>1 DEF Active, Ended
  <2>. QED
    BY <2>1, <2>2 DEF Work, Find, Make, Read, Write, ReadTeams, Queue, TakeTurn, Clear, SetupFails
<1>. QED
  BY <1>1, <1>2, SameTeams, StaysReady

-----------------------------------------------------------------------------
(* The theorems *)

LEMMA InitBook == RecordsApart /\ Init => BookInv /\ Book!Init
<1>. SUFFICES ASSUME RecordsApart, Init PROVE BookInv /\ Book!Init
  OBVIOUS
<1>1. IInv
  BY InitOK
<1>2. TeamsFound
  BY DEF Init, RecordsApart, TeamsFound, Found
<1>3. ApartKept /\ \A r \in Requests : Ready(r)
  BY DEF Init, ApartKept, Ready, Active
<1>4. Book!Init
  <2>1. \A t \in Teams \union {Undef} :
          View(t) \in [jobs : [Members -> SUBSET Jobs], past : [Members -> [Jobs -> Nat]]] \union {Undef}
    BY DEF View, Teams
  <2>. QED
    BY <1>1, <2>1 DEF IInv, TypeOK, Records, Book!Init
<1>. QED
  BY <1>1, <1>2, <1>3, <1>4 DEF BookInv

LEMMA NextBook == RecordsApart /\ BookInv /\ [Next]_vars => BookInv' /\ [Book!Next]_Records
<1>. SUFFICES ASSUME RecordsApart, BookInv, [Next]_vars PROVE BookInv' /\ [Book!Next]_Records
  OBVIOUS
<1>1. IInv'
  BY NextOK DEF BookInv
<1>2. CASE UNCHANGED vars
  <2>1. teams' = teams /\ op' = op /\ pc' = pc /\ my' = my
    BY <1>2 DEF vars
  <2>2. \A s \in Requests : Active(s)' => Active(s)
    BY <2>1 DEF Active
  <2>. QED
    BY <1>1, <2>1, <2>2, SameTeams, StaysReady
<1>3. ASSUME NEW r \in Requests, Arrive(r) \/ Step(r) \/ Fail(r) PROVE BookInv' /\ [Book!Next]_Records
  BY <1>1, <1>3, ArriveBook, FailBook, ReadBook, ApplyBook, InsertBook, SaveBook, DeleteBook DEF Step
<1>4. ASSUME NEW t \in tasks, Work(t) \/ SetupFails(t) \/ Crash(t) PROVE BookInv' /\ [Book!Next]_Records
  BY <1>1, <1>4, BotBook
<1>. QED
  BY <1>2, <1>3, <1>4 DEF Next, Rest

\* Where creations and changes of one team do not overlap, getTeam finds every team
\* that is stored.
THEOREM TeamsReached == ASSUME RecordsApart PROVE Spec => []TeamsFound
<1>1. BookInv => TeamsFound
  BY DEF BookInv
<1>. QED
  BY <1>1, InitBook, NextBook, PTL DEF Spec

\* Where creations and changes of one team do not overlap, whoever leaves a team is
\* written into its history once, with a job that he had, whatever fails and
\* whatever the bot does: the collection Teams implements TeamBook.
THEOREM TeamBookImplemented == ASSUME RecordsApart PROVE Spec => ImplementsTeamBook
<1>1. Book!Spec <=> Book!Init /\ [][Book!Next]_Records
  BY DEF Book!Spec
<1>. QED
  BY <1>1, InitBook, NextBook, PTL DEF Spec, ImplementsTeamBook

-----------------------------------------------------------------------------
(* The roles of the members *)

\* Whom o has on its list.
Enlisted(o) == {m \in Members : o.jobs[m] # Undef}

\* Whoever may be on the list of a team, and whoever may lead one, with condition c.
MayJoin(c, m) ==
    \/ \E f \in First, w \in Slots : f[w] # Undef /\ f[w].jobs[m] # {}
    \/ \E o \in c.menu : o.name \in {"set", "add"} /\ m \in Enlisted(o)
MayLead(c, m) ==
    \/ \E f \in First, w \in Slots : f[w] # Undef /\ f[w].lead = m
    \/ \E o \in c.menu : o.name = "set" /\ o.lead = m

\* Where requests wait for each other: nothing fails, the Discord server has its
\* roles, a team is created empty, and who comes to a team comes alone.  Where teams
\* are deleted nobody is both on a list and a leader: whoever is both keeps the role
\* of a member.
RolesCalm ==
    \A i \in DOMAIN Conditions : Conditions[i].quiet =>
        LET c == Conditions[i] IN
        /\ c.failing = {} /\ c.away = {} /\ ~c.fresh
        /\ \A o \in c.menu :
              /\ o.name = "create" => Enlisted(o) = {} /\ o.lead \notin Members
              /\ o.name \in {"set", "add"} =>
                    \A m, n \in Members : {m, n} \subseteq Enlisted(o) \union {o.lead} => m = n
              /\ o.name = "delete" => \A m \in Members : ~(MayJoin(c, m) /\ MayLead(c, m))

\* What team t says of m.
Says(t, m, k) == IF k = "lead" THEN IsLeader(t, m) ELSE IsPart(t, m)
Stored(m, k, i) == \E w \in Found(i) : Says(teams[w], m, k)

\* What the stored teams will say when the request that has told the bot is done.
Changing(i) == {r \in Requests : pc[r] \in {"save", "delete"} /\ op[r].id = i}
Due(m, k, i) ==
    IF Changing(i) = {} THEN Stored(m, k, i)
    ELSE \E r \in Changing(i) : pc[r] = "save" /\ Says(my[r], m, k)

\* Where handler t leaves its member.
Got(t, k) ==
    IF t.kind = "add"
    THEN k = "member" \/ t.lead \/ Holds(t.who, k, t.now)
    ELSE Holds(t.who, k, t.now) /\ (IF k = "lead" THEN t.lead ELSE t.part)

\* n is a role of the teams, and of several alike the first.
Role(n, k, i) == n \in 1..Len(guild) /\ guild[n] = <<k, i>>
FirstRole(n) == \A k \in Kinds, i \in 1..MaxId : guild[n] = <<k, i>> => n = Lowest(k, i)

\* One request at a time, and nobody to wait for before the bot has been told.
InTurn ==
    /\ up
    /\ \A r, s \in Requests : (Active(r) \/ Busy(r)) /\ (Active(s) \/ Busy(s)) => r = s
    /\ \A r \in Requests : Active(r) =>
          /\ pc[r] \notin {"save", "delete"} => tasks = {}
          /\ \A t \in tasks : t.kind # "setup"
    /\ \A t, u \in tasks : t.kind = "setup" => u.kind = "setup"
    /\ \A t, u \in tasks : t.who = u.who /\ t.who \notin crossed => t = u

\* A handler for a member of one team.
ChangeOK(t) ==
    /\ t.at \in {"find", "make", "read", "write"}
    /\ t.at = "find" => t.left = {t.now}
    /\ t.at \in {"read", "write"} => t.make = {}
    /\ t.at = "make" => t.make # {}
    /\ t.at # "find" => \A k \in Kinds \ t.make :
          Role(t.has[k], k, t.now) /\ (t.who \notin crossed => FirstRole(t.has[k]))
    /\ t.who \notin crossed =>
          /\ t.at = "make" /\ t.now # 0 => \A k \in t.make : Lowest(k, t.now) = 0
          /\ t.at = "write" => t.mine = NewRoles(t)

\* A set-up: what it has found so far.
SetupOK(t) ==
    /\ t.at \in {"teams", "queue", "wait", "find", "make", "clear", "write"}
    /\ t.at \in {"teams", "queue", "wait"} => t.mine = {}
    /\ t.at \in {"clear", "write"} => t.left = {}
    /\ t.at = "make" => t.now = 0 /\ t.make # {} /\ \A k \in Kinds \ t.make : Role(t.has[k], k, 0)
    /\ t.at # "teams" =>
          /\ \A i \in t.left : Stored(t.who, "member", i)
          /\ t.at \notin {"clear", "write"} => \A i \in 0..MaxId : i \in t.leads <=> Stored(t.who, "lead", i)
          /\ \A n \in t.mine : n \in 1..Len(guild) /\ FirstRole(n)
          /\ \A k \in Kinds, i \in 1..MaxId :
                (\E n \in t.mine : guild[n] = <<k, i>>) <=> i \notin t.left /\ Stored(t.who, k, i)

HandlersOK == \A t \in tasks : IF t.kind = "setup" THEN SetupOK(t) ELSE ChangeOK(t)

\* Whoever no handler is busy with has his roles, and whoever one is busy with will.
RolesOK ==
    \A m \in Members \ crossed :
        /\ \A n \in roles[m] : n \in 1..Len(guild) /\ FirstRole(n)
        /\ \A k \in Kinds, i \in 1..MaxId :
              /\ (\A t \in tasks : t.who = m => t.kind # "setup" /\ t.now # i)
                    => (Holds(m, k, i) <=> Due(m, k, i))
              /\ \A t \in tasks : t.who = m /\ t.kind # "setup" /\ t.now = i
                    => (Got(t, k) <=> Due(m, k, i))

\* A team that somebody is part of has both roles, or is about to have them.
Making(t, i) == t.kind # "setup" /\ t.now = i /\ t.at \in {"find", "make"}
Marked ==
    \A i \in 1..MaxId, k \in Kinds, m \in Members, j \in Kinds :
        Due(m, k, i) => Lowest(j, i) # 0 \/ \E t \in tasks : Making(t, i)

\* Where a role is missing there is one handler to make it.
MadeAlone ==
    \A t \in tasks : t.kind # "setup" /\ t.who \notin crossed /\ t.at \in {"find", "make"} /\ t.now # 0
        => (\A k \in Kinds : Lowest(k, t.now) # 0) \/ tasks = {t}

\* Whoever is on a list, or leads, may.
Allowed(t) == \A m \in Members : /\ t.jobs[m] # {} => MayJoin(Given, m)
                                 /\ t.lead = m => MayLead(Given, m)
AllAllowed ==
    /\ \A w \in Slots : teams[w] # Undef => Allowed(teams[w])
    /\ \A r \in Requests :
          /\ pc[r] = "insert" => Allowed(my[r]) /\ my[r].lead \notin Members
          /\ pc[r] = "save" /\ op[r].id # 0 => Allowed(my[r])

AllInTurn == InTurn /\ HandlersOK /\ RolesOK /\ Marked /\ MadeAlone /\ AllAllowed
RolesInv == Given.quiet => AllInTurn

-----------------------------------------------------------------------------
(* The roles that there are *)

LEMMA SameRoles == ASSUME TypeOK, guild' = guild PROVE \A j, h : Lowest(j, h)' = Lowest(j, h)
<1>. SUFFICES ASSUME NEW j, NEW h PROVE Lowest(j, h)' = Lowest(j, h)
  OBVIOUS
<1>1. guild \in Seq(Kinds \X (0..MaxId)) /\ guild' \in Seq(Kinds \X (0..MaxId))
  BY DEF TypeOK
<1>2. Numbers(j, h)' = Numbers(j, h)
  BY DEF Numbers
<1>3. /\ Lowest(j, h) \in Nat
      /\ Lowest(j, h) = 0 <=> Numbers(j, h) = {}
      /\ Lowest(j, h) # 0 => Lowest(j, h) \in Numbers(j, h)
      /\ \A x \in Numbers(j, h) : Lowest(j, h) <= x
  BY <1>1, LowestIs
<1>4. /\ Lowest(j, h)' \in Nat
      /\ Lowest(j, h)' = 0 <=> Numbers(j, h)' = {}
      /\ Lowest(j, h)' # 0 => Lowest(j, h)' \in Numbers(j, h)'
      /\ \A x \in Numbers(j, h)' : Lowest(j, h)' <= x
  BY <1>1, LowestIsAfter
<1>. QED
  BY <1>2, <1>3, <1>4

\* The list of roles is the same, or has one more.
Grows(k, i) == guild' = guild \/ guild' = Append(guild, <<k, i>>)

LEMMA RolesGrow ==
    ASSUME TypeOK, NEW k \in Kinds, NEW i \in 0..MaxId, Grows(k, i)
    PROVE  /\ \A n \in 1..Len(guild) : n \in 1..Len(guild') /\ guild'[n] = guild[n]
           /\ \A j \in Kinds, h \in 0..MaxId : Lowest(j, h) # 0 => Lowest(j, h)' = Lowest(j, h)
           /\ \A j \in Kinds, h \in 0..MaxId :
                 Lowest(j, h) = 0 /\ Lowest(j, h)' # 0 => <<j, h>> = <<k, i>>
<1>1. guild \in Seq(Kinds \X (0..MaxId)) /\ Len(guild) \in Nat
  BY LenProperties DEF TypeOK
<1>2. CASE guild' = guild
  BY <1>2, SameRoles
<1>3. CASE guild' = Append(guild, <<k, i>>)
  <2>1. guild' \in Seq(Kinds \X (0..MaxId)) /\ Len(guild') = Len(guild) + 1
        /\ guild'[Len(guild) + 1] = <<k, i>>
        /\ \A n \in 1..Len(guild) : guild'[n] = guild[n]
    BY <1>1, <1>3, AppendProperties
  <2>2. \A n \in 1..Len(guild) : n \in 1..Len(guild')
    BY <1>1, <2>1
  <2>3. ASSUME NEW j \in Kinds, NEW h \in 0..MaxId
        PROVE  /\ Numbers(j, h) \subseteq Numbers(j, h)'
               /\ \A n \in Numbers(j, h)' \ Numbers(j, h) : n = Len(guild) + 1 /\ <<j, h>> = <<k, i>>
    BY SMTT(30), <1>1, <2>1, <2>2 DEF Numbers
  <2>4. ASSUME NEW j \in Kinds, NEW h \in 0..MaxId, Lowest(j, h) # 0
        PROVE  Lowest(j, h)' = Lowest(j, h)
    <3>1. Lowest(j, h) \in Numbers(j, h) /\ \A x \in Numbers(j, h) : Lowest(j, h) <= x
      BY <1>1, <2>4, LowestIs
    <3>2. /\ Lowest(j, h)' \in Nat /\ Lowest(j, h) \in Nat
          /\ Lowest(j, h)' # 0 => Lowest(j, h)' \in Numbers(j, h)'
          /\ Lowest(j, h)' = 0 <=> Numbers(j, h)' = {}
          /\ \A x \in Numbers(j, h)' : Lowest(j, h)' <= x
      <4>1. Lowest(j, h) \in Nat
        BY <1>1, LowestIs
      <4>2. guild' \in Seq(Kinds \X (0..MaxId))
        BY <2>1
      <4>. QED
        BY <4>1, <4>2, LowestIsAfter
    <3>3. Lowest(j, h) \in Numbers(j, h)' /\ Lowest(j, h) <= Len(guild)
      <4>1. Lowest(j, h) <= Len(guild)
        BY <1>1, <3>1 DEF Numbers
      <4>. QED
        BY <2>3, <3>1, <4>1
    <3>4. Lowest(j, h)' \in Numbers(j, h)' /\ Lowest(j, h)' <= Lowest(j, h)
      BY <3>2, <3>3
    <3>5. Lowest(j, h)' # Len(guild) + 1
      BY <1>1, <3>2, <3>3, <3>4
    <3>6. Lowest(j, h)' \in Numbers(j, h)
      BY <2>3, <3>4, <3>5
    <3>. QED
      BY <3>1, <3>2, <3>4, <3>6
  <2>5. ASSUME NEW j \in Kinds, NEW h \in 0..MaxId, Lowest(j, h) = 0, Lowest(j, h)' # 0
        PROVE  <<j, h>> = <<k, i>>
    <3>1. Numbers(j, h) = {}
      BY <1>1, <2>5, LowestIs
    <3>2. Numbers(j, h)' # {}
      BY <2>1, <2>5, LowestIsAfter
    <3>. QED
      BY <2>3, <3>1, <3>2
  <2>. QED
    BY <2>1, <2>2, <2>4, <2>5
<1>. QED
  BY <1>2, <1>3 DEF Grows

LEMMA FirstStays ==
    ASSUME TypeOK, NEW k \in Kinds, NEW i \in 0..MaxId, Grows(k, i),
           NEW n \in 1..Len(guild), FirstRole(n)
    PROVE  n \in 1..Len(guild') /\ guild'[n] = guild[n] /\ FirstRole(n)'
<1>1. n # 0
  <2>1. Len(guild) \in Nat
    BY LenProperties DEF TypeOK
  <2>. QED
    BY <2>1
<1>2. n \in 1..Len(guild') /\ guild'[n] = guild[n]
  BY RolesGrow
<1>3. ASSUME NEW j \in Kinds, NEW h \in 1..MaxId, guild'[n] = <<j, h>> PROVE n = Lowest(j, h)'
  <2>1. n = Lowest(j, h)
    BY <1>2, <1>3 DEF FirstRole
  <2>2. h \in 0..MaxId
    BY TeamsOK
  <2>. QED
    BY <1>1, <2>1, <2>2, RolesGrow
<1>. QED
  BY <1>2, <1>3 DEF FirstRole

LEMMA HoldsStay ==
    ASSUME TypeOK, NEW k \in Kinds, NEW i \in 0..MaxId, Grows(k, i),
           NEW m, roles'[m] = roles[m], \A n \in roles[m] : n \in 1..Len(guild)
    PROVE  \A j, h : Holds(m, j, h)' <=> Holds(m, j, h)
BY RolesGrow DEF Holds

LEMMA DueStays ==
    ASSUME UNCHANGED <<teams, pc, op, my>>
    PROVE  \A m, k, i : (Stored(m, k, i)' <=> Stored(m, k, i)) /\ (Due(m, k, i)' <=> Due(m, k, i))
<1>1. \A i : Found(i)' = Found(i) /\ Changing(i)' = Changing(i)
  BY DEF Found, Changing
<1>. QED
  BY <1>1 DEF Stored, Due

-----------------------------------------------------------------------------
(* What the bot does *)

\* u is what becomes of t.
Kin(t, u) ==
    /\ u.by = t.by /\ u.who = t.who /\ u.kind = t.kind /\ u.part = t.part /\ u.lead = t.lead
    /\ t.kind # "setup" => u.now = t.now
    /\ t.kind # "setup" /\ u.at \in {"find", "make"} => t.at \in {"find", "make"}

\* The other handlers are as far as they were.
LEMMA OthersStay ==
    ASSUME IInv, AllInTurn, NEW t \in tasks, NEW k \in Kinds, Grows(k, t.now),
           UNCHANGED <<teams, pc, op, my, crossed>>, t.kind = "setup" \/ roles' = roles,
           NEW v \in tasks \ {t}
    PROVE  IF v.kind = "setup" THEN SetupOK(v)' ELSE ChangeOK(v)'
<1>1. TypeOK /\ v \in Tasks /\ t \in Tasks /\ t.now \in 0..MaxId /\ v.now \in 0..MaxId
  BY DEF IInv, TypeOK, Tasks
<1>2. IF v.kind = "setup" THEN SetupOK(v) ELSE ChangeOK(v)
  BY DEF AllInTurn, HandlersOK
<1>3. v.kind = t.kind \/ (v.kind # "setup" /\ t.kind # "setup")
  BY DEF AllInTurn, InTurn
<1>4. \A n \in 1..Len(guild) : n \in 1..Len(guild') /\ guild'[n] = guild[n]
      /\ (FirstRole(n) => FirstRole(n)')
  BY <1>1, RolesGrow, FirstStays
<1>5. \A m, j, i : Stored(m, j, i)' <=> Stored(m, j, i)
  BY DueStays
<1>6. CASE v.kind = "setup"
  <2>1. SetupOK(v)
    BY <1>2, <1>6
  <2>2. v.at = "make" => \A j \in Kinds \ v.make : Role(v.has[j], j, 0)'
    BY <1>4, <2>1 DEF SetupOK, Role
  <2>3. ASSUME v.at # "teams"
        PROVE  /\ \A i \in v.left : Stored(v.who, "member", i)'
               /\ v.at \notin {"clear", "write"} =>
                     \A i \in 0..MaxId : i \in v.leads <=> Stored(v.who, "lead", i)'
               /\ \A n \in v.mine : n \in 1..Len(guild') /\ FirstRole(n)'
               /\ \A j \in Kinds, i \in 1..MaxId :
                     (\E n \in v.mine : guild'[n] = <<j, i>>) <=> i \notin v.left /\ Stored(v.who, j, i)'
    <3>1. \A n \in v.mine : n \in 1..Len(guild) /\ FirstRole(n)
      BY <2>1, <2>3 DEF SetupOK
    <3>2. \A n \in v.mine : n \in 1..Len(guild') /\ FirstRole(n)' /\ guild'[n] = guild[n]
      BY <1>4, <3>1
    <3>3. \A j \in Kinds, i \in 1..MaxId :
             (\E n \in v.mine : guild[n] = <<j, i>>) <=> i \notin v.left /\ Stored(v.who, j, i)
      BY <2>1, <2>3 DEF SetupOK
    <3>4. \A j \in Kinds, i \in 1..MaxId :
             (\E n \in v.mine : guild'[n] = <<j, i>>) <=> i \notin v.left /\ Stored(v.who, j, i)'
      BY <1>5, <3>2, <3>3
    <3>. QED
      BY <1>5, <2>1, <2>3, <3>2, <3>4 DEF SetupOK
  <2>. QED
    BY <1>6, <2>1, <2>2, <2>3 DEF SetupOK
<1>7. CASE v.kind # "setup"
  <2>1. ChangeOK(v) /\ roles' = roles
    BY <1>2, <1>3, <1>7
  <2>2. v.at # "find" => \A j \in Kinds \ v.make :
           Role(v.has[j], j, v.now)' /\ (v.who \notin crossed => FirstRole(v.has[j])')
    BY <1>4, <2>1 DEF ChangeOK, Role
  <2>3. ASSUME v.who \notin crossed, v.at = "make", v.now # 0, NEW j \in v.make
        PROVE  Lowest(j, v.now)' = 0
    <3>1. Lowest(j, v.now) = 0 /\ j \in Kinds
      BY <1>1, <2>1, <2>3 DEF ChangeOK, Tasks
    <3>2. (\A i \in Kinds : Lowest(i, v.now) # 0) \/ tasks = {v}
      BY <1>7, <2>3 DEF AllInTurn, MadeAlone
    <3>. QED
      BY <3>1, <3>2
  <2>4. v.who \notin crossed /\ v.at = "write" => v.mine = NewRoles(v)'
    BY <2>1 DEF ChangeOK, NewRoles
  <2>. QED
    BY <1>7, <2>1, <2>2, <2>3, <2>4 DEF ChangeOK
<1>. QED
  BY <1>6, <1>7

LEMMA BotStays ==
    ASSUME IInv, AllInTurn, Given.quiet, NEW t \in tasks, NEW u, Becomes(t, u), Kin(t, u),
           UNCHANGED <<teams, pc, op, my, given, up, crossed>>,
           NEW k \in Kinds, Grows(k, t.now), t.kind = "setup" /\ guild' # guild => t.now = 0,
           \A m \in Members : roles'[m] = roles[m] \/ (t.kind = "setup" /\ m = t.who /\ roles'[m] = {}),
           t.kind = "setup" \/ roles' = roles,
           IF u.kind = "setup" THEN SetupOK(u)' ELSE ChangeOK(u)',
           t.kind # "setup" /\ t.at \in {"find", "make"} /\ t.now # 0 =>
              u.at \in {"find", "make"} \/ \A j \in Kinds : Lowest(j, t.now)' # 0
    PROVE  RolesInv'
<1>0. TypeOK /\ t \in Tasks /\ t.now \in 0..MaxId /\ tasks' = (tasks \ {t}) \union {u}
  BY DEF IInv, TypeOK, Tasks, Becomes
<1>1. InTurn'
  <2>1. \A r \in Requests : (Active(r)' <=> Active(r)) /\ (Busy(r)' <=> Busy(r))
    BY <1>0 DEF Active, Busy, Kin
  <2>2. InTurn
    BY DEF AllInTurn
  <2>. QED
    BY <1>0, <2>1, <2>2 DEF InTurn, Kin
<1>2. HandlersOK'
  BY <1>0, OthersStay DEF HandlersOK
<1>3. \A m, j, i : Due(m, j, i)' <=> Due(m, j, i)
  BY DueStays
<1>4. ASSUME NEW m \in Members \ crossed
      PROVE  /\ \A n \in roles'[m] : n \in 1..Len(guild') /\ FirstRole(n)'
             /\ ~(t.kind = "setup" /\ m = t.who) => \A j, i : Holds(m, j, i)' <=> Holds(m, j, i)
  <2>1. \A n \in roles[m] : n \in 1..Len(guild) /\ FirstRole(n)
    BY DEF AllInTurn, RolesOK
  <2>2. \A n \in roles[m] : n \in 1..Len(guild') /\ FirstRole(n)'
    BY <1>0, <2>1, FirstStays
  <2>3. roles'[m] = roles[m] => \A j, i : Holds(m, j, i)' <=> Holds(m, j, i)
    BY <1>0, <2>1, HoldsStay
  <2>. QED
    BY <2>2, <2>3
<1>5. RolesOK'
  <2>. SUFFICES ASSUME NEW m \in Members \ crossed', NEW j \in Kinds, NEW i \in 1..MaxId
                PROVE  /\ (\A v \in tasks' : v.who = m => v.kind # "setup" /\ v.now # i)
                             => (Holds(m, j, i)' <=> Due(m, j, i)')
                       /\ \A v \in tasks' : v.who = m /\ v.kind # "setup" /\ v.now = i
                             => (Got(v, j)' <=> Due(m, j, i)')
    BY <1>4 DEF RolesOK
  <2>1. /\ (\A v \in tasks : v.who = m => v.kind # "setup" /\ v.now # i)
                => (Holds(m, j, i) <=> Due(m, j, i))
        /\ \A v \in tasks : v.who = m /\ v.kind # "setup" /\ v.now = i
                => (Got(v, j) <=> Due(m, j, i))
    BY DEF AllInTurn, RolesOK
  <2>2. ASSUME \A v \in tasks' : v.who = m => v.kind # "setup" /\ v.now # i
        PROVE  Holds(m, j, i)' <=> Due(m, j, i)'
    <3>1. \A v \in tasks : v.who = m => v.kind # "setup" /\ v.now # i
      BY <1>0, <2>2 DEF Kin
    <3>. QED
      BY <1>3, <1>4, <2>1, <3>1
  <2>3. ASSUME NEW v \in tasks', v.who = m, v.kind # "setup", v.now = i
        PROVE  Got(v, j)' <=> Due(m, j, i)'
    <3>1. PICK s \in tasks : s.who = m /\ s.kind = v.kind /\ s.now = i /\ s.lead = v.lead /\ s.part = v.part
      BY <1>0, <2>3 DEF Kin
    <3>2. Got(s, j) <=> Due(m, j, i)
      BY <2>1, <2>3, <3>1
    <3>3. ~(t.kind = "setup" /\ m = t.who)
      BY <2>3, <3>1 DEF AllInTurn, InTurn
    <3>4. Holds(m, j, i)' <=> Holds(m, j, i)
      BY <1>4, <3>3
    <3>5. Got(v, j)' <=> Got(s, j)
      BY <2>3, <3>1, <3>4 DEF Got
    <3>. QED
      BY <1>3, <3>2, <3>5
  <2>. QED
    BY <2>2, <2>3
<1>6. \A j \in Kinds, h \in 0..MaxId : Lowest(j, h) # 0 => Lowest(j, h)' # 0
  BY <1>0, RolesGrow
<1>7. Marked'
  <2>. SUFFICES ASSUME NEW i \in 1..MaxId, NEW j \in Kinds, NEW m \in Members, NEW h \in Kinds,
                       Due(m, j, i)'
                PROVE  Lowest(h, i)' # 0 \/ \E v \in tasks' : Making(v, i)
    BY DEF Marked, Making
  <2>0. i \in 0..MaxId /\ i # 0
    BY TeamsOK
  <2>1. Lowest(h, i) # 0 \/ \E v \in tasks : Making(v, i)
    BY <1>3 DEF AllInTurn, Marked
  <2>2. CASE Lowest(h, i) # 0
    BY <1>6, <2>0, <2>2
  <2>3. ASSUME NEW v \in tasks, Making(v, i) PROVE Lowest(h, i)' # 0 \/ \E x \in tasks' : Making(x, i)
    <3>1. CASE v # t
      BY <1>0, <2>3, <3>1
    <3>2. CASE v = t
      BY <1>0, <2>0, <2>3, <3>2 DEF Making, Kin
    <3>. QED
      BY <3>1, <3>2
  <2>. QED
    BY <2>1, <2>2, <2>3
<1>8. MadeAlone'
  <2>. SUFFICES ASSUME NEW v \in tasks', v.kind # "setup", v.who \notin crossed,
                       v.at \in {"find", "make"}, v.now # 0
                PROVE  (\A j \in Kinds : Lowest(j, v.now)' # 0) \/ tasks' = {v}
    BY DEF MadeAlone
  <2>1. CASE v = u
    <3>1. (\A j \in Kinds : Lowest(j, t.now) # 0) \/ tasks = {t}
      BY <2>1 DEF AllInTurn, MadeAlone, Kin
    <3>2. v.now = t.now
      BY <2>1 DEF Kin
    <3>. QED
      BY <1>0, <1>6, <2>1, <3>1, <3>2
  <2>2. CASE v # u
    <3>1. v \in tasks /\ v # t /\ v.now \in 0..MaxId
      BY <1>0, <2>2 DEF TypeOK, Tasks
    <3>2. (\A j \in Kinds : Lowest(j, v.now) # 0) \/ tasks = {v}
      BY <3>1 DEF AllInTurn, MadeAlone
    <3>. QED
      BY <1>6, <3>1, <3>2
  <2>. QED
    BY <2>1, <2>2
<1>9. AllAllowed'
  <2>1. AllAllowed /\ Given' = Given
    BY DEF AllInTurn, Given
  <2>. QED
    BY <2>1 DEF AllAllowed, Allowed
<1>. QED
  BY <1>1, <1>2, <1>5, <1>7, <1>8, <1>9 DEF RolesInv, AllInTurn

\* The lowest number is a role.
LEMMA LowestIsRole ==
    ASSUME TypeOK, NEW k \in Kinds, NEW i \in 0..MaxId
    PROVE  /\ Lowest(k, i) # 0 => Role(Lowest(k, i), k, i) /\ FirstRole(Lowest(k, i))
           /\ \A n : Role(n, k, i) => Lowest(k, i) # 0
<1>1. guild \in Seq(Kinds \X (0..MaxId))
  BY DEF TypeOK
<1>2. /\ Lowest(k, i) = 0 <=> Numbers(k, i) = {}
      /\ Lowest(k, i) # 0 => Lowest(k, i) \in Numbers(k, i)
  BY <1>1, LowestIs
<1>3. \A n : Role(n, k, i) <=> n \in Numbers(k, i)
  BY DEF Role, Numbers
<1>4. Lowest(k, i) # 0 => Role(Lowest(k, i), k, i)
  BY <1>2, <1>3
<1>5. Lowest(k, i) # 0 => FirstRole(Lowest(k, i))
  <2>. SUFFICES ASSUME Lowest(k, i) # 0, NEW j \in Kinds, NEW h \in 1..MaxId,
                       guild[Lowest(k, i)] = <<j, h>>
                PROVE  Lowest(k, i) = Lowest(j, h)
    BY DEF FirstRole
  <2>1. j = k /\ h = i
    BY <1>4 DEF Role
  <2>. QED
    BY <2>1
<1>. QED
  BY <1>2, <1>3, <1>4, <1>5

\* What Looked leaves alone, and what it does not.
LEMMA LookedParts ==
    ASSUME NEW u \in Tasks
    PROVE  LET n == Looked(u)
               left == u.left \ {u.now}
               found == {u.has["member"]} \union (IF u.now \in u.leads THEN {u.has["lead"]} ELSE {}) IN
           /\ n.by = u.by /\ n.who = u.who /\ n.kind = u.kind /\ n.part = u.part /\ n.lead = u.lead
           /\ n.now = u.now /\ n.has = u.has /\ n.make = u.make /\ n.leads = u.leads
           /\ u.make # {} => n.at = "make" /\ n.left = u.left /\ n.mine = u.mine
           /\ u.make = {} /\ u.kind # "setup" => n.at = "read"
           /\ u.make = {} /\ u.kind = "setup" =>
                 /\ n.left = left /\ n.mine = u.mine \union found
                 /\ n.at = IF left = {} THEN "clear" ELSE "find"
<1>. DEFINE left == u.left \ {u.now}
            found == {u.has["member"]} \union (IF u.now \in u.leads THEN {u.has["lead"]} ELSE {})
<1>3. CASE u.make # {}
  <2>1. Looked(u) = [u EXCEPT !.at = "make"]
    BY <1>3 DEF Looked
  <2>. QED
    BY <1>3, <2>1 DEF Tasks
<1>4. CASE u.make = {} /\ u.kind # "setup"
  <2>1. Looked(u) = [u EXCEPT !.at = "read", !.left = {}]
    BY <1>4 DEF Looked
  <2>. QED
    BY <1>4, <2>1 DEF Tasks
<1>5. CASE u.make = {} /\ u.kind = "setup"
  <2>1. Looked(u) = [u EXCEPT !.at = IF left = {} THEN "clear" ELSE "find", !.left = left,
                              !.mine = u.mine \union found]
    BY <1>5 DEF Looked
  <2>. HIDE DEF left, found
  <2>2. /\ Looked(u).left = left /\ Looked(u).mine = u.mine \union found
        /\ Looked(u).at = (IF left = {} THEN "clear" ELSE "find")
        /\ Looked(u).by = u.by /\ Looked(u).who = u.who /\ Looked(u).kind = u.kind
        /\ Looked(u).part = u.part /\ Looked(u).lead = u.lead /\ Looked(u).now = u.now
        /\ Looked(u).has = u.has /\ Looked(u).make = u.make /\ Looked(u).leads = u.leads
    BY <2>1 DEF Tasks
  <2>. QED
    BY <1>5, <2>2 DEF left, found
<1>. QED
  BY <1>3, <1>4, <1>5

\* Whoever is set up belongs to teams that have their roles.
LEMMA SetupMarked ==
    ASSUME IInv, AllInTurn, NEW t \in tasks, t.kind = "setup",
           NEW k \in Kinds, NEW i \in 1..MaxId, Stored(t.who, k, i), NEW j \in Kinds
    PROVE  Lowest(j, i) # 0
<1>1. \A v \in tasks : v.kind = "setup"
  BY DEF AllInTurn, InTurn
<1>2. Changing(i) = {}
  <2>1. \A r \in Requests : ~Active(r)
    BY DEF AllInTurn, InTurn
  <2>. QED
    BY <2>1 DEF Changing, Active, Ended
<1>3. t.who \in Members
  BY DEF IInv, TypeOK, Tasks
<1>4. Due(t.who, k, i)
  BY <1>2 DEF Due
<1>. QED
  BY <1>1, <1>3, <1>4 DEF AllInTurn, Marked, Making

LEMMA TasksKept ==
    ASSUME TypeOK, UNCHANGED <<teams, pc, op, my, guild, roles, crossed>>, NEW u
    PROVE  (ChangeOK(u) => ChangeOK(u)') /\ (SetupOK(u) => SetupOK(u)')
<1>1. \A j, h : Lowest(j, h)' = Lowest(j, h)
  BY SameRoles
<1>2. \A m, j, i : Stored(m, j, i)' <=> Stored(m, j, i)
  BY DueStays
<1>3. \A n : FirstRole(n)' <=> FirstRole(n)
  BY <1>1 DEF FirstRole
<1>4. \A n, j, h : Role(n, j, h)' <=> Role(n, j, h)
  BY DEF Role
<1>5. ChangeOK(u) => ChangeOK(u)'
  BY <1>1, <1>3, <1>4 DEF ChangeOK, NewRoles
<1>6. SetupOK(u) => SetupOK(u)'
  BY <1>2, <1>3, <1>4 DEF SetupOK
<1>. QED
  BY <1>5, <1>6

\* A handler has looked up a role, or has made one.
LEMMA FindKeeps ==
    ASSUME IInv, RolesInv, Given.quiet, NEW t \in tasks, Find(t)
    PROVE  RolesInv'
<1>0. TypeOK /\ t \in Tasks /\ AllInTurn /\ guild \in Seq(Kinds \X (0..MaxId))
  BY DEF IInv, TypeOK, RolesInv
<1>1. PICK i \in t.left :
          LET has == [k \in Kinds |-> Lowest(k, i)] IN
          GoesOn(t, [t EXCEPT !.now = i, !.has = has, !.make = {k \in Kinds : has[k] = 0}])
  BY DEF Find
<1>. DEFINE has0 == [k \in Kinds |-> Lowest(k, i)]
            make0 == {k \in Kinds : has0[k] = 0}
            u == [t EXCEPT !.now = i, !.has = has0, !.make = make0]
<1>. PICK has, make, n : has = has0 /\ make = make0 /\ n = Looked(u)
  OBVIOUS
<1>2. has \in [Kinds -> Nat] /\ make \in SUBSET Kinds /\ i \in 0..MaxId
  BY <1>0, LowestIs DEF Tasks
<1>3. \A k \in Kinds : has[k] = Lowest(k, i) /\ (k \in make <=> Lowest(k, i) = 0)
  OBVIOUS
<1>4. Becomes(t, n)
  BY <1>1 DEF GoesOn
<1>. HIDE DEF has0, make0
<1>5. /\ u \in Tasks /\ u.now = i /\ u.has = has /\ u.make = make /\ u.left = t.left
      /\ u.by = t.by /\ u.who = t.who /\ u.kind = t.kind /\ u.part = t.part /\ u.lead = t.lead
      /\ u.leads = t.leads /\ u.mine = t.mine
  BY <1>0, <1>2 DEF Tasks
<1>. HIDE DEF u
<1>6. /\ n.by = t.by /\ n.who = t.who /\ n.kind = t.kind /\ n.part = t.part /\ n.lead = t.lead
      /\ n.now = i /\ n.has = has /\ n.make = make /\ n.leads = t.leads
      /\ make # {} => n.at = "make" /\ n.left = t.left /\ n.mine = t.mine
      /\ make = {} /\ t.kind # "setup" => n.at = "read"
      /\ make = {} /\ t.kind = "setup" =>
            /\ n.left = t.left \ {i}
            /\ n.mine = t.mine \union {has["member"]} \union (IF i \in t.leads THEN {has["lead"]} ELSE {})
            /\ n.at = IF n.left = {} THEN "clear" ELSE "find"
  BY <1>5, LookedParts
<1>7. UNCHANGED <<teams, pc, op, my, given, up, crossed, guild, roles>> /\ t.at = "find"
  BY DEF Find
<1>8. \A k \in Kinds \ make : Role(has[k], k, i) /\ FirstRole(has[k])
  BY <1>0, <1>2, <1>3, LowestIsRole
<1>9. IF t.kind = "setup" THEN SetupOK(t) ELSE ChangeOK(t)
  BY <1>0 DEF AllInTurn, HandlersOK
<1>10. CASE t.kind # "setup"
  <2>1. t.left = {t.now} /\ i = t.now
    BY <1>7, <1>9, <1>10 DEF ChangeOK
  <2>2. n.at \in {"make", "read"} /\ (n.at = "read" => make = {}) /\ (n.at = "make" => make # {})
    BY <1>6, <1>10
  <2>3. ChangeOK(n)
    BY <1>3, <1>6, <1>8, <2>2, <1>2 DEF ChangeOK
  <2>4. ChangeOK(n)'
    BY <1>0, <1>7, <2>3, TasksKept
  <2>5. Kin(t, n)
    BY <1>6, <1>7, <2>1 DEF Kin
  <2>6. n.at \in {"find", "make"} \/ \A j \in Kinds : Lowest(j, t.now)' # 0
    BY <1>0, <1>3, <1>7, <2>1, <2>2, SameRoles
  <2>7. "lead" \in Kinds /\ n.kind # "setup"
    BY <1>6, <1>10 DEF Kinds
  <2>8. Becomes(t, n) /\ Grows("lead", t.now)
    BY <1>4, <1>7 DEF Grows
  <2>. QED
    BY <1>0, <1>7, <1>10, <2>4, <2>5, <2>6, <2>7, <2>8, BotStays
<1>11. CASE t.kind = "setup"
  <2>1. SetupOK(t) /\ Stored(t.who, "member", i)
    BY <1>7, <1>9, <1>11 DEF SetupOK
  <2>2. i # 0 => make = {}
    <3>1. ASSUME i # 0, NEW j \in Kinds PROVE Lowest(j, i) # 0
      BY <1>0, <1>2, <1>11, <2>1, <3>1, SetupMarked DEF Kinds
    <3>. QED
      BY <1>2, <1>3, <3>1
  <2>3. \A m \in n.left : Stored(t.who, "member", m)
    BY <1>6, <1>7, <1>11, <2>1 DEF SetupOK
  <2>4. \A m \in t.mine : m \in 1..Len(guild) /\ FirstRole(m)
    BY <1>7, <2>1 DEF SetupOK
  <2>5. \A h \in 0..MaxId : h \in n.leads <=> Stored(t.who, "lead", h)
    BY <1>6, <1>7, <2>1 DEF SetupOK
  <2>6. \A k \in Kinds, h \in 1..MaxId :
           (\E m \in t.mine : guild[m] = <<k, h>>) <=> h \notin t.left /\ Stored(t.who, k, h)
    BY <1>7, <2>1 DEF SetupOK
  <2>7. ASSUME make # {} PROVE SetupOK(n)
    <3>1. n.at = "make" /\ n.left = t.left /\ n.mine = t.mine /\ i = 0
      BY <1>6, <2>2, <2>7
    <3>. QED
      <4>1. \A k \in Kinds \ n.make : Role(n.has[k], k, 0)
        BY <1>6, <1>8, <3>1
      <4>2. \A k \in Kinds, h \in 1..MaxId :
               (\E m \in n.mine : guild[m] = <<k, h>>) <=> h \notin n.left /\ Stored(n.who, k, h)
        BY SMTT(30), <1>6, <2>6, <3>1
      <4>3. n.who = t.who /\ n.make # {} /\ n.now = 0
        BY <1>6, <2>7, <3>1
      <4>. QED
        BY <2>3, <2>4, <2>5, <3>1, <4>1, <4>2, <4>3 DEF SetupOK
  <2>8. ASSUME make = {} PROVE SetupOK(n)
    <3>1. /\ n.left = t.left \ {i}
          /\ n.mine = t.mine \union {has["member"]} \union (IF i \in t.leads THEN {has["lead"]} ELSE {})
          /\ n.at = IF n.left = {} THEN "clear" ELSE "find"
      BY <1>6, <1>11, <2>8
    <3>2. Role(has["member"], "member", i) /\ FirstRole(has["member"])
          /\ Role(has["lead"], "lead", i) /\ FirstRole(has["lead"])
      BY <1>8, <2>8 DEF Kinds
    <3>3. \A m \in n.mine : m \in 1..Len(guild) /\ FirstRole(m)
      BY <2>4, <3>1, <3>2 DEF Role
    <3>4. ASSUME NEW k \in Kinds, NEW h \in 1..MaxId
          PROVE  (\E m \in n.mine : guild[m] = <<k, h>>) <=> h \notin n.left /\ Stored(t.who, k, h)
      <4>1. CASE h # i
        <5>1. (\E m \in n.mine : guild[m] = <<k, h>>) <=> (\E m \in t.mine : guild[m] = <<k, h>>)
          BY <3>1, <3>2, <4>1 DEF Role
        <5>. QED
          BY <2>6, <3>1, <4>1, <5>1
      <4>2. CASE h = i /\ k = "member"
        BY <2>1, <3>1, <3>2, <4>2 DEF Role
      <4>3. CASE h = i /\ k = "lead"
        <5>1. ~\E m \in t.mine : guild[m] = <<k, h>>
          BY <2>6, <4>3
        <5>2. (\E m \in n.mine : guild[m] = <<k, h>>) <=> i \in t.leads
          BY <3>1, <3>2, <4>3, <5>1 DEF Role
        <5>3. i \in t.leads <=> Stored(t.who, "lead", i)
          BY <1>2, <1>6, <2>5
        <5>. QED
          BY <3>1, <4>3, <5>2, <5>3
      <4>. QED
        BY <4>1, <4>2, <4>3 DEF Kinds
    <3>. QED
      <4>1. n.who = t.who
        BY <1>6
      <4>2. (n.at = "clear" /\ n.left = {}) \/ n.at = "find"
        BY <3>1
      <4>. QED
        BY <2>3, <2>5, <3>3, <3>4, <4>1, <4>2 DEF SetupOK
  <2>9. SetupOK(n)
    BY <2>7, <2>8
  <2>10. SetupOK(n)'
    BY <1>0, <1>7, <2>9, TasksKept
  <2>11. Kin(t, n)
    BY <1>6, <1>11 DEF Kin
  <2>12. "lead" \in Kinds /\ Becomes(t, n) /\ Grows("lead", t.now) /\ n.kind = "setup"
    BY <1>4, <1>6, <1>7, <1>11 DEF Grows, Kinds
  <2>. QED
    BY <1>0, <1>7, <1>11, <2>10, <2>11, <2>12, BotStays
<1>. QED
  BY <1>10, <1>11

LEMMA MakeKeeps ==
    ASSUME IInv, RolesInv, Given.quiet, NEW t \in tasks, Make(t)
    PROVE  RolesInv'
<1>0. TypeOK /\ t \in Tasks /\ AllInTurn /\ guild \in Seq(Kinds \X (0..MaxId)) /\ Len(guild) \in Nat
  BY LenProperties DEF IInv, TypeOK, RolesInv
<1>. DEFINE k0 == IF "lead" \in t.make THEN "lead" ELSE "member"
            u0 == [t EXCEPT !.make = @ \ {k0}, !.has[k0] = Len(guild) + 1]
<1>. PICK k, u, l : k = k0 /\ u = u0 /\ l = Len(guild) + 1
  OBVIOUS
<1>. PICK n : n = Looked(u)
  OBVIOUS
<1>1. guild' = Append(guild, <<k, t.now>>) /\ Becomes(t, n) /\ t.at = "make"
  BY DEF Make, GoesOn
<1>2. UNCHANGED <<teams, pc, op, my, given, up, crossed, roles>>
  BY DEF Make
<1>3. IF t.kind = "setup" THEN SetupOK(t) ELSE ChangeOK(t)
  BY <1>0 DEF AllInTurn, HandlersOK
<1>4. k \in Kinds /\ k \in t.make /\ t.now \in 0..MaxId /\ l \in Nat
  <2>1. t.make # {} /\ t.make \subseteq Kinds
    BY <1>0, <1>1, <1>3 DEF ChangeOK, SetupOK, Tasks
  <2>. QED
    BY <1>0, <2>1 DEF Kinds, Tasks
<1>. HIDE DEF k0
<1>5. /\ u \in Tasks /\ u.now = t.now /\ u.make = t.make \ {k} /\ u.left = t.left
      /\ u.by = t.by /\ u.who = t.who /\ u.kind = t.kind /\ u.part = t.part /\ u.lead = t.lead
      /\ u.leads = t.leads /\ u.mine = t.mine
      /\ u.has[k] = l /\ \A j \in Kinds \ {k} : u.has[j] = t.has[j]
  BY <1>0, <1>4 DEF Tasks
<1>. HIDE DEF u0
<1>6. /\ n.by = t.by /\ n.who = t.who /\ n.kind = t.kind /\ n.part = t.part /\ n.lead = t.lead
      /\ n.now = t.now /\ n.has = u.has /\ n.make = t.make \ {k} /\ n.leads = t.leads
      /\ n.make # {} => n.at = "make" /\ n.left = t.left /\ n.mine = t.mine
      /\ n.make = {} /\ t.kind # "setup" => n.at = "read"
      /\ n.make = {} /\ t.kind = "setup" =>
            /\ n.left = t.left \ {t.now}
            /\ n.mine = t.mine \union {n.has["member"]}
                          \union (IF t.now \in t.leads THEN {n.has["lead"]} ELSE {})
            /\ n.at = IF n.left = {} THEN "clear" ELSE "find"
  BY <1>5, LookedParts
<1>7. guild' \in Seq(Kinds \X (0..MaxId)) /\ Len(guild') = l /\ guild'[l] = <<k, t.now>>
  BY <1>0, <1>1, <1>4, AppendProperties
<1>8. Grows(k, t.now)
  BY <1>1 DEF Grows
<1>9. \A m \in 1..Len(guild) : m \in 1..Len(guild') /\ guild'[m] = guild[m] /\ (FirstRole(m) => FirstRole(m)')
  BY <1>0, <1>4, <1>8, RolesGrow, FirstStays
<1>10. \A j \in Kinds \ t.make : Role(t.has[j], j, t.now)
  BY <1>1, <1>3 DEF ChangeOK, SetupOK
<1>11. \A j \in Kinds \ n.make : Role(n.has[j], j, t.now)'
  <2>. SUFFICES ASSUME NEW j \in Kinds \ n.make PROVE Role(n.has[j], j, t.now)'
    OBVIOUS
  <2>1. CASE j = k
    BY <1>4, <1>5, <1>6, <1>7, <2>1 DEF Role
  <2>2. CASE j # k
    <3>1. n.has[j] = t.has[j] /\ Role(t.has[j], j, t.now)
      BY <1>5, <1>6, <1>10, <2>2
    <3>. QED
      BY <1>9, <3>1 DEF Role
  <2>. QED
    BY <2>1, <2>2
<1>12. CASE t.kind # "setup"
  <2>1. ChangeOK(t)
    BY <1>3, <1>12
  <2>2. ASSUME t.who \notin crossed, NEW j \in Kinds \ n.make PROVE FirstRole(n.has[j])'
    <3>1. CASE j = k
      <4>1. ASSUME NEW i \in Kinds, NEW h \in 1..MaxId, guild'[l] = <<i, h>>
            PROVE  l = Lowest(i, h)'
        <5>1. i = k /\ h = t.now /\ t.now # 0
          BY <1>7, <4>1
        <5>2. Lowest(k, t.now) = 0
          BY <1>1, <1>4, <2>1, <2>2, <5>1 DEF ChangeOK
        <5>3. Numbers(k, t.now) = {}
          BY <1>0, <5>2, LowestIs
        <5>4. Numbers(k, t.now)' = {l}
          <6>1. ASSUME NEW x \in 1..l, guild'[x] = <<k, t.now>> PROVE x = l
            <7>1. CASE x \in 1..Len(guild)
              BY <1>9, <5>3, <6>1, <7>1 DEF Numbers
            <7>2. CASE x \notin 1..Len(guild)
              BY <1>0, <7>2
            <7>. QED
              BY <7>1, <7>2
          <6>2. l \in 1..l
            BY <1>0
          <6>. QED
            BY <1>7, <6>1, <6>2 DEF Numbers
        <5>5. Lowest(k, t.now)' = l
          BY <1>7, <5>4, LowestIsAfter
        <5>. QED
          BY <5>1, <5>5
      <4>. QED
        BY <1>5, <1>6, <3>1, <4>1 DEF FirstRole
    <3>2. CASE j # k
      <4>1. n.has[j] = t.has[j] /\ j \notin t.make
        BY <1>5, <1>6, <2>2, <3>2
      <4>2. Role(t.has[j], j, t.now) /\ FirstRole(t.has[j])
        BY <1>1, <2>1, <2>2, <4>1 DEF ChangeOK
      <4>. QED
        BY <1>9, <4>1, <4>2 DEF Role
    <3>. QED
      BY <3>1, <3>2
  <2>3. ASSUME t.who \notin crossed, t.now # 0, NEW j \in n.make PROVE Lowest(j, t.now)' = 0
    <3>1. Lowest(j, t.now) = 0 /\ j # k /\ j \in Kinds
      BY <1>0, <1>1, <1>6, <2>1, <2>3 DEF ChangeOK, Tasks
    <3>. QED
      BY <1>0, <1>4, <1>8, <3>1, RolesGrow
  <2>4. n.at \in {"make", "read"} /\ (n.at = "read" => n.make = {}) /\ (n.at = "make" => n.make # {})
    BY <1>6, <1>12
  <2>5. ChangeOK(n)'
    BY <1>2, <1>6, <1>11, <2>2, <2>3, <2>4 DEF ChangeOK
  <2>6. n.at \in {"find", "make"} \/ \A j \in Kinds : Lowest(j, t.now)' # 0
    <3>1. ASSUME n.make = {}, NEW j \in Kinds PROVE Lowest(j, t.now)' # 0
      <4>1. n.has[j] \in Numbers(j, t.now)'
        BY <1>11, <3>1 DEF Role, Numbers
      <4>. QED
        BY <1>7, <4>1, LowestIsAfter
    <3>. QED
      BY <2>4, <3>1
  <2>7. Kin(t, n) /\ n.kind # "setup"
    BY <1>1, <1>6, <1>12 DEF Kin
  <2>. QED
    BY <1>0, <1>1, <1>2, <1>4, <1>8, <1>12, <2>5, <2>6, <2>7, BotStays
<1>13. CASE t.kind = "setup"
  <2>1. SetupOK(t) /\ t.now = 0
    BY <1>1, <1>3, <1>13 DEF SetupOK
  <2>2. \A m \in n.left : Stored(t.who, "member", m)'
    <3>1. \A m \in t.left : Stored(t.who, "member", m)
      BY <1>1, <2>1 DEF SetupOK
    <3>. QED
      BY <1>2, <1>6, <1>13, <3>1, DueStays
  <2>3. \A m \in t.mine : m \in 1..Len(guild) /\ FirstRole(m)
    BY <1>1, <2>1 DEF SetupOK
  <2>4. \A h \in 0..MaxId : h \in n.leads <=> Stored(t.who, "lead", h)'
    <3>1. \A h \in 0..MaxId : h \in t.leads <=> Stored(t.who, "lead", h)
      BY <1>1, <2>1 DEF SetupOK
    <3>. QED
      BY <1>2, <1>6, <3>1, DueStays
  <2>5. \A m \in n.mine : m \in t.mine \/ (n.make = {} /\ m \in {n.has["member"], n.has["lead"]})
    BY <1>6, <1>13
  <2>6. t.mine \subseteq n.mine
    BY <1>6, <1>13
  <2>7. \A m \in n.mine : m \in t.mine \/ (m \in 1..Len(guild') /\ \E j \in Kinds : guild'[m] = <<j, 0>>)
    <3>1. n.make = {} => Role(n.has["member"], "member", 0)' /\ Role(n.has["lead"], "lead", 0)'
      BY <1>11, <2>1 DEF Kinds
    <3>. QED
      BY <2>5, <3>1 DEF Role, Kinds
  <2>8. \A m \in n.mine : m \in 1..Len(guild') /\ FirstRole(m)'
    BY <1>9, <2>3, <2>7 DEF FirstRole
  <2>9. ASSUME NEW j \in Kinds, NEW h \in 1..MaxId
        PROVE  (\E m \in n.mine : guild'[m] = <<j, h>>) <=> h \notin n.left /\ Stored(t.who, j, h)'
    <3>1. h # 0
      OBVIOUS
    <3>2. (\E m \in t.mine : guild[m] = <<j, h>>) <=> h \notin t.left /\ Stored(t.who, j, h)
      BY <1>1, <2>1 DEF SetupOK
    <3>3. (\E m \in n.mine : guild'[m] = <<j, h>>) <=> \E m \in t.mine : guild[m] = <<j, h>>
      BY SMTT(30), <1>9, <2>3, <2>6, <2>7, <3>1
    <3>4. h \in n.left <=> h \in t.left
      BY <1>6, <1>13, <2>1, <3>1
    <3>5. Stored(t.who, j, h)' <=> Stored(t.who, j, h)
      BY <1>2, DueStays
    <3>. QED
      BY <3>2, <3>3, <3>4, <3>5
  <2>10. /\ n.at \in {"make", "clear", "find"} /\ (n.at = "make" => n.make # {})
         /\ (n.at = "clear" => n.left = {})
    BY <1>6, <1>13
  <2>11. SetupOK(n)'
    BY ZenonT(60), <1>6, <1>11, <2>1, <2>2, <2>4, <2>8, <2>9, <2>10 DEF SetupOK
  <2>12. Kin(t, n) /\ n.kind = "setup"
    BY <1>6, <1>13 DEF Kin
  <2>. QED
    BY <1>0, <1>1, <1>2, <1>4, <1>8, <1>13, <2>1, <2>11, <2>12, BotStays
<1>. QED
  BY <1>12, <1>13

LEMMA SetupKept ==
    ASSUME TypeOK, UNCHANGED <<teams, pc, op, my, guild, crossed>>, NEW u
    PROVE  SetupOK(u) => SetupOK(u)'
<1>1. \A j, h : Lowest(j, h)' = Lowest(j, h)
  BY SameRoles
<1>2. \A m, j, i : Stored(m, j, i)' <=> Stored(m, j, i)
  BY DueStays
<1>3. \A n : FirstRole(n)' <=> FirstRole(n)
  BY <1>1 DEF FirstRole
<1>4. \A n, j, h : Role(n, j, h)' <=> Role(n, j, h)
  BY DEF Role
<1>. QED
  BY <1>2, <1>3, <1>4 DEF SetupOK

\* The other steps that change a handler.
LEMMA ReadKeeps ==
    ASSUME IInv, RolesInv, Given.quiet, NEW t \in tasks, Read(t)
    PROVE  RolesInv'
<1>0. TypeOK /\ t \in Tasks /\ AllInTurn
  BY DEF IInv, TypeOK, RolesInv
<1>. PICK new : new = NewRoles(t)
  OBVIOUS
<1>. PICK u : u = [t EXCEPT !.at = "write", !.mine = new]
  OBVIOUS
<1>1. Becomes(t, u) /\ t.at = "read" /\ UNCHANGED <<teams, pc, op, my, given, guild, roles, up, crossed>>
  BY DEF Read
<1>2. u.at = "write" /\ u.mine = new /\ u.by = t.by /\ u.who = t.who /\ u.kind = t.kind
      /\ u.part = t.part /\ u.lead = t.lead /\ u.now = t.now /\ u.has = t.has /\ u.make = t.make
  BY <1>0 DEF Tasks
<1>3. t.kind # "setup" /\ ChangeOK(t)
  BY <1>0, <1>1 DEF AllInTurn, HandlersOK, SetupOK
<1>4. NewRoles(u) = new
  BY <1>2 DEF NewRoles
<1>5. ChangeOK(u)
  BY <1>1, <1>2, <1>3, <1>4 DEF ChangeOK
<1>6. ChangeOK(u)' /\ Kin(t, u) /\ "lead" \in Kinds /\ Grows("lead", t.now)
  BY <1>0, <1>1, <1>2, <1>5, TasksKept DEF Kin, Grows, Kinds
<1>. QED
  BY <1>0, <1>1, <1>2, <1>3, <1>6, BotStays

LEMMA ReadTeamsKeeps ==
    ASSUME IInv, RolesInv, Given.quiet, NEW t \in tasks, ReadTeams(t)
    PROVE  RolesInv'
<1>0. TypeOK /\ t \in Tasks /\ AllInTurn
  BY DEF IInv, TypeOK, RolesInv
<1>. DEFINE ids(P(_, _)) == {teams[w].id : w \in {x \in Slots : teams[x] # Undef /\ P(teams[x], t.who)}}
<1>. PICK parts, leads : parts = ids(IsPart) /\ leads = ids(IsLeader)
  OBVIOUS
<1>. PICK u : u = [t EXCEPT !.left = parts, !.leads = leads, !.at = IF parts = {} THEN "clear" ELSE "queue"]
  OBVIOUS
<1>1. Becomes(t, u) /\ t.at = "teams" /\ UNCHANGED <<teams, pc, op, my, given, guild, roles, up, crossed>>
  BY DEF ReadTeams
<1>2. u.at = (IF parts = {} THEN "clear" ELSE "queue") /\ u.mine = t.mine /\ u.by = t.by
      /\ u.who = t.who /\ u.kind = t.kind /\ u.left = parts /\ u.leads = leads
      /\ u.part = t.part /\ u.lead = t.lead /\ u.now = t.now /\ u.has = t.has /\ u.make = t.make
  BY <1>0 DEF Tasks
<1>3. t.kind = "setup" /\ SetupOK(t)
  BY <1>0, <1>1 DEF AllInTurn, HandlersOK, ChangeOK
<1>4. \A i : (i \in parts <=> Stored(t.who, "member", i)) /\ (i \in leads <=> Stored(t.who, "lead", i))
  <2>1. \A i : i \in parts <=> \E w \in Found(i) : IsPart(teams[w], t.who)
    BY DEF Found
  <2>2. \A i : i \in leads <=> \E w \in Found(i) : IsLeader(teams[w], t.who)
    BY DEF Found
  <2>. QED
    BY <2>1, <2>2 DEF Stored, Says
<1>5. \A i, k : k \in Kinds /\ Stored(t.who, k, i) => i \in parts
  BY <1>4 DEF Stored, Says, IsPart, Kinds
<1>6. u.mine = {}
  BY <1>1, <1>2, <1>3 DEF SetupOK
<1>7. SetupOK(u)
  <2>1. u.at \in {"clear", "queue"} /\ (u.at = "clear" => u.left = {})
    <3>. HIDE DEF ids
    <3>1. CASE parts = {}
      BY <1>2, <3>1, Zenon
    <3>2. CASE parts # {}
      <4>1. u.at = "queue"
        BY <1>2, <3>2, Zenon
      <4>. QED
        BY <4>1
    <3>. QED
      BY <3>1, <3>2
  <2>2. \A i \in u.left : Stored(u.who, "member", i)
    BY <1>2, <1>4
  <2>3. \A i \in 0..MaxId : i \in u.leads <=> Stored(u.who, "lead", i)
    BY <1>2, <1>4
  <2>4. \A k \in Kinds, i \in 1..MaxId :
           (\E n \in u.mine : guild[n] = <<k, i>>) <=> i \notin u.left /\ Stored(u.who, k, i)
    BY <1>2, <1>5, <1>6
  <2>. QED
    BY <1>6, <2>1, <2>2, <2>3, <2>4 DEF SetupOK
<1>8. SetupOK(u)' /\ Kin(t, u) /\ "lead" \in Kinds /\ Grows("lead", t.now)
  BY <1>0, <1>1, <1>2, <1>3, <1>7, TasksKept DEF Kin, Grows, Kinds
<1>. QED
  BY ZenonT(60), <1>0, <1>1, <1>2, <1>3, <1>8, BotStays

LEMMA TurnKeeps ==
    ASSUME IInv, RolesInv, Given.quiet, NEW t \in tasks, Queue(t) \/ TakeTurn(t) \/ Clear(t)
    PROVE  RolesInv'
<1>0. TypeOK /\ t \in Tasks /\ AllInTurn
  BY DEF IInv, TypeOK, RolesInv
<1>1. \E u : /\ Becomes(t, u) /\ u.mine = t.mine /\ u.by = t.by /\ u.who = t.who /\ u.kind = t.kind
             /\ u.left = t.left /\ u.leads = t.leads
             /\ u.part = t.part /\ u.lead = t.lead /\ u.now = t.now
             /\ \/ t.at = "queue" /\ u.at = "wait"
                \/ t.at = "wait" /\ u.at = "find"
                \/ t.at = "clear" /\ u.at = "write"
  <2>1. CASE Queue(t)
    <3>. PICK u : u = [t EXCEPT !.at = "wait", !.after = turn]
      OBVIOUS
    <3>1. Becomes(t, u) /\ t.at = "queue"
      BY <2>1 DEF Queue
    <3>2. /\ u.at = "wait" /\ u.mine = t.mine /\ u.by = t.by /\ u.who = t.who /\ u.kind = t.kind
          /\ u.left = t.left /\ u.leads = t.leads
          /\ u.part = t.part /\ u.lead = t.lead /\ u.now = t.now
      BY <1>0 DEF Tasks
    <3>. QED
      BY <3>1, <3>2
  <2>2. CASE TakeTurn(t)
    <3>. PICK u : u = [t EXCEPT !.at = "find"]
      OBVIOUS
    <3>1. Becomes(t, u) /\ t.at = "wait"
      BY <2>2 DEF TakeTurn
    <3>2. /\ u.at = "find" /\ u.mine = t.mine /\ u.by = t.by /\ u.who = t.who /\ u.kind = t.kind
          /\ u.left = t.left /\ u.leads = t.leads
          /\ u.part = t.part /\ u.lead = t.lead /\ u.now = t.now
      BY <1>0 DEF Tasks
    <3>. QED
      BY <3>1, <3>2
  <2>3. CASE Clear(t)
    <3>. PICK u : u = [t EXCEPT !.at = "write"]
      OBVIOUS
    <3>1. Becomes(t, u) /\ t.at = "clear"
      BY <2>3 DEF Clear
    <3>2. /\ u.at = "write" /\ u.mine = t.mine /\ u.by = t.by /\ u.who = t.who /\ u.kind = t.kind
          /\ u.left = t.left /\ u.leads = t.leads
          /\ u.part = t.part /\ u.lead = t.lead /\ u.now = t.now
      BY <1>0 DEF Tasks
    <3>. QED
      BY <3>1, <3>2
  <2>. QED
    BY <2>1, <2>2, <2>3
<1>2. PICK u : /\ Becomes(t, u) /\ u.mine = t.mine /\ u.by = t.by /\ u.who = t.who /\ u.kind = t.kind
               /\ u.left = t.left /\ u.leads = t.leads
               /\ u.part = t.part /\ u.lead = t.lead /\ u.now = t.now
               /\ \/ t.at = "queue" /\ u.at = "wait"
                  \/ t.at = "wait" /\ u.at = "find"
                  \/ t.at = "clear" /\ u.at = "write"
  BY <1>1
<1>3. t.kind = "setup" /\ SetupOK(t)
  BY <1>0, <1>2 DEF AllInTurn, HandlersOK, ChangeOK
<1>4. UNCHANGED <<teams, pc, op, my, given, guild, up, crossed>>
  BY DEF Queue, TakeTurn, Clear
<1>5. \A m \in Members : roles'[m] = roles[m] \/ (m = t.who /\ roles'[m] = {})
  BY <1>0 DEF Queue, TakeTurn, Clear, TypeOK
<1>6. SetupOK(u)
  BY <1>2, <1>3 DEF SetupOK
<1>7. SetupOK(u)' /\ Kin(t, u) /\ "lead" \in Kinds /\ Grows("lead", t.now)
  BY <1>0, <1>2, <1>3, <1>4, <1>6, SetupKept DEF Kin, Grows, Kinds
<1>. QED
  BY <1>0, <1>2, <1>3, <1>4, <1>5, <1>7, BotStays

\* What a handler for a member of one team writes.
LEMMA WrittenRoles ==
    ASSUME IInv, AllInTurn, NEW t \in tasks, Write(t), t.kind # "setup", t.who \notin crossed
    PROVE  /\ \A n \in t.mine : n \in 1..Len(guild) /\ FirstRole(n)
           /\ \A k \in Kinds, i \in 1..MaxId :
                 (\E n \in t.mine : guild[n] = <<k, i>>)
                    <=> IF i = t.now THEN Got(t, k) ELSE Holds(t.who, k, i)
<1>0. TypeOK /\ t \in Tasks /\ t.at = "write" /\ t.who \in Members
  BY DEF IInv, TypeOK, Tasks, Write
<1>1. ChangeOK(t)
  BY DEF AllInTurn, HandlersOK
<1>2. t.make = {} /\ t.mine = NewRoles(t)
  BY <1>0, <1>1 DEF ChangeOK
<1>3. \A k \in Kinds : Role(t.has[k], k, t.now) /\ FirstRole(t.has[k])
  BY <1>0, <1>1, <1>2 DEF ChangeOK
<1>4. \A n \in roles[t.who] : n \in 1..Len(guild) /\ FirstRole(n)
  BY <1>0 DEF AllInTurn, RolesOK
<1>5. t.mine \subseteq roles[t.who] \union {t.has["member"], t.has["lead"]}
  BY <1>2 DEF NewRoles
<1>6. \A n \in t.mine : n \in 1..Len(guild) /\ FirstRole(n)
  BY <1>3, <1>4, <1>5 DEF Role, Kinds
<1>7. ASSUME NEW k \in Kinds, NEW i \in 1..MaxId, i # t.now
      PROVE  (\E n \in t.mine : guild[n] = <<k, i>>) <=> Holds(t.who, k, i)
  <2>1. \A j \in Kinds : guild[t.has[j]] # <<k, i>>
    BY <1>3, <1>7 DEF Role
  <2>2. \A n : guild[n] = <<k, i>> => (n \in t.mine <=> n \in roles[t.who])
    BY <1>2, <2>1 DEF NewRoles, Kinds
  <2>. QED
    BY <2>2 DEF Holds
<1>8. ASSUME NEW k \in Kinds, t.now \in 1..MaxId
      PROVE  (\E n \in t.mine : guild[n] = <<k, t.now>>) <=> Got(t, k)
  <2>1. guild[t.has["member"]] = <<"member", t.now>> /\ guild[t.has["lead"]] = <<"lead", t.now>>
    BY <1>3 DEF Role, Kinds
  <2>2. CASE t.kind = "add"
    <3>1. t.mine = roles[t.who] \union {t.has["member"]} \union (IF t.lead THEN {t.has["lead"]} ELSE {})
      BY <1>2, <2>2 DEF NewRoles
    <3>2. (\E n \in t.mine : guild[n] = <<k, t.now>>)
             <=> Holds(t.who, k, t.now) \/ k = "member" \/ (t.lead /\ k = "lead")
      BY <2>1, <3>1 DEF Holds
    <3>. QED
      BY <2>2, <3>2 DEF Got, Kinds
  <2>3. CASE t.kind # "add"
    <3>1. t.mine = roles[t.who] \ ((IF t.lead THEN {} ELSE {t.has["lead"]})
                                   \union (IF t.part THEN {} ELSE {t.has["member"]}))
      BY <1>2, <2>3 DEF NewRoles
    <3>2. ASSUME NEW n \in roles[t.who], guild[n] = <<k, t.now>> PROVE n = t.has[k]
      <4>1. n = Lowest(k, t.now) /\ t.has[k] = Lowest(k, t.now)
        BY <1>3, <1>4, <1>8, <3>2 DEF FirstRole, Role
      <4>. QED
        BY <4>1
    <3>3. t.has["member"] # t.has["lead"]
      BY <2>1
    <3>4. CASE k = "lead"
      <4>1. (\E n \in t.mine : guild[n] = <<k, t.now>>) <=> t.has["lead"] \in t.mine
        BY <2>1, <3>1, <3>2, <3>4
      <4>2. t.has["lead"] \in t.mine <=> t.lead /\ t.has["lead"] \in roles[t.who]
        BY <3>1, <3>3
      <4>3. Holds(t.who, k, t.now) <=> t.has["lead"] \in roles[t.who]
        BY <2>1, <3>2, <3>4 DEF Holds
      <4>. QED
        BY <2>3, <3>4, <4>1, <4>2, <4>3 DEF Got
    <3>5. CASE k = "member"
      <4>1. (\E n \in t.mine : guild[n] = <<k, t.now>>) <=> t.has["member"] \in t.mine
        BY <2>1, <3>1, <3>2, <3>5
      <4>2. t.has["member"] \in t.mine <=> t.part /\ t.has["member"] \in roles[t.who]
        BY <3>1, <3>3
      <4>3. Holds(t.who, k, t.now) <=> t.has["member"] \in roles[t.who]
        BY <2>1, <3>2, <3>5 DEF Holds
      <4>. QED
        BY <2>3, <3>5, <4>1, <4>2, <4>3 DEF Got
    <3>. QED
      BY <3>4, <3>5 DEF Kinds
  <2>. QED
    BY <2>2, <2>3
<1>. QED
  BY <1>6, <1>7, <1>8

LEMMA WriteKeeps ==
    ASSUME IInv, RolesInv, Given.quiet, NEW t \in tasks, Write(t)
    PROVE  RolesInv'
<1>0. TypeOK /\ t \in Tasks /\ AllInTurn /\ t.who \in Members /\ t.at = "write"
  BY DEF IInv, TypeOK, RolesInv, Tasks, Write
<1>1. UNCHANGED <<teams, pc, op, my, given, guild, up, crossed>> /\ tasks' = tasks \ {t}
  BY DEF Write
<1>2. /\ roles'[t.who] = t.mine
      /\ \A m \in Members \ {t.who} : roles'[m] = roles[m]
  BY <1>0 DEF Write, TypeOK
<1>3. InTurn'
  <2>1. \A r \in Requests : (Active(r)' <=> Active(r)) /\ (Busy(r)' => Busy(r))
    BY <1>1 DEF Active, Busy
  <2>2. InTurn
    BY <1>0 DEF AllInTurn
  <2>. QED
    BY <1>1, <2>1, <2>2 DEF InTurn
<1>4. /\ \A j, h : Lowest(j, h)' = Lowest(j, h)
      /\ \A m, j, i : (Stored(m, j, i)' <=> Stored(m, j, i)) /\ (Due(m, j, i)' <=> Due(m, j, i))
  BY <1>0, <1>1, SameRoles, DueStays
<1>5. (\A n : FirstRole(n)' <=> FirstRole(n)) /\ (\A n, j, h : Role(n, j, h)' <=> Role(n, j, h))
  BY <1>1, <1>4 DEF FirstRole, Role
<1>6. HandlersOK'
  <2>. SUFFICES ASSUME NEW v \in tasks, v # t
                PROVE  IF v.kind = "setup" THEN SetupOK(v)' ELSE ChangeOK(v)'
    BY <1>1 DEF HandlersOK
  <2>1. IF v.kind = "setup" THEN SetupOK(v) ELSE ChangeOK(v)
    BY <1>0 DEF AllInTurn, HandlersOK
  <2>2. v.who \in Members /\ (v.who \notin crossed => v.who # t.who)
    BY <1>0 DEF AllInTurn, InTurn, TypeOK, Tasks
  <2>3. SetupOK(v) => SetupOK(v)'
    BY <1>0, <1>1, SetupKept
  <2>4. v.who \notin crossed => NewRoles(v)' = NewRoles(v)
    BY <1>2, <2>2 DEF NewRoles
  <2>5. ChangeOK(v) => ChangeOK(v)'
    BY <1>1, <1>4, <1>5, <2>4 DEF ChangeOK
  <2>. QED
    BY <2>1, <2>3, <2>5
<1>7. ASSUME NEW m \in Members \ crossed, m # t.who
      PROVE  /\ \A n \in roles'[m] : n \in 1..Len(guild') /\ FirstRole(n)'
             /\ \A k \in Kinds, i \in 1..MaxId :
                   /\ (\A v \in tasks' : v.who = m => v.kind # "setup" /\ v.now # i)
                         => (Holds(m, k, i)' <=> Due(m, k, i)')
                   /\ \A v \in tasks' : v.who = m /\ v.kind # "setup" /\ v.now = i
                         => (Got(v, k)' <=> Due(m, k, i)')
  <2>1. /\ \A n \in roles[m] : n \in 1..Len(guild) /\ FirstRole(n)
        /\ \A k \in Kinds, i \in 1..MaxId :
              /\ (\A v \in tasks : v.who = m => v.kind # "setup" /\ v.now # i)
                    => (Holds(m, k, i) <=> Due(m, k, i))
              /\ \A v \in tasks : v.who = m /\ v.kind # "setup" /\ v.now = i
                    => (Got(v, k) <=> Due(m, k, i))
    BY <1>0 DEF AllInTurn, RolesOK
  <2>2. \A k, i : Holds(m, k, i)' <=> Holds(m, k, i)
    BY <1>1, <1>2, <1>7 DEF Holds
  <2>3. \A v, k : v.who = m => (Got(v, k)' <=> Got(v, k))
    BY <2>2 DEF Got
  <2>4. \A v : v.who = m => (v \in tasks' <=> v \in tasks)
    BY <1>1, <1>7
  <2>5. \A n \in roles'[m] : n \in 1..Len(guild') /\ FirstRole(n)'
    BY <1>1, <1>2, <1>5, <1>7, <2>1
  <2>. QED
    BY <1>4, <2>1, <2>2, <2>3, <2>4, <2>5
<1>8. ASSUME t.who \notin crossed
      PROVE  /\ \A n \in roles'[t.who] : n \in 1..Len(guild') /\ FirstRole(n)'
             /\ \A v \in tasks' : v.who # t.who
             /\ \A k \in Kinds, i \in 1..MaxId : Holds(t.who, k, i)' <=> Due(t.who, k, i)'
  <2>1. \A v \in tasks' : v.who # t.who
    BY <1>0, <1>1, <1>8 DEF AllInTurn, InTurn
  <2>2. \A k, i : Holds(t.who, k, i)' <=> \E n \in t.mine : guild[n] = <<k, i>>
    BY <1>1, <1>2 DEF Holds
  <2>3. CASE t.kind = "setup"
    <3>1. SetupOK(t) /\ t.left = {}
      BY <1>0, <2>3 DEF AllInTurn, HandlersOK, SetupOK
    <3>2. \A k \in Kinds, i \in 1..MaxId :
             (\E n \in t.mine : guild[n] = <<k, i>>) <=> Stored(t.who, k, i)
      BY <1>0, <3>1 DEF SetupOK
    <3>3. \A i : Changing(i) = {}
      <4>1. \A r \in Requests : ~Active(r)
        BY <1>0, <2>3 DEF AllInTurn, InTurn
      <4>. QED
        BY <4>1 DEF Changing, Active, Ended
    <3>4. \A k, i : Due(t.who, k, i) <=> Stored(t.who, k, i)
      BY <3>3 DEF Due
    <3>5. \A n \in t.mine : n \in 1..Len(guild) /\ FirstRole(n)
      BY <1>0, <3>1 DEF SetupOK
    <3>. QED
      BY ZenonT(60), <1>1, <1>2, <1>4, <1>5, <2>1, <2>2, <3>2, <3>4, <3>5
  <2>4. CASE t.kind # "setup"
    <3>1. /\ \A n \in t.mine : n \in 1..Len(guild) /\ FirstRole(n)
          /\ \A k \in Kinds, i \in 1..MaxId :
                (\E n \in t.mine : guild[n] = <<k, i>>)
                   <=> IF i = t.now THEN Got(t, k) ELSE Holds(t.who, k, i)
      BY <1>0, <1>8, <2>4, WrittenRoles
    <3>2. \A v \in tasks : v.who = t.who => v = t
      BY <1>0, <1>8 DEF AllInTurn, InTurn
    <3>3. ASSUME NEW k \in Kinds, NEW i \in 1..MaxId
          PROVE  IF i = t.now THEN Got(t, k) <=> Due(t.who, k, i) ELSE Holds(t.who, k, i) <=> Due(t.who, k, i)
      BY <1>0, <1>8, <2>4, <3>2 DEF AllInTurn, RolesOK
    <3>4. \A k \in Kinds, i \in 1..MaxId : Holds(t.who, k, i)' <=> Due(t.who, k, i)'
      BY <1>4, <2>2, <3>1, <3>3
    <3>. QED
      BY <1>1, <1>2, <1>5, <2>1, <3>1, <3>4
  <2>. QED
    BY <2>3, <2>4
<1>9. RolesOK'
  <2>. SUFFICES ASSUME NEW m \in Members \ crossed
                PROVE  /\ \A n \in roles'[m] : n \in 1..Len(guild') /\ FirstRole(n)'
                       /\ \A k \in Kinds, i \in 1..MaxId :
                             /\ (\A v \in tasks' : v.who = m => v.kind # "setup" /\ v.now # i)
                                   => (Holds(m, k, i)' <=> Due(m, k, i)')
                             /\ \A v \in tasks' : v.who = m /\ v.kind # "setup" /\ v.now = i
                                   => (Got(v, k)' <=> Due(m, k, i)')
    BY <1>1 DEF RolesOK
  <2>1. CASE m # t.who
    BY <1>7, <2>1
  <2>2. CASE m = t.who
    BY <1>8, <2>2
  <2>. QED
    BY <2>1, <2>2
<1>10. Marked'
  <2>1. Marked
    BY <1>0 DEF AllInTurn
  <2>2. \A i : Making(t, i) = FALSE
    BY <1>0 DEF Making
  <2>3. \A i, v : Making(v, i)' <=> Making(v, i)
    BY DEF Making
  <2>. QED
    BY <1>1, <1>4, <2>1, <2>2, <2>3 DEF Marked
<1>11. MadeAlone'
  BY <1>0, <1>1, <1>4 DEF AllInTurn, MadeAlone
<1>12. AllAllowed'
  <2>1. AllAllowed /\ Given' = Given
    BY <1>0, <1>1 DEF AllInTurn, Given
  <2>. QED
    BY <1>1, <2>1 DEF AllAllowed, Allowed
<1>. QED
  BY <1>3, <1>6, <1>9, <1>10, <1>11, <1>12 DEF RolesInv, AllInTurn

-----------------------------------------------------------------------------
(* Requests, when nothing goes wrong *)

LEMMA Calm ==
    ASSUME RolesCalm, IInv, Given.quiet
    PROVE  /\ Given.failing = {} /\ Given.away = {} /\ ~Given.fresh
           /\ \A o \in Given.menu :
                 /\ o.name = "create" => Enlisted(o) = {} /\ o.lead \notin Members
                 /\ o.name \in {"set", "add"} =>
                       \A m, n \in Members : {m, n} \subseteq Enlisted(o) \union {o.lead} => m = n
                 /\ o.name = "delete" => \A m \in Members : ~(MayJoin(Given, m) /\ MayLead(Given, m))
<1>1. given \in DOMAIN Conditions
  BY DEF IInv, TypeOK
<1>. QED
  BY <1>1 DEF RolesCalm, Given

LEMMA NothingFails ==
    ASSUME RolesCalm, IInv, Given.quiet
    PROVE  /\ \A r \in Requests : ~Fail(r)
           /\ \A t \in tasks : ~SetupFails(t) /\ ~Crash(t)
BY Calm DEF Fail, SetupFails, Crash

\* A step of a request that leaves alone the teams and the bot.
LEMMA QuietStep ==
    ASSUME IInv, RolesInv, Given.quiet, NEW r \in Requests, tasks = {},
           UNCHANGED <<teams, given, bot, up>>,
           pc[r] \notin {"save", "delete"}, pc'[r] \notin {"save", "delete"},
           \A s \in Requests \ {r} : ~Active(s) /\ pc'[s] = pc[s] /\ my'[s] = my[s] /\ op'[s] = op[s],
           pc'[r] = "insert" => Allowed(my'[r]) /\ my'[r].lead \notin Members
    PROVE  RolesInv'
<1>0. TypeOK /\ AllInTurn
  BY DEF IInv, RolesInv
<1>1. UNCHANGED <<teams, given, up, guild, roles, tasks, turn, opened, crossed>> /\ Given' = Given
  BY DEF bot, Given
<1>2. \A s \in Requests \ {r} : ~Active(s)'
  BY DEF Active
<1>3. InTurn'
  <2>1. \A s \in Requests : ~Busy(s)'
    BY <1>1 DEF Busy
  <2>2. up
    BY <1>0 DEF AllInTurn, InTurn
  <2>. QED
    BY <1>1, <1>2, <2>1, <2>2 DEF InTurn
<1>4. HandlersOK'
  BY <1>1 DEF HandlersOK
<1>5. \A i : Changing(i) = {} /\ Changing(i)' = {}
  BY <1>2 DEF Changing, Active, Ended
<1>6. \A m, k, i : (Stored(m, k, i)' <=> Stored(m, k, i))
  <2>1. \A i : Found(i)' = Found(i)
    BY DEF Found
  <2>. QED
    BY <2>1 DEF Stored
<1>7. \A m, k, i : Due(m, k, i)' <=> Due(m, k, i)
  BY <1>5, <1>6 DEF Due
<1>8. \A j, h : Lowest(j, h)' = Lowest(j, h)
  BY <1>0, <1>1, SameRoles
<1>9. RolesOK'
  <2>1. \A n : FirstRole(n)' <=> FirstRole(n)
    BY <1>1, <1>8 DEF FirstRole
  <2>2. \A m, k, i : Holds(m, k, i)' <=> Holds(m, k, i)
    BY <1>1 DEF Holds
  <2>3. RolesOK
    BY <1>0 DEF AllInTurn
  <2>. QED
    BY <1>1, <1>7, <2>1, <2>2, <2>3 DEF RolesOK
<1>10. Marked'
  BY <1>0, <1>1, <1>7, <1>8 DEF AllInTurn, Marked
<1>11. MadeAlone'
  BY <1>1 DEF MadeAlone
<1>12. AllAllowed'
  <2>1. AllAllowed
    BY <1>0 DEF AllInTurn
  <2>3. ASSUME NEW s \in Requests
        PROVE  /\ pc'[s] = "insert" => Allowed(my'[s]) /\ my'[s].lead \notin Members
               /\ pc'[s] = "save" /\ op'[s].id # 0 => Allowed(my'[s])
    <3>1. CASE s = r
      BY <2>3, <3>1
    <3>2. CASE s # r
      <4>1. pc'[s] = pc[s] /\ my'[s] = my[s] /\ op'[s] = op[s]
        BY <3>2
      <4>2. /\ pc[s] = "insert" => Allowed(my[s]) /\ my[s].lead \notin Members
            /\ pc[s] = "save" /\ op[s].id # 0 => Allowed(my[s])
        BY <2>1 DEF AllAllowed
      <4>. QED
        BY <4>1, <4>2
    <3>. QED
      BY <3>1, <3>2
  <2>. QED
    BY <1>1, <2>1, <2>3 DEF AllAllowed, Allowed
<1>. QED
  BY <1>3, <1>4, <1>9, <1>10, <1>11, <1>12 DEF RolesInv, AllInTurn

\* Nobody else is at it, and until the bot has been told it has nothing to do.
LEMMA Alone ==
    ASSUME IInv, RolesInv, Given.quiet, NEW r \in Requests, Active(r)
    PROVE  /\ \A s \in Requests \ {r} : ~Active(s) /\ ~Busy(s)
           /\ pc[r] \notin {"save", "delete"} => tasks = {} /\ \A i : Changing(i) = {}
           /\ \A i : Changing(i) \subseteq {r}
<1>1. InTurn
  BY DEF RolesInv, AllInTurn
<1>2. \A s \in Requests \ {r} : ~Active(s) /\ ~Busy(s)
  BY <1>1 DEF InTurn
<1>3. \A i : Changing(i) \subseteq {r} /\ (pc[r] \notin {"save", "delete"} => Changing(i) = {})
  BY <1>2 DEF Changing, Active, Ended
<1>. QED
  BY <1>1, <1>2, <1>3 DEF InTurn

LEMMA ArriveKeeps ==
    ASSUME IInv, RolesInv, Given.quiet, NEW r \in Requests, Arrive(r)
    PROVE  RolesInv'
<1>0. /\ pc \in [Requests -> Labels] /\ op \in [Requests -> Ops \union {Undef}]
      /\ tasks \subseteq Tasks /\ Given.menu \subseteq Ops
  BY GivenOK DEF IInv, TypeOK
<1>1. \A s \in Requests : ~Active(s) /\ ~Busy(s)
  BY DEF Arrive
<1>2. tasks = {}
  <2>1. \A t \in tasks : t.by \in Requests /\ Busy(t.by)
    BY <1>0 DEF Tasks, Busy
  <2>. QED
    BY <1>1, <2>1
<1>3. PICK o \in Given.menu : op' = [op EXCEPT ![r] = o] /\ pc' = [pc EXCEPT ![r] = Start(o.name)]
  BY DEF Arrive
<1>4. pc[r] = "idle" /\ UNCHANGED <<teams, my, given, bot, up>>
  BY DEF Arrive
<1>5. pc'[r] \in {"newid", "get", "tell"}
  BY <1>0, <1>3 DEF Start, Ops, OpNames
<1>6. \A s \in Requests \ {r} : pc'[s] = pc[s] /\ my'[s] = my[s] /\ op'[s] = op[s]
  BY <1>0, <1>3, <1>4
<1>. QED
  BY <1>1, <1>2, <1>4, <1>5, <1>6, QuietStep

\* The steps of a request that do not tell the bot anything and store nothing.
LEMMA GoesKeeps ==
    ASSUME IInv, RolesInv, Given.quiet, NEW r \in Requests, Active(r), pc[r] \notin {"save", "delete"},
           NEW label, label \notin {"save", "delete"}, NEW t, Goes(r, label, t),
           UNCHANGED <<teams, bot, up>>, label = "insert" => Allowed(t) /\ t.lead \notin Members
    PROVE  RolesInv'
<1>0. pc \in [Requests -> Labels] /\ my \in [Requests -> Teams \union {Undef}]
  BY DEF IInv, TypeOK
<1>1. pc'[r] = label /\ given' = given /\ op' = op
      /\ \A s \in Requests \ {r} : pc'[s] = pc[s] /\ my'[s] = my[s]
  BY <1>0 DEF Goes
<1>2. label = "insert" => my'[r] = t
  BY <1>0 DEF Goes, Ended
<1>3. tasks = {} /\ \A s \in Requests \ {r} : ~Active(s)
  BY Alone
<1>. QED
  BY <1>1, <1>2, <1>3, QuietStep

LEMMA ReadsKeep ==
    ASSUME RolesCalm, IInv, RolesInv, Given.quiet, NEW r \in Requests,
           NewID(r) \/ Names(r) \/ Get(r) \/ LookForMember(r)
    PROVE  RolesInv'
<1>1. CASE NewID(r)
  <2>1. PICK n \in 1..MaxId : Goes(r, "insert", NewTeam(n, op[r].lead))
    BY <1>1 DEF NewID
  <2>2. Active(r) /\ pc[r] = "newid" /\ op[r] \in Given.menu /\ op[r].name = "create"
    BY <1>1 DEF NewID, Active, Ended, IInv, Control, Doers
  <2>3. op[r].lead \notin Members /\ Undef \notin Members
    BY <2>2, Calm, TeamsOK
  <2>4. Allowed(NewTeam(n, op[r].lead)) /\ NewTeam(n, op[r].lead).lead \notin Members
    BY <2>3 DEF Allowed, NewTeam
  <2>. QED
    BY <1>1, <2>1, <2>2, <2>4, GoesKeeps DEF NewID
<1>2. CASE Names(r)
  BY <1>2, GoesKeeps DEF Names, Goto, Active, Ended
<1>3. CASE Get(r)
  <2>1. Active(r) /\ pc[r] = "get" /\ UNCHANGED <<teams, bot, up>>
    BY <1>3 DEF Get, Active, Ended
  <2>2. PICK label, t : label \in {"member", "apply", "failed"} /\ Goes(r, label, t)
    BY <1>3 DEF Get, Goto
  <2>. QED
    BY <2>1, <2>2, GoesKeeps
<1>4. CASE LookForMember(r)
  BY <1>4, GoesKeeps DEF LookForMember, Goto, Active, Ended
<1>. QED
  BY <1>1, <1>2, <1>3, <1>4

\* The last step of a request that has told the bot.
LEMMA StoresKeep ==
    ASSUME IInv, RolesInv, Given.quiet, NEW r \in Requests, Active(r),
           UNCHANGED <<op, given, bot, up>>, ~Active(r)',
           \A s \in Requests \ {r} : pc'[s] = pc[s] /\ my'[s] = my[s],
           \A t \in tasks : t.kind # "setup",
           \A i \in 1..MaxId, m \in Members, k \in Kinds : Due(m, k, i)' <=> Due(m, k, i),
           \A w \in Slots : teams'[w] # Undef => Allowed(teams'[w])
    PROVE  RolesInv'
<1>0. TypeOK /\ AllInTurn
  BY DEF IInv, RolesInv
<1>1. UNCHANGED <<given, up, guild, roles, tasks, turn, opened, crossed>> /\ Given' = Given
  BY DEF bot, Given
<1>2. \A s \in Requests : ~Active(s)' /\ (Busy(s)' <=> Busy(s))
  <2>1. \A s \in Requests \ {r} : ~Active(s)
    BY Alone
  <2>. QED
    BY <1>1, <2>1 DEF Active, Busy
<1>3. InTurn'
  <2>1. InTurn
    BY <1>0 DEF AllInTurn
  <2>. QED
    BY <1>1, <1>2, <2>1 DEF InTurn
<1>4. \A j, h : Lowest(j, h)' = Lowest(j, h)
  BY <1>0, <1>1, SameRoles
<1>5. (\A n : FirstRole(n)' <=> FirstRole(n)) /\ (\A n, j, h : Role(n, j, h)' <=> Role(n, j, h))
  BY <1>1, <1>4 DEF FirstRole, Role
<1>6. HandlersOK'
  <2>1. ASSUME NEW t \in tasks PROVE ChangeOK(t)'
    <3>1. ChangeOK(t)
      BY <1>0, <2>1 DEF AllInTurn, HandlersOK
    <3>. QED
      BY <1>1, <1>4, <1>5, <3>1 DEF ChangeOK, NewRoles
  <2>. QED
    BY <1>1, <2>1 DEF HandlersOK
<1>7. RolesOK'
  <2>1. \A m, k, i : Holds(m, k, i)' <=> Holds(m, k, i)
    BY <1>1 DEF Holds
  <2>2. \A t, k : Got(t, k)' <=> Got(t, k)
    BY <2>1 DEF Got
  <2>3. RolesOK
    BY <1>0 DEF AllInTurn
  <2>. QED
    BY <1>1, <1>5, <2>1, <2>2, <2>3 DEF RolesOK
<1>8. Marked'
  BY <1>0, <1>1, <1>4 DEF AllInTurn, Marked, Making
<1>9. MadeAlone'
  BY <1>0, <1>1, <1>4 DEF AllInTurn, MadeAlone
<1>10. AllAllowed'
  <2>1. \A s \in Requests : pc'[s] \notin {"insert", "save"}
    BY <1>2 DEF Active, Ended
  <2>. QED
    BY <1>1, <2>1 DEF AllAllowed, Allowed
<1>. QED
  BY <1>3, <1>6, <1>7, <1>8, <1>9, <1>10 DEF RolesInv, AllInTurn

LEMMA SaveKeeps ==
    ASSUME BookInv, RolesInv, Given.quiet, NEW r \in Requests, Save(r)
    PROVE  RolesInv'
<1>0. /\ IInv /\ TypeOK /\ AllInTurn /\ Ready(r) /\ pc[r] = "save" /\ Active(r)
      /\ pc \in [Requests -> Labels] /\ my \in [Requests -> Teams \union {Undef}]
      /\ my[r] \in Teams /\ my[r].id = op[r].id /\ my[r] # Undef
  BY TeamsOK DEF BookInv, IInv, TypeOK, RolesInv, Save, Active, Ended, Control, HasTeam
<1>. DEFINE i0 == op[r].id
<1>1. PICK label \in Ended : Goes(r, label, my[r])
  BY DEF Save, Goto, Ended
<1>2. /\ op' = op /\ given' = given /\ UNCHANGED <<bot, up>> /\ pc'[r] \in Ended
      /\ \A s \in Requests \ {r} : pc'[s] = pc[s] /\ my'[s] = my[s]
  BY <1>0, <1>1 DEF Goes, Save
<1>3. \A s \in Requests \ {r} : ~Active(s)
  BY <1>0, Alone
<1>4. \A i : Changing(i)' = {} /\ Changing(i) = IF i = i0 THEN {r} ELSE {}
  BY <1>0, <1>2, <1>3 DEF Changing, Active, Ended
<1>5. \A w \in Slots : teams'[w] = IF i0 # 0 /\ w \in Found(i0) THEN my[r] ELSE teams[w]
  BY <1>0 DEF Save, Saved, TypeOK
<1>6. \A i : Found(i)' = Found(i)
  BY <1>0, <1>5 DEF Found
<1>7. ASSUME NEW i \in 1..MaxId, NEW m \in Members, NEW k \in Kinds
      PROVE  Due(m, k, i)' <=> Due(m, k, i)
  <2>1. Due(m, k, i)' <=> Stored(m, k, i)'
    BY <1>4 DEF Due
  <2>2. CASE i # i0
    <3>1. \A w \in Found(i) : teams'[w] = teams[w]
      BY <1>5, <2>2 DEF Found
    <3>2. Stored(m, k, i)' <=> Stored(m, k, i)
      BY <1>6, <3>1 DEF Stored
    <3>. QED
      BY <1>4, <2>1, <2>2, <3>2 DEF Due
  <2>3. CASE i = i0
    <3>1. i0 # 0
      BY <2>3
    <3>2. PICK w \in Slots : Found(i0) = {w}
      BY <1>0, <3>1 DEF Ready
    <3>3. teams'[w] = my[r]
      BY <1>5, <3>1, <3>2
    <3>4. Stored(m, k, i)' <=> Says(my[r], m, k)
      BY <1>6, <2>3, <3>2, <3>3 DEF Stored
    <3>5. Due(m, k, i) <=> Says(my[r], m, k)
      BY <1>0, <1>4, <2>3 DEF Due
    <3>. QED
      BY <2>1, <3>4, <3>5
  <2>. QED
    BY <2>2, <2>3
<1>8. \A w \in Slots : teams'[w] # Undef => Allowed(teams'[w])
  BY <1>0, <1>5 DEF AllInTurn, AllAllowed
<1>9. \A t \in tasks : t.kind # "setup"
  BY <1>0 DEF AllInTurn, InTurn
<1>. QED
  BY <1>0, <1>2, <1>7, <1>8, <1>9, StoresKeep DEF Active

LEMMA DeleteKeeps ==
    ASSUME IInv, RolesInv, Given.quiet, NEW r \in Requests, Delete(r)
    PROVE  RolesInv'
<1>0. /\ TypeOK /\ AllInTurn /\ pc[r] = "delete" /\ Active(r)
      /\ pc \in [Requests -> Labels] /\ my \in [Requests -> Teams \union {Undef}]
  BY DEF IInv, TypeOK, RolesInv, Delete, Active, Ended
<1>. DEFINE i0 == op[r].id
<1>1. /\ op' = op /\ given' = given /\ UNCHANGED <<bot, up>> /\ pc'[r] \in Ended
      /\ \A s \in Requests \ {r} : pc'[s] = pc[s] /\ my'[s] = my[s]
  BY <1>0 DEF Goes, Goto, Delete, Ended
<1>3. \A s \in Requests \ {r} : ~Active(s)
  BY <1>0, Alone
<1>4. \A i : Changing(i)' = {} /\ Changing(i) = IF i = i0 THEN {r} ELSE {}
  BY <1>0, <1>1, <1>3 DEF Changing, Active, Ended
<1>5. \A w \in Slots : teams'[w] = IF w \in Found(i0) THEN Undef ELSE teams[w]
  BY DEF Delete
<1>6. \A i : Found(i)' = IF i = i0 THEN {} ELSE Found(i)
  BY <1>5 DEF Found
<1>7. ASSUME NEW i \in 1..MaxId, NEW m \in Members, NEW k \in Kinds
      PROVE  Due(m, k, i)' <=> Due(m, k, i)
  <2>1. Due(m, k, i)' <=> Stored(m, k, i)'
    BY <1>4 DEF Due
  <2>2. CASE i # i0
    <3>1. \A w \in Found(i) : teams'[w] = teams[w]
      BY <1>5, <2>2 DEF Found
    <3>2. Stored(m, k, i)' <=> Stored(m, k, i)
      BY <1>6, <2>2, <3>1 DEF Stored
    <3>. QED
      BY <1>4, <2>1, <2>2, <3>2 DEF Due
  <2>3. CASE i = i0
    <3>1. ~Stored(m, k, i)'
      BY <1>6, <2>3 DEF Stored
    <3>2. ~Due(m, k, i)
      BY <1>0, <1>4, <2>3 DEF Due
    <3>. QED
      BY <2>1, <3>1, <3>2
  <2>. QED
    BY <2>2, <2>3
<1>8. \A w \in Slots : teams'[w] # Undef => Allowed(teams'[w])
  BY <1>0, <1>5 DEF AllInTurn, AllAllowed
<1>9. \A t \in tasks : t.kind # "setup"
  BY <1>0 DEF AllInTurn, InTurn
<1>. QED
  BY <1>0, <1>1, <1>7, <1>8, <1>9, StoresKeep DEF Active

-----------------------------------------------------------------------------
(* The bot is told *)

LEMMA FourFinite == \A a, b, c, d : IsFiniteSet({a, b, c, d})
<1>. SUFFICES ASSUME NEW a, NEW b, NEW c, NEW d PROVE IsFiniteSet({a, b, c, d})
  OBVIOUS
<1>1. IsFiniteSet({a})
  BY FS_Singleton
<1>2. IsFiniteSet({a} \union {b})
  BY <1>1, FS_AddElement
<1>3. IsFiniteSet(({a} \union {b}) \union {c})
  BY <1>2, FS_AddElement
<1>4. IsFiniteSet((({a} \union {b}) \union {c}) \union {d})
  BY <1>3, FS_AddElement
<1>5. (({a} \union {b}) \union {c}) \union {d} = {a, b, c, d}
  OBVIOUS
<1>. QED
  BY <1>4, <1>5

LEMMA TwoOfThem ==
    ASSUME NEW S, IsFiniteSet(S), NEW x \in S, NEW y \in S, x # y
    PROVE  Cardinality(S) > 1
<1>1. Cardinality(S) \in Nat
  BY FS_CardinalityType
<1>2. Cardinality(S) # 0
  BY FS_EmptySet
<1>3. Cardinality(S) # 1
  <2>1. ~\E z : S = {z}
    OBVIOUS
  <2>. QED
    BY <2>1, FS_Singleton
<1>. QED
  BY <1>1, <1>2, <1>3

\* Of one member the bot is told at most these things.
Tidings(m) ==
    {Event("remove", m, FALSE, FALSE), Event("remove", m, TRUE, FALSE),
     Event("add", m, TRUE, FALSE), Event("add", m, TRUE, TRUE)}

LEMMA ToldWhat ==
    ASSUME NEW t, NEW o, NEW e \in Told(t, o)
    PROVE  e.who \in Members /\ e \in Tidings(e.who) /\ e.kind \in {"add", "remove"}
<1>0. \A s, m : IsMember(s, m) \in BOOLEAN /\ IsLeader(s, m) \in BOOLEAN
  BY DEF IsMember, IsLeader
<1>1. \E m \in Members : e \in Tidings(m)
  <2>1. \A s, gone : e \in Leavers(s, gone) => \E m \in Members : e \in Tidings(m)
    BY DEF Leavers, Tidings
  <2>2. \A s, jobs : e \in Joiners(s, jobs) => \E m \in Members : e \in Tidings(m)
    BY DEF Joiners, Tidings
  <2>3. \A s : e \in OldLeader(s) => \E m \in Members : e \in Tidings(m)
    BY <1>0 DEF OldLeader, Tidings
  <2>4. \A l : e \in NewLeader(l) => \E m \in Members : e \in Tidings(m)
    BY DEF NewLeader, Tidings
  <2>5. e \in {Event("add", m, TRUE, IsLeader(t, m)) : m \in {x \in Members : o.jobs[x] # Undef}}
           => \E m \in Members : e \in Tidings(m)
    BY <1>0 DEF Tidings
  <2>. QED
    BY <2>1, <2>2, <2>3, <2>4, <2>5 DEF Told
<1>2. PICK m \in Members : e \in Tidings(m)
  BY <1>1
<1>3. e.who = m /\ e.kind \in {"add", "remove"}
  BY <1>2 DEF Tidings, Event
<1>. QED
  BY <1>2, <1>3

\* The handlers for these events, and whom more than one is busy with.
Starting(r, i, events) == {Task(r, i, e) : e \in events}
Twice(T) == {m \in Members : Cardinality({x \in T : x.who = m}) > 1}

\* Whomever the bot is told of twice is crossed.
LEMMA CrossedAre ==
    ASSUME NEW r, NEW i, NEW events,
           \A e \in events : e.who \in Members /\ e \in Tidings(e.who),
           NEW T, T = Starting(r, i, events),
           NEW t \in T, NEW u \in T, t.who = u.who, t # u
    PROVE  t.who \in Twice(T)
<1>. PICK m : m = t.who
  OBVIOUS
<1>. DEFINE S == {x \in T : x.who = m}
            a == Task(r, i, Event("remove", m, FALSE, FALSE))
            b == Task(r, i, Event("remove", m, TRUE, FALSE))
            c == Task(r, i, Event("add", m, TRUE, FALSE))
            d == Task(r, i, Event("add", m, TRUE, TRUE))
<1>1. \A e : Task(r, i, e).who = e.who
  BY DEF Task
<1>2. m \in Members
  BY <1>1 DEF Starting
<1>3. S \subseteq {a, b, c, d}
  <2>1. ASSUME NEW e \in events, e.who = m PROVE Task(r, i, e) \in {a, b, c, d}
    BY <2>1 DEF Tidings
  <2>. QED
    BY <1>1, <2>1 DEF Starting
<1>4. IsFiniteSet({a, b, c, d})
  <2>. HIDE DEF a, b, c, d
  <2>. QED
    BY FourFinite
<1>5. IsFiniteSet(S)
  <2>. HIDE DEF S, a, b, c, d
  <2>. QED
    BY <1>3, <1>4, FS_Subset
<1>6. Cardinality(S) > 1
  <2>1. t \in S /\ u \in S
    OBVIOUS
  <2>. HIDE DEF S
  <2>. QED
    BY <1>5, <2>1, TwoOfThem
<1>. QED
  BY <1>2, <1>6 DEF Twice

LEMMA TellOfMemberKeeps ==
    ASSUME RolesCalm, IInv, RolesInv, Given.quiet, NEW r \in Requests, TellOfMember(r)
    PROVE  RolesInv'
<1>0. /\ TypeOK /\ AllInTurn /\ pc[r] = "tell" /\ Active(r)
      /\ pc \in [Requests -> Labels] /\ my \in [Requests -> Teams \union {Undef}]
  BY DEF IInv, TypeOK, RolesInv, TellOfMember, Active, Ended
<1>. DEFINE events == {Event("setup", m, FALSE, FALSE) : m \in {x \in Members : op[r].jobs[x] # Undef}}
<1>1. UNCHANGED <<op, teams, given, guild, roles, turn, opened, up>> /\ pc'[r] = "done" /\ Given' = Given
      /\ \A s \in Requests \ {r} : pc'[s] = pc[s] /\ my'[s] = my[s]
  BY <1>0 DEF Goes, Goto, TellOfMember, Given
<1>2. tasks = {} /\ (\A s \in Requests \ {r} : ~Active(s)) /\ \A i : Changing(i) = {}
  BY <1>0, Alone
<1>3. tasks' = {Task(r, op[r].id, e) : e \in events} /\ crossed \subseteq crossed'
  <2>1. up /\ r \notin Given.away
    BY <1>0, Calm DEF AllInTurn, InTurn
  <2>. QED
    BY <1>2, <2>1 DEF TellOfMember, Tell
<1>4. \A t \in tasks' : t.by = r /\ t.kind = "setup" /\ t.at = "teams" /\ t.mine = {}
  BY <1>3 DEF Task, Event
<1>5. ASSUME NEW t \in tasks', NEW u \in tasks', t.who = u.who PROVE t = u
  <2>1. PICK m : t = Task(r, op[r].id, Event("setup", m, FALSE, FALSE))
    BY <1>3
  <2>2. PICK n : u = Task(r, op[r].id, Event("setup", n, FALSE, FALSE))
    BY <1>3
  <2>3. t.who = m /\ u.who = n
    BY <2>1, <2>2 DEF Task, Event
  <2>. QED
    BY <1>5, <2>1, <2>2, <2>3
<1>6. \A s \in Requests : ~Active(s)' /\ (Busy(s)' => s = r)
  BY <1>1, <1>2, <1>4 DEF Active, Busy, Ended
<1>7. InTurn'
  BY <1>0, <1>1, <1>4, <1>5, <1>6 DEF InTurn, AllInTurn
<1>8. HandlersOK'
  <2>1. \A t \in tasks' : SetupOK(t)'
    BY <1>4 DEF SetupOK
  <2>. QED
    BY <1>4, <2>1 DEF HandlersOK
<1>9. \A m, k, i : Due(m, k, i)' <=> Due(m, k, i)
  <2>1. \A i : Changing(i)' = {}
    BY <1>6 DEF Changing, Active, Ended
  <2>2. \A i : Found(i)' = Found(i)
    BY <1>1 DEF Found
  <2>3. \A m, k, i : Stored(m, k, i)' <=> Stored(m, k, i)
    BY <1>1, <2>2 DEF Stored
  <2>. QED
    BY <1>2, <2>1, <2>3 DEF Due
<1>10. \A j, h : Lowest(j, h)' = Lowest(j, h)
  BY <1>0, <1>1, SameRoles
<1>11. RolesOK'
  <2>1. \A n : FirstRole(n)' <=> FirstRole(n)
    BY <1>1, <1>10 DEF FirstRole
  <2>2. \A m, k, i : Holds(m, k, i)' <=> Holds(m, k, i)
    BY <1>1 DEF Holds
  <2>3. RolesOK
    BY <1>0 DEF AllInTurn
  <2>. QED
    BY <1>1, <1>2, <1>3, <1>4, <1>9, <2>1, <2>2, <2>3 DEF RolesOK
<1>12. Marked'
  BY <1>0, <1>2, <1>9, <1>10 DEF AllInTurn, Marked
<1>13. MadeAlone'
  BY <1>4 DEF MadeAlone
<1>14. AllAllowed'
  <2>1. \A s \in Requests : pc'[s] \notin {"insert", "save"}
    BY <1>6 DEF Active, Ended
  <2>. QED
    BY <1>0, <1>1, <2>1 DEF AllInTurn, AllAllowed, Allowed
<1>. QED
  BY <1>7, <1>8, <1>11, <1>12, <1>13, <1>14 DEF RolesInv, AllInTurn

LEMMA InsertKeeps ==
    ASSUME RolesCalm, BookInv, RolesInv, Given.quiet, NEW r \in Requests, Insert(r)
    PROVE  RolesInv'
<1>0. /\ IInv /\ TypeOK /\ AllInTurn /\ Ready(r) /\ pc[r] = "insert" /\ Active(r)
      /\ pc \in [Requests -> Labels] /\ my \in [Requests -> Teams \union {Undef}]
      /\ teams \in [Slots -> Teams \union {Undef}]
      /\ my[r] \in Teams /\ op[r] \in Given.menu /\ op[r].name = "create" /\ op[r] \in Ops
  BY Asks DEF BookInv, IInv, TypeOK, RolesInv, Insert, Active, Ended, Control, Doers
<1>1. UNCHANGED <<op, given, guild, roles, turn, opened, up>> /\ pc'[r] = "names" /\ Given' = Given
      /\ \A s \in Requests \ {r} : pc'[s] = pc[s] /\ my'[s] = my[s]
  BY <1>0 DEF Goes, Goto, Insert, Given
<1>2. tasks = {} /\ (\A s \in Requests \ {r} : ~Active(s)) /\ \A i : Changing(i) = {}
  BY <1>0, Alone
<1>3. Told(my[r], op[r]) = {}
  <2>1. Enlisted(op[r]) = {}
    BY <1>0, Calm
  <2>2. \A m \in Members : op[r].jobs[m] = Undef
    BY <2>1 DEF Enlisted
  <2>3. Joiners(my[r], op[r].jobs) = {}
    BY <2>2 DEF Joiners, Joins
  <2>. QED
    BY <1>0, <2>3 DEF Told
<1>4. tasks' = {} /\ crossed' \subseteq crossed \union Members /\ crossed \subseteq crossed'
  BY <1>2, <1>3 DEF Insert, Tell
<1>5. PICK w \in Slots : teams[w] = Undef /\ teams' = [teams EXCEPT ![w] = my[r]]
  BY DEF Insert
<1>6. /\ teams'[w] = my[r] /\ my[r] # Undef
      /\ \A x \in Slots \ {w} : teams'[x] = teams[x]
  BY <1>0, <1>5, TeamsOK
<1>7. \A m \in Members, k \in Kinds : ~Says(my[r], m, k)
  <2>2. my[r].jobs = [m \in Members |-> {}]
    BY <1>0 DEF Ready
  <2>1. AllAllowed
    BY <1>0 DEF AllInTurn
  <2>3. my[r].lead \notin Members
    BY <1>0, <2>1 DEF AllAllowed
  <2>. QED
    BY <2>2, <2>3 DEF Says, IsLeader, IsPart, IsMember
<1>8. \A i, m, k : m \in Members /\ k \in Kinds => (Stored(m, k, i)' <=> Stored(m, k, i))
  <2>. SUFFICES ASSUME NEW m \in Members, NEW k \in Kinds, NEW i
                PROVE  Stored(m, k, i)' <=> Stored(m, k, i)
    OBVIOUS
  <2>1. \A x \in Slots \ {w} : x \in Found(i)' <=> x \in Found(i)
    BY <1>6 DEF Found
  <2>2. w \notin Found(i) /\ ~Says(teams'[w], m, k)
    BY <1>5, <1>6, <1>7 DEF Found
  <2>3. Stored(m, k, i)' <=> \E x \in Found(i)' : Says(teams'[x], m, k)
    BY DEF Stored
  <2>4. Found(i) \subseteq Slots /\ Found(i)' \subseteq Slots
    BY DEF Found
  <2>. QED
    BY <1>6, <2>1, <2>2, <2>3, <2>4 DEF Stored
<1>9. \A s \in Requests : pc'[s] \notin {"save", "delete", "insert"} /\ (s # r => ~Active(s)') /\ ~Busy(s)'
  BY <1>1, <1>2, <1>4 DEF Active, Ended, Busy
<1>10. \A i, m, k : m \in Members /\ k \in Kinds => (Due(m, k, i)' <=> Due(m, k, i))
  <2>1. \A i : Changing(i)' = {}
    BY <1>9 DEF Changing
  <2>. QED
    BY <1>2, <1>8, <2>1 DEF Due
<1>11. InTurn'
  BY <1>0, <1>1, <1>4, <1>9 DEF InTurn, AllInTurn
<1>12. HandlersOK' /\ MadeAlone'
  BY <1>4 DEF HandlersOK, MadeAlone
<1>13. \A j, h : Lowest(j, h)' = Lowest(j, h)
  BY <1>0, <1>1, SameRoles
<1>14. RolesOK'
  <2>1. \A n : FirstRole(n)' <=> FirstRole(n)
    BY <1>1, <1>13 DEF FirstRole
  <2>2. \A m, k, i : Holds(m, k, i)' <=> Holds(m, k, i)
    BY <1>1 DEF Holds
  <2>3. RolesOK
    BY <1>0 DEF AllInTurn
  <2>. QED
    BY <1>1, <1>2, <1>4, <1>10, <2>1, <2>2, <2>3 DEF RolesOK
<1>15. Marked'
  BY <1>0, <1>2, <1>4, <1>10, <1>13 DEF AllInTurn, Marked
<1>16. AllAllowed'
  <2>0. AllAllowed
    BY <1>0 DEF AllInTurn
  <2>1. Allowed(my[r]) /\ \A x \in Slots : teams[x] # Undef => Allowed(teams[x])
    BY <1>0, <2>0 DEF AllAllowed
  <2>2. \A x \in Slots : teams'[x] # Undef => Allowed(teams'[x])
    BY <1>6, <2>1
  <2>. QED
    BY <1>1, <1>9, <2>2 DEF AllAllowed, Allowed
<1>. QED
  BY <1>11, <1>12, <1>14, <1>15, <1>16 DEF RolesInv, AllInTurn

-----------------------------------------------------------------------------
(* What the bot is told fits what becomes of the team *)

\* What event e makes of role k of its member, who has it or not.
Kept(e, k, had) ==
    IF e.kind = "add" THEN k = "member" \/ e.lead \/ had
    ELSE had /\ (IF k = "lead" THEN e.lead ELSE e.part)

\* Whomever the bot is not told of is what he was, and whomever it is told of once
\* becomes what it is told.
FitsOf(t, n, events, m, k) ==
    /\ (\A e \in events : e.who # m) => (Says(n, m, k) <=> Says(t, m, k))
    /\ \A e \in events : e.who = m /\ (\A d \in events : d.who = m => d = e)
          => (Says(n, m, k) <=> Kept(e, k, Says(t, m, k)))

\* What the bot is told of who leaves, joins, leads no more, and leads.
Leaving(m) == Event("remove", m, FALSE, FALSE)
Joining(m) == Event("add", m, TRUE, FALSE)
SteppingDown(m, t) == Event("remove", m, IsMember(t, m), FALSE)
Leading(m) == Event("add", m, TRUE, TRUE)

\* The events about m.
LEMMA EventsOf ==
    ASSUME NEW m \in Members, NEW e, e.who = m
    PROVE  /\ \A t, gone : e \in Leavers(t, gone) <=> Left(t, m, gone) /\ e = Leaving(m)
           /\ \A t, jobs : e \in Joiners(t, jobs) <=> Joins(t, m, jobs) /\ e = Joining(m)
           /\ \A t : e \in OldLeader(t) <=> t.lead = m /\ e = SteppingDown(m, t)
           /\ \A l : e \in NewLeader(l) <=> l = m /\ e = Leading(m)
<1>1. ASSUME NEW t, NEW gone PROVE e \in Leavers(t, gone) <=> Left(t, m, gone) /\ e = Leaving(m)
  <2>1. ASSUME e \in Leavers(t, gone) PROVE Left(t, m, gone) /\ e = Leaving(m)
    <3>1. PICK x \in Members : Left(t, x, gone) /\ e = Leaving(x)
      BY <2>1 DEF Leavers, Leaving
    <3>2. e.who = x
      BY <3>1 DEF Event, Leaving
    <3>. QED
      BY <3>1, <3>2
  <2>2. ASSUME Left(t, m, gone), e = Leaving(m) PROVE e \in Leavers(t, gone)
    BY <2>2 DEF Leavers, Leaving
  <2>. QED
    BY <2>1, <2>2
<1>2. ASSUME NEW t, NEW jobs PROVE e \in Joiners(t, jobs) <=> Joins(t, m, jobs) /\ e = Joining(m)
  <2>1. ASSUME e \in Joiners(t, jobs) PROVE Joins(t, m, jobs) /\ e = Joining(m)
    <3>1. PICK x \in Members : Joins(t, x, jobs) /\ e = Joining(x)
      BY <2>1 DEF Joiners, Joining
    <3>2. e.who = x
      BY <3>1 DEF Event, Joining
    <3>. QED
      BY <3>1, <3>2
  <2>2. ASSUME Joins(t, m, jobs), e = Joining(m) PROVE e \in Joiners(t, jobs)
    BY <2>2 DEF Joiners, Joining
  <2>. QED
    BY <2>1, <2>2
<1>3. ASSUME NEW t PROVE e \in OldLeader(t) <=> t.lead = m /\ e = SteppingDown(m, t)
  <2>1. ASSUME e \in OldLeader(t) PROVE t.lead = m /\ e = SteppingDown(m, t)
    <3>1. PICK x \in Members : t.lead = x /\ e = SteppingDown(x, t)
      BY <2>1 DEF OldLeader, IsLeader, SteppingDown
    <3>2. e.who = x
      BY <3>1 DEF Event, SteppingDown
    <3>. QED
      BY <3>1, <3>2
  <2>2. ASSUME t.lead = m, e = SteppingDown(m, t) PROVE e \in OldLeader(t)
    BY <2>2 DEF OldLeader, IsLeader, SteppingDown
  <2>. QED
    BY <2>1, <2>2
<1>4. ASSUME NEW l PROVE e \in NewLeader(l) <=> l = m /\ e = Leading(m)
  <2>1. ASSUME e \in NewLeader(l) PROVE l = m /\ e = Leading(m)
    <3>1. PICK x \in Members : l = x /\ e = Leading(x)
      BY <2>1 DEF NewLeader, Leading
    <3>2. e.who = x
      BY <3>1 DEF Event, Leading
    <3>. QED
      BY <3>1, <3>2
  <2>2. ASSUME l = m, e = Leading(m) PROVE e \in NewLeader(l)
    BY <2>2 DEF NewLeader, Leading
  <2>. QED
    BY <2>1, <2>2
<1>. QED
  BY <1>1, <1>2, <1>3, <1>4

LEMMA KeptIs ==
    ASSUME NEW m, NEW k \in Kinds, NEW h \in BOOLEAN, NEW t
    PROVE  /\ ~Kept(Leaving(m), k, h)
           /\ Kept(Joining(m), k, h) <=> k = "member" \/ h
           /\ Kept(SteppingDown(m, t), k, h) <=> h /\ k # "lead" /\ IsMember(t, m)
           /\ Kept(Leading(m), k, h)
<1>1. ~Kept(Leaving(m), k, h)
  BY DEF Kept, Leaving, Event
<1>2. Kept(Joining(m), k, h) <=> k = "member" \/ h
  BY DEF Kept, Joining, Event
<1>3. Kept(SteppingDown(m, t), k, h) <=> h /\ k # "lead" /\ IsMember(t, m)
  BY DEF Kept, SteppingDown, Event
<1>4. Kept(Leading(m), k, h)
  BY DEF Kept, Leading, Event
<1>. QED
  BY <1>1, <1>2, <1>3, <1>4

LEMMA EventsDiffer ==
    ASSUME NEW m, NEW t
    PROVE  /\ Leaving(m).who = m /\ Joining(m).who = m /\ SteppingDown(m, t).who = m /\ Leading(m).who = m
           /\ Joining(m) \notin {Leaving(m), SteppingDown(m, t), Leading(m)}
           /\ Leading(m) \notin {Leaving(m), SteppingDown(m, t)}
<1>1. Leaving(m).who = m /\ Joining(m).who = m /\ SteppingDown(m, t).who = m /\ Leading(m).who = m
  BY DEF Leaving, Joining, SteppingDown, Leading, Event
<1>2. /\ Leaving(m).kind = "remove" /\ SteppingDown(m, t).kind = "remove"
      /\ Joining(m).kind = "add" /\ Leading(m).kind = "add"
  BY DEF Leaving, Joining, SteppingDown, Leading, Event
<1>3. Joining(m).lead # Leading(m).lead
  BY DEF Joining, Leading, Event
<1>. QED
  BY <1>1, <1>2, <1>3

LEMMA SetSays ==
    ASSUME NEW t \in Teams, NEW o \in Ops, o.name = "set", NEW f, NEW m \in Members, NEW k \in Kinds
    PROVE  FitsOf(t, Applied(t, o, f), Told(t, o), m, k)
<1>. DEFINE gone == Gone(t, o)
            come == Come(t, o)
            s0 == Without(t, gone, f)
            s1 == Without(t, gone, [x \in Members |-> Undef])
            n1 == With(s1, come)
            n == Applied(t, o, f)
            events == Told(t, o)
            L == Left(t, m, gone)
            J == Joins(s1, m, come)
            O == t.lead = m
            N == Leader(t, o) = m
            e1 == Leaving(m)
            e2 == Joining(m)
            e3 == SteppingDown(m, n1)
            e4 == Leading(m)
<1>1. t.jobs \in [Members -> SUBSET Jobs] /\ o.jobs \in [Members -> Jobs \union {Undef}]
  BY DEF Teams, Ops
<1>2. /\ s0.jobs[m] = IF L THEN {} ELSE t.jobs[m]
      /\ s0.lead = t.lead
  BY DEF Without, Teams
<1>3. /\ s1.jobs[m] = IF L THEN {} ELSE t.jobs[m]
      /\ s1.lead = t.lead
  BY DEF Without, Teams
<1>4. n = [With(s0, come) EXCEPT !.lead = Leader(t, o)]
  BY DEF Applied
<1>5. /\ With(s0, come).jobs[m] =
            IF come[m] = Undef \/ (~IsMember(s0, m) /\ IsLeader(s0, m)) THEN s0.jobs[m] ELSE {come[m]}
      /\ n1.jobs[m] =
            IF come[m] = Undef \/ (~IsMember(s1, m) /\ IsLeader(s1, m)) THEN s1.jobs[m] ELSE {come[m]}
      /\ n1.lead = t.lead
  BY DEF With, Without, Teams
<1>6. n.jobs[m] = n1.jobs[m] /\ n.lead = Leader(t, o)
  <2>1. n.jobs[m] = With(s0, come).jobs[m] /\ n.lead = Leader(t, o)
    BY <1>4 DEF With, Without, Teams
  <2>. QED
    BY <1>2, <1>3, <1>5, <2>1 DEF IsMember, IsLeader
<1>7. come[m] = IF o.all /\ t.jobs[m] = {} THEN o.jobs[m] ELSE Undef
  BY DEF Come, IsMember
<1>8. L <=> m \in gone /\ t.jobs[m] # {} /\ t.lead # m
  BY DEF Left, IsMember, IsLeader
<1>9. J <=> come[m] # Undef /\ s1.lead # m /\ s1.jobs[m] = {}
  BY DEF Joins, IsPart, IsMember, IsLeader
<1>10. (IsMember(n1, m) <=> n1.jobs[m] # {}) /\ IsMember(n1, m) \in BOOLEAN
  BY DEF IsMember
<1>11. \A e : e.who = m =>
          (e \in events <=> (L /\ e = e1) \/ (J /\ e = e2) \/ (O /\ e = e3) \/ (N /\ e = e4))
  <2>. SUFFICES ASSUME NEW e, e.who = m
                PROVE  e \in events <=> (L /\ e = e1) \/ (J /\ e = e2) \/ (O /\ e = e3) \/ (N /\ e = e4)
    OBVIOUS
  <2>1. events = Leavers(t, gone) \union Joiners(s1, come) \union OldLeader(n1)
                    \union NewLeader(Leader(t, o))
    BY DEF Told
  <2>2. /\ e \in Leavers(t, gone) <=> L /\ e = e1
        /\ e \in Joiners(s1, come) <=> J /\ e = e2
        /\ e \in OldLeader(n1) <=> n1.lead = m /\ e = e3
        /\ e \in NewLeader(Leader(t, o)) <=> N /\ e = e4
    <3>. HIDE DEF gone, s1, come, n1
    <3>. QED
      BY EventsOf
  <2>. QED
    BY <1>5, <2>1, <2>2
<1>. HIDE DEF gone, come, s0, s1, n, events
<1>12. /\ Says(t, m, k) <=> O \/ (k = "member" /\ t.jobs[m] # {})
       /\ Says(n, m, k) <=> N \/ (k = "member" /\ n1.jobs[m] # {})
       /\ Says(t, m, k) \in BOOLEAN
  BY <1>6 DEF Says, IsLeader, IsPart, IsMember, Kinds
<1>. HIDE DEF n1
<1>13. J => ~O /\ ~(L /\ t.jobs[m] = {})
  BY <1>3, <1>8, <1>9
<1>14. n1.jobs[m] = IF L THEN {} ELSE IF J THEN {come[m]} ELSE t.jobs[m]
  <2>1. L => come[m] = Undef
    BY <1>7, <1>8
  <2>2. J => come[m] # Undef /\ ~IsLeader(s1, m)
    BY <1>9 DEF IsLeader
  <2>3. ~L /\ ~J /\ come[m] # Undef => s1.lead = m
    BY <1>3, <1>7, <1>9
  <2>4. t.jobs[m] # {} => come[m] = Undef
    BY <1>7
  <2>5. (IsMember(s1, m) <=> s1.jobs[m] # {}) /\ (IsLeader(s1, m) <=> s1.lead = m)
    BY DEF IsMember, IsLeader
  <2>. QED
    BY <1>3, <1>5, <2>1, <2>2, <2>3, <2>4, <2>5
<1>. HIDE DEF L, J, O, N, e1, e2, e3, e4
<1>15. L => ~O
  BY <1>8 DEF O
<1>16. ASSUME \A e \in events : e.who # m PROVE Says(n, m, k) <=> Says(t, m, k)
  <2>1. ~L /\ ~J /\ ~O /\ ~N
    <3>1. e1.who = m /\ e2.who = m /\ e3.who = m /\ e4.who = m
      BY EventsDiffer DEF e1, e2, e3, e4
    <3>. QED
      BY <1>11, <1>16, <3>1
  <2>. QED
    BY <1>12, <1>14, <2>1
<1>17. ASSUME NEW e \in events, e.who = m, \A d \in events : d.who = m => d = e
       PROVE  Says(n, m, k) <=> Kept(e, k, Says(t, m, k))
  <2>1. /\ e1.who = m /\ e2.who = m /\ e3.who = m /\ e4.who = m
        /\ e2 \notin {e1, e3, e4} /\ e4 \notin {e1, e3}
    BY EventsDiffer DEF e1, e2, e3, e4
  <2>2. (L => e = e1) /\ (J => e = e2) /\ (O => e = e3) /\ (N => e = e4) /\ (L \/ J \/ O \/ N)
    BY <1>11, <1>17, <2>1
  <2>3. /\ ~Kept(e1, k, Says(t, m, k))
        /\ Kept(e2, k, Says(t, m, k)) <=> k = "member" \/ Says(t, m, k)
        /\ Kept(e3, k, Says(t, m, k)) <=> Says(t, m, k) /\ k # "lead" /\ IsMember(n1, m)
        /\ Kept(e4, k, Says(t, m, k))
    BY <1>12, KeptIs DEF e1, e2, e3, e4
  <2>4. CASE L
    <3>1. e = e1 /\ ~J /\ ~O /\ ~N
      BY <1>15, <2>1, <2>2, <2>4
    <3>. QED
      BY <1>12, <1>14, <2>3, <2>4, <3>1
  <2>5. CASE J /\ ~L
    <3>1. e = e2 /\ ~O /\ ~N
      BY <1>13, <2>1, <2>2, <2>5
    <3>. QED
      BY <1>12, <1>14, <2>3, <2>5, <3>1
  <2>6. CASE O /\ ~L /\ ~J
    <3>1. e = e3 /\ ~N
      BY <2>1, <2>2, <2>6
    <3>. QED
      BY <1>10, <1>12, <2>3, <2>6, <3>1 DEF Kinds
  <2>7. CASE N /\ ~L /\ ~J /\ ~O
    BY <1>12, <2>2, <2>3, <2>7
  <2>. QED
    BY <2>2, <2>4, <2>5, <2>6, <2>7
<1>. QED
  BY <1>16, <1>17 DEF FitsOf, events, n

LEMMA OthersSay ==
    ASSUME NEW t \in Teams, NEW o \in Ops, o.name \in {"add", "modify", "remove"}, NEW f,
           NEW m \in Members, NEW k \in Kinds
    PROVE  FitsOf(t, Applied(t, o, f), Told(t, o), m, k)
<1>. DEFINE n == Applied(t, o, f)
<1>1. /\ Says(t, m, k) <=> t.lead = m \/ (k = "member" /\ t.jobs[m] # {})
      /\ Says(n, m, k) <=> n.lead = m \/ (k = "member" /\ n.jobs[m] # {})
      /\ Says(t, m, k) \in BOOLEAN
  BY DEF Says, IsLeader, IsPart, IsMember, Kinds
<1>. HIDE DEF n
<1>2. CASE o.name = "add"
  <2>1. n.lead = t.lead /\ n.jobs[m] = IF o.jobs[m] = Undef THEN t.jobs[m] ELSE t.jobs[m] \union {o.jobs[m]}
    BY <1>2 DEF n, Applied, Added, Teams
  <2>. DEFINE e0 == Event("add", m, TRUE, IsLeader(t, m))
  <2>2. Told(t, o) = {Event("add", x, TRUE, IsLeader(t, x)) : x \in {y \in Members : o.jobs[y] # Undef}}
    BY <1>2 DEF Told
  <2>3. ASSUME NEW e \in Told(t, o), e.who = m PROVE o.jobs[m] # Undef /\ e = e0
    <3>1. PICK x \in Members : o.jobs[x] # Undef /\ e = Event("add", x, TRUE, IsLeader(t, x))
      BY <2>2, <2>3
    <3>2. e.who = x
      BY <3>1 DEF Event
    <3>. QED
      BY <2>3, <3>1, <3>2
  <2>4. o.jobs[m] # Undef => \E e \in Told(t, o) : e.who = m
    <3>1. e0.who = m
      BY DEF Event
    <3>2. o.jobs[m] # Undef => e0 \in Told(t, o)
      BY <2>2
    <3>. QED
      BY <3>1, <3>2
  <2>5. \A h \in BOOLEAN : Kept(e0, k, h) <=> k = "member" \/ t.lead = m \/ h
    BY DEF Kept, Event, IsLeader
  <2>. HIDE DEF e0
  <2>. QED
    BY <1>1, <2>1, <2>3, <2>4, <2>5 DEF FitsOf, n, Kinds
<1>3. CASE o.name = "modify"
  <2>1. n.lead = t.lead
        /\ n.jobs[m] = IF o.jobs[m] = Undef \/ t.jobs[m] = {} THEN t.jobs[m] ELSE {o.jobs[m]}
    BY <1>3 DEF n, Applied, Modified, Teams, IsMember
  <2>2. Told(t, o) = {}
    BY <1>3 DEF Told
  <2>3. n.jobs[m] = {} <=> t.jobs[m] = {}
    BY <2>1
  <2>. QED
    BY <1>1, <2>1, <2>2, <2>3 DEF FitsOf, n
<1>4. CASE o.name = "remove"
  <2>. DEFINE gone == {x \in Members : o.jobs[x] # Undef}
  <2>1. n.lead = t.lead /\ n.jobs[m] = IF Left(t, m, gone) THEN {} ELSE t.jobs[m]
    BY <1>4 DEF n, Applied, Without, Teams
  <2>2. Told(t, o) = Leavers(t, gone)
    BY <1>4 DEF Told
  <2>3. Left(t, m, gone) => t.lead # m
    BY DEF Left, IsLeader
  <2>. HIDE DEF gone
  <2>4. \A e : e.who = m => (e \in Told(t, o) <=> Left(t, m, gone) /\ e = Leaving(m))
    BY <2>2, EventsOf
  <2>5. Leaving(m).who = m /\ ~Kept(Leaving(m), k, Says(t, m, k))
    BY <1>1, EventsDiffer, KeptIs
  <2>. QED
    BY <1>1, <2>1, <2>3, <2>4, <2>5 DEF FitsOf, n
<1>. QED
  BY <1>2, <1>3, <1>4

\* A team is deleted: everyone is told to leave, or, if he leads it, to lead no
\* more, which is not enough for a leader who is on the list.
LEMMA DeleteSays ==
    ASSUME NEW t \in Teams, NEW o \in Ops, o.name = "delete", NEW m \in Members, NEW k \in Kinds,
           ~(t.lead = m /\ t.jobs[m] # {})
    PROVE  /\ (\A e \in Told(t, o) : e.who # m) => ~Says(t, m, k)
           /\ \A e \in Told(t, o) : e.who = m => ~Kept(e, k, Says(t, m, k))
<1>1. /\ Says(t, m, k) <=> t.lead = m \/ (k = "member" /\ t.jobs[m] # {})
      /\ Says(t, m, k) \in BOOLEAN
  BY DEF Says, IsLeader, IsPart, IsMember, Kinds
<1>2. Told(t, o) = Leavers(t, Members) \union OldLeader(t)
  BY DEF Told
<1>3. Left(t, m, Members) <=> t.jobs[m] # {} /\ t.lead # m
  BY DEF Left, IsMember, IsLeader
<1>4. IsMember(t, m) <=> t.jobs[m] # {}
  BY DEF IsMember
<1>5. \A e : e.who = m => (e \in Told(t, o) <=> \/ Left(t, m, Members) /\ e = Leaving(m)
                                                \/ t.lead = m /\ e = SteppingDown(m, t))
  BY <1>2, EventsOf
<1>6. /\ ~Kept(Leaving(m), k, Says(t, m, k))
      /\ Kept(SteppingDown(m, t), k, Says(t, m, k)) <=> Says(t, m, k) /\ k # "lead" /\ IsMember(t, m)
  BY <1>1, KeptIs
<1>7. Leaving(m).who = m /\ SteppingDown(m, t).who = m
  BY EventsDiffer
<1>. QED
  BY <1>1, <1>3, <1>4, <1>5, <1>6, <1>7

\* Whoever comes to a team that has nobody comes alone.
LEMMA ComesAlone ==
    ASSUME NEW t \in Teams, NEW o \in Ops, o.name \in OfTeam,
           \A m \in Members : ~IsPart(t, m),
           o.name \in {"set", "add"} =>
              \A m, n \in Members : {m, n} \subseteq Enlisted(o) \union {o.lead} => m = n,
           NEW d \in Told(t, o), NEW e \in Told(t, o)
    PROVE  d.who = e.who
<1>0. \A m \in Members : t.jobs[m] = {} /\ t.lead # m
  BY DEF IsPart, IsMember, IsLeader
<1>1. o.name \in {"set", "add"} /\ d.who \in Enlisted(o) \union {o.lead} /\ e.who \in Enlisted(o) \union {o.lead}
  <2>. SUFFICES ASSUME NEW c \in Told(t, o)
                PROVE  o.name \in {"set", "add"} /\ c.who \in Enlisted(o) \union {o.lead}
    OBVIOUS
  <2>. PICK m : m = c.who
    OBVIOUS
  <2>0. m \in Members
    BY ToldWhat
  <2>1. \A gone : ~Left(t, m, gone)
    BY <1>0, <2>0 DEF Left, IsMember
  <2>2. \A gone : c \notin Leavers(t, gone)
    BY <2>0, <2>1, EventsOf
  <2>3. c \notin OldLeader(t)
    BY <1>0, <2>0, EventsOf
  <2>4. CASE o.name = "set"
    <3>. DEFINE s1 == Without(t, Gone(t, o), [x \in Members |-> Undef])
                n1 == With(s1, Come(t, o))
    <3>1. n1.lead = t.lead
      BY DEF With, Without, Teams
    <3>2. c \in Leavers(t, Gone(t, o)) \union Joiners(s1, Come(t, o)) \union OldLeader(n1)
                  \union NewLeader(Leader(t, o))
      BY <2>4 DEF Told
    <3>3. Come(t, o)[m] # Undef => o.jobs[m] # Undef
      BY <2>0 DEF Come
    <3>. HIDE DEF s1, n1
    <3>4. c \notin OldLeader(n1)
      BY <1>0, <2>0, <3>1, EventsOf
    <3>5. c \in Joiners(s1, Come(t, o)) => m \in Enlisted(o)
      <4>1. c \in Joiners(s1, Come(t, o)) => Joins(s1, m, Come(t, o))
        BY <2>0, EventsOf
      <4>. QED
        BY <2>0, <3>3, <4>1 DEF Joins, Enlisted
    <3>6. c \in NewLeader(Leader(t, o)) => m = o.lead
      <4>1. c \in NewLeader(Leader(t, o)) => m = Leader(t, o)
        BY <2>0, EventsOf
      <4>. QED
        BY <1>0, <2>0, <4>1 DEF Leader
    <3>. QED
      BY <2>2, <2>4, <3>2, <3>4, <3>5, <3>6
  <2>5. CASE o.name = "add"
    <3>1. PICK x \in Members : o.jobs[x] # Undef /\ c = Event("add", x, TRUE, IsLeader(t, x))
      BY <2>5 DEF Told
    <3>2. c.who = x
      BY <3>1 DEF Event
    <3>. QED
      BY <2>5, <3>1, <3>2 DEF Enlisted
  <2>6. CASE o.name \in {"modify", "remove", "delete"}
    BY <2>2, <2>3, <2>6 DEF Told
  <2>. QED
    BY <2>4, <2>5, <2>6 DEF OfTeam
<1>2. d.who \in Members /\ e.who \in Members
  BY ToldWhat
<1>. QED
  BY <1>1, <1>2

LEMMA AppliedAllowed ==
    ASSUME NEW t \in Teams, NEW o \in Ops, o \in Given.menu, o.name \in OfTeam, NEW f, Allowed(t)
    PROVE  Allowed(Applied(t, o, f))
<1>. DEFINE n == Applied(t, o, f)
<1>. SUFFICES ASSUME NEW m \in Members
              PROVE  (n.jobs[m] # {} => MayJoin(Given, m)) /\ (n.lead = m => MayLead(Given, m))
  BY DEF Allowed
<1>1. (t.jobs[m] # {} => MayJoin(Given, m)) /\ (t.lead = m => MayLead(Given, m))
  BY DEF Allowed
<1>2. o.name \in {"set", "add"} /\ o.jobs[m] # Undef => MayJoin(Given, m)
  BY DEF MayJoin, Enlisted
<1>3. o.name = "set" /\ o.lead = m => MayLead(Given, m)
  BY DEF MayLead
<1>4. CASE o.name = "set"
  <2>. DEFINE s == Without(t, Gone(t, o), f)
  <2>1. s.jobs[m] = {} \/ s.jobs[m] = t.jobs[m]
    BY DEF Without, Teams
  <2>2. With(s, Come(t, o)).jobs[m] = s.jobs[m] \/ Come(t, o)[m] # Undef
    BY DEF With, Without, Teams
  <2>3. n.jobs[m] = With(s, Come(t, o)).jobs[m] /\ n.lead = Leader(t, o)
    BY <1>4 DEF Applied, With, Without, Teams
  <2>4. Come(t, o)[m] # Undef => o.jobs[m] # Undef
    BY DEF Come
  <2>5. Leader(t, o) \in {t.lead, o.lead}
    BY DEF Leader
  <2>. HIDE DEF s, n
  <2>. QED
    BY <1>1, <1>2, <1>3, <1>4, <2>1, <2>2, <2>3, <2>4, <2>5
<1>5. CASE o.name = "add"
  <2>1. n.lead = t.lead /\ (o.jobs[m] # Undef \/ n.jobs[m] = t.jobs[m])
    BY <1>5 DEF Applied, Added, Teams
  <2>. HIDE DEF n
  <2>. QED
    BY <1>1, <1>2, <1>5, <2>1
<1>6. CASE o.name = "modify"
  <2>1. n.lead = t.lead /\ (n.jobs[m] # {} => t.jobs[m] # {})
    BY <1>6 DEF Applied, Modified, Teams, IsMember
  <2>. HIDE DEF n
  <2>. QED
    BY <1>1, <2>1
<1>7. CASE o.name = "remove"
  <2>1. n.lead = t.lead /\ (n.jobs[m] # {} => t.jobs[m] # {})
    BY <1>7 DEF Applied, Without, Teams
  <2>. HIDE DEF n
  <2>. QED
    BY <1>1, <2>1
<1>8. CASE o.name = "delete"
  BY <1>1, <1>8 DEF Applied
<1>. QED
  BY <1>4, <1>5, <1>6, <1>7, <1>8 DEF OfTeam

\* What the bot starts with when it has been told of a change of team i.
LEMMA StartsWith ==
    ASSUME NEW r, NEW i, NEW t, NEW o, NEW e \in Told(t, o)
    PROVE  LET u == Task(r, i, e) IN
           /\ u.by = r /\ u.who = e.who /\ u.kind = e.kind /\ u.kind # "setup" /\ u.part = e.part
           /\ u.lead = e.lead /\ u.at = "find" /\ u.left = {i} /\ u.now = i
<1>1. e.kind \in {"add", "remove"}
  BY ToldWhat
<1>. QED
  BY <1>1 DEF Task

LEMMA ApplyKeeps ==
    ASSUME RolesCalm, BookInv, RolesInv, Given.quiet, NEW r \in Requests, Apply(r)
    PROVE  RolesInv'
<1>. PICK o, t, i0, label : /\ o = op[r] /\ t = my[r] /\ i0 = op[r].id
                            /\ label = IF o.name = "delete" THEN "delete" ELSE "save"
  OBVIOUS
<1>0. /\ IInv /\ TypeOK /\ AllInTurn /\ Ready(r) /\ pc[r] = "apply" /\ Active(r)
      /\ pc \in [Requests -> Labels] /\ my \in [Requests -> Teams \union {Undef}]
      /\ t \in Teams /\ t.id = i0 /\ o \in Given.menu /\ o \in Ops /\ o.name \in OfTeam
  BY Asks DEF BookInv, IInv, TypeOK, RolesInv, Apply, Active, Ended, Control, HasTeam, Doers
<1>1. tasks = {} /\ (\A s \in Requests \ {r} : ~Active(s)) /\ \A i : Changing(i) = {}
  BY <1>0, Alone
<1>2. CASE o.name = "delete" /\ i0 = 0
  BY <1>0, <1>2, GoesKeeps DEF Apply, Goto, bot
<1>3. CASE ~(o.name = "delete" /\ i0 = 0)
  <2>1. PICK f \in [Members -> Jobs] : Goes(r, label, Applied(t, o, f))
    BY <1>3 DEF Apply
  <2>. PICK n : n = Applied(t, o, f)
    OBVIOUS
  <2>. PICK events : events = Told(t, o)
    OBVIOUS
  <2>2. /\ UNCHANGED <<op, given, teams, guild, roles, turn, opened, up>> /\ Given' = Given
        /\ pc'[r] = label /\ my'[r] = n
        /\ \A s \in Requests \ {r} : pc'[s] = pc[s] /\ my'[s] = my[s]
    BY <1>0, <2>1 DEF Goes, Apply, Ended, Given
  <2>3. /\ tasks' = {Task(r, i0, e) : e \in events}
        /\ crossed' = crossed \union {m \in Members : Cardinality({u \in tasks' : u.who = m}) > 1}
    <3>1. up /\ r \notin Given.away
      BY <1>0, Calm DEF AllInTurn, InTurn
    <3>2. Tell(r, events)
      BY <1>3 DEF Apply
    <3>. QED
      BY <1>1, <3>1, <3>2 DEF Tell
  <2>4. \A e \in events : LET u == Task(r, i0, e) IN
           /\ u.by = r /\ u.who = e.who /\ u.kind = e.kind /\ u.kind # "setup" /\ u.part = e.part
           /\ u.lead = e.lead /\ u.at = "find" /\ u.left = {i0} /\ u.now = i0
    BY StartsWith
  <2>5. \A u \in tasks' : /\ u.by = r /\ u.kind # "setup" /\ u.at = "find" /\ u.left = {i0} /\ u.now = i0
                          /\ \E e \in events : u = Task(r, i0, e)
    BY <2>3, <2>4
  <2>6. ASSUME NEW u \in tasks', NEW v \in tasks', u.who = v.who, u # v PROVE u.who \in crossed'
    <3>1. \A e \in events : e.who \in Members /\ e \in Tidings(e.who)
      BY ToldWhat
    <3>. PICK T : T = tasks'
      OBVIOUS
    <3>3. T = Starting(r, i0, events) /\ u \in T /\ v \in T
      BY <2>3 DEF Starting
    <3>2. u.who \in Twice(T)
      <4>1. u.who = v.who /\ u # v
        BY <2>6
      <4>. HIDE <2>6
      <4>. QED
        BY <3>1, <3>3, <4>1, CrossedAre
    <3>4. crossed' = crossed \union Twice(T)
      BY <2>3 DEF Twice
    <3>. QED
      BY <3>2, <3>4
  <2>7. \A s \in Requests : (Active(s)' => s = r) /\ (Busy(s)' => s = r)
    BY <1>1, <2>2, <2>5 DEF Active, Busy
  <2>8. InTurn'
    BY <1>0, <2>2, <2>5, <2>6, <2>7 DEF InTurn, AllInTurn
  <2>9. HandlersOK'
    <3>1. ASSUME NEW u \in tasks' PROVE u.kind # "setup" /\ ChangeOK(u)'
      BY <2>5, <3>1 DEF ChangeOK
    <3>. QED
      BY <3>1 DEF HandlersOK
  <2>10. /\ \A i : Found(i)' = Found(i)
         /\ \A m, k, i : Stored(m, k, i)' <=> Stored(m, k, i)
    <3>1. \A i : Found(i)' = Found(i)
      BY <2>2 DEF Found
    <3>. QED
      BY <2>2, <3>1 DEF Stored
  <2>11. \A m, k, i : Due(m, k, i) <=> Stored(m, k, i)
    BY <1>1 DEF Due
  <2>12. \A m, k, i : i # i0 => (Due(m, k, i)' <=> Stored(m, k, i))
    <3>1. \A i : i # i0 => Changing(i)' = {}
      BY <2>2, <2>7 DEF Changing, Active, Ended
    <3>. QED
      BY <2>10, <3>1 DEF Due
  <2>13. \A m, k : Due(m, k, i0)' <=> o.name # "delete" /\ Says(n, m, k)
    <3>1. Changing(i0)' = {r}
      BY <2>2, <2>7 DEF Changing, Active, Ended
    <3>. QED
      BY <2>2, <3>1 DEF Due
  <2>14. i0 # 0 => \A m, k : Stored(m, k, i0) <=> Says(t, m, k)
    <3>1. i0 # 0 => \E w \in Slots : Found(i0) = {w} /\ teams[w] = t
      BY <1>0 DEF Ready
    <3>. QED
      BY <3>1 DEF Stored
  <2>15. i0 # 0 => Allowed(t)
    <3>1. i0 # 0 => \E w \in Slots : w \in Found(i0) /\ teams[w] = t
      BY <1>0 DEF Ready
    <3>2. \A w \in Slots : teams[w] # Undef => Allowed(teams[w])
      BY <1>0 DEF AllInTurn, AllAllowed
    <3>. QED
      BY <3>1, <3>2 DEF Found
  <2>16. \A j, h : Lowest(j, h)' = Lowest(j, h)
    BY <1>0, <2>2, SameRoles
  <2>17. ASSUME i0 # 0, NEW m \in Members, NEW k \in Kinds
         PROVE  /\ (\A e \in events : e.who # m) => (Due(m, k, i0)' <=> Says(t, m, k))
                /\ \A e \in events : e.who = m /\ (\A d \in events : d.who = m => d = e)
                      => (Due(m, k, i0)' <=> Kept(e, k, Says(t, m, k)))
    <3>1. CASE o.name = "delete"
      <4>1. ~(t.lead = m /\ t.jobs[m] # {})
        <5>1. ~(MayJoin(Given, m) /\ MayLead(Given, m))
          BY <1>0, <3>1, Calm
        <5>. QED
          BY <2>15, <2>17, <5>1 DEF Allowed
      <4>2. /\ (\A e \in events : e.who # m) => ~Says(t, m, k)
            /\ \A e \in events : e.who = m => ~Kept(e, k, Says(t, m, k))
        BY <1>0, <3>1, <4>1, DeleteSays
      <4>3. ~Due(m, k, i0)'
        BY <2>13, <3>1
      <4>. QED
        BY <4>2, <4>3
    <3>2. CASE o.name # "delete"
      <4>1. Due(m, k, i0)' <=> Says(n, m, k)
        BY <2>13, <3>2
      <4>2. FitsOf(t, n, events, m, k)
        BY <1>0, <3>2, SetSays, OthersSay DEF OfTeam
      <4>. QED
        BY <4>1, <4>2 DEF FitsOf
    <3>. QED
      BY <3>1, <3>2
  <2>18. RolesOK'
    <3>2. ASSUME NEW m \in Members \ crossed'
          PROVE  \A x \in roles'[m] : x \in 1..Len(guild') /\ FirstRole(x)'
      <4>1. \A x : FirstRole(x)' <=> FirstRole(x)
        BY <2>2, <2>16 DEF FirstRole
      <4>2. m \in Members \ crossed
        BY <2>3
      <4>3. \A x \in roles[m] : x \in 1..Len(guild) /\ FirstRole(x)
        BY <1>0, <4>2 DEF AllInTurn, RolesOK
      <4>. QED
        BY <2>2, <4>1, <4>3
    <3>. SUFFICES ASSUME NEW m \in Members \ crossed', NEW k \in Kinds, NEW i \in 1..MaxId
                  PROVE  /\ (\A u \in tasks' : u.who = m => u.kind # "setup" /\ u.now # i)
                               => (Holds(m, k, i)' <=> Due(m, k, i)')
                         /\ \A u \in tasks' : u.who = m /\ u.kind # "setup" /\ u.now = i
                               => (Got(u, k)' <=> Due(m, k, i)')
      BY <3>2 DEF RolesOK
    <3>0. m \in Members \ crossed /\ i # 0
      BY <2>3
    <3>1. Holds(m, k, i) <=> Stored(m, k, i)
      BY <1>0, <1>1, <2>11, <3>0 DEF AllInTurn, RolesOK
    <3>3. \A j : Holds(m, j, i)' <=> Holds(m, j, i)
      BY <2>2 DEF Holds
    <3>4. CASE i # i0
      BY <2>5, <2>12, <3>1, <3>3, <3>4
    <3>5. CASE i = i0
      <4>1. Holds(m, k, i)' <=> Says(t, m, k)
        BY <2>14, <3>0, <3>1, <3>3, <3>5
      <4>2. ASSUME \A u \in tasks' : u.who = m => u.kind # "setup" /\ u.now # i
            PROVE  Holds(m, k, i)' <=> Due(m, k, i)'
        <5>1. \A e \in events : e.who # m
          BY <2>3, <2>4, <3>5, <4>2
        <5>. QED
          BY <2>17, <3>0, <3>5, <4>1, <5>1
      <4>3. ASSUME NEW u \in tasks', u.who = m PROVE Got(u, k)' <=> Due(m, k, i)'
        <5>1. PICK e \in events : u = Task(r, i0, e)
          BY <2>5
        <5>2. u.who = e.who /\ u.kind = e.kind /\ u.part = e.part /\ u.lead = e.lead /\ u.now = i0
          BY <2>4, <5>1
        <5>3. \A d \in events : d.who = m => d = e
          <6>1. ASSUME NEW d \in events, d.who = m PROVE d = e
            <7>0. /\ Task(r, i0, d).kind = d.kind /\ Task(r, i0, d).who = d.who
                  /\ Task(r, i0, d).part = d.part /\ Task(r, i0, d).lead = d.lead
              BY <2>4
            <7>4. Task(r, i0, d) \in tasks' /\ Task(r, i0, d).who = u.who /\ u.who \notin crossed'
              BY <2>3, <4>3, <6>1, <7>0
            <7>1. Task(r, i0, d) = u
              BY <2>6, <7>4
            <7>2. d.kind = e.kind /\ d.who = e.who /\ d.part = e.part /\ d.lead = e.lead
              BY <5>2, <7>0, <7>1
            <7>3. d \in Events /\ e \in Events
              BY ToldOK
            <7>. QED
              BY <7>2, <7>3 DEF Events
          <6>. QED
            BY <6>1
        <5>4. Got(u, k)' <=> Kept(e, k, Says(t, m, k))
          BY <3>5, <4>1, <4>3, <5>2 DEF Got, Kept
        <5>. QED
          BY <2>17, <3>0, <3>5, <4>3, <5>2, <5>3, <5>4
      <4>. QED
        BY <4>2, <4>3
    <3>. QED
      BY <3>4, <3>5
  <2>19. Marked'
    <3>. SUFFICES ASSUME NEW i \in 1..MaxId, NEW k \in Kinds, NEW m \in Members, NEW j \in Kinds,
                         Due(m, k, i)'
                  PROVE  Lowest(j, i)' # 0 \/ \E u \in tasks' : Making(u, i)
      BY DEF Marked, Making
    <3>1. CASE Due(m, k, i)
      BY <1>0, <1>1, <2>16, <3>1 DEF AllInTurn, Marked
    <3>2. CASE ~Due(m, k, i)
      <4>1. i = i0 /\ i0 # 0
        BY <2>11, <2>12, <3>2
      <4>2. PICK e \in events : e.who = m
        BY <2>11, <2>14, <2>17, <3>2, <4>1
      <4>3. Making(Task(r, i0, e), i) /\ Task(r, i0, e) \in tasks'
        BY <2>3, <2>4, <4>1 DEF Making
      <4>. QED
        BY <4>3
    <3>. QED
      BY <3>1, <3>2
  <2>20. MadeAlone'
    <3>. SUFFICES ASSUME NEW u \in tasks', u.who \notin crossed', i0 # 0
                  PROVE  (\A k \in Kinds : Lowest(k, i0)' # 0) \/ tasks' = {u}
      BY <2>5 DEF MadeAlone
    <3>0. i0 \in 1..MaxId
      BY <1>0 DEF Teams
    <3>1. CASE \E m \in Members : IsPart(t, m)
      <4>1. PICK m \in Members : IsPart(t, m)
        BY <3>1
      <4>2. Due(m, "member", i0) /\ "member" \in Kinds
        BY <2>11, <2>14, <4>1 DEF Says, Kinds
      <4>3. \A j \in Kinds : Lowest(j, i0) # 0
        BY <1>0, <1>1, <3>0, <4>2 DEF AllInTurn, Marked
      <4>. QED
        BY <2>16, <4>3
    <3>2. CASE \A m \in Members : ~IsPart(t, m)
      <4>1. o.name \in {"set", "add"} =>
               \A m, x \in Members : {m, x} \subseteq Enlisted(o) \union {o.lead} => m = x
        BY <1>0, Calm
      <4>2. \A d, e \in events : d.who = e.who
        BY <1>0, <3>2, <4>1, ComesAlone
      <4>3. \A v \in tasks' : v.who = u.who
        BY <2>4, <2>5, <4>2
      <4>. QED
        BY <2>6, <4>3
    <3>. QED
      BY <3>1, <3>2
  <2>21. AllAllowed'
    <3>1. i0 # 0 => Allowed(n)
      BY <1>0, <2>15, AppliedAllowed
    <3>2. \A w \in Slots : teams[w] # Undef => Allowed(teams[w])
      BY <1>0 DEF AllInTurn, AllAllowed
    <3>3. \A s \in Requests : pc'[s] # "insert" /\ (pc'[s] = "save" => s = r)
      BY <2>2, <2>7 DEF Active, Ended
    <3>. QED
      BY <2>2, <3>1, <3>2, <3>3 DEF AllAllowed, Allowed
  <2>. QED
    BY <2>8, <2>9, <2>18, <2>19, <2>20, <2>21 DEF RolesInv, AllInTurn
<1>. QED
  BY <1>2, <1>3

-----------------------------------------------------------------------------
(* The beginning *)

\* Where the server has its roles, each kind of each team has one.
LEMMA OneRoleEach ==
    ASSUME Init, ~Given.fresh
    PROVE  /\ \A k \in Kinds, i \in IdsUsed : \E n \in 1..Len(guild) : guild[n] = <<k, i>>
           /\ \A m, n \in 1..Len(guild) : guild[m] = guild[n] => m = n
           /\ \A n \in 1..Len(guild) : guild[n] \in Kinds \X IdsUsed
<1>. DEFINE S == Kinds \X IdsUsed
            n == Cardinality(S)
            Lists == [1..n -> S]
<1>1. IdsUsed \subseteq 0..MaxId
  <2>1. IInv
    BY InitOK
  <2>. QED
    BY <2>1 DEF IInv, TypeOK, IdsUsed, Teams
<1>2. IsFiniteSet(S)
  <2>1. IsFiniteSet(0..MaxId)
    BY TeamsOK, FS_Interval
  <2>2. IsFiniteSet(IdsUsed)
    BY <1>1, <2>1, FS_Subset
  <2>3. IsFiniteSet(Kinds)
    <3>1. IsFiniteSet({"lead"})
      BY FS_Singleton
    <3>2. Kinds = {"lead"} \union {"member"}
      BY DEF Kinds
    <3>. QED
      BY <3>1, <3>2, FS_AddElement
  <2>. QED
    BY <2>2, <2>3, FS_Product
<1>3. n \in Nat /\ ExistsBijection(1..n, S)
  BY <1>2, FS_CardinalityType
<1>4. \E s \in Lists : {s[i] : i \in DOMAIN s} = S
  <2>1. PICK s \in Lists : \A x \in S : \E i \in 1..n : s[i] = x
    BY <1>3 DEF ExistsBijection, Bijection, Surjection
  <2>2. DOMAIN s = 1..n /\ \A i \in 1..n : s[i] \in S
    BY <2>1
  <2>. HIDE DEF S, n
  <2>3. {s[i] : i \in DOMAIN s} = S
    BY <2>1, <2>2
  <2>. QED
    BY <2>3
<1>5. guild = CHOOSE s \in Lists : {s[i] : i \in DOMAIN s} = S
  BY DEF Init
<1>6. guild \in Lists /\ {guild[i] : i \in DOMAIN guild} = S
  <2>. DEFINE All(s) == {s[i] : i \in DOMAIN s} = S
  <2>1. (\E s \in Lists : All(s)) /\ guild = CHOOSE s \in Lists : All(s)
    BY <1>4, <1>5
  <2>2. guild \in Lists /\ All(guild)
    <3>. HIDE DEF All, S, n, Lists
    <3>. QED
      BY <2>1
  <2>. QED
    BY <2>2
<1>7. Len(guild) = n /\ DOMAIN guild = 1..n /\ \A i \in 1..n : guild[i] \in S
  <2>. HIDE DEF n, S
  <2>1. guild \in Seq(S)
    BY <1>3, <1>6
  <2>2. DOMAIN guild = 1..n
    BY <1>6
  <2>3. Len(guild) \in Nat /\ DOMAIN guild = 1..Len(guild)
    BY <2>1, LenProperties
  <2>4. Len(guild) = n
    BY <1>3, <2>2, <2>3
  <2>. QED
    BY <1>6, <2>2, <2>4
<1>. HIDE DEF n, S
<1>8. \A x \in S : \E i \in 1..n : guild[i] = x
  BY <1>6, <1>7
<1>9. guild \in Surjection(1..n, S)
  BY <1>6, <1>8 DEF Surjection
<1>10. IsFiniteSet(1..n) /\ Cardinality(1..n) = n
  <2>1. 1 \in Int /\ n \in Int
    BY <1>3
  <2>. QED
    BY <1>3, <2>1, FS_Interval
<1>11. guild \in Injection(1..n, S)
  BY <1>9, <1>10, FS_SurjSameCardinalityImpliesInj DEF n
<1>12. \A i, j \in 1..n : guild[i] = guild[j] => i = j
  BY <1>11 DEF Injection, IsInjective
<1>. QED
  BY <1>7, <1>8, <1>12 DEF S

LEMMA InitRoles == RolesCalm /\ Init => RolesInv
<1>. SUFFICES ASSUME RolesCalm, Init, Given.quiet PROVE AllInTurn
  BY DEF RolesInv
<1>0. IInv /\ TypeOK /\ ~Given.fresh /\ guild \in Seq(Kinds \X (0..MaxId)) /\ Len(guild) \in Nat
  BY InitOK, Calm, LenProperties DEF IInv, TypeOK
<1>1. /\ tasks = {} /\ up = TRUE /\ crossed = {} /\ teams \in First
      /\ \A r \in Requests : pc[r] = "idle"
      /\ \A m \in Members : roles[m] = {n \in 1..Len(guild) : \E w \in Found(guild[n][2]) :
            IF guild[n][1] = "lead" THEN IsLeader(teams[w], m) ELSE IsPart(teams[w], m)}
  BY DEF Init
<1>2. \A r \in Requests : ~Active(r) /\ ~Busy(r)
  BY <1>1 DEF Active, Busy
<1>3. \A i : Changing(i) = {}
  BY <1>1 DEF Changing
<1>4. \A m, k, i : Due(m, k, i) <=> Stored(m, k, i)
  BY <1>3 DEF Due
<1>5. InTurn /\ HandlersOK /\ MadeAlone
  BY <1>1, <1>2 DEF InTurn, HandlersOK, MadeAlone
<1>6. /\ \A k \in Kinds, i \in IdsUsed : \E n \in 1..Len(guild) : guild[n] = <<k, i>>
      /\ \A m, n \in 1..Len(guild) : guild[m] = guild[n] => m = n
  BY <1>0, OneRoleEach
<1>7. \A m, k, i : Stored(m, k, i) => i \in IdsUsed
  BY DEF Stored, Found, IdsUsed
<1>8. ASSUME NEW n \in 1..Len(guild) PROVE FirstRole(n)
  <2>. SUFFICES ASSUME NEW k \in Kinds, NEW i \in 1..MaxId, guild[n] = <<k, i>>
                PROVE  n = Lowest(k, i)
    BY DEF FirstRole
  <2>1. n \in Numbers(k, i)
    BY DEF Numbers
  <2>2. Lowest(k, i) \in Numbers(k, i)
    BY <1>0, <2>1, LowestIs
  <2>. QED
    BY <1>6, <2>1, <2>2 DEF Numbers
<1>9. ASSUME NEW m \in Members, NEW k \in Kinds, NEW i
      PROVE  Holds(m, k, i) <=> Stored(m, k, i)
  <2>1. ASSUME NEW n \in 1..Len(guild), guild[n] = <<k, i>>
        PROVE  n \in roles[m] <=> Stored(m, k, i)
    <3>1. guild[n][1] = k /\ guild[n][2] = i
      BY <2>1
    <3>2. n \in roles[m] <=> \E w \in Found(i) : IF k = "lead" THEN IsLeader(teams[w], m) ELSE IsPart(teams[w], m)
      BY <1>1, <3>1
    <3>. QED
      BY <3>2 DEF Stored, Says
  <2>2. Holds(m, k, i) => \E n \in 1..Len(guild) : n \in roles[m] /\ guild[n] = <<k, i>>
    BY <1>1 DEF Holds
  <2>3. Stored(m, k, i) => \E n \in 1..Len(guild) : guild[n] = <<k, i>>
    BY <1>6, <1>7
  <2>. QED
    BY <2>1, <2>2, <2>3 DEF Holds
<1>10. RolesOK
  <2>1. \A m \in Members : \A n \in roles[m] : n \in 1..Len(guild) /\ FirstRole(n)
    BY <1>1, <1>8
  <2>. QED
    BY <1>1, <1>4, <1>9, <2>1 DEF RolesOK
<1>11. Marked
  <2>. SUFFICES ASSUME NEW i \in 1..MaxId, NEW k \in Kinds, NEW m \in Members, NEW j \in Kinds, Due(m, k, i)
                PROVE  Lowest(j, i) # 0
    BY DEF Marked
  <2>1. PICK n \in 1..Len(guild) : guild[n] = <<j, i>>
    BY <1>4, <1>6, <1>7
  <2>2. n \in Numbers(j, i)
    BY <2>1 DEF Numbers
  <2>. QED
    BY <1>0, <2>2, LowestIs
<1>12. AllAllowed
  <2>1. ASSUME NEW w \in Slots, teams[w] # Undef PROVE Allowed(teams[w])
    BY <1>1, <2>1 DEF Allowed, MayJoin, MayLead
  <2>. QED
    BY <1>1, <2>1 DEF AllAllowed
<1>. QED
  BY <1>5, <1>10, <1>11, <1>12 DEF AllInTurn

-----------------------------------------------------------------------------
(* The steps *)

LEMMA SameKeeps ==
    ASSUME IInv, RolesInv, UNCHANGED vars
    PROVE  RolesInv'
<1>0. UNCHANGED <<teams, pc, op, my, given, guild, roles, tasks, up, crossed>> /\ Given' = Given
  BY DEF vars, Given
<1>. SUFFICES ASSUME Given.quiet PROVE AllInTurn'
  BY <1>0 DEF RolesInv
<1>1. TypeOK /\ AllInTurn
  BY DEF IInv, RolesInv
<1>2. /\ \A j, h : Lowest(j, h)' = Lowest(j, h)
      /\ \A m, k, i : (Stored(m, k, i)' <=> Stored(m, k, i)) /\ (Due(m, k, i)' <=> Due(m, k, i))
      /\ \A u : (ChangeOK(u) => ChangeOK(u)') /\ (SetupOK(u) => SetupOK(u)')
  BY <1>0, <1>1, SameRoles, DueStays, TasksKept
<1>3. InTurn'
  BY <1>0, <1>1 DEF AllInTurn, InTurn, Active, Busy
<1>4. HandlersOK'
  BY <1>0, <1>1, <1>2 DEF AllInTurn, HandlersOK
<1>5. RolesOK'
  <2>1. (\A n : FirstRole(n)' <=> FirstRole(n)) /\ (\A m, k, i : Holds(m, k, i)' <=> Holds(m, k, i))
    BY <1>0, <1>2 DEF FirstRole, Holds
  <2>2. \A t, k : Got(t, k)' <=> Got(t, k)
    BY <2>1 DEF Got
  <2>3. RolesOK
    BY <1>1 DEF AllInTurn
  <2>. QED
    BY <1>0, <1>2, <2>1, <2>2, <2>3 DEF RolesOK
<1>6. Marked' /\ MadeAlone'
  BY <1>0, <1>1, <1>2 DEF AllInTurn, Marked, MadeAlone, Making
<1>7. AllAllowed'
  BY <1>0, <1>1 DEF AllInTurn, AllAllowed, Allowed
<1>. QED
  BY <1>3, <1>4, <1>5, <1>6, <1>7 DEF AllInTurn

LEMMA NextRoles == RolesCalm /\ BookInv /\ RolesInv /\ [Next]_vars => RolesInv'
<1>. SUFFICES ASSUME RolesCalm, BookInv, RolesInv, [Next]_vars PROVE RolesInv'
  OBVIOUS
<1>0. IInv
  BY DEF BookInv
<1>1. CASE UNCHANGED vars
  BY <1>0, <1>1, SameKeeps
<1>2. CASE ~Given.quiet
  <2>1. given' = given
    BY DEF Next, Arrive, Step, NewID, Insert, Names, Get, LookForMember, Apply, Save, Delete,
           TellOfMember, Goto, Goes, Fail, Work, Find, Make, Read, Write, ReadTeams, Queue, TakeTurn,
           Clear, SetupFails, Crash, Rest, vars
  <2>. QED
    BY <1>2, <2>1 DEF RolesInv, Given
<1>3. ASSUME Given.quiet, NEW r \in Requests, Arrive(r) \/ Step(r) \/ Fail(r) PROVE RolesInv'
  <2>1. CASE Arrive(r)
    BY <1>0, <1>3, <2>1, ArriveKeeps
  <2>2. CASE Fail(r)
    BY <1>0, <1>3, <2>2, NothingFails
  <2>3. CASE Step(r)
    BY <1>0, <1>3, <2>3, ReadsKeep, InsertKeeps, ApplyKeeps, SaveKeeps, DeleteKeeps, TellOfMemberKeeps
       DEF Step
  <2>. QED
    BY <1>3, <2>1, <2>2, <2>3
<1>4. ASSUME Given.quiet, NEW t \in tasks, Work(t) \/ SetupFails(t) \/ Crash(t) PROVE RolesInv'
  <2>1. Work(t)
    BY <1>0, <1>4, NothingFails
  <2>. QED
    BY <1>0, <1>4, <2>1, FindKeeps, MakeKeeps, ReadKeeps, WriteKeeps, ReadTeamsKeeps, TurnKeeps DEF Work
<1>. QED
  BY <1>1, <1>2, <1>3, <1>4 DEF Next, Rest

\* Where requests wait for each other and for the bot, nothing fails, and nobody who
\* may be on the list of a team that may be deleted may lead one: whatever order the
\* handlers of the bot run in, whoever was never in two of them at once has the roles
\* of the teams as they are stored when all is done.
THEOREM RolesFollow == ASSUME RecordsApart, RolesCalm PROVE Spec => []RolesFollowTeams
<1>1. IInv /\ RolesInv => RolesFollowTeams
  <2>. SUFFICES ASSUME IInv, RolesInv, Given.quiet, \A r \in Requests : ~Active(r) /\ ~Busy(r),
                       NEW m \in Members \ crossed, NEW i \in 1..MaxId
                PROVE  /\ Holds(m, "member", i) <=> \E w \in Found(i) : IsPart(teams[w], m)
                       /\ Holds(m, "lead", i) <=> \E w \in Found(i) : IsLeader(teams[w], m)
    BY DEF RolesFollowTeams
  <2>1. tasks = {}
    <3>1. \A t \in tasks : t.by \in Requests /\ Busy(t.by)
      BY DEF IInv, TypeOK, Tasks, Busy
    <3>. QED
      BY <3>1
  <2>2. \A k : Due(m, k, i) <=> Stored(m, k, i)
    <3>1. Changing(i) = {}
      BY DEF Changing, Active, Ended
    <3>. QED
      BY <3>1 DEF Due
  <2>3. \A k \in Kinds : Holds(m, k, i) <=> Stored(m, k, i)
    BY <2>1, <2>2 DEF RolesInv, AllInTurn, RolesOK
  <2>4. (Holds(m, "member", i) <=> Stored(m, "member", i)) /\ (Holds(m, "lead", i) <=> Stored(m, "lead", i))
    BY <2>3 DEF Kinds
  <2>. QED
    BY <2>4 DEF Stored, Says
<1>2. BookInv => IInv
  BY DEF BookInv
<1>3. RecordsApart /\ Init => BookInv
  BY InitBook
<1>4. RecordsApart /\ BookInv /\ [Next]_vars => BookInv'
  BY NextBook
<1>. QED
  BY <1>1, <1>2, <1>3, <1>4, InitRoles, NextRoles, PTL DEF Spec
=============================================================================
