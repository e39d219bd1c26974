------------------------------- MODULE Teams -------------------------------
(***************************************************************************)
(* Teams (server-common/src/Team.ts and the handlers in                    *)
(* server/src/api/team) and the roles that the Discord bot                 *)
(* (discord-bot/src) gives their members.                                  *)
(*                                                                         *)
(* A request reads a whole team, changes it in memory, tells the bot, and  *)
(* writes the whole team, in no transaction.  The bot handles everything   *)
(* it is told at once, in handlers that overlap.                           *)
(*                                                                         *)
(* Of the three leaders there is one, the cadet leader; the other two are  *)
(* treated alike.  The order of the list of members is left out: which of  *)
(* two jobs of one member is his is left open.  Roles are named after the  *)
(* id of a team, not its name: renaming is left out.                       *)
(***************************************************************************)
EXTENDS Naturals, Sequences, FiniteSets

CONSTANTS
    Members,
    Jobs,
    Slots,       \* rows of the collection Teams
    MaxId,       \* ids are given up to it
    Staff,       \* what getStaffTeam makes of the duty positions
    First,       \* the rows that there may be at the beginning
    Requests,    \* numbers of requests, in the order in which they come
    Conditions,  \* under which the requests come: one of them holds throughout
    Undef        \* no row, no leader, or a field that is not given

\* member: any request that tells the bot of a change of a member, such as
\* member/flights/flightassign.
OfTeam == {"set", "add", "modify", "remove", "delete"}
OpNames == OfTeam \union {"create", "member"}

\* jobs: of the new list of members, or of the one member it is about, and then
\* Undef for the others; lead: the leader, which "keep" leaves as it is.
Ops == [name : OpNames, id : 0..MaxId, all : BOOLEAN,
        jobs : [Members -> Jobs \union {Undef}],
        lead : Members \union {Undef, "keep"}]

Teams == [id : 0..MaxId, jobs : [Members -> SUBSET Jobs],
          lead : Members \union {Undef}, past : [Members -> [Jobs -> Nat]]]

Ended == {"done", "failed"}
Labels == Ended \union {"idle", "newid", "insert", "get", "member", "apply", "save",
    "delete", "tell", "names"}

\* upto: how many requests come; apart: pairs of operations that do not overlap for one team; failing: places
\* where a call may fail; away: requests to a worker that has no bot; quiet:
\* every request waits until all that went before has been dealt with; fresh: the
\* Discord server has no roles of teams yet.
Setting == [menu : SUBSET Ops, upto : Nat, apart : SUBSET (OpNames \X OpNames),
            failing : SUBSET (Labels \union {"bot", "setup"}),
            away : SUBSET Requests, quiet : BOOLEAN, fresh : BOOLEAN]

ASSUME TeamsOK ==
    /\ MaxId \in Nat \ {0}
    /\ Requests \subseteq Nat
    /\ Staff \in Teams /\ Staff.id = 0
    /\ First \subseteq [Slots -> Teams \union {Undef}]
    /\ \A i \in DOMAIN Conditions : Conditions[i] \in Setting
    /\ Undef \notin Members \union Jobs /\ "keep" \notin Members
    /\ Undef \notin Teams \union [jobs : [Members -> SUBSET Jobs], past : [Members -> [Jobs -> Nat]]]

VARIABLES
    teams,   \* the collection Teams
    pc,      \* where each request is
    op,      \* what it asks for
    my,      \* the team it has in memory
    given,   \* which condition holds
    guild,   \* the roles that there are in the Discord server, in order
    roles,   \* those that each member has, by their numbers
    tasks,   \* the handlers of the bot that run
    turn,    \* currentTeamPromise: the handler that made it
    opened,  \* the handlers that have resolved theirs
    up,      \* the worker that has the bot is running
    crossed  \* members about whom two handlers have run at once

Given == Conditions[given]

bot == <<guild, roles, tasks, turn, opened, crossed>>
vars == <<teams, pc, op, my, given, guild, roles, tasks, turn, opened, up, crossed>>

-----------------------------------------------------------------------------
(* Teams in memory *)

IsMember(t, m) == t.jobs[m] # {}
IsLeader(t, m) == t.lead = m
IsPart(t, m) == IsLeader(t, m) \/ IsMember(t, m)

\* removeMemberFromTeam, for all of gone: leaders stay, and the others leave every
\* job they have and one record.  f tells which.
Left(t, m, gone) == m \in gone /\ IsMember(t, m) /\ ~IsLeader(t, m)

\* Slip: whoever goes is not recorded.
WithoutRecord(t, gone, f) ==
    [t EXCEPT !.jobs = [m \in Members |-> IF Left(t, m, gone) THEN {} ELSE @[m]]]

Without(t, gone, f) ==
    [t EXCEPT
        !.jobs = [m \in Members |-> IF Left(t, m, gone) THEN {} ELSE @[m]],
        !.past = [m \in Members |-> [j \in Jobs |->
            @[m][j] + IF Left(t, m, gone) /\ f[m] = j THEN 1 ELSE 0]]]

\* addMembersToTeam: whoever is part of the team has his job changed, which does
\* nothing for a leader who is not on the list.
Joins(t, m, jobs) == jobs[m] # Undef /\ ~IsPart(t, m)

With(t, jobs) ==
    [t EXCEPT !.jobs = [m \in Members |->
        IF jobs[m] = Undef \/ (~IsMember(t, m) /\ IsLeader(t, m)) THEN @[m] ELSE {jobs[m]}]]

\* addMemberToTeam, which does not look whether the member is on the list.
Added(t, jobs) ==
    [t EXCEPT !.jobs = [m \in Members |-> IF jobs[m] = Undef THEN @[m] ELSE @[m] \union {jobs[m]}]]

\* modifyTeamMember.
Modified(t, jobs) ==
    [t EXCEPT !.jobs = [m \in Members |->
        IF jobs[m] = Undef \/ ~IsMember(t, m) THEN @[m] ELSE {jobs[m]}]]

\* getDifferentTeamMembers: those on the list who are not on the new one, and
\* those on the new one who are not on the list.
Gone(t, o) == IF o.all THEN {m \in Members : o.jobs[m] = Undef} ELSE {}
Come(t, o) ==
    [m \in Members |-> IF o.all /\ ~IsMember(t, m) THEN o.jobs[m] ELSE Undef]

Leader(t, o) == IF o.lead = "keep" THEN t.lead ELSE o.lead

\* What an operation makes of team t; f is the job with which each member goes.
Applied(t, o, f) ==
    CASE o.name = "set" ->
            [With(Without(t, Gone(t, o), f), Come(t, o)) EXCEPT !.lead = Leader(t, o)]
      [] o.name = "add" -> Added(t, o.jobs)
      [] o.name = "modify" -> Modified(t, o.jobs)
      [] o.name = "remove" -> Without(t, {m \in Members : o.jobs[m] # Undef}, f)
      [] o.name = "delete" -> t

-----------------------------------------------------------------------------
(* What the bot is told *)

\* part and lead: whether the member is part of the team, and its leader, in the
\* team that the event carries.
Event(kind, m, part, lead) == [kind |-> kind, who |-> m, part |-> part, lead |-> lead]

Leavers(t, gone) ==
    {Event("remove", m, FALSE, FALSE) : m \in {x \in Members : Left(t, x, gone)}}
Joiners(t, jobs) ==
    {Event("add", m, TRUE, FALSE) : m \in {x \in Members : Joins(t, x, jobs)}}

\* Slip: the event carries the team as it was.
OldLeaderAsWas(t) ==
    {Event("remove", m, TRUE, TRUE) : m \in {x \in Members : IsLeader(t, x)}}

\* removeTeamLeader and setTeamLeader: a leader is removed and made again even if
\* he stays.
OldLeader(t) ==
    {Event("remove", m, IsMember(t, m), FALSE) : m \in {x \in Members : IsLeader(t, x)}}
NewLeader(lead) == {Event("add", m, TRUE, TRUE) : m \in Members \intersect {lead}}

Told(t, o) ==
    CASE o.name = "set" ->
            LET s == Without(t, Gone(t, o), [m \in Members |-> Undef])
                n == With(s, Come(t, o)) IN
            Leavers(t, Gone(t, o)) \union Joiners(s, Come(t, o))
                \union OldLeader(n) \union NewLeader(Leader(t, o))
      [] o.name = "add" ->
            {Event("add", m, TRUE, IsLeader(t, m)) : m \in {x \in Members : o.jobs[x] # Undef}}
      [] o.name = "remove" -> Leavers(t, {m \in Members : o.jobs[m] # Undef})
      [] o.name = "delete" -> Leavers(t, Members) \union OldLeader(t)
      [] o.name = "create" -> Joiners(t, o.jobs)
      [] OTHER -> {}
-----------------------------------------------------------------------------
(* The handlers of the bot *)

Kinds == {"lead", "member"}

\* What a handler of request r for event e about the team with id i starts with.
\* left: the teams whose roles it has to look up yet; leads: those of them that
\* the member leads; now: the one it is at; make: roles that it has not found;
\* has: the numbers of those it has; mine: what the member will have; after: the
\* handler that it waits for.
Task(r, i, e) ==
    [by |-> r, kind |-> e.kind, who |-> e.who, part |-> e.part, lead |-> e.lead,
     at |-> IF e.kind = "setup" THEN "teams" ELSE "find",
     left |-> IF e.kind = "setup" THEN {} ELSE {i}, leads |-> {}, now |-> i,
     make |-> {}, has |-> [k \in Kinds |-> 0], mine |-> {}, after |-> Undef]

Key(t) == <<t.by, t.who>>

-----------------------------------------------------------------------------
(* Requests *)

Active(r) == pc[r] \notin Ended \union {"idle"}
Busy(r) == \E t \in tasks : t.by = r

\* Request r goes on at label with team t, which is gone at the end.
Goes(r, label, t) ==
    /\ pc' = [pc EXCEPT ![r] = label]
    /\ my' = [my EXCEPT ![r] = IF label \in Ended THEN Undef ELSE t]
    /\ UNCHANGED <<op, given>>

Goto(r, label) == Goes(r, label, my[r])

\* The bot is told, and starts a handler for each event.  Other workers than the
\* first have no bot.
Tell(r, events) ==
    IF up /\ r \notin Given.away
    THEN /\ tasks' = tasks \union {Task(r, op[r].id, e) : e \in events}
         /\ crossed' = crossed \union
                {m \in Members : Cardinality({t \in tasks' : t.who = m}) > 1}
    ELSE UNCHANGED <<tasks, crossed>>

Start(name) ==
    CASE name = "create" -> "newid"
      [] name \in OfTeam -> "get"
      [] name = "member" -> "tell"

\* A request comes in.  In some conditions the operations of a pair in apart do
\* not overlap for one team; the code does nothing to prevent it.
Arrive(r) ==
    /\ pc[r] = "idle"
    /\ r <= Given.upto /\ \A s \in Requests : s < r => pc[s] # "idle"
    /\ r \in Given.away \/ up
    /\ Given.quiet => \A s \in Requests : ~Active(s) /\ ~Busy(s)
    /\ \E o \in Given.menu :
          /\ \A s \in Requests : Active(s) /\ op[s].id = o.id =>
                <<o.name, op[s].name>> \notin Given.apart /\ <<op[s].name, o.name>> \notin Given.apart
          /\ op' = [op EXCEPT ![r] = o]
          /\ pc' = [pc EXCEPT ![r] = Start(o.name)]
    /\ UNCHANGED <<teams, my, given, bot, up>>

\* The answer is an error.  set makes its save in a map, and so answers that it
\* has saved.
Fail(r) ==
    /\ Active(r)
    /\ pc[r] \in Given.failing
    /\ Goto(r, IF pc[r] = "save" /\ op[r].name = "set" THEN "done" ELSE "failed")
    /\ UNCHANGED <<teams, bot, up>>

IdsUsed == {teams[w].id : w \in {x \in Slots : teams[x] # Undef}}

\* getNewID.
IsNextId(n) == n \in 1..MaxId /\ (\A i \in IdsUsed : i < n) /\ (n = 1 \/ n - 1 \in IdsUsed)

\* Slip: a new team has no history yet.
NewTeamBare(n, lead) ==
    [id |-> n, jobs |-> [m \in Members |-> {}],
     lead |-> IF lead = "keep" THEN Undef ELSE lead, past |-> <<>>]

NewTeam(n, lead) ==
    [id |-> n, jobs |-> [m \in Members |-> {}],
     lead |-> IF lead = "keep" THEN Undef ELSE lead,
     past |-> [m \in Members |-> [j \in Jobs |-> 0]]]

NewID(r) ==
    /\ pc[r] = "newid"
    /\ \E n \in 1..MaxId : IsNextId(n) /\ Goes(r, "insert", NewTeam(n, op[r].lead))
    /\ UNCHANGED <<teams, bot, up>>

\* The team is stored without its members, who are added to what is answered, and
\* the bot is told of them.
Insert(r) ==
    /\ pc[r] = "insert"
    /\ \E w \in {x \in Slots : teams[x] = Undef} : teams' = [teams EXCEPT ![w] = my[r]]
    /\ Tell(r, Told(my[r], op[r]))
    /\ Goto(r, "names")
    /\ UNCHANGED <<guild, roles, turn, opened, up>>

\* expandTeam.
Names(r) ==
    /\ pc[r] = "names"
    /\ Goto(r, "done")
    /\ UNCHANGED <<teams, bot, up>>

Found(i) == {w \in Slots : teams[w] # Undef /\ teams[w].id = i}

\* getTeam: exactly one row, or the staff team.
Get(r) ==
    LET i == op[r].id
        next == IF op[r].name = "add" THEN "member" ELSE "apply" IN
    /\ pc[r] = "get"
    /\ \/ i = 0 /\ Goes(r, next, Staff)
       \/ i # 0 /\ \E w \in Slots : Found(i) = {w} /\ Goes(r, next, teams[w])
       \/ i # 0 /\ Cardinality(Found(i)) # 1 /\ Goto(r, "failed")
    /\ UNCHANGED <<teams, bot, up>>

\* checkIfMemberExists.
LookForMember(r) ==
    /\ pc[r] = "member"
    /\ Goto(r, "apply")
    /\ UNCHANGED <<teams, bot, up>>

\* The team is changed in memory and the bot is told, before it is saved.  The
\* staff team is not deleted.
Apply(r) ==
    LET o == op[r] IN
    /\ pc[r] = "apply"
    /\ IF o.name = "delete" /\ o.id = 0
       THEN Goto(r, "failed") /\ UNCHANGED <<tasks, crossed>>
       ELSE /\ \E f \in [Members -> Jobs] :
                  /\ \A m \in Members : IsMember(my[r], m) => f[m] \in my[r].jobs[m]
                  /\ Goes(r, IF o.name = "delete" THEN "delete" ELSE "save", Applied(my[r], o, f))
            /\ Tell(r, Told(my[r], o))
    /\ UNCHANGED <<teams, guild, roles, turn, opened, up>>

\* saveToCollectionA: whatever has this id now.
Saved(i, t) == [w \in Slots |-> IF w \in Found(i) THEN t ELSE teams[w]]

Save(r) ==
    LET i == op[r].id IN
    /\ pc[r] = "save"
    /\ teams' = IF i = 0 THEN teams ELSE Saved(i, my[r])
    /\ Goto(r, IF i = 0 /\ op[r].name # "set" THEN "failed" ELSE "done")
    /\ UNCHANGED <<bot, up>>

Delete(r) ==
    /\ pc[r] = "delete"
    /\ teams' = [w \in Slots |-> IF w \in Found(op[r].id) THEN Undef ELSE teams[w]]
    /\ Goto(r, "done")
    /\ UNCHANGED <<bot, up>>

\* memberChange.
TellOfMember(r) ==
    /\ pc[r] = "tell"
    /\ Tell(r, {Event("setup", m, FALSE, FALSE) : m \in {x \in Members : op[r].jobs[x] # Undef}})
    /\ Goto(r, "done")
    /\ UNCHANGED <<teams, guild, roles, turn, opened, up>>

-----------------------------------------------------------------------------
(* The bot gives and takes roles *)

\* t goes on as u.
Becomes(t, u) == tasks' = (tasks \ {t}) \union {u}

Numbers(k, i) == {n \in 1..Len(guild) : guild[n] = <<k, i>>}
Lowest(k, i) ==
    IF Numbers(k, i) = {} THEN 0 ELSE CHOOSE n \in Numbers(k, i) : \A x \in Numbers(k, i) : n <= x

\* What t does when it has the roles of a team: a handler for a member of one team
\* looks at the roles of the member, a set-up goes on to the next team.
Looked(t) ==
    LET left == t.left \ {t.now}
        found == {t.has["member"]} \union (IF t.now \in t.leads THEN {t.has["lead"]} ELSE {}) IN
    CASE t.make # {} -> [t EXCEPT !.at = "make"]
      [] t.make = {} /\ t.kind # "setup" -> [t EXCEPT !.at = "read", !.left = {}]
      [] t.make = {} /\ t.kind = "setup" ->
            [t EXCEPT !.at = IF left = {} THEN "clear" ELSE "find", !.left = left,
                      !.mine = @ \union found]

\* Slip: the promise is never resolved.
ResolvesNever(t) == FALSE

\* After the last team the promise for which others wait is resolved.
Resolves(t) == t.at = "clear"

\* t, now u, has looked up what there was to look up.
GoesOn(t, u) ==
    /\ Becomes(t, Looked(u))
    /\ opened' = IF Resolves(Looked(u)) THEN opened \union {Key(t)} ELSE opened

\* getOrCreateTeamRolesForTeam: all roles are fetched, ...
Find(t) ==
    /\ t.at = "find"
    /\ \E i \in t.left :
          LET has == [k \in Kinds |-> Lowest(k, i)] IN
          GoesOn(t, [t EXCEPT !.now = i, !.has = has, !.make = {k \in Kinds : has[k] = 0}])
    /\ UNCHANGED <<teams, pc, op, my, given, guild, roles, turn, up, crossed>>

\* ... and those that are missing are made, first the one of the leader.
Make(t) ==
    LET k == IF "lead" \in t.make THEN "lead" ELSE "member" IN
    /\ t.at = "make"
    /\ guild' = Append(guild, <<k, t.now>>)
    /\ GoesOn(t, [t EXCEPT !.make = @ \ {k}, !.has[k] = Len(guild) + 1])
    /\ UNCHANGED <<teams, pc, op, my, given, roles, turn, up, crossed>>

\* The roles that the member had and gets or loses.
NewRoles(t) ==
    IF t.kind = "add"
    THEN roles[t.who] \union {t.has["member"]} \union (IF t.lead THEN {t.has["lead"]} ELSE {})
    ELSE roles[t.who] \ ((IF t.lead THEN {} ELSE {t.has["lead"]})
                          \union (IF t.part THEN {} ELSE {t.has["member"]}))

Read(t) ==
    /\ t.at = "read"
    /\ Becomes(t, [t EXCEPT !.at = "write", !.mine = NewRoles(t)])
    /\ UNCHANGED <<teams, pc, op, my, given, guild, roles, turn, opened, up, crossed>>

\* All roles of the member are replaced.
Write(t) ==
    /\ t.at = "write"
    /\ roles' = [roles EXCEPT ![t.who] = t.mine]
    /\ tasks' = tasks \ {t}
    /\ UNCHANGED <<teams, pc, op, my, given, guild, turn, opened, up, crossed>>

\* setupUser reads the teams of the member.
ReadTeams(t) ==
    LET ids(P(_, _)) == {teams[w].id : w \in {x \in Slots : teams[x] # Undef /\ P(teams[x], t.who)}} IN
    /\ t.at = "teams"
    /\ Becomes(t, [t EXCEPT !.left = ids(IsPart), !.leads = ids(IsLeader),
                         !.at = IF ids(IsPart) = {} THEN "clear" ELSE "queue"])
    /\ UNCHANGED <<teams, pc, op, my, given, guild, roles, turn, opened, up, crossed>>

\* getTeamRoles waits for the last promise that has been made, ...
Queue(t) ==
    /\ t.at = "queue"
    /\ Becomes(t, [t EXCEPT !.at = "wait", !.after = turn])
    /\ UNCHANGED <<teams, pc, op, my, given, guild, roles, turn, opened, up, crossed>>

\* ... makes one of its own and looks up the roles of each team.
TakeTurn(t) ==
    /\ t.at = "wait"
    /\ t.after = Undef \/ t.after \in opened
    /\ turn' = Key(t)
    /\ Becomes(t, [t EXCEPT !.at = "find"])
    /\ UNCHANGED <<teams, pc, op, my, given, guild, roles, opened, up, crossed>>

\* setupRoles takes all roles from the member before it gives him the new ones.
Clear(t) ==
    /\ t.at = "clear"
    /\ roles' = [roles EXCEPT ![t.who] = {}]
    /\ Becomes(t, [t EXCEPT !.at = "write"])
    /\ UNCHANGED <<teams, pc, op, my, given, guild, turn, opened, up, crossed>>

Work(t) ==
    \/ Find(t) \/ Make(t) \/ Read(t) \/ Write(t)
    \/ ReadTeams(t) \/ Queue(t) \/ TakeTurn(t) \/ Clear(t)

\* setupUser catches every error.
SetupFails(t) ==
    /\ t.kind = "setup"
    /\ (IF t.at \in {"find", "make"} THEN "turn" ELSE "setup") \in Given.failing
    /\ tasks' = tasks \ {t}
    /\ UNCHANGED <<teams, pc, op, my, given, guild, roles, turn, opened, up, crossed>>

\* The other handlers do not, nor does the one of a set-up for what it awaits before
\* setupUser and for the session that it closes after it, whatever became of it; the
\* others close theirs when the roles are written.  The rejection ends the worker, with
\* the requests and the handlers in it.
Crash(t) ==
    /\ "bot" \in Given.failing
    /\ \/ UNCHANGED roles
       \/ t.at = "write" /\ roles' = [roles EXCEPT ![t.who] = t.mine]
    /\ up' = FALSE
    /\ tasks' = {}
    /\ pc' = [r \in Requests |-> IF Active(r) /\ r \notin Given.away THEN "failed" ELSE pc[r]]
    /\ my' = [r \in Requests |-> IF r \in Given.away THEN my[r] ELSE Undef]
    /\ UNCHANGED <<teams, op, given, guild, turn, opened, crossed>>

-----------------------------------------------------------------------------
(* The specification *)

\* The members of the teams that there are have their roles, or the server is new.
Init ==
    /\ teams \in First
    /\ given \in DOMAIN Conditions
    /\ guild = IF Given.fresh THEN <<>>
               ELSE CHOOSE s \in [1..Cardinality(Kinds \X IdsUsed) -> Kinds \X IdsUsed] :
                       {s[n] : n \in DOMAIN s} = Kinds \X IdsUsed
    /\ roles = [m \in Members |-> {n \in 1..Len(guild) : \E w \in Found(guild[n][2]) :
                    IF guild[n][1] = "lead" THEN IsLeader(teams[w], m) ELSE IsPart(teams[w], m)}]
    /\ pc = [r \in Requests |-> "idle"]
    /\ op = [r \in Requests |-> Undef]
    /\ my = [r \in Requests |-> Undef]
    /\ tasks = {} /\ turn = Undef /\ opened = {} /\ up = TRUE /\ crossed = {}

Step(r) ==
    \/ NewID(r) \/ Insert(r) \/ Names(r) \/ Get(r) \/ LookForMember(r) \/ Apply(r)
    \/ Save(r) \/ Delete(r) \/ TellOfMember(r)

\* Every request has been answered, and the bot has nothing to do.
Rest ==
    /\ \A r \in Requests : ~Active(r) /\ ~Busy(r)
    /\ UNCHANGED vars

Next ==
    \/ \E r \in Requests : Arrive(r) \/ Step(r) \/ Fail(r)
    \/ \E t \in tasks : Work(t) \/ SetupFails(t) \/ Crash(t)
    \/ Rest

Spec == Init /\ [][Next]_vars

WorkFor(r) == \E t \in tasks : t.by = r /\ Work(t)

\* Every await settles.
FairSpec == Spec /\ \A r \in Requests : WF_vars(Step(r)) /\ WF_vars(WorkFor(r))

-----------------------------------------------------------------------------
(* Properties *)

Tasks ==
    [by : Requests, kind : {"add", "remove", "setup"}, who : Members, part : BOOLEAN, lead : BOOLEAN,
     at : {"find", "make", "read", "write", "teams", "queue", "wait", "clear"},
     left : SUBSET (0..MaxId), leads : SUBSET (0..MaxId), now : 0..MaxId,
     make : SUBSET Kinds, has : [Kinds -> Nat], mine : SUBSET Nat,
     after : (Requests \X Members) \union {Undef}]

TypeOK ==
    /\ teams \in [Slots -> Teams \union {Undef}]
    /\ pc \in [Requests -> Labels]
    /\ op \in [Requests -> Ops \union {Undef}]
    /\ my \in [Requests -> Teams \union {Undef}]
    /\ given \in DOMAIN Conditions
    /\ guild \in Seq(Kinds \X (0..MaxId))
    /\ roles \in [Members -> SUBSET Nat]
    /\ tasks \subseteq Tasks
    /\ turn \in (Requests \X Members) \union {Undef}
    /\ opened \subseteq Requests \X Members
    /\ up \in BOOLEAN
    /\ crossed \subseteq Members

View(t) == IF t = Undef THEN Undef ELSE [jobs |-> t.jobs, past |-> t.past]
Records == [w \in Slots |-> View(teams[w])]

\* The records of a team are what TeamBook says: a save of a team that was read
\* before another changed it, or a member who goes without a record, breaks it.
Book == INSTANCE TeamBook WITH Rows <- Slots, None <- Undef, book <- Records
ImplementsTeamBook == Book!Spec

\* Where creations do not overlap, every team can be got at by its id: getTeam
\* wants exactly one row.
TeamsFound == \A w \in Slots : teams[w] # Undef => Found(teams[w].id) = {w}

Holds(m, k, i) == \E n \in roles[m] : guild[n] = <<k, i>>

\* When requests wait for each other and for the bot, and nothing fails, members
\* have the roles of the stored teams, except those whom two handlers had at once.
RolesFollowTeams ==
    Given.quiet /\ (\A r \in Requests : ~Active(r) /\ ~Busy(r)) =>
        \A m \in Members \ crossed, i \in 1..MaxId :
            /\ Holds(m, "member", i) <=> \E w \in Found(i) : IsPart(teams[w], m)
            /\ Holds(m, "lead", i) <=> \E w \in Found(i) : IsLeader(teams[w], m)

\* Every request is answered, and the bot is done with all that it was told.
Handled == \A r \in Requests : (Active(r) \/ Busy(r)) ~> (~Active(r) /\ ~Busy(r))
=============================================================================
