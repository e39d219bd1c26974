------------------------------ MODULE TeamsMC ------------------------------
(***************************************************************************)
(* Small instances of Teams: members a, b and c, of whom c leads.          *)
(***************************************************************************)
EXTENDS Teams, TLC

CONSTANTS a, b, c, x, y, u, v, w, z

Nobody == [m \in Members |-> Undef]
List(f) == f @@ Nobody
Jobless == [m \in Members |-> {}]
Clean == [m \in Members |-> [j \in Jobs |-> 0]]

MCTeam(i, jobs, lead) == [id |-> i, jobs |-> jobs @@ Jobless, lead |-> lead, past |-> Clean]
MCStaff == MCTeam(0, (a :> {x}), c)

MCFirst ==
    {(v :> t) @@ [s \in Slots |-> Undef] :
        t \in {Undef, MCTeam(1, (a :> {x}), c), MCTeam(1, (a :> {x}) @@ (b :> {y}), Undef)}}

MCOp(name, i, jobs, lead) ==
    [name |-> name, id |-> i, all |-> FALSE, jobs |-> List(jobs), lead |-> lead]
Create(jobs, lead) == MCOp("create", 0, jobs, lead)
Set(i, jobs, lead) == [MCOp("set", i, jobs, lead) EXCEPT !.all = TRUE]
Lead(i, lead) == MCOp("set", i, Nobody, lead)
One(name, i, m, j) == MCOp(name, i, (m :> j), "keep")
Delete1(i) == MCOp("delete", i, Nobody, "keep")
Change1(m) == MCOp("member", 0, (m :> x), "keep")

\* One change at a time: nobody is told of twice.
MCCalm ==
    {Create(Nobody, Undef), Set(1, (a :> y), "keep"), Lead(1, Undef),
     Lead(1, c), One("add", 1, a, x), One("add", 1, b, y), One("remove", 1, a, x), One("modify", 1, b, x),
     Delete1(1), Change1(a), Change1(c)}
\* Requests that the bot hears nothing of.
MCStored ==
    {Create((a :> x) @@ (b :> y), c), Set(1, (b :> y), c), Set(0, (b :> y), c), Lead(1, a),
     One("add", 1, a, y), One("add", 0, b, y), One("remove", 1, a, x), One("remove", 1, c, x),
     One("modify", 1, a, y), Delete1(1), Delete1(0), Change1(a)}

\* Handlers that overlap: a leader who is made leader again, a set-up, ...
MCBot == {Lead(1, c), One("remove", 1, a, x), Change1(a)}

\* ... and set-ups in a new server.
MCFresh == {Change1(a), Change1(b), Create((a :> x), c)}

MCApart == (OfTeam \X OfTeam) \union {<<"create", "create">>}

MCConditions ==
    <<[menu |-> MCCalm, upto |-> 3, apart |-> {}, failing |-> {}, away |-> {},
       quiet |-> TRUE, fresh |-> FALSE],
      [menu |-> MCStored, upto |-> 2, apart |-> MCApart, failing |-> Labels, away |-> Requests,
       quiet |-> FALSE, fresh |-> FALSE],
      [menu |-> MCBot, upto |-> 2, apart |-> MCApart, failing |-> {"bot", "setup"}, away |-> {},
       quiet |-> FALSE, fresh |-> FALSE],
      [menu |-> MCFresh, upto |-> 2, apart |-> MCApart, failing |-> {"setup"}, away |-> {},
       quiet |-> FALSE, fresh |-> TRUE]>>
=============================================================================
