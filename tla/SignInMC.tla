------------------------------ MODULE SignInMC ------------------------------
(***************************************************************************)
(* Small instances of SignIn: one user with up to two passwords, sessions  *)
(* s1 and s2, form tokens and one token to reset the password.             *)
(***************************************************************************)
EXTENDS SignIn, TLC

CONSTANTS u, s1, s2, p1, p2, p3, f1, f2, f3, t, x, y

MCEntry(pw, age) == [pw |-> pw, age |-> age]
MCHistories == {<<MCEntry(p1, "old")>>, <<MCEntry(p1, "aged"), MCEntry(p2, "old")>>}

MCSession(type) ==
    [user |-> u, type |-> type, until |-> IF type = "SCAN_ADD" THEN "event" ELSE "soon"]
MCStanding == {(s1 :> MCSession(type)) @@ [k \in Ids \ {s1} |-> Undef] : type \in Types}

\* A set-up, a second factor or neither.
MCFitted == {<<{}, {}>>, <<{<<u, x>>}, {}>>, <<{}, {<<u, x>>}>>}

MCOp(name) ==
    [name |-> name, user |-> u, id |-> Undef, pw |-> Undef, form |-> Undef, reset |-> Undef]
Sign(pw) == [MCOp("signin") EXCEPT !.pw = pw]
In(name, id) == [MCOp(name) EXCEPT !.id = id]
With(name, id, form) == [In(name, id) EXCEPT !.form = form]
Change(id, pw, form) == [With("change", id, form) EXCEPT !.pw = pw]
Ask(reset) == [MCOp("request") EXCEPT !.reset = reset]
Reset(reset, pw) == [MCOp("reset") EXCEPT !.reset = reset, !.pw = pw]

\* One of each.
MCMenu ==
    {Sign(p1), Sign(p2), Change(s1, p2, f1), Change(s2, p2, f1), Change(s1, p3, f2),
     With("second", s1, f1), With("second", s2, f2), With("scan", s1, f2), With("start", s1, f1),
     With("start", s1, f2), With("finish", s1, f2), With("form", s1, f3), In("visit", s1), Ask(t), Reset(t, p3)}

\* One form sent twice.
MCTwice == {Change(s1, p2, f1), With("start", s1, f1)}

Both(A, B) == (A \X B) \union (B \X A)
MCApart ==
    Both({"change", "reset"}, {"signin", "change", "reset"})
    \union {<<"second", "second">>}
    \union Both({"start"}, {"start", "finish"})
    \union Both({"scan"}, InSession)
MCNone == {}
MCAnywhere == Labels
=============================================================================
