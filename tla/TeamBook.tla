------------------------------ MODULE TeamBook ------------------------------
(***************************************************************************)
(* What the records of a team promise: whoever leaves it is written into   *)
(* its history with a job that he had, once, and nothing else ever changes *)
(* the history of a team that is kept.                                     *)
(***************************************************************************)
EXTENDS Naturals

CONSTANTS Rows, Members, Jobs, None

\* A row is None or has the jobs of every member, no jobs for whoever is not on
\* the team, and how often somebody left it with a job.
VARIABLE book

\* m goes, with one of the jobs that he had.
Leaves(old, new, m) ==
    IF old.jobs[m] # {} /\ new.jobs[m] = {}
    THEN \E j \in old.jobs[m] : \A k \in Jobs :
            new.past[m][k] = old.past[m][k] + (IF k = j THEN 1 ELSE 0)
    ELSE new.past[m] = old.past[m]

Change(w) ==
    /\ book[w] # None /\ book'[w] # None
    /\ \A m \in Members : Leaves(book[w], book'[w], m)

Found(w) ==
    /\ book[w] = None
    /\ book'[w] = [jobs |-> [m \in Members |-> {}], past |-> [m \in Members |-> [j \in Jobs |-> 0]]]

Disband(w) == book[w] # None /\ book'[w] = None

Init ==
    book \in [Rows -> [jobs : [Members -> SUBSET Jobs], past : [Members -> [Jobs -> Nat]]] \union {None}]

\* One row at a time.
Next ==
    \E w \in Rows :
        /\ Change(w) \/ Found(w) \/ Disband(w)
        /\ book' = [book EXCEPT ![w] = book'[w]]

Spec == Init /\ [][Next]_book
=============================================================================
