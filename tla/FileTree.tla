------------------------------ MODULE FileTree ------------------------------
(***************************************************************************)
(* What the file store promises: a table of files and folders, each with a *)
(* parent and a name, in which a change touches one file and one thing     *)
(* about it.  Nothing is promised of the parent: it may be gone.           *)
(***************************************************************************)
EXTENDS Naturals

CONSTANTS Ids, Rows, Undef, First

VARIABLE tree

Init == tree \in First

Is(f) == tree[f] # Undef

Put(f, row) == tree' = [tree EXCEPT ![f] = row]

Add(f) == ~Is(f) /\ \E row \in Rows : Put(f, row)

Rename(f) == Is(f) /\ \E row \in Rows : Put(f, [tree[f] EXCEPT !.name = row.name])

Move(f) == Is(f) /\ \E row \in Rows : Put(f, [tree[f] EXCEPT !.parent = row.parent])

Remove(f) == Is(f) /\ Put(f, Undef)

Next == \E f \in Ids : Add(f) \/ Rename(f) \/ Move(f) \/ Remove(f)

Spec == Init /\ [][Next]_tree
=============================================================================
