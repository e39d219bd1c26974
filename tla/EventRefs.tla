------------------------------ MODULE EventRefs ------------------------------
(***************************************************************************)
(* What the Events collection promises about references: an event or link  *)
(* is reached by its account and id (getEvent), so every document keeps    *)
(* the reference it was given, no two documents have the same one at the   *)
(* same time, and a reference is free again once its document is deleted.  *)
(***************************************************************************)
CONSTANTS Keys, Refs, NoRef

VARIABLE ref    \* the reference of each document, NoRef if it is not stored

Free(x) == \A k \in Keys : ref[k] # x

Init ==
    /\ ref \in [Keys -> Refs \union {NoRef}]
    /\ \A j, k \in Keys : ref[j] = ref[k] /\ ref[j] # NoRef => j = k

\* A document is stored under a free reference.
Take(k, x) ==
    /\ ref[k] = NoRef
    /\ Free(x)
    /\ ref' = [ref EXCEPT ![k] = x]

\* The document with reference x is deleted.
Drop(x) == ref' = [k \in Keys |-> IF ref[k] = x THEN NoRef ELSE ref[k]]

Next == \E x \in Refs : Drop(x) \/ \E k \in Keys : Take(k, x)

Spec == Init /\ [][Next]_ref
=============================================================================
