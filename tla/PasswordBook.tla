---------------------------- MODULE PasswordBook ----------------------------
(***************************************************************************)
(* What passwords promise: a user has a newest password and, before it, a  *)
(* few that may not be used again; a new one goes on top, and nothing else *)
(* ever happens to them.                                                   *)
(***************************************************************************)
EXTENDS Naturals, Sequences

CONSTANTS Users, Passwords, HistoryLength

VARIABLE book  \* the passwords of each user, the newest first

\* The first n elements of s, or all of them.
Upto(n, s) == SubSeq(s, 1, IF Len(s) < n THEN Len(s) ELSE n)

Used(u) == {book[u][i] : i \in 1..Len(book[u])}

SetPassword(u, p) ==
    /\ p \notin Used(u)
    /\ book' = [book EXCEPT ![u] = Upto(HistoryLength, <<p>> \o book[u])]

Init == book \in [Users -> Seq(Passwords)]

Next == \E u \in Users, p \in Passwords : SetPassword(u, p)

Spec == Init /\ [][Next]_book
=============================================================================
