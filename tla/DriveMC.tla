------------------------------ MODULE DriveMC -------------------------------
(***************************************************************************)
(* Small instances of Drive: two folders in the root, a file in one of     *)
(* them, and room for more.                                                *)
(***************************************************************************)
EXTENDS Drive, Sequences, TLC

CONSTANTS a, b

MCRow(p, folder) == [parent |-> p, name |-> "old", folder |-> folder]
MCTable(s) == [f \in Ids |-> IF f <= Len(s) THEN s[f] ELSE Undef]

\* Folders 1 and 2 side by side, and file 3 in 1.
MCFirst == {MCTable(<<MCRow(Root, TRUE), MCRow(Root, TRUE), MCRow(1, FALSE)>>)}

\* One change of a file at a time; changes that overlap; calls that fail; and, with one
\* session for two users, uploads that are refused, break off or fail, and workers that
\* end.
MCConditions ==
    <<[deeds |-> Deeds, visits |-> 2, pool |-> 2, apart |-> TRUE, failing |-> {}],
      [deeds |-> {"setInfo", "insertChild"}, visits |-> 3, pool |-> 2,
       apart |-> FALSE, failing |-> {}],
      [deeds |-> Deeds \ {"unfold", "get"}, visits |-> 2, pool |-> 2, apart |-> TRUE,
       failing |-> {"read", "row", "bytes", "save"}],
      [deeds |-> {"upload", "delete"}, visits |-> 2, pool |-> 1, apart |-> FALSE,
       failing |-> {"token", "body", "read", "query"}]>>
=============================================================================
