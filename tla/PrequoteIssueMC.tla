--------------------------- MODULE PrequoteIssueMC ---------------------------
(* Instances of PrequoteIssue for TLC.                                      *)
EXTENDS PrequoteIssue, TLC

Interchangeable == Permutations(Call) \cup Permutations(Key) \cup Permutations(Plan)
=============================================================================
