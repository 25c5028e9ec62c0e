---------------------------- MODULE QuoteIntakeMC ----------------------------
(* Instances of QuoteIntake for TLC.                                        *)
EXTENDS QuoteIntake, TLC

Interchangeable == Permutations(Request) \cup Permutations(Quote) \cup Permutations(Price)
=============================================================================
