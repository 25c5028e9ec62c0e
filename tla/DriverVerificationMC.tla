------------------------ MODULE DriverVerificationMC ------------------------
(* A driver with a vehicle, whose dossiers are renewed, reworked and decided *)
(* while administrators sanction, edit and reinstate.                       *)
EXTENDS DriverVerification, TLC
CONSTANTS d1

MCOwner == [v \in Vehicle |-> d1]

Interchangeable == Permutations(Case) \cup Permutations(Material)
=============================================================================
