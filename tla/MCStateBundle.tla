--------------------------- MODULE MCStateBundle ---------------------------
(* Model-checking instances of StateBundle: requests and slots are           *)
(* interchangeable wherever no constant singles one out.                     *)
EXTENDS StateBundle, TLC

MCSymmetry == Permutations(Requests) \cup Permutations(Slots)
=============================================================================
