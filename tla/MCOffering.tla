----------------------------- MODULE MCOffering -----------------------------
(***************************************************************************)
(* Instances of Offering for TLC.  The reservations and the requests are   *)
(* interchangeable, so safety runs use their permutations as a symmetry.   *)
(***************************************************************************)
EXTENDS Offering, TLC

Symmetry == Permutations(Keys) \cup Permutations(Requests)
=============================================================================
