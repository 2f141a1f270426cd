-------------------------------- MODULE MCKyc --------------------------------
(***************************************************************************)
(* Kyc on a small instance.                                                *)
(***************************************************************************)
EXTENDS Kyc, KycSamples, TLC

Symmetry == Permutations(Workers)
=============================================================================
