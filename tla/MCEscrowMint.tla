---------------------------- MODULE MCEscrowMint ----------------------------
(***************************************************************************)
(* Instances of EscrowMint for TLC.                                        *)
(***************************************************************************)
EXTENDS EscrowMint, TLC

Symmetry == Permutations(Contributors) \cup Permutations(Runs)
=============================================================================
