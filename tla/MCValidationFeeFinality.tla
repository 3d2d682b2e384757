---------------------- MODULE MCValidationFeeFinality ----------------------
(* Instance for TLC.  Scopes, blocks and policies are interchangeable. *)
EXTENDS ValidationFeeFinality, TLC

HashSymmetry == Permutations(Scopes) \cup Permutations(Blocks) \cup Permutations(Policies)
=============================================================================
