--------------------------- MODULE MCSecureVault ---------------------------
(* The instance of SecureVault that TLC checks.                            *)
EXTENDS SecureVault, TLC

VaultSymmetry ==
    Permutations(Requests) \cup Permutations(ReceiveKeys) \cup Permutations(Materials)
==============================================================================
