---------------------- MODULE MCSubscriptionMutations ----------------------
(* The instance of SubscriptionMutations that TLC checks.                  *)
EXTENDS SubscriptionMutations, TLC

CallSymmetry == Permutations(Calls) \cup Permutations(Identities)
==============================================================================
