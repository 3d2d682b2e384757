---------------------------- MODULE MCSccpRoute -----------------------------
(* Instance for TLC: one careful user, who is also the operator, and another. *)
EXTENDS SccpRoute, TLC

CONSTANTS careful, other, large, small

RecipientDef == (large :> other @@ small :> careful)
AmountDef == (large :> 2 @@ small :> 1)
=============================================================================
