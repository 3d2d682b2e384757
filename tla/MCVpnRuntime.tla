---------------------------- MODULE MCVpnRuntime ----------------------------
(* Instance for TLC.  Wallet contexts are interchangeable. *)
EXTENDS VpnRuntime, TLC

ContextSymmetry == Permutations(Contexts)

\* Of what the page shows, the run "vpn" asks only for the session that a poll
\* described; no step but the page's own updates reads more of it.
PageView == <<receiptVars, runtimeVars, call, lease, tunnel, view, faults,
              IF shown.polled THEN shown.about ELSE 0>>
=============================================================================
