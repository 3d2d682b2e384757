---------------------- MODULE MCIrohaConnectBoundary ----------------------
(* Instance for TLC.  The numbers of sent frames and vault calls are         *)
(* bounded by the frames and sessions.  Wallet contexts are interchangeable, *)
(* but a run that checks liveness may not use that symmetry.                 *)
EXTENDS IrohaConnectBoundary, TLC
=============================================================================
