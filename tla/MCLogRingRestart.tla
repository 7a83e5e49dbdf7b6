-------------------------- MODULE MCLogRingRestart --------------------------
(* LogRingRestart on the instance of MCLogRing, whose comment it shares.     *)
EXTENDS LogRingRestart, TLC

MCLens == {2, 4, 9}
=============================================================================
