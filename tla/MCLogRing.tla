----------------------------- MODULE MCLogRing -----------------------------
(* LogRing on a small instance.  A block holds 2 characters of a first and  *)
(* 3 of a further chunk; with the ring of three blocks, texts of 2, 4 and 9 *)
(* characters take one block, two blocks, and one more than there are.      *)
EXTENDS LogRingInv, LogRingRefines

MCLens == {2, 4, 9}
============================================================================
