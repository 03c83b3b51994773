------------------------- MODULE MCResumeTokenStore -------------------------
(***************************************************************************)
(* ResumeTokenStore for TLC.  Tokens are random and only ever compared for *)
(* equality, and no action or property names one of them, so they are      *)
(* symmetric.                                                              *)
(***************************************************************************)
EXTENDS ResumeTokenStore, TLC

TokenSymmetry == Permutations(Tokens)
=============================================================================
