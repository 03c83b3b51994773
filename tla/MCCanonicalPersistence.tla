----------------------- MODULE MCCanonicalPersistence -----------------------
(***************************************************************************)
(* CanonicalPersistence for TLC: the credentials are interchangeable.      *)
(***************************************************************************)
EXTENDS CanonicalPersistence, TLC

OwnerSymmetry == Permutations(Owners)
=============================================================================
