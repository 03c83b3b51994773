------------------------ MODULE MCServerApplication ------------------------
(***************************************************************************)
(* ServerApplication for TLC.  Connections and players are interchangeable *)
(* names, so permuting either set maps behaviours to behaviours.           *)
(***************************************************************************)
EXTENDS ServerApplication, TLC

NameSymmetry == Permutations(Tokens) \cup Permutations(Players)
=============================================================================
