------------------------ MODULE MCInterestReplication ------------------------
(* InterestReplication for TLC: the other players are interchangeable, and so *)
(* are the cells and the values of the physics.                               *)
EXTENDS InterestReplication, TLC

(* A session that a stale mDirectMutationBase has touched is not followed on: *)
(* nothing is claimed about it.                                               *)
Followed == ~overlapped

(* A server without a native authority that owns the player physics. *)
WithoutPhysics == ~native

Interchangeable ==
  Permutations(Players \ {Self}) \cup Permutations(Cells) \cup Permutations(Physics)
=============================================================================
