--------------------------- MODULE PlayerPresence ---------------------------
(***************************************************************************)
(* What the lifecycle of the server promises about each player, without    *)
(* connections, tokens, registries and pump phases: a player is absent,    *)
(* online in a session, or hidden for a grace period after its connection  *)
(* was lost.  ServerApplication.tla implements this.                       *)
(***************************************************************************)
EXTENDS Integers

CONSTANTS Players, Grace, Horizon, MaxGeneration

VARIABLES
  presence,   \* player -> [status, session, generation, deadline]
  sessions,   \* sessions given out so far
  now

presenceVars == <<presence, sessions, now>>

Absent == [status |-> "absent", session |-> 0, generation |-> 0, deadline |-> 0]
Online(session, generation) ==
  [status |-> "online", session |-> session, generation |-> generation, deadline |-> 0]

Init ==
  /\ presence = [p \in Players |-> Absent]
  /\ sessions = 0
  /\ now = 0

\* An absent player enters, or a hidden one starts over, in a new session.
Enter(p) ==
  /\ presence[p].status # "online"
  /\ presence' = [presence EXCEPT ![p] = Online(sessions + 1, 1)]
  /\ sessions' = sessions + 1
  /\ UNCHANGED now

\* Connections are lost together; the players stay for the grace period.
Leave(ps) ==
  /\ ps # {}
  /\ \A p \in ps : presence[p].status = "online"
  /\ presence' = [p \in Players |->
                    IF p \in ps
                    THEN [presence[p] EXCEPT !.status = "hidden", !.deadline = now + Grace]
                    ELSE presence[p]]
  /\ UNCHANGED <<sessions, now>>

\* The same session goes on, one generation further, only within the grace.
Resume(p) ==
  /\ presence[p].status = "hidden"
  /\ now < presence[p].deadline
  /\ presence[p].generation < MaxGeneration
  /\ presence' = [presence EXCEPT ![p] = Online(@.session, @.generation + 1)]
  /\ UNCHANGED <<sessions, now>>

Expire(p) ==
  /\ presence[p].status = "hidden"
  /\ now >= presence[p].deadline
  /\ presence' = [presence EXCEPT ![p] = Absent]
  /\ UNCHANGED <<sessions, now>>

Tick ==
  /\ now < Horizon
  /\ now' = now + 1
  /\ UNCHANGED <<presence, sessions>>

Next ==
  \/ \E p \in Players : Enter(p) \/ Resume(p) \/ Expire(p)
  \/ \E ps \in SUBSET Players : Leave(ps)
  \/ Tick

Spec == Init /\ [][Next]_presenceVars
=============================================================================
