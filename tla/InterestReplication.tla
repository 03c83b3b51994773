------------------------- MODULE InterestReplication -------------------------
(***************************************************************************)
(* What one client is told about the players around it: the projections of *)
(* the server (interest_projection.cpp and their callers), the reliable    *)
(* lane and the latest-wins views on their way, and the session of the     *)
(* client that takes them (client_session.cpp).                            *)
(*                                                                         *)
(*   cells        the cell of each player in the canonical state, or Away  *)
(*   sessions     players with an active session                           *)
(*   hidden       players that disconnected and may resume or expire       *)
(*   unborn       players whose character is not completed                 *)
(*   revision, checkpoint, now   CanonicalRevision, the checkpoint tick of *)
(*                the last publication, the tick that comes next           *)
(*   native       whether a native authority owns the player physics       *)
(*   frame        what projectPlayerPhysics() finds for Self in the        *)
(*                committed frames of the authority, or None               *)
(*   base         mDirectMutationBase and its revision                     *)
(*   lane, views  messages on their way to Self: reliable and in order,    *)
(*                or latest-wins, which overtake each other and get lost   *)
(*   requests     resync requests on their way to the server               *)
(*   client       the ClientSessionStateMachine and runtime of Self        *)
(*                                                                         *)
(* The clients of the other players get projections of their own, which    *)
(* share only the canonical state.  overlapped, resampled, given (the tick *)
(* and the physics with which Self was given the current revision, or      *)
(* None) and lost (the last view given to Self was lost) are history of    *)
(* Self's session.                                                         *)
(***************************************************************************)
EXTENDS Naturals, FiniteSets, Sequences, SequencesExt

CONSTANTS
  Players,
  Self,            \* the player whose client is watched
  Cells,
  Away,            \* not in the canonical state
  None,
  Physics,         \* values of PlayerPhysicsBaseline
  MaxRevision,     \* largest CanonicalRevision
  MaxTick,         \* largest ServerTick
  MaxLane,         \* reliable messages on their way
  MaxViews,        \* views on their way
  MaxRequests      \* resync requests on their way

ASSUME InterestAssumption ==
  /\ Self \in Players /\ Away \notin Cells /\ Physics # {}
  /\ MaxRevision \in Nat \ {0} /\ MaxTick \in Nat \ {0}
  /\ MaxLane \in Nat \ {0, 1} /\ MaxViews \in Nat \ {0}
  /\ MaxRequests \in Nat

VARIABLES
  cells, sessions, hidden, unborn, revision, checkpoint, native, now, frame, base,
  lane, views, requests, client,
  overlapped, resampled, given, lost

canonical == <<cells, sessions, hidden, unborn, revision, checkpoint, native>>
wire == <<lane, views, requests>>
history == <<overlapped, resampled, given, lost>>
vars == <<canonical, now, frame, base, wire, client, history>>

-----------------------------------------------------------------------------
(* The messages. *)

Revisions == 1 .. MaxRevision
Ticks == 0 .. MaxTick
Places == [Players -> Cells \cup {Away}]

Baselines ==
  [kind : {"baseline"}, revision : Revisions, tick : Ticks, members : SUBSET Players]
Batches ==
  [kind : {"batch"}, revision : Revisions, enters : SUBSET Players, leaves : SUBSET Players]
Views ==
  [revision : Revisions, tick : Ticks, members : SUBSET Players, physics : Physics \cup {None}]

\* What the views of one revision may differ in.
Samples == [tick : Ticks, physics : Physics \cup {None}]

\* What mDirectMutationBase keeps.
Bases == [cells : Places, sessions : SUBSET Players, revision : Revisions]

\* None stands for an empty std::optional.
ASSUME NoneAssumption ==
  /\ None \notin Nat
  /\ None \notin Baselines /\ None \notin Batches /\ None \notin Views
  /\ None \notin Bases /\ None \notin Samples /\ None \notin Physics

Present(at) == {p \in Players : at[p] # Away}

\* visibleTo(): whoever is in the cell of Self, Self too.
visibleTo(at) == {p \in Present(at) : at[p] = at[Self]}

Accepted == [kind |-> "accepted"]

Messages == {Accepted} \cup Baselines \cup Batches

Baseline(at, rev, tick) ==
  [kind |-> "baseline", revision |-> rev, tick |-> tick, members |-> visibleTo(at)]

\* Only the baseline of a resume or a resync and the views of a tick ask the
\* native authority for the physics of Self.
View(at, rev, tick, physics) ==
  [revision |-> rev, tick |-> tick, members |-> visibleTo(at), physics |-> physics]

\* projectInterestChanges() for Self: at most one batch, and none for a session
\* that the state before did not have.
projectInterestChanges(before, known, after, rev) ==
  LET batch == [kind |-> "batch", revision |-> rev,
                enters |-> visibleTo(after) \ visibleTo(before),
                leaves |-> visibleTo(before) \ visibleTo(after)]
  IN  IF known /\ batch.enters \cup batch.leaves # {} THEN <<batch>> ELSE <<>>

-----------------------------------------------------------------------------
(* The client. *)

Clients ==
  [state : {"Offline", "Authenticating", "Established", "Refused"},
   baseline : Baselines \cup {None}, batch : Batches \cup {None},
   snapshot : Views \cup {None}, observed : SUBSET Players,
   resync : BOOLEAN, seen : BOOLEAN]

Offline ==
  [state |-> "Offline", baseline |-> None, batch |-> None, snapshot |-> None,
   observed |-> {}, resync |-> FALSE, seen |-> FALSE]

NewClient == [Offline EXCEPT !.state = "Authenticating"]

\* reject() and fail(): the session is closed for good.
Refused == [Offline EXCEPT !.state = "Refused"]

\* The first baseline or view binds the session.
Bound(c) == c.baseline # None \/ c.snapshot # None

interestBaselineComplete(c) ==
  /\ c.baseline # None /\ c.snapshot # None
  /\ c.snapshot.revision >= c.baseline.revision

\* The end of advance(): a pending resync is over with a complete baseline.
Settled(c) ==
  IF c.resync /\ c.seen /\ interestBaselineComplete(c)
  THEN [c EXCEPT !.resync = FALSE, !.seen = FALSE] ELSE c

receiveReliableInterestBaseline(c, baseline) ==
  LET known == c.baseline # None
  IN  IF known /\ baseline.revision < c.baseline.revision THEN Refused
      ELSE IF known /\ baseline.revision = c.baseline.revision
      THEN IF baseline = c.baseline THEN [c EXCEPT !.seen = c.resync] ELSE Refused
      ELSE [c EXCEPT !.baseline = baseline, !.observed = baseline.members,
                     !.batch = None, !.seen = c.resync]

receiveReliableObservationBatch(c, batch) ==
  LET known == c.batch # None
  IN  IF c.baseline = None THEN Refused
      ELSE IF known /\ batch.revision < c.batch.revision THEN Refused
      ELSE IF known /\ batch.revision = c.batch.revision
      THEN IF batch = c.batch THEN c ELSE Refused
      ELSE IF batch.enters \cap c.observed # {} \/ ~(batch.leaves \subseteq c.observed)
      THEN Refused
      ELSE [c EXCEPT !.observed = (c.observed \cup batch.enters) \ batch.leaves,
                     !.batch = batch]

receiveLatestWinsSnapshot(c, view) ==
  LET known == c.snapshot # None
  IN  IF Self \notin view.members THEN Refused
      ELSE IF known /\ view.revision < c.snapshot.revision THEN c
      ELSE IF known /\ view.revision = c.snapshot.revision
      THEN IF view = c.snapshot THEN c ELSE Refused
      ELSE [c EXCEPT !.snapshot = view]

\* One message of the reliable lane.  The baseline precedes every batch there,
\* so that the batches that wait for a binding (mPendingObservations) are none.
receiveReliable(c, message) ==
  IF c.state = "Refused" THEN c
  ELSE IF message.kind = "accepted" THEN [c EXCEPT !.state = "Established"]
  ELSE IF message.kind = "baseline" THEN Settled(receiveReliableInterestBaseline(c, message))
  ELSE receiveReliableObservationBatch(c, message)

-----------------------------------------------------------------------------
Init ==
  /\ cells \in Places
  /\ sessions = {} /\ hidden = {}
  /\ unborn \in SUBSET Players
  /\ revision = 1 /\ checkpoint = 0 /\ now = 1
  /\ native \in BOOLEAN /\ frame = None /\ base = None
  /\ lane = <<>> /\ views = {} /\ requests = 0
  /\ client = Offline
  /\ overlapped = FALSE /\ resampled = FALSE
  /\ given = None /\ lost = FALSE

-----------------------------------------------------------------------------
(* The server. *)

\* The bounds of the messages on their way.
Room ==
  /\ Len(lane) < MaxLane
  /\ Cardinality(views) < MaxViews

\* A lifecycle transaction: the next revision, published at the given tick.
Publish(tick) ==
  /\ revision < MaxRevision
  /\ revision' = revision + 1 /\ checkpoint' = tick

\* The reliable messages and the views that Self is given, of this tick.
Give(messages, projected, physics) ==
  /\ lane' = lane \o messages
  /\ views' = views \cup projected
  /\ given' = IF projected # {} THEN [tick |-> now, physics |-> physics]
              ELSE IF revision' = revision THEN given ELSE None
  /\ lost' = (lost /\ projected = {})
  /\ UNCHANGED requests

\* A batch goes out as a pair with the view, which has no physics.
Deliver(after) ==
  LET batch == projectInterestChanges(cells, Self \in sessions, after, revision + 1)
  IN  Give(batch, IF batch = <<>> THEN {} ELSE {View(after, revision + 1, now, None)}, None)

\* Self gets a session: the answer, a baseline and a view, on a new connection.
Greet(after, physics) ==
  /\ client' = NewClient
  /\ lane' = <<Accepted, Baseline(after, revision + 1, now)>>
  /\ views' = {View(after, revision + 1, now, physics)}
  /\ requests' = 0
  /\ given' = [tick |-> now, physics |-> physics]
  /\ frame' = physics
  /\ overlapped' = (base # None) /\ resampled' = FALSE /\ lost' = FALSE

\* Another player comes or goes.
Inform(after) ==
  /\ Deliver(after)
  /\ overlapped' = (overlapped \/ base # None)
  /\ UNCHANGED <<client, frame, resampled>>

\* AuthenticatedJoinCoordinator and enqueueJoinResponses(): a new player, or one
\* that the world still has; only an established character keeps its place.  The
\* authority epoch is a new one, and no frame fits it until a tick makes one.
Join(p, c) ==
  LET at    == IF cells[p] # Away /\ p \notin unborn THEN cells[p] ELSE c
      after == [cells EXCEPT ![p] = at]
  IN  /\ p \notin sessions
      /\ Room
      /\ cells' = after
      /\ sessions' = sessions \cup {p} /\ hidden' = hidden \ {p}
      /\ Publish(now)
      /\ IF p = Self THEN Greet(after, None) ELSE Inform(after)
      /\ UNCHANGED <<unborn, native, now, base>>

\* What is found for Self after a resume: the frame that it left, without the
\* commands of the earlier session.
Resumed == IF frame = None THEN {None} ELSE Physics

\* Mutant: a player that resumed may still expire.
Resume_Mutant(p) ==
  /\ p \in hidden
  /\ Room
  /\ sessions' = sessions \cup {p}
  /\ Publish(now)
  /\ IF p = Self THEN \E physics \in Resumed : Greet(cells, physics) ELSE Inform(cells)
  /\ UNCHANGED <<cells, hidden, unborn, native, now, base>>

\* resumeConnection()
Resume(p) ==
  /\ p \in hidden
  /\ Room
  /\ sessions' = sessions \cup {p} /\ hidden' = hidden \ {p}
  /\ Publish(now)
  /\ IF p = Self THEN \E physics \in Resumed : Greet(cells, physics) ELSE Inform(cells)
  /\ UNCHANGED <<cells, unborn, native, now, base>>

\* disconnectConnections(): the players stay.  A session of the base does not
\* come back, a later one has another generation or id.
Disconnect(ps) ==
  /\ ps # {} /\ ps \subseteq sessions
  /\ sessions' = sessions \ ps /\ hidden' = hidden \cup ps
  /\ \E tick \in {now, checkpoint} : Publish(tick)
  /\ base' = IF base = None THEN None ELSE [base EXCEPT !.sessions = @ \ ps]
  /\ IF Self \in ps
     THEN /\ client' = Offline
          /\ lane' = <<>> /\ views' = {} /\ requests' = 0
          /\ overlapped' = FALSE /\ resampled' = FALSE /\ lost' = FALSE
     ELSE UNCHANGED <<client, wire, overlapped, resampled, lost>>
  /\ given' = None
  /\ UNCHANGED <<cells, unborn, native, now, frame>>

\* Mutant: nobody is told.
Expire_Mutant(p) ==
  LET after == [cells EXCEPT ![p] = Away]
  IN  /\ p \in hidden
      /\ Room
      /\ cells' = after
      /\ hidden' = hidden \ {p}
      /\ Publish(now)
      /\ UNCHANGED <<sessions, unborn, native, now, frame, base, wire, client, history>>

\* expireSessions()
Expire(p) ==
  LET after == [cells EXCEPT ![p] = Away]
  IN  /\ p \in hidden
      /\ Room
      /\ cells' = after
      /\ hidden' = hidden \ {p}
      /\ Publish(now)
      /\ Inform(after)
      /\ UNCHANGED <<sessions, unborn, native, now, base>>

\* The last character creation command moves the player at once; the tick that
\* follows tells the others, with the state from before the first such move.
CompleteCharacter(p, c) ==
  /\ p \in sessions \cap unborn
  /\ cells' = [cells EXCEPT ![p] = c]
  /\ unborn' = unborn \ {p}
  /\ Publish(now)
  /\ base' = IF base # None THEN base
             ELSE [cells |-> cells, sessions |-> sessions, revision |-> revision]
  /\ given' = None
  /\ UNCHANGED <<sessions, hidden, native, now, frame, wire, client, overlapped, resampled, lost>>

\* Mutant: what character creation moved is forgotten.
Before_Mutant == [cells |-> cells, sessions |-> sessions, revision |-> revision]

\* The state that a tick's projections start from.
Before == IF base # None THEN base
          ELSE [cells |-> cells, sessions |-> sessions, revision |-> revision]

\* projectPlayerPhysics() after a tick: the native authority has a frame of each
\* player with a character.
Frames == IF native /\ Self \in Present(cells) \ unborn THEN Physics ELSE {None}

\* The end of a tick that moved the players: the projections start from the base,
\* and a revision that was told of is not told of again.  The view shows the
\* physics of the candidate; what is found once that is committed may differ,
\* since the candidate's are also blocked by encumbrance and by what the tick ends.
CommitTick(after, rev, shown, found) ==
  LET told  == rev # Before.revision /\ Self \in sessions
      batch == projectInterestChanges(Before.cells, Self \in Before.sessions, after, rev)
  IN  /\ cells' = after
      /\ revision' = rev /\ checkpoint' = now /\ now' = now + 1
      /\ frame' = found /\ base' = None
      /\ Give(IF told THEN batch ELSE <<>>,
              IF told THEN {View(after, rev, now, shown)} ELSE {}, shown)
      /\ UNCHANGED <<sessions, hidden, unborn, native, client, overlapped, resampled>>

\* A tick in which some players move, or something else changes, or nothing
\* does: the checkpoint advances with every tick, the revision with a change.
\* A native authority with physics changes something in every tick
\* (stageNativeDoorStep()).
Tick(changed) ==
  /\ now < MaxTick /\ Room
  /\ native => changed
  /\ changed => revision < MaxRevision
  /\ \E after \in Places, shown, found \in Frames :
       /\ Present(after) = Present(cells)
       /\ after # cells => changed
       /\ CommitTick(after, IF changed THEN revision + 1 ELSE revision, shown, found)

\* Mutant: the view is left out.
resyncConnection_Mutant ==
  /\ Room
  /\ \E taken \in 1 .. requests : requests' = requests - taken
  /\ lane' = Append(lane, Baseline(cells, revision, checkpoint))
  /\ given' = [tick |-> checkpoint, physics |-> frame] /\ lost' = FALSE
  /\ resampled' = (resampled \/ given \notin {None, given'})
  /\ overlapped' = (overlapped \/ base # None)
  /\ UNCHANGED <<canonical, now, frame, base, views, client>>

\* resyncConnection(): the last publication under the current revision, for the
\* requests that arrived together.
resyncConnection ==
  /\ Room
  /\ \E taken \in 1 .. requests : requests' = requests - taken
  /\ lane' = Append(lane, Baseline(cells, revision, checkpoint))
  /\ views' = views \cup {View(cells, revision, checkpoint, frame)}
  /\ given' = [tick |-> checkpoint, physics |-> frame] /\ lost' = FALSE
  /\ resampled' = (resampled \/ given \notin {None, given'})
  /\ overlapped' = (overlapped \/ base # None)
  /\ UNCHANGED <<canonical, now, frame, base, client>>

-----------------------------------------------------------------------------
(* The client and the network. *)

\* A client that closes takes its connection along.
Becomes(c, messages, remaining) ==
  /\ client' = c
  /\ lane' = IF c.state = "Refused" THEN <<>> ELSE messages
  /\ views' = IF c.state = "Refused" THEN {} ELSE remaining

ReceiveReliable ==
  /\ lane # <<>>
  /\ Becomes(receiveReliable(client, Head(lane)), Tail(lane), views)
  /\ requests' = IF client'.state = "Refused" THEN 0 ELSE requests
  /\ UNCHANGED <<canonical, now, frame, base, history>>

\* A view that overtakes the authentication reply waits for it.
ReceiveView(view) ==
  /\ client.state = "Established"
  /\ Becomes(Settled(receiveLatestWinsSnapshot(client, view)), lane, views \ {view})
  /\ requests' = IF client'.state = "Refused" THEN 0 ELSE requests
  /\ UNCHANGED <<canonical, now, frame, base, history>>

\* A view is lost on the way, or a later one takes its slot of the queue.
LoseView(view) ==
  /\ views' = views \ {view}
  /\ lost' = (lost \/ \A other \in views : other.revision <= view.revision)
  /\ UNCHANGED <<canonical, now, frame, base, lane, requests, client, overlapped, resampled, given>>

requestResync ==
  /\ client.state = "Established" /\ Bound(client)
  /\ ~client.resync
  /\ requests < MaxRequests
  /\ client' = [client EXCEPT !.resync = TRUE, !.seen = FALSE]
  /\ requests' = requests + 1
  /\ UNCHANGED <<canonical, now, frame, base, lane, views, history>>

Next ==
  \/ \E p \in Players : Resume(p) \/ Expire(p)
  \/ \E p \in Players, c \in Cells : Join(p, c) \/ CompleteCharacter(p, c)
  \/ \E ps \in SUBSET Players : Disconnect(ps)
  \/ \E changed \in BOOLEAN : Tick(changed)
  \/ resyncConnection
  \/ ReceiveReliable
  \/ \E view \in views : ReceiveView(view) \/ LoseView(view)
  \/ requestResync

Spec == Init /\ [][Next]_vars

-----------------------------------------------------------------------------
TypeOK ==
  /\ cells \in Places
  /\ sessions \subseteq Present(cells) /\ hidden \subseteq Present(cells)
  /\ sessions \cap hidden = {}
  /\ unborn \subseteq Players
  /\ revision \in Revisions
  /\ checkpoint \in 0 .. now /\ now \in 1 .. MaxTick
  /\ native \in BOOLEAN /\ frame \in Physics \cup {None}
  /\ base = None \/ (base \in Bases /\ base.revision < revision)
  /\ lane \in Seq(Messages)
  /\ views \subseteq Views
  /\ requests \in 0 .. MaxRequests
  /\ client \in Clients
  /\ client.state = "Offline" <=> Self \notin sessions
  /\ overlapped \in BOOLEAN /\ resampled \in BOOLEAN /\ lost \in BOOLEAN
  /\ given \in Samples \cup {None}

\* A client closes its session over what it is told about players in three cases
\* only: a join, an expiration, a greeting or a resync came between a character
\* completion and the next tick (a stale mDirectMutationBase); a resync sampled
\* an unchanged revision on another tick; or it sampled it with other physics, on
\* a native server, after a view of a join, resume or expiration, which has none,
\* or after a tick, which shows those of its candidate.  Losing, delaying and
\* reordering views never does it, nor any order of joins, resumes, disconnects,
\* expirations and ticks.
RefusalsAreExplained == client.state = "Refused" => overlapped \/ resampled

\* The players a client observes, once it has taken what is on its way in the
\* reliable lane, are the ones the server last told of: batches and baselines
\* neither miss a change nor tell of it twice, over disconnects, resumes and
\* resyncs.
ObservedMatchesServer ==
  (Self \in sessions /\ ~overlapped /\ client.state # "Refused") =>
    LET c == FoldLeft(receiveReliable, client, lane)
    IN  c.state = "Refused" \/ c.observed = visibleTo(Before.cells)

\* A baseline stays incomplete only while a view is on its way, or after the
\* last one was lost.  requestResync does not ask again while a resync is pending, so in
\* a world at rest a lost view leaves it pending.
CompletionIsOnlyLost ==
  (client.baseline # None /\ ~interestBaselineComplete(client)) =>
    \/ lost
    \/ \E view \in views : view.revision >= client.baseline.revision

\* A resync of a world that has not changed is accepted: the client's comment on
\* the inventory baseline says that a resync can sample the same committed image
\* on a later tick.
ResyncsAreAccepted == client.state = "Refused" => overlapped
=============================================================================
