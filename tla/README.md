# TLA+ models of the TES3MP vNext server

The repository is a fork of the OpenMW game engine with a new multiplayer
server ("vNext"): `apps/tes3mp-server`, the libraries under `components/tes3mp`
and their tests. This directory models the part of that server in which
processes, timeouts and failures meet: how a client gets a session, loses it,
gets it back or is removed, how its commands reach the simulation, what is
written to disk in which order, and what a client is told of the others.

All paths below are relative to the repository root.

## 1. Inventory

The server is one process with one thread. `main()` creates the parts and calls
`ServerApplication::pump()` in a loop; each part is a class with its own state,
and the pump calls them in a fixed order. Concurrency comes from outside: the
peers, the transport, the clock, the disk. A `false` from the pump ends the
process.

| Part | State | Operations | Hard parts |
|---|---|---|---|
| `ResumeTokenStore` (`server_core/server_authentication.cpp`) | 256 records (digest, principal, session, generation, context, expiry), pending preparations, one committed preparation, size | issue, prepareConsume, commitConsume, finalizeConsume, rollbackConsume, cancelConsume, keepAlive; each holds a mutex | two callers with one token, expiry under a reservation, the single place for a rollback, overflow of the clock |
| `AuthenticationRateLimiter` (same file) | a token bucket per admission scope and a global one, instant of the last attempt | allow, with a mutex | the clock read before the lock, remainders of refills, a table that only fills |
| `ServerSessionStateMachine` (`server_core/server_session.cpp`) | handshake state, deadline, running authentication, prepared resume, session and generation | seven events, binding, the four resume calls, the destructor | a timeout racing an answer, ways out that forget a reservation |
| `ServerLifecycleCoordinator` (`server_core/server_lifecycle.cpp`) | one binding per player in the world: principal, session, generation, live or hidden with a deadline | registerJoined, prepare{Disconnect,DisconnectBatch,Resume,NextExpiration}, commit, cancel | resume against expiry, a second join of a hidden player |
| `AuthenticatedJoinCoordinator` and `AuthenticatedJoinComposition` | principals in use, next session id, identity registry | prepare, prepareReattach, commit, releasePrincipal; `join()` puts token, answer and commit together | one step of several fails |
| `ServerCommandReducer` (`server_core/server_command_reducer.cpp`) | the canonical state: players, active sessions, worlds, revision | prepare/commit of joins, lifecycle transitions and command batches | candidate states prepared now and committed later, durability failures |
| `ConnectionSessionCoordinator` (`apps/tes3mp-server`) | connections with their session machine and outbound queue | accept, close, dispatch, pollAuthentication, checkTimeout | lookups by session when a connection is gone |
| `ServerApplication` (`apps/tes3mp-server/server_application.cpp`) | the wiring, latest poses and controls, close deadlines of rejected peers | pump: events, timeouts, expiry, receive, ticks, send | order of the phases, a registry that is updated before another one refuses |
| `ServerCommandIntakeCoordinator`, `FixedTickScheduler` | bounded queue of commands, next tick, next ordinal, terminal error | submit, pump | catching up several ticks, rounding, the end of the counters |
| `OutboundTransportQueue`, `OutboundQueueSet` (`transport/transport.cpp`) | a reliable lane, latest-wins lanes, rate buckets, block counters | enqueue, enqueuePair, atomic groups, pump | slow peers, coalescing, all-or-nothing admission |
| `PlayerIdentityRegistry` and `PlayerIdentityFile` | one record per player: credential digest, character, saved state; one operation between prepare and finalize | prepareCreate, commit, finalize, rollback, savePlayers, character creation; the file is replaced as a whole | a rollback that cannot be written, an id that is given out again |
| `CanonicalPersistenceFile` (`apps/tes3mp-server/canonical_persistence_file.cpp`) | a chain of durable transactions, compacted when it is full | commit, open | a crash between this file and the identity file; a commit that is reported as failed and is on disk |
| Interest projections (`interest_projection.cpp`) | none; computed from the canonical state before and after | baseline, changes, views | which "before" a projection starts from, when states change between ticks |
| Client session (`client_session/`) | the client's handshake, baseline, observed players, last view, a pending resync | advance, requestResync | reliable and latest-wins messages out of step, duplicates that are not identical |
| Worlds (combat, inventory, actors, objects, magic), projections, scripting, codecs | game state | game rules | large data, little concurrency |

Who calls whom: the pump hands transport events to the connection coordinator,
which drives one session machine per connection; a machine that authenticates
asks the token store (resume) or the join composition (join); the composition
and `resumeConnection` move the join coordinator, the reducer, the lifecycle and
the token store in one handler, with failures possible after each of them;
gameplay messages become commands of the intake, whose batches the reducer
prepares and commits once per tick, with the outputs admitted to the outbound
queues before the commit.

What makes it correct: a token admits one resume; the four registries (reducer,
lifecycle, join coordinator, connections) never disagree about who is in the
world; a session generation has one owner; nothing a client does ends the
process; whoever is left behind is removed; commands and reliable messages are
neither lost nor reordered; a peer that takes nothing is let go; whatever was
acknowledged is found again after a crash, under its owner; a client observes
whom the server told it of, and is not turned away for taking its messages.

`PROJECT.json` lists every component with its status and the hazards with the
lines where they bite.

## 2. Modules

| Module | Models |
|---|---|
| `ResumeTokens` | the store's operations as functions from store to store; shared by the next three |
| `ResumeTokenStore` | the store as a component, its calls as steps, with interleaved callers |
| `ResumeTokensProofs` | lemmas on the store's operations, used by the next three proof modules |
| `ResumeTokenStoreProofs` | the theorems about the store |
| `ServerSession`, `ServerSessionProofs` | several session state machines on one token store, and the theorems about them |
| `ServerApplication`, `ServerApplicationProofs` | the pump with connections, reducer sessions, join coordinator, lifecycle and token store composed; the theorems about it, with the refinement of the next module |
| `PlayerPresence` | the abstract specification: a player is absent, online in a session, or hidden until a deadline |
| `CommandIntake` | command queue and fixed tick scheduler |
| `AuthenticationRateLimiter`, `AuthenticationRateLimiterProofs` | the token buckets in front of authentication, and the theorems about them |
| `OutboundQueue` | the outbound queues: lanes, rate buckets, atomic groups, the pump call by call, eviction |
| `QueueProofs` | the theorems about both kinds of queues, the command intake and the outbound ones |
| `CanonicalPersistence`, `CanonicalPersistenceProofs` | the identity file and the world file, the memory they are written from, crashes and restarts; the theorems about them |
| `InterestReplication`, `InterestReplicationProofs` | what one client is told about players, the two lanes on which it is told, and the client's session; the theorems about them |
| `MC...` | names, symmetry sets and constraints for TLC |

A definition whose name ends in `_Mutant` (or `_MutantAll`, `_Uncapped`,
`_RoundedUp`) is a variant of the definition after
it, as a plausible mistake in the code would make it; it is not used in the
specifications. Each property fails when one of them is put in place.

### ResumeTokens, ResumeTokenStore

`st.records`, `st.pending`, `st.committed`, `st.size` and `st.nextId` are
`mRecords`, `mPending`, `mCommitted`, `mSize` and `mNextPreparationId`. Tokens
are identified with their digests; a fresh token is one that was never drawn
(random bytes), or none (the random source fails). The position of an entry in
the `mPending` array is never observed, so that array is a function of the
preparation id. Callers interleave between calls, which the mutex permits. The
history variable `serial` stays true while one caller finishes before the next,
which is the server's use, and `SerialUseIsSafe` is about those behaviours.
Reading an empty slot in `commitConsume` sets `undefined` and ends the
behaviour. `drawn`, `consumes` and `admitted` are history.

### ServerSession

A record per machine: state, deadline (0 is none), the running operation, the
token presented, the prepared resume, session, generation. Calls that the code
refuses change nothing and are not steps. A poll that is pending, or answers for
another attempt, changes nothing either. The token drawn for a machine carries
its name. The initial state may already hold the token of a client that left.

### ServerApplication

`phase` and `todo` are the program counter of the pump. Each action is one
handler call, whole: with everything it changes and each of its failures.
`Faults` says which failures the host may produce:

| Fault | In the code |
|---|---|
| `token` | the random source fails in `makeToken` |
| `identity` | the identity registry refuses a join |
| `queue` | an outbound queue has no room for an answer, or for a tick's output |
| `durability` | `CanonicalDurability::commit` is not `Committed` |
| `persist` | the identity file cannot be written |
| `receive` | `TransportRuntime::receive` is not `Accepted` (an invalid message of the peer, for instance) |
| `resync` | `resyncConnection` returns false |

Abstractions: all players are in one cell, so everyone observes everyone (the
case with most messages); one instant per handler, any number of ticks of the
clock between two handlers; the connections are served in any order; which
handshakes are late is a choice (`ServerSession` has the deadlines);
authentication completes at its first poll, as all the operations in the tree
do; the principal and the token drawn for a connection carry its name; gameplay
messages are accepted, which changes nothing here, or refused; the grace period
equals the token lifetime, as `main()` configures it; a tick matters only through
its failures. `RestoredPlayers` are the players that a file may have put into
the world at startup: `Init` chooses a part of them, and they have no session and
no binding. `handed`, `owned`, `discarded` (sessions whose connection was
discarded without a disconnect) and `restored` (players from the file that have
not joined since) are history.

`RegistriesAgree` has one named part per pair of registries: live bindings and active sessions are the same, every player in the world
has a binding unless it was restored, principals in use are those of bindings,
tokens that clients hold match bindings, and no reservation stays behind.
`OrphansWereDiscarded` says that a session without an owner comes from a
discarded connection and from nothing else.

### PlayerPresence

What `ServerApplication` promises about a player: it enters in a session that
was never used before, may go on in the same session one generation further
strictly before its deadline, and is removed only at or after it. The refinement
mapping (`presence` in `ServerApplication`) reads the status off the canonical
state and the deadline off the lifecycle's binding.

### CommandIntake

Times are relative to the scheduler's epoch. The epoch and its tick are the
members `mEpoch` and `mEpochTick`, chosen at the start: a late one reaches
`TickExhausted` or `DeadlineOverflow`, an early one leaves room for the commands
to be admitted, which is where `CommandsAreAdmitted` has its content.
`TickOffset` rounds up and `MaximumDueTick` rounds down, in units that do not
divide each other, as in the code (30 ticks in 10^9 ns; 3 in 5 in the run).
`accepted` and `admitted` are history.

### AuthenticationRateLimiter

`begin` is the service's reading of the clock, `allow` the locked section, so
callers may overtake each other. Differences of instants are taken modulo
`Instants`, as unsigned ones are. `granted` and `admitted` are history: the
instants of the attempts that were allowed, of each scope and of all. `RatesHold`
compares any two of them and has two parts. `SourceRate` is the exact promise of a token
bucket, because a scope's bucket is never full between two attempts.
`GlobalRate` allows one attempt more: the global bucket may stay full, and
`refill` then keeps the phase of the last refill until a whole interval has
passed, so an attempt just before the end of that interval is paid back at
once. `RefusalIsEarned` is the other direction: an empty bucket was emptied.

### OutboundQueue

`mQueues` maps a connection to its queue: the reliable lane, the bytes in it,
the occupied latest-wins slots, the tokens and phase of the four rate buckets,
`mNextWorldLatest` and the two counters of blocked sends. `pump` holds the locals
of the pump that is under way; each step is one call of the transport, which may
accept, block or fail. The clock enters the code only through differences, so
the queue keeps those (time since the last refill, time since the first block).
An `InvalidTime` leaves the queue as it was and its caller detaches it. A group
is staged message by message on a copy and swapped in, as in the code; a refused
group is no step. Reliable messages are numbered modulo `Window`, one more than
the lane can hold, by the caller and by the transport: `ReliableInOrder` compares
the two with what is in the lane. `QueueProofs` extends this module and
`CommandIntake`, so the names that both would have carry a prefix here
(`OutboundSpec`, `OutboundTypeOK`).

The server uses 32 attempts a pump, a burst of 4, 32 reliable messages a
millisecond and 4 latest-wins ones (`main.cpp:649-652`); the client has a policy
of its own. `SlotsAreOffered` is stated for the policies that leave an attempt
for the slot at all, which both do.

### CanonicalPersistence

Two files, the identities and the world, are written by one process in one order
for joins (identity, world, and back), character creation (the same) and
disconnects (players, world); every other transaction writes the world only. An
operation that writes twice is two steps, and `Crash` may come between any two.
A write answers `ok`, `failed` (the old file stays) or, for the world,
`unsynced`: the file is replaced and the directory could not be synchronised, so
the code reports a failure. `Restart` is what `main()` does with the files.
`phase` tells apart where in the pump a disconnect may come: `serve` before the
ticks, `ticks`, and `send` after them.

A canonical player is its authority epoch and entity revision, with `owner` as
history that the world file does not have: `Recoverable` compares it with the
credential of the identity file, which catches ids that are given out twice.
A move raises the revision by one, a cell change of the native engine the epoch
too; a player that one tick both moves and relocates would skip a revision, which
is left out.
`PlayerIdentityFile::replace` validates the records it writes; this is not a
guard of the model, since `Recoverable` shows it never refuses. Ids are dense
(part of `TypeOK`), so the next id at a start, one more than the largest, is one
more than the number of records. Identities without an established character are
accepted at a start when character content or the native inventory is
configured (`main.cpp:530`), the case that is modelled.

### InterestReplication

The canonical state (who is in which cell, who has a session, who is hidden), the
wire to one client `Self`, and that client's session. Other clients have
projections of their own and share only the canonical state. Each action of the
server is one of the callers of the projections with what it sends. The reliable
lane keeps its order; views are a set from which any one may arrive or be lost.
`revision` is `CanonicalRevision`, `checkpoint` the tick of the last publication:
an idle tick advances the second and not the first. `base` is
`mDirectMutationBase`, kept from a character completion to the next tick. `None`
is an empty `std::optional` (of a base, a baseline, a view, a sample), distinct
from every value (`NoneAssumption`).

On a server with a native authority that owns the player physics (`native`), a
view may carry the `PlayerPhysicsBaseline` of its receiver, abstracted to a member
of `Physics`, and the client compares views with it. Who asks for it decides:

* the views of a join, a resume or an expiration to the observers, and the
  greeting of a join, never do (`interest_projection.cpp:128-132`,
  `authenticated_join_composition.cpp:32`);
* the greeting of a resume and a resync carry what `projectPlayerPhysics()` finds
  in the committed frames (`frame`): nothing before the first tick after a join,
  whose authority epoch is new, and after a resume the frame without the commands
  of the earlier session;
* a tick shows the physics of its candidate. What is found after the commit may
  differ, because the candidate counts a player as blocked who is encumbered, or
  whose knockdown, recovery or paralysis this tick ends
  (`native/inventory_service.cpp:6735-6851` against `6588-6591`).

Such a server advances the revision with every tick (`stageNativeDoorStep`).

The batches that wait for a binding (`mPendingObservations`) are always empty,
because the baseline comes first on the same lane. A pending resync is settled
after each message, where the code does it at the end of `advance()`, which takes
one message or several. When one call completes a baseline and takes the next one,
the code stays pending and asks later than the model may; only the right to ask
depends on it. Not modelled: physical scopes (everybody is in the shared one, the
case the claims are about) and neighbouring cells, the other capabilities' baselines,
acknowledgements, state versions, full queues (`OutboundQueue` has those).

`overlapped` marks a session that was greeted, resynchronised or told of a
player while `base` was set; such a session is not followed further
(`CONSTRAINT Followed`), because the next tick may tell of the same player again
and the client closes. `resampled` marks a session whose resync sampled a revision
that it was given before with another tick or with other physics.
`RefusalsAreExplained` says that a client is turned away in these three cases only:
a stale base, another tick, other physics.

## 3. Runs

| Run | Shows | Bounds |
|---|---|---|
| `ResumeTokenStore` | custody of tokens, single use under any interleaving; in serial use nothing vanishes under a reservation and `mSize` is right | 2 records, 4 tokens, 2 sessions and contexts: one full table, a rotation, and a second one racing with it; the clock reaches the overflow of an expiry |
| `ServerSession` | reservations on every way out, machines that only move on; every stage ends | 2 machines and the token of an earlier client; the clock reaches its overflow |
| `ServerApplication_clean` | clients alone cannot end the process; one owner per session; live tokens are renewed; hidden players leave; no deadlock | 3 connections of which 2 at a time, 2 players, 2 records: join, drop, resume or rejoin, and a replay in one history |
| `ServerApplication_faults` | the registries agree and `PlayerPresence` is implemented, whatever the host refuses | the same with all seven faults, restored players, and a clock that reaches its overflow |
| `ServerApplication_orphan` (violation) | a discarded connection leaves its session behind | the fault `receive` |
| `ServerApplication_leak` (violation) | a failed join leaves a record that shadows the next session's | the fault `queue` |
| `CommandIntake` | order, budgets, rounding, lag; every command gets to a tick | 2 sessions, 4 commands for 3 ordinals, at most 2 ticks caught up at once, a clock that may step back; starts in reach of the last tick or of the last instant, and far from both |
| `AuthenticationRateLimiter` | rates over every period, refusals only of what was used | 2 callers, 3 scopes for 2 places, bursts 2 and 2, intervals 3 and 2, long enough to fill both kinds of bucket once more |
| `OutboundQueue` | order and bytes of the reliable lane; silent peers go; no slot starves | one connection that is pumped, with three slots in use and two messages or three bytes of reliable lane, and one that only fills up, so that groups are refused in the middle; two blocks or 2 ms to eviction |
| `CanonicalPersistence` | recovery from a crash at every write | 2 clients for 2 identities, a chain of 2 transactions that is compacted, 2 ticks caught up per pump, 6 versions, 4 revisions, 3 ticks: creation, leaving, expiry, coming back and a restart in one history |
| `InterestReplication` | a client observes whom it was told of and is not turned away, with lost and reordered views | 2 players, 2 cells, 2 values of the physics, servers with and without a native authority, 5 revisions, 3 ticks, 2 messages on each lane, 2 requests |
| `InterestReplication_resync` (violation) | a resync of a world at rest is refused | the same, without a native authority (`CONSTRAINT WithoutPhysics`) |

Horizon, PreparationIds, Submissions, MaxSession, MaxVersion, MaxRevision,
MaxTick, MaxLane, MaxViews and MaxRequests bound what the code leaves to 64 bits
or to the network; the runs named above reach the end of the clock, the ticks,
the ordinals and the generations on purpose. Symmetry is used only in runs
without liveness properties, over names that are only compared.

`CHECK_DEADLOCK FALSE` is used where the model's bounds (or the end of the
process) stop the system. In `ServerApplication_clean` neither can happen, and
deadlock is checked.

Fairness. `ServerApplication` assumes weak fairness of the pump as a whole and
of the clock: `main()` calls the pump in a loop and the clock is monotonic;
nothing is assumed of the peers or of any single handler. `ServerSession`
assumes it of the timeout check of each machine, which every pump makes for
every connection that is not rejected, and of the clock; not of the client nor
of the provider. `CommandIntake` assumes it of its pump and of the clock.
`OutboundQueue` assumes that a pump that has begun goes on (weak fairness of
`Send`, whatever the transport answers) and that pumps keep coming with time
between them (strong fairness of `LongPump`: the application pumps every
connection in each round, and callers that enqueue in between only interrupt
it). Nothing is assumed of what the transport accepts.

### What the violations mean

* `ServerApplication_orphan`: after a receive or a resync that fails, only the
  connection is discarded. Its session stays active without an owner; it can
  neither resume nor expire, and the next tick that changes the world does not
  find its connection, which ends the process. The other ways out disconnect
  first, and comments in the pump say why.
* `ServerApplication_leak`: a join that fails after its token was issued leaves
  the record behind and the session id unused; the next client gets the same id
  and `keepAlive` renews the first record it finds, which is not that client's.
* `InterestReplication_resync`: an idle tick publishes a later checkpoint tick
  under the same revision. A resync then carries the revision that the client
  has with another tick; baseline and view are compared whole, and the client
  closes its session. The inventory baseline sets the tick aside before it
  compares, with a comment that says why. On a native server no tick is idle, and
  the same comparison closes the session over the physics instead, when a resync
  follows a view of the same tick that had none or the candidate's.

`SerialUseIsSafe` has a limit worth knowing: `prepareConsume` erases an expired
record even if it is reserved, although `purgeExpired` does not. The server has
one thread and finishes a resume before it asks the store for anything else, so
it cannot meet this; callers that interleave, for which the class has its mutex,
could.

## 4. Proofs

The theorems hold for every value of the constants that satisfies the modules'
assumptions: any number of connections, players, tokens, cells and messages, any
width of clock and counters. TLC evaluates the assumptions in every run that
extends the module. Each module has the same outline: an inductive invariant
`IInv` (the theorem in question is seldom inductive alone), lemmas for the
operators and for the kinds of change, one step per action, and then each
theorem from `IInv`. TLC was asked about the strengthenings before they were
proved.

### ResumeTokenStoreProofs, ResumeTokensProofs

For any interleaving of callers: `TypeCorrect`; `StoreInvariant`,
`Spec => [](TypeOK /\ TokenCustody)`; from it `TokenAdmitsOnce`,
`SpentTokensAreGone` and `ExclusiveReservations`, the three promises of the
store; and `SerialUseSafe`.

None of the promises is inductive alone. A second commit with the same token is
impossible because a preparation has the only record with that token; this needs
that records have distinct tokens, that a staged replacement is nowhere else,
that the record put aside for a rollback collides with nothing, and that
preparation ids are not reused. `TokenCustody` is the conjunction of these
("every token is in one place at a time"), and is checked by TLC as an invariant
too. The serial promise is about one caller at a time and adds `SerialInv`: while
use has been serial there is one resume at a time, pending or committed, its
record survives in the slot it names, and `mSize` counts the records.

Assumptions: capacity and lifetime are positive, the lifetime fits the clock, at
least two preparation ids, `NoToken` is no token.

### ServerSessionProofs

`SessionTypeCorrect`, `ReservationsHeld` and the action property
`MachinesMoveOn`, for any number of machines on one store. `IInv` is the types
together with `Custody`: every preparation of the store has a machine that knows
its id, no id is known to two machines, the ids known are older than the next
one, and a committed preparation is no longer pending. A machine that waits, or
was destroyed, knows none; so each way out (reject, timeout, cancel, close,
destruction) must have released it.

### ServerApplicationProofs

* `ServerTypeCorrect`: unconditional, so it includes that no deadline or expiry
  overflows the clock.
* `RegistriesStayInStep`, `OrphansOnlyFromDiscards`, `OwnersStayActive`,
  `GenerationsAreNotShared`: under every combination of the seven faults and for
  restored players, while session ids are left (`~exhausted`). `IInv` is
  `Types /\ (~exhausted => Core)`; `Core` joins the agreement of the registries,
  who owns which session, which generations were held, and which tokens belong to
  which bindings. No part is inductive without the others: a join gives out an id
  that no registry knows because all they know are smaller, and a resume finds
  the binding's generation because the tokens follow the bindings.
  Once the last id is in use a known player may be given it again, so the
  theorems stop there: 2^64 sessions in the code.
* `PresenceImplemented`: `Spec /\ []~exhausted => ImplementsPresence`. Initial
  states map to initial states; each action hides, expires, joins or resumes
  players as `PlayerPresence` allows, or maps to a stutter.
* `NothingEndsTheProcess` and `LiveTokensAreRenewed`: if the host only refuses
  tokens or identities (`Faults` within `Harmless`) and the clock stays a grace
  period below its end, no client makes a handler return false, and every pump
  renews every established connection's token. The second needs
  `OneRecordEach`: one record per session, which is what the fault `queue` breaks
  in the run `ServerApplication_leak`. The constants of `ServerApplication_clean`
  satisfy both hypotheses.

Assumptions beyond those of the store: the canonical state has no more player
entities than active sessions (both are 256, `canonical_state.hpp:17-18`), and
there are finitely many players.

### CanonicalPersistenceProofs

`PersistenceTypeCorrect`, `AlwaysRecoverable`, `AcknowledgedSurvives`,
`NeverRefused`, and the action properties `StampsGrow` and `ClockGoesOn`, over a
crash between any two writes and every answer a write may give. `IInv` says
`Shape` (types; a process that is down has forgotten everything), `Steps` (what
the handler under way has still to do), `Registry` (dense ids; the identity file
has the identities of the memory, and what a commit would take back it has taken
over), `History`, `World`, `Clocks` and `Characters` (nobody in the world is older
than what was acknowledged, nobody away was saved with an older epoch). The hard
case is the write that is reported as failed and is on disk: the chain on disk
and the one in memory then differ, and each is shown to be one that recovery
accepts and that has everything acknowledged (`Good`).

Assumption beyond the obvious: there are no more identity records than player
entities, as in the code.

### QueueProofs

*The command intake*: `IntakeTypeCorrect`, `OrderKept`, `TicksEarned`, the action
property `LagExact` and `RoundingsAgree`, for every pair of units, budget, epoch
and clock that may step back. `IInv` is `TypeOK`, `HistoryOK`, `StampsInUse` and
the two invariants. `RoundingsAgree` (a tick's deadline, rounded up, has passed
exactly if the tick is due, rounded down) carries the rest: a tick that is
simulated is due, so the unsigned difference in the lag does not wrap. The order
of commands rests on how queue, batch and history fit together, also where the
ordinals end in the middle of a batch.

*The outbound queues*: `OutboundTypeCorrect` and `NothingLostOrRepeated`, for every
policy that `OutboundQueuePolicy::create()` accepts, any number of connections
and any times between pumps. Neither is inductive alone. That
`mReliableBytes` stays a number needs that it is the size of the lane, because
`sendReliable` subtracts the first message's size without looking; that the lane can be
numbered modulo `Window` needs the bound on its length. `OutboundIInv` has
both for each attached queue (`QueueOK`, `LaneOK`), and `NothingOutstanding`: what
the caller and the transport count of a connection that is not attached agrees,
or a queue attached again would begin out of order. Two things are folds
over sequences: the bytes of a lane and the staging of a group. What they
compute is shown along the states they go through (`FoldRuns`), by induction on
the length through a least counterexample: `BytesOfMore` and `BytesOfTail` say
what one more message and one less do to the bytes, `GroupStaged` that a group of
any length leaves every staged queue in order. The callers of the model build
groups of up to four messages; `AdmitKeeps` is about all of them.

### AuthenticationRateLimiterProofs

`LimiterIsBounded`, `LimiterTypeCorrect`, `RatesAreKept` and `RefusalsAreEarned`,
for every policy and any number of racing callers. `TypeOK` and
`RefillsInThePast` are inductive together (`Bounded`, with the table finite): a
bucket last refilled after the instant of an attempt would be given a wrapped
number of tokens. The rates need a balance of each bucket with the history of
what it allowed, in both directions:

* `Paid`: the attempts from any one on, and the tokens left, exceed the allowance
  by no more than the whole intervals between that attempt and the last refill.
  The allowance of a scope is its burst. That of the global bucket is one more,
  which is where a bucket that was full and kept its phase is accounted for.
* `Owed`: the tokens a bucket lacks were given to its last attempts, and the m-th
  of them comes back within the time that fills the bucket.

`Balance` shows that `refill` and the taking of a token keep both, and `RateKept`
and `EmptyIsEarned` read the two properties off. An untracked scope has no
history; this needs that an empty slot is no bucket (`SlotAssumption`).

### InterestReplicationProofs

`InterestTypeCorrect`, `RefusalsExplained`, `ObservedMatches` and
`CompletionOnlyLost`, for a reliable lane of any length and every loss and order
of views. The conjuncts of `IInv` beyond the types:

* nothing on its way, and nothing the client has, is of a later revision than the
  server's (`Bounded`); a player without a session is sent nothing (`Silent`);
  every view shows its receiver (`ViewsShowSelf`); a baseline that waits for a
  view has one on its way or lost (`Covered`);
* `Live => Following`, for a session that is neither overlapped nor refused. The
  lane `Fits`: its revisions grow, a baseline leads it, and taking its messages in
  order leads from what the client observes to whom the server last told it of
  (the state before the next projection, `visibleTo(Before.cells)`).
  While `mDirectMutationBase` is kept nothing was told after it (`Kept`). One
  revision has one baseline and view, with one tick and one physics, unless it was
  resampled (`Sampled`).

`ObservedMatchesServer` folds over the lane. What the fold computes is shown by
induction on the length, through a least counterexample and the well-foundedness
of the naturals (`FoldObserves`), since the library's induction rule needs an
operator as its parameter.

### Only model-checked

* Every invariant and action property of the passing runs is stated by a theorem;
  what is left is liveness (`StagesEnd`, `HiddenPlayersLeave`, `CommandsAreAdmitted`,
  `SilentPeerIsEvicted`, `SlotsAreOffered`) and everything with `ENABLED`, which
  the prover does not handle.

## 5. Not modelled

The gameplay rules and worlds and the native services that run them, the
projections of anything but players, the codecs, scripting, the transport
library and the game engine: large data and little interaction, or third-party
code. They are most of the repository's lines; what is modelled is a part of
`apps/tes3mp-server` and `components/tes3mp`. Poses and controls, the telemetry
and the observability sinks are left out of the modelled classes. Loss of power
is not modelled: a file that was replaced stays replaced, in the order of the
writes, which a crash of the process keeps; the identity file is not
synchronised before or after it is replaced.

## 6. Plan

1. Composition of `CommandIntake` with `ServerApplication`: commands of sessions
   that have left, and the dialogue results that have no target.
2. Command finalization in the reducer: sequence numbers, acknowledgement,
   replay of a command after a resume.
3. The client's half of a reconnect: a token whose answer was lost.
4. `InterestReplication` with failed commits after the observers were told, and
   with the physical scopes that only ticks and resyncs pass.
