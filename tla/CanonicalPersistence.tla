------------------------ MODULE CanonicalPersistence ------------------------
(***************************************************************************)
(* The campaign on disk: the player identity file and the canonical world  *)
(* file beside it, the memory they are written from, crashes and restarts. *)
(*                                                                         *)
(*   identityFile   PlayerIdentityFile on disk                             *)
(*   worldFile      CanonicalPersistenceFile on disk, a chain of           *)
(*                  transactions                                           *)
(*   prefix         CanonicalPersistenceFile::mPrefix                      *)
(*   records, nextPlayer, committed      PlayerIdentityRegistry            *)
(*   players, online, version            the canonical state of the reducer*)
(*   bound          players with a binding of the lifecycle coordinator    *)
(*   tick, advanced, pumpTick            ServerCommandIntakeCoordinator's  *)
(*                  next tick, the world's lastAdvanceTick, and the tick   *)
(*                  that main() passed to the running pump                 *)
(*   step           the handler that is between two of its writes          *)
(*                                                                         *)
(* An operation that writes both files does so in several steps, and the   *)
(* process may end between any two of them.  A write that fails leaves the *)
(* old file; the world file may also be replaced although the write is     *)
(* reported as failed, when the directory cannot be synchronised.          *)
(*                                                                         *)
(* A player's canonical record is abstracted to its authority epoch and    *)
(* entity revision; owner is the credential it was created for, which only *)
(* the identity file stores.  last, promised and refused are history.      *)
(***************************************************************************)
EXTENDS Naturals, FiniteSets, Sequences, Functions

CONSTANTS
  Owners,                          \* credentials of clients
  MaximumPlayerIdentityRecords,
  MaximumCanonicalPlayerEntities,
  MaximumPersistenceTransactions,
  MaximumTicksPerPump,             \* ticks that one pump catches up
  MaxVersion,                      \* largest CanonicalStateVersion
  MaxRevision,                     \* largest EntityRevision and AuthorityEpoch
  MaxTick                          \* largest ServerTick

ASSUME PersistenceAssumption ==
  /\ MaximumPlayerIdentityRecords \in Nat \ {0}
  /\ MaximumCanonicalPlayerEntities \in Nat
  /\ MaximumPlayerIdentityRecords <= MaximumCanonicalPlayerEntities
  /\ MaximumPersistenceTransactions \in Nat \ {0, 1}
  /\ MaximumTicksPerPump \in Nat \ {0}
  /\ MaxVersion \in Nat /\ MaxRevision \in Nat \ {0} /\ MaxTick \in Nat

VARIABLES
  identityFile, worldFile, native,
  up, phase, step, pumpTick, tick, advanced,
  records, nextPlayer, committed, players, online, bound, version, prefix,
  last, promised, refused

disk == <<identityFile, worldFile>>
clock == <<pumpTick, tick>>
registry == <<records, nextPlayer, committed>>
canonical == <<players, version, advanced, prefix>>
sessions == <<online, bound>>
history == <<last, promised, refused>>
vars == <<disk, native, up, phase, step, clock, registry, canonical, sessions, history>>

PlayerIds == 1 .. MaximumPlayerIdentityRecords
Stamps == [epoch : 1 .. MaxRevision, revision : 1 .. MaxRevision, owner : Owners]
Unsaved == [epoch |-> 0, revision |-> 0]
NoTransaction == [version |-> 0, tick |-> 0, head |-> FALSE]
None == [id \in {} |-> Unsaved]                \* no player at all
Nothing == [records |-> None, nextPlayer |-> 0]
Idle == [op |-> "idle", ids |-> {}]
Outcomes == {"ok", "failed", "unsynced"}

-----------------------------------------------------------------------------
(* The identity registry and its file. *)

Established(rs) == {id \in DOMAIN rs : rs[id].lifecycle = "established"}

\* durableRecords(): only established characters are written with a profile.
durableRecords(rs) ==
  [id \in DOMAIN rs |->
     IF rs[id].lifecycle = "established" THEN rs[id]
     ELSE [rs[id] EXCEPT !.lifecycle = "fresh", !.saved = Unsaved]]

\* What PlayerIdentityFile::replace() and PlayerIdentityRegistry::create() ask
\* of every record.
WellFormed(rs) ==
  \A id \in DOMAIN rs :
    /\ rs[id].lifecycle \in {"fresh", "established"}
    /\ rs[id].lifecycle = "established" <=> rs[id].saved # Unsaved

\* No operation of the registry is between its prepare and its finalize.
RegistryIdle == committed = Nothing

-----------------------------------------------------------------------------
(* The canonical world file. *)

Latest(txs) == txs[Len(txs)]
LatestPlayers(txs) == IF txs = <<>> THEN None ELSE Latest(txs).players

\* The checksum stands for the contents and for the place in the chain.
Checksum(tx) == [version |-> tx.version, tick |-> tx.tick, head |-> tx.prior = NoTransaction]

\* Mutant: players that are not in the world are forgotten.
durablePlayers_Mutant(ps) == Restrict(ps, DOMAIN ps \cap Established(records))

\* Mutant: the players of the candidate whose character is not made are written too.
durablePlayers_MutantAll(ps) ==
  LET old == LatestPlayers(prefix)
  IN  [id \in DOMAIN ps \cup DOMAIN old |-> IF id \in DOMAIN ps THEN ps[id] ELSE old[id]]

\* Established players of the candidate, and those of the last transaction
\* that have left the world since.
durablePlayers(ps) ==
  LET old == LatestPlayers(prefix)
      ids == Established(records) \cap (DOMAIN ps \cup DOMAIN old)
  IN  [id \in ids |-> IF id \in DOMAIN ps THEN ps[id] ELSE old[id]]

Transaction(v, t, a, ps, prior) ==
  [version |-> v, tick |-> t, advanced |-> a, players |-> ps, prior |-> prior]

\* The last two transactions, the first of them as the head of a new chain.
compacted(txs) ==
  LET checkpoint == [txs[Len(txs) - 1] EXCEPT !.prior = NoTransaction]
  IN  <<checkpoint, [txs[Len(txs)] EXCEPT !.prior = Checksum(checkpoint)]>>

\* The chain that commit() is about to write.
Appended(v, t, a, ps) ==
  LET prior == IF prefix = <<>> THEN NoTransaction ELSE Checksum(Latest(prefix))
      txs   == Append(prefix, Transaction(v, t, a, durablePlayers(ps), prior))
  IN  IF Len(txs) > MaximumPersistenceTransactions THEN compacted(txs) ELSE txs

\* CanonicalDurableTick::create() and CanonicalDurablePrefix::create().
ValidPrefix(txs) ==
  /\ Len(txs) <= MaximumPersistenceTransactions
  /\ \A i \in 1 .. Len(txs) :
       /\ Cardinality(DOMAIN txs[i].players) <= MaximumCanonicalPlayerEntities
       /\ txs[i].prior = IF i = 1 THEN NoTransaction ELSE Checksum(txs[i - 1])
       /\ i > 1 => /\ txs[i].tick >= txs[i - 1].tick
                   /\ txs[i].version >= txs[i - 1].version

-----------------------------------------------------------------------------
Init ==
  /\ identityFile = None /\ worldFile = <<>>
  /\ native \in BOOLEAN
  /\ up = TRUE /\ phase = "serve" /\ step = Idle
  /\ pumpTick = 1 /\ tick = 1 /\ advanced = 0
  /\ records = None /\ nextPlayer = 1 /\ committed = Nothing
  /\ players = None /\ online = {} /\ bound = {}
  /\ version = 0 /\ prefix = <<>>
  /\ last = None /\ promised = 0 /\ refused = FALSE

\* The process ends, by a crash or because pump() returned false.
Down ==
  /\ up' = FALSE /\ phase' = "serve" /\ step' = Idle
  /\ pumpTick' = 0 /\ tick' = 0 /\ advanced' = 0
  /\ records' = None /\ nextPlayer' = 1 /\ committed' = Nothing
  /\ players' = None /\ online' = {} /\ bound' = {}
  /\ version' = 0 /\ prefix' = <<>>

Between(ph) == up /\ phase = ph /\ step = Idle

\* One write of the world file and what the reducer does with the answer: the
\* file first, then the memory.
Committed(txs, outcome) == ValidPrefix(txs) /\ outcome = "ok"

Persist(v, t, a, ps, outcome) ==
  LET txs == Appended(v, t, a, ps)
  IN  /\ worldFile' = IF ValidPrefix(txs) /\ outcome # "failed" THEN txs ELSE worldFile
      /\ refused' = (refused \/ ~ValidPrefix(txs))

\* The history of what was acknowledged.
Acknowledge(v, ps) ==
  /\ promised' = v
  /\ last' = [id \in DOMAIN last \cup (DOMAIN ps \cap Established(records)) |->
                IF id \in DOMAIN ps \cap Established(records)
                THEN [epoch |-> ps[id].epoch, revision |-> ps[id].revision] ELSE last[id]]

\* mState, mStateVersion and mPrefix after a commit.
Apply(v, t, a, ps) ==
  /\ prefix' = Appended(v, t, a, ps)
  /\ version' = v /\ advanced' = a /\ players' = ps
  /\ Acknowledge(v, ps)

Keep == UNCHANGED <<canonical, last, promised>>

Put(f, id, value) == [x \in DOMAIN f \cup {id} |-> IF x = id THEN value ELSE f[x]]

\* preparePlayerSafePoint() and the movement of a tick.
Moved(ps, ids) == [id \in DOMAIN ps |-> IF id \in ids THEN [ps[id] EXCEPT !.revision = @ + 1]
                                        ELSE ps[id]]

\* A change of the cell in a native tick begins a new authority epoch.
Crossed(ps, ids) == [id \in DOMAIN ps |-> IF id \in ids THEN [ps[id] EXCEPT !.epoch = @ + 1]
                                          ELSE ps[id]]

Stamp(player) == [epoch |-> player.epoch, revision |-> player.revision]

-----------------------------------------------------------------------------
(* A client without an identity joins: the identity is written, then the   *)
(* world, and the identity is taken back when the world was not committed. *)

JoinBegins(owner) ==
  /\ Between("serve") /\ RegistryIdle
  /\ \A id \in DOMAIN records : records[id].owner # owner
  /\ Cardinality(DOMAIN records) < MaximumPlayerIdentityRecords
  /\ Cardinality(DOMAIN players) < MaximumCanonicalPlayerEntities
  /\ nextPlayer \notin DOMAIN players
  /\ version < MaxVersion
  /\ records' = Put(records, nextPlayer, [owner |-> owner, lifecycle |-> "fresh", saved |-> Unsaved])
  /\ identityFile' = durableRecords(records')
  /\ committed' = [records |-> records, nextPlayer |-> nextPlayer]
  /\ nextPlayer' = nextPlayer + 1
  /\ step' = [op |-> "join", ids |-> {nextPlayer}]
  /\ UNCHANGED <<worldFile, native, up, phase, clock, canonical, sessions, history>>

JoinCommits(outcome) ==
  LET id == CHOOSE id \in step.ids : TRUE
      ps == Put(players, id, [epoch |-> 1, revision |-> 1, owner |-> records[id].owner])
      v  == version + 1
  IN  /\ up /\ step.op = "join"
      /\ Persist(v, pumpTick, advanced, ps, outcome)
      /\ IF Committed(Appended(v, pumpTick, advanced, ps), outcome)
         THEN /\ Apply(v, pumpTick, advanced, ps)
              /\ online' = online \cup {id} /\ bound' = bound \cup {id}
              /\ committed' = Nothing
              /\ step' = Idle
         ELSE /\ Keep
              /\ step' = [step EXCEPT !.op = "undoJoin"]
              /\ UNCHANGED <<sessions, committed>>
      /\ UNCHANGED <<identityFile, native, up, phase, clock, records, nextPlayer>>

\* Mutant: the id of the identity that was taken back is not given back.
RolledBack_Mutant(written) ==
  /\ written
  /\ identityFile' = durableRecords(committed.records)
  /\ records' = committed.records
  /\ committed' = Nothing
  /\ UNCHANGED nextPlayer

\* rollback() and rollbackCharacterCreation(): when the old records cannot be
\* written the registry stays between commit and finalize until a restart.
RolledBack(written) ==
  IF written
  THEN /\ identityFile' = durableRecords(committed.records)
       /\ records' = committed.records /\ nextPlayer' = committed.nextPlayer
       /\ committed' = Nothing
  ELSE UNCHANGED <<identityFile, registry>>

JoinRolledBack(written) ==
  /\ up /\ step.op = "undoJoin"
  /\ RolledBack(written)
  /\ step' = Idle
  /\ UNCHANGED <<worldFile, native, up, phase, clock, canonical, sessions, history>>

-----------------------------------------------------------------------------
(* A client with an identity comes back. *)

\* restartIncompleteCharacter()
Restarted(id) == IF records[id].lifecycle = "established" THEN records
                 ELSE [records EXCEPT ![id].lifecycle = "fresh", ![id].saved = Unsaved]

\* What the new record of the player follows: its record in the world, else the
\* saved one, else nothing.
Returning(id) ==
  IF id \in DOMAIN players THEN Stamp(players[id])
  ELSE IF records[id].lifecycle = "established" THEN records[id].saved
  ELSE Unsaved

Reattach(id, outcome) ==
  LET base == Returning(id)
      ps   == Put(players, id, [epoch |-> base.epoch + 1, revision |-> base.revision + 1,
                                owner |-> records[id].owner])
      v    == version + 1
  IN  /\ Between("serve") /\ RegistryIdle
      /\ id \in DOMAIN records \ online
      /\ base.epoch < MaxRevision /\ base.revision < MaxRevision
      /\ Cardinality(DOMAIN ps) <= MaximumCanonicalPlayerEntities
      /\ version < MaxVersion
      /\ Persist(v, pumpTick, advanced, ps, outcome)
      /\ records' = Restarted(id)
      /\ IF Committed(Appended(v, pumpTick, advanced, ps), outcome)
         THEN /\ Apply(v, pumpTick, advanced, ps)
              /\ online' = online \cup {id} /\ bound' = bound \cup {id}
         ELSE Keep /\ UNCHANGED sessions
      /\ UNCHANGED <<identityFile, native, up, phase, step, clock, nextPlayer, committed>>

-----------------------------------------------------------------------------
(* Character creation: every command but the last stays in memory. *)

CreationAdvances(id) ==
  /\ Between("serve") /\ RegistryIdle
  /\ id \in online
  /\ records[id].lifecycle = "fresh"
  /\ records' = [records EXCEPT ![id].lifecycle = "creating"]
  /\ UNCHANGED <<disk, native, up, phase, step, clock, nextPlayer, committed,
                 canonical, sessions, history>>

\* The last command: the identity file gets the established character.
CreationCompletes(id) ==
  /\ Between("serve") /\ RegistryIdle
  /\ id \in online
  /\ records[id].lifecycle = "creating"
  /\ players[id].revision < MaxRevision
  /\ version < MaxVersion
  /\ records' = [records EXCEPT ![id].lifecycle = "established",
                                ![id].saved = Stamp(Moved(players, {id})[id])]
  /\ identityFile' = durableRecords(records')
  /\ committed' = [records |-> records, nextPlayer |-> nextPlayer]
  /\ step' = [op |-> "create", ids |-> {id}]
  /\ UNCHANGED <<worldFile, native, up, phase, clock, nextPlayer, canonical, sessions, history>>

CreationCommits(outcome) ==
  LET ps == Moved(players, step.ids)
      v  == version + 1
  IN  /\ up /\ step.op = "create"
      /\ Persist(v, pumpTick, advanced, ps, outcome)
      /\ IF Committed(Appended(v, pumpTick, advanced, ps), outcome)
         THEN /\ Apply(v, pumpTick, advanced, ps)
              /\ committed' = Nothing
              /\ step' = Idle
         ELSE /\ Keep
              /\ step' = [step EXCEPT !.op = "undoCreate"]
              /\ UNCHANGED committed
      /\ UNCHANGED <<identityFile, native, up, phase, clock, records, nextPlayer, sessions>>

\* The command is refused, and with it the session.
CreationRolledBack(written) ==
  /\ up /\ step.op = "undoCreate"
  /\ RolledBack(written)
  /\ step' = [step EXCEPT !.op = "leave"]
  /\ UNCHANGED <<worldFile, native, up, phase, clock, canonical, sessions, history>>

-----------------------------------------------------------------------------
(* disconnectConnections(): the players are saved with their identities,   *)
(* then the world is committed without their sessions.  FALSE ends the     *)
(* process.                                                                *)

ConnectionsLost(ids) ==
  /\ Between("serve")
  /\ ids # {}
  /\ version < MaxVersion
  /\ step' = [op |-> "leave", ids |-> ids]
  /\ UNCHANGED <<disk, native, up, phase, clock, registry, canonical, sessions, history>>

\* Queues fail after the ticks of the pump, which may have been several.
SendFailures(ids) ==
  /\ Between("serve") \/ Between("ticks")
  /\ ids # {}
  /\ version < MaxVersion
  /\ phase' = "send"
  /\ step' = [op |-> "leave", ids |-> ids]
  /\ UNCHANGED <<disk, native, up, clock, registry, canonical, sessions, history>>

\* Mutant: savePlayers() changes nothing.
Saved_Mutant(ids) == records

\* savePlayers(): established characters only.
Saved(ids) ==
  [id \in DOMAIN records |->
     IF id \in ids \cap Established(records)
     THEN [records[id] EXCEPT !.saved = Stamp(players[id])] ELSE records[id]]

SavePlayers(written) ==
  /\ up /\ step.op = "leave"
  /\ IF RegistryIdle /\ (written \/ step.ids \cap Established(records) = {})
     THEN /\ records' = Saved(step.ids)
          /\ identityFile' = IF step.ids \cap Established(records) = {} THEN identityFile
                             ELSE durableRecords(records')
          /\ step' = [step EXCEPT !.op = "hide"]
          /\ UNCHANGED <<up, phase, clock, nextPlayer, committed, canonical, sessions>>
     ELSE Down /\ UNCHANGED identityFile
  /\ UNCHANGED <<worldFile, native, history>>

\* Mutant: the barrier carries the tick that pump() was called with.
BarrierTick_Mutant == pumpTick

\* The later one of the pump's tick and the reducer's checkpointTick().
BarrierTick ==
  IF prefix # <<>> /\ Latest(prefix).tick > pumpTick THEN Latest(prefix).tick ELSE pumpTick

PlayersHidden(outcome) ==
  LET v == version + 1
  IN  /\ up /\ step.op = "hide"
      /\ Persist(v, BarrierTick, advanced, players, outcome)
      /\ IF Committed(Appended(v, BarrierTick, advanced, players), outcome)
         THEN /\ Apply(v, BarrierTick, advanced, players)
              /\ online' = online \ step.ids
              /\ step' = Idle
              /\ UNCHANGED <<up, phase, clock, registry, bound>>
         ELSE Down /\ UNCHANGED <<last, promised>>
      /\ UNCHANGED <<identityFile, native>>

-----------------------------------------------------------------------------
(* The other transactions of the world. *)

ResumeSession(id, outcome) ==
  LET v == version + 1
  IN  /\ Between("serve")
      /\ id \in bound \ online
      /\ version < MaxVersion
      /\ Persist(v, pumpTick, advanced, players, outcome)
      /\ IF Committed(Appended(v, pumpTick, advanced, players), outcome)
         THEN /\ Apply(v, pumpTick, advanced, players)
              /\ online' = online \cup {id}
         ELSE Keep /\ UNCHANGED online
      /\ UNCHANGED <<identityFile, native, up, phase, step, clock, registry, bound>>

ExpireSession(id, outcome) ==
  LET ps == Restrict(players, DOMAIN players \ {id})
      v  == version + 1
  IN  /\ Between("serve")
      /\ id \in bound \ online
      /\ version < MaxVersion
      /\ Persist(v, pumpTick, advanced, ps, outcome)
      /\ IF Committed(Appended(v, pumpTick, advanced, ps), outcome)
         THEN /\ Apply(v, pumpTick, advanced, ps)
              /\ bound' = bound \ {id}
              /\ UNCHANGED <<up, phase, step, clock, registry, online>>
         ELSE Down /\ UNCHANGED <<last, promised>>
      /\ UNCHANGED <<identityFile, native>>

\* A tick, in which some players move, and with the native engine some of them
\* to another cell.  The movement kernel also moves players whose client has
\* left, unless the native engine owns the movement.
CommitTick(moved, crossed, outcome) ==
  LET ps == Crossed(Moved(players, moved), crossed)
      v  == version + Cardinality(moved)
  IN  /\ Between("serve") \/ Between("ticks")
      /\ tick - pumpTick < MaximumTicksPerPump /\ tick < MaxTick
      /\ IF native THEN moved \subseteq online ELSE crossed = {}
      /\ \A id \in moved : players[id].revision < MaxRevision
      /\ \A id \in crossed : players[id].epoch < MaxRevision
      /\ v <= MaxVersion
      /\ Persist(v, tick, tick, ps, outcome)
      /\ IF Committed(Appended(v, tick, tick, ps), outcome)
         THEN /\ Apply(v, tick, tick, ps)
              /\ tick' = tick + 1
              /\ phase' = "ticks"
              /\ UNCHANGED <<up, step, pumpTick, registry, sessions>>
         ELSE Down /\ UNCHANGED <<last, promised>>
      /\ UNCHANGED <<identityFile, native>>

\* main() calls pump(intake.nextTick()) again.
PumpEnds ==
  /\ Between("ticks") \/ Between("send")
  /\ phase' = "serve"
  /\ pumpTick' = tick
  /\ UNCHANGED <<disk, native, up, step, tick, registry, canonical, sessions, history>>

-----------------------------------------------------------------------------
(* The end of the process and the next start. *)

\* stop() saves every player of the world with its identity.
Stop(written) ==
  /\ Between("serve")
  /\ identityFile' = IF written /\ RegistryIdle /\ DOMAIN players \cap Established(records) # {}
                     THEN durableRecords(Saved(DOMAIN players)) ELSE identityFile
  /\ Down
  /\ UNCHANGED <<worldFile, native, history>>

Crash ==
  /\ up
  /\ Down
  /\ UNCHANGED <<disk, native, history>>

\* Mutant: the world's clock goes on behind the last transaction.
NextTick_Mutant(txs) == IF txs = <<>> THEN 1 ELSE Latest(txs).tick + 1

\* A lifecycle transaction carries the tick that is still to be simulated: the
\* native engine goes on after its last step.
NextTick(txs) ==
  IF txs = <<>> THEN 1
  ELSE IF native THEN Latest(txs).advanced + 1
  ELSE Latest(txs).tick + 1

\* The tests of main(): the files open, and every player of the world has an
\* identity.
StartAccepted ==
  /\ WellFormed(identityFile)
  /\ ValidPrefix(worldFile)
  /\ DOMAIN LatestPlayers(worldFile) \subseteq DOMAIN identityFile

\* The saved players are those of the world file where it has them; everybody in
\* it is in the world again, without a session or a binding.
Restart ==
  LET world == LatestPlayers(worldFile)
  IN  /\ ~up
      /\ StartAccepted
      /\ NextTick(worldFile) <= MaxTick
      /\ up' = TRUE
      /\ records' = [id \in DOMAIN identityFile |->
                       IF id \in DOMAIN world /\ identityFile[id].lifecycle = "established"
                       THEN [identityFile[id] EXCEPT !.saved = Stamp(world[id])]
                       ELSE identityFile[id]]
      /\ nextPlayer' = 1 + Cardinality(DOMAIN identityFile)
      /\ players' = world
      /\ version' = IF worldFile = <<>> THEN 0 ELSE Latest(worldFile).version
      /\ advanced' = IF worldFile = <<>> THEN 0 ELSE Latest(worldFile).advanced
      /\ prefix' = worldFile
      /\ tick' = NextTick(worldFile) /\ pumpTick' = NextTick(worldFile)
      /\ UNCHANGED <<disk, native, phase, step, committed, sessions, history>>

Next ==
  \/ \E owner \in Owners : JoinBegins(owner)
  \/ \E outcome \in Outcomes : JoinCommits(outcome)
  \/ \E written \in BOOLEAN : JoinRolledBack(written)
  \/ \E id \in PlayerIds, outcome \in Outcomes : Reattach(id, outcome)
  \/ \E id \in PlayerIds : CreationAdvances(id)
  \/ \E id \in PlayerIds : CreationCompletes(id)
  \/ \E outcome \in Outcomes : CreationCommits(outcome)
  \/ \E written \in BOOLEAN : CreationRolledBack(written)
  \/ \E ids \in SUBSET online : ConnectionsLost(ids)
  \/ \E ids \in SUBSET online : SendFailures(ids)
  \/ \E written \in BOOLEAN : SavePlayers(written)
  \/ \E outcome \in Outcomes : PlayersHidden(outcome)
  \/ \E id \in PlayerIds, outcome \in Outcomes : ResumeSession(id, outcome)
  \/ \E id \in PlayerIds, outcome \in Outcomes : ExpireSession(id, outcome)
  \/ \E moved \in SUBSET DOMAIN players : \E crossed \in SUBSET moved, outcome \in Outcomes :
       CommitTick(moved, crossed, outcome)
  \/ PumpEnds
  \/ \E written \in BOOLEAN : Stop(written)
  \/ Crash
  \/ Restart

Spec == Init /\ [][Next]_vars
-----------------------------------------------------------------------------
(* Properties. *)

Records == [owner : Owners, lifecycle : {"fresh", "creating", "established"},
            saved : [epoch : 0 .. MaxRevision, revision : 0 .. MaxRevision]]

IsPartial(f, S) == DOMAIN f \subseteq PlayerIds /\ \A id \in DOMAIN f : f[id] \in S

TypeOK ==
  /\ IsPartial(identityFile, Records) /\ IsPartial(records, Records)
  /\ IsPartial(players, Stamps)
  /\ online \subseteq bound /\ bound \subseteq DOMAIN players
  /\ up => DOMAIN players \subseteq DOMAIN records
  /\ up => DOMAIN records = 1 .. nextPlayer - 1
  /\ version \in 0 .. MaxVersion
  /\ \A i \in 1 .. Len(worldFile) : IsPartial(worldFile[i].players, Stamps)
  /\ \A i \in 1 .. Len(prefix) : IsPartial(prefix[i].players, Stamps)
  /\ step.ids \subseteq PlayerIds /\ refused \in BOOLEAN

Before(a, b) == a.epoch < b.epoch \/ (a.epoch = b.epoch /\ a.revision < b.revision)

\* Wherever the process ends, the next start accepts the two files, and every
\* character of the world still belongs to the credential it was made for,
\* although the id of an identity that was taken back is given out again
\* (AuthenticatedJoinCoordinator::commit, PlayerIdentityRegistry::rollback).
Recoverable ==
  /\ StartAccepted
  /\ \A id \in DOMAIN LatestPlayers(worldFile) :
       LatestPlayers(worldFile)[id].owner = identityFile[id].owner

\* What was acknowledged is on disk: the version of the last commit, and every
\* established character with a record that is not older than the last one that
\* was committed, also when it has left the world since.
CharactersSurvive ==
  /\ promised > 0 => worldFile # <<>> /\ Latest(worldFile).version >= promised
  /\ \A id \in DOMAIN last :
       /\ id \in Established(identityFile)
       /\ id \in DOMAIN LatestPlayers(worldFile)
       /\ ~Before(LatestPlayers(worldFile)[id], last[id])

\* An established character never gets an epoch and revision that it had before,
\* through leaving, expiry, coming back and restarts (prepareIdentity takes the
\* next ones of the record it finds).
StampsIncrease ==
  [][\A id \in DOMAIN last : last'[id] # last[id] => Before(last[id], last'[id])]_vars

\* The chain takes every transaction that the reducer has prepared, also the
\* disconnect of a failed send after a pump that has caught up several ticks:
\* "The disconnect barrier must not precede the world it will persist"
\* (disconnectConnections, CanonicalDurablePrefix::create).
NothingRefused == ~refused

\* No tick is simulated twice, and the native engine skips none, over restarts
\* between a lifecycle transaction and the tick whose number it carries.
ClockContinues ==
  [][up /\ up' /\ advanced' # advanced =>
       IF native THEN advanced' = advanced + 1 ELSE advanced' > advanced]_vars
=============================================================================
