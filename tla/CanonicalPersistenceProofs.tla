--------------------- MODULE CanonicalPersistenceProofs ---------------------
(***************************************************************************)
(* Theorems about CanonicalPersistence, for every number of clients,       *)
(* identities and players, every length of the chain, and every point at   *)
(* which the process ends.                                                 *)
(***************************************************************************)
EXTENDS CanonicalPersistence, FiniteSetTheorems, TLAPS

USE PersistenceAssumption

-----------------------------------------------------------------------------
(* The inductive invariant. *)

Partial(S) == UNION {[D -> S] : D \in SUBSET PlayerIds}
Checksums == [version : Nat, tick : Nat, head : BOOLEAN]
Transactions == [version : 0 .. MaxVersion, tick : Nat, advanced : Nat,
                 players : Partial(Stamps), prior : Checksums]
Operations == {"idle", "join", "undoJoin", "create", "undoCreate", "leave", "hide"}

\* The records that a rollback would leave.
Base == IF committed = Nothing THEN records ELSE committed.records

\* The players ps have the identities rs, for the credentials they were made for.
Owned(ps, rs) == \A id \in DOMAIN ps : id \in DOMAIN rs /\ ps[id].owner = rs[id].owner

\* The registry knows a character that is saved from one that is not.
Marked(rs) == \A id \in DOMAIN rs : rs[id].lifecycle = "established" <=> rs[id].saved # Unsaved

\* rs has the records of 1 .. n.
Registered(rs, n) == n \in PlayerIds \cup {0} /\ DOMAIN rs = 1 .. n /\ IsPartial(rs, Records) /\ Marked(rs)

\* The process is down and has forgotten everything, or runs one handler.
Shape ==
  /\ up \in BOOLEAN /\ native \in BOOLEAN
  /\ phase \in {"serve", "ticks", "send"}
  /\ step \in [op : Operations, ids : SUBSET PlayerIds]
  /\ step.op = "idle" => step = Idle
  /\ ~up => /\ step = Idle /\ phase = "serve" /\ committed = Nothing /\ version = 0
            /\ records = None /\ players = None /\ online = {} /\ bound = {} /\ prefix = <<>>
  /\ IsPartial(players, Stamps) /\ online \subseteq bound /\ bound \subseteq DOMAIN players
  /\ version \in 0 .. MaxVersion
  /\ step # Idle => version < MaxVersion

\* What the handler that runs has still to do.
Steps ==
  /\ step.op = "join" => /\ committed # Nothing
                         /\ nextPlayer = committed.nextPlayer + 1
                         /\ step.ids = {committed.nextPlayer}
                         /\ records[committed.nextPlayer].lifecycle = "fresh"
  /\ step.op \in {"join", "create"} => phase = "serve"
  /\ step.op \in {"undoJoin", "undoCreate"} => committed # Nothing
  /\ step.op \in {"create", "undoCreate", "leave", "hide"} => step.ids \subseteq online
  /\ step.op = "create" => /\ committed # Nothing
                           /\ Established(records) \subseteq
                                Established(committed.records) \cup step.ids
                           /\ \A id \in step.ids : players[id].revision < MaxRevision
  /\ step.op = "hide" =>
       /\ committed = Nothing
       /\ \A id \in step.ids \cap Established(records) : records[id].saved = Stamp(players[id])

\* The registry and its file: the file has the identities of the memory, and
\* what a commit would take back it has taken over.
Registry ==
  /\ IsPartial(identityFile, Records) /\ WellFormed(identityFile)
  /\ \E n \in PlayerIds \cup {0} : DOMAIN identityFile = 1 .. n
  /\ up => /\ nextPlayer \in Nat \ {0} /\ Registered(records, nextPlayer - 1)
           /\ DOMAIN identityFile = DOMAIN records
           /\ Established(identityFile) = Established(records)
           /\ \A id \in DOMAIN records : identityFile[id].owner = records[id].owner
  /\ committed # Nothing =>
       /\ committed.nextPlayer \in Nat \ {0}
       /\ Registered(committed.records, committed.nextPlayer - 1)
       /\ \A id \in DOMAIN committed.records :
            /\ id \in DOMAIN records /\ records[id].owner = committed.records[id].owner
            /\ id \in Established(committed.records) => records[id] = committed.records[id]
       /\ step.op \in {"create", "undoCreate", "leave"}
            \/ Established(records) \subseteq Established(committed.records)

\* A chain that recovery accepts.
ChainOK(txs) == txs \in Seq(Transactions) /\ ValidPrefix(txs)

\* Its last transaction was made before the next tick of the world's clock.
LatestFits(txs) ==
  txs # <<>> => /\ Latest(txs).advanced <= Latest(txs).tick
                /\ native => Latest(txs).tick <= Latest(txs).advanced + 1

\* It has everything that was acknowledged.
Survives(txs) ==
  /\ promised > 0 => txs # <<>> /\ Latest(txs).version >= promised
  /\ \A id \in DOMAIN last : /\ id \in DOMAIN LatestPlayers(txs)
                             /\ ~Before(LatestPlayers(txs)[id], last[id])

Good(txs) == ChainOK(txs) /\ LatestFits(txs) /\ Survives(txs)

\* The history of what was acknowledged.
History ==
  /\ promised \in Nat
  /\ DOMAIN last \subseteq Established(identityFile)
  /\ \A id \in DOMAIN last : last[id] \in [epoch : Nat, revision : Nat]
  /\ refused = FALSE

\* The world file.
World ==
  /\ Good(worldFile)
  /\ Owned(LatestPlayers(worldFile), identityFile)
  /\ up => Owned(LatestPlayers(worldFile), Base)

\* The clock and the chain in memory.
Clocks ==
  up => /\ pumpTick \in Nat /\ tick \in Nat /\ advanced \in Nat
        /\ pumpTick <= tick
        /\ phase = "serve" => pumpTick = tick
        /\ advanced < tick
        /\ native => tick = advanced + 1
        /\ prefix = <<>> => advanced = 0 /\ version = 0
        /\ prefix # <<>> => /\ Latest(prefix).tick <= tick
                            /\ Latest(prefix).advanced = advanced
                            /\ Latest(prefix).version = version

\* The characters in memory: nobody in the world is older than what was
\* acknowledged, and nobody who is away was saved with an older epoch.
Characters ==
  up => /\ Good(prefix)
        /\ promised <= version
        /\ Owned(LatestPlayers(prefix), Base)
        /\ Owned(players, Base)
        /\ DOMAIN last \subseteq Established(Base)
        /\ \A id \in DOMAIN last :
             IF id \in DOMAIN players THEN ~Before(players[id], last[id])
             ELSE Base[id].saved.epoch >= last[id].epoch
        /\ \A id \in DOMAIN players \cap Established(Base) :
             id \notin online => Base[id].saved.epoch >= players[id].epoch

IInv == Shape /\ Steps /\ Registry /\ History /\ World /\ Clocks /\ Characters

-----------------------------------------------------------------------------
(* The chain. *)

\* A function from some players.
LEMMA PartialIs ==
  ASSUME NEW S, NEW f \in Partial(S)
  PROVE  IsPartial(f, S)
BY DEF Partial, IsPartial

LEMMA PartialFrom ==
  ASSUME NEW S, NEW D \in SUBSET PlayerIds, NEW f \in [D -> S]
  PROVE  f \in Partial(S)
BY DEF Partial

\* The players of the last transaction.
LEMMA LatestPlayersType ==
  ASSUME NEW txs \in Seq(Transactions)
  PROVE  IsPartial(LatestPlayers(txs), Stamps)
<1>1. CASE txs = <<>>
  BY <1>1 DEF LatestPlayers, None, IsPartial
<1>2. CASE txs # <<>>
  <2>1. Latest(txs) \in Transactions
    BY <1>2 DEF Latest
  <2>2. Latest(txs).players \in Partial(Stamps)
    BY <2>1 DEF Transactions
  <2> QED
    BY <1>2, <2>2, PartialIs DEF LatestPlayers
<1> QED
  BY <1>1, <1>2

\* durablePlayers() writes established characters only, with their last record.
LEMMA DurableType ==
  ASSUME NEW ps, IsPartial(ps, Stamps), prefix \in Seq(Transactions)
  PROVE  LET old == LatestPlayers(prefix)
         IN  /\ durablePlayers(ps) \in Partial(Stamps)
             /\ DOMAIN durablePlayers(ps) = Established(records) \cap (DOMAIN ps \cup DOMAIN old)
             /\ \A id \in DOMAIN durablePlayers(ps) :
                  durablePlayers(ps)[id] = IF id \in DOMAIN ps THEN ps[id] ELSE old[id]
<1> DEFINE old == LatestPlayers(prefix)
           ids == Established(records) \cap (DOMAIN ps \cup DOMAIN old)
           f   == [id \in ids |-> IF id \in DOMAIN ps THEN ps[id] ELSE old[id]]
<1>1. IsPartial(old, Stamps)
  BY LatestPlayersType
<1>2. ids \in SUBSET PlayerIds
  BY <1>1 DEF IsPartial
<1>3. f \in [ids -> Stamps]
  BY <1>1 DEF IsPartial
<1>4. durablePlayers(ps) = f
  BY DEF durablePlayers
<1> HIDE DEF ids
<1>5. f \in Partial(Stamps)
  BY <1>2, <1>3, PartialFrom
<1> QED
  BY <1>4, <1>5 DEF ids

\* No world has more players than there are identities.
LEMMA PlayersFit ==
  ASSUME NEW ps, DOMAIN ps \subseteq PlayerIds
  PROVE  Cardinality(DOMAIN ps) <= MaximumCanonicalPlayerEntities
<1>1. IsFiniteSet(PlayerIds) /\ Cardinality(PlayerIds) = MaximumPlayerIdentityRecords
  BY FS_Interval DEF PlayerIds
<1>2. Cardinality(DOMAIN ps) <= Cardinality(PlayerIds) /\ Cardinality(DOMAIN ps) \in Nat
  BY <1>1, FS_Subset, FS_CardinalityType
<1> QED
  BY <1>1, <1>2

\* commit() writes a chain that recovery accepts, whether or not it compacts,
\* when the transaction is not behind the last one.
LEMMA AppendedChain ==
  ASSUME ChainOK(prefix),
         NEW v \in 0 .. MaxVersion, NEW t \in Nat, NEW a \in Nat,
         NEW ps, IsPartial(ps, Stamps),
         prefix # <<>> => Latest(prefix).tick <= t /\ Latest(prefix).version <= v
  PROVE  LET txs == Appended(v, t, a, ps)
         IN  /\ ChainOK(txs) /\ txs # <<>>
             /\ Latest(txs).version = v /\ Latest(txs).tick = t /\ Latest(txs).advanced = a
             /\ Latest(txs).players = durablePlayers(ps)
<1> DEFINE prior == IF prefix = <<>> THEN NoTransaction ELSE Checksum(Latest(prefix))
           new   == Transaction(v, t, a, durablePlayers(ps), prior)
           txs   == Append(prefix, new)
           n     == Len(prefix)
<1>1. prefix \in Seq(Transactions) /\ n \in Nat /\ n <= MaximumPersistenceTransactions
  BY DEF ChainOK, ValidPrefix
<1>2. durablePlayers(ps) \in Partial(Stamps)
  BY <1>1, DurableType
<1>3. prior \in Checksums
  <2>1. CASE prefix = <<>>
    BY <2>1 DEF Checksums, NoTransaction
  <2>2. CASE prefix # <<>>
    <3>1. Latest(prefix) \in Transactions
      BY <1>1, <2>2 DEF Latest
    <3>2. Latest(prefix).version \in Nat /\ Latest(prefix).tick \in Nat
      BY <3>1 DEF Transactions
    <3>3. (Latest(prefix).prior = NoTransaction) \in BOOLEAN
      OBVIOUS
    <3> QED
      BY <2>2, <3>2, <3>3 DEF Checksum, Checksums
  <2> QED
    BY <2>1, <2>2
<1>4. /\ new \in Transactions
      /\ new.version = v /\ new.tick = t /\ new.advanced = a
      /\ new.players = durablePlayers(ps) /\ new.prior = prior
  BY <1>2, <1>3 DEF Transaction, Transactions
<1> HIDE DEF new, prior
<1>5. /\ txs \in Seq(Transactions) /\ Len(txs) = n + 1 /\ txs[n + 1] = new
      /\ \A i \in 1 .. n : txs[i] = prefix[i]
  BY <1>1, <1>4
<1>6. \A i \in 1 .. n + 1 : Cardinality(DOMAIN txs[i].players) <= MaximumCanonicalPlayerEntities
  <2> SUFFICES ASSUME NEW i \in 1 .. n + 1
               PROVE  Cardinality(DOMAIN txs[i].players) <= MaximumCanonicalPlayerEntities
    OBVIOUS
  <2>1. txs[i] \in Transactions
    BY <1>1, <1>5
  <2>2. txs[i].players \in Partial(Stamps)
    BY <2>1 DEF Transactions
  <2>3. DOMAIN txs[i].players \subseteq PlayerIds
    BY <2>2, PartialIs DEF IsPartial
  <2> QED
    BY <2>3, PlayersFit
<1>7. n > 0 => /\ prefix # <<>> /\ txs[n] = Latest(prefix) /\ prior = Checksum(txs[n])
               /\ txs[n].tick <= t /\ txs[n].version <= v
  BY <1>1, <1>5 DEF Latest, prior
<1>8. n = 0 => prior = NoTransaction
  BY <1>1 DEF prior
<1>9. CASE ~(Len(txs) > MaximumPersistenceTransactions)
  <2>1. Appended(v, t, a, ps) = txs
    BY <1>9, Zenon DEF Appended, new, prior
  <2>2. ASSUME NEW i \in 1 .. n + 1
        PROVE  /\ txs[i].prior = IF i = 1 THEN NoTransaction ELSE Checksum(txs[i - 1])
               /\ i > 1 => txs[i].tick >= txs[i - 1].tick /\ txs[i].version >= txs[i - 1].version
    <3>1. CASE i = n + 1
      BY <1>1, <1>4, <1>5, <1>7, <1>8, <3>1
    <3>2. CASE i \in 1 .. n
      <4>1. txs[i] = prefix[i] /\ (i > 1 => txs[i - 1] = prefix[i - 1])
        BY <1>1, <1>5, <3>2
      <4> QED
        BY <1>1, <3>2, <4>1 DEF ChainOK, ValidPrefix
    <3> QED
      BY <1>1, <3>1, <3>2
  <2>3. ValidPrefix(txs)
    BY <1>1, <1>5, <1>6, <1>9, <2>2 DEF ValidPrefix
  <2>4. txs # <<>> /\ Latest(txs) = new
    BY <1>1, <1>5 DEF Latest
  <2> HIDE DEF txs
  <2> QED
    BY <1>4, <1>5, <2>1, <2>3, <2>4 DEF ChainOK
<1>10. CASE Len(txs) > MaximumPersistenceTransactions
  <2> DEFINE checkpoint == [txs[Len(txs) - 1] EXCEPT !.prior = NoTransaction]
             tail       == [txs[Len(txs)] EXCEPT !.prior = Checksum(checkpoint)]
             short      == <<checkpoint, tail>>
  <2>1. Appended(v, t, a, ps) = short
    BY <1>10, Zenon DEF Appended, compacted, new, prior
  <2>2. n > 1 /\ Len(txs) - 1 = n /\ Len(txs) = n + 1
    BY <1>1, <1>5, <1>10
  <2> HIDE DEF txs
  <2>3. txs[n] \in Transactions /\ txs[n].tick \in Nat /\ txs[n].version \in Nat
    <3>1. n \in 1 .. Len(txs)
      BY <1>1, <2>2
    <3>2. txs[n] \in Transactions
      BY <1>5, <3>1
    <3> QED
      BY <3>2 DEF Transactions
  <2>4. /\ checkpoint \in Transactions
        /\ checkpoint.tick = txs[n].tick /\ checkpoint.version = txs[n].version
        /\ checkpoint.players = txs[n].players /\ checkpoint.prior = NoTransaction
    BY <2>2, <2>3 DEF Transactions, Checksums, NoTransaction
  <2>5. Checksum(checkpoint) \in Checksums
    <3>1. checkpoint.version \in Nat /\ checkpoint.tick \in Nat
      BY <2>3, <2>4
    <3>2. (checkpoint.prior = NoTransaction) \in BOOLEAN
      OBVIOUS
    <3> HIDE DEF checkpoint
    <3> QED
      BY <3>1, <3>2 DEF Checksum, Checksums
  <2> HIDE DEF checkpoint
  <2>6. /\ tail \in Transactions
        /\ tail.tick = t /\ tail.version = v /\ tail.advanced = a
        /\ tail.players = durablePlayers(ps) /\ tail.prior = Checksum(checkpoint)
    BY <1>4, <1>5, <2>2, <2>5 DEF Transactions
  <2> HIDE DEF tail
  <2>7. short \in Seq(Transactions) /\ Len(short) = 2 /\ short[1] = checkpoint /\ short[2] = tail
    BY <2>4, <2>6
  <2>8. \A i \in 1 .. 2 : Cardinality(DOMAIN short[i].players) <= MaximumCanonicalPlayerEntities
    <3>1. Cardinality(DOMAIN checkpoint.players) <= MaximumCanonicalPlayerEntities
      <4>1. n \in 1 .. n + 1
        BY <1>1, <2>2
      <4> QED
        BY <1>6, <2>4, <4>1
    <3>2. Cardinality(DOMAIN tail.players) <= MaximumCanonicalPlayerEntities
      BY <1>1, <1>4, <1>5, <1>6, <2>6
    <3> QED
      BY <2>7, <3>1, <3>2
  <2>9. ValidPrefix(short)
    <3>1. MaximumPersistenceTransactions >= 2
      OBVIOUS
    <3>2. tail.tick >= checkpoint.tick /\ tail.version >= checkpoint.version
      <4>1. txs[n].tick <= t /\ txs[n].version <= v
        BY <1>1, <1>7, <2>2
      <4> QED
        BY <2>3, <2>4, <2>6, <4>1
    <3> HIDE DEF short
    <3>3. ASSUME NEW i \in 1 .. 2
          PROVE  /\ short[i].prior = IF i = 1 THEN NoTransaction ELSE Checksum(short[i - 1])
                 /\ i > 1 => short[i].tick >= short[i - 1].tick
                             /\ short[i].version >= short[i - 1].version
      <4>1. CASE i = 1
        BY <2>4, <2>7, <4>1
      <4>2. CASE i = 2
        BY <2>6, <2>7, <3>2, <4>2
      <4> QED
        BY <4>1, <4>2
    <3> QED
      BY <2>7, <2>8, <3>1, <3>3 DEF ValidPrefix
  <2>10. short # <<>> /\ Latest(short) = tail
    BY <2>7 DEF Latest
  <2> HIDE DEF short
  <2> QED
    BY <2>1, <2>6, <2>7, <2>9, <2>10 DEF ChainOK
<1> QED
  BY <1>9, <1>10

-----------------------------------------------------------------------------
(* A transaction. *)

\* What the registry would go back to it still has.
LEMMA BaseKept ==
  ASSUME IInv, up
  PROVE  /\ \E n \in PlayerIds \cup {0} : Registered(Base, n)
         /\ DOMAIN Base \subseteq DOMAIN records
         /\ \A id \in DOMAIN Base : records[id].owner = Base[id].owner
         /\ \A id \in Established(Base) : id \in DOMAIN Base /\ records[id] = Base[id]
         /\ Established(Base) \subseteq Established(records)
<1>1. CASE committed = Nothing
  BY <1>1 DEF IInv, Registry, Base, Established, Registered
<1>2. CASE committed # Nothing
  <2>1. Base = committed.records
    BY <1>2 DEF Base
  <2> QED
    BY <1>2, <2>1 DEF IInv, Registry, Established, Registered
<1> QED
  BY <1>1, <1>2

\* What the reducer may hand to commit().
Candidate(v, t, a, ps) ==
  /\ v \in Nat /\ version <= v /\ v <= MaxVersion
  /\ t \in Nat /\ t <= tick /\ (prefix # <<>> => Latest(prefix).tick <= t)
  /\ a \in Nat /\ a <= t /\ (native => t <= a + 1)
  /\ IsPartial(ps, Stamps)
  /\ \A id \in DOMAIN ps \cap Established(records) :
       id \in DOMAIN Base /\ ps[id].owner = Base[id].owner
  /\ \A id \in DOMAIN last \cap DOMAIN ps : ~Before(ps[id], last[id])

\* The chain txs ends with the candidate, and loses nothing that was
\* acknowledged.
Carries(txs, v, t, a, ps) ==
  /\ ChainOK(txs) /\ LatestFits(txs) /\ Survives(txs)
  /\ txs # <<>>
  /\ Latest(txs).version = v /\ Latest(txs).tick = t /\ Latest(txs).advanced = a
  /\ DOMAIN LatestPlayers(txs) =
       Established(records) \cap (DOMAIN ps \cup DOMAIN LatestPlayers(prefix))
  /\ \A id \in DOMAIN LatestPlayers(txs) :
       LatestPlayers(txs)[id] = IF id \in DOMAIN ps THEN ps[id] ELSE LatestPlayers(prefix)[id]
  /\ Owned(LatestPlayers(txs), Base)
  /\ DOMAIN last \subseteq DOMAIN LatestPlayers(txs)

\* A candidate's chain is accepted.
LEMMA CandidateChain ==
  ASSUME IInv, up, NEW v, NEW t, NEW a, NEW ps, Candidate(v, t, a, ps)
  PROVE  Carries(Appended(v, t, a, ps), v, t, a, ps)
<1> DEFINE txs == Appended(v, t, a, ps)
<1>1. ChainOK(prefix) /\ prefix \in Seq(Transactions) /\ Survives(prefix)
  BY DEF IInv, Characters, Good, ChainOK
<1>2. prefix # <<>> => Latest(prefix).tick <= t /\ Latest(prefix).version <= v
  BY DEF IInv, Clocks, Candidate
<1>3. v \in 0 .. MaxVersion /\ t \in Nat /\ a \in Nat /\ IsPartial(ps, Stamps)
  BY DEF Candidate
<1>4. /\ ChainOK(txs) /\ txs # <<>>
      /\ Latest(txs).version = v /\ Latest(txs).tick = t /\ Latest(txs).advanced = a
      /\ Latest(txs).players = durablePlayers(ps)
  BY <1>1, <1>2, <1>3, AppendedChain
<1> HIDE DEF txs
<1>5. LatestPlayers(txs) = durablePlayers(ps)
  BY <1>4 DEF LatestPlayers
<1>6. /\ DOMAIN LatestPlayers(txs) =
           Established(records) \cap (DOMAIN ps \cup DOMAIN LatestPlayers(prefix))
      /\ \A id \in DOMAIN LatestPlayers(txs) :
           LatestPlayers(txs)[id] = IF id \in DOMAIN ps THEN ps[id] ELSE LatestPlayers(prefix)[id]
  <2>1. /\ DOMAIN durablePlayers(ps) =
             Established(records) \cap (DOMAIN ps \cup DOMAIN LatestPlayers(prefix))
        /\ \A id \in DOMAIN durablePlayers(ps) :
             durablePlayers(ps)[id] = IF id \in DOMAIN ps THEN ps[id] ELSE LatestPlayers(prefix)[id]
    BY <1>1, <1>3, DurableType
  <2> QED
    BY <1>5, <2>1, Zenon
<1>7. LatestFits(txs)
  BY <1>4 DEF LatestFits, Candidate
<1>8. DOMAIN last \subseteq DOMAIN LatestPlayers(txs)
  <2>1. DOMAIN last \subseteq Established(records)
    BY BaseKept DEF IInv, Characters
  <2>2. DOMAIN last \subseteq DOMAIN LatestPlayers(prefix)
    BY <1>1 DEF Survives
  <2> QED
    BY <1>6, <2>1, <2>2
<1>9. Survives(txs)
  <2>1. promised > 0 => Latest(txs).version >= promised
    BY <1>4 DEF IInv, Shape, History, Characters, Candidate
  <2>2. ASSUME NEW id \in DOMAIN last
        PROVE  ~Before(LatestPlayers(txs)[id], last[id])
    <3>1. CASE id \in DOMAIN ps
      BY <1>6, <1>8, <2>2, <3>1 DEF Candidate
    <3>2. CASE id \notin DOMAIN ps
      BY <1>1, <1>6, <1>8, <2>2, <3>2 DEF Survives
    <3> QED
      BY <3>1, <3>2
  <2> QED
    BY <1>4, <1>8, <2>1, <2>2 DEF Survives
<1>10. Owned(LatestPlayers(txs), Base)
  <2> SUFFICES ASSUME NEW id \in DOMAIN LatestPlayers(txs)
               PROVE  id \in DOMAIN Base /\ LatestPlayers(txs)[id].owner = Base[id].owner
    BY DEF Owned
  <2>1. CASE id \in DOMAIN ps
    BY <1>6, <2>1 DEF Candidate
  <2>2. CASE id \notin DOMAIN ps
    BY <1>6, <2>2 DEF IInv, Characters, Owned
  <2> QED
    BY <2>1, <2>2
<1>11. Carries(txs, v, t, a, ps)
  BY <1>4, <1>6, <1>7, <1>8, <1>9, <1>10 DEF Carries
<1> QED
  BY <1>11 DEF txs

\* The identities of the world are those of the file.
LEMMA OwnedOnDisk ==
  ASSUME IInv, up, NEW ps, Owned(ps, Base)
  PROVE  Owned(ps, identityFile) /\ Owned(ps, records)
<1>1. Owned(ps, records)
  BY BaseKept DEF Owned
<1> QED
  BY <1>1 DEF Owned, IInv, Registry

\* A write that is not acknowledged, whether or not the file was replaced.
LEMMA Unacknowledged ==
  ASSUME IInv, up, NEW v, NEW t, NEW a, NEW ps, Candidate(v, t, a, ps), NEW outcome,
         Persist(v, t, a, ps, outcome), UNCHANGED <<last, promised, native>>
  PROVE  /\ Good(worldFile)' /\ refused' = FALSE
         /\ Owned(LatestPlayers(worldFile'), Base)
         /\ Owned(LatestPlayers(worldFile'), identityFile)
<1>0. PICK txs : txs = Appended(v, t, a, ps)
  OBVIOUS
<1>1. /\ ChainOK(txs) /\ ValidPrefix(txs) /\ LatestFits(txs) /\ Survives(txs)
      /\ Owned(LatestPlayers(txs), Base)
  <2>1. Carries(txs, v, t, a, ps)
    BY <1>0, CandidateChain
  <2> QED
    BY <2>1 DEF Carries, ChainOK
<1>2. worldFile' = txs \/ worldFile' = worldFile
  BY <1>0 DEF Persist
<1>3. refused' = FALSE
  BY <1>0, <1>1, Zenon DEF Persist, IInv, History
<1>4. Good(worldFile) /\ Owned(LatestPlayers(worldFile), Base)
  BY DEF IInv, World
<1>5. Owned(LatestPlayers(worldFile'), Base)
  BY <1>1, <1>2, <1>4
<1>6. Good(worldFile)'
  <2>1. /\ ChainOK(worldFile') /\ LatestFits(worldFile') /\ Survives(worldFile')
    BY <1>1, <1>2, <1>4, Zenon DEF Good
  <2>2. ChainOK(worldFile)'
    BY <2>1, Zenon DEF ChainOK, ValidPrefix, Latest, Checksum
  <2>3. LatestFits(worldFile)'
    BY <2>1, Zenon DEF LatestFits, Latest
  <2>4. Survives(worldFile)'
    BY <2>1, Zenon DEF Survives, Before, LatestPlayers, Latest
  <2> QED
    BY <2>2, <2>3, <2>4 DEF Good
<1> QED
  BY <1>3, <1>5, <1>6, OwnedOnDisk

\* A character's record is not before itself.
LEMMA NotBefore ==
  ASSUME NEW p \in Stamps
  PROVE  /\ Stamp(p) \in [epoch : Nat, revision : Nat]
         /\ ~Before(p, Stamp(p))
BY DEF Stamps, Stamp, Before

\* The file and the memory have the candidate, and it is acknowledged.
Taken(v, t, a, ps) ==
  /\ Good(worldFile)' /\ Good(prefix)' /\ refused' = FALSE
  /\ worldFile' = prefix' /\ prefix' # <<>>
  /\ Latest(prefix').version = v /\ Latest(prefix').tick = t
  /\ Latest(prefix').advanced = a
  /\ Owned(LatestPlayers(prefix'), Base)
  /\ Owned(LatestPlayers(prefix'), identityFile)
  /\ version' = v /\ advanced' = a /\ players' = ps /\ promised' = v
  /\ DOMAIN last' = DOMAIN last \cup (DOMAIN ps \cap Established(records))
  /\ \A id \in DOMAIN last' : last'[id] = IF id \in DOMAIN ps THEN Stamp(ps[id]) ELSE last[id]

\* What a commit that succeeds has done.
LEMMA Acknowledged ==
  ASSUME IInv, up, NEW v, NEW t, NEW a, NEW ps, Candidate(v, t, a, ps),
         Persist(v, t, a, ps, "ok"), Apply(v, t, a, ps), native' = native
  PROVE  Taken(v, t, a, ps)
<1>0. PICK txs : txs = Appended(v, t, a, ps)
  OBVIOUS
<1>b. Carries(txs, v, t, a, ps)
  BY <1>0, CandidateChain
<1>a. /\ ChainOK(txs) /\ ValidPrefix(txs) /\ LatestFits(txs) /\ Survives(txs)
      /\ txs # <<>>
      /\ Latest(txs).version = v /\ Latest(txs).tick = t /\ Latest(txs).advanced = a
      /\ Owned(LatestPlayers(txs), Base)
  BY <1>b DEF Carries, ChainOK
<1>1. /\ DOMAIN LatestPlayers(txs) =
           Established(records) \cap (DOMAIN ps \cup DOMAIN LatestPlayers(prefix))
      /\ \A id \in DOMAIN LatestPlayers(txs) :
           LatestPlayers(txs)[id] = IF id \in DOMAIN ps THEN ps[id] ELSE LatestPlayers(prefix)[id]
      /\ DOMAIN last \subseteq DOMAIN LatestPlayers(txs)
  BY <1>b DEF Carries
<1>2. worldFile' = txs /\ refused' = FALSE
  BY <1>0, <1>a, Zenon DEF Persist, IInv, History
<1>3. prefix' = txs /\ version' = v /\ advanced' = a /\ players' = ps
  BY <1>0 DEF Apply
<1>4. promised' = v
  BY DEF Apply, Acknowledge
<1>5. DOMAIN last \subseteq Established(records)
  BY BaseKept DEF IInv, Characters
<1>6. /\ DOMAIN last' = DOMAIN last \cup (DOMAIN ps \cap Established(records))
      /\ \A id \in DOMAIN last' :
           last'[id] = IF id \in DOMAIN ps THEN Stamp(ps[id]) ELSE last[id]
  BY <1>5 DEF Apply, Acknowledge, Stamp
<1>7. Survives(txs)'
  <2>1. ASSUME NEW id \in DOMAIN last'
        PROVE  id \in DOMAIN LatestPlayers(txs) /\ ~Before(LatestPlayers(txs)[id], last'[id])
    <3>1. id \in DOMAIN LatestPlayers(txs)
      BY <1>1, <1>6, <2>1
    <3>2. CASE id \in DOMAIN ps
      <4>1. LatestPlayers(txs)[id] = ps[id] /\ last'[id] = Stamp(ps[id]) /\ ps[id] \in Stamps
        BY <1>1, <1>6, <2>1, <3>1, <3>2 DEF Candidate, IsPartial
      <4> QED
        BY <3>1, <4>1, NotBefore
    <3>3. CASE id \notin DOMAIN ps
      <4>1. id \in DOMAIN last /\ last'[id] = last[id]
        BY <1>6, <2>1, <3>3
      <4> QED
        BY <1>a, <3>1, <4>1 DEF Survives
    <3> QED
      BY <3>2, <3>3
  <2>2. v >= v
    BY DEF Candidate
  <2> QED
    BY <1>a, <1>4, <2>1, <2>2 DEF Survives, LatestPlayers, Latest, Before
<1>8. ChainOK(txs)' /\ LatestFits(txs)'
  BY <1>a DEF ChainOK, LatestFits, ValidPrefix, Latest, Checksum
<1>9. Good(worldFile)' /\ Good(prefix)'
  BY <1>2, <1>3, <1>7, <1>8 DEF Good, ChainOK, LatestFits, Survives
<1>10. Owned(LatestPlayers(txs), identityFile)
  BY <1>a, OwnedOnDisk
<1> QED
  BY <1>a, <1>2, <1>3, <1>4, <1>6, <1>9, <1>10 DEF Taken

-----------------------------------------------------------------------------
(* The four ways a handler ends. *)

\* The process ends: all that is left is the disk.
LEMMA DownHolds ==
  ASSUME IInv, Down, native' = native, UNCHANGED <<last, promised>>, refused' = FALSE,
         Good(worldFile)', Owned(LatestPlayers(worldFile'), identityFile'),
         IsPartial(identityFile', Records), WellFormed(identityFile'),
         \E n \in PlayerIds \cup {0} : DOMAIN identityFile' = 1 .. n,
         Established(identityFile) \subseteq Established(identityFile')
  PROVE  IInv'
<1>1. ~up' /\ committed' = Nothing /\ step' = Idle
  BY DEF Down
<1>2. Shape'
  <2>1. step' \in [op : Operations, ids : SUBSET PlayerIds]
    BY <1>1 DEF Idle, Operations
  <2>2. IsPartial(players', Stamps)
    BY DEF Down, None, IsPartial
  <2>3. up' \in BOOLEAN /\ native' \in BOOLEAN
    BY DEF Down, IInv, Shape
  <2> QED
    BY <2>1, <2>2, <2>3 DEF Down, Shape, Idle
<1>3. Steps'
  BY <1>1 DEF Steps, Idle
<1>4. Registry'
  BY <1>1 DEF Registry, WellFormed
<1>5. History'
  BY DEF IInv, History, Established
<1>6. World'
  BY <1>1 DEF World, Owned, LatestPlayers, Latest
<1>7. Clocks' /\ Characters'
  BY <1>1 DEF Clocks, Characters
<1> QED
  BY <1>2, <1>3, <1>4, <1>5, <1>6, <1>7 DEF IInv

\* The same when the identity file is left alone.
LEMMA DownAfterWrite ==
  ASSUME IInv, Down, UNCHANGED <<native, last, promised, identityFile>>, refused' = FALSE,
         Good(worldFile)', Owned(LatestPlayers(worldFile'), identityFile)
  PROVE  IInv'
<1>1. /\ IsPartial(identityFile', Records) /\ WellFormed(identityFile')
      /\ \E n \in PlayerIds \cup {0} : DOMAIN identityFile' = 1 .. n
      /\ Established(identityFile) \subseteq Established(identityFile')
  BY DEF IInv, Registry
<1>2. Owned(LatestPlayers(worldFile'), identityFile')
  BY DEF Owned
<1> QED
  BY <1>1, <1>2, DownHolds

\* The same when the world file is left alone.
LEMMA DownAlone ==
  ASSUME IInv, Down, UNCHANGED <<native, last, promised, refused, identityFile, worldFile>>
  PROVE  IInv'
<1>1. refused' = FALSE
  BY Zenon DEF IInv, History
<1>2. Good(worldFile)'
  BY DEF IInv, World, Good, ChainOK, ValidPrefix, LatestFits, Survives, Before, LatestPlayers,
         Latest, Checksum
<1>3. Owned(LatestPlayers(worldFile'), identityFile)
  BY DEF IInv, World
<1> QED
  BY <1>1, <1>2, <1>3, DownAfterWrite

\* A change of the registry keeps the identities and the established characters.
BaseKeeps ==
  /\ \A id \in DOMAIN Base : id \in DOMAIN Base' /\ Base'[id].owner = Base[id].owner
  /\ \A id \in Established(Base) : id \in Established(Base') /\ Base'[id] = Base[id]

\* The handler goes on after a write that was not acknowledged.
LEMMA WriteFailed ==
  ASSUME IInv, up, up', NEW v, NEW t, NEW a, NEW ps, Candidate(v, t, a, ps), NEW outcome,
         Persist(v, t, a, ps, outcome), Keep, UNCHANGED <<native, identityFile, online>>,
         BaseKeeps, Established(Base') \subseteq Established(Base)
  PROVE  History' /\ World' /\ Characters'
<1>1. UNCHANGED <<last, promised, players, version, advanced, prefix, native>>
  BY DEF Keep, canonical
<1>2. /\ Good(worldFile)' /\ refused' = FALSE
      /\ Owned(LatestPlayers(worldFile'), Base)
      /\ Owned(LatestPlayers(worldFile'), identityFile)
  BY <1>1, Unacknowledged
<1>3. History'
  BY <1>1, <1>2 DEF IInv, History
<1>4. ASSUME NEW qs, Owned(qs, Base)
      PROVE  Owned(qs, Base')
  BY <1>4 DEF Owned, BaseKeeps
<1>5. World'
  <2>1. Owned(LatestPlayers(worldFile'), Base') /\ Owned(LatestPlayers(worldFile'), identityFile')
    BY <1>2, <1>4
  <2> QED
    BY <1>2, <2>1 DEF World, Owned, LatestPlayers, Latest
<1>6. Good(prefix)'
  BY <1>1 DEF IInv, Characters, Good, ChainOK, ValidPrefix, LatestFits, Survives, Before,
              LatestPlayers, Latest, Checksum
<1>7. Owned(LatestPlayers(prefix'), Base') /\ Owned(players', Base')
  BY <1>1, <1>4 DEF IInv, Characters
<1>8. DOMAIN last' \subseteq Established(Base')
  BY <1>1 DEF IInv, Characters, BaseKeeps
<1>9. \A id \in DOMAIN last' :
        IF id \in DOMAIN players' THEN ~Before(players'[id], last'[id])
        ELSE Base'[id].saved.epoch >= last'[id].epoch
  BY <1>1 DEF IInv, Characters, BaseKeeps
<1>10. \A id \in DOMAIN players' \cap Established(Base') :
         id \notin online' => Base'[id].saved.epoch >= players'[id].epoch
  BY <1>1 DEF IInv, Characters, BaseKeeps
<1>11. promised' <= version'
  BY <1>1 DEF IInv, Characters
<1>12. Characters'
  BY <1>6, <1>7, <1>8, <1>9, <1>10, <1>11
     DEF Characters, Owned, LatestPlayers, Latest, Established, Before, Good, ChainOK, LatestFits,
         Survives, ValidPrefix
<1> QED
  BY <1>3, <1>5, <1>12

\* The handler goes on after a commit.
LEMMA WriteCommitted ==
  ASSUME IInv, up, up', NEW v, NEW t, NEW a, NEW ps, Candidate(v, t, a, ps),
         Persist(v, t, a, ps, "ok"), Apply(v, t, a, ps), UNCHANGED <<native, identityFile>>,
         BaseKeeps, Established(records) \subseteq Established(Base'),
         Owned(ps, Base'),
         \A id \in DOMAIN last \ DOMAIN ps : Base'[id].saved.epoch >= last[id].epoch,
         \A id \in DOMAIN ps \cap Established(Base') :
           id \notin online' => Base'[id].saved.epoch >= ps[id].epoch
  PROVE  History' /\ World' /\ Characters'
<1>0. Taken(v, t, a, ps)
  BY Acknowledged
<1>1. /\ Good(worldFile)' /\ Good(prefix)' /\ refused' = FALSE
      /\ worldFile' = prefix' /\ prefix' # <<>>
      /\ Owned(LatestPlayers(prefix'), Base)
      /\ Owned(LatestPlayers(prefix'), identityFile)
      /\ version' = v /\ players' = ps /\ promised' = v
  BY <1>0 DEF Taken
<1>2. /\ DOMAIN last' = DOMAIN last \cup (DOMAIN ps \cap Established(records))
      /\ \A id \in DOMAIN last' : last'[id] = IF id \in DOMAIN ps THEN Stamp(ps[id]) ELSE last[id]
  BY <1>0 DEF Taken
<1>3. DOMAIN last \subseteq Established(Base)
  BY DEF IInv, Characters
<1>4. v \in Nat /\ IsPartial(ps, Stamps)
  BY DEF Candidate
<1>5. \A id \in DOMAIN ps : /\ Stamp(ps[id]) \in [epoch : Nat, revision : Nat]
                            /\ ~Before(ps[id], Stamp(ps[id]))
  BY <1>4, NotBefore DEF IsPartial
<1>6. History'
  <2>1. DOMAIN last' \subseteq Established(identityFile')
    BY <1>2 DEF IInv, History, Registry
  <2>2. \A id \in DOMAIN last' : last'[id] \in [epoch : Nat, revision : Nat]
    BY <1>2, <1>5 DEF IInv, History
  <2> QED
    BY <1>1, <1>4, <2>1, <2>2 DEF History, Established
<1>7. Owned(LatestPlayers(prefix'), Base')
  BY <1>1 DEF Owned, BaseKeeps
<1>8. World'
  BY <1>1, <1>7 DEF World, Owned, LatestPlayers, Latest
<1>9. DOMAIN last' \subseteq Established(Base')
  BY <1>2, <1>3 DEF BaseKeeps
<1>10. \A id \in DOMAIN last' :
         IF id \in DOMAIN players' THEN ~Before(players'[id], last'[id])
         ELSE Base'[id].saved.epoch >= last'[id].epoch
  BY <1>1, <1>2, <1>5
<1>11. \A id \in DOMAIN players' \cap Established(Base') :
         id \notin online' => Base'[id].saved.epoch >= players'[id].epoch
  BY <1>1
<1>12. Owned(players', Base') /\ promised' <= version'
  BY <1>1, <1>4
<1>13. Characters'
  BY <1>1, <1>7, <1>9, <1>10, <1>11, <1>12
     DEF Characters, Owned, LatestPlayers, Latest, Established, Before
<1> QED
  BY <1>6, <1>8, <1>13

\* A commit between two ticks leaves the clock alone.
LEMMA ClockCommitted ==
  ASSUME IInv, up, NEW v, NEW t, NEW a, NEW ps, a = advanced, Candidate(v, t, a, ps),
         Persist(v, t, a, ps, "ok"), Apply(v, t, a, ps),
         UNCHANGED <<native, phase, pumpTick, tick>>
  PROVE  Clocks'
<1>0. Taken(v, t, a, ps)
  BY Acknowledged
<1>1. /\ prefix' # <<>>
      /\ Latest(prefix').version = v /\ Latest(prefix').tick = t
      /\ Latest(prefix').advanced = a
      /\ version' = v /\ advanced' = a
  BY <1>0 DEF Taken
<1> QED
  BY <1>1 DEF IInv, Clocks, Candidate, Latest

-----------------------------------------------------------------------------
(* The registry. *)

\* durableRecords() keeps the identities, and what is established.
LEMMA DurableRecords ==
  ASSUME NEW rs, IsPartial(rs, Records), Marked(rs)
  PROVE  /\ DOMAIN durableRecords(rs) = DOMAIN rs
         /\ IsPartial(durableRecords(rs), Records) /\ WellFormed(durableRecords(rs))
         /\ Established(durableRecords(rs)) = Established(rs)
         /\ \A id \in DOMAIN rs : durableRecords(rs)[id].owner = rs[id].owner
<1> DEFINE ds == durableRecords(rs)
<1>1. DOMAIN ds = DOMAIN rs
  BY DEF durableRecords
<1>2. ASSUME NEW id \in DOMAIN rs
      PROVE  /\ ds[id] \in Records /\ ds[id].owner = rs[id].owner
             /\ ds[id].lifecycle \in {"fresh", "established"}
             /\ ds[id].lifecycle = "established" <=> ds[id].saved # Unsaved
             /\ ds[id].lifecycle = "established" <=> rs[id].lifecycle = "established"
  <2>1. rs[id] \in Records
    BY DEF IsPartial
  <2>2. CASE rs[id].lifecycle = "established"
    <3>1. ds[id] = rs[id]
      BY <2>2 DEF durableRecords
    <3> QED
      BY <2>1, <2>2, <3>1 DEF Marked
  <2>3. CASE rs[id].lifecycle # "established"
    <3>1. ds[id] = [rs[id] EXCEPT !.lifecycle = "fresh", !.saved = Unsaved]
      BY <2>3 DEF durableRecords
    <3>2. Unsaved \in [epoch : 0 .. MaxRevision, revision : 0 .. MaxRevision]
      BY DEF Unsaved
    <3>3. ds[id].lifecycle = "fresh" /\ ds[id].saved = Unsaved /\ ds[id].owner = rs[id].owner
      BY <2>1, <3>1 DEF Records
    <3>4. ds[id] \in Records
      BY <2>1, <3>1, <3>2 DEF Records
    <3> QED
      BY <2>3, <3>3, <3>4
  <2> QED
    BY <2>2, <2>3
<1> HIDE DEF ds
<1>3. IsPartial(ds, Records)
  BY <1>1, <1>2 DEF IsPartial
<1>4. WellFormed(ds)
  BY <1>1, <1>2 DEF WellFormed
<1>5. Established(ds) = Established(rs)
  BY <1>1, <1>2 DEF Established
<1> QED
  BY <1>1, <1>2, <1>3, <1>4, <1>5 DEF ds

\* The registry is left alone.
LEMMA RegistryUnchanged ==
  ASSUME IInv, UNCHANGED <<identityFile, registry, up>>,
         committed # Nothing => \/ step'.op \in {"create", "undoCreate", "leave"}
                                \/ Established(records) \subseteq Established(committed.records)
  PROVE  Registry' /\ BaseKeeps /\ Base' = Base
<1>1. UNCHANGED <<records, nextPlayer, committed>>
  BY DEF registry
<1>2. Base' = Base
  BY <1>1 DEF Base
<1>3. BaseKeeps
  BY <1>2 DEF BaseKeeps
<1>4. Registry'
  BY <1>1 DEF IInv, Registry, Registered, Marked, Established, WellFormed
<1> QED
  BY <1>2, <1>3, <1>4

\* The registry was written, and nothing is to be taken back.
LEMMA RegistryWritten ==
  ASSUME up', NEW rs, records' = rs, identityFile' = durableRecords(rs),
         nextPlayer' \in Nat \ {0}, Registered(rs, nextPlayer' - 1), committed' = Nothing
  PROVE  Registry'
<1>1. /\ DOMAIN durableRecords(rs) = DOMAIN rs
      /\ IsPartial(durableRecords(rs), Records) /\ WellFormed(durableRecords(rs))
      /\ Established(durableRecords(rs)) = Established(rs)
      /\ \A id \in DOMAIN rs : durableRecords(rs)[id].owner = rs[id].owner
  BY DurableRecords DEF Registered
<1>2. \E n \in PlayerIds \cup {0} : DOMAIN identityFile' = 1 .. n
  BY <1>1 DEF Registered
<1> QED
  BY <1>1, <1>2 DEF Registry, Registered, Marked, WellFormed

\* Only the registry has changed.
LEMMA WorldUnchanged ==
  ASSUME IInv, up, up', UNCHANGED <<worldFile, native, canonical, online, history>>,
         Registry',
         \A id \in DOMAIN Base : id \in DOMAIN Base' /\ Base'[id].owner = Base[id].owner,
         \A id \in Established(Base) : /\ id \in Established(Base')
                                       /\ id \in online \/ Base'[id] = Base[id],
         Established(Base') \subseteq Established(Base),
         \A id \in DOMAIN Base' : /\ id \in DOMAIN identityFile'
                                  /\ identityFile'[id].owner = Base'[id].owner,
         Established(Base') \subseteq Established(identityFile')
  PROVE  History' /\ World' /\ Characters'
<1>1. UNCHANGED <<last, promised, refused, players, version, advanced, prefix>>
  BY DEF history, canonical
<1>2. ASSUME NEW qs, Owned(qs, Base)
      PROVE  Owned(qs, Base') /\ Owned(qs, identityFile')
  BY <1>2 DEF Owned
<1>3. DOMAIN last \subseteq Established(Base)
  BY DEF IInv, Characters
<1>4. History'
  BY <1>1, <1>3, Zenon DEF IInv, History
<1>5. Good(worldFile)' /\ Good(prefix)'
  BY <1>1 DEF IInv, World, Characters, Good, ChainOK, ValidPrefix, LatestFits, Survives, Before,
              LatestPlayers, Latest, Checksum
<1>6. World'
  <2>1. /\ Owned(LatestPlayers(worldFile), Base')
        /\ Owned(LatestPlayers(worldFile), identityFile')
    BY <1>2 DEF IInv, World
  <2> QED
    BY <1>5, <2>1 DEF World, Owned, LatestPlayers, Latest
<1>7. Owned(LatestPlayers(prefix'), Base') /\ Owned(players', Base')
  BY <1>1, <1>2 DEF IInv, Characters
<1>8. DOMAIN last' \subseteq Established(Base') /\ promised' <= version'
  BY <1>1, <1>3 DEF IInv, Characters
<1>9. ASSUME NEW id \in DOMAIN last
      PROVE  IF id \in DOMAIN players THEN ~Before(players[id], last[id])
             ELSE Base'[id].saved.epoch >= last[id].epoch
  <2>1. id \in DOMAIN players \/ Base'[id] = Base[id]
    BY <1>3, <1>9 DEF IInv, Shape
  <2> QED
    BY <2>1, <1>9 DEF IInv, Characters
<1>10. ASSUME NEW id \in DOMAIN players \cap Established(Base'), id \notin online
       PROVE  Base'[id].saved.epoch >= players[id].epoch
  BY <1>10 DEF IInv, Characters
<1>11. Characters'
  BY <1>1, <1>5, <1>7, <1>8, <1>9, <1>10
     DEF Characters, Owned, LatestPlayers, Latest, Established, Before
<1> QED
  BY <1>4, <1>6, <1>11

\* Neither file, nor the registry, nor the world has changed.
LEMMA DataUnchanged ==
  ASSUME IInv, up, UNCHANGED <<disk, native, up, registry, canonical, online, history>>,
         committed # Nothing => \/ step'.op \in {"create", "undoCreate", "leave"}
                                \/ Established(records) \subseteq Established(committed.records)
  PROVE  Registry' /\ History' /\ World' /\ Characters'
<1>1. Registry' /\ BaseKeeps /\ Base' = Base
  BY RegistryUnchanged DEF disk
<1>2. /\ \A id \in DOMAIN Base : /\ id \in DOMAIN identityFile
                                 /\ identityFile[id].owner = Base[id].owner
      /\ Established(Base) \subseteq Established(identityFile)
  BY BaseKept DEF IInv, Registry
<1>3. UNCHANGED <<identityFile, worldFile>>
  BY DEF disk
<1> QED
  BY <1>1, <1>2, <1>3, WorldUnchanged

\* The registry is idle but for the handler that runs.
LEMMA IdleRegistry ==
  ASSUME IInv, up, step = Idle, committed # Nothing
  PROVE  Established(records) \subseteq Established(committed.records)
BY DEF IInv, Registry, Idle

-----------------------------------------------------------------------------
(* The steps of a handler that write nothing. *)

LEMMA ConnectionsLostHolds ==
  ASSUME IInv, NEW ids \in SUBSET online, ConnectionsLost(ids)
  PROVE  IInv'
<1>1. up /\ step = Idle /\ step' = [op |-> "leave", ids |-> ids] /\ version < MaxVersion
  BY DEF ConnectionsLost, Between
<1>2. UNCHANGED <<disk, native, up, phase, registry, canonical, sessions, history>>
  BY DEF ConnectionsLost
<1>3. Registry' /\ History' /\ World' /\ Characters'
  BY <1>1, <1>2, DataUnchanged DEF sessions
<1>4. step'.op = "leave" /\ step'.ids = ids
  BY <1>1
<1>5. Shape'
  <2>1. ids \subseteq PlayerIds
    BY DEF IInv, Shape, IsPartial
  <2>2. step' \in [op : Operations, ids : SUBSET PlayerIds]
    BY <1>1, <2>1 DEF Operations
  <2> QED
    BY <1>1, <1>2, <1>4, <2>2 DEF IInv, Shape, sessions, canonical, registry
<1>6. Steps'
  BY <1>2, <1>4 DEF Steps, sessions
<1>7. Clocks'
  BY <1>2 DEF ConnectionsLost, clock, IInv, Clocks, canonical, Latest
<1> QED
  BY <1>3, <1>5, <1>6, <1>7 DEF IInv

LEMMA SendFailuresHolds ==
  ASSUME IInv, NEW ids \in SUBSET online, SendFailures(ids)
  PROVE  IInv'
<1>1. up /\ step = Idle /\ step' = [op |-> "leave", ids |-> ids] /\ version < MaxVersion
  BY DEF SendFailures, Between
<1>2. UNCHANGED <<disk, native, up, registry, canonical, sessions, history>> /\ phase' = "send"
  BY DEF SendFailures
<1>3. Registry' /\ History' /\ World' /\ Characters'
  BY <1>1, <1>2, DataUnchanged DEF sessions
<1>4. step'.op = "leave" /\ step'.ids = ids
  BY <1>1
<1>5. Shape'
  <2>1. ids \subseteq PlayerIds
    BY DEF IInv, Shape, IsPartial
  <2>2. step' \in [op : Operations, ids : SUBSET PlayerIds]
    BY <1>1, <2>1 DEF Operations
  <2> QED
    BY <1>1, <1>2, <1>4, <2>2 DEF IInv, Shape, sessions, canonical, registry
<1>6. Steps'
  BY <1>2, <1>4 DEF Steps, sessions
<1>7. Clocks'
  BY <1>2 DEF SendFailures, clock, IInv, Clocks, canonical, Latest
<1> QED
  BY <1>3, <1>5, <1>6, <1>7 DEF IInv

LEMMA PumpEndsHolds ==
  ASSUME IInv, PumpEnds
  PROVE  IInv'
<1>1. up /\ step = Idle /\ step' = step
  BY DEF PumpEnds, Between
<1>2. UNCHANGED <<disk, native, up, registry, canonical, sessions, history>> /\ phase' = "serve"
  BY DEF PumpEnds
<1>3. Registry' /\ History' /\ World' /\ Characters'
  BY <1>1, <1>2, DataUnchanged, IdleRegistry DEF sessions
<1>4. Shape'
  BY <1>1, <1>2 DEF IInv, Shape, sessions, canonical, registry
<1>5. Steps'
  BY <1>1 DEF Steps, Idle
<1>6. Clocks'
  BY <1>2 DEF PumpEnds, IInv, Clocks, canonical, Latest
<1> QED
  BY <1>3, <1>4, <1>5, <1>6 DEF IInv

LEMMA StutterHolds ==
  ASSUME IInv, UNCHANGED vars
  PROVE  IInv'
<1> USE DEF vars, disk, clock, registry, canonical, sessions, history
<1>1. Shape' /\ Steps'
  BY DEF IInv, Shape, Steps, Established, Stamp
<1>2. Registry' /\ Base' = Base
  BY DEF IInv, Registry, Registered, Marked, Established, WellFormed, Base
<1>3. History'
  BY Zenon DEF IInv, History, Established
<1>4. Good(worldFile)' /\ (up => Good(prefix)')
  BY DEF IInv, World, Characters, Good, ChainOK, ValidPrefix, LatestFits, Survives, Before,
         LatestPlayers, Latest, Checksum
<1>5. World'
  BY <1>2, <1>4 DEF IInv, World, Owned, LatestPlayers, Latest
<1>6. Clocks'
  BY DEF IInv, Clocks, Latest
<1>7. Characters'
  BY <1>2, <1>4 DEF IInv, Characters, Owned, LatestPlayers, Latest, Established, Before
<1> QED
  BY <1>1, <1>2, <1>3, <1>5, <1>6, <1>7 DEF IInv

-----------------------------------------------------------------------------
(* The end of the process. *)

LEMMA CrashHolds ==
  ASSUME IInv, Crash
  PROVE  IInv'
BY DownAlone DEF Crash, disk, history

\* The records that savePlayers() writes.
LEMMA SavedRecords ==
  ASSUME IInv, up, NEW ids, ids \subseteq DOMAIN players
  PROVE  /\ DOMAIN Saved(ids) = DOMAIN records
         /\ Registered(Saved(ids), nextPlayer - 1)
         /\ Established(Saved(ids)) = Established(records)
         /\ \A id \in DOMAIN records : Saved(ids)[id].owner = records[id].owner
         /\ \A id \in DOMAIN records : id \notin ids => Saved(ids)[id] = records[id]
         /\ \A id \in ids \cap Established(records) : Saved(ids)[id].saved = Stamp(players[id])
<1> DEFINE rs == Saved(ids)
<1>1. DOMAIN rs = DOMAIN records
  BY DEF Saved
<1>2. ASSUME NEW id \in DOMAIN records
      PROVE  /\ rs[id] \in Records /\ rs[id].owner = records[id].owner
             /\ rs[id].lifecycle = records[id].lifecycle
             /\ rs[id].lifecycle = "established" <=> rs[id].saved # Unsaved
             /\ id \notin ids => rs[id] = records[id]
             /\ id \in ids \cap Established(records) => rs[id].saved = Stamp(players[id])
  <2>1. /\ records[id] \in Records
        /\ records[id].lifecycle = "established" <=> records[id].saved # Unsaved
    BY DEF IInv, Registry, Registered, IsPartial, Marked
  <2>2. CASE id \in ids \cap Established(records)
    <3>1. rs[id] = [records[id] EXCEPT !.saved = Stamp(players[id])]
      BY <2>2 DEF Saved
    <3>2. players[id] \in Stamps
      BY <2>2 DEF IInv, Shape, IsPartial
    <3>3. /\ Stamp(players[id]) \in [epoch : 0 .. MaxRevision, revision : 0 .. MaxRevision]
          /\ Stamp(players[id]) # Unsaved
      BY <3>2 DEF Stamp, Stamps, Unsaved
    <3> HIDE DEF rs
    <3>4. /\ rs[id].owner = records[id].owner /\ rs[id].lifecycle = records[id].lifecycle
          /\ rs[id].saved = Stamp(players[id]) /\ rs[id] \in Records
      BY <2>1, <3>1, <3>3 DEF Records
    <3> QED
      BY <2>2, <3>3, <3>4 DEF Established
  <2>3. CASE id \notin ids \cap Established(records)
    <3>1. rs[id] = records[id]
      BY <2>3 DEF Saved
    <3> QED
      BY <2>1, <2>3, <3>1
  <2> QED
    BY <2>2, <2>3
<1> HIDE DEF rs
<1>3. Registered(rs, nextPlayer - 1)
  BY <1>1, <1>2 DEF IInv, Registry, Registered, IsPartial, Marked
<1>4. Established(rs) = Established(records)
  BY <1>1, <1>2 DEF Established
<1>5. \A id \in ids \cap Established(records) : rs[id].saved = Stamp(players[id])
  BY <1>2 DEF Established
<1> QED
  BY <1>1, <1>2, <1>3, <1>4, <1>5 DEF rs

LEMMA StopHolds ==
  ASSUME IInv, NEW written, Stop(written)
  PROVE  IInv'
<1>1. up /\ Down /\ UNCHANGED <<worldFile, native, last, promised, refused>>
  BY DEF Stop, Between, history
<1>2. CASE identityFile' = identityFile
  BY <1>1, <1>2, DownAlone
<1>3. CASE identityFile' = durableRecords(Saved(DOMAIN players))
  <2>1. PICK rs : rs = Saved(DOMAIN players)
    OBVIOUS
  <2>2. /\ DOMAIN rs = DOMAIN records /\ Registered(rs, nextPlayer - 1)
        /\ Established(rs) = Established(records)
        /\ \A id \in DOMAIN records : rs[id].owner = records[id].owner
    BY <1>1, <2>1, SavedRecords
  <2>3. /\ DOMAIN identityFile' = DOMAIN rs
        /\ IsPartial(identityFile', Records) /\ WellFormed(identityFile')
        /\ Established(identityFile') = Established(rs)
        /\ \A id \in DOMAIN rs : identityFile'[id].owner = rs[id].owner
    BY <1>3, <2>1, <2>2, DurableRecords DEF Registered
  <2>4. \E n \in PlayerIds \cup {0} : DOMAIN identityFile' = 1 .. n
    BY <2>2, <2>3 DEF Registered
  <2>5. Established(identityFile) \subseteq Established(identityFile')
    BY <1>1, <2>2, <2>3 DEF IInv, Registry
  <2>6. Owned(LatestPlayers(worldFile'), identityFile')
    <3>1. Owned(LatestPlayers(worldFile), records)
      BY <1>1, OwnedOnDisk DEF IInv, World
    <3> QED
      BY <1>1, <2>2, <2>3, <3>1 DEF Owned
  <2>7. refused' = FALSE
    BY <1>1, Zenon DEF IInv, History
  <2>8. Good(worldFile)'
    BY <1>1 DEF IInv, World, Good, ChainOK, ValidPrefix, LatestFits, Survives, Before, LatestPlayers,
           Latest, Checksum
  <2> QED
    BY <1>1, <2>3, <2>4, <2>5, <2>6, <2>7, <2>8, DownHolds
<1> QED
  BY <1>2, <1>3 DEF Stop

-----------------------------------------------------------------------------
(* The steps of a handler that write the identities. *)

\* Rolling back leaves what the operation began with, or changes nothing.
LEMMA RolledBackHolds ==
  ASSUME IInv, up, committed # Nothing, NEW written, RolledBack(written),
         UNCHANGED <<worldFile, native, up, canonical, online, history>>,
         \/ step'.op \in {"create", "undoCreate", "leave"}
         \/ Established(records) \subseteq Established(committed.records)
  PROVE  /\ Registry' /\ History' /\ World' /\ Characters'
<1>1. CASE written
  <2>0. PICK rs : rs = committed.records
    OBVIOUS
  <2>1. /\ identityFile' = durableRecords(rs) /\ records' = rs
        /\ nextPlayer' = committed.nextPlayer /\ committed' = Nothing
    BY <1>1, <2>0 DEF RolledBack
  <2>2. nextPlayer' \in Nat \ {0} /\ Registered(rs, nextPlayer' - 1)
    BY <2>0, <2>1 DEF IInv, Registry
  <2>3. Registry'
    BY <2>1, <2>2, RegistryWritten
  <2>4. Base' = Base /\ Base = rs
    BY <2>0, <2>1 DEF Base
  <2>5. /\ DOMAIN identityFile' = DOMAIN rs /\ Established(identityFile') = Established(rs)
        /\ \A id \in DOMAIN rs : identityFile'[id].owner = rs[id].owner
    BY <2>1, <2>2, DurableRecords DEF Registered
  <2> QED
    BY <2>3, <2>4, <2>5, WorldUnchanged
<1>2. CASE ~written
  <2>1. UNCHANGED <<identityFile, registry>>
    BY <1>2 DEF RolledBack
  <2> QED
    BY <2>1, DataUnchanged DEF disk
<1> QED
  BY <1>1, <1>2

LEMMA JoinRolledBackHolds ==
  ASSUME IInv, NEW written, JoinRolledBack(written)
  PROVE  IInv'
<1>1. /\ up /\ step.op = "undoJoin" /\ step' = Idle /\ committed # Nothing
      /\ UNCHANGED <<worldFile, native, up, phase, clock, canonical, sessions, history>>
  BY DEF JoinRolledBack, IInv, Steps
<1>2. Established(records) \subseteq Established(committed.records)
  BY <1>1 DEF IInv, Registry
<1>3. Registry' /\ History' /\ World' /\ Characters'
  BY <1>1, <1>2, RolledBackHolds DEF JoinRolledBack, sessions
<1>4. Shape'
  <2>1. step' \in [op : Operations, ids : SUBSET PlayerIds]
    BY <1>1 DEF Idle, Operations
  <2> QED
    BY <1>1, <2>1 DEF IInv, Shape, sessions, canonical
<1>5. Steps'
  BY <1>1 DEF Steps, Idle
<1>6. Clocks'
  BY <1>1 DEF IInv, Clocks, canonical, clock, Latest
<1> QED
  BY <1>3, <1>4, <1>5, <1>6 DEF IInv

LEMMA CreationRolledBackHolds ==
  ASSUME IInv, NEW written, CreationRolledBack(written)
  PROVE  IInv'
<1>1. /\ up /\ step.op = "undoCreate" /\ step' = [step EXCEPT !.op = "leave"]
      /\ committed # Nothing /\ step.ids \subseteq online
      /\ UNCHANGED <<worldFile, native, up, phase, clock, canonical, sessions, history>>
  BY DEF CreationRolledBack, IInv, Steps
<1>2. /\ step' \in [op : Operations, ids : SUBSET PlayerIds]
      /\ step'.op = "leave" /\ step'.ids = step.ids
  BY <1>1 DEF IInv, Shape, Operations
<1>3. Registry' /\ History' /\ World' /\ Characters'
  BY <1>1, <1>2, RolledBackHolds DEF CreationRolledBack, sessions
<1>4. Shape'
  <2>1. step # Idle
    BY <1>1 DEF Idle
  <2> QED
    BY <1>1, <1>2, <2>1 DEF IInv, Shape, sessions, canonical
<1>5. Steps'
  BY <1>1, <1>2 DEF Steps, sessions
<1>6. Clocks'
  BY <1>1 DEF IInv, Clocks, canonical, clock, Latest
<1> QED
  BY <1>3, <1>4, <1>5, <1>6 DEF IInv

\* A new identity, and an established character, can be taken back.
LEMMA PreparedHolds ==
  ASSUME IInv, up, committed = Nothing, NEW rs, records' = rs,
         identityFile' = durableRecords(rs),
         committed' = [records |-> records, nextPlayer |-> nextPlayer],
         nextPlayer' \in Nat \ {0}, Registered(rs, nextPlayer' - 1),
         \A id \in DOMAIN records :
           /\ id \in DOMAIN rs /\ rs[id].owner = records[id].owner
           /\ id \in Established(records) => rs[id] = records[id],
         step'.op = "create" \/ Established(rs) \subseteq Established(records),
         UNCHANGED <<worldFile, native, up, canonical, online, history>>
  PROVE  /\ Registry' /\ History' /\ World' /\ Characters' /\ committed' # Nothing
<1>1. nextPlayer \in Nat \ {0} /\ Registered(records, nextPlayer - 1)
  BY DEF IInv, Registry
<1>2. PICK old : old = records
  OBVIOUS
<1>3. committed'.records = old /\ committed'.nextPlayer = nextPlayer /\ committed' # Nothing
  BY <1>1, <1>2 DEF Nothing
<1>4. /\ DOMAIN identityFile' = DOMAIN rs
      /\ IsPartial(identityFile', Records) /\ WellFormed(identityFile')
      /\ Established(identityFile') = Established(rs)
      /\ \A id \in DOMAIN rs : identityFile'[id].owner = rs[id].owner
  BY DurableRecords DEF Registered
<1>5. \E n \in PlayerIds \cup {0} : DOMAIN identityFile' = 1 .. n
  BY <1>4 DEF Registered
<1>6. Registry'
  BY <1>1, <1>2, <1>3, <1>4, <1>5 DEF Registry, Registered, Marked, WellFormed, Established
<1>7. Base = old /\ Base' = old
  BY <1>2, <1>3 DEF Base
<1>8. Established(old) \subseteq Established(rs)
  BY <1>2 DEF Established
<1>9. History' /\ World' /\ Characters'
  BY <1>2, <1>4, <1>6, <1>7, <1>8, WorldUnchanged
<1> QED
  BY <1>3, <1>6, <1>9

LEMMA JoinBeginsHolds ==
  ASSUME IInv, NEW owner \in Owners, JoinBegins(owner)
  PROVE  IInv'
<1> DEFINE new == [owner |-> owner, lifecycle |-> "fresh", saved |-> Unsaved]
<1>1. /\ up /\ phase = "serve" /\ step = Idle /\ committed = Nothing
      /\ Cardinality(DOMAIN records) < MaximumPlayerIdentityRecords
      /\ version < MaxVersion
      /\ records' = Put(records, nextPlayer, new)
      /\ committed' = [records |-> records, nextPlayer |-> nextPlayer]
      /\ nextPlayer' = nextPlayer + 1
      /\ step' = [op |-> "join", ids |-> {nextPlayer}]
      /\ UNCHANGED <<worldFile, native, up, phase, clock, canonical, sessions, history>>
  BY DEF JoinBegins, Between, RegistryIdle
<1>2. PICK rs : rs = Put(records, nextPlayer, new)
  OBVIOUS
<1>3. identityFile' = durableRecords(rs)
  BY <1>1, <1>2 DEF JoinBegins
<1>4. nextPlayer \in Nat \ {0} /\ Registered(records, nextPlayer - 1)
  BY <1>1 DEF IInv, Registry
<1>5. nextPlayer \in PlayerIds
  <2>1. DOMAIN records = 1 .. nextPlayer - 1
    BY <1>4 DEF Registered
  <2>2. Cardinality(DOMAIN records) = nextPlayer - 1
    BY <1>4, <2>1, FS_Interval
  <2> QED
    BY <1>1, <1>4, <2>2 DEF PlayerIds
<1>6. /\ new \in Records /\ new.owner = owner /\ new.lifecycle = "fresh" /\ new.saved = Unsaved
  BY DEF Records, Unsaved
<1> HIDE DEF new
<1>7. /\ DOMAIN rs = DOMAIN records \cup {nextPlayer}
      /\ rs[nextPlayer] = new
      /\ \A id \in DOMAIN records : rs[id] = records[id]
  <2>1. nextPlayer \notin DOMAIN records
    BY <1>4 DEF Registered
  <2> QED
    BY <1>2, <2>1 DEF Put
<1>8. Registered(rs, nextPlayer)
  <2>1. DOMAIN rs = 1 .. nextPlayer
    BY <1>4, <1>7 DEF Registered
  <2>2. IsPartial(rs, Records)
    BY <1>4, <1>5, <1>6, <1>7 DEF Registered, IsPartial
  <2>3. Marked(rs)
    BY <1>4, <1>6, <1>7 DEF Registered, Marked
  <2> QED
    BY <1>5, <2>1, <2>2, <2>3 DEF Registered
<1>9. nextPlayer' \in Nat \ {0} /\ Registered(rs, nextPlayer' - 1)
  BY <1>1, <1>4, <1>8
<1>10. Established(rs) \subseteq Established(records)
  BY <1>6, <1>7 DEF Established
<1>11. Registry' /\ History' /\ World' /\ Characters' /\ committed' # Nothing
  <2>1. \A id \in DOMAIN records :
          /\ id \in DOMAIN rs /\ rs[id].owner = records[id].owner
          /\ id \in Established(records) => rs[id] = records[id]
    BY <1>7
  <2>2. UNCHANGED <<worldFile, native, up, canonical, online, history>>
    BY <1>1 DEF sessions
  <2>3. records' = rs
    BY <1>1, <1>2
  <2> QED
    BY <1>1, <1>3, <1>9, <1>10, <2>1, <2>2, <2>3, PreparedHolds
<1>12. Shape'
  <2>1. step' \in [op : Operations, ids : SUBSET PlayerIds] /\ step'.op = "join"
    BY <1>1, <1>5 DEF Operations
  <2> QED
    BY <1>1, <2>1 DEF IInv, Shape, sessions, canonical
<1>13. Steps'
  <2>1. /\ step'.op = "join" /\ step'.ids = {nextPlayer}
        /\ committed'.nextPlayer = nextPlayer
    BY <1>1
  <2>2. records'[nextPlayer].lifecycle = "fresh"
    BY <1>1, <1>2, <1>6, <1>7
  <2> QED
    BY <1>1, <1>11, <2>1, <2>2 DEF Steps
<1>14. Clocks'
  BY <1>1 DEF IInv, Clocks, canonical, clock, Latest
<1> QED
  BY <1>11, <1>12, <1>13, <1>14 DEF IInv

LEMMA CreationCompletesHolds ==
  ASSUME IInv, NEW id \in PlayerIds, CreationCompletes(id)
  PROVE  IInv'
<1> DEFINE stamp == Stamp(Moved(players, {id})[id])
<1>1. /\ up /\ phase = "serve" /\ step = Idle /\ committed = Nothing
      /\ id \in online /\ records[id].lifecycle = "creating"
      /\ players[id].revision < MaxRevision /\ version < MaxVersion
      /\ committed' = [records |-> records, nextPlayer |-> nextPlayer]
      /\ step' = [op |-> "create", ids |-> {id}]
      /\ UNCHANGED <<worldFile, native, up, phase, clock, nextPlayer, canonical, sessions, history>>
  BY DEF CreationCompletes, Between, RegistryIdle
<1>2. PICK rs : rs = [records EXCEPT ![id].lifecycle = "established", ![id].saved = stamp]
  OBVIOUS
<1>3. records' = rs /\ identityFile' = durableRecords(rs)
  BY <1>2 DEF CreationCompletes
<1>4. nextPlayer \in Nat \ {0} /\ Registered(records, nextPlayer - 1)
  BY <1>1 DEF IInv, Registry
<1>5. id \in DOMAIN players /\ id \in DOMAIN records
  <2>1. id \in DOMAIN players
    BY <1>1 DEF IInv, Shape
  <2>2. Owned(players, records)
    BY <1>1, OwnedOnDisk DEF IInv, Characters
  <2> QED
    BY <2>1, <2>2 DEF Owned
<1>6. /\ stamp \in [epoch : 0 .. MaxRevision, revision : 0 .. MaxRevision]
      /\ stamp # Unsaved
  <2>1. players[id] \in Stamps
    BY <1>5 DEF IInv, Shape, IsPartial
  <2>2. Moved(players, {id})[id] = [players[id] EXCEPT !.revision = @ + 1]
    BY <1>5 DEF Moved
  <2>3. stamp = [epoch |-> players[id].epoch, revision |-> players[id].revision + 1]
    BY <2>1, <2>2 DEF Stamp, Stamps
  <2> HIDE DEF stamp
  <2> QED
    BY <1>1, <2>1, <2>3 DEF Stamps, Unsaved
<1> HIDE DEF stamp
<1>7. DOMAIN rs = DOMAIN records /\ \A x \in DOMAIN records \ {id} : rs[x] = records[x]
  BY <1>2
<1>8. records[id] \in Records
  BY <1>4, <1>5 DEF Registered, IsPartial
<1>9. /\ rs[id] \in Records /\ rs[id].owner = records[id].owner
      /\ rs[id].lifecycle = "established" /\ rs[id].saved = stamp
  BY <1>2, <1>5, <1>6, <1>8 DEF Records
<1>10. Registered(rs, nextPlayer - 1)
  <2>1. IsPartial(rs, Records)
    BY <1>4, <1>7, <1>9 DEF Registered, IsPartial
  <2>2. Marked(rs)
    BY <1>4, <1>6, <1>7, <1>9 DEF Registered, Marked
  <2> QED
    BY <1>4, <1>7, <2>1, <2>2 DEF Registered
<1>11. step'.op = "create" /\ step'.ids = {id}
  BY <1>1
<1>12. Registry' /\ History' /\ World' /\ Characters' /\ committed' # Nothing
  <2>1. \A x \in DOMAIN records :
          /\ x \in DOMAIN rs /\ rs[x].owner = records[x].owner
          /\ x \in Established(records) => rs[x] = records[x]
    BY <1>1, <1>7, <1>9 DEF Established
  <2>2. UNCHANGED <<worldFile, native, up, canonical, online, history>>
    BY <1>1 DEF sessions
  <2>3. nextPlayer' \in Nat \ {0} /\ Registered(rs, nextPlayer' - 1)
    BY <1>1, <1>4, <1>10
  <2> QED
    BY <1>1, <1>3, <1>11, <2>1, <2>2, <2>3, PreparedHolds
<1>13. Shape'
  <2>1. step' \in [op : Operations, ids : SUBSET PlayerIds]
    BY <1>1 DEF Operations
  <2> QED
    BY <1>1, <1>11, <2>1 DEF IInv, Shape, sessions, canonical
<1>14. Steps'
  <2>1. Established(records') \subseteq Established(committed'.records) \cup {id}
    BY <1>1, <1>3, <1>7 DEF Established
  <2> QED
    BY <1>1, <1>11, <1>12, <2>1 DEF Steps, sessions, canonical, Established
<1>15. Clocks'
  BY <1>1 DEF IInv, Clocks, canonical, clock, Latest
<1> QED
  BY <1>12, <1>13, <1>14, <1>15 DEF IInv

LEMMA CreationAdvancesHolds ==
  ASSUME IInv, NEW id \in PlayerIds, CreationAdvances(id)
  PROVE  IInv'
<1>1. /\ up /\ phase = "serve" /\ step = Idle /\ committed = Nothing
      /\ records[id].lifecycle = "fresh"
      /\ UNCHANGED <<disk, native, up, phase, step, clock, nextPlayer, committed, canonical, sessions,
                     history>>
  BY DEF CreationAdvances, Between, RegistryIdle
<1>2. PICK rs : rs = [records EXCEPT ![id].lifecycle = "creating"]
  OBVIOUS
<1>3. records' = rs
  BY <1>2 DEF CreationAdvances
<1>4. nextPlayer \in Nat \ {0} /\ Registered(records, nextPlayer - 1)
  BY <1>1 DEF IInv, Registry
<1>5. /\ DOMAIN rs = DOMAIN records
      /\ \A x \in DOMAIN records : /\ rs[x] \in Records /\ rs[x].owner = records[x].owner
                                   /\ rs[x].saved = records[x].saved
                                   /\ x # id => rs[x] = records[x]
                                   /\ x = id => rs[x].lifecycle = "creating"
  <2>1. \A x \in DOMAIN records : records[x] \in Records
    BY <1>4 DEF Registered, IsPartial
  <2> QED
    BY <1>2, <2>1 DEF Records
<1>6. Established(rs) = Established(records) /\ \A x \in Established(records) : rs[x] = records[x]
  BY <1>1, <1>5 DEF Established
<1>7. Registered(rs, nextPlayer - 1)
  <2>1. IsPartial(rs, Records)
    BY <1>4, <1>5 DEF Registered, IsPartial
  <2>2. Marked(rs)
    BY <1>1, <1>4, <1>5 DEF Registered, Marked
  <2> QED
    BY <1>4, <1>5, <2>1, <2>2 DEF Registered
<1>8. identityFile' = identityFile /\ worldFile' = worldFile
  BY <1>1 DEF disk
<1>9. Registry'
  <2>1. /\ IsPartial(identityFile', Records) /\ WellFormed(identityFile)'
        /\ \E n \in PlayerIds \cup {0} : DOMAIN identityFile' = 1 .. n
        /\ DOMAIN identityFile' = DOMAIN records'
        /\ Established(identityFile') = Established(records')
        /\ \A x \in DOMAIN records' : identityFile'[x].owner = records'[x].owner
    BY <1>1, <1>3, <1>5, <1>6, <1>8 DEF IInv, Registry, WellFormed
  <2> QED
    BY <1>1, <1>3, <1>4, <1>7, <2>1 DEF Registry, Registered, Marked, Established
<1>10. Base = records /\ Base' = rs
  BY <1>1, <1>3 DEF Base
<1>11. History' /\ World' /\ Characters'
  <2>1. \A x \in DOMAIN Base' : x \in DOMAIN identityFile' /\ identityFile'[x].owner = Base'[x].owner
    BY <1>1, <1>3, <1>9, <1>10 DEF Registry
  <2>2. Established(Base') \subseteq Established(identityFile')
    BY <1>1, <1>6, <1>8, <1>10 DEF IInv, Registry
  <2>3. /\ \A x \in DOMAIN Base : x \in DOMAIN Base' /\ Base'[x].owner = Base[x].owner
        /\ \A x \in Established(Base) : x \in Established(Base') /\ (x \in online \/ Base'[x] = Base[x])
        /\ Established(Base') \subseteq Established(Base)
    BY <1>5, <1>6, <1>10
  <2> QED
    BY <1>1, <1>8, <1>9, <2>1, <2>2, <2>3, WorldUnchanged DEF sessions
<1>12. Shape'
  BY <1>1 DEF IInv, Shape, sessions, canonical
<1>13. Steps'
  BY <1>1 DEF Steps, Idle
<1>14. Clocks'
  BY <1>1 DEF IInv, Clocks, canonical, clock, Latest
<1> QED
  BY <1>9, <1>11, <1>12, <1>13, <1>14 DEF IInv

LEMMA SavePlayersHolds ==
  ASSUME IInv, NEW written, SavePlayers(written)
  PROVE  IInv'
<1>1. up /\ step.op = "leave" /\ UNCHANGED <<worldFile, native, history>>
  BY DEF SavePlayers
<1>2. CASE RegistryIdle /\ (written \/ step.ids \cap Established(records) = {})
  <2>1. /\ committed = Nothing
        /\ records' = Saved(step.ids)
        /\ identityFile' = IF step.ids \cap Established(records) = {} THEN identityFile
                           ELSE durableRecords(records')
        /\ step' = [step EXCEPT !.op = "hide"]
        /\ UNCHANGED <<up, phase, clock, nextPlayer, committed, canonical, sessions>>
    BY <1>2 DEF SavePlayers, RegistryIdle
  <2>2. PICK rs : rs = Saved(step.ids)
    OBVIOUS
  <2>3. step.ids \subseteq online /\ step.ids \subseteq DOMAIN players
    BY <1>1 DEF IInv, Steps, Shape
  <2>4. /\ DOMAIN rs = DOMAIN records
        /\ Registered(rs, nextPlayer - 1)
        /\ Established(rs) = Established(records)
        /\ \A id \in DOMAIN records : rs[id].owner = records[id].owner
        /\ \A id \in DOMAIN records : id \notin step.ids => rs[id] = records[id]
        /\ \A id \in step.ids \cap Established(records) : rs[id].saved = Stamp(players[id])
    BY <1>1, <2>2, <2>3, SavedRecords
  <2>5. nextPlayer \in Nat \ {0}
    BY <1>1 DEF IInv, Registry
  <2>6. /\ DOMAIN identityFile' = DOMAIN rs /\ Established(identityFile') = Established(rs)
        /\ \A id \in DOMAIN rs : identityFile'[id].owner = rs[id].owner
        /\ Registry'
    <3>1. CASE step.ids \cap Established(records) = {}
      <4>1. identityFile' = identityFile /\ records' = rs
        BY <2>1, <2>2, <3>1
      <4>2. /\ DOMAIN identityFile = DOMAIN rs /\ Established(identityFile) = Established(rs)
            /\ \A id \in DOMAIN rs : identityFile[id].owner = rs[id].owner
            /\ IsPartial(identityFile, Records) /\ WellFormed(identityFile)
            /\ \E n \in PlayerIds \cup {0} : DOMAIN identityFile = 1 .. n
        BY <1>1, <2>4 DEF IInv, Registry
      <4>3. Registry'
        <5>1. /\ IsPartial(identityFile', Records) /\ WellFormed(identityFile)'
              /\ \E n \in PlayerIds \cup {0} : DOMAIN identityFile' = 1 .. n
              /\ DOMAIN identityFile' = DOMAIN records'
              /\ Established(identityFile') = Established(records')
              /\ \A id \in DOMAIN records' : identityFile'[id].owner = records'[id].owner
          BY <4>1, <4>2 DEF WellFormed
        <5>2. committed' = Nothing /\ nextPlayer' = nextPlayer
          BY <2>1
        <5> QED
          BY <2>4, <2>5, <4>1, <5>1, <5>2 DEF Registry, Registered, Marked, Established
      <4> QED
        BY <4>1, <4>2, <4>3
    <3>2. CASE step.ids \cap Established(records) # {}
      <4>1. identityFile' = durableRecords(rs) /\ records' = rs
        BY <2>1, <2>2, <3>2
      <4>2. Registry'
        BY <1>1, <2>1, <2>4, <2>5, <4>1, RegistryWritten
      <4> QED
        BY <2>4, <4>1, <4>2, DurableRecords DEF Registered
    <3> QED
      BY <3>1, <3>2
  <2>7. Base = records /\ Base' = rs
    BY <2>1, <2>2 DEF Base
  <2>8. History' /\ World' /\ Characters'
    <3>1. /\ \A id \in DOMAIN Base : id \in DOMAIN Base' /\ Base'[id].owner = Base[id].owner
          /\ \A id \in Established(Base) : /\ id \in Established(Base')
                                           /\ id \in online \/ Base'[id] = Base[id]
          /\ Established(Base') \subseteq Established(Base)
      BY <2>3, <2>4, <2>7 DEF Established
    <3> QED
      BY <1>1, <2>1, <2>6, <2>7, <3>1, WorldUnchanged DEF sessions
  <2>9. /\ step' \in [op : Operations, ids : SUBSET PlayerIds]
        /\ step'.op = "hide" /\ step'.ids = step.ids
    BY <2>1 DEF IInv, Shape, Operations
  <2>10. Shape'
    <3>1. step # Idle
      BY <1>1 DEF Idle
    <3> QED
      BY <1>1, <2>1, <2>9, <3>1 DEF IInv, Shape, sessions, canonical
  <2>11. Steps'
    <3>1. \A id \in step.ids \cap Established(records') : records'[id].saved = Stamp(players'[id])
      BY <2>1, <2>2, <2>4 DEF canonical
    <3> QED
      BY <2>1, <2>3, <2>9, <3>1 DEF Steps, sessions, Established, Stamp
  <2>12. Clocks'
    BY <1>1, <2>1 DEF IInv, Clocks, canonical, clock, Latest
  <2> QED
    BY <2>6, <2>8, <2>10, <2>11, <2>12 DEF IInv
<1>3. CASE ~(RegistryIdle /\ (written \/ step.ids \cap Established(records) = {}))
  <2>1. Down /\ identityFile' = identityFile
    BY <1>3 DEF SavePlayers
  <2> QED
    BY <1>1, <2>1, DownAlone DEF history
<1> QED
  BY <1>2, <1>3

-----------------------------------------------------------------------------
(* The steps of a handler that write the world. *)

\* No character gets a record that it had before.
Grows == \A id \in DOMAIN last : last'[id] # last[id] => Before(last[id], last'[id])

\* The records of a character are ordered.
LEMMA BeforeTotal ==
  ASSUME NEW p \in [epoch : Nat, revision : Nat], NEW q \in [epoch : Nat, revision : Nat],
         ~Before(p, q), p # q
  PROVE  Before(q, p)
<1>1. p.epoch \in Nat /\ q.epoch \in Nat /\ p.revision \in Nat /\ q.revision \in Nat
  OBVIOUS
<1>2. p.epoch # q.epoch \/ p.revision # q.revision
  OBVIOUS
<1> QED
  BY <1>1, <1>2 DEF Before

\* What is acknowledged is not older than what was.
LEMMA GrowsCommitted ==
  ASSUME IInv, up, NEW v, NEW t, NEW a, NEW ps, Candidate(v, t, a, ps),
         Persist(v, t, a, ps, "ok"), Apply(v, t, a, ps), native' = native
  PROVE  Grows
<1>1. Taken(v, t, a, ps)
  BY Acknowledged
<1>2. SUFFICES ASSUME NEW id \in DOMAIN last, last'[id] # last[id]
               PROVE  Before(last[id], last'[id])
  BY DEF Grows
<1>3. last'[id] = IF id \in DOMAIN ps THEN Stamp(ps[id]) ELSE last[id]
  BY <1>1 DEF Taken
<1>4. id \in DOMAIN ps /\ last'[id] = Stamp(ps[id])
  BY <1>2, <1>3
<1>5. ps[id] \in Stamps /\ ~Before(ps[id], last[id])
  BY <1>4 DEF Candidate, IsPartial
<1>6. /\ Stamp(ps[id]) \in [epoch : Nat, revision : Nat]
      /\ ~Before(Stamp(ps[id]), last[id])
  BY <1>5, NotBefore DEF Stamp, Before
<1>7. last[id] \in [epoch : Nat, revision : Nat]
  BY DEF IInv, History
<1> QED
  BY <1>2, <1>4, <1>6, <1>7, BeforeTotal

\* What nothing has changed does not go back.
LEMMA GrowsUnchanged ==
  ASSUME last' = last
  PROVE  Grows
BY DEF Grows

\* A transaction between two pumps carries the tick that is next.
LEMMA ServeCandidate ==
  ASSUME IInv, up, phase = "serve", version < MaxVersion, NEW ps, IsPartial(ps, Stamps),
         \A id \in DOMAIN ps \cap Established(records) :
           id \in DOMAIN Base /\ ps[id].owner = Base[id].owner,
         \A id \in DOMAIN last \cap DOMAIN ps : ~Before(ps[id], last[id])
  PROVE  Candidate(version + 1, pumpTick, advanced, ps)
<1>1. /\ version \in Nat /\ pumpTick \in Nat /\ tick \in Nat /\ advanced \in Nat
      /\ pumpTick = tick /\ advanced < tick /\ (native => tick = advanced + 1)
      /\ prefix # <<>> => Latest(prefix).tick <= tick
  BY DEF IInv, Shape, Clocks
<1>2. version + 1 \in Nat /\ version <= version + 1 /\ version + 1 <= MaxVersion
  BY <1>1
<1>3. pumpTick <= tick /\ advanced <= pumpTick /\ (native => pumpTick <= advanced + 1)
  BY <1>1
<1> QED
  BY <1>1, <1>2, <1>3 DEF Candidate

\* Some of the players, as they are.
LEMMA SomePlayers ==
  ASSUME IInv, up, NEW ps, DOMAIN ps \subseteq DOMAIN players,
         \A id \in DOMAIN ps : ps[id] = players[id]
  PROVE  /\ IsPartial(ps, Stamps) /\ Owned(ps, Base)
         /\ \A id \in DOMAIN ps \cap Established(records) :
              id \in DOMAIN Base /\ ps[id].owner = Base[id].owner
         /\ \A id \in DOMAIN last \cap DOMAIN ps : ~Before(ps[id], last[id])
<1>1. IsPartial(ps, Stamps)
  BY DEF IInv, Shape, IsPartial
<1>2. Owned(ps, Base)
  BY DEF IInv, Characters, Owned
<1>3. \A id \in DOMAIN last \cap DOMAIN ps : ~Before(ps[id], last[id])
  BY DEF IInv, Characters
<1> QED
  BY <1>1, <1>2, <1>3 DEF Owned

\* What a commit that leaves the registry alone asks for.
LEMMA SteadyRegistry ==
  ASSUME IInv, up, UNCHANGED <<identityFile, registry, up>>, step = Idle \/ step.op = "hide",
         step' = Idle
  PROVE  /\ Registry' /\ BaseKeeps /\ Base' = Base
         /\ Established(records) \subseteq Established(Base)
<1>1. committed # Nothing => Established(records) \subseteq Established(committed.records)
  BY DEF IInv, Registry, Steps, Idle
<1>2. Established(records) \subseteq Established(Base)
  BY <1>1 DEF Base
<1> QED
  BY <1>1, <1>2, RegistryUnchanged

LEMMA ResumeSessionHolds ==
  ASSUME IInv, NEW id \in PlayerIds, NEW outcome \in Outcomes, ResumeSession(id, outcome)
  PROVE  IInv' /\ Grows
<1> DEFINE v == version + 1
<1>1. /\ up /\ phase = "serve" /\ step = Idle /\ id \in bound \ online /\ version < MaxVersion
      /\ Persist(v, pumpTick, advanced, players, outcome)
      /\ UNCHANGED <<identityFile, native, up, phase, step, clock, registry, bound>>
  BY DEF ResumeSession, Between
<1>2. Candidate(v, pumpTick, advanced, players)
  BY <1>1, SomePlayers, ServeCandidate
<1>3. /\ Registry' /\ BaseKeeps /\ Base' = Base
      /\ Established(records) \subseteq Established(Base)
  BY <1>1, SteadyRegistry
<1>4. Steps'
  BY <1>1 DEF Steps, Idle
<1>5. CASE Committed(Appended(v, pumpTick, advanced, players), outcome)
  <2>1. /\ outcome = "ok" /\ Apply(v, pumpTick, advanced, players)
        /\ online' = online \cup {id}
    BY <1>5 DEF ResumeSession, Committed
  <2>2. PICK ps : ps = players
    OBVIOUS
  <2>3. PICK w : w = v
    OBVIOUS
  <2>4. PICK a : a = advanced
    OBVIOUS
  <2>5. PICK t : t = pumpTick
    OBVIOUS
  <2>6. Candidate(w, t, a, ps) /\ Persist(w, t, a, ps, "ok") /\ Apply(w, t, a, ps)
    BY <1>1, <1>2, <2>1, <2>2, <2>3, <2>4, <2>5
  <2>7. Grows
    BY <1>1, <2>6, GrowsCommitted
  <2>8. Clocks'
    BY <1>1, <2>4, <2>6, ClockCommitted DEF clock
  <2>9. History' /\ World' /\ Characters'
    <3>1. Owned(ps, Base')
      BY <1>1, <1>3, <2>2 DEF IInv, Characters, Owned
    <3>2. \A x \in DOMAIN last \ DOMAIN ps : Base'[x].saved.epoch >= last[x].epoch
      BY <1>1, <1>3, <2>2 DEF IInv, Characters
    <3>3. \A x \in DOMAIN ps \cap Established(Base') :
            x \notin online' => Base'[x].saved.epoch >= ps[x].epoch
      BY <1>1, <1>3, <2>1, <2>2 DEF IInv, Characters
    <3> QED
      BY <1>1, <1>3, <2>6, <3>1, <3>2, <3>3, WriteCommitted
  <2>10. Shape'
    <3>1. players' = players /\ version' = v
      BY <2>1 DEF Apply
    <3>2. v \in 0 .. MaxVersion
      BY <1>1 DEF IInv, Shape
    <3>3. online' \subseteq bound
      BY <1>1, <2>1 DEF IInv, Shape
    <3> QED
      BY <1>1, <3>1, <3>2, <3>3 DEF IInv, Shape
  <2> QED
    BY <1>3, <1>4, <2>7, <2>8, <2>9, <2>10 DEF IInv
<1>6. CASE ~Committed(Appended(v, pumpTick, advanced, players), outcome)
  <2>1. Keep /\ UNCHANGED <<online, last>>
    BY <1>6 DEF ResumeSession, Keep
  <2>2. History' /\ World' /\ Characters'
    BY <1>1, <1>2, <1>3, <2>1, WriteFailed
  <2>3. Shape' /\ Clocks'
    BY <1>1, <2>1 DEF IInv, Shape, Clocks, Keep, canonical, clock, Latest
  <2> QED
    BY <1>3, <1>4, <2>1, <2>2, <2>3, GrowsUnchanged DEF IInv
<1> QED
  BY <1>5, <1>6

LEMMA ExpireSessionHolds ==
  ASSUME IInv, NEW id \in PlayerIds, NEW outcome \in Outcomes, ExpireSession(id, outcome)
  PROVE  IInv' /\ Grows
<1> DEFINE v == version + 1
<1>0. PICK ps : ps = Restrict(players, DOMAIN players \ {id})
  OBVIOUS
<1>1. /\ up /\ phase = "serve" /\ step = Idle /\ id \in bound \ online /\ version < MaxVersion
      /\ Persist(v, pumpTick, advanced, ps, outcome)
      /\ UNCHANGED <<identityFile, native>>
  BY <1>0 DEF ExpireSession, Between
<1>2. /\ DOMAIN ps = DOMAIN players \ {id}
      /\ \A x \in DOMAIN ps : ps[x] = players[x]
  BY <1>0 DEF Restrict
<1>3. /\ IsPartial(ps, Stamps) /\ Owned(ps, Base)
      /\ \A x \in DOMAIN ps \cap Established(records) :
           x \in DOMAIN Base /\ ps[x].owner = Base[x].owner
      /\ \A x \in DOMAIN last \cap DOMAIN ps : ~Before(ps[x], last[x])
  BY <1>1, <1>2, SomePlayers
<1>4. Candidate(v, pumpTick, advanced, ps)
  BY <1>1, <1>3, ServeCandidate
<1>5. CASE Committed(Appended(v, pumpTick, advanced, ps), outcome)
  <2>1. /\ outcome = "ok" /\ Apply(v, pumpTick, advanced, ps)
        /\ bound' = bound \ {id}
        /\ UNCHANGED <<up, phase, step, clock, registry, online>>
    BY <1>0, <1>5 DEF ExpireSession, Committed
  <2>2. /\ Registry' /\ BaseKeeps /\ Base' = Base
        /\ Established(records) \subseteq Established(Base)
    BY <1>1, <2>1, SteadyRegistry
  <2>3. PICK w : w = v
    OBVIOUS
  <2>4. PICK a : a = advanced
    OBVIOUS
  <2>5. PICK t : t = pumpTick
    OBVIOUS
  <2>6. Candidate(w, t, a, ps) /\ Persist(w, t, a, ps, "ok") /\ Apply(w, t, a, ps)
    BY <1>1, <1>4, <2>1, <2>3, <2>4, <2>5
  <2>7. Grows
    BY <1>1, <2>6, GrowsCommitted
  <2>8. Clocks'
    BY <1>1, <2>1, <2>4, <2>6, ClockCommitted DEF clock
  <2>9. History' /\ World' /\ Characters'
    <3>1. Owned(ps, Base')
      BY <1>3, <2>2
    <3>2. ASSUME NEW x \in DOMAIN last \ DOMAIN ps
          PROVE  Base'[x].saved.epoch >= last[x].epoch
      <4>1. CASE x \notin DOMAIN players
        BY <1>1, <2>2, <4>1 DEF IInv, Characters
      <4>2. CASE x \in DOMAIN players
        <5>1. x = id /\ x \notin online
          BY <1>1, <1>2, <4>2
        <5>2. x \in Established(Base) /\ ~Before(players[x], last[x])
          BY <1>1, <4>2 DEF IInv, Characters
        <5>3. Base[x].saved.epoch >= players[x].epoch
          BY <1>1, <4>2, <5>1, <5>2 DEF IInv, Characters
        <5>4. players[x].epoch >= last[x].epoch
          <6>1. players[x] \in Stamps /\ last[x] \in [epoch : Nat, revision : Nat]
            BY <4>2 DEF IInv, Shape, IsPartial, History
          <6> QED
            BY <5>2, <6>1 DEF Before, Stamps
        <5>5. Base[x].saved.epoch \in Nat /\ players[x].epoch \in Nat /\ last[x].epoch \in Nat
          <6>1. Base[x] \in Records
            BY <1>1, <5>2, BaseKept DEF Registered, IsPartial, Established
          <6>2. players[x] \in Stamps /\ last[x] \in [epoch : Nat, revision : Nat]
            BY <4>2 DEF IInv, Shape, IsPartial, History
          <6> QED
            BY <6>1, <6>2 DEF Records, Stamps
        <5> QED
          BY <2>2, <5>3, <5>4, <5>5
      <4> QED
        BY <4>1, <4>2
    <3>3. \A x \in DOMAIN ps \cap Established(Base') :
            x \notin online' => Base'[x].saved.epoch >= ps[x].epoch
      BY <1>1, <1>2, <2>1, <2>2 DEF IInv, Characters
    <3> QED
      BY <1>1, <2>1, <2>2, <2>6, <3>1, <3>2, <3>3, WriteCommitted
  <2>10. Shape'
    <3>1. players' = ps /\ version' = v
      BY <2>1 DEF Apply
    <3>2. v \in 0 .. MaxVersion
      BY <1>1 DEF IInv, Shape
    <3>3. online' \subseteq bound' /\ bound' \subseteq DOMAIN ps
      BY <1>1, <1>2, <2>1 DEF IInv, Shape
    <3> QED
      BY <1>1, <1>3, <2>1, <3>1, <3>2, <3>3 DEF IInv, Shape
  <2>11. Steps'
    BY <1>1, <2>1 DEF Steps, Idle
  <2> QED
    BY <2>2, <2>7, <2>8, <2>9, <2>10, <2>11 DEF IInv
<1>6. CASE ~Committed(Appended(v, pumpTick, advanced, ps), outcome)
  <2>1. Down /\ UNCHANGED <<last, promised>>
    BY <1>0, <1>6 DEF ExpireSession
  <2>2. /\ Good(worldFile)' /\ refused' = FALSE
        /\ Owned(LatestPlayers(worldFile'), identityFile)
    BY <1>1, <1>4, <2>1, Unacknowledged
  <2> QED
    BY <1>1, <2>1, <2>2, DownAfterWrite, GrowsUnchanged
<1> QED
  BY <1>5, <1>6

LEMMA PlayersHiddenHolds ==
  ASSUME IInv, NEW outcome \in Outcomes, PlayersHidden(outcome)
  PROVE  IInv' /\ Grows
<1> DEFINE v == version + 1
<1>1. /\ up /\ step.op = "hide" /\ Persist(v, BarrierTick, advanced, players, outcome)
      /\ UNCHANGED <<identityFile, native>>
  BY DEF PlayersHidden
<1>2. PICK t : t = BarrierTick
  OBVIOUS
<1>3. /\ IsPartial(players, Stamps) /\ Owned(players, Base)
      /\ \A x \in DOMAIN players \cap Established(records) :
           x \in DOMAIN Base /\ players[x].owner = Base[x].owner
      /\ \A x \in DOMAIN last \cap DOMAIN players : ~Before(players[x], last[x])
  BY <1>1, SomePlayers
<1>4. version \in Nat /\ v \in Nat /\ version <= v /\ v <= MaxVersion
  BY <1>1 DEF IInv, Shape, Idle
<1>5. Candidate(v, t, advanced, players)
  <2>1. /\ pumpTick \in Nat /\ tick \in Nat /\ advanced \in Nat /\ pumpTick <= tick
        /\ advanced < tick /\ (native => tick = advanced + 1)
        /\ prefix = <<>> => advanced = 0
        /\ prefix # <<>> => Latest(prefix).tick <= tick /\ Latest(prefix).advanced = advanced
    BY <1>1 DEF IInv, Clocks
  <2>2. prefix # <<>> => Latest(prefix).tick \in Nat /\ Latest(prefix).advanced <= Latest(prefix).tick
    <3>1. SUFFICES ASSUME prefix # <<>>
                   PROVE  Latest(prefix).tick \in Nat /\ Latest(prefix).advanced <= Latest(prefix).tick
      OBVIOUS
    <3>2. Good(prefix)
      BY <1>1 DEF IInv, Characters
    <3>3. Latest(prefix) \in Transactions
      BY <3>1, <3>2 DEF Good, ChainOK, Latest
    <3> QED
      BY <3>1, <3>2, <3>3 DEF Good, LatestFits, Transactions
  <2>3. /\ t \in Nat /\ t <= tick /\ advanced <= t
        /\ prefix # <<>> => Latest(prefix).tick <= t
    BY <1>2, <2>1, <2>2 DEF BarrierTick
  <2> QED
    BY <1>3, <1>4, <2>1, <2>3 DEF Candidate
<1>6. CASE Committed(Appended(v, BarrierTick, advanced, players), outcome)
  <2>1. /\ outcome = "ok" /\ Apply(v, t, advanced, players)
        /\ online' = online \ step.ids /\ step' = Idle
        /\ UNCHANGED <<up, phase, clock, registry, bound>>
    BY <1>2, <1>6 DEF PlayersHidden, Committed
  <2>2. /\ Registry' /\ BaseKeeps /\ Base' = Base
        /\ Established(records) \subseteq Established(Base)
    BY <1>1, <2>1, SteadyRegistry
  <2>3. PICK w : w = v
    OBVIOUS
  <2>4. PICK a : a = advanced
    OBVIOUS
  <2>5. PICK ps : ps = players
    OBVIOUS
  <2>6. Candidate(w, t, a, ps) /\ Persist(w, t, a, ps, "ok") /\ Apply(w, t, a, ps)
    BY <1>1, <1>2, <1>5, <2>1, <2>3, <2>4, <2>5
  <2>7. Grows
    BY <1>1, <2>6, GrowsCommitted
  <2>8. Clocks'
    BY <1>1, <2>1, <2>4, <2>6, ClockCommitted DEF clock
  <2>9. History' /\ World' /\ Characters'
    <3>1. Owned(ps, Base')
      BY <1>3, <2>2, <2>5
    <3>2. \A x \in DOMAIN last \ DOMAIN ps : Base'[x].saved.epoch >= last[x].epoch
      BY <1>1, <2>2, <2>5 DEF IInv, Characters
    <3>3. ASSUME NEW x \in DOMAIN ps \cap Established(Base'), x \notin online'
          PROVE  Base'[x].saved.epoch >= ps[x].epoch
      <4>1. CASE x \notin online
        BY <1>1, <2>2, <2>5, <3>3, <4>1 DEF IInv, Characters
      <4>2. CASE x \in online
        <5>1. x \in step.ids /\ committed = Nothing /\ Base = records
          BY <1>1, <2>1, <3>3, <4>2 DEF IInv, Steps, Base
        <5>2. Base[x].saved = Stamp(players[x])
          BY <1>1, <2>2, <3>3, <5>1 DEF IInv, Steps
        <5>3. Base[x].saved.epoch = players[x].epoch /\ players[x].epoch \in Nat
          BY <1>3, <2>5, <5>2 DEF Stamp, IsPartial, Stamps
        <5> QED
          BY <2>2, <2>5, <5>3
      <4> QED
        BY <4>1, <4>2
    <3> QED
      BY <1>1, <2>1, <2>2, <2>6, <3>1, <3>2, <3>3, WriteCommitted
  <2>10. Shape'
    <3>1. players' = players /\ version' = v
      BY <2>1 DEF Apply
    <3>2. online' \subseteq bound'
      BY <2>1 DEF IInv, Shape
    <3>3. step' \in [op : Operations, ids : SUBSET PlayerIds]
      BY <2>1 DEF Idle, Operations
    <3> QED
      BY <1>1, <1>4, <2>1, <3>1, <3>2, <3>3 DEF IInv, Shape
  <2>11. Steps'
    BY <2>1 DEF Steps, Idle
  <2> QED
    BY <2>2, <2>7, <2>8, <2>9, <2>10, <2>11 DEF IInv
<1>7. CASE ~Committed(Appended(v, BarrierTick, advanced, players), outcome)
  <2>1. Down /\ UNCHANGED <<last, promised>>
    BY <1>7 DEF PlayersHidden
  <2>2. /\ Good(worldFile)' /\ refused' = FALSE
        /\ Owned(LatestPlayers(worldFile'), identityFile)
    BY <1>1, <1>2, <1>5, <2>1, Unacknowledged
  <2> QED
    BY <1>1, <2>1, <2>2, DownAfterWrite, GrowsUnchanged
<1> QED
  BY <1>6, <1>7

\* A move raises the revision only.
LEMMA MovedPlayers ==
  ASSUME IInv, up, NEW ids, ids \subseteq DOMAIN players,
         \A id \in ids : players[id].revision < MaxRevision
  PROVE  /\ DOMAIN Moved(players, ids) = DOMAIN players
         /\ IsPartial(Moved(players, ids), Stamps) /\ Owned(Moved(players, ids), Base)
         /\ \A id \in DOMAIN players : Moved(players, ids)[id].epoch = players[id].epoch
         /\ \A id \in DOMAIN last \cap DOMAIN players : ~Before(Moved(players, ids)[id], last[id])
<1> DEFINE ps == Moved(players, ids)
<1>1. DOMAIN ps = DOMAIN players
  BY DEF Moved
<1>2. ASSUME NEW id \in DOMAIN players
      PROVE  /\ players[id] \in Stamps /\ ps[id] \in Stamps
             /\ ps[id].owner = players[id].owner /\ ps[id].epoch = players[id].epoch
             /\ ps[id].revision >= players[id].revision
  <2>1. players[id] \in Stamps
    BY DEF IInv, Shape, IsPartial
  <2>2. CASE id \in ids
    <3>1. ps[id] = [players[id] EXCEPT !.revision = players[id].revision + 1]
      BY <2>2 DEF Moved
    <3> HIDE DEF ps
    <3> QED
      BY <2>1, <2>2, <3>1 DEF Stamps
  <2>3. CASE id \notin ids
    <3>1. ps[id] = players[id]
      BY <2>3 DEF Moved
    <3> HIDE DEF ps
    <3> QED
      BY <2>1, <3>1 DEF Stamps
  <2> QED
    BY <2>2, <2>3
<1> HIDE DEF ps
<1>3. IsPartial(ps, Stamps)
  BY <1>1, <1>2 DEF IsPartial, IInv, Shape
<1>4. Owned(ps, Base)
  BY <1>1, <1>2 DEF Owned, IInv, Characters
<1>5. ASSUME NEW id \in DOMAIN last \cap DOMAIN players
      PROVE  ~Before(ps[id], last[id])
  <2>1. ~Before(players[id], last[id]) /\ last[id] \in [epoch : Nat, revision : Nat]
    BY DEF IInv, Characters, History
  <2> QED
    BY <1>2, <2>1 DEF Before, Stamps
<1> QED
  BY <1>1, <1>2, <1>3, <1>4, <1>5 DEF ps

\* Neither does a change of the cell take a player back.
LEMMA CrossedPlayers ==
  ASSUME IInv, up, NEW moved, moved \subseteq DOMAIN players,
         \A id \in moved : players[id].revision < MaxRevision,
         NEW crossed, \A id \in crossed : players[id].epoch < MaxRevision
  PROVE  LET ps == Crossed(Moved(players, moved), crossed)
         IN  /\ DOMAIN ps = DOMAIN players
             /\ IsPartial(ps, Stamps) /\ Owned(ps, Base)
             /\ \A id \in DOMAIN players \ crossed : ps[id].epoch = players[id].epoch
             /\ \A id \in DOMAIN last \cap DOMAIN players : ~Before(ps[id], last[id])
<1>1. PICK qs : qs = Moved(players, moved)
  OBVIOUS
<1>2. /\ DOMAIN qs = DOMAIN players
      /\ IsPartial(qs, Stamps) /\ Owned(qs, Base)
      /\ \A id \in DOMAIN players : qs[id].epoch = players[id].epoch
      /\ \A id \in DOMAIN last \cap DOMAIN players : ~Before(qs[id], last[id])
  BY <1>1, MovedPlayers
<1>3. PICK ps : ps = Crossed(qs, crossed)
  OBVIOUS
<1>4. DOMAIN ps = DOMAIN players
  BY <1>2, <1>3 DEF Crossed
<1>5. ASSUME NEW id \in DOMAIN players
      PROVE  /\ qs[id] \in Stamps /\ ps[id] \in Stamps
             /\ ps[id].owner = qs[id].owner /\ ps[id].revision = qs[id].revision
             /\ ps[id].epoch >= qs[id].epoch
             /\ id \notin crossed => ps[id].epoch = qs[id].epoch
  <2>1. qs[id] \in Stamps
    BY <1>2 DEF IsPartial
  <2>2. CASE id \in crossed
    <3>1. ps[id] = [qs[id] EXCEPT !.epoch = qs[id].epoch + 1]
      BY <1>2, <1>3, <2>2 DEF Crossed
    <3>2. qs[id].epoch < MaxRevision
      BY <1>2, <2>2
    <3> QED
      BY <2>1, <2>2, <3>1, <3>2 DEF Stamps
  <2>3. CASE id \notin crossed
    <3>1. ps[id] = qs[id]
      BY <1>2, <1>3, <2>3 DEF Crossed
    <3> QED
      BY <2>1, <2>3, <3>1 DEF Stamps
  <2> QED
    BY <2>2, <2>3
<1>6. IsPartial(ps, Stamps)
  BY <1>2, <1>4, <1>5 DEF IsPartial
<1>7. Owned(ps, Base)
  BY <1>2, <1>4, <1>5 DEF Owned
<1>8. ASSUME NEW id \in DOMAIN last \cap DOMAIN players
      PROVE  ~Before(ps[id], last[id])
  <2>1. ~Before(qs[id], last[id]) /\ last[id] \in [epoch : Nat, revision : Nat]
    BY <1>2 DEF IInv, History
  <2> QED
    BY <1>5, <2>1 DEF Before, Stamps
<1> QED
  BY <1>1, <1>2, <1>3, <1>4, <1>5, <1>6, <1>7, <1>8

LEMMA CommitTickHolds ==
  ASSUME IInv, NEW moved \in SUBSET DOMAIN players, NEW crossed \in SUBSET moved,
         NEW outcome \in Outcomes, CommitTick(moved, crossed, outcome)
  PROVE  IInv' /\ Grows
<1>0. PICK ps : ps = Crossed(Moved(players, moved), crossed)
  OBVIOUS
<1>a. PICK v : v = version + Cardinality(moved)
  OBVIOUS
<1>1. /\ up /\ step = Idle /\ v <= MaxVersion
      /\ IF native THEN moved \subseteq online ELSE crossed = {}
      /\ \A id \in moved : players[id].revision < MaxRevision
      /\ \A id \in crossed : players[id].epoch < MaxRevision
      /\ Persist(v, tick, tick, ps, outcome)
      /\ UNCHANGED <<identityFile, native>>
  BY <1>0, <1>a DEF CommitTick, Between
<1>2. /\ DOMAIN ps = DOMAIN players
      /\ IsPartial(ps, Stamps) /\ Owned(ps, Base)
      /\ \A id \in DOMAIN players \ crossed : ps[id].epoch = players[id].epoch
      /\ \A id \in DOMAIN last \cap DOMAIN players : ~Before(ps[id], last[id])
  BY <1>0, <1>1, CrossedPlayers
<1>3. version \in Nat /\ v \in Nat /\ version <= v
  <2>1. moved \subseteq PlayerIds
    BY DEF IInv, Shape, IsPartial
  <2>2. IsFiniteSet(PlayerIds)
    BY FS_Interval DEF PlayerIds
  <2>3. Cardinality(moved) \in Nat
    BY <2>1, <2>2, FS_Subset, FS_CardinalityType
  <2> QED
    BY <1>a, <2>3 DEF IInv, Shape
<1>4. PICK t : t = tick
  OBVIOUS
<1>5. /\ t \in Nat /\ pumpTick \in Nat /\ advanced \in Nat /\ pumpTick <= t
      /\ prefix # <<>> => Latest(prefix).tick <= t
  BY <1>1, <1>4 DEF IInv, Clocks
<1>6. Candidate(v, t, t, ps)
  BY <1>1, <1>2, <1>3, <1>4, <1>5 DEF Candidate, Owned
<1>7. CASE Committed(Appended(v, tick, tick, ps), outcome)
  <2>1. /\ outcome = "ok" /\ Apply(v, t, t, ps) /\ tick' = t + 1 /\ phase' = "ticks"
        /\ UNCHANGED <<up, step, pumpTick, registry, sessions>>
    BY <1>0, <1>a, <1>4, <1>7 DEF CommitTick, Committed
  <2>2. /\ Registry' /\ BaseKeeps /\ Base' = Base
        /\ Established(records) \subseteq Established(Base)
    BY <1>1, <2>1, SteadyRegistry
  <2>3. Persist(v, t, t, ps, "ok")
    BY <1>1, <1>4, <2>1
  <2>4. Grows
    BY <1>1, <1>6, <2>1, <2>3, GrowsCommitted
  <2>5. Clocks'
    <3>1. Taken(v, t, t, ps)
      BY <1>1, <1>6, <2>1, <2>3, Acknowledged
    <3>2. /\ prefix' # <<>>
          /\ Latest(prefix').version = v /\ Latest(prefix').tick = t
          /\ Latest(prefix').advanced = t
          /\ version' = v /\ advanced' = t
      BY <3>1 DEF Taken
    <3> QED
      BY <1>3, <1>5, <2>1, <3>2 DEF Clocks, Latest
  <2>6. History' /\ World' /\ Characters'
    <3>1. Owned(ps, Base')
      BY <1>2, <2>2
    <3>2. \A x \in DOMAIN last \ DOMAIN ps : Base'[x].saved.epoch >= last[x].epoch
      BY <1>1, <1>2, <2>2 DEF IInv, Characters
    <3>3. ASSUME NEW x \in DOMAIN ps \cap Established(Base'), x \notin online'
          PROVE  Base'[x].saved.epoch >= ps[x].epoch
      <4>1. x \in DOMAIN players \ crossed
        BY <1>1, <1>2, <2>1, <3>3 DEF sessions
      <4> QED
        BY <1>1, <1>2, <2>1, <2>2, <3>3, <4>1 DEF IInv, Characters, sessions
    <3> QED
      BY <1>1, <1>6, <2>1, <2>2, <2>3, <3>1, <3>2, <3>3, WriteCommitted
  <2>7. Shape'
    <3>1. players' = ps /\ version' = v
      BY <2>1 DEF Apply
    <3> QED
      BY <1>1, <1>2, <1>3, <2>1, <3>1 DEF IInv, Shape, sessions
  <2>8. Steps'
    BY <1>1, <2>1 DEF Steps, Idle
  <2> QED
    BY <2>2, <2>4, <2>5, <2>6, <2>7, <2>8 DEF IInv
<1>8. CASE ~Committed(Appended(v, tick, tick, ps), outcome)
  <2>1. Down /\ UNCHANGED <<last, promised>>
    BY <1>0, <1>a, <1>8 DEF CommitTick
  <2>2. /\ Good(worldFile)' /\ refused' = FALSE
        /\ Owned(LatestPlayers(worldFile'), identityFile)
    BY <1>1, <1>4, <1>6, <2>1, Unacknowledged
  <2> QED
    BY <1>1, <2>1, <2>2, DownAfterWrite, GrowsUnchanged
<1> QED
  BY <1>7, <1>8

\* A commit that ends an operation of the registry.
LEMMA Finalized ==
  ASSUME IInv, up, committed # Nothing, committed' = Nothing,
         UNCHANGED <<identityFile, up, records, nextPlayer>>
  PROVE  /\ Registry' /\ BaseKeeps /\ Base' = records
         /\ Base = committed.records
<1>1. Base' = records /\ Base = committed.records
  BY DEF Base
<1>2. BaseKeeps
  BY <1>1, BaseKept DEF BaseKeeps
<1>3. Registry'
  BY DEF IInv, Registry, Registered, Marked, Established, WellFormed
<1> QED
  BY <1>1, <1>2, <1>3

LEMMA CreationCommitsHolds ==
  ASSUME IInv, NEW outcome \in Outcomes, CreationCommits(outcome)
  PROVE  IInv' /\ Grows
<1>0. PICK ps : ps = Moved(players, step.ids)
  OBVIOUS
<1>a. PICK v : v = version + 1
  OBVIOUS
<1>b. PICK t : t = pumpTick
  OBVIOUS
<1>c. PICK a : a = advanced
  OBVIOUS
<1>1. /\ up /\ step.op = "create" /\ Persist(v, t, a, ps, outcome)
      /\ UNCHANGED <<identityFile, native, up, phase, clock, records, nextPlayer, sessions>>
  BY <1>0, <1>a, <1>b, <1>c DEF CreationCommits
<1>2. /\ committed # Nothing /\ phase = "serve" /\ version < MaxVersion
      /\ step.ids \subseteq online /\ step.ids \subseteq DOMAIN players
      /\ \A id \in step.ids : players[id].revision < MaxRevision
  BY <1>1 DEF IInv, Steps, Shape, Idle
<1>3. /\ DOMAIN ps = DOMAIN players
      /\ IsPartial(ps, Stamps) /\ Owned(ps, Base)
      /\ \A id \in DOMAIN players : ps[id].epoch = players[id].epoch
      /\ \A id \in DOMAIN last \cap DOMAIN players : ~Before(ps[id], last[id])
  BY <1>0, <1>1, <1>2, MovedPlayers
<1>4. Candidate(v, t, a, ps)
  <2>1. \A id \in DOMAIN ps \cap Established(records) :
          id \in DOMAIN Base /\ ps[id].owner = Base[id].owner
    BY <1>3 DEF Owned
  <2> QED
    BY <1>1, <1>2, <1>3, <1>a, <1>b, <1>c, <2>1, ServeCandidate
<1>5. CASE Committed(Appended(v, t, a, ps), outcome)
  <2>1. /\ outcome = "ok" /\ Apply(v, t, a, ps) /\ committed' = Nothing /\ step' = Idle
    BY <1>0, <1>a, <1>b, <1>c, <1>5 DEF CreationCommits, Committed
  <2>2. Registry' /\ BaseKeeps /\ Base' = records /\ Base = committed.records
    BY <1>1, <1>2, <2>1, Finalized
  <2>3. Grows
    BY <1>1, <1>4, <2>1, GrowsCommitted
  <2>4. Clocks'
    BY <1>1, <1>4, <1>c, <2>1, ClockCommitted DEF clock
  <2>5. History' /\ World' /\ Characters'
    <3>1. Owned(ps, Base')
      BY <1>3, <2>2 DEF Owned, BaseKeeps
    <3>2. \A x \in DOMAIN last \ DOMAIN ps : Base'[x].saved.epoch >= last[x].epoch
      BY <1>1, <1>3, <2>2 DEF IInv, Characters, BaseKeeps
    <3>3. ASSUME NEW x \in DOMAIN ps \cap Established(Base'), x \notin online'
          PROVE  Base'[x].saved.epoch >= ps[x].epoch
      <4>1. x \in Established(Base) => Base'[x] = Base[x]
        BY <2>2 DEF BaseKeeps
      <4>2. x \notin online /\ x \in DOMAIN players
        BY <1>1, <1>3, <3>3 DEF sessions
      <4>3. CASE x \in Established(Base)
        <5>1. Base[x].saved.epoch >= players[x].epoch
          BY <1>1, <4>2, <4>3 DEF IInv, Characters
        <5> QED
          BY <1>3, <4>1, <4>2, <4>3, <5>1
      <4>4. CASE x \notin Established(Base)
        <5>1. x \in step.ids
          BY <1>1, <2>2, <3>3, <4>4 DEF IInv, Steps
        <5> QED
          BY <1>2, <4>2, <5>1
      <4> QED
        BY <4>3, <4>4
    <3> QED
      BY <1>1, <1>4, <2>1, <2>2, <3>1, <3>2, <3>3, WriteCommitted
  <2>6. Shape'
    <3>1. players' = ps /\ version' = v
      BY <2>1 DEF Apply
    <3>2. v \in 0 .. MaxVersion
      BY <1>2, <1>a DEF IInv, Shape
    <3>3. step' \in [op : Operations, ids : SUBSET PlayerIds]
      BY <2>1 DEF Idle, Operations
    <3> QED
      BY <1>1, <1>3, <2>1, <3>1, <3>2, <3>3 DEF IInv, Shape, sessions
  <2>7. Steps'
    BY <2>1 DEF Steps, Idle
  <2> QED
    BY <2>2, <2>3, <2>4, <2>5, <2>6, <2>7 DEF IInv
<1>6. CASE ~Committed(Appended(v, t, a, ps), outcome)
  <2>1. Keep /\ step' = [step EXCEPT !.op = "undoCreate"] /\ committed' = committed
    BY <1>0, <1>a, <1>b, <1>c, <1>6 DEF CreationCommits
  <2>2. /\ step' \in [op : Operations, ids : SUBSET PlayerIds]
        /\ step'.op = "undoCreate" /\ step'.ids = step.ids
    BY <2>1 DEF IInv, Shape, Operations
  <2>3. Registry' /\ BaseKeeps /\ Base' = Base
    BY <1>1, <2>1, <2>2, RegistryUnchanged DEF registry
  <2>4. History' /\ World' /\ Characters'
    BY <1>1, <1>4, <2>1, <2>3, WriteFailed DEF sessions
  <2>5. Shape' /\ Clocks'
    BY <1>1, <1>2, <2>1, <2>2 DEF IInv, Shape, Clocks, Keep, canonical, clock, sessions, Latest
  <2>6. Steps'
    BY <1>1, <1>2, <2>1, <2>2 DEF Steps, sessions
  <2> QED
    BY <2>1, <2>3, <2>4, <2>5, <2>6, GrowsUnchanged DEF IInv, Keep
<1> QED
  BY <1>5, <1>6

LEMMA JoinCommitsHolds ==
  ASSUME IInv, NEW outcome \in Outcomes, JoinCommits(outcome)
  PROVE  IInv' /\ Grows
<1>0. PICK id : id = CHOOSE x \in step.ids : TRUE
  OBVIOUS
<1>d. PICK new : new = [epoch |-> 1, revision |-> 1, owner |-> records[id].owner]
  OBVIOUS
<1>e. PICK ps : ps = Put(players, id, new)
  OBVIOUS
<1>a. PICK v : v = version + 1
  OBVIOUS
<1>b. PICK t : t = pumpTick
  OBVIOUS
<1>c. PICK a : a = advanced
  OBVIOUS
<1>1. /\ up /\ step.op = "join" /\ Persist(v, t, a, ps, outcome)
      /\ UNCHANGED <<identityFile, native, up, phase, clock, records, nextPlayer>>
  BY <1>0, <1>a, <1>b, <1>c, <1>d, <1>e DEF JoinCommits
<1>2. /\ committed # Nothing /\ phase = "serve" /\ version < MaxVersion
      /\ nextPlayer = committed.nextPlayer + 1
      /\ step.ids = {committed.nextPlayer} /\ records[committed.nextPlayer].lifecycle = "fresh"
  BY <1>1 DEF IInv, Steps, Shape, Idle
<1>3. id = committed.nextPlayer
  BY <1>0, <1>2
<1>4. /\ committed.nextPlayer \in Nat \ {0}
      /\ Registered(committed.records, committed.nextPlayer - 1)
      /\ Registered(records, nextPlayer - 1)
      /\ Established(records) \subseteq Established(committed.records)
  BY <1>1, <1>2 DEF IInv, Registry
<1>5. id \in DOMAIN records /\ id \in PlayerIds /\ records[id] \in Records
  <2>1. DOMAIN records = 1 .. nextPlayer - 1
    BY <1>4 DEF Registered
  <2>2. id \in 1 .. nextPlayer - 1
    BY <1>2, <1>3, <1>4
  <2> QED
    BY <1>4, <2>1, <2>2 DEF Registered, IsPartial
<1>6. id \notin Established(records)
  BY <1>2, <1>3 DEF Established
<1>7. Base = committed.records
  BY <1>2 DEF Base
<1>8. id \notin DOMAIN players
  <2>1. id \notin DOMAIN Base
    BY <1>3, <1>4, <1>7 DEF Registered
  <2> QED
    BY <1>1, <2>1 DEF IInv, Characters, Owned
<1>9. new \in Stamps /\ new.owner = records[id].owner
  BY <1>d, <1>5 DEF Stamps, Records
<1>10. /\ DOMAIN ps = DOMAIN players \cup {id} /\ ps[id] = new
       /\ \A x \in DOMAIN players : ps[x] = players[x]
  BY <1>e, <1>8 DEF Put
<1>11. IsPartial(ps, Stamps)
  BY <1>5, <1>9, <1>10 DEF IsPartial, IInv, Shape
<1>12. DOMAIN last \subseteq Established(records)
  BY <1>1, BaseKept DEF IInv, Characters
<1>13. Candidate(v, t, a, ps)
  <2>1. \A x \in DOMAIN ps \cap Established(records) :
          x \in DOMAIN Base /\ ps[x].owner = Base[x].owner
    BY <1>1, <1>6, <1>10 DEF IInv, Characters, Owned
  <2>2. \A x \in DOMAIN last \cap DOMAIN ps : ~Before(ps[x], last[x])
    BY <1>1, <1>6, <1>10, <1>12 DEF IInv, Characters
  <2> QED
    BY <1>1, <1>2, <1>11, <1>a, <1>b, <1>c, <2>1, <2>2, ServeCandidate
<1>14. CASE Committed(Appended(v, t, a, ps), outcome)
  <2>1. /\ outcome = "ok" /\ Apply(v, t, a, ps) /\ committed' = Nothing /\ step' = Idle
        /\ online' = online \cup {id} /\ bound' = bound \cup {id}
    BY <1>0, <1>a, <1>b, <1>c, <1>d, <1>e, <1>14 DEF JoinCommits, Committed
  <2>2. Registry' /\ BaseKeeps /\ Base' = records
    BY <1>1, <1>2, <2>1, Finalized
  <2>3. Grows
    BY <1>1, <1>13, <2>1, GrowsCommitted
  <2>4. Clocks'
    BY <1>1, <1>13, <1>c, <2>1, ClockCommitted DEF clock
  <2>5. History' /\ World' /\ Characters'
    <3>1. Owned(ps, Base')
      <4>1. Owned(players, records)
        BY <1>1, OwnedOnDisk DEF IInv, Characters
      <4> QED
        BY <1>5, <1>9, <1>10, <2>2, <4>1 DEF Owned
    <3>2. \A x \in DOMAIN last \ DOMAIN ps : Base'[x].saved.epoch >= last[x].epoch
      BY <1>1, <1>10, <2>2 DEF IInv, Characters, BaseKeeps
    <3>3. ASSUME NEW x \in DOMAIN ps \cap Established(Base'), x \notin online'
          PROVE  Base'[x].saved.epoch >= ps[x].epoch
      <4>1. x \in Established(Base) /\ Base'[x] = Base[x]
        BY <1>4, <1>7, <2>2, <3>3 DEF BaseKeeps
      <4>2. x \notin online /\ x \in DOMAIN players /\ ps[x] = players[x]
        BY <1>10, <2>1, <3>3
      <4>3. Base[x].saved.epoch >= players[x].epoch
        BY <1>1, <4>1, <4>2 DEF IInv, Characters
      <4> QED
        BY <4>1, <4>2, <4>3
    <3> QED
      BY <1>1, <1>13, <2>1, <2>2, <3>1, <3>2, <3>3, WriteCommitted
  <2>6. Shape'
    <3>1. players' = ps /\ version' = v
      BY <2>1 DEF Apply
    <3>2. v \in 0 .. MaxVersion
      BY <1>2, <1>a DEF IInv, Shape
    <3>3. step' \in [op : Operations, ids : SUBSET PlayerIds]
      BY <2>1 DEF Idle, Operations
    <3>4. online' \subseteq bound' /\ bound' \subseteq DOMAIN ps
      BY <1>10, <2>1 DEF IInv, Shape
    <3> QED
      BY <1>1, <1>11, <2>1, <3>1, <3>2, <3>3, <3>4 DEF IInv, Shape
  <2>7. Steps'
    BY <2>1 DEF Steps, Idle
  <2> QED
    BY <2>2, <2>3, <2>4, <2>5, <2>6, <2>7 DEF IInv
<1>15. CASE ~Committed(Appended(v, t, a, ps), outcome)
  <2>1. /\ Keep /\ step' = [step EXCEPT !.op = "undoJoin"] /\ UNCHANGED <<sessions, committed>>
    BY <1>0, <1>a, <1>b, <1>c, <1>d, <1>e, <1>15 DEF JoinCommits
  <2>2. /\ step' \in [op : Operations, ids : SUBSET PlayerIds]
        /\ step'.op = "undoJoin" /\ step'.ids = step.ids
    BY <2>1 DEF IInv, Shape, Operations
  <2>3. Registry' /\ BaseKeeps /\ Base' = Base
    BY <1>1, <1>4, <2>1, RegistryUnchanged DEF registry
  <2>4. History' /\ World' /\ Characters'
    BY <1>1, <1>13, <2>1, <2>3, WriteFailed DEF sessions
  <2>5. Shape' /\ Clocks'
    BY <1>1, <1>2, <2>1, <2>2 DEF IInv, Shape, Clocks, Keep, canonical, clock, sessions, Latest
  <2>6. Steps'
    BY <1>1, <1>2, <2>1, <2>2 DEF Steps, sessions
  <2> QED
    BY <2>1, <2>3, <2>4, <2>5, <2>6, GrowsUnchanged DEF IInv, Keep
<1> QED
  BY <1>14, <1>15

LEMMA ReattachHolds ==
  ASSUME IInv, NEW id \in PlayerIds, NEW outcome \in Outcomes, Reattach(id, outcome)
  PROVE  IInv' /\ Grows
<1>0. PICK base : base = Returning(id)
  OBVIOUS
<1>d. PICK new : new = [epoch |-> base.epoch + 1, revision |-> base.revision + 1,
                        owner |-> records[id].owner]
  OBVIOUS
<1>e. PICK ps : ps = Put(players, id, new)
  OBVIOUS
<1>a. PICK v : v = version + 1
  OBVIOUS
<1>b. PICK t : t = pumpTick
  OBVIOUS
<1>c. PICK a : a = advanced
  OBVIOUS
<1>f. PICK rs : rs = Restarted(id)
  OBVIOUS
<1>1. /\ up /\ phase = "serve" /\ step = Idle /\ committed = Nothing
      /\ id \in DOMAIN records \ online /\ version < MaxVersion
      /\ base.epoch < MaxRevision /\ base.revision < MaxRevision
      /\ Persist(v, t, a, ps, outcome) /\ records' = rs
      /\ UNCHANGED <<identityFile, native, up, phase, step, clock, nextPlayer, committed>>
  BY <1>0, <1>a, <1>b, <1>c, <1>d, <1>e, <1>f DEF Reattach, Between, RegistryIdle
<1>2. Base = records /\ Base' = rs
  BY <1>1 DEF Base
<1>3. /\ nextPlayer \in Nat \ {0} /\ Registered(records, nextPlayer - 1)
      /\ records[id] \in Records
  BY <1>1 DEF IInv, Registry, Registered, IsPartial
<1>4. /\ DOMAIN rs = DOMAIN records
      /\ rs[id] \in Records /\ rs[id].owner = records[id].owner
      /\ rs[id].lifecycle = "established" <=> rs[id].saved # Unsaved
      /\ rs[id].lifecycle = "established" <=> records[id].lifecycle = "established"
      /\ records[id].lifecycle = "established" => rs[id] = records[id]
      /\ \A x \in DOMAIN records \ {id} : rs[x] = records[x]
  <2>1. CASE records[id].lifecycle = "established"
    <3>1. rs = records
      BY <1>f, <2>1 DEF Restarted
    <3> QED
      BY <1>1, <1>3, <2>1, <3>1 DEF Registered, Marked
  <2>2. CASE records[id].lifecycle # "established"
    <3>1. rs = [records EXCEPT ![id].lifecycle = "fresh", ![id].saved = Unsaved]
      BY <1>f, <2>2 DEF Restarted
    <3>2. Unsaved \in [epoch : 0 .. MaxRevision, revision : 0 .. MaxRevision]
      BY DEF Unsaved
    <3>3. /\ rs[id] \in Records /\ rs[id].owner = records[id].owner
          /\ rs[id].lifecycle = "fresh" /\ rs[id].saved = Unsaved
      BY <1>1, <1>3, <3>1, <3>2 DEF Records
    <3>4. DOMAIN rs = DOMAIN records /\ \A x \in DOMAIN records \ {id} : rs[x] = records[x]
      BY <3>1
    <3> QED
      BY <2>2, <3>3, <3>4
  <2> QED
    BY <2>1, <2>2
<1>5. Registered(rs, nextPlayer - 1)
  <2>1. IsPartial(rs, Records)
    BY <1>3, <1>4 DEF Registered, IsPartial
  <2>2. Marked(rs)
    BY <1>3, <1>4 DEF Registered, Marked
  <2> QED
    BY <1>3, <1>4, <2>1, <2>2 DEF Registered
<1>6. /\ Established(rs) = Established(records)
      /\ \A x \in Established(records) : rs[x] = records[x]
  BY <1>4 DEF Established
<1>7. BaseKeeps /\ Established(Base') = Established(Base)
  BY <1>2, <1>4, <1>6 DEF BaseKeeps
<1>8. Registry'
  <2>1. /\ IsPartial(identityFile', Records) /\ WellFormed(identityFile)'
        /\ \E n \in PlayerIds \cup {0} : DOMAIN identityFile' = 1 .. n
        /\ DOMAIN identityFile' = DOMAIN records'
        /\ Established(identityFile') = Established(records')
    BY <1>1, <1>4, <1>6 DEF IInv, Registry, WellFormed
  <2>2. \A x \in DOMAIN records' : identityFile'[x].owner = records'[x].owner
    <3>1. \A x \in DOMAIN records : rs[x].owner = records[x].owner
      BY <1>4
    <3> QED
      BY <1>1, <1>4, <3>1 DEF IInv, Registry
  <2> QED
    BY <1>1, <1>3, <1>5, <2>1, <2>2 DEF Registry, Registered, Marked, Established
<1>9. base.epoch \in Nat /\ base.revision \in Nat
  <2>1. CASE id \in DOMAIN players
    <3>1. players[id] \in Stamps
      BY <2>1 DEF IInv, Shape, IsPartial
    <3> QED
      BY <1>0, <2>1, <3>1 DEF Returning, Stamp, Stamps
  <2>2. CASE id \notin DOMAIN players
    BY <1>0, <1>3, <2>2 DEF Returning, Records, Unsaved
  <2> QED
    BY <2>1, <2>2
<1>10. new \in Stamps /\ new.owner = records[id].owner /\ new.epoch = base.epoch + 1
  BY <1>1, <1>3, <1>9, <1>d DEF Stamps, Records
<1>11. /\ DOMAIN ps = DOMAIN players \cup {id} /\ ps[id] = new
       /\ \A x \in DOMAIN players \ {id} : ps[x] = players[x]
  BY <1>e DEF Put
<1>12. IsPartial(ps, Stamps)
  BY <1>10, <1>11 DEF IsPartial, IInv, Shape
<1>13. Owned(ps, records)
  BY <1>1, <1>2, <1>10, <1>11 DEF Owned, IInv, Characters
<1>14. id \in DOMAIN last => ~Before(new, last[id])
  <2> SUFFICES ASSUME id \in DOMAIN last
               PROVE  ~Before(new, last[id])
    OBVIOUS
  <2>1. last[id] \in [epoch : Nat, revision : Nat]
    BY DEF IInv, History
  <2>2. base.epoch >= last[id].epoch
    <3>1. CASE id \in DOMAIN players
      <4>1. ~Before(players[id], last[id]) /\ players[id] \in Stamps
        BY <1>1, <3>1 DEF IInv, Characters, Shape, IsPartial
      <4>2. base.epoch = players[id].epoch
        BY <1>0, <3>1 DEF Returning, Stamp
      <4> QED
        BY <2>1, <4>1, <4>2 DEF Before, Stamps
    <3>2. CASE id \notin DOMAIN players
      <4>1. id \in Established(records) /\ records[id].saved.epoch >= last[id].epoch
        BY <1>1, <1>2, <3>2 DEF IInv, Characters
      <4>2. base = records[id].saved
        BY <1>0, <3>2, <4>1 DEF Returning, Established
      <4> QED
        BY <4>1, <4>2
    <3> QED
      BY <3>1, <3>2
  <2>3. new.epoch > last[id].epoch
    BY <1>9, <1>10, <2>1, <2>2
  <2>4. new.epoch \in Nat /\ last[id].epoch \in Nat
    BY <1>9, <1>10, <2>1
  <2> QED
    BY <2>3, <2>4 DEF Before
<1>15. Candidate(v, t, a, ps)
  <2>1. \A x \in DOMAIN ps \cap Established(records) :
          x \in DOMAIN Base /\ ps[x].owner = Base[x].owner
    BY <1>2, <1>13 DEF Owned
  <2>2. \A x \in DOMAIN last \cap DOMAIN ps : ~Before(ps[x], last[x])
    BY <1>1, <1>11, <1>14 DEF IInv, Characters
  <2> QED
    BY <1>1, <1>12, <1>a, <1>b, <1>c, <2>1, <2>2, ServeCandidate
<1>16. Steps'
  BY <1>1 DEF Steps, Idle
<1>17. CASE Committed(Appended(v, t, a, ps), outcome)
  <2>1. /\ outcome = "ok" /\ Apply(v, t, a, ps)
        /\ online' = online \cup {id} /\ bound' = bound \cup {id}
    BY <1>0, <1>a, <1>b, <1>c, <1>d, <1>e, <1>17 DEF Reattach, Committed
  <2>2. Grows
    BY <1>1, <1>15, <2>1, GrowsCommitted
  <2>3. Clocks'
    BY <1>1, <1>15, <1>c, <2>1, ClockCommitted DEF clock
  <2>4. History' /\ World' /\ Characters'
    <3>1. Owned(ps, Base')
      BY <1>2, <1>4, <1>13 DEF Owned
    <3>2. \A x \in DOMAIN last \ DOMAIN ps : Base'[x].saved.epoch >= last[x].epoch
      BY <1>1, <1>7, <1>11 DEF IInv, Characters, BaseKeeps
    <3>3. \A x \in DOMAIN ps \cap Established(Base') :
            x \notin online' => Base'[x].saved.epoch >= ps[x].epoch
      BY <1>1, <1>7, <1>11, <2>1 DEF IInv, Characters, BaseKeeps
    <3>4. Established(records) \subseteq Established(Base')
      BY <1>2, <1>7
    <3> QED
      BY <1>1, <1>7, <1>15, <2>1, <3>1, <3>2, <3>3, <3>4, WriteCommitted
  <2>5. Shape'
    <3>1. players' = ps /\ version' = v
      BY <2>1 DEF Apply
    <3>2. v \in 0 .. MaxVersion
      BY <1>1, <1>a DEF IInv, Shape
    <3>3. online' \subseteq bound' /\ bound' \subseteq DOMAIN ps
      BY <1>11, <2>1 DEF IInv, Shape
    <3> QED
      BY <1>1, <1>12, <2>1, <3>1, <3>2, <3>3 DEF IInv, Shape
  <2> QED
    BY <1>8, <1>16, <2>2, <2>3, <2>4, <2>5 DEF IInv
<1>18. CASE ~Committed(Appended(v, t, a, ps), outcome)
  <2>1. Keep /\ UNCHANGED sessions
    BY <1>0, <1>a, <1>b, <1>c, <1>d, <1>e, <1>18 DEF Reattach
  <2>2. History' /\ World' /\ Characters'
    BY <1>1, <1>7, <1>15, <2>1, WriteFailed DEF sessions
  <2>3. Shape' /\ Clocks'
    BY <1>1, <2>1 DEF IInv, Shape, Clocks, Keep, canonical, clock, sessions, Latest
  <2> QED
    BY <1>8, <1>16, <2>1, <2>2, <2>3, GrowsUnchanged DEF IInv, Keep
<1> QED
  BY <1>17, <1>18

-----------------------------------------------------------------------------
(* The first start, and the next one. *)

LEMMA InitHolds ==
  ASSUME Init
  PROVE  IInv
<1>1. /\ identityFile = None /\ worldFile = <<>> /\ native \in BOOLEAN
      /\ up = TRUE /\ phase = "serve" /\ step = Idle
      /\ pumpTick = 1 /\ tick = 1 /\ advanced = 0
      /\ records = None /\ nextPlayer = 1 /\ committed = Nothing
      /\ players = None /\ online = {} /\ bound = {}
      /\ version = 0 /\ prefix = <<>>
      /\ last = None /\ promised = 0 /\ refused = FALSE
  BY Zenon DEF Init
<1>2. /\ DOMAIN None = {} /\ IsPartial(None, Records) /\ IsPartial(None, Stamps)
      /\ WellFormed(None) /\ Marked(None) /\ Established(None) = {}
  BY DEF None, IsPartial, WellFormed, Marked, Established
<1>3. 1 .. 0 = {} /\ Registered(None, 0)
  BY <1>2 DEF Registered
<1>4. LatestPlayers(<<>>) = None /\ Base = None
  BY <1>1 DEF LatestPlayers, Base
<1>5. Shape
  <2>1. step \in [op : Operations, ids : SUBSET PlayerIds]
    BY <1>1 DEF Idle, Operations
  <2>2. up \in BOOLEAN
    BY <1>1, Zenon
  <2> QED
    BY <1>1, <1>2, <2>1, <2>2 DEF Shape, Idle
<1>6. Steps
  BY <1>1 DEF Steps, Idle
<1>7. Registry
  <2>1. \E n \in PlayerIds \cup {0} : DOMAIN identityFile = 1 .. n
    BY <1>1, <1>2, <1>3
  <2>2. nextPlayer \in Nat \ {0} /\ Registered(records, nextPlayer - 1)
    BY <1>1, <1>3
  <2> QED
    BY <1>1, <1>2, <2>1, <2>2 DEF Registry
<1>8. History
  BY <1>1, <1>2 DEF History
<1>9. Good(<<>>)
  <2>1. <<>> \in Seq(Transactions) /\ Len(<<>>) = 0
    OBVIOUS
  <2>2. ValidPrefix(<<>>)
    BY <2>1 DEF ValidPrefix
  <2>3. LatestFits(<<>>) /\ Survives(<<>>)
    BY <1>1, <1>2 DEF LatestFits, Survives
  <2> QED
    BY <2>1, <2>2, <2>3 DEF Good, ChainOK
<1>10. World
  BY <1>1, <1>2, <1>4, <1>9 DEF World, Owned
<1>11. Clocks
  BY <1>1 DEF Clocks
<1>12. Characters
  BY <1>1, <1>2, <1>4, <1>9 DEF Characters, Owned
<1> QED
  BY <1>5, <1>6, <1>7, <1>8, <1>10, <1>11, <1>12 DEF IInv

\* The clock after a start.
LEMMA RestartedClock ==
  ASSUME IInv, Restart
  PROVE  Clocks'
<1>1. /\ tick' = NextTick(worldFile) /\ pumpTick' = NextTick(worldFile) /\ prefix' = worldFile
      /\ version' = IF worldFile = <<>> THEN 0 ELSE Latest(worldFile).version
      /\ advanced' = IF worldFile = <<>> THEN 0 ELSE Latest(worldFile).advanced
      /\ native' = native
  BY DEF Restart
<1>2. CASE worldFile = <<>>
  <2>1. NextTick(worldFile) = 1
    BY <1>2 DEF NextTick
  <2>2. /\ tick' = 1 /\ pumpTick' = 1 /\ prefix' = <<>> /\ version' = 0 /\ advanced' = 0
    BY <1>1, <1>2, <2>1
  <2> QED
    BY <1>1, <2>2 DEF Clocks
<1>3. CASE worldFile # <<>>
  <2>1. Good(worldFile)
    BY DEF IInv, World
  <2>2. Latest(worldFile) \in Transactions
    BY <1>3, <2>1 DEF Good, ChainOK, Latest
  <2>3. /\ Latest(worldFile).tick \in Nat /\ Latest(worldFile).advanced \in Nat
        /\ Latest(worldFile).advanced <= Latest(worldFile).tick
        /\ native => Latest(worldFile).tick <= Latest(worldFile).advanced + 1
    BY <1>3, <2>1, <2>2 DEF Good, LatestFits, Transactions
  <2>4. NextTick(worldFile) = IF native THEN Latest(worldFile).advanced + 1
                              ELSE Latest(worldFile).tick + 1
    BY <1>3 DEF NextTick
  <2>5. /\ version' = Latest(worldFile).version /\ advanced' = Latest(worldFile).advanced
        /\ prefix' # <<>> /\ Latest(prefix') = Latest(worldFile)
    BY <1>1, <1>3 DEF Latest
  <2>6. /\ tick' \in Nat /\ pumpTick' \in Nat /\ advanced' \in Nat /\ pumpTick' = tick'
        /\ advanced' < tick' /\ Latest(worldFile).tick <= tick'
        /\ native => tick' = advanced' + 1
    BY <1>1, <2>3, <2>4, <2>5
  <2> QED
    BY <1>1, <2>5, <2>6 DEF Clocks, Latest
<1> QED
  BY <1>2, <1>3

LEMMA RestartHolds ==
  ASSUME IInv, Restart
  PROVE  IInv'
<1>0. PICK world : world = LatestPlayers(worldFile)
  OBVIOUS
<1>a. PICK rs : rs = [id \in DOMAIN identityFile |->
                        IF id \in DOMAIN world /\ identityFile[id].lifecycle = "established"
                        THEN [identityFile[id] EXCEPT !.saved = Stamp(world[id])]
                        ELSE identityFile[id]]
  OBVIOUS
<1>1. /\ ~up /\ up' /\ up' = TRUE /\ records' = rs
      /\ nextPlayer' = 1 + Cardinality(DOMAIN identityFile)
      /\ players' = world /\ prefix' = worldFile
      /\ version' = IF worldFile = <<>> THEN 0 ELSE Latest(worldFile).version
      /\ UNCHANGED <<identityFile, worldFile, native, phase, step, committed, online, bound, last,
                     promised, refused>>
  BY <1>0, <1>a DEF Restart, disk, sessions, history
<1>2. /\ step = Idle /\ phase = "serve" /\ committed = Nothing /\ online = {} /\ bound = {}
  BY <1>1 DEF IInv, Shape
<1>3. Good(worldFile) /\ Owned(world, identityFile) /\ IsPartial(world, Stamps)
  BY <1>0, LatestPlayersType DEF IInv, World, Good, ChainOK
<1>4. IsPartial(identityFile, Records) /\ WellFormed(identityFile)
  BY DEF IInv, Registry
<1>5. DOMAIN rs = DOMAIN identityFile
  BY <1>a
<1>6. ASSUME NEW id \in DOMAIN identityFile
      PROVE  /\ rs[id] \in Records /\ rs[id].owner = identityFile[id].owner
             /\ rs[id].lifecycle = identityFile[id].lifecycle
             /\ rs[id].lifecycle = "established" <=> rs[id].saved # Unsaved
             /\ id \in DOMAIN world /\ rs[id].lifecycle = "established"
                  => rs[id].saved = Stamp(world[id])
  <2>1. /\ identityFile[id] \in Records
        /\ identityFile[id].lifecycle = "established" <=> identityFile[id].saved # Unsaved
    BY <1>4 DEF IsPartial, WellFormed
  <2>2. CASE id \in DOMAIN world /\ identityFile[id].lifecycle = "established"
    <3>1. rs[id] = [identityFile[id] EXCEPT !.saved = Stamp(world[id])]
      BY <1>a, <2>2
    <3>2. world[id] \in Stamps
      BY <1>3, <2>2 DEF IsPartial
    <3>3. /\ Stamp(world[id]) \in [epoch : 0 .. MaxRevision, revision : 0 .. MaxRevision]
          /\ Stamp(world[id]) # Unsaved
      BY <3>2 DEF Stamp, Stamps, Unsaved
    <3>4. /\ rs[id].owner = identityFile[id].owner
          /\ rs[id].lifecycle = identityFile[id].lifecycle
          /\ rs[id].saved = Stamp(world[id]) /\ rs[id] \in Records
      BY <2>1, <3>1, <3>3 DEF Records
    <3> QED
      BY <2>2, <3>3, <3>4
  <2>3. CASE ~(id \in DOMAIN world /\ identityFile[id].lifecycle = "established")
    <3>1. rs[id] = identityFile[id]
      BY <1>a, <2>3
    <3> QED
      BY <2>1, <2>3, <3>1
  <2> QED
    BY <2>2, <2>3
<1>7. nextPlayer' \in Nat \ {0} /\ Registered(rs, nextPlayer' - 1)
  <2>1. PICK n \in PlayerIds \cup {0} : DOMAIN identityFile = 1 .. n
    BY DEF IInv, Registry
  <2>2. n \in Nat
    BY DEF PlayerIds
  <2>3. Cardinality(1 .. n) = n
    BY <2>2, FS_Interval
  <2>4. nextPlayer' = n + 1 /\ nextPlayer' - 1 = n
    BY <1>1, <2>1, <2>2, <2>3
  <2>5. IsPartial(rs, Records) /\ Marked(rs)
    BY <1>4, <1>5, <1>6 DEF IsPartial, Marked
  <2> QED
    BY <1>5, <2>1, <2>2, <2>4, <2>5 DEF Registered
<1>8. Established(rs) = Established(identityFile)
  BY <1>5, <1>6 DEF Established
<1>9. Base' = rs
  BY <1>1, <1>2 DEF Base
<1>10. Registry'
  <2>1. /\ IsPartial(identityFile', Records) /\ WellFormed(identityFile)'
        /\ \E n \in PlayerIds \cup {0} : DOMAIN identityFile' = 1 .. n
        /\ DOMAIN identityFile' = DOMAIN records'
        /\ Established(identityFile') = Established(records')
        /\ \A x \in DOMAIN records' : identityFile'[x].owner = records'[x].owner
    BY <1>1, <1>5, <1>6, <1>8 DEF IInv, Registry, WellFormed
  <2> QED
    BY <1>1, <1>2, <1>7, <2>1 DEF Registry, Registered, Marked, Established
<1>11. Shape'
  <2>1. version' \in 0 .. MaxVersion
    <3>1. CASE worldFile = <<>>
      BY <1>1, <3>1
    <3>2. CASE worldFile # <<>>
      <4>1. Latest(worldFile) \in Transactions
        BY <1>3, <3>2 DEF Good, ChainOK, Latest
      <4> QED
        BY <1>1, <3>2, <4>1 DEF Transactions
    <3> QED
      BY <3>1, <3>2
  <2>2. up' \in BOOLEAN
    BY <1>1, Zenon
  <2> QED
    BY <1>1, <1>2, <1>3, <2>1, <2>2 DEF IInv, Shape
<1>12. Steps'
  BY <1>1, <1>2 DEF Steps, Idle
<1>13. History'
  BY <1>1, Zenon DEF IInv, History, Established
<1>14. Good(worldFile)' /\ Good(prefix)'
  BY <1>1, <1>3 DEF Good, ChainOK, ValidPrefix, LatestFits, Survives, Before, LatestPlayers,
                    Latest, Checksum
<1>15. Owned(world, rs)
  BY <1>3, <1>5, <1>6 DEF Owned
<1>16. LatestPlayers(worldFile') = world /\ LatestPlayers(prefix') = world
  BY <1>0, <1>1 DEF LatestPlayers, Latest
<1>17. World'
  BY <1>1, <1>3, <1>9, <1>14, <1>15, <1>16 DEF World, Owned, LatestPlayers, Latest
<1>18. Characters'
  <2>1. promised' <= version'
    <3>1. promised \in Nat /\ (promised > 0 => worldFile # <<>> /\ Latest(worldFile).version >= promised)
      BY <1>3 DEF IInv, History, Good, Survives
    <3>2. version' \in Nat
      BY <1>11 DEF Shape
    <3> QED
      BY <1>1, <3>1, <3>2
  <2>2. DOMAIN last \subseteq Established(rs)
    BY <1>8 DEF IInv, History
  <2>3. \A id \in DOMAIN last : id \in DOMAIN world /\ ~Before(world[id], last[id])
    BY <1>0, <1>3 DEF Good, Survives
  <2>4. ASSUME NEW id \in DOMAIN world \cap Established(rs)
        PROVE  rs[id].saved.epoch >= world[id].epoch
    <3>1. rs[id].saved = Stamp(world[id])
      BY <1>5, <1>6 DEF Established
    <3>2. world[id].epoch \in Nat
      BY <1>3 DEF IsPartial, Stamps
    <3> QED
      BY <3>1, <3>2 DEF Stamp
  <2> QED
    BY <1>1, <1>9, <1>14, <1>15, <1>16, <2>1, <2>2, <2>3, <2>4
       DEF Characters, Owned, LatestPlayers, Latest, Established, Before
<1> QED
  BY <1>10, <1>11, <1>12, <1>13, <1>17, <1>18, RestartedClock DEF IInv

-----------------------------------------------------------------------------
(* Every step. *)

LEMMA NextHolds ==
  ASSUME IInv, [Next]_vars
  PROVE  IInv' /\ Grows
<1>1. CASE \E outcome \in Outcomes : JoinCommits(outcome)
  BY <1>1, JoinCommitsHolds
<1>2. CASE \E id \in PlayerIds, outcome \in Outcomes : Reattach(id, outcome)
  BY <1>2, ReattachHolds
<1>3. CASE \E outcome \in Outcomes : CreationCommits(outcome)
  BY <1>3, CreationCommitsHolds
<1>4. CASE \E outcome \in Outcomes : PlayersHidden(outcome)
  BY <1>4, PlayersHiddenHolds
<1>5. CASE \E id \in PlayerIds, outcome \in Outcomes : ResumeSession(id, outcome)
  BY <1>5, ResumeSessionHolds
<1>6. CASE \E id \in PlayerIds, outcome \in Outcomes : ExpireSession(id, outcome)
  BY <1>6, ExpireSessionHolds
<1>7. CASE \E moved \in SUBSET DOMAIN players : \E crossed \in SUBSET moved, outcome \in Outcomes :
             CommitTick(moved, crossed, outcome)
  BY <1>7, CommitTickHolds
<1>8. CASE \E owner \in Owners : JoinBegins(owner)
  BY <1>8, JoinBeginsHolds, GrowsUnchanged DEF JoinBegins, history
<1>9. CASE \E written \in BOOLEAN : JoinRolledBack(written)
  BY <1>9, JoinRolledBackHolds, GrowsUnchanged DEF JoinRolledBack, history
<1>10. CASE \E id \in PlayerIds : CreationAdvances(id)
  BY <1>10, CreationAdvancesHolds, GrowsUnchanged DEF CreationAdvances, history
<1>11. CASE \E id \in PlayerIds : CreationCompletes(id)
  BY <1>11, CreationCompletesHolds, GrowsUnchanged DEF CreationCompletes, history
<1>12. CASE \E written \in BOOLEAN : CreationRolledBack(written)
  BY <1>12, CreationRolledBackHolds, GrowsUnchanged DEF CreationRolledBack, history
<1>13. CASE \E ids \in SUBSET online : ConnectionsLost(ids)
  BY <1>13, ConnectionsLostHolds, GrowsUnchanged DEF ConnectionsLost, history
<1>14. CASE \E ids \in SUBSET online : SendFailures(ids)
  BY <1>14, SendFailuresHolds, GrowsUnchanged DEF SendFailures, history
<1>15. CASE \E written \in BOOLEAN : SavePlayers(written)
  BY <1>15, SavePlayersHolds, GrowsUnchanged DEF SavePlayers, history
<1>16. CASE PumpEnds
  BY <1>16, PumpEndsHolds, GrowsUnchanged DEF PumpEnds, history
<1>17. CASE \E written \in BOOLEAN : Stop(written)
  BY <1>17, StopHolds, GrowsUnchanged DEF Stop, history
<1>18. CASE Crash
  BY <1>18, CrashHolds, GrowsUnchanged DEF Crash, history
<1>19. CASE Restart
  BY <1>19, RestartHolds, GrowsUnchanged DEF Restart, history
<1>20. CASE UNCHANGED vars
  BY <1>20, StutterHolds, GrowsUnchanged DEF vars, history
<1> QED
  BY <1>1, <1>2, <1>3, <1>4, <1>5, <1>6, <1>7, <1>8, <1>9, <1>10, <1>11, <1>12, <1>13, <1>14,
     <1>15, <1>16, <1>17, <1>18, <1>19, <1>20 DEF Next

\* The inductive invariant holds in every state.
LEMMA Invariance == Spec => []IInv
<1>1. Init => IInv
  BY InitHolds
<1>2. IInv /\ [Next]_vars => IInv'
  BY NextHolds
<1> QED
  BY <1>1, <1>2, PTL DEF Spec

-----------------------------------------------------------------------------
(* The theorems. *)

\* The files, the registry, the world and the chain always have their shapes:
\* the registry has the ids 1 .. nextPlayer - 1 and no player is without an
\* identity, in any interleaving of joins, rollbacks, crashes and restarts
\* (PlayerIdentityRegistry, ServerCommandReducer, CanonicalPersistenceFile).
THEOREM PersistenceTypeCorrect == Spec => []TypeOK
<1>1. IInv => TypeOK
  <2> SUFFICES ASSUME IInv
               PROVE  TypeOK
    OBVIOUS
  <2>1. \A i \in 1 .. Len(worldFile) : IsPartial(worldFile[i].players, Stamps)
    <3> SUFFICES ASSUME NEW i \in 1 .. Len(worldFile)
                 PROVE  IsPartial(worldFile[i].players, Stamps)
      OBVIOUS
    <3>1. worldFile \in Seq(Transactions)
      BY DEF IInv, World, Good, ChainOK
    <3>2. worldFile[i] \in Transactions
      BY <3>1
    <3>3. worldFile[i].players \in Partial(Stamps)
      BY <3>2 DEF Transactions
    <3> QED
      BY <3>3, PartialIs
  <2>2. \A i \in 1 .. Len(prefix) : IsPartial(prefix[i].players, Stamps)
    <3> SUFFICES ASSUME NEW i \in 1 .. Len(prefix)
                 PROVE  IsPartial(prefix[i].players, Stamps)
      OBVIOUS
    <3>1. prefix \in Seq(Transactions)
      BY DEF IInv, Shape, Characters, Good, ChainOK
    <3>2. prefix[i] \in Transactions
      BY <3>1
    <3>3. prefix[i].players \in Partial(Stamps)
      BY <3>2 DEF Transactions
    <3> QED
      BY <3>3, PartialIs
  <2>3. IsPartial(records, Records)
    <3>1. CASE up
      BY <3>1 DEF IInv, Registry, Registered
    <3>2. CASE ~up
      BY <3>2 DEF IInv, Shape, None, IsPartial
    <3> QED
      BY <3>1, <3>2
  <2>4. up => DOMAIN players \subseteq DOMAIN records
    BY OwnedOnDisk DEF IInv, Characters, Owned
  <2>5. up => DOMAIN records = 1 .. nextPlayer - 1
    BY DEF IInv, Registry, Registered
  <2>6. refused \in BOOLEAN
    BY Zenon DEF IInv, History
  <2> QED
    BY <2>1, <2>2, <2>3, <2>4, <2>5, <2>6 DEF TypeOK, IInv, Shape, Registry
<1> QED
  BY <1>1, Invariance, PTL

\* Wherever the process ends, the next start accepts both files, and every
\* character of the world still belongs to the credential it was made for
\* (main(), AuthenticatedJoinCoordinator::commit, PlayerIdentityRegistry::rollback).
THEOREM AlwaysRecoverable == Spec => []Recoverable
<1>1. IInv => Recoverable
  BY DEF IInv, Registry, World, Good, ChainOK, Owned, Recoverable, StartAccepted
<1> QED
  BY <1>1, Invariance, PTL

\* What was acknowledged is on disk: the version of the last commit, and every
\* established character with a record that is not older than the one that was
\* committed last, also when it has left the world since (durablePlayers,
\* CanonicalPersistenceFile::commit).
THEOREM AcknowledgedSurvives == Spec => []CharactersSurvive
<1>1. IInv => CharactersSurvive
  BY DEF IInv, History, World, Good, Survives, CharactersSurvive
<1> QED
  BY <1>1, Invariance, PTL

\* The chain takes every transaction that the reducer has prepared: compaction,
\* restarts and the barrier of a disconnect never make it refuse one
\* (disconnectConnections, CanonicalDurablePrefix::create).
THEOREM NeverRefused == Spec => []NothingRefused
<1>1. IInv => NothingRefused
  BY DEF IInv, History, NothingRefused
<1> QED
  BY <1>1, Invariance, PTL

\* An established character never gets an epoch and revision that it had before,
\* through leaving, expiry, coming back and restarts (prepareIdentity).
THEOREM StampsGrow == Spec => StampsIncrease
<1>1. IInv /\ [Next]_vars =>
        [\A id \in DOMAIN last : last'[id] # last[id] => Before(last[id], last'[id])]_vars
  BY NextHolds DEF Grows
<1> QED
  BY <1>1, Invariance, PTL DEF Spec, StampsIncrease

\* No tick is simulated twice, and the native engine skips none, over restarts
\* between a lifecycle transaction and the tick whose number it carries
\* (ServerCommandIntakeCoordinator, main()).
THEOREM ClockGoesOn == Spec => ClockContinues
<1>1. IInv /\ [Next]_vars =>
        [up /\ up' /\ advanced' # advanced =>
           IF native THEN advanced' = advanced + 1 ELSE advanced' > advanced]_vars
  <2> SUFFICES ASSUME IInv, Next, up, up', advanced' # advanced
               PROVE  IF native THEN advanced' = advanced + 1 ELSE advanced' > advanced
    BY DEF vars, canonical
  <2>1. ~Down
    BY DEF Down
  <2>2. ASSUME NEW v, NEW t, NEW ps, Apply(v, t, advanced, ps)
        PROVE  FALSE
    BY <2>2 DEF Apply
  <2>3. ~Keep
    BY DEF Keep, canonical
  <2>4. CASE \E moved \in SUBSET DOMAIN players : \E crossed \in SUBSET moved, outcome \in Outcomes :
               CommitTick(moved, crossed, outcome)
    <3>1. advanced' = tick
      BY <2>1, <2>4 DEF CommitTick, Apply
    <3> QED
      BY <3>1 DEF IInv, Clocks
  <2>5. CASE \E outcome \in Outcomes : JoinCommits(outcome)
    BY <2>2, <2>3, <2>5 DEF JoinCommits
  <2>6. CASE \E id \in PlayerIds, outcome \in Outcomes : Reattach(id, outcome)
    BY <2>2, <2>3, <2>6 DEF Reattach
  <2>7. CASE \E outcome \in Outcomes : CreationCommits(outcome)
    BY <2>2, <2>3, <2>7 DEF CreationCommits
  <2>8. CASE \E outcome \in Outcomes : PlayersHidden(outcome)
    BY <2>1, <2>2, <2>8 DEF PlayersHidden
  <2>9. CASE \E id \in PlayerIds, outcome \in Outcomes : ResumeSession(id, outcome)
    BY <2>2, <2>3, <2>9 DEF ResumeSession
  <2>10. CASE \E id \in PlayerIds, outcome \in Outcomes : ExpireSession(id, outcome)
    BY <2>1, <2>2, <2>10 DEF ExpireSession
  <2>11. CASE Restart \/ Crash \/ \E written \in BOOLEAN : Stop(written)
    BY <2>1, <2>11 DEF Restart, Crash, Stop
  <2>12. CASE \E written \in BOOLEAN : SavePlayers(written)
    BY <2>1, <2>12 DEF SavePlayers, canonical
  <2>13. CASE \/ \E owner \in Owners : JoinBegins(owner)
              \/ \E written \in BOOLEAN : JoinRolledBack(written) \/ CreationRolledBack(written)
              \/ \E id \in PlayerIds : CreationAdvances(id) \/ CreationCompletes(id)
              \/ \E ids \in SUBSET online : ConnectionsLost(ids) \/ SendFailures(ids)
              \/ PumpEnds
    BY <2>13 DEF JoinBegins, JoinRolledBack, CreationRolledBack, CreationAdvances, CreationCompletes,
                 ConnectionsLost, SendFailures, PumpEnds, canonical
  <2> QED
    BY <2>4, <2>5, <2>6, <2>7, <2>8, <2>9, <2>10, <2>11, <2>12, <2>13 DEF Next
<1> QED
  BY <1>1, Invariance, PTL DEF Spec, ClockContinues
=============================================================================
