----------------------- MODULE ResumeTokenStoreProofs -----------------------
(***************************************************************************)
(* Theorems about ResumeTokenStore, for every capacity, lifetime, clock    *)
(* width, set of tokens and interleaving of the callers.                   *)
(***************************************************************************)
EXTENDS ResumeTokenStore, ResumeTokensProofs

USE CapacityAssumption, ClockAssumption, CounterAssumption, TokenAssumption

-----------------------------------------------------------------------------
(* Type correctness. *)

\* The constructor's store is a store.
LEMMA InitTypeOK == Init => TypeOK
<1> SUFFICES ASSUME Init
             PROVE  TypeOK
  OBVIOUS
<1>1. IsStore(store)
  BY DEF Init, EmptyStore, IsStore, IsStoreOf, IsPartial, Ids
<1>2. IsPartial(consumes, Ids, Tokens)
  BY DEF Init, IsPartial
<1>3. serial \in BOOLEAN /\ undefined \in BOOLEAN
  BY Zenon DEF Init
<1>4. now \in Instants
  BY DEF Init, Instants
<1> QED
  BY <1>1, <1>2, <1>3, <1>4 DEF Init, TypeOK

\* Every call of the store's interface, and the clock, keep the types.
LEMMA NextTypeOK == TypeOK /\ IdsAreFresh /\ [Next]_vars => TypeOK'
<1> SUFFICES ASSUME TypeOK, IdsAreFresh, [Next]_vars
             PROVE  TypeOK'
  OBVIOUS
<1> Fresh \subseteq Tokens \cup {NoToken}
  BY DEF Fresh
<1>1. ASSUME NEW principal \in Principals, NEW session \in Sessions, NEW context \in Contexts,
             NEW token \in Fresh, issue(principal, session, 1, context, token)
      PROVE  TypeOK'
  <2>1. IsStore(store')
    BY <1>1, IssueType DEF issue, TypeOK, Generations, IsStore, Record
  <2>2. drawn' \subseteq Tokens
    BY <1>1 DEF issue, TypeOK, IssueAccepted
  <2>3. serial' \in BOOLEAN
    BY <1>1, Zenon DEF issue, Starts, TypeOK
  <2> QED
    BY <1>1, <2>1, <2>2, <2>3 DEF issue, TypeOK, IsPartial
<1>2. ASSUME NEW token \in drawn, NEW context \in Contexts, NEW replacement \in Fresh,
             prepareConsume(token, context, replacement)
      PROVE  TypeOK'
  <2>1. IsStore(store')
    BY <1>2, PrepareType DEF prepareConsume, TypeOK, IsStore, Record
  <2>4. serial' \in BOOLEAN
    BY <1>2, Zenon DEF prepareConsume, Starts, TypeOK
  <2>2. CASE PrepareAccepted(store, token, context, now, replacement)
    <3>1. drawn' \subseteq Tokens
      BY <1>2, <2>2 DEF prepareConsume, TypeOK, PrepareAccepted
    <3>2. IsPartial(consumes', Ids, Tokens)
      <4>1. /\ consumes' = Put(consumes, store.nextId, token)
            /\ store.nextId \in Ids
            /\ token \in Tokens
            /\ IsPartial(consumes, Ids, Tokens)
        BY <1>2, <2>2 DEF prepareConsume, TypeOK, IsStore, IsStoreOf
      <4> QED
        BY <4>1, PutType
    <3> QED
      BY <1>2, <2>1, <2>4, <3>1, <3>2 DEF prepareConsume, TypeOK
  <2>3. CASE ~PrepareAccepted(store, token, context, now, replacement)
    BY <1>2, <2>1, <2>3, <2>4 DEF prepareConsume, TypeOK, IsPartial
  <2> QED
    BY <2>2, <2>3
<1>3. ASSUME NEW id \in Ids, commitConsume(id)
      PROVE  TypeOK'
  <2>1. CASE CommitDefined(store, id)
    <3>1. IsStore(store')
      BY <1>3, <2>1, CommitType DEF commitConsume, TypeOK, IsStore
    <3>2. admitted' \subseteq [token : Tokens, id : Ids]
      <4>1. consumes[id] \in Tokens
        BY <1>3 DEF commitConsume, TypeOK, IdsAreFresh, IsPartial
      <4> QED
        BY <1>3, <2>1, <4>1 DEF commitConsume, TypeOK
    <3> QED
      BY <1>3, <2>1, <3>1, <3>2 DEF commitConsume, TypeOK, IsPartial
  <2>2. CASE ~CommitDefined(store, id)
    BY <1>3, <2>2 DEF commitConsume, TypeOK, IsStore, IsStoreOf, IsPartial
  <2> QED
    BY <2>1, <2>2
<1>4. ASSUME NEW id \in Ids, finalizeConsume(id)
      PROVE  TypeOK'
  BY <1>4, FinalizeType DEF finalizeConsume, TypeOK, IsStore, IsPartial
<1>5. ASSUME NEW id \in Ids, rollbackConsume(id)
      PROVE  TypeOK'
  BY <1>5, RollbackType DEF rollbackConsume, TypeOK, IsStore, IsPartial
<1>6. ASSUME NEW id \in Ids, cancelConsume(id)
      PROVE  TypeOK'
  BY <1>6, CancelType DEF cancelConsume, TypeOK, IsStore, IsPartial
<1>7. ASSUME NEW session \in Sessions, NEW generation \in Generations,
             keepAlive(session, generation)
      PROVE  TypeOK'
  <2>1. serial' \in BOOLEAN
    BY <1>7, Zenon DEF keepAlive, Starts, TypeOK
  <2>2. IsStore(store')
    BY <1>7, KeepAliveType DEF keepAlive, TypeOK, IsStore, Record
  <2> QED
    BY <1>7, <2>1, <2>2 DEF keepAlive, TypeOK, IsPartial
<1>8. CASE Tick
  BY <1>8, HorizonAssumption DEF Tick, TypeOK, IsStore, IsStoreOf, IsPartial, Instants
<1>9. CASE UNCHANGED vars
  BY <1>9 DEF vars, TypeOK, IsStore, IsStoreOf, IsPartial
<1> QED
  BY <1>1, <1>2, <1>3, <1>4, <1>5, <1>6, <1>7, <1>8, <1>9 DEF Next

-----------------------------------------------------------------------------
(* Token custody. *)

\* No token is anywhere in the constructor's store.
LEMMA InitCustody == Init => TokenCustody
BY DEF Init, EmptyStore, TokenCustody, IdsAreFresh, StoredTokensAreDrawn, TokensAreUnique,
       PresentedTokensAreReserved, PriorsAreAside, ReservationsAreExclusive, SingleWinner,
       SpentTokensStayDead, Occupied, SlotsOf

\* A step that moves the clock, renews records, or forgets records,
\* preparations or a commit, keeps every remaining token where it is.
LEMMA ForgettingKeepsCustody ==
  ASSUME TypeOK, TokenCustody, IsStore(store'),
         Occupied(store') \subseteq Occupied(store),
         \A slot \in Occupied(store') :
           store'.records[slot].digest = store.records[slot].digest,
         DOMAIN store'.pending \subseteq DOMAIN store.pending,
         \A id \in DOMAIN store'.pending : store'.pending[id] = store.pending[id],
         store'.committed \subseteq store.committed,
         store'.nextId = store.nextId,
         UNCHANGED <<drawn, consumes, admitted>>
  PROVE  TokenCustody'
<1>1. IdsAreFresh' /\ StoredTokensAreDrawn'
  BY DEF TokenCustody, IdsAreFresh, StoredTokensAreDrawn, Occupied
<1>2. TokensAreUnique'
  BY DEF TokenCustody, TokensAreUnique, Occupied
<1>3. PresentedTokensAreReserved'
  BY DEF TokenCustody, PresentedTokensAreReserved, Occupied
<1>4. PriorsAreAside'
  BY DEF TokenCustody, PriorsAreAside, Occupied, Reserved
<1>5. ReservationsAreExclusive' /\ SingleWinner' /\ SpentTokensStayDead'
  BY DEF TokenCustody, ReservationsAreExclusive, SingleWinner, SpentTokensStayDead, SlotsOf, Occupied
<1> QED
  BY <1>1, <1>2, <1>3, <1>4, <1>5 DEF TokenCustody

\* A step that adds one record with a new token, or replaces records by it.
LEMMA IssueKeepsCustody ==
  ASSUME TypeOK, TokenCustody, NEW token, NEW slot,
         token \notin drawn,
         drawn' = drawn \cup {token},
         slot \in Occupied(store'),
         store'.records[slot].digest = token,
         \A s \in Occupied(store') \ {slot} :
           s \in Occupied(store) /\ store'.records[s].digest = store.records[s].digest,
         store'.pending = store.pending,
         store'.committed = store.committed,
         store'.nextId = store.nextId,
         UNCHANGED <<consumes, admitted>>
  PROVE  TokenCustody'
<1>1. IdsAreFresh' /\ StoredTokensAreDrawn'
  BY DEF TokenCustody, IdsAreFresh, StoredTokensAreDrawn
<1>2. TokensAreUnique'
  BY DEF TokenCustody, TokensAreUnique, StoredTokensAreDrawn
<1>3. PresentedTokensAreReserved'
  BY DEF TokenCustody, PresentedTokensAreReserved, StoredTokensAreDrawn, IdsAreFresh
<1>4. PriorsAreAside'
  BY DEF TokenCustody, PriorsAreAside, StoredTokensAreDrawn, Reserved
<1>5. ReservationsAreExclusive' /\ SingleWinner'
  BY DEF TokenCustody, ReservationsAreExclusive, SingleWinner
<1>6. SpentTokensStayDead'
  BY DEF TokenCustody, SpentTokensStayDead, SlotsOf, StoredTokensAreDrawn, IdsAreFresh
<1> QED
  BY <1>1, <1>2, <1>3, <1>4, <1>5, <1>6 DEF TokenCustody

\* An accepted preparation: token is in one record that nobody reserves, and
\* the replacement is new.
LEMMA PrepareKeepsCustody ==
  ASSUME TypeOK, TokenCustody, NEW token, NEW replacement, NEW id,
         id = store.nextId, id # 0,
         SlotsOf(store, token) # {},
         ~Reserved(store, Found(store, token)),
         replacement \notin drawn,
         drawn' = drawn \cup {replacement},
         store'.records = store.records,
         DOMAIN store'.pending = DOMAIN store.pending \cup {id},
         store'.pending[id].slot = Found(store, token),
         store'.pending[id].replacement.digest = replacement,
         \A other \in DOMAIN store.pending :
           other # id => store'.pending[other] = store.pending[other],
         store'.committed = {},
         store'.nextId = (id + 1) % PreparationIds,
         consumes' = Put(consumes, id, token),
         admitted' = admitted
  PROVE  TokenCustody'
<1>1. id \notin DOMAIN consumes /\ id \notin DOMAIN store.pending
  BY DEF TypeOK, IsStore, IsStoreOf, TokenCustody, IdsAreFresh, Ids
<1>2. /\ DOMAIN consumes' = DOMAIN consumes \cup {id}
      /\ consumes'[id] = token
      /\ \A other \in DOMAIN consumes : consumes'[other] = consumes[other]
  BY <1>1 DEF Put
<1>3. /\ Found(store, token) \in Occupied(store)
      /\ store.records[Found(store, token)].digest = token
  BY FoundType DEF TypeOK, IsStore
<1>4. IdsAreFresh'
  <2>1. ASSUME NEW other \in DOMAIN consumes'
        PROVE  store'.nextId = 0 \/ other < store'.nextId
    <3>1. id \in Ids /\ other \in Ids /\ other <= id
      BY <1>2 DEF TypeOK, IsStore, IsStoreOf, IsPartial, TokenCustody, IdsAreFresh, Ids
    <3>2. (id + 1) % PreparationIds = 0 \/ (id + 1) % PreparationIds = id + 1
      BY <3>1 DEF Ids
    <3> QED
      BY <3>1, <3>2 DEF Ids
  <2> QED
    BY <1>1, <1>2, <2>1 DEF TokenCustody, IdsAreFresh
<1>5. StoredTokensAreDrawn'
  BY <1>1, <1>2, <1>3 DEF TokenCustody, StoredTokensAreDrawn, Occupied
<1>6. TokensAreUnique'
  BY <1>1, <1>2, <1>3 DEF TokenCustody, TokensAreUnique, StoredTokensAreDrawn, Occupied
<1>7. PresentedTokensAreReserved'
  <2>1. \A other \in DOMAIN store.pending : consumes[other] # token
    BY <1>3 DEF TokenCustody, PresentedTokensAreReserved, Reserved
  <2>2. \A slot \in Occupied(store) :
          store.records[slot].digest = token => slot = Found(store, token)
    BY <1>3 DEF TokenCustody, TokensAreUnique
  <2>3. \A a \in admitted : a.token # token
    BY <1>3 DEF TokenCustody, SpentTokensStayDead, SlotsOf
  <2> QED
    BY <1>1, <1>2, <2>1, <2>2, <2>3
       DEF TokenCustody, PresentedTokensAreReserved, IdsAreFresh, Occupied
<1>8. PriorsAreAside'
  BY DEF PriorsAreAside
<1>9. ReservationsAreExclusive'
  BY <1>1 DEF TokenCustody, ReservationsAreExclusive, Reserved
<1>10. SingleWinner' /\ SpentTokensStayDead'
  BY DEF TokenCustody, SingleWinner, SpentTokensStayDead, SlotsOf, Occupied
<1> QED
  BY <1>4, <1>5, <1>6, <1>7, <1>8, <1>9, <1>10 DEF TokenCustody

\* A commit: the presented token leaves the store with its record and the
\* staged replacement takes the slot.
LEMMA CommitKeepsCustody ==
  ASSUME TypeOK, TokenCustody, NEW id \in DOMAIN store.pending, CommitDefined(store, id),
         store' = CommitConsume(store, id),
         admitted' = admitted \cup {[token |-> consumes[id], id |-> id]},
         UNCHANGED <<drawn, consumes>>
  PROVE  TokenCustody'
<1> DEFINE slot  == store.pending[id].slot
           new   == store.pending[id].replacement
           prior == store.records[slot]
<1>1. /\ slot \in Occupied(store)
      /\ Occupied(store') = Occupied(store)
      /\ store'.records[slot] = new
      /\ \A s \in Occupied(store) : s # slot => store'.records[s] = store.records[s]
  BY DEF CommitConsume, CommitDefined, TypeOK, IsStore, IsStoreOf, Put, Occupied
<1>2. /\ DOMAIN store'.pending = DOMAIN store.pending \ {id}
      /\ \A i \in DOMAIN store'.pending : store'.pending[i] = store.pending[i]
  BY DEF CommitConsume, TypeOK, IsStore, IsStoreOf, Restrict
<1>3. /\ store'.committed = {[id |-> id, slot |-> slot, prior |-> prior]}
      /\ store'.nextId = store.nextId
  BY DEF CommitConsume, TypeOK, IsStore, IsStoreOf
<1>4. id \in DOMAIN consumes
  BY DEF TokenCustody, IdsAreFresh
<1>5. /\ \A s \in Occupied(store) : store.records[s].digest # new.digest
      /\ \A used \in DOMAIN consumes : consumes[used] # new.digest
      /\ \A i \in DOMAIN store.pending : i # id => store.pending[i].replacement.digest # new.digest
  BY DEF TokenCustody, TokensAreUnique
<1>6. \A i \in DOMAIN store.pending : i # id => consumes[i] # consumes[id] /\ store.pending[i].slot # slot
  BY DEF TokenCustody, PresentedTokensAreReserved, ReservationsAreExclusive
<1>7. \A s \in Occupied(store) : store.records[s].digest = consumes[id] => s = slot
  BY DEF TokenCustody, PresentedTokensAreReserved
<1> HIDE DEF slot, new, prior
<1>8. IdsAreFresh'
  BY <1>2, <1>3, <1>4 DEF TokenCustody, IdsAreFresh
<1>9. StoredTokensAreDrawn'
  BY <1>1, <1>2, <1>3 DEF TokenCustody, StoredTokensAreDrawn, new, prior
<1>10. TokensAreUnique'
  <2>1. \A s, t \in Occupied(store') :
          store'.records[s].digest = store'.records[t].digest => s = t
    BY <1>1, <1>5 DEF TokenCustody, TokensAreUnique
  <2>2. ASSUME NEW i \in DOMAIN store'.pending
        PROVE  LET token == store'.pending[i].replacement.digest
               IN  /\ \A s \in Occupied(store') : store'.records[s].digest # token
                   /\ \A c \in store'.committed : c.prior.digest # token
                   /\ \A used \in DOMAIN consumes : consumes[used] # token
    BY <1>1, <1>2, <1>3, <1>5 DEF TokenCustody, TokensAreUnique, prior
  <2> QED
    BY <1>2, <2>1, <2>2 DEF TokenCustody, TokensAreUnique
<1>11. PresentedTokensAreReserved'
  <2>1. ASSUME NEW i \in DOMAIN store'.pending, NEW s \in Occupied(store'),
               store'.records[s].digest = consumes[i]
        PROVE  s = store'.pending[i].slot
    BY <1>1, <1>2, <1>5, <2>1 DEF TokenCustody, PresentedTokensAreReserved, IdsAreFresh
  <2> QED
    BY <1>2, <1>6, <2>1 DEF TokenCustody, PresentedTokensAreReserved
<1>12. PriorsAreAside'
  <2>1. ~Reserved(store', slot)
    BY <1>2, <1>6 DEF Reserved
  <2>2. \A s \in Occupied(store') : store'.records[s].digest # prior.digest
    BY <1>1, <1>5 DEF TokenCustody, TokensAreUnique, prior
  <2>3. \A i \in DOMAIN store'.pending : consumes[i] # prior.digest
    BY <1>1, <1>2, <1>6 DEF TokenCustody, PresentedTokensAreReserved, prior
  <2>4. \A a \in admitted' : a.token = prior.digest => a.id = id
    BY <1>1 DEF TokenCustody, SpentTokensStayDead, SlotsOf, prior
  <2> QED
    BY <1>3, <2>1, <2>2, <2>3, <2>4 DEF PriorsAreAside
<1>13. ReservationsAreExclusive'
  BY <1>2 DEF TokenCustody, ReservationsAreExclusive
<1>14. SingleWinner'
  BY DEF TokenCustody, SingleWinner, PresentedTokensAreReserved
<1>15. SpentTokensStayDead'
  <2>1. ASSUME NEW a \in admitted', NEW s \in Occupied(store')
        PROVE  store'.records[s].digest # a.token
    BY <1>1, <1>4, <1>5, <1>7, <2>1
       DEF TokenCustody, SpentTokensStayDead, SlotsOf, IdsAreFresh
  <2> QED
    BY <2>1 DEF SpentTokensStayDead, SlotsOf
<1> QED
  BY <1>8, <1>9, <1>10, <1>11, <1>12, <1>13, <1>14, <1>15 DEF TokenCustody

\* A rollback: the record that was put aside returns and its resume no longer
\* counts.
LEMMA RollbackKeepsCustody ==
  ASSUME TypeOK, TokenCustody, NEW id, CommittedAs(store, id),
         store' = RollbackConsume(store, id),
         admitted' = admitted \ {[token |-> consumes[id], id |-> id]},
         UNCHANGED <<drawn, consumes>>
  PROVE  TokenCustody'
<1> DEFINE c == CHOOSE c \in store.committed : c.id = id
<1>1. c \in store.committed /\ c.id = id
  BY DEF CommittedAs
<1> HIDE DEF c
<1>2. store' = [store EXCEPT !.records = Put(@, c.slot, c.prior), !.committed = {}]
  BY Zenon DEF RollbackConsume, c
<1>3. /\ Occupied(store') = Occupied(store) \cup {c.slot}
      /\ store'.records[c.slot] = c.prior
      /\ \A s \in Occupied(store) : s # c.slot => store'.records[s] = store.records[s]
      /\ store'.pending = store.pending
      /\ store'.committed = {}
      /\ store'.nextId = store.nextId
  BY <1>2 DEF TypeOK, IsStore, IsStoreOf, Put, Occupied
<1>4. /\ \A s \in Occupied(store) : store.records[s].digest # c.prior.digest
      /\ \A i \in DOMAIN store.pending : consumes[i] # c.prior.digest
      /\ \A a \in admitted : a.token = c.prior.digest => a.id = id
      /\ \A i \in DOMAIN store.pending : store.pending[i].replacement.digest # c.prior.digest
      /\ c.prior.digest \in drawn
  BY <1>1 DEF TokenCustody, PriorsAreAside, TokensAreUnique, StoredTokensAreDrawn
<1>5. IdsAreFresh' /\ StoredTokensAreDrawn'
  BY <1>3, <1>4 DEF TokenCustody, IdsAreFresh, StoredTokensAreDrawn
<1>6. TokensAreUnique'
  BY <1>3, <1>4 DEF TokenCustody, TokensAreUnique
<1>7. PresentedTokensAreReserved'
  BY <1>3, <1>4 DEF TokenCustody, PresentedTokensAreReserved
<1>8. PriorsAreAside'
  BY <1>3 DEF PriorsAreAside
<1>9. ReservationsAreExclusive' /\ SingleWinner'
  BY <1>3 DEF TokenCustody, ReservationsAreExclusive, SingleWinner
<1>10. SpentTokensStayDead'
  <2>1. ASSUME NEW a \in admitted'
        PROVE  a.token # c.prior.digest
    <3>1. a.id # id
      BY DEF TypeOK, TokenCustody, IdsAreFresh
    <3> QED
      BY <1>4, <3>1
  <2> QED
    BY <1>3, <2>1 DEF TokenCustody, SpentTokensStayDead, SlotsOf
<1> QED
  BY <1>5, <1>6, <1>7, <1>8, <1>9, <1>10 DEF TokenCustody

\* Every call keeps each token in one place: one step per call, each reduced
\* to one of the lemmas above.
LEMMA NextCustody == TypeOK /\ TypeOK' /\ TokenCustody /\ [Next]_vars => TokenCustody'
<1> SUFFICES ASSUME TypeOK, TypeOK', TokenCustody, [Next]_vars
             PROVE  TokenCustody'
  OBVIOUS
<1> USE DEF TypeOK
<1>1. ASSUME NEW principal \in Principals, NEW session \in Sessions, NEW context \in Contexts,
             NEW token \in Fresh, issue(principal, session, 1, context, token)
      PROVE  TokenCustody'
  <2> DEFINE purged == PurgeExpired(store, now)
  <2>1. /\ IsStore(purged)
        /\ Occupied(purged) \subseteq Occupied(store)
        /\ \A s \in Occupied(purged) : purged.records[s] = store.records[s]
        /\ purged.pending = store.pending
        /\ purged.committed = store.committed
        /\ purged.nextId = store.nextId
    <3>1. /\ IsStore(purged)
          /\ purged.records = Restrict(store.records, Occupied(store) \ Purgeable(store, now))
          /\ purged.pending = store.pending
          /\ purged.committed = store.committed
          /\ purged.nextId = store.nextId
      BY PurgeType DEF IsStore
    <3> QED
      BY <3>1 DEF Restrict, Occupied
  <2> HIDE DEF purged
  <2>2. CASE ~IssueAccepted(store, now, token)
    <3>1. store' = purged
      BY <1>1, <2>2, Zenon DEF issue, Issue, purged
    <3> QED
      BY <1>1, <2>1, <2>2, <3>1, ForgettingKeepsCustody DEF issue
  <2>3. CASE IssueAccepted(store, now, token)
    <3> DEFINE slot   == Min(EmptySlots(purged))
               record == [ digest |-> token, principal |-> principal, session |-> session,
                           generation |-> 1, context |-> context,
                           expiresAt |-> ExpiryFrom(now) ]
    <3>1. store' = [purged EXCEPT !.records = Put(@, slot, record), !.size = @ + 1]
      BY <1>1, <2>3, Zenon DEF issue, Issue, purged
    <3>2. token \notin drawn /\ drawn' = drawn \cup {token}
      BY <1>1, <2>3 DEF issue, IssueAccepted, Fresh
    <3> HIDE DEF slot
    <3>3. /\ slot \in Occupied(store')
          /\ store'.records[slot].digest = token
          /\ \A s \in Occupied(store') \ {slot} :
               s \in Occupied(purged) /\ store'.records[s] = purged.records[s]
          /\ store'.pending = purged.pending
          /\ store'.committed = purged.committed
          /\ store'.nextId = purged.nextId
      BY <2>1, <3>1 DEF IsStore, IsStoreOf, Put, Occupied
    <3> QED
      BY <1>1, <2>1, <3>2, <3>3, IssueKeepsCustody DEF issue
  <2> QED
    BY <2>2, <2>3
<1>2. ASSUME NEW token \in drawn, NEW context \in Contexts, NEW replacement \in Fresh,
             prepareConsume(token, context, replacement)
      PROVE  TokenCustody'
  <2> DEFINE cleared == [store EXCEPT !.committed = {}]
             slot    == Found(store, token)
             staged  == [ slot        |-> slot,
                          replacement |-> Replacement(store, slot, now, replacement) ]
  <2>1. CASE ExpiredOnSight(store, token, now)
    <3>1. store' = [cleared EXCEPT !.records = Restrict(@, DOMAIN @ \ {slot}), !.size = @ - 1]
      BY <1>2, <2>1, Zenon DEF prepareConsume, PrepareConsume
    <3>2. ~PrepareAccepted(store, token, context, now, replacement)
      <4>1. store.records[slot] \in Record
        BY <2>1, FoundType DEF ExpiredOnSight, IsStore
      <4>2. store.records[slot].expiresAt \in Int
        BY <4>1 DEF Record, RecordOf, Instants
      <4> QED
        BY <2>1, <4>2 DEF ExpiredOnSight, PrepareAccepted, Instants
    <3>3. /\ Occupied(store') \subseteq Occupied(store)
          /\ \A s \in Occupied(store') : store'.records[s] = store.records[s]
          /\ store'.pending = store.pending
          /\ store'.committed = {}
          /\ store'.nextId = store.nextId
      BY <3>1 DEF IsStore, IsStoreOf, Restrict, Occupied
    <3> QED
      BY <1>2, <3>2, <3>3, ForgettingKeepsCustody DEF prepareConsume
  <2>2. CASE /\ ~ExpiredOnSight(store, token, now)
             /\ ~PrepareAccepted(store, token, context, now, replacement)
    <3>1. store' = cleared
      BY <1>2, <2>2, Zenon DEF prepareConsume, PrepareConsume
    <3>2. /\ store'.records = store.records
          /\ store'.pending = store.pending
          /\ store'.committed = {}
          /\ store'.nextId = store.nextId
      BY <3>1 DEF IsStore, IsStoreOf
    <3> QED
      BY <1>2, <2>2, <3>2, ForgettingKeepsCustody DEF prepareConsume, Occupied
  <2>3. CASE /\ ~ExpiredOnSight(store, token, now)
             /\ PrepareAccepted(store, token, context, now, replacement)
    <3>1. store' = [cleared EXCEPT !.pending = Put(@, store.nextId, staged),
                                   !.nextId  = (@ + 1) % PreparationIds]
      BY <1>2, <2>3, Zenon DEF prepareConsume, PrepareConsume
    <3>2. /\ store.nextId # 0
          /\ SlotsOf(store, token) # {}
          /\ ~Reserved(store, slot)
          /\ replacement \notin drawn
          /\ drawn' = drawn \cup {replacement}
          /\ consumes' = Put(consumes, store.nextId, token)
          /\ admitted' = admitted
      BY <1>2, <2>3 DEF prepareConsume, PrepareAccepted, Fresh
    <3>3. store.records[slot] \in Record
      BY <3>2, FoundType DEF IsStore
    <3>4. staged.slot = slot /\ staged.replacement.digest = replacement
      BY <3>3 DEF Replacement, Record, RecordOf
    <3> HIDE DEF staged, slot
    <3>5. /\ store'.records = store.records
          /\ DOMAIN store'.pending = DOMAIN store.pending \cup {store.nextId}
          /\ store'.pending[store.nextId] = staged
          /\ \A other \in DOMAIN store.pending :
               other # store.nextId => store'.pending[other] = store.pending[other]
          /\ store'.committed = {}
          /\ store'.nextId = (store.nextId + 1) % PreparationIds
      BY <3>1 DEF IsStore, IsStoreOf, Put
    <3> QED
      BY <3>2, <3>4, <3>5, PrepareKeepsCustody DEF slot
  <2> QED
    BY <2>1, <2>2, <2>3
<1>3. ASSUME NEW id \in Ids, commitConsume(id)
      PROVE  TokenCustody'
  <2>1. CASE CommitDefined(store, id)
    BY <1>3, <2>1, CommitKeepsCustody DEF commitConsume
  <2>2. CASE ~CommitDefined(store, id)
    BY <1>3, <2>2, ForgettingKeepsCustody DEF commitConsume, Occupied
  <2> QED
    BY <2>1, <2>2
<1>4. ASSUME NEW id \in Ids, finalizeConsume(id)
      PROVE  TokenCustody'
  <2>1. /\ store'.records = store.records
        /\ store'.pending = store.pending
        /\ store'.committed \subseteq store.committed
        /\ store'.nextId = store.nextId
    BY <1>4 DEF finalizeConsume, FinalizeConsume, IsStore, IsStoreOf
  <2> QED
    BY <1>4, <2>1, ForgettingKeepsCustody DEF finalizeConsume, Occupied
<1>5. ASSUME NEW id \in Ids, rollbackConsume(id)
      PROVE  TokenCustody'
  BY <1>5, RollbackKeepsCustody DEF rollbackConsume
<1>6. ASSUME NEW id \in Ids, cancelConsume(id)
      PROVE  TokenCustody'
  <2>1. /\ store'.records = store.records
        /\ DOMAIN store'.pending \subseteq DOMAIN store.pending
        /\ \A i \in DOMAIN store'.pending : store'.pending[i] = store.pending[i]
        /\ store'.committed = store.committed
        /\ store'.nextId = store.nextId
    BY <1>6 DEF cancelConsume, CancelConsume, IsStore, IsStoreOf, Restrict
  <2> QED
    BY <1>6, <2>1, ForgettingKeepsCustody DEF cancelConsume, Occupied
<1>7. ASSUME NEW session \in Sessions, NEW generation \in Generations,
             keepAlive(session, generation)
      PROVE  TokenCustody'
  <2>1. /\ Occupied(store') = Occupied(store)
        /\ store'.pending = store.pending
        /\ store'.committed = store.committed
        /\ store'.nextId = store.nextId
    BY <1>7 DEF keepAlive, KeepAlive, IsStore, IsStoreOf, Occupied
  <2>2. \A s \in Occupied(store) : store'.records[s].digest = store.records[s].digest
    BY <1>7 DEF keepAlive, KeepAlive, IsStore, IsStoreOf, IsPartial, Occupied, Record, RecordOf
  <2> QED
    BY <1>7, <2>1, <2>2, ForgettingKeepsCustody DEF keepAlive
<1>8. CASE Tick
  BY <1>8, ForgettingKeepsCustody DEF Tick, Occupied
<1>9. CASE UNCHANGED vars
  BY <1>9, ForgettingKeepsCustody DEF vars, Occupied
<1> QED
  BY <1>1, <1>2, <1>3, <1>4, <1>5, <1>6, <1>7, <1>8, <1>9 DEF Next

-----------------------------------------------------------------------------
(* The theorems. *)

\* The store keeps its representation and every token stays in one place,
\* whatever the callers do and in whichever order the mutex admits them.
THEOREM StoreInvariant == Spec => [](TypeOK /\ TokenCustody)
<1>1. Init => TypeOK /\ TokenCustody
  BY InitTypeOK, InitCustody
<1>2. TypeOK /\ TokenCustody /\ [Next]_vars => (TypeOK /\ TokenCustody)'
  BY NextTypeOK, NextCustody DEF TokenCustody
<1> QED
  BY <1>1, <1>2, PTL DEF Spec

\* Type correctness of the store: no counter, instant or generation leaves its
\* width (expiryFrom, next(), mNextPreparationId++).
THEOREM TypeCorrect == Spec => []TypeOK
BY StoreInvariant, PTL

\* A resume token admits at most one resume that stands, for any number of
\* callers racing with it (prepareConsume, commitConsume, rollbackConsume).
THEOREM TokenAdmitsOnce == Spec => []SingleWinner
<1>1. TokenCustody => SingleWinner
  BY DEF TokenCustody
<1> QED
  BY <1>1, StoreInvariant, PTL

\* A spent token is never found again.
THEOREM SpentTokensAreGone == Spec => []SpentTokensStayDead
<1>1. TokenCustody => SpentTokensStayDead
  BY DEF TokenCustody
<1> QED
  BY <1>1, StoreInvariant, PTL

\* No two preparations hold the same record.
THEOREM ExclusiveReservations == Spec => []ReservationsAreExclusive
<1>1. TokenCustody => ReservationsAreExclusive
  BY DEF TokenCustody
<1> QED
  BY <1>1, StoreInvariant, PTL

-----------------------------------------------------------------------------
(* Serial use. *)

\* One resume at a time: its preparation, then its commit, which replaced a
\* record that is still there.
OneResumeAtATime ==
  /\ \A i, j \in DOMAIN store.pending : i = j
  /\ DOMAIN store.pending # {} => store.committed = {}
  /\ \A c \in store.committed : c.slot \in Occupied(store)

\* What serial callers keep: inductive together with TypeOK and TokenCustody.
SerialInv ==
  serial => /\ SizeCountsRecords
            /\ ReservedRecordSurvives
            /\ ~undefined
            /\ OneResumeAtATime

\* The occupied slots are finitely many.
LEMMA OccupiedIsFinite ==
  ASSUME NEW st, IsStore(st)
  PROVE  IsFiniteSet(Occupied(st)) /\ Cardinality(Occupied(st)) \in Nat
<1>1. Occupied(st) \subseteq Slots
  BY DEF Occupied, IsStore, IsStoreOf, IsPartial
<1>2. IsFiniteSet(Slots)
  BY FS_Interval DEF Slots
<1> QED
  BY <1>1, <1>2, FS_Subset, FS_CardinalityType

\* purgeExpired() takes from mSize what it takes from mRecords.
LEMMA PurgeCounts ==
  ASSUME NEW st, IsStore(st), NEW t \in Instants, st.size = Cardinality(Occupied(st))
  PROVE  PurgeExpired(st, t).size = Cardinality(Occupied(PurgeExpired(st, t)))
<1> DEFINE purged == PurgeExpired(st, t)
           gone == Purgeable(st, t)
<1>1. Occupied(purged) = Occupied(st) \ gone
  BY DEF PurgeExpired, IsStore, IsStoreOf, Restrict, Occupied
<1>2. purged.size = st.size - Cardinality(gone)
  BY DEF PurgeExpired, IsStore, IsStoreOf
<1>3. gone \subseteq Occupied(st) /\ IsFiniteSet(Occupied(st))
  BY OccupiedIsFinite DEF Purgeable
<1> HIDE DEF gone, purged
<1>4. Cardinality(Occupied(st) \ gone) = Cardinality(Occupied(st)) - Cardinality(Occupied(st) \cap gone)
  BY <1>3, FS_Difference
<1>5. Occupied(st) \cap gone = gone
  BY <1>3
<1> QED
  BY <1>1, <1>2, <1>4, <1>5 DEF purged

\* issue() counts the record it writes.
LEMMA IssueCounts ==
  ASSUME NEW st, IsStore(st), NEW t \in Instants, st.size = Cardinality(Occupied(st)),
         NEW principal, NEW session, NEW generation, NEW context, NEW token
  PROVE  LET new == Issue(st, principal, session, generation, context, t, token)
         IN  new.size = Cardinality(Occupied(new))
<1> DEFINE purged == PurgeExpired(st, t)
           new == Issue(st, principal, session, generation, context, t, token)
           slot == Min(EmptySlots(purged))
           record == [ digest |-> token, principal |-> principal, session |-> session,
                       generation |-> generation, context |-> context,
                       expiresAt |-> ExpiryFrom(t) ]
<1>1. IsStore(purged) /\ purged.size = Cardinality(Occupied(purged))
  BY PurgeCounts, PurgeType DEF IsStore
<1>2. CASE ~IssueAccepted(st, t, token)
  BY <1>1, <1>2 DEF Issue
<1>3. CASE IssueAccepted(st, t, token)
  <2>1. new = [purged EXCEPT !.records = Put(@, slot, record), !.size = @ + 1]
    BY <1>3, Zenon DEF Issue
  <2>2. slot \notin Occupied(purged)
    BY <1>3, MinIsMember DEF IssueAccepted, EmptySlots, Slots
  <2>3. IsFiniteSet(Occupied(purged))
    BY <1>1, OccupiedIsFinite
  <2> HIDE DEF new, purged, slot, record
  <2>4. Occupied(new) = Occupied(purged) \cup {slot} /\ new.size = purged.size + 1
    BY <1>1, <2>1 DEF IsStore, IsStoreOf, Occupied, Put
  <2>5. Cardinality(Occupied(purged) \cup {slot}) = Cardinality(Occupied(purged)) + 1
    BY <2>2, <2>3, FS_AddElement
  <2> QED
    BY <1>1, <2>4, <2>5 DEF new
<1> QED
  BY <1>2, <1>3

\* A step of a caller that starts something keeps what serial callers rely on
\* when it leaves no preparation and no commit behind.
LEMMA QuietStep ==
  ASSUME undefined' = undefined, serial' => ~undefined,
         serial' => SizeCountsRecords', serial' => DOMAIN store'.pending = {},
         serial' => store'.committed = {}
  PROVE  SerialInv'
  BY DEF SerialInv, ReservedRecordSurvives, OneResumeAtATime

\* A preparation of a serial caller.
LEMMA SerialPrepare ==
  ASSUME TypeOK, TokenCustody, SerialInv, NEW token, NEW context \in Contexts,
         NEW replacement \in Fresh, prepareConsume(token, context, replacement)
  PROVE  SerialInv'
<1> DEFINE slot == Found(store, token)
<1>1. /\ serial' => serial /\ Quiet
      /\ undefined' = undefined
  BY Zenon DEF prepareConsume, Starts
<1>2. /\ IsStoreOf(store, Record) /\ Record = RecordOf(Principals, Sessions, Contexts)
      /\ now \in Instants /\ replacement \in Tokens \cup {NoToken}
      /\ store' = PrepareConsume(store, token, context, now, replacement)
  BY DEF prepareConsume, TypeOK, IsStore, Record, Fresh
<1>3. CASE ~PrepareAccepted(store, token, context, now, replacement)
  <2>1. store'.pending = store.pending /\ store'.committed = {}
    BY <1>2, <1>3, RefusedPrepareEffect
  <2>2. ASSUME serial' PROVE SizeCountsRecords'
    <3>0. store.size = Cardinality(Occupied(store))
      BY <1>1, <2>2 DEF SerialInv, SizeCountsRecords
    <3>1. CASE ExpiredOnSight(store, token, now)
      <4>1. store' = [[store EXCEPT !.committed = {}] EXCEPT
                        !.records = Restrict(@, DOMAIN @ \ {slot}), !.size = @ - 1]
        BY <1>2, <3>1, Zenon DEF PrepareConsume
      <4>2. slot \in Occupied(store)
        BY <1>2, <3>1, FoundType DEF ExpiredOnSight
      <4> HIDE DEF slot
      <4>3. Occupied(store') = Occupied(store) \ {slot} /\ store'.size = store.size - 1
        BY <1>2, <4>1 DEF IsStoreOf, Restrict, Occupied
      <4>4. Cardinality(Occupied(store) \ {slot}) = Cardinality(Occupied(store)) - 1
        BY <1>2, <4>2, OccupiedIsFinite, FS_RemoveElement DEF IsStore
      <4> QED
        BY <3>0, <4>3, <4>4 DEF SizeCountsRecords
    <3>2. CASE ~ExpiredOnSight(store, token, now)
      <4>1. store' = [store EXCEPT !.committed = {}]
        BY <1>2, <1>3, <3>2, Zenon DEF PrepareConsume
      <4> QED
        BY <1>2, <3>0, <4>1 DEF IsStoreOf, SizeCountsRecords, Occupied
    <3> QED
      BY <3>1, <3>2
  <2> QED
    BY <1>1, <2>1, <2>2, QuietStep DEF SerialInv, Quiet
<1>4. CASE PrepareAccepted(store, token, context, now, replacement)
  <2> DEFINE id == store.nextId
  <2>1. /\ store'.records = store.records
        /\ DOMAIN store'.pending = DOMAIN store.pending \cup {id}
        /\ store'.pending[id] =
             [slot |-> slot, replacement |-> Replacement(store, slot, now, replacement)]
        /\ store'.committed = {}
    BY <1>2, <1>4, AcceptedPrepareEffect
  <2>2. store'.size = store.size
    <3>1. store.records[slot] \in Record
      BY <1>2, <1>4, FoundType DEF PrepareAccepted
    <3>2. store.records[slot].expiresAt \in Int
      BY <3>1 DEF Record, RecordOf, Instants
    <3>3. ~ExpiredOnSight(store, token, now)
      BY <1>2, <1>4, <3>2 DEF PrepareAccepted, ExpiredOnSight, Instants
    <3>4. store' = [[store EXCEPT !.committed = {}] EXCEPT
                      !.pending = Put(@, id, [slot |-> slot, replacement |->
                                               Replacement(store, slot, now, replacement)]),
                      !.nextId  = (@ + 1) % PreparationIds]
      BY <1>2, <1>4, <3>3, Zenon DEF PrepareConsume
    <3> HIDE DEF slot
    <3> QED
      BY <1>2, <3>4 DEF IsStoreOf
  <2>3. /\ slot \in Occupied(store)
        /\ store.records[slot] \in Record
        /\ store.records[slot].digest = token
    BY <1>2, <1>4, FoundType DEF PrepareAccepted
  <2>4. consumes'[id] = token
    BY <1>4 DEF prepareConsume, Put
  <2>5. /\ Replacement(store, slot, now, replacement).session = store.records[slot].session
        /\ Replacement(store, slot, now, replacement).generation = store.records[slot].generation + 1
    BY <2>3 DEF Replacement, Record, RecordOf
  <2> HIDE DEF slot, id
  <2>6. ASSUME serial' PROVE SizeCountsRecords' /\ ReservedRecordSurvives' /\ ~undefined' /\ OneResumeAtATime'
    <3>1. DOMAIN store.pending = {} /\ store.size = Cardinality(Occupied(store)) /\ ~undefined
      BY <1>1, <2>6 DEF SerialInv, Quiet, SizeCountsRecords
    <3>2. SizeCountsRecords'
      BY <2>1, <2>2, <3>1 DEF SizeCountsRecords, Occupied
    <3>3. ReservedRecordSurvives'
      BY <2>1, <2>3, <2>4, <2>5, <3>1 DEF ReservedRecordSurvives, Occupied
    <3>4. OneResumeAtATime'
      BY <2>1, <3>1 DEF OneResumeAtATime
    <3> QED
      BY <1>1, <3>1, <3>2, <3>3, <3>4
  <2> QED
    BY <2>6 DEF SerialInv
<1> QED
  BY <1>3, <1>4

\* Every call of a serial caller keeps what it relies on.
LEMMA NextSerialInv == TypeOK /\ TypeOK' /\ TokenCustody /\ SerialInv /\ [Next]_vars => SerialInv'
<1> SUFFICES ASSUME TypeOK, TypeOK', TokenCustody, SerialInv, [Next]_vars
             PROVE  SerialInv'
  OBVIOUS
<1>0. IsStore(store) /\ IsStoreOf(store, Record) /\ now \in Instants
  BY DEF TypeOK, IsStore
<1>1. ASSUME NEW principal \in Principals, NEW session \in Sessions, NEW context \in Contexts,
             NEW token \in Fresh, issue(principal, session, 1, context, token)
      PROVE  SerialInv'
  <2>1. /\ serial' => serial /\ Quiet
        /\ undefined' = undefined
        /\ store' = Issue(store, principal, session, 1, context, now, token)
    BY <1>1, Zenon DEF issue, Starts
  <2>2. store'.pending = store.pending /\ store'.committed = store.committed
    BY <1>0, <2>1, IssueEffect
  <2>3. serial' => SizeCountsRecords'
    BY <1>0, <2>1, IssueCounts DEF SerialInv, SizeCountsRecords
  <2> QED
    BY <2>1, <2>2, <2>3, QuietStep DEF SerialInv, Quiet
<1>2. ASSUME NEW token \in drawn, NEW context \in Contexts, NEW replacement \in Fresh,
             prepareConsume(token, context, replacement)
      PROVE  SerialInv'
  BY <1>2, SerialPrepare
<1>3. ASSUME NEW id \in Ids, commitConsume(id)
      PROVE  SerialInv'
  <2>1. serial' = serial /\ id \in DOMAIN store.pending
    BY <1>3 DEF commitConsume
  <2>2. ASSUME serial PROVE SizeCountsRecords' /\ ReservedRecordSurvives' /\ ~undefined' /\ OneResumeAtATime'
    <3>1. CommitDefined(store, id) /\ ~undefined
      BY <2>1, <2>2 DEF SerialInv, ReservedRecordSurvives, CommitDefined
    <3>2. store' = CommitConsume(store, id) /\ ~undefined'
      BY <1>3, <3>1 DEF commitConsume
    <3>3. /\ DOMAIN store'.pending = {}
          /\ store'.committed = {[id |-> id, slot |-> store.pending[id].slot,
                                  prior |-> store.records[store.pending[id].slot]]}
      BY <1>0, <2>1, <2>2, <3>2, CommitEffect DEF SerialInv, OneResumeAtATime
    <3>4. Occupied(store') = Occupied(store) /\ store'.size = store.size
      BY <1>0, <3>1, <3>2 DEF CommitConsume, CommitDefined, IsStoreOf, Put, Occupied
    <3>5. SizeCountsRecords'
      BY <2>2, <3>4 DEF SerialInv, SizeCountsRecords
    <3>6. ReservedRecordSurvives'
      BY <3>3 DEF ReservedRecordSurvives
    <3>7. OneResumeAtATime'
      BY <3>1, <3>3, <3>4 DEF OneResumeAtATime, CommitDefined
    <3> QED
      BY <3>2, <3>5, <3>6, <3>7
  <2> QED
    BY <2>1, <2>2 DEF SerialInv
<1>4. ASSUME NEW id \in Ids, finalizeConsume(id)
      PROVE  SerialInv'
  <2>1. /\ store'.records = store.records /\ store'.pending = store.pending
        /\ store'.committed \subseteq store.committed
        /\ store'.size = store.size
    <3>1. store' = FinalizeConsume(store, id)
      BY <1>4 DEF finalizeConsume
    <3> QED
      BY <1>0, <3>1, FinalizeEffect DEF FinalizeConsume, IsStoreOf
  <2>2. UNCHANGED <<consumes, serial, undefined>>
    BY <1>4 DEF finalizeConsume
  <2> QED
    BY <2>1, <2>2 DEF SerialInv, SizeCountsRecords, ReservedRecordSurvives, OneResumeAtATime, Occupied
<1>5. ASSUME NEW id \in Ids, rollbackConsume(id)
      PROVE  SerialInv'
  <2> DEFINE c == CHOOSE c \in store.committed : c.id = id
  <2>1. /\ CommittedAs(store, id) /\ store' = RollbackConsume(store, id)
        /\ UNCHANGED <<consumes, serial, undefined>>
    BY <1>5 DEF rollbackConsume
  <2>2. c \in store.committed
    BY <2>1 DEF CommittedAs
  <2>3. store' = [store EXCEPT !.records = Put(@, c.slot, c.prior), !.committed = {}]
    BY <2>1, Zenon DEF RollbackConsume
  <2> HIDE DEF c
  <2>4. /\ Occupied(store') = Occupied(store) \cup {c.slot}
        /\ store'.pending = store.pending /\ store'.committed = {} /\ store'.size = store.size
    BY <1>0, <2>3 DEF IsStoreOf, Put, Occupied
  <2>5. serial => c.slot \in Occupied(store) /\ DOMAIN store.pending = {}
    BY <2>2 DEF SerialInv, OneResumeAtATime
  <2>6. serial => Occupied(store') = Occupied(store)
    BY <2>4, <2>5
  <2>7. serial => SizeCountsRecords'
    BY <2>4, <2>6 DEF SerialInv, SizeCountsRecords
  <2> QED
    BY <2>1, <2>4, <2>5, <2>7 DEF SerialInv, ReservedRecordSurvives, OneResumeAtATime
<1>6. ASSUME NEW id \in Ids, cancelConsume(id)
      PROVE  SerialInv'
  <2>1. /\ store' = CancelConsume(store, id) /\ UNCHANGED <<consumes, serial, undefined>>
    BY <1>6 DEF cancelConsume
  <2>2. /\ store'.records = store.records
        /\ DOMAIN store'.pending \subseteq DOMAIN store.pending
        /\ \A i \in DOMAIN store'.pending : store'.pending[i] = store.pending[i]
        /\ store'.committed = store.committed
    BY <1>0, <2>1, CancelEffect
  <2>3. store'.size = store.size
    BY <1>0, <2>1 DEF CancelConsume, IsStoreOf
  <2> QED
    BY <2>1, <2>2, <2>3
       DEF SerialInv, SizeCountsRecords, ReservedRecordSurvives, OneResumeAtATime, Occupied
<1>7. ASSUME NEW session \in Sessions, NEW generation \in Generations,
             keepAlive(session, generation)
      PROVE  SerialInv'
  <2>1. /\ serial' => serial /\ Quiet
        /\ undefined' = undefined
        /\ store' = KeepAlive(store, session, generation, now)
    BY <1>7, Zenon DEF keepAlive, Starts
  <2>2. /\ Occupied(store') = Occupied(store) /\ store'.size = store.size
        /\ store'.pending = store.pending /\ store'.committed = store.committed
    BY <1>0, <2>1 DEF KeepAlive, IsStoreOf, Occupied
  <2>3. serial' => SizeCountsRecords'
    BY <2>1, <2>2 DEF SerialInv, SizeCountsRecords
  <2> QED
    BY <2>1, <2>2, <2>3, QuietStep DEF SerialInv, Quiet
<1>8. CASE Tick \/ UNCHANGED vars
  <2>1. UNCHANGED <<store, consumes, serial, undefined>>
    BY <1>8 DEF Tick, vars
  <2> QED
    BY <2>1 DEF SerialInv, SizeCountsRecords, ReservedRecordSurvives, OneResumeAtATime, Occupied
<1> QED
  BY <1>1, <1>2, <1>3, <1>4, <1>5, <1>6, <1>7, <1>8 DEF Next

\* A caller that ends each resume before it asks for anything else, as
\* ServerApplication does, never loses a record under a reservation, never
\* makes commitConsume dereference an empty slot, and mSize counts the records.
THEOREM SerialUseSafe == Spec => []SerialUseIsSafe
<1>1. Init => SerialInv
  <2> SUFFICES ASSUME Init PROVE SerialInv
    OBVIOUS
  <2>1. Occupied(store) = {} /\ DOMAIN store.pending = {} /\ store.committed = {} /\ store.size = 0
    BY DEF Init, EmptyStore, Occupied
  <2>2. ~undefined
    BY DEF Init
  <2>3. SizeCountsRecords
    BY <2>1, FS_EmptySet DEF SizeCountsRecords
  <2> QED
    BY <2>1, <2>2, <2>3 DEF SerialInv, ReservedRecordSurvives, OneResumeAtATime
<1>2. TypeOK /\ TokenCustody /\ SerialInv /\ [Next]_vars => SerialInv'
  BY NextTypeOK, NextSerialInv DEF TokenCustody
<1>3. SerialInv => SerialUseIsSafe
  BY DEF SerialInv, SerialUseIsSafe
<1> QED
  BY <1>1, <1>2, <1>3, StoreInvariant, PTL DEF Spec
=============================================================================
