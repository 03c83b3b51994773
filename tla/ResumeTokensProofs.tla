------------------------- MODULE ResumeTokensProofs -------------------------
(***************************************************************************)
(* What the operations of the resume token store return, for every store   *)
(* of its type: lemmas for the proofs about the components that call them. *)
(***************************************************************************)
EXTENDS ResumeTokens, FiniteSetTheorems, WellFoundedInduction, TLAPS

USE CapacityAssumption, ClockAssumption, CounterAssumption, TokenAssumption

-----------------------------------------------------------------------------
(* The operators the store is built from. *)

\* emptySlot() and find() return an element of the set they search.
LEMMA MinIsMember ==
  ASSUME NEW S, S \subseteq Nat, S # {}
  PROVE  Min(S) \in S /\ \A y \in S : Min(S) <= y
<1> DEFINE Less == {ss \in Nat \X Nat : ss[1] < ss[2]}
<1>1. IsWellFoundedOn(Less, Nat)
  BY NatLessThanWellFounded, Zenon DEF OpToRel
<1> HIDE DEF Less
<1>2. PICK x \in S : \A y \in S : <<y, x>> \notin Less
  BY <1>1, WFMin
<1>3. ASSUME NEW y \in S
      PROVE  x <= y
  <2>1. y < x => <<y, x>> \in Less
    BY <1>2, Zenon DEF Less
  <2> QED
    BY <1>2, <2>1
<1> QED
  BY <1>2, <1>3 DEF Min

\* Writing an entry of mRecords or mPending keeps the function partial.
LEMMA PutType ==
  ASSUME NEW f, NEW D, NEW R, NEW k \in D, NEW v \in R, IsPartial(f, D, R)
  PROVE  /\ IsPartial(Put(f, k, v), D, R)
         /\ DOMAIN Put(f, k, v) = DOMAIN f \cup {k}
         /\ Put(f, k, v)[k] = v
         /\ \A x \in DOMAIN f : x # k => Put(f, k, v)[x] = f[x]
BY DEF IsPartial, Put

\* Erasing entries of mRecords or mPending keeps the function partial.
LEMMA RestrictType ==
  ASSUME NEW f, NEW D, NEW R, NEW S, IsPartial(f, D, R)
  PROVE  /\ IsPartial(Restrict(f, DOMAIN f \ S), D, R)
         /\ DOMAIN Restrict(f, DOMAIN f \ S) = DOMAIN f \ S
         /\ \A x \in DOMAIN f \ S : Restrict(f, DOMAIN f \ S)[x] = f[x]
BY DEF IsPartial, Restrict

\* expiryFrom() stays within the clock when its test passed.
LEMMA ExpiryType ==
  ASSUME NEW t \in Instants, ExpiryFits(t)
  PROVE  ExpiryFrom(t) \in Instants
BY DEF Instants, ExpiryFits, ExpiryFrom

\* The stores of the class are closed under its operations.
LEMMA PurgeType ==
  ASSUME NEW R, NEW st, IsStoreOf(st, R), NEW t \in Instants
  PROVE  /\ IsStoreOf(PurgeExpired(st, t), R)
         /\ PurgeExpired(st, t).records = Restrict(st.records, Occupied(st) \ Purgeable(st, t))
         /\ PurgeExpired(st, t).pending = st.pending
         /\ PurgeExpired(st, t).committed = st.committed
         /\ PurgeExpired(st, t).nextId = st.nextId
<1>1. Purgeable(st, t) \subseteq Slots
  BY DEF Purgeable, Occupied, IsStoreOf, IsPartial
<1>2. IsFiniteSet(Slots)
  BY FS_Interval DEF Slots
<1>3. Cardinality(Purgeable(st, t)) \in Nat
  BY <1>1, <1>2, FS_Subset, FS_CardinalityType
<1>4. IsPartial(Restrict(st.records, Occupied(st) \ Purgeable(st, t)), Slots, R)
  BY RestrictType DEF IsStoreOf, Occupied
<1> QED
  BY <1>3, <1>4 DEF IsStoreOf, PurgeExpired, Occupied

\* issue() returns a store, whether it is accepted or only purges.
LEMMA IssueType ==
  ASSUME NEW Principals, NEW Sessions, NEW Contexts,
         NEW R, R = RecordOf(Principals, Sessions, Contexts),
         NEW st, IsStoreOf(st, R), NEW t \in Instants, NEW principal \in Principals,
         NEW session \in Sessions, NEW generation \in Generations,
         NEW context \in Contexts, NEW token \in Tokens \cup {NoToken}
  PROVE  IsStoreOf(Issue(st, principal, session, generation, context, t, token), R)
<1> DEFINE purged == PurgeExpired(st, t)
           record == [ digest |-> token, principal |-> principal, session |-> session,
                       generation |-> generation, context |-> context,
                       expiresAt |-> ExpiryFrom(t) ]
<1>1. IsStoreOf(purged, R)
  BY PurgeType
<1>2. CASE ~IssueAccepted(st, t, token)
  BY <1>1, <1>2 DEF Issue
<1>3. CASE IssueAccepted(st, t, token)
  <2>1. Min(EmptySlots(purged)) \in Slots
    BY <1>3, MinIsMember DEF IssueAccepted, EmptySlots, Slots
  <2>2. record \in R
    BY <1>3, ExpiryType DEF IssueAccepted, RecordOf
  <2>3. IsPartial(Put(purged.records, Min(EmptySlots(purged)), record), Slots, R)
    BY <1>1, <2>1, <2>2, PutType DEF IsStoreOf
  <2>4. Issue(st, principal, session, generation, context, t, token)
          = [purged EXCEPT !.records = Put(@, Min(EmptySlots(purged)), record),
                           !.size = @ + 1]
    BY <1>3, Zenon DEF Issue
  <2> QED
    BY <1>1, <2>3, <2>4 DEF IsStoreOf
<1> QED
  BY <1>2, <1>3

\* find() returns an occupied slot with the digest it was asked for.
LEMMA FoundType ==
  ASSUME NEW R, NEW st, IsStoreOf(st, R), NEW token, SlotsOf(st, token) # {}
  PROVE  /\ Found(st, token) \in Occupied(st)
         /\ Found(st, token) \in Slots
         /\ st.records[Found(st, token)] \in R
         /\ st.records[Found(st, token)].digest = token
<1>1. Found(st, token) \in SlotsOf(st, token)
  BY MinIsMember DEF Found, SlotsOf, Occupied, IsStoreOf, IsPartial, Slots
<1> QED
  BY <1>1 DEF SlotsOf, Occupied, IsStoreOf, IsPartial

\* prepareConsume() returns a store on each of its exits: expired record,
\* refusal, reservation.
LEMMA PrepareType ==
  ASSUME NEW Principals, NEW Sessions, NEW Contexts,
         NEW R, R = RecordOf(Principals, Sessions, Contexts),
         NEW st, IsStoreOf(st, R), NEW t \in Instants, NEW token, NEW context,
         NEW replacement \in Tokens \cup {NoToken}
  PROVE  IsStoreOf(PrepareConsume(st, token, context, t, replacement), R)
<1> DEFINE cleared == [st EXCEPT !.committed = {}]
           slot    == Found(st, token)
           staged  == [ slot        |-> slot,
                        replacement |-> Replacement(st, slot, t, replacement) ]
<1>1. CASE ExpiredOnSight(st, token, t)
  <2>1. IsPartial(Restrict(st.records, DOMAIN st.records \ {slot}), Slots, R)
    BY RestrictType DEF IsStoreOf
  <2>2. PrepareConsume(st, token, context, t, replacement)
          = [cleared EXCEPT !.records = Restrict(@, DOMAIN @ \ {slot}), !.size = @ - 1]
    BY <1>1, Zenon DEF PrepareConsume
  <2> QED
    BY <2>1, <2>2 DEF IsStoreOf
<1>2. CASE /\ ~ExpiredOnSight(st, token, t)
           /\ ~PrepareAccepted(st, token, context, t, replacement)
  <2>1. PrepareConsume(st, token, context, t, replacement) = cleared
    BY <1>2, Zenon DEF PrepareConsume
  <2> QED
    BY <2>1 DEF IsStoreOf
<1>3. CASE /\ ~ExpiredOnSight(st, token, t)
           /\ PrepareAccepted(st, token, context, t, replacement)
  <2>1. slot \in Slots /\ st.records[slot] \in R
    BY <1>3, FoundType DEF PrepareAccepted
  <2>2. /\ st.records[slot].generation < MaxGeneration
        /\ ExpiryFrom(t) \in Instants
        /\ replacement \in Tokens
    BY <1>3, ExpiryType DEF PrepareAccepted
  <2>3. Replacement(st, slot, t, replacement) \in R
    <3>1. st.records[slot].generation + 1 \in Generations
      BY <2>1, <2>2 DEF RecordOf, Generations
    <3> QED
      BY <2>1, <2>2, <3>1 DEF Replacement, RecordOf
  <2>4. IsPartial(Put(st.pending, st.nextId, staged), Ids, [slot : Slots, replacement : R])
    BY <2>1, <2>3, PutType DEF IsStoreOf
  <2>5. (st.nextId + 1) % PreparationIds \in Ids
    BY DEF IsStoreOf, Ids
  <2>6. PrepareConsume(st, token, context, t, replacement)
          = [cleared EXCEPT !.pending = Put(@, st.nextId, staged),
                            !.nextId  = (@ + 1) % PreparationIds]
    BY <1>3, Zenon DEF PrepareConsume
  <2> QED
    BY <2>4, <2>5, <2>6 DEF IsStoreOf
<1> QED
  BY <1>1, <1>2, <1>3

\* commitConsume() returns a store while the reserved slot is occupied.
LEMMA CommitType ==
  ASSUME NEW R, NEW st, IsStoreOf(st, R), NEW id \in DOMAIN st.pending, CommitDefined(st, id)
  PROVE  IsStoreOf(CommitConsume(st, id), R)
<1> DEFINE staged == st.pending[id]
           undo   == [id |-> id, slot |-> staged.slot, prior |-> st.records[staged.slot]]
<1>1. id \in Ids /\ staged.slot \in Slots /\ staged.replacement \in R
  BY DEF IsStoreOf, IsPartial
<1>2. st.records[staged.slot] \in R
  BY DEF IsStoreOf, IsPartial, CommitDefined, Occupied
<1>3. undo \in [id : Ids, slot : Slots, prior : R]
  BY <1>1, <1>2
<1>4. IsPartial(Put(st.records, staged.slot, staged.replacement), Slots, R)
  BY <1>1, PutType DEF IsStoreOf
<1>5. IsPartial(Restrict(st.pending, DOMAIN st.pending \ {id}), Ids,
                [slot : Slots, replacement : R])
  BY RestrictType DEF IsStoreOf
<1>6. CommitConsume(st, id)
        = [st EXCEPT !.committed = {undo},
                     !.records   = Put(@, staged.slot, staged.replacement),
                     !.pending   = Restrict(@, DOMAIN @ \ {id})]
  BY Zenon DEF CommitConsume
<1> QED
  BY <1>3, <1>4, <1>5, <1>6 DEF IsStoreOf

\* cancelConsume() returns a store.
LEMMA CancelType ==
  ASSUME NEW R, NEW st, IsStoreOf(st, R), NEW id
  PROVE  IsStoreOf(CancelConsume(st, id), R)
<1>1. IsPartial(Restrict(st.pending, DOMAIN st.pending \ {id}), Ids,
                [slot : Slots, replacement : R])
  BY RestrictType DEF IsStoreOf
<1> QED
  BY <1>1 DEF IsStoreOf, CancelConsume

\* finalizeConsume() returns a store.
LEMMA FinalizeType ==
  ASSUME NEW R, NEW st, IsStoreOf(st, R), NEW id
  PROVE  IsStoreOf(FinalizeConsume(st, id), R)
BY DEF IsStoreOf, FinalizeConsume

\* rollbackConsume() returns a store: the slot it restores was occupied when
\* the commit put it aside.
LEMMA RollbackType ==
  ASSUME NEW R, NEW st, IsStoreOf(st, R), NEW id
  PROVE  IsStoreOf(RollbackConsume(st, id), R)
<1> DEFINE c == CHOOSE c \in st.committed : c.id = id
<1>1. CASE ~CommittedAs(st, id)
  BY <1>1 DEF RollbackConsume
<1>2. CASE CommittedAs(st, id)
  <2>1. c \in st.committed
    BY <1>2 DEF CommittedAs
  <2>2. c.slot \in Slots /\ c.prior \in R
    BY <2>1 DEF IsStoreOf
  <2>3. IsPartial(Put(st.records, c.slot, c.prior), Slots, R)
    BY <2>2, PutType DEF IsStoreOf
  <2>4. RollbackConsume(st, id) = [st EXCEPT !.records = Put(@, c.slot, c.prior), !.committed = {}]
    BY <1>2, Zenon DEF RollbackConsume
  <2> QED
    BY <2>3, <2>4 DEF IsStoreOf
<1> QED
  BY <1>1, <1>2

\* keepAlive() returns a store: only expiry instants change, within the clock.
LEMMA KeepAliveType ==
  ASSUME NEW Principals, NEW Sessions, NEW Contexts,
         NEW R, R = RecordOf(Principals, Sessions, Contexts),
         NEW st, IsStoreOf(st, R), NEW t \in Instants, NEW session, NEW generation
  PROVE  IsStoreOf(KeepAlive(st, session, generation, t), R)
<1> DEFINE renewed(slot) == IF Renews(st, session, generation, slot, t)
                            THEN [st.records[slot] EXCEPT !.expiresAt = ExpiryFrom(t)]
                            ELSE st.records[slot]
           records == [slot \in Occupied(st) |-> renewed(slot)]
<1>1. ASSUME NEW slot \in Occupied(st)
      PROVE  renewed(slot) \in R
  <2>1. st.records[slot] \in R
    BY DEF Occupied, IsStoreOf, IsPartial
  <2>2. Renews(st, session, generation, slot, t) => ExpiryFrom(t) \in Instants
    BY ExpiryType DEF Renews, Renewable
  <2> QED
    BY <2>1, <2>2 DEF RecordOf
<1>2. IsPartial(records, Slots, R)
  BY <1>1 DEF IsPartial, Occupied, IsStoreOf
<1>3. KeepAlive(st, session, generation, t) = [st EXCEPT !.records = records]
  BY Zenon DEF KeepAlive
<1> QED
  BY <1>2, <1>3 DEF IsStoreOf

-----------------------------------------------------------------------------
(* What the operations change. *)

\* issue() writes one record at most, and forgets only expired ones.
LEMMA IssueEffect ==
  ASSUME NEW R, NEW st, IsStoreOf(st, R), NEW t \in Instants, NEW principal, NEW session,
         NEW generation, NEW context, NEW token
  PROVE  LET new == Issue(st, principal, session, generation, context, t, token)
         IN  /\ new.pending = st.pending
             /\ new.committed = st.committed
             /\ new.nextId = st.nextId
<1> DEFINE purged == PurgeExpired(st, t)
           new == Issue(st, principal, session, generation, context, t, token)
           record == [ digest |-> token, principal |-> principal, session |-> session,
                       generation |-> generation, context |-> context,
                       expiresAt |-> ExpiryFrom(t) ]
<1>1. /\ IsStoreOf(purged, R) /\ purged.pending = st.pending
      /\ purged.committed = st.committed /\ purged.nextId = st.nextId
  BY PurgeType
<1>2. CASE ~IssueAccepted(st, t, token)
  BY <1>1, <1>2 DEF Issue
<1>3. CASE IssueAccepted(st, t, token)
  <2>1. new = [purged EXCEPT !.records = Put(@, Min(EmptySlots(purged)), record), !.size = @ + 1]
    BY <1>3, Zenon DEF Issue
  <2> HIDE DEF new, purged
  <2> QED
    BY <1>1, <2>1 DEF IsStoreOf, new
<1> QED
  BY <1>2, <1>3

\* prepareConsume() without a reservation changes no preparation.
LEMMA RefusedPrepareEffect ==
  ASSUME NEW R, NEW st, IsStoreOf(st, R), NEW t, NEW token, NEW context, NEW replacement,
         ~PrepareAccepted(st, token, context, t, replacement)
  PROVE  LET new == PrepareConsume(st, token, context, t, replacement)
         IN  /\ new.pending = st.pending
             /\ new.committed = {}
             /\ new.nextId = st.nextId
<1> DEFINE new     == PrepareConsume(st, token, context, t, replacement)
           cleared == [st EXCEPT !.committed = {}]
           slot    == Found(st, token)
<1>1. CASE ExpiredOnSight(st, token, t)
  <2>1. new = [cleared EXCEPT !.records = Restrict(@, DOMAIN @ \ {slot}), !.size = @ - 1]
    BY <1>1, Zenon DEF PrepareConsume
  <2> HIDE DEF new, slot
  <2> QED
    BY <2>1 DEF IsStoreOf, new
<1>2. CASE ~ExpiredOnSight(st, token, t)
  <2>1. new = cleared
    BY <1>2, Zenon DEF PrepareConsume
  <2> HIDE DEF new
  <2> QED
    BY <2>1 DEF IsStoreOf, new
<1> QED
  BY <1>1, <1>2

\* An accepted prepareConsume() adds the preparation it returns the id of; the
\* replacement renews the record that the token was found in.
LEMMA AcceptedPrepareEffect ==
  ASSUME NEW Principals, NEW Sessions, NEW Contexts,
         NEW R, R = RecordOf(Principals, Sessions, Contexts),
         NEW st, IsStoreOf(st, R), NEW t \in Instants, NEW token, NEW context,
         NEW replacement \in Tokens \cup {NoToken},
         PrepareAccepted(st, token, context, t, replacement)
  PROVE  LET new == PrepareConsume(st, token, context, t, replacement)
         IN  /\ st.nextId # 0
             /\ new.records = st.records
             /\ DOMAIN new.pending = DOMAIN st.pending \cup {st.nextId}
             /\ \A id \in DOMAIN st.pending :
                  id # st.nextId => new.pending[id] = st.pending[id]
             /\ new.pending[st.nextId] =
                  [slot |-> Found(st, token),
                   replacement |-> Replacement(st, Found(st, token), t, replacement)]
             /\ new.pending[st.nextId].replacement \in R
             /\ new.committed = {}
             /\ new.nextId = (st.nextId + 1) % PreparationIds
<1> DEFINE new     == PrepareConsume(st, token, context, t, replacement)
           cleared == [st EXCEPT !.committed = {}]
           slot    == Found(st, token)
           staged  == [ slot        |-> slot,
                        replacement |-> Replacement(st, slot, t, replacement) ]
<1>1. st.records[slot] \in R /\ st.nextId # 0
  BY FoundType DEF PrepareAccepted
<1>2. ~ExpiredOnSight(st, token, t)
  <2>1. st.records[slot].expiresAt \in Int
    BY <1>1 DEF RecordOf, Instants
  <2> QED
    BY <2>1 DEF PrepareAccepted, ExpiredOnSight, Instants
<1>3. new = [cleared EXCEPT !.pending = Put(@, st.nextId, staged),
                            !.nextId  = (@ + 1) % PreparationIds]
  BY <1>2, Zenon DEF PrepareConsume
<1>4. IsStoreOf(new, R)
  BY PrepareType
<1> HIDE DEF new, slot, staged
<1>5. /\ new.records = st.records
      /\ DOMAIN new.pending = DOMAIN st.pending \cup {st.nextId}
      /\ \A id \in DOMAIN st.pending : id # st.nextId => new.pending[id] = st.pending[id]
      /\ new.pending[st.nextId] = staged
      /\ new.committed = {}
      /\ new.nextId = (st.nextId + 1) % PreparationIds
  BY <1>3 DEF IsStoreOf, Put
<1>6. new.pending[st.nextId].replacement \in R
  BY <1>4, <1>5 DEF IsStoreOf, IsPartial
<1> QED
  BY <1>1, <1>5, <1>6 DEF new, slot, staged

\* The ids are handed out in order, and not again once they are used up.
LEMMA NextIdGrows ==
  ASSUME NEW id \in Ids
  PROVE  (id + 1) % PreparationIds = 0 \/ (id + 1) % PreparationIds = id + 1
  BY DEF Ids

\* cancelConsume() forgets one preparation.
LEMMA CancelEffect ==
  ASSUME NEW R, NEW st, IsStoreOf(st, R), NEW id
  PROVE  LET new == CancelConsume(st, id)
         IN  /\ new.records = st.records
             /\ DOMAIN new.pending = DOMAIN st.pending \ {id}
             /\ \A other \in DOMAIN new.pending : new.pending[other] = st.pending[other]
             /\ new.committed = st.committed
             /\ new.nextId = st.nextId
  BY DEF CancelConsume, IsStoreOf, Restrict

\* commitConsume() ends the preparation and keeps its undo.
LEMMA CommitEffect ==
  ASSUME NEW R, NEW st, IsStoreOf(st, R), NEW id
  PROVE  LET new == CommitConsume(st, id)
         IN  /\ DOMAIN new.pending = DOMAIN st.pending \ {id}
             /\ \A other \in DOMAIN new.pending : new.pending[other] = st.pending[other]
             /\ new.committed = {[id |-> id, slot |-> st.pending[id].slot,
                                  prior |-> st.records[st.pending[id].slot]]}
             /\ new.nextId = st.nextId
  BY DEF CommitConsume, IsStoreOf, Restrict

\* finalizeConsume() forgets the undo.
LEMMA FinalizeEffect ==
  ASSUME NEW R, NEW st, IsStoreOf(st, R), NEW id
  PROVE  LET new == FinalizeConsume(st, id)
         IN  /\ new.records = st.records
             /\ new.pending = st.pending
             /\ new.committed \subseteq st.committed
             /\ new.nextId = st.nextId
  BY DEF FinalizeConsume, IsStoreOf

\* rollbackConsume() touches no preparation.
LEMMA RollbackEffect ==
  ASSUME NEW R, NEW st, IsStoreOf(st, R), NEW id
  PROVE  LET new == RollbackConsume(st, id)
         IN  /\ new.pending = st.pending
             /\ new.committed \subseteq st.committed
             /\ new.nextId = st.nextId
<1> DEFINE new == RollbackConsume(st, id)
           c == CHOOSE c \in st.committed : c.id = id
<1>1. CASE ~CommittedAs(st, id)
  BY <1>1 DEF RollbackConsume
<1>2. CASE CommittedAs(st, id)
  <2>1. new = [st EXCEPT !.records = Put(@, c.slot, c.prior), !.committed = {}]
    BY <1>2, Zenon DEF RollbackConsume
  <2> HIDE DEF new, c
  <2> QED
    BY <2>1 DEF IsStoreOf, new
<1> QED
  BY <1>1, <1>2

-----------------------------------------------------------------------------
(* What becomes of the records. *)

\* Every record of new is one that st had in the same slot.
KeepsRecords(new, st) ==
  \A slot \in Occupied(new) : slot \in Occupied(st) /\ new.records[slot] = st.records[slot]

\* new has the given record in one slot, and otherwise only records of st.
AddsRecord(new, st, slot, record) ==
  /\ slot \in Occupied(new)
  /\ new.records[slot] = record
  /\ \A other \in Occupied(new) :
       other # slot => other \in Occupied(st) /\ new.records[other] = st.records[other]

\* purgeExpired() only erases.
LEMMA PurgeRecords ==
  ASSUME NEW R, NEW st, IsStoreOf(st, R), NEW t \in Instants
  PROVE  KeepsRecords(PurgeExpired(st, t), st)
<1>1. PurgeExpired(st, t).records = Restrict(st.records, Occupied(st) \ Purgeable(st, t))
  BY PurgeType
<1> QED
  BY <1>1 DEF KeepsRecords, Occupied, Restrict

\* issue() that is refused only erases.
LEMMA RefusedIssueRecords ==
  ASSUME NEW R, NEW st, IsStoreOf(st, R), NEW t \in Instants, NEW principal, NEW session,
         NEW generation, NEW context, NEW token, ~IssueAccepted(st, t, token)
  PROVE  KeepsRecords(Issue(st, principal, session, generation, context, t, token), st)
<1>1. Issue(st, principal, session, generation, context, t, token) = PurgeExpired(st, t)
  BY Zenon DEF Issue
<1> QED
  BY <1>1, PurgeRecords

\* issue() that is accepted adds its record.
LEMMA AcceptedIssueRecords ==
  ASSUME NEW R, NEW st, IsStoreOf(st, R), NEW t \in Instants, NEW principal, NEW session,
         NEW generation, NEW context, NEW token, IssueAccepted(st, t, token)
  PROVE  \E slot : AddsRecord(
           Issue(st, principal, session, generation, context, t, token), st, slot,
           [ digest |-> token, principal |-> principal, session |-> session,
             generation |-> generation, context |-> context, expiresAt |-> ExpiryFrom(t) ])
<1> DEFINE purged == PurgeExpired(st, t)
           new == Issue(st, principal, session, generation, context, t, token)
           slot == Min(EmptySlots(purged))
           record == [ digest |-> token, principal |-> principal, session |-> session,
                       generation |-> generation, context |-> context,
                       expiresAt |-> ExpiryFrom(t) ]
<1>1. new = [purged EXCEPT !.records = Put(@, slot, record), !.size = @ + 1]
  BY Zenon DEF Issue
<1>2. IsStoreOf(purged, R) /\ KeepsRecords(purged, st)
  BY PurgeType, PurgeRecords
<1> HIDE DEF new, purged, slot, record
<1>3. new.records = Put(purged.records, slot, record)
  BY <1>1, <1>2 DEF IsStoreOf
<1>4. AddsRecord(new, st, slot, record)
  BY <1>2, <1>3 DEF AddsRecord, KeepsRecords, Occupied, Put
<1> QED
  BY <1>4 DEF new, record

\* prepareConsume() erases the record that has expired, or none.
LEMMA RefusedPrepareRecords ==
  ASSUME NEW R, NEW st, IsStoreOf(st, R), NEW t, NEW token, NEW context, NEW replacement,
         ~PrepareAccepted(st, token, context, t, replacement)
  PROVE  KeepsRecords(PrepareConsume(st, token, context, t, replacement), st)
<1> DEFINE new     == PrepareConsume(st, token, context, t, replacement)
           cleared == [st EXCEPT !.committed = {}]
           slot    == Found(st, token)
<1>1. CASE ExpiredOnSight(st, token, t)
  <2>1. new = [cleared EXCEPT !.records = Restrict(@, DOMAIN @ \ {slot}), !.size = @ - 1]
    BY <1>1, Zenon DEF PrepareConsume
  <2> HIDE DEF new, slot
  <2>2. new.records = Restrict(st.records, DOMAIN st.records \ {slot})
    BY <2>1 DEF IsStoreOf
  <2> QED
    BY <2>2 DEF KeepsRecords, Occupied, Restrict, new
<1>2. CASE ~ExpiredOnSight(st, token, t)
  <2>1. new = cleared
    BY <1>2, Zenon DEF PrepareConsume
  <2> HIDE DEF new
  <2> QED
    BY <2>1 DEF IsStoreOf, KeepsRecords, Occupied, new
<1> QED
  BY <1>1, <1>2

\* commitConsume() puts the staged record in the place of the old one.
LEMMA CommitRecords ==
  ASSUME NEW R, NEW st, IsStoreOf(st, R), NEW id
  PROVE  AddsRecord(CommitConsume(st, id), st, st.pending[id].slot, st.pending[id].replacement)
<1> DEFINE new == CommitConsume(st, id)
           staged == st.pending[id]
<1>1. new.records = Put(st.records, staged.slot, staged.replacement)
  BY DEF CommitConsume, IsStoreOf
<1> QED
  BY <1>1 DEF AddsRecord, Occupied, Put

\* rollbackConsume() right after commitConsume() brings the old record back and
\* leaves nothing to be rolled back.
LEMMA RollbackRecords ==
  ASSUME NEW R, NEW st, IsStoreOf(st, R), NEW id, CommitDefined(st, id)
  PROVE  LET new == RollbackConsume(CommitConsume(st, id), id)
         IN  /\ KeepsRecords(new, st)
             /\ DOMAIN new.pending = DOMAIN st.pending \ {id}
             /\ new.committed = {}
<1> DEFINE committed == CommitConsume(st, id)
           new  == RollbackConsume(committed, id)
           undo == [id |-> id, slot |-> st.pending[id].slot, prior |-> st.records[st.pending[id].slot]]
           c == CHOOSE c \in committed.committed : c.id = id
<1>1. /\ committed.committed = {undo}
      /\ DOMAIN committed.pending = DOMAIN st.pending \ {id}
  BY CommitEffect
<1>2. committed.records = Put(st.records, st.pending[id].slot, st.pending[id].replacement)
  BY DEF CommitConsume, IsStoreOf
<1>3. DOMAIN committed = {"records", "pending", "committed", "size", "nextId"}
  BY DEF CommitConsume, IsStoreOf
<1> HIDE DEF committed
<1>4. undo.id = id /\ undo.slot = st.pending[id].slot /\ undo.prior = st.records[st.pending[id].slot]
  OBVIOUS
<1> HIDE DEF undo
<1>5. CommittedAs(committed, id) /\ c = undo
  BY <1>1, <1>4 DEF CommittedAs
<1>6. new = [committed EXCEPT !.records = Put(@, c.slot, c.prior), !.committed = {}]
  BY <1>5, Zenon DEF RollbackConsume
<1> HIDE DEF new, c
<1>7. /\ new.records = Put(committed.records, undo.slot, undo.prior)
      /\ new.committed = {}
      /\ new.pending = committed.pending
  BY <1>3, <1>5, <1>6
<1>8. \A slot \in DOMAIN new.records :
        slot \in DOMAIN st.records /\ new.records[slot] = st.records[slot]
  <2>1. undo.slot \in DOMAIN st.records /\ undo.prior = st.records[undo.slot]
    BY <1>4 DEF CommitDefined, Occupied
  <2>2. /\ DOMAIN committed.records = DOMAIN st.records \cup {undo.slot}
        /\ \A slot \in DOMAIN st.records :
             slot # undo.slot => committed.records[slot] = st.records[slot]
    BY <1>2, <1>4 DEF Put
  <2>3. /\ DOMAIN new.records = DOMAIN committed.records \cup {undo.slot}
        /\ \A slot \in DOMAIN committed.records :
             new.records[slot] = IF slot = undo.slot THEN undo.prior ELSE committed.records[slot]
    BY <1>7 DEF Put
  <2> QED
    BY <2>1, <2>2, <2>3, Zenon
<1>9. KeepsRecords(new, st)
  BY <1>8 DEF KeepsRecords, Occupied
<1> QED
  BY <1>1, <1>7, <1>9 DEF new, committed

\* finalizeConsume() right after commitConsume() leaves nothing to be rolled back.
LEMMA FinalizedCommit ==
  ASSUME NEW R, NEW st, IsStoreOf(st, R), NEW id
  PROVE  LET new == FinalizeConsume(CommitConsume(st, id), id)
         IN  /\ AddsRecord(new, st, st.pending[id].slot, st.pending[id].replacement)
             /\ DOMAIN new.pending = DOMAIN st.pending \ {id}
             /\ new.committed = {}
<1> DEFINE committed == CommitConsume(st, id)
           new == FinalizeConsume(committed, id)
           undo == [id |-> id, slot |-> st.pending[id].slot, prior |-> st.records[st.pending[id].slot]]
<1>1. /\ committed.committed = {undo}
      /\ DOMAIN committed.pending = DOMAIN st.pending \ {id}
  BY CommitEffect
<1>2. AddsRecord(committed, st, st.pending[id].slot, st.pending[id].replacement)
  BY CommitRecords
<1>3. DOMAIN committed = {"records", "pending", "committed", "size", "nextId"}
  BY DEF CommitConsume, IsStoreOf
<1> HIDE DEF committed
<1>4. undo.id = id
  OBVIOUS
<1> HIDE DEF undo
<1>5. CommittedAs(committed, id)
  BY <1>1, <1>4 DEF CommittedAs
<1>6. new = [committed EXCEPT !.committed = {}]
  BY <1>5, Zenon DEF FinalizeConsume
<1> HIDE DEF new
<1>7. /\ new.records = committed.records
      /\ new.committed = {}
      /\ new.pending = committed.pending
  BY <1>3, <1>6
<1>8. AddsRecord(new, st, st.pending[id].slot, st.pending[id].replacement)
  BY <1>2, <1>7 DEF AddsRecord, Occupied
<1> QED
  BY <1>1, <1>7, <1>8 DEF new, committed
=============================================================================
