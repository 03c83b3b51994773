---------------------------- MODULE ResumeTokens ----------------------------
(***************************************************************************)
(* The operations of ResumeTokenStore                                      *)
(* (components/tes3mp/server_core/server_authentication.cpp) as functions  *)
(* from a store value to a store value.  ResumeTokenStore.tla runs them as *)
(* the steps of a component of its own; ServerApplication.tla calls them   *)
(* from the handlers of the server.                                        *)
(*                                                                         *)
(* A store value st has the fields                                         *)
(*   records    mRecords: slot -> record, defined on the occupied slots    *)
(*   pending    mPending: preparation id -> [slot, replacement]            *)
(*   committed  mCommitted: the last commit that can still be rolled back  *)
(*              (a set with at most one element [id, slot, prior])         *)
(*   size       mSize                                                      *)
(*   nextId     mNextPreparationId                                         *)
(* The position of an entry in the mPending array is never observed, so    *)
(* the array is a function of the preparation id.                          *)
(***************************************************************************)
EXTENDS Integers, FiniteSets, FiniteSetsExt

CONSTANTS
  MaximumResumeTokenRecords,  \* capacity of mRecords and of mPending
  Lifetime,                   \* mLifetimeMilliseconds, in clock units
  MaxInstant,                 \* largest MonotonicInstant (2^64 - 1 ns)
  MaxGeneration,              \* largest SessionGeneration (2^64 - 1)
  PreparationIds,             \* number of values of mNextPreparationId (2^64)
  Tokens,                     \* resume tokens, identified with their digests
  NoToken                     \* makeToken failed

ASSUME CapacityAssumption == MaximumResumeTokenRecords \in Nat \ {0}
ASSUME ClockAssumption == /\ Lifetime \in Nat \ {0}
                          /\ MaxInstant \in Nat
                          /\ Lifetime <= MaxInstant
ASSUME CounterAssumption == /\ MaxGeneration \in Nat \ {0}
                            /\ PreparationIds \in Nat
                            /\ PreparationIds > 1
ASSUME TokenAssumption == NoToken \notin Tokens

Slots == 0 .. MaximumResumeTokenRecords - 1
Ids == 0 .. PreparationIds - 1
Instants == 0 .. MaxInstant
Generations == 1 .. MaxGeneration

\* A record, for the principals, sessions and contexts that the owner knows.
RecordOf(Principals, Sessions, Contexts) ==
  [ digest : Tokens, principal : Principals, session : Sessions,
    generation : Generations, context : Contexts, expiresAt : Instants ]

\* f is a function from a part of D to R.
IsPartial(f, D, R) == DOMAIN f \subseteq D /\ f \in [DOMAIN f -> R]

\* st has the members of the class, with records from R, and they have their
\* types.
IsStoreOf(st, R) ==
  /\ DOMAIN st = {"records", "pending", "committed", "size", "nextId"}
  /\ IsPartial(st.records, Slots, R)
  /\ IsPartial(st.pending, Ids, [slot : Slots, replacement : R])
  /\ st.committed \subseteq [id : Ids, slot : Slots, prior : R]
  /\ st.size \in Int
  /\ st.nextId \in Ids

\* f with key k mapped to v, whether or not k was in its domain.
Put(f, k, v) == [x \in DOMAIN f \cup {k} |-> IF x = k THEN v ELSE f[x]]

\* The store a server starts with.
EmptyStore ==
  [ records   |-> [slot \in {} |-> 0],
    pending   |-> [id \in {} |-> 0],
    committed |-> {},
    size      |-> 0,
    nextId    |-> 1 ]

Occupied(st) == DOMAIN st.records

\* A slot that a preparation will replace.
Reserved(st, slot) ==
  \E id \in DOMAIN st.pending : st.pending[id].slot = slot

\* expiryFrom(): adding the lifetime must not overflow the clock (the variant
\* does not check).
ExpiryFits_Mutant(now) == now <= MaxInstant

ExpiryFits(now) == now <= MaxInstant - Lifetime
ExpiryFrom(now) == now + Lifetime

\* find(): the first of the slots holding a digest.
SlotsOf(st, token) == {slot \in Occupied(st) : st.records[slot].digest = token}
Found(st, token) == Min(SlotsOf(st, token))

EmptySlots(st) == Slots \ Occupied(st)

\* purgeExpired(): records that a preparation reserves are kept.
Purgeable(st, now) ==
  {slot \in Occupied(st) : ~Reserved(st, slot) /\ now >= st.records[slot].expiresAt}

\* Variant: mSize is not decremented.
PurgeExpired_Mutant(st, now) ==
  [st EXCEPT !.records = Restrict(@, DOMAIN @ \ Purgeable(st, now))]

PurgeExpired(st, now) ==
  [st EXCEPT !.records = Restrict(@, DOMAIN @ \ Purgeable(st, now)),
             !.size    = @ - Cardinality(Purgeable(st, now))]

(***************************************************************************)
(* issue(): purge, take the first empty slot, write the new record.  The   *)
(* purge stands when the rest fails.  token is what makeToken produced.    *)
(***************************************************************************)
IssueAccepted(st, now, token) ==
  /\ EmptySlots(PurgeExpired(st, now)) # {}
  /\ ExpiryFits(now)
  /\ token # NoToken

Issue(st, principal, session, generation, context, now, token) ==
  LET purged == PurgeExpired(st, now)
  IN  IF ~IssueAccepted(st, now, token)
      THEN purged
      ELSE [purged EXCEPT
              !.records = Put(@, Min(EmptySlots(purged)),
                              [ digest     |-> token,
                                principal  |-> principal,
                                session    |-> session,
                                generation |-> generation,
                                context    |-> context,
                                expiresAt  |-> ExpiryFrom(now) ]),
              !.size    = @ + 1]

(***************************************************************************)
(* prepareConsume(): looks the token up, refuses an expired, foreign or    *)
(* already reserved record, and stages its replacement.  An expired record *)
(* is erased on sight, and a commit waiting to be finalized loses its      *)
(* chance of rollback.                                                     *)
(***************************************************************************)
ExpiredOnSight(st, token, now) ==
  /\ SlotsOf(st, token) # {}
  /\ now >= st.records[Found(st, token)].expiresAt

\* Variant: the scan of mPending for the slot is missing.
PrepareAccepted_Mutant(st, token, context, now, replacement) ==
  /\ SlotsOf(st, token) # {}
  /\ now < st.records[Found(st, token)].expiresAt
  /\ st.records[Found(st, token)].context = context
  /\ st.records[Found(st, token)].generation < MaxGeneration
  /\ ExpiryFits(now)
  /\ replacement # NoToken
  /\ Cardinality(DOMAIN st.pending) < MaximumResumeTokenRecords
  /\ st.nextId # 0

PrepareAccepted(st, token, context, now, replacement) ==
  /\ SlotsOf(st, token) # {}
  /\ now < st.records[Found(st, token)].expiresAt
  /\ st.records[Found(st, token)].context = context
  /\ ~Reserved(st, Found(st, token))
  /\ st.records[Found(st, token)].generation < MaxGeneration
  /\ ExpiryFits(now)
  /\ replacement # NoToken
  /\ Cardinality(DOMAIN st.pending) < MaximumResumeTokenRecords
  /\ st.nextId # 0

\* The record that replaces the one in slot when the preparation commits.
Replacement(st, slot, now, token) ==
  [st.records[slot] EXCEPT !.digest     = token,
                           !.generation = @ + 1,
                           !.expiresAt  = ExpiryFrom(now)]

PrepareConsume(st, token, context, now, replacement) ==
  LET cleared == [st EXCEPT !.committed = {}]
      slot    == Found(st, token)
  IN  IF ExpiredOnSight(st, token, now)
      THEN [cleared EXCEPT !.records = Restrict(@, DOMAIN @ \ {slot}),
                           !.size    = @ - 1]
      ELSE IF ~PrepareAccepted(st, token, context, now, replacement)
      THEN cleared
      ELSE [cleared EXCEPT
              !.pending = Put(@, st.nextId,
                              [ slot        |-> slot,
                                replacement |-> Replacement(st, slot, now, replacement) ]),
              !.nextId  = (@ + 1) % PreparationIds]

(***************************************************************************)
(* commitConsume() reads *mRecords[slot] without a test: it is defined     *)
(* only while the reserved slot is still occupied.                         *)
(***************************************************************************)
CommitDefined(st, id) == st.pending[id].slot \in Occupied(st)

\* Variant: the old record is left in its slot.
CommitConsume_Mutant(st, id) ==
  [st EXCEPT
     !.committed = {[id |-> id, slot |-> st.pending[id].slot,
                     prior |-> st.records[st.pending[id].slot]]},
     !.pending   = Restrict(@, DOMAIN @ \ {id})]

CommitConsume(st, id) ==
  LET staged == st.pending[id]
  IN  [st EXCEPT
         !.committed = {[id |-> id, slot |-> staged.slot, prior |-> st.records[staged.slot]]},
         !.records   = Put(@, staged.slot, staged.replacement),
         !.pending   = Restrict(@, DOMAIN @ \ {id})]

CommittedAs(st, id) == \E c \in st.committed : c.id = id

FinalizeConsume(st, id) ==
  IF CommittedAs(st, id) THEN [st EXCEPT !.committed = {}] ELSE st

RollbackConsume(st, id) ==
  IF ~CommittedAs(st, id)
  THEN st
  ELSE LET c == CHOOSE c \in st.committed : c.id = id
       IN  [st EXCEPT !.records = Put(@, c.slot, c.prior), !.committed = {}]

CancelConsume(st, id) ==
  [st EXCEPT !.pending = Restrict(@, DOMAIN @ \ {id})]

(***************************************************************************)
(* keepAlive(): only the first record with this session and generation is  *)
(* looked at; it is renewed unless it has expired, would move backwards,   *)
(* or is part of a resume that is not finalized.                           *)
(***************************************************************************)
SlotsFor(st, session, generation) ==
  {slot \in Occupied(st) : /\ st.records[slot].session = session
                           /\ st.records[slot].generation = generation}

Renewable(st, slot, now) ==
  /\ ExpiryFits(now)
  /\ now < st.records[slot].expiresAt
  /\ ExpiryFrom(now) >= st.records[slot].expiresAt
  /\ \A c \in st.committed : c.slot # slot
  /\ ~Reserved(st, slot)

Renews(st, session, generation, slot, now) ==
  /\ slot \in SlotsFor(st, session, generation)
  /\ \A other \in SlotsFor(st, session, generation) : slot <= other
  /\ Renewable(st, slot, now)

KeepAlive(st, session, generation, now) ==
  [st EXCEPT !.records =
     [slot \in Occupied(st) |->
        IF Renews(st, session, generation, slot, now)
        THEN [st.records[slot] EXCEPT !.expiresAt = ExpiryFrom(now)]
        ELSE st.records[slot]]]
=============================================================================
