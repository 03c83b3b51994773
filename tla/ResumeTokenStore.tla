-------------------------- MODULE ResumeTokenStore --------------------------
(***************************************************************************)
(* The resume token store as a component: every public operation of the    *)
(* class is one step, because each of them holds mMutex from its first to  *)
(* its last line.  consume() is prepareConsume() followed by               *)
(* commitConsume(), two separate acquisitions of the mutex.                *)
(*                                                                         *)
(* The operations of different callers interleave in any order, which is   *)
(* what the mutex is there for.  ServerApplication has one thread, and     *)
(* cancels a resume that was prepared, or commits and then finalizes it or *)
(* rolls it back, before it asks anything else of the store: serial tells  *)
(* whether this has been so.                                               *)
(*                                                                         *)
(* drawn, consumes, admitted and serial are history variables: the tokens  *)
(* generated so far, the token each preparation presented, the resumes     *)
(* that were committed and not rolled back, and the one just described.    *)
(***************************************************************************)
EXTENDS ResumeTokens

CONSTANTS
  Principals, Sessions, Contexts,
  Horizon          \* bound on the clock, for TLC

ASSUME HorizonAssumption == Horizon \in Nat /\ Horizon <= MaxInstant

VARIABLES store, now, drawn, consumes, admitted, serial, undefined

vars == <<store, now, drawn, consumes, admitted, serial, undefined>>

Record == RecordOf(Principals, Sessions, Contexts)
IsStore(st) == IsStoreOf(st, Record)

\* What the members of the class, the clock and the history can hold.
TypeOK ==
  /\ IsStore(store)
  /\ now \in Instants
  /\ drawn \subseteq Tokens
  /\ IsPartial(consumes, Ids, Tokens)
  /\ admitted \subseteq [token : Tokens, id : Ids]
  /\ serial \in BOOLEAN
  /\ undefined \in BOOLEAN

Init ==
  /\ store = EmptyStore
  /\ now = 0
  /\ drawn = {}
  /\ consumes = [id \in {} |-> NoToken]
  /\ admitted = {}
  /\ serial = TRUE
  /\ undefined = FALSE

\* No resume is half done.
Quiet == DOMAIN store.pending = {} /\ store.committed = {}

\* A caller asks for something that is not the end of a resume.
Starts == ~undefined /\ serial' = (serial /\ Quiet)

\* makeToken(): random bytes, so a token that was never drawn before, or a
\* failure of the random source.
Fresh == (Tokens \ drawn) \cup {NoToken}

issue(principal, session, generation, context, token) ==
  /\ Starts
  /\ token \in Fresh
  /\ store' = Issue(store, principal, session, generation, context, now, token)
  /\ drawn' = IF IssueAccepted(store, now, token) THEN drawn \cup {token} ELSE drawn
  /\ UNCHANGED <<now, consumes, admitted, undefined>>

prepareConsume(token, context, replacement) ==
  /\ Starts
  /\ token \in drawn
  /\ replacement \in Fresh
  /\ store' = PrepareConsume(store, token, context, now, replacement)
  /\ IF PrepareAccepted(store, token, context, now, replacement)
     THEN /\ drawn' = drawn \cup {replacement}
          /\ consumes' = Put(consumes, store.nextId, token)
     ELSE UNCHANGED <<drawn, consumes>>
  /\ UNCHANGED <<now, admitted, undefined>>

commitConsume(id) ==
  /\ ~undefined
  /\ id \in DOMAIN store.pending
  /\ IF CommitDefined(store, id)
     THEN /\ store' = CommitConsume(store, id)
          /\ admitted' = admitted \cup {[token |-> consumes[id], id |-> id]}
          /\ UNCHANGED undefined
     ELSE \* an empty std::optional is dereferenced: nothing is known from here on
          /\ undefined' = TRUE
          /\ UNCHANGED <<store, admitted>>
  /\ UNCHANGED <<now, drawn, consumes, serial>>

finalizeConsume(id) ==
  /\ ~undefined
  /\ CommittedAs(store, id)
  /\ store' = FinalizeConsume(store, id)
  /\ UNCHANGED <<now, drawn, consumes, admitted, serial, undefined>>

rollbackConsume(id) ==
  /\ ~undefined
  /\ CommittedAs(store, id)
  /\ store' = RollbackConsume(store, id)
  /\ admitted' = admitted \ {[token |-> consumes[id], id |-> id]}
  /\ UNCHANGED <<now, drawn, consumes, serial, undefined>>

cancelConsume(id) ==
  /\ ~undefined
  /\ id \in DOMAIN store.pending
  /\ store' = CancelConsume(store, id)
  /\ UNCHANGED <<now, drawn, consumes, admitted, serial, undefined>>

keepAlive(session, generation) ==
  /\ Starts
  /\ store' = KeepAlive(store, session, generation, now)
  /\ UNCHANGED <<now, drawn, consumes, admitted, undefined>>

\* The monotonic clock advances between any two calls.
Tick ==
  /\ ~undefined
  /\ now < Horizon
  /\ now' = now + 1
  /\ UNCHANGED <<store, drawn, consumes, admitted, serial, undefined>>

Next ==
  \/ \E principal \in Principals, session \in Sessions, context \in Contexts,
        token \in Fresh : issue(principal, session, 1, context, token)
  \/ \E token \in drawn, context \in Contexts, replacement \in Fresh :
        prepareConsume(token, context, replacement)
  \/ \E id \in Ids : commitConsume(id)
  \/ \E id \in Ids : finalizeConsume(id)
  \/ \E id \in Ids : rollbackConsume(id)
  \/ \E id \in Ids : cancelConsume(id)
  \/ \E session \in Sessions, generation \in Generations : keepAlive(session, generation)
  \/ Tick

Spec == Init /\ [][Next]_vars

-----------------------------------------------------------------------------
(* What the store promises, whatever the callers do. *)

\* A token admits at most one resume that stands: two preparations with the
\* same token, or a second presentation of a token that was rotated away, can
\* never both commit (prepareConsume / commitConsume).
SingleWinner ==
  \A a, b \in admitted : a.token = b.token => a.id = b.id

\* A token that was spent on a resume that stands is in no record, so that no
\* later call can find it again; rollbackConsume puts it back only while its
\* own commit can still be undone.
SpentTokensStayDead ==
  \A a \in admitted : SlotsOf(store, a.token) = {}

\* No two preparations replace the same record (the scan of mPending in
\* prepareConsume), so that no commit overwrites another one's work.
ReservationsAreExclusive ==
  \A i, j \in DOMAIN store.pending :
    store.pending[i].slot = store.pending[j].slot => i = j

-----------------------------------------------------------------------------
(* Why: every token is in one place at a time.  The conjuncts together are *)
(* inductive; the proofs rest on them.                                     *)

\* A preparation id is used once, and the history follows the ids.
IdsAreFresh ==
  /\ \A id \in DOMAIN consumes : store.nextId = 0 \/ id < store.nextId
  /\ DOMAIN store.pending \subseteq DOMAIN consumes
  /\ \A a \in admitted : a.id \in DOMAIN consumes /\ a.token = consumes[a.id]
  /\ \A c \in store.committed : c.id \in DOMAIN consumes

\* Every token in the store was generated.
StoredTokensAreDrawn ==
  /\ \A slot \in Occupied(store) : store.records[slot].digest \in drawn
  /\ \A id \in DOMAIN store.pending : store.pending[id].replacement.digest \in drawn
  /\ \A c \in store.committed : c.prior.digest \in drawn
  /\ \A id \in DOMAIN consumes : consumes[id] \in drawn

\* A staged replacement is nowhere else, and no two records share a token.
TokensAreUnique ==
  /\ \A s, t \in Occupied(store) :
       store.records[s].digest = store.records[t].digest => s = t
  /\ \A i, j \in DOMAIN store.pending :
       store.pending[i].replacement.digest = store.pending[j].replacement.digest => i = j
  /\ \A id \in DOMAIN store.pending :
       LET token == store.pending[id].replacement.digest
       IN  /\ \A slot \in Occupied(store) : store.records[slot].digest # token
           /\ \A c \in store.committed : c.prior.digest # token
           /\ \A used \in DOMAIN consumes : consumes[used] # token

\* The token a preparation presented is reserved for it alone.
PresentedTokensAreReserved ==
  /\ \A i, j \in DOMAIN store.pending : consumes[i] = consumes[j] => i = j
  /\ \A id \in DOMAIN store.pending :
       /\ \A slot \in Occupied(store) :
            store.records[slot].digest = consumes[id] => slot = store.pending[id].slot
       /\ \A a \in admitted : a.token # consumes[id]

\* The record a rollback would restore collides with nothing.
PriorsAreAside ==
  /\ \A c, d \in store.committed : c = d
  /\ \A c \in store.committed :
       /\ ~Reserved(store, c.slot)
       /\ \A slot \in Occupied(store) : store.records[slot].digest # c.prior.digest
       /\ \A id \in DOMAIN store.pending : consumes[id] # c.prior.digest
       /\ \A a \in admitted : a.token = c.prior.digest => a.id = c.id

\* Every token is in one place at a time: in one record, staged by one
\* preparation, aside for one rollback, or spent (the whole store).
TokenCustody ==
  /\ IdsAreFresh
  /\ StoredTokensAreDrawn
  /\ TokensAreUnique
  /\ PresentedTokensAreReserved
  /\ PriorsAreAside
  /\ ReservationsAreExclusive
  /\ SingleWinner
  /\ SpentTokensStayDead

-----------------------------------------------------------------------------
(* What it promises to a caller that finishes one resume before it starts *)
(* anything else.                                                         *)

\* mSize counts the occupied slots.
SizeCountsRecords == store.size = Cardinality(Occupied(store))

\* The record a preparation reserved is still the one it is going to replace:
\* commitConsume then has a record to read, and it moves that record's session
\* to the next generation.
ReservedRecordSurvives ==
  \A id \in DOMAIN store.pending :
    LET staged == store.pending[id]
    IN  /\ staged.slot \in Occupied(store)
        /\ store.records[staged.slot].digest = consumes[id]
        /\ staged.replacement.session = store.records[staged.slot].session
        /\ staged.replacement.generation = store.records[staged.slot].generation + 1

\* One resume at a time, nothing disappears under a reservation, however long
\* it takes, commitConsume never dereferences an empty slot, and the increments
\* and decrements of mSize are balanced.  Callers that interleave lose this:
\* prepareConsume erases an expired record although another preparation has
\* reserved it, which purgeExpired takes care not to.
SerialUseIsSafe ==
  serial => SizeCountsRecords /\ ReservedRecordSurvives /\ ~undefined
=============================================================================
