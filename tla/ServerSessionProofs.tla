------------------------ MODULE ServerSessionProofs -------------------------
(***************************************************************************)
(* Theorems about ServerSession, for every number of machines, every       *)
(* timeout policy and every order in which the owner calls the machines.   *)
(***************************************************************************)
EXTENDS ServerSession, ResumeTokensProofs

USE CapacityAssumption, ClockAssumption, CounterAssumption, TokenAssumption, SessionAssumption

-----------------------------------------------------------------------------
(* The inductive invariant. *)

\* The records of the shared store.
Record == RecordOf(Tokens \cup {NoToken}, 1 .. MaxSession, {Context})

\* The members of a machine.
Members ==
  [ state : States, deadline : 0 .. MaxInstant, operation : {"none", "join", "resume"},
    presented : Tokens \cup {NoToken}, principal : Tokens \cup {NoToken},
    accepted : BOOLEAN, prepared : 0 .. PreparationIds - 1,
    session : 0 .. MaxSession, generation : 1 .. MaxGeneration ]

\* A machine before its authentication is answered, or that is gone, has
\* neither a session nor a prepared resume.
Quiet == Waiting \cup {"None", "Destroyed"}
Sound(r) == r \in Members /\ (r.state \in Quiet => r.prepared = 0 /\ r.session = 0)

TypesHold ==
  /\ now \in 0 .. Horizon
  /\ machine \in [Machines -> Members]
  /\ \A c \in Machines : Sound(machine[c])
  /\ nextSession \in 2 .. MaxSession + 1
  /\ handed \subseteq Tokens
  /\ IsStoreOf(store, Record)

\* Every preparation has one machine that knows its id, no id is known to two
\* machines, the ids known are older than the next one, and a committed
\* preparation is no longer pending.
Custody ==
  /\ \A id \in DOMAIN store.pending : id # 0 /\ \E c \in Machines : machine[c].prepared = id
  /\ \A c, d \in Machines :
       machine[c].prepared # 0 /\ machine[c].prepared = machine[d].prepared => c = d
  /\ \A c \in Machines :
       machine[c].prepared # 0 /\ store.nextId # 0 => machine[c].prepared < store.nextId
  /\ \A undo \in store.committed : undo.id \notin DOMAIN store.pending

IInv == TypesHold /\ Custody

-----------------------------------------------------------------------------
(* Steps of one machine. *)

\* The states in which a machine may know a session or a preparation.
LEMMA StateNames ==
  /\ "Rejected" \in States \ Quiet /\ "TimedOut" \in States \ Quiet
  /\ "Cancelled" \in States \ Quiet /\ "Closed" \in States \ Quiet
  /\ "Established" \in States \ Quiet
  /\ "Destroyed" \in States /\ "None" \in States /\ Waiting \subseteq States
BY DEF States, Quiet, Waiting, Ended

\* The timeout policy is of positive durations.
LEMMA Durations == NegotiationTime \in Nat /\ InputTime \in Nat /\ ProviderTime \in Nat
OBVIOUS

\* A machine that leaves its stage has no deadline and no operation, and keeps
\* its preparation.
LEMMA Settled ==
  ASSUME NEW m, Sound(m), NEW state \in States \ Quiet
  PROVE  LET rejected == [m EXCEPT !.state = state, !.deadline = 0]
             ended    == [Uncalled(m) EXCEPT !.state = state, !.deadline = 0]
             answered == [Uncalled(m) EXCEPT !.deadline = 0]
             refused  == [answered EXCEPT !.state = state]
         IN  /\ Sound(rejected) /\ rejected.prepared = m.prepared
             /\ Sound(ended) /\ ended.prepared = m.prepared
             /\ Sound(refused) /\ refused.prepared = m.prepared
<1>1. 0 \in 0 .. MaxInstant /\ NoToken \in Tokens \cup {NoToken}
  OBVIOUS
<1> DEFINE rejected == [m EXCEPT !.state = state, !.deadline = 0]
           ended    == [Uncalled(m) EXCEPT !.state = state, !.deadline = 0]
           answered == [Uncalled(m) EXCEPT !.deadline = 0]
           refused  == [answered EXCEPT !.state = state]
<1>2. Sound(rejected) /\ rejected.prepared = m.prepared
  BY <1>1 DEF Sound, Members
<1>3. Sound(ended) /\ ended.prepared = m.prepared
  BY <1>1 DEF Sound, Members, Uncalled
<1>4. Sound(refused) /\ refused.prepared = m.prepared
  BY <1>1 DEF Sound, Members, Uncalled
<1> QED
  BY <1>2, <1>3, <1>4

\* A machine that is granted a join is established.
LEMMA Granted ==
  ASSUME NEW m, Sound(m), NEW principal \in Tokens
  PROVE  LET r == [[Uncalled(m) EXCEPT !.deadline = 0] EXCEPT !.state = "Established",
                                                              !.principal = principal]
         IN  Sound(r) /\ r.prepared = m.prepared
<1>1. 0 \in 0 .. MaxInstant /\ NoToken \in Tokens \cup {NoToken}
  OBVIOUS
<1> QED
  BY <1>1, StateNames DEF Sound, Members, Uncalled

\* A step that gives machine c the members r changes no other machine.
LEMMA OneMachine ==
  ASSUME TypesHold, NEW c \in Machines, NEW r, Sound(r), machine' = [machine EXCEPT ![c] = r]
  PROVE  /\ machine' \in [Machines -> Members]
         /\ \A d \in Machines : Sound(machine'[d])
         /\ machine'[c] = r
         /\ \A d \in Machines : d # c => machine'[d] = machine[d]
BY DEF TypesHold, Sound

\* A step that touches no preparation keeps the custody of all of them.
LEMMA UntouchedCustody ==
  ASSUME Custody, \A d \in Machines : machine'[d].prepared = machine[d].prepared,
         store'.pending = store.pending, store'.nextId = store.nextId,
         store'.committed \subseteq store.committed
  PROVE  Custody'
BY DEF Custody

\* A machine that gives up its preparation, if it has one, leaves none behind.
LEMMA ReleasedCustody ==
  ASSUME TypesHold, Custody, NEW c \in Machines,
         machine'[c].prepared = 0,
         \A d \in Machines : d # c => machine'[d] = machine[d],
         DOMAIN store'.pending = DOMAIN store.pending \ {machine[c].prepared},
         store'.nextId = store.nextId,
         store'.committed \subseteq store.committed
  PROVE  Custody'
<1>1. ASSUME NEW id \in DOMAIN store'.pending
      PROVE  id # 0 /\ \E d \in Machines : machine'[d].prepared = id
  <2>1. id \in DOMAIN store.pending /\ id # machine[c].prepared
    BY <1>1
  <2>2. PICK d \in Machines : machine[d].prepared = id
    BY <2>1 DEF Custody
  <2>3. id # 0
    BY <2>1 DEF Custody
  <2> QED
    BY <2>1, <2>2, <2>3
<1>2. ASSUME NEW d \in Machines, NEW e \in Machines, machine'[d].prepared # 0,
             machine'[d].prepared = machine'[e].prepared
      PROVE  d = e
  <2>1. d # c /\ e # c
    BY <1>2
  <2> QED
    BY <1>2, <2>1 DEF Custody
<1>3. ASSUME NEW d \in Machines, machine'[d].prepared # 0, store'.nextId # 0
      PROVE  machine'[d].prepared < store'.nextId
  BY <1>3 DEF Custody
<1>4. \A undo \in store'.committed : undo.id \notin DOMAIN store'.pending
  BY DEF Custody
<1> QED
  BY <1>1, <1>2, <1>3, <1>4 DEF Custody

\* A machine that prepares a resume is the only one that knows its id.
LEMMA PreparedCustody ==
  ASSUME TypesHold, Custody, NEW c \in Machines,
         machine[c].prepared = 0, machine'[c].prepared = store.nextId,
         \A d \in Machines : d # c => machine'[d] = machine[d],
         store.nextId # 0,
         DOMAIN store'.pending = DOMAIN store.pending \cup {store.nextId},
         store'.nextId = (store.nextId + 1) % PreparationIds,
         store'.committed = {}
  PROVE  Custody'
<1>0. store.nextId \in Ids /\ store.nextId \in Nat
  BY DEF TypesHold, IsStoreOf, Ids
<1>1. ASSUME NEW id \in DOMAIN store'.pending
      PROVE  id # 0 /\ \E d \in Machines : machine'[d].prepared = id
  <2>1. CASE id = store.nextId
    BY <2>1
  <2>2. CASE id \in DOMAIN store.pending
    <3>1. id # 0
      BY <2>2 DEF Custody
    <3>2. PICK d \in Machines : machine[d].prepared = id
      BY <2>2 DEF Custody
    <3> QED
      BY <3>1, <3>2
  <2> QED
    BY <1>1, <2>1, <2>2
<1>2. ASSUME NEW d \in Machines, d # c, machine'[d].prepared # 0
      PROVE  machine'[d].prepared \in Nat /\ machine'[d].prepared < store.nextId
  BY <1>2 DEF Custody, TypesHold, Members
<1>3. ASSUME NEW d \in Machines, NEW e \in Machines, machine'[d].prepared # 0,
             machine'[d].prepared = machine'[e].prepared
      PROVE  d = e
  <2>1. CASE d # c /\ e # c
    BY <1>3, <2>1 DEF Custody
  <2>2. CASE d = c /\ e # c
    BY <1>0, <1>2, <1>3, <2>2
  <2>3. CASE d # c /\ e = c
    BY <1>0, <1>2, <1>3, <2>3
  <2> QED
    BY <2>1, <2>2, <2>3
<1>4. ASSUME NEW d \in Machines, machine'[d].prepared # 0, store'.nextId # 0
      PROVE  machine'[d].prepared < store'.nextId
  <2>1. store'.nextId = store.nextId + 1
    BY <1>0, <1>4, NextIdGrows
  <2>2. CASE d = c
    BY <1>0, <2>1, <2>2
  <2>3. CASE d # c
    BY <1>0, <1>2, <1>4, <2>1, <2>3
  <2> QED
    BY <2>2, <2>3
<1> QED
  BY <1>1, <1>3, <1>4 DEF Custody

\* A commit ends the preparation, and the machine keeps the id for the undo.
LEMMA CommittedCustody ==
  ASSUME Custody, NEW id,
         machine' = machine,
         DOMAIN store'.pending = DOMAIN store.pending \ {id},
         store'.nextId = store.nextId,
         \A undo \in store'.committed : undo.id = id
  PROVE  Custody'
BY DEF Custody

-----------------------------------------------------------------------------
(* The actions. *)

\* The constructors' state.
LEMMA InitIInv == Init => IInv
<1> SUFFICES ASSUME Init
             PROVE  IInv
  OBVIOUS
<1>1. PICK earlier \in (Tokens \ Machines) \cup {NoToken} :
        /\ store = Issue(EmptyStore, earlier, 1, 1, Context, now, earlier)
        /\ handed = {earlier} \ {NoToken}
  BY DEF Init
<1>2. IsStoreOf(EmptyStore, Record) /\ EmptyStore.pending = [id \in {} |-> 0]
      /\ EmptyStore.committed = {}
  BY DEF EmptyStore, IsStoreOf, IsPartial, Ids
<1>3. now = 0 /\ now \in Instants /\ now \in 0 .. Horizon
  BY DEF Init, Instants
<1>4. IsStoreOf(store, Record)
  <2>1. 1 \in Generations /\ 1 \in 1 .. MaxSession /\ earlier \in Tokens \cup {NoToken}
    BY DEF Generations
  <2> QED
    BY <1>1, <1>2, <1>3, <2>1, IssueType DEF Record
<1>5. DOMAIN store.pending = {} /\ store.committed = {}
  BY <1>1, <1>2, <1>3, IssueEffect
<1>6. Sound(Absent("None")) /\ Absent("None").prepared = 0
  BY DEF Absent, Sound, Members, States, Quiet
<1>7. \A c \in Machines : machine[c] = Absent("None")
  BY DEF Init
<1>8. TypesHold
  BY <1>1, <1>3, <1>4, <1>6, <1>7 DEF TypesHold, Init, Sound
<1>9. Custody
  BY <1>5, <1>6, <1>7 DEF Custody
<1> QED
  BY <1>8, <1>9 DEF IInv

\* A call that leaves the store alone and the preparation of its machine.
LEMMA StoreUntouched ==
  ASSUME IInv, NEW c \in Machines, NEW r, Sound(r), r.prepared = machine[c].prepared,
         machine' = [machine EXCEPT ![c] = r], handed' \subseteq Tokens,
         UNCHANGED <<now, store, nextSession>>
  PROVE  IInv'
<1>1. /\ machine' \in [Machines -> Members]
      /\ \A d \in Machines : Sound(machine'[d])
      /\ machine'[c] = r
      /\ \A d \in Machines : d # c => machine'[d] = machine[d]
  BY OneMachine DEF IInv
<1>2. TypesHold'
  BY <1>1 DEF IInv, TypesHold
<1>3. Custody'
  BY <1>1, UntouchedCustody DEF IInv
<1> QED
  BY <1>2, <1>3 DEF IInv

\* A stage of the handshake is entered with a deadline that does not wrap.
LEMMA StageEntered ==
  ASSUME IInv, NEW c \in Machines, NEW duration \in Nat, DeadlineFits(duration),
         NEW state \in Waiting, machine[c].state \in Quiet,
         Enter(c, state, duration), UNCHANGED <<now, store, nextSession, handed>>
  PROVE  IInv'
<1> DEFINE r == [machine[c] EXCEPT !.state = state, !.deadline = now + duration]
<1>1. machine[c] \in Members /\ machine[c].prepared = 0 /\ machine[c].session = 0
  BY DEF IInv, TypesHold, Sound
<1>2. now + duration \in 0 .. MaxInstant
  BY DEF IInv, TypesHold, DeadlineFits
<1>3. Sound(r) /\ r.prepared = machine[c].prepared
  BY <1>1, <1>2 DEF Sound, Members, States
<1>4. machine' = [machine EXCEPT ![c] = r]
  BY DEF Enter, IInv, TypesHold
<1> HIDE DEF r
<1> QED
  BY <1>3, <1>4, StoreUntouched DEF IInv, TypesHold

\* A step on the store that keeps every preparation, with its machine.
LEMMA StoreKept ==
  ASSUME IInv, NEW c \in Machines, NEW r, Sound(r), r.prepared = machine[c].prepared,
         machine' = [machine EXCEPT ![c] = r], handed' \subseteq Tokens,
         now' = now, nextSession' \in 2 .. MaxSession + 1,
         IsStoreOf(store', Record),
         store'.pending = store.pending, store'.nextId = store.nextId,
         store'.committed \subseteq store.committed
  PROVE  IInv'
<1>1. /\ machine' \in [Machines -> Members]
      /\ \A d \in Machines : Sound(machine'[d])
      /\ machine'[c] = r
      /\ \A d \in Machines : d # c => machine'[d] = machine[d]
  BY OneMachine DEF IInv
<1>2. TypesHold'
  BY <1>1 DEF IInv, TypesHold
<1>3. Custody'
  BY <1>1, UntouchedCustody DEF IInv
<1> QED
  BY <1>2, <1>3 DEF IInv

\* A machine gives its preparation up.
LEMMA StoreReleased ==
  ASSUME IInv, NEW c \in Machines, NEW r, Sound(r), r.prepared = 0,
         machine' = [machine EXCEPT ![c] = r],
         UNCHANGED <<now, nextSession, handed>>,
         IsStoreOf(store', Record),
         DOMAIN store'.pending = DOMAIN store.pending \ {machine[c].prepared},
         store'.nextId = store.nextId,
         store'.committed \subseteq store.committed
  PROVE  IInv'
<1>1. /\ machine' \in [Machines -> Members]
      /\ \A d \in Machines : Sound(machine'[d])
      /\ machine'[c] = r
      /\ \A d \in Machines : d # c => machine'[d] = machine[d]
  BY OneMachine DEF IInv
<1>2. TypesHold'
  BY <1>1 DEF IInv, TypesHold
<1>3. Custody'
  BY <1>1, ReleasedCustody DEF IInv
<1> QED
  BY <1>2, <1>3 DEF IInv

\* The handshake keeps the invariant: no call of it reaches the store.
LEMMA HandshakeKeepsIInv ==
  ASSUME IInv, NEW c \in Machines,
         \/ create(c)
         \/ EncryptedTransportReady(c)
         \/ \E compatible \in BOOLEAN : ClientHelloReceived(c, compatible)
         \/ \E operation \in {"none", "join"} : AuthenticationSubmitted(c, operation, NoToken)
         \/ \E token \in handed : AuthenticationSubmitted(c, "resume", token)
         \/ \E granted \in BOOLEAN : PollJoin(c, granted)
         \/ CheckTimeout(c)
         \/ Cancel(c)
         \/ takeAuthenticationAccepted(c)
  PROVE  IInv'
<1> DEFINE m == machine[c]
<1>0. /\ Sound(m) /\ m \in Members /\ handed \subseteq Tokens /\ now \in Nat
      /\ machine \in [Machines -> Members]
  BY DEF IInv, TypesHold, Sound
<1>1. CASE create(c)
  BY <1>1, StageEntered DEF create, In, Quiet, Waiting
<1>2. CASE EncryptedTransportReady(c)
  BY <1>2, StageEntered DEF EncryptedTransportReady, In, Quiet, Waiting
<1>3. ASSUME NEW compatible \in BOOLEAN, ClientHelloReceived(c, compatible)
      PROVE  IInv'
  <2>1. CASE compatible
    BY <1>3, <2>1, StageEntered DEF ClientHelloReceived, In, Quiet, Waiting
  <2>2. CASE ~compatible
    <3> DEFINE r == [m EXCEPT !.state = "Rejected", !.deadline = 0]
    <3>1. Sound(r) /\ r.prepared = m.prepared
      BY <1>0, StateNames, Settled
    <3>2. machine' = [machine EXCEPT ![c] = r] /\ UNCHANGED <<now, store, nextSession, handed>>
      BY <1>0, <1>3, <2>2 DEF ClientHelloReceived
    <3> HIDE DEF r
    <3> QED
      BY <1>0, <3>1, <3>2, StoreUntouched
  <2> QED
    BY <1>3, <2>1, <2>2
<1>4. ASSUME NEW operation \in {"none", "join", "resume"}, NEW token \in Tokens \cup {NoToken},
             AuthenticationSubmitted(c, operation, token)
      PROVE  IInv'
  <2> DEFINE r == IF operation = "none"
                  THEN [m EXCEPT !.state = "Rejected", !.deadline = 0]
                  ELSE [m EXCEPT !.state = "AuthenticationPending", !.deadline = now + ProviderTime,
                                 !.operation = operation, !.presented = token]
  <2>1. m.state \in Quiet /\ m.prepared = 0 /\ m.session = 0
    BY <1>0, <1>4 DEF Sound, AuthenticationSubmitted, In, Quiet, Waiting
  <2>2. now + ProviderTime \in 0 .. MaxInstant
    <3>1. now <= MaxInstant - ProviderTime
      BY <1>4 DEF AuthenticationSubmitted, DeadlineFits
    <3> QED
      BY <1>0, <3>1, Durations
  <2>3. Sound(r) /\ r.prepared = m.prepared
    <3>1. CASE operation = "none"
      BY <1>0, <3>1, StateNames, Settled
    <3>2. CASE operation # "none"
      BY <1>0, <2>1, <2>2, <3>2, StateNames DEF Sound, Members, Waiting
    <3> QED
      BY <3>1, <3>2
  <2>4. machine' = [machine EXCEPT ![c] = r] /\ UNCHANGED <<now, store, nextSession, handed>>
    BY <1>4 DEF AuthenticationSubmitted
  <2> HIDE DEF r
  <2> QED
    BY <1>0, <2>3, <2>4, StoreUntouched
<1>5. ASSUME NEW granted \in BOOLEAN, PollJoin(c, granted)
      PROVE  IInv'
  <2> DEFINE r == IF granted THEN [Answered(c) EXCEPT !.state = "Established", !.principal = c]
                             ELSE [Answered(c) EXCEPT !.state = "Rejected"]
  <2>1. Sound(r) /\ r.prepared = m.prepared
    <3>1. "Established" \in States \ Quiet /\ "Rejected" \in States \ Quiet
          /\ c \in Tokens
      BY StateNames
    <3>2. CASE granted
      <4> DEFINE g == [[Uncalled(m) EXCEPT !.deadline = 0] EXCEPT !.state = "Established",
                                                                  !.principal = c]
      <4> HIDE DEF m
      <4>1. Sound(g) /\ g.prepared = m.prepared
        BY <1>0, <3>1, Granted
      <4> USE DEF m
      <4> QED
        BY <3>2, <4>1 DEF Answered
    <3>3. CASE ~granted
      BY <1>0, <3>1, <3>3, Settled DEF Answered
    <3> QED
      BY <3>2, <3>3
  <2>2. machine' = [machine EXCEPT ![c] = r] /\ UNCHANGED <<now, store, nextSession, handed>>
    BY <1>5 DEF PollJoin
  <2> HIDE DEF r
  <2> QED
    BY <1>0, <2>1, <2>2, StoreUntouched
<1>6. ASSUME NEW state \in {"TimedOut", "Cancelled"},
             machine' = [machine EXCEPT ![c] = [Uncalled(m) EXCEPT !.state = state, !.deadline = 0]],
             UNCHANGED <<now, store, nextSession, handed>>
      PROVE  IInv'
  <2> DEFINE r == [Uncalled(m) EXCEPT !.state = state, !.deadline = 0]
  <2>1. Sound(r) /\ r.prepared = m.prepared
    <3>1. state \in States \ Quiet /\ c \in Tokens
      BY StateNames
    <3> QED
      BY <1>0, <3>1, Settled
  <2> HIDE DEF r
  <2> QED
    BY <1>0, <1>6, <2>1, StoreUntouched DEF r
<1>7. CASE CheckTimeout(c)
  BY <1>6, <1>7 DEF CheckTimeout
<1>8. CASE Cancel(c)
  BY <1>6, <1>8 DEF Cancel
<1>9. CASE takeAuthenticationAccepted(c)
  <2> DEFINE r == [m EXCEPT !.accepted = FALSE]
  <2>1. Sound(r) /\ r.prepared = m.prepared
    BY <1>0 DEF Sound, Members
  <2>2. machine' = [machine EXCEPT ![c] = r] /\ UNCHANGED <<now, store, nextSession>>
    BY <1>0, <1>9 DEF takeAuthenticationAccepted
  <2>3. handed' \subseteq Tokens
    BY <1>0, <1>9 DEF takeAuthenticationAccepted
  <2> HIDE DEF r
  <2> QED
    BY <1>0, <2>1, <2>2, <2>3, StoreUntouched
<1> QED
  BY <1>0, <1>1, <1>2, <1>3, <1>4, <1>5, <1>7, <1>8, <1>9

\* What a preparation of this module's store adds.
LEMMA SessionPrepares ==
  ASSUME NEW st, IsStoreOf(st, Record), NEW t \in Instants, NEW token,
         NEW replacement \in Tokens \cup {NoToken},
         PrepareAccepted(st, token, Context, t, replacement)
  PROVE  LET new == PrepareConsume(st, token, Context, t, replacement)
         IN  /\ st.nextId # 0
             /\ DOMAIN new.pending = DOMAIN st.pending \cup {st.nextId}
             /\ new.pending[st.nextId].replacement \in Record
             /\ new.committed = {}
             /\ new.nextId = (st.nextId + 1) % PreparationIds
<1> DEFINE Principals == Tokens \cup {NoToken}
           Sessions   == 1 .. MaxSession
           Contexts   == {Context}
<1>1. Record = RecordOf(Principals, Sessions, Contexts)
  BY DEF Record
<1> HIDE DEF Principals, Sessions, Contexts
<1> DEFINE new == PrepareConsume(st, token, Context, t, replacement)
<1>2. new.committed = {} /\ new.pending[st.nextId].replacement \in Record
  BY <1>1, AcceptedPrepareEffect
<1>3. st.nextId # 0
  BY DEF PrepareAccepted
<1>4. /\ DOMAIN new.pending = DOMAIN st.pending \cup {st.nextId}
      /\ new.nextId = (st.nextId + 1) % PreparationIds
  <2> DEFINE cleared == [st EXCEPT !.committed = {}]
             slot    == Found(st, token)
             staged  == [ slot        |-> slot,
                          replacement |-> Replacement(st, slot, t, replacement) ]
  <2>1. ~ExpiredOnSight(st, token, t)
    <3>1. st.records[slot] \in Record
      BY FoundType DEF PrepareAccepted
    <3>2. st.records[slot].expiresAt \in Int
      BY <3>1 DEF Record, RecordOf, Instants
    <3> QED
      BY <3>2 DEF PrepareAccepted, ExpiredOnSight, Instants
  <2>2. new = [cleared EXCEPT !.pending = Put(@, st.nextId, staged),
                              !.nextId  = (@ + 1) % PreparationIds]
    BY <2>1, Zenon DEF PrepareConsume
  <2> HIDE DEF new, slot, staged
  <2> QED
    BY <2>2 DEF IsStoreOf, Put
<1> QED
  BY <1>2, <1>3, <1>4

\* The poll of a resume takes a reservation for the machine, or none.
LEMMA PollResumeKeepsIInv ==
  ASSUME IInv, NEW c \in Machines, NEW replacement \in {c, NoToken}, PollResume(c, replacement)
  PROVE  IInv'
<1> DEFINE m     == machine[c]
           token == m.presented
           grant == store'.pending[store.nextId].replacement
<1>0. /\ Sound(m) /\ m \in Members /\ handed \subseteq Tokens /\ now \in Instants
      /\ machine \in [Machines -> Members] /\ IsStoreOf(store, Record)
      /\ store.nextId \in Ids
  BY DEF IInv, TypesHold, Sound, Instants, IsStoreOf
<1>1. replacement \in Tokens \cup {NoToken}
  OBVIOUS
<1>2. store' = PrepareConsume(store, token, Context, now, replacement)
      /\ UNCHANGED <<now, nextSession, handed>>
  BY DEF PollResume
<1>3. IsStoreOf(store', Record)
  BY <1>0, <1>1, <1>2, PrepareType DEF Record
<1>4. m.prepared = 0 /\ m.session = 0
  BY <1>0 DEF PollResume, In, Sound, Quiet, Waiting
<1>5. CASE ~PrepareAccepted(store, token, Context, now, replacement)
  <2> DEFINE r == [Answered(c) EXCEPT !.state = "Rejected"]
  <2>1. machine' = [machine EXCEPT ![c] = r]
    BY <1>5 DEF PollResume
  <2>2. Sound(r) /\ r.prepared = m.prepared
    BY <1>0, StateNames, Settled DEF Answered
  <2>3. /\ store'.pending = store.pending
        /\ store'.committed = {}
        /\ store'.nextId = store.nextId
    BY <1>0, <1>2, <1>5, RefusedPrepareEffect
  <2>4. nextSession' \in 2 .. MaxSession + 1
    BY <1>2 DEF IInv, TypesHold
  <2> HIDE DEF r
  <2> QED
    BY <1>0, <1>2, <1>3, <2>1, <2>2, <2>3, <2>4, StoreKept
<1>6. CASE PrepareAccepted(store, token, Context, now, replacement)
  <2> DEFINE r == [Answered(c) EXCEPT !.state = "Established", !.principal = grant.principal,
                                    !.accepted = TRUE, !.prepared = store.nextId,
                                    !.session = grant.session, !.generation = grant.generation]
  <2>1. machine' = [machine EXCEPT ![c] = r]
    BY <1>2, <1>6, Zenon DEF PollResume
  <2>2. /\ store.nextId # 0
        /\ DOMAIN store'.pending = DOMAIN store.pending \cup {store.nextId}
        /\ grant \in Record
        /\ store'.committed = {}
        /\ store'.nextId = (store.nextId + 1) % PreparationIds
    <3> HIDE DEF token
    <3> QED
      BY <1>0, <1>1, <1>2, <1>6, SessionPrepares
  <2>3. /\ grant.principal \in Tokens \cup {NoToken}
        /\ grant.session \in 0 .. MaxSession
        /\ grant.generation \in 1 .. MaxGeneration
    BY <2>2 DEF Record, RecordOf, Generations
  <2> HIDE DEF grant
  <2>4. Sound(r) /\ r.prepared = store.nextId
    <3>1. 0 \in 0 .. MaxInstant /\ NoToken \in Tokens \cup {NoToken}
      OBVIOUS
    <3> QED
      BY <1>0, <2>3, <3>1, StateNames DEF Answered, Uncalled, Sound, Members, Ids
  <2> HIDE DEF r
  <2>5. /\ machine' \in [Machines -> Members]
        /\ \A d \in Machines : Sound(machine'[d])
        /\ machine'[c] = r
        /\ \A d \in Machines : d # c => machine'[d] = machine[d]
    BY <2>1, <2>4, OneMachine DEF IInv
  <2>6. TypesHold'
    BY <1>2, <1>3, <2>5 DEF IInv, TypesHold
  <2>7. Custody'
    BY <1>4, <2>2, <2>4, <2>5, PreparedCustody DEF IInv
  <2> QED
    BY <2>6, <2>7 DEF IInv
<1> QED
  BY <1>5, <1>6

\* Closing, destroying and cancelling give the reservation back.
LEMMA CancellationKeepsIInv ==
  ASSUME IInv, NEW c \in Machines, Close(c) \/ destroy(c) \/ cancelPreparedResume(c)
  PROVE  IInv'
<1> DEFINE m == machine[c]
<1>0. /\ Sound(m) /\ m \in Members /\ machine \in [Machines -> Members]
      /\ IsStoreOf(store, Record)
  BY DEF IInv, TypesHold, Sound
<1>1. store' = CancelConsume(store, m.prepared) /\ UNCHANGED <<now, nextSession, handed>>
  BY DEF Close, destroy, cancelPreparedResume
<1>2. IsStoreOf(store', Record)
  BY <1>0, <1>1, CancelType
<1>3. /\ DOMAIN store'.pending = DOMAIN store.pending \ {m.prepared}
      /\ store'.nextId = store.nextId
      /\ store'.committed \subseteq store.committed
  BY <1>0, <1>1, CancelEffect
<1>4. ASSUME NEW r, Sound(r), r.prepared = 0, machine' = [machine EXCEPT ![c] = r]
      PROVE  IInv'
  BY <1>1, <1>2, <1>3, <1>4, StoreReleased
<1>5. CASE Close(c)
  <2> DEFINE r == [Uncalled(m) EXCEPT !.state = "Closed", !.deadline = 0, !.prepared = 0]
  <2>1. 0 \in 0 .. MaxInstant /\ NoToken \in Tokens \cup {NoToken} /\ 0 \in 0 .. PreparationIds - 1
    OBVIOUS
  <2>2. Sound(r) /\ r.prepared = 0
    BY <1>0, <2>1, StateNames DEF Uncalled, Sound, Members
  <2>3. machine' = [machine EXCEPT ![c] = r]
    BY <1>5 DEF Close
  <2> QED
    BY <1>4, <2>2, <2>3
<1>6. CASE destroy(c)
  <2>1. Sound(Absent("Destroyed")) /\ Absent("Destroyed").prepared = 0
    BY StateNames DEF Absent, Sound, Members
  <2>2. machine' = [machine EXCEPT ![c] = Absent("Destroyed")]
    BY <1>6 DEF destroy
  <2> QED
    BY <1>4, <2>1, <2>2
<1>7. CASE cancelPreparedResume(c)
  <2> DEFINE r == [m EXCEPT !.prepared = 0]
  <2>1. Sound(r) /\ r.prepared = 0
    BY <1>0 DEF Sound, Members
  <2>2. machine' = [machine EXCEPT ![c] = r]
    BY <1>0, <1>7 DEF cancelPreparedResume
  <2> QED
    BY <1>4, <2>1, <2>2
<1> QED
  BY <1>5, <1>6, <1>7

\* Finalizing and rolling back end a commit, whose preparation is gone already.
LEMMA EndKeepsIInv ==
  ASSUME IInv, NEW c \in Machines, finalizePreparedResume(c) \/ rollbackPreparedResume(c)
  PROVE  IInv'
<1> DEFINE m == machine[c]
           r == [m EXCEPT !.prepared = 0]
<1>0. /\ Sound(m) /\ m \in Members /\ machine \in [Machines -> Members]
      /\ IsStoreOf(store, Record)
  BY DEF IInv, TypesHold, Sound
<1>1. /\ CommittedAs(store, m.prepared) /\ UNCHANGED <<now, nextSession, handed>>
      /\ \/ store' = FinalizeConsume(store, m.prepared)
         \/ store' = RollbackConsume(store, m.prepared)
  BY DEF finalizePreparedResume, rollbackPreparedResume
<1>2. machine' = [machine EXCEPT ![c] = r]
  BY <1>0 DEF finalizePreparedResume, rollbackPreparedResume
<1>3. IsStoreOf(store', Record)
  BY <1>0, <1>1, FinalizeType, RollbackType
<1>4. /\ store'.pending = store.pending
      /\ store'.nextId = store.nextId
      /\ store'.committed \subseteq store.committed
  BY <1>0, <1>1, FinalizeEffect, RollbackEffect
<1>5. m.prepared \notin DOMAIN store.pending
  BY <1>1 DEF IInv, Custody, CommittedAs
<1>6. Sound(r) /\ r.prepared = 0
  BY <1>0 DEF Sound, Members
<1> HIDE DEF r
<1> QED
  BY <1>1, <1>2, <1>3, <1>4, <1>5, <1>6, StoreReleased

\* A commit keeps the invariant.
LEMMA CommitKeepsIInv ==
  ASSUME IInv, NEW c \in Machines, commitPreparedResume(c)
  PROVE  IInv'
<1> DEFINE id == machine[c].prepared
<1>0. IsStoreOf(store, Record)
  BY DEF IInv, TypesHold
<1>1. /\ id \in DOMAIN store.pending /\ CommitDefined(store, id)
      /\ store' = CommitConsume(store, id)
      /\ UNCHANGED <<now, machine, nextSession, handed>>
  BY DEF commitPreparedResume
<1> HIDE DEF id
<1>2. IsStoreOf(store', Record)
  BY <1>0, <1>1, CommitType
<1>3. /\ DOMAIN store'.pending = DOMAIN store.pending \ {id}
      /\ \A undo \in store'.committed : undo.id = id
      /\ store'.nextId = store.nextId
  BY <1>0, <1>1, CommitEffect
<1>4. TypesHold'
  BY <1>1, <1>2 DEF IInv, TypesHold
<1>5. Custody'
  BY <1>1, <1>3, CommittedCustody DEF IInv
<1> QED
  BY <1>4, <1>5 DEF IInv

\* The token of a new session is issued past the preparations.
LEMMA BindingKeepsIInv ==
  ASSUME IInv, NEW c \in Machines, NEW token \in {c, NoToken},
         bindPreissuedInitialSession(c, token) \/ finalizeInitialSession(c, token)
  PROVE  IInv'
<1> DEFINE m == machine[c]
<1>0. /\ Sound(m) /\ m \in Members /\ machine \in [Machines -> Members]
      /\ IsStoreOf(store, Record) /\ now \in Instants /\ handed \subseteq Tokens
      /\ nextSession \in 2 .. MaxSession + 1
  BY DEF IInv, TypesHold, Sound, Instants
<1>1. /\ Unbound(c) /\ nextSession <= MaxSession
      /\ store' = Issue(store, m.principal, nextSession, m.generation, Context, now, token)
      /\ nextSession' = nextSession + 1 /\ now' = now
  BY DEF bindPreissuedInitialSession, finalizeInitialSession
<1>2. /\ m.principal \in Tokens \cup {NoToken} /\ m.generation \in Generations
      /\ nextSession \in 1 .. MaxSession /\ nextSession' \in 2 .. MaxSession + 1
      /\ nextSession \in 0 .. MaxSession
      /\ token \in Tokens \cup {NoToken}
  BY <1>0, <1>1 DEF Members, Generations
<1>3. IsStoreOf(store', Record)
  <2> DEFINE Principals == Tokens \cup {NoToken}
             Sessions   == 1 .. MaxSession
             Contexts   == {Context}
  <2>1. Record = RecordOf(Principals, Sessions, Contexts)
    BY DEF Record
  <2>2. m.principal \in Principals /\ nextSession \in Sessions /\ Context \in Contexts
    BY <1>2
  <2> HIDE DEF Principals, Sessions, Contexts
  <2> QED
    BY <1>0, <1>1, <1>2, <2>1, <2>2, IssueType
<1>4. /\ store'.pending = store.pending
      /\ store'.committed = store.committed
      /\ store'.nextId = store.nextId
  BY <1>0, <1>1, IssueEffect
<1>5. handed' \subseteq Tokens
  BY <1>0 DEF bindPreissuedInitialSession, finalizeInitialSession, IssueAccepted
<1>6. m.state = "Established"
  BY <1>1 DEF Unbound, In
<1>7. ASSUME NEW r, Sound(r), r.prepared = m.prepared, machine' = [machine EXCEPT ![c] = r]
      PROVE  IInv'
  BY <1>1, <1>2, <1>3, <1>4, <1>5, <1>7, StoreKept
<1>8. CASE bindPreissuedInitialSession(c, token)
  <2> DEFINE r == [m EXCEPT !.session = nextSession]
  <2>1. Sound(r) /\ r.prepared = m.prepared
    BY <1>0, <1>2, <1>6, StateNames DEF Sound, Members
  <2>2. machine' = [machine EXCEPT ![c] = r]
    BY <1>0, <1>8 DEF bindPreissuedInitialSession
  <2> QED
    BY <1>7, <2>1, <2>2
<1>9. CASE finalizeInitialSession(c, token)
  <2> DEFINE bound == [m EXCEPT !.session = nextSession, !.accepted = TRUE]
             shut  == [m EXCEPT !.state = "Closed"]
  <2>1. Sound(bound) /\ bound.prepared = m.prepared
    BY <1>0, <1>2, <1>6, StateNames DEF Sound, Members
  <2>2. Sound(shut) /\ shut.prepared = m.prepared
    BY <1>0, StateNames DEF Sound, Members
  <2>3. CASE IssueAccepted(store, now, token)
    <3>1. machine' = [machine EXCEPT ![c] = bound]
      BY <1>9, <2>3 DEF finalizeInitialSession
    <3> HIDE DEF bound
    <3> QED
      BY <1>7, <2>1, <3>1
  <2>4. CASE ~IssueAccepted(store, now, token)
    <3>1. machine' = [machine EXCEPT ![c] = shut]
      BY <1>9, <2>4 DEF finalizeInitialSession
    <3> HIDE DEF shut
    <3> QED
      BY <1>7, <2>2, <3>1
  <2> QED
    BY <2>3, <2>4
<1> QED
  BY <1>8, <1>9

\* Every call of a machine, and the clock, keep the invariant.
LEMMA NextKeepsIInv == IInv /\ [Next]_vars => IInv'
<1> SUFFICES ASSUME IInv, [Next]_vars
             PROVE  IInv'
  OBVIOUS
<1>1. CASE Tick
  <2>1. now' \in 0 .. Horizon
    BY <1>1 DEF IInv, TypesHold, Tick
  <2> QED
    BY <1>1, <2>1 DEF Tick, IInv, TypesHold, Custody
<1>2. CASE UNCHANGED vars
  BY <1>2 DEF vars, IInv, TypesHold, Custody
<1>3. ASSUME NEW c \in Machines, bindPreissuedInitialSession(c, c)
      PROVE  IInv'
  BY <1>3, BindingKeepsIInv
<1> QED
  BY <1>1, <1>2, <1>3, HandshakeKeepsIInv, PollResumeKeepsIInv, CancellationKeepsIInv,
     EndKeepsIInv, CommitKeepsIInv, BindingKeepsIInv DEF Next

-----------------------------------------------------------------------------
(* The theorems. *)

LEMMA Invariance == Spec => []IInv
BY InitIInv, NextKeepsIInv, PTL DEF Spec

\* Type correctness: no deadline, session id, generation or preparation id
\* leaves its width, in whichever order the owner calls the machines.
THEOREM SessionTypeCorrect == Spec => []TypeOK
<1>1. IInv => TypeOK
  BY DEF IInv, TypesHold, TypeOK, Members
<1> QED
  BY <1>1, Invariance, PTL

\* Every reservation at the store is held by exactly one machine that is still
\* there (~ServerSessionStateMachine, handle(ServerClose) and
\* cancelPreparedResume give it back).
THEOREM ReservationsHeld == Spec => []ReservationsAreHeld
<1>1. ASSUME IInv, NEW id \in DOMAIN store.pending
      PROVE  Cardinality({c \in Machines : Alive(c) /\ machine[c].prepared = id}) = 1
  <2>1. id # 0
    BY <1>1 DEF IInv, Custody
  <2>2. PICK c \in Machines : machine[c].prepared = id
    BY <1>1 DEF IInv, Custody
  <2>3. machine[c].state \notin Quiet
    BY <1>1, <2>1, <2>2 DEF IInv, TypesHold, Sound
  <2>4. Alive(c)
    BY <2>3 DEF Alive, Quiet
  <2>5. \A d \in Machines : machine[d].prepared = id => d = c
    BY <1>1, <2>1, <2>2 DEF IInv, Custody
  <2>6. {d \in Machines : Alive(d) /\ machine[d].prepared = id} = {c}
    BY <2>2, <2>4, <2>5
  <2> QED
    BY <2>6, FS_Singleton
<1>2. IInv => ReservationsAreHeld
  BY <1>1 DEF ReservationsAreHeld
<1> QED
  BY <1>2, Invariance, PTL

\* What a step may do to machine d.
MovesOn(d) ==
  /\ machine[d].session # 0 /\ Alive(d)' =>
       /\ machine'[d].session = machine[d].session
       /\ machine'[d].generation = machine[d].generation
  /\ machine[d].state \in Ended
       => machine'[d].state \in {machine[d].state, "Closed", "Destroyed"}
  /\ In(d, "Closed") => machine'[d].state \in {"Closed", "Destroyed"}

\* A call of machine c leaves the others where they are; c itself must keep the
\* identity it has, and the end it has reached.
LEMMA MovesOnOne ==
  ASSUME IInv, NEW c \in Machines, NEW r, machine' = [machine EXCEPT ![c] = r],
         \/ r.state = "Destroyed"
         \/ machine[c].session # 0 => r.session = machine[c].session
                                      /\ r.generation = machine[c].generation,
         machine[c].state \in Ended => r.state \in {machine[c].state, "Closed", "Destroyed"},
         In(c, "Closed") => r.state \in {"Closed", "Destroyed"}
  PROVE  \A d \in Machines : MovesOn(d)
<1> SUFFICES ASSUME NEW d \in Machines
             PROVE  MovesOn(d)
  OBVIOUS
<1>1. CASE d # c
  <2>1. machine'[d] = machine[d]
    BY <1>1 DEF IInv, TypesHold
  <2> QED
    BY <2>1 DEF MovesOn, In
<1>2. CASE d = c
  <2>1. machine'[d] = r
    BY <1>2 DEF IInv, TypesHold
  <2> QED
    BY <1>2, <2>1 DEF MovesOn, In, Alive
<1> QED
  BY <1>1, <1>2

\* The calls that end in one of the states of the handshake start in one.
LEMMA WaitingIsQuiet ==
  ASSUME IInv, NEW c \in Machines, machine[c].state \in Quiet
  PROVE  machine[c].session = 0 /\ machine[c].state \notin Ended /\ ~In(c, "Closed")
BY DEF IInv, TypesHold, Sound, Quiet, Waiting, Ended, In

\* One step per call.
LEMMA StepsMoveOn == IInv /\ [Next]_vars => \A d \in Machines : MovesOn(d)
<1> SUFFICES ASSUME IInv, [Next]_vars
             PROVE  \A d \in Machines : MovesOn(d)
  OBVIOUS
<1>0. machine \in [Machines -> Members]
  BY DEF IInv, TypesHold
<1>1. ASSUME machine' = machine
      PROVE  \A d \in Machines : MovesOn(d)
  BY <1>1 DEF MovesOn, In
<1>2. ASSUME NEW c \in Machines, machine[c].state \in Quiet,
             NEW r, machine' = [machine EXCEPT ![c] = r]
      PROVE  \A d \in Machines : MovesOn(d)
  BY <1>2, WaitingIsQuiet, MovesOnOne
<1>3. ASSUME NEW c \in Machines, create(c)
      PROVE  \A d \in Machines : MovesOn(d)
  <2>1. machine' = [machine EXCEPT ![c] = [@ EXCEPT !.state = "AwaitingEncryptedTransport",
                                                    !.deadline = now + NegotiationTime]]
    BY <1>0, <1>3 DEF create, Enter
  <2> QED
    BY <1>2, <1>3, <2>1 DEF create, In, Quiet
<1>4. ASSUME NEW c \in Machines, EncryptedTransportReady(c)
      PROVE  \A d \in Machines : MovesOn(d)
  <2>1. machine' = [machine EXCEPT ![c] = [@ EXCEPT !.state = "AwaitingClientHello",
                                                    !.deadline = now + NegotiationTime]]
    BY <1>0, <1>4 DEF EncryptedTransportReady, Enter
  <2> QED
    BY <1>2, <1>4, <2>1 DEF EncryptedTransportReady, In, Quiet, Waiting
<1>5. ASSUME NEW c \in Machines, NEW compatible \in BOOLEAN, ClientHelloReceived(c, compatible)
      PROVE  \A d \in Machines : MovesOn(d)
  <2>1. CASE compatible
    <3>1. machine' = [machine EXCEPT ![c] = [@ EXCEPT !.state = "AwaitingAuthenticationInput",
                                                      !.deadline = now + InputTime]]
      BY <1>0, <1>5, <2>1 DEF ClientHelloReceived, Enter
    <3> QED
      BY <1>2, <1>5, <3>1 DEF ClientHelloReceived, In, Quiet, Waiting
  <2>2. CASE ~compatible
    <3>1. machine' = [machine EXCEPT ![c] = [@ EXCEPT !.state = "Rejected", !.deadline = 0]]
      BY <1>0, <1>5, <2>2 DEF ClientHelloReceived
    <3> QED
      BY <1>2, <1>5, <3>1 DEF ClientHelloReceived, In, Quiet, Waiting
  <2> QED
    BY <1>5, <2>1, <2>2
<1>6. ASSUME NEW c \in Machines, NEW operation, NEW token,
             AuthenticationSubmitted(c, operation, token)
      PROVE  \A d \in Machines : MovesOn(d)
  BY <1>2, <1>6 DEF AuthenticationSubmitted, In, Quiet, Waiting
<1>7. ASSUME NEW c \in Machines, NEW granted, PollJoin(c, granted)
      PROVE  \A d \in Machines : MovesOn(d)
  BY <1>2, <1>7 DEF PollJoin, In, Quiet, Waiting
<1>8. ASSUME NEW c \in Machines, NEW replacement, PollResume(c, replacement)
      PROVE  \A d \in Machines : MovesOn(d)
  <2>1. machine[c].state \in Quiet
    BY <1>8 DEF PollResume, In, Quiet, Waiting
  <2>2. \E r : machine' = [machine EXCEPT ![c] = r]
    BY <1>8, Zenon DEF PollResume
  <2> QED
    BY <1>2, <2>1, <2>2
<1>9. ASSUME NEW c \in Machines, CheckTimeout(c)
      PROVE  \A d \in Machines : MovesOn(d)
  BY <1>2, <1>9 DEF CheckTimeout, TimeoutApplies, Quiet
<1>10. ASSUME NEW c \in Machines, Cancel(c)
       PROVE  \A d \in Machines : MovesOn(d)
  <2> DEFINE r == [Uncalled(machine[c]) EXCEPT !.state = "Cancelled", !.deadline = 0]
  <2>1. machine' = [machine EXCEPT ![c] = r]
    BY <1>10 DEF Cancel
  <2>2. r.session = machine[c].session /\ r.generation = machine[c].generation
    BY <1>0 DEF Uncalled, Members
  <2>3. machine[c].state \notin Ended /\ ~In(c, "Closed")
    BY <1>10 DEF Cancel, CancelApplies, In, Ended
  <2> HIDE DEF r
  <2> QED
    BY <2>1, <2>2, <2>3, MovesOnOne
<1>11. ASSUME NEW c \in Machines, Close(c)
       PROVE  \A d \in Machines : MovesOn(d)
  <2> DEFINE r == [Uncalled(machine[c]) EXCEPT !.state = "Closed", !.deadline = 0, !.prepared = 0]
  <2>1. machine' = [machine EXCEPT ![c] = r]
    BY <1>11 DEF Close
  <2>2. r.session = machine[c].session /\ r.generation = machine[c].generation
        /\ r.state = "Closed"
    BY <1>0 DEF Uncalled, Members
  <2> HIDE DEF r
  <2> QED
    BY <2>1, <2>2, MovesOnOne
<1>12. ASSUME NEW c \in Machines, NEW token, bindPreissuedInitialSession(c, token)
       PROVE  \A d \in Machines : MovesOn(d)
  <2> DEFINE r == [machine[c] EXCEPT !.session = nextSession]
  <2>1. machine' = [machine EXCEPT ![c] = r]
    BY <1>0, <1>12 DEF bindPreissuedInitialSession
  <2>2. machine[c].session = 0 /\ machine[c].state \notin Ended /\ ~In(c, "Closed")
    BY <1>12 DEF bindPreissuedInitialSession, Unbound, In, Ended
  <2> HIDE DEF r
  <2> QED
    BY <2>1, <2>2, MovesOnOne
<1>13. ASSUME NEW c \in Machines, NEW token, finalizeInitialSession(c, token)
       PROVE  \A d \in Machines : MovesOn(d)
  <2>1. \E r : machine' = [machine EXCEPT ![c] = r]
    BY <1>13, Zenon DEF finalizeInitialSession
  <2>2. machine[c].session = 0 /\ machine[c].state \notin Ended /\ ~In(c, "Closed")
    BY <1>13 DEF finalizeInitialSession, Unbound, In, Ended
  <2> QED
    BY <2>1, <2>2, MovesOnOne
<1>14. ASSUME NEW c \in Machines, takeAuthenticationAccepted(c)
       PROVE  \A d \in Machines : MovesOn(d)
  <2> DEFINE r == [machine[c] EXCEPT !.accepted = FALSE]
  <2>1. machine' = [machine EXCEPT ![c] = r]
    BY <1>0, <1>14 DEF takeAuthenticationAccepted
  <2>2. r.session = machine[c].session /\ r.generation = machine[c].generation
        /\ r.state = machine[c].state
    BY <1>0 DEF Members
  <2> HIDE DEF r
  <2> QED
    BY <2>1, <2>2, MovesOnOne DEF In
<1>15. ASSUME NEW c \in Machines,
              finalizePreparedResume(c) \/ rollbackPreparedResume(c) \/ cancelPreparedResume(c)
       PROVE  \A d \in Machines : MovesOn(d)
  <2> DEFINE r == [machine[c] EXCEPT !.prepared = 0]
  <2>1. machine' = [machine EXCEPT ![c] = r]
    BY <1>0, <1>15 DEF finalizePreparedResume, rollbackPreparedResume, cancelPreparedResume
  <2>2. r.session = machine[c].session /\ r.generation = machine[c].generation
        /\ r.state = machine[c].state
    BY <1>0 DEF Members
  <2> HIDE DEF r
  <2> QED
    BY <2>1, <2>2, MovesOnOne DEF In
<1>16. ASSUME NEW c \in Machines, destroy(c)
       PROVE  \A d \in Machines : MovesOn(d)
  <2>1. machine' = [machine EXCEPT ![c] = Absent("Destroyed")]
    BY <1>16 DEF destroy
  <2>2. Absent("Destroyed").state = "Destroyed"
    BY DEF Absent
  <2> QED
    BY <2>1, <2>2, MovesOnOne
<1>17. CASE Tick \/ UNCHANGED vars \/ \E c \in Machines : commitPreparedResume(c)
  BY <1>1, <1>17 DEF Tick, vars, commitPreparedResume
<1> QED
  BY <1>3, <1>4, <1>5, <1>6, <1>7, <1>8, <1>9, <1>10, <1>11, <1>12, <1>13, <1>14, <1>15,
     <1>16, <1>17 DEF Next

\* A machine neither exchanges the session and generation it was bound to nor
\* leaves an end it has reached, whichever call, timeout or late answer of the
\* provider comes next.
THEOREM MachinesMoveOn == Spec => MachinesOnlyMoveOn
<1>1. IInv /\ [Next]_vars =>
        [ \A c \in Machines :
            /\ machine[c].session # 0 /\ Alive(c)' =>
                 /\ machine'[c].session = machine[c].session
                 /\ machine'[c].generation = machine[c].generation
            /\ machine[c].state \in Ended
                 => machine'[c].state \in {machine[c].state, "Closed", "Destroyed"}
            /\ In(c, "Closed") => machine'[c].state \in {"Closed", "Destroyed"} ]_vars
  BY StepsMoveOn DEF MovesOn
<1> QED
  BY <1>1, Invariance, PTL DEF Spec, MachinesOnlyMoveOn
=============================================================================
