----------------------- MODULE ServerApplicationProofs -----------------------
(***************************************************************************)
(* The registries of the server agree after every handler, for any number  *)
(* of connections, players, sessions and tokens and any combination of     *)
(* faults; the server implements PlayerPresence.                           *)
(*                                                                         *)
(* Session ids are never given out twice until the last one is in use      *)
(* (exhausted); from then on a player that is known may be given the last  *)
(* id again.  The theorems speak of the server until that happens.         *)
(***************************************************************************)
EXTENDS ServerApplication, ResumeTokensProofs

Record == RecordOf(Conns, Sessions, {Context})
Ownership == [session : Sessions, generation : Generations, by : Conns]
Early == {"Unseen", "AwaitingClientHello", "AwaitingAuthenticationInput"}

ConnState == [state : States, session : 0 .. MaxSession, generation : 1 .. MaxGeneration]
Binding == [principal : Conns, generation : 1 .. MaxGeneration, player : Players,
            live : BOOLEAN, deadline : 0 .. MaxInstant]

\* The types, also once the session ids are used up: of the pump,
PumpTypes ==
  /\ now \in 0 .. Horizon
  /\ running \in BOOLEAN
  /\ phase \in {"events", "timeouts", "expire", "receive", "tick", "send"}
  /\ todo \subseteq Conns
  /\ conn \in [Conns -> ConnState]

\* of the registries,
RegistryTypes ==
  /\ players \subseteq Players
  /\ identities \subseteq Players
  /\ DOMAIN active \subseteq Sessions
  /\ \A s \in DOMAIN active :
       active[s] \in [generation : 1 .. MaxGeneration, player : Players]
  /\ DOMAIN principals \subseteq Conns
  /\ \A c \in DOMAIN principals : principals[c] \in Players
  /\ nextSession \in Sessions
  /\ exhausted \in BOOLEAN
  /\ DOMAIN bindings \subseteq Sessions
  /\ \A s \in DOMAIN bindings : bindings[s] \in Binding

\* and of the token store and the history.
StoreTypes ==
  /\ IsStoreOf(store, Record)
  /\ NoReservationLeaks
  /\ handed \subseteq Conns
  /\ owned \subseteq Ownership
  /\ discarded \subseteq Sessions

\* Exactly the established connections have a session.
Bound == \A c \in Conns : conn[c].session # 0 <=> conn[c].state = "Established"

Types == PumpTypes /\ RegistryTypes /\ StoreTypes /\ Bound

\* The registries of the reducer, the lifecycle and the join coordinator, and
\* every session they know was given out before the next one.
Agreement ==
  /\ LiveBindingsAreActive
  /\ PlayersAreBound
  /\ PrincipalsMatchBindings
  /\ \A s \in DOMAIN bindings : s < nextSession

\* The connections and the active sessions.
Owning ==
  /\ OwnersAreActive
  /\ OrphansWereDiscarded

\* Who held which generation: none is ahead of its binding.
Custody ==
  /\ NoSharedGeneration
  /\ \A o \in owned :
       /\ o.session < nextSession
       /\ o.session \in DOMAIN bindings => o.generation <= bindings[o.session].generation

\* The tokens: one for a principal of a session, and none before the principal
\* has authenticated.
Tracking ==
  /\ TokensTrackBindings
  /\ \A i, j \in Occupied(store) :
       /\ store.records[i].session = store.records[j].session
       /\ store.records[i].principal = store.records[j].principal
       => i = j
  /\ \A slot \in Occupied(store) : conn[store.records[slot].principal].state \notin Early

Core == Agreement /\ Owning /\ Custody /\ Tracking

IInv == Types /\ (~exhausted => Core)

USE CapacityAssumption, ClockAssumption, CounterAssumption, TokenAssumption, ServerAssumption

\* The invariant contains the types of the registries.
LEMMA TypesAreOK == Types => TypeOK
<1> SUFFICES ASSUME Types PROVE TypeOK
  OBVIOUS
<1>1. \A slot \in Occupied(store) : store.records[slot].expiresAt <= MaxInstant
  BY DEF Types, StoreTypes, IsStoreOf, IsPartial, Occupied, Record, RecordOf, Instants
<1> QED
  BY <1>1 DEF Types, PumpTypes, RegistryTypes, TypeOK, ConnState, Binding

-----------------------------------------------------------------------------
(* The start. *)

\* A process starts with empty registries and the players of the recovery.
LEMMA InitHolds == Init => IInv
<1> SUFFICES ASSUME Init PROVE IInv
  OBVIOUS
<1>1. IsStoreOf(store, Record) /\ NoReservationLeaks /\ Occupied(store) = {}
  BY DEF Init, EmptyStore, IsStoreOf, IsPartial, Ids, NoReservationLeaks, Occupied
<1>2. Blank("Unseen") \in ConnState
  BY DEF Blank, ConnState, States
<1>3. conn \in [Conns -> ConnState]
  BY <1>2 DEF Init
<1>4. PumpTypes
  <2>1. running \in BOOLEAN
    BY Zenon DEF Init
  <2> QED
    BY <1>3, <2>1 DEF Init, PumpTypes
<1>5. Types
  <2>1. exhausted \in BOOLEAN
    BY Zenon DEF Init
  <2> QED
    BY <1>1, <1>4, <2>1 DEF Init, Types, RegistryTypes, StoreTypes, Sessions, Bound, Blank
<1>6. Agreement
  BY DEF Init, Agreement, LiveBindingsAreActive, PlayersAreBound, PrincipalsMatchBindings
<1>7. Owning
  BY DEF Init, Owning, Blank, OwnersAreActive, OrphansWereDiscarded, Present
<1>8. Custody /\ Tracking
  BY <1>1 DEF Init, Custody, NoSharedGeneration, Tracking, TokensTrackBindings
<1> QED
  BY <1>5, <1>6, <1>7, <1>8 DEF IInv, Core

-----------------------------------------------------------------------------
(* What a step that only drops connections leaves in order. *)

\* Connections stay as they are or lose their session: it ended with the step,
\* or it is known to be discarded.
ConnsDrop ==
  /\ DOMAIN active' \subseteq DOMAIN active
  /\ \A s \in DOMAIN active' : active'[s] = active[s]
  /\ discarded \subseteq discarded'
  /\ \A d \in Conns :
       \/ /\ conn'[d] = conn[d]
          /\ conn[d].session # 0 => conn[d].session \in DOMAIN active'
       \/ /\ conn'[d].session = 0
          /\ conn'[d].state # "Established"
          /\ conn[d].session # 0 => \/ conn[d].session \notin DOMAIN active'
                                    \/ conn[d].session \in discarded'

\* Nobody becomes a connection that has not authenticated.
NobodyNew == \A d \in Conns : conn'[d].state \in Early => conn[d].state \in Early

\* Bindings may go, or be hidden.
BindingsKept ==
  \A s \in DOMAIN bindings' :
    /\ s \in DOMAIN bindings
    /\ bindings'[s].principal = bindings[s].principal
    /\ bindings'[s].generation = bindings[s].generation

\* Tokens may go, or be renewed.
TokensKept ==
  \A slot \in Occupied(store') :
    /\ slot \in Occupied(store)
    /\ store'.records[slot].session = store.records[slot].session
    /\ store'.records[slot].principal = store.records[slot].principal
    /\ store'.records[slot].generation = store.records[slot].generation

\* They stay the same tokens, and expire as before or a lifetime from now.
TokensRenewed ==
  \A slot \in Occupied(store') :
    /\ store'.records[slot].digest = store.records[slot].digest
    /\ \/ store'.records[slot].expiresAt = store.records[slot].expiresAt
       \/ store'.records[slot].expiresAt = now + Lifetime

LEMMA OwningKept ==
  ASSUME Types, Owning, ConnsDrop
  PROVE  Owning'
<1>1. \A c \in Conns : conn[c].session # 0 <=> conn[c].state = "Established"
  BY DEF Types, Bound
<1>3. \A c \in Conns : conn'[c].session # 0 => conn'[c] = conn[c] /\ conn[c].session \in DOMAIN active'
  BY DEF ConnsDrop
<1>4. OwnersAreActive'
  <2> SUFFICES ASSUME NEW c \in Conns, c \in Present', conn'[c].session # 0
               PROVE  /\ Owners(conn[c].session)' = {c}
                      /\ conn'[c].session \in DOMAIN active'
                      /\ active'[conn'[c].session].generation = conn'[c].generation
    BY <1>3 DEF OwnersAreActive, Present, Owners
  <2>1. conn'[c] = conn[c] /\ conn[c].session \in DOMAIN active'
    BY <1>3
  <2>2. c \in Present
    BY <2>1 DEF Present
  <2>3. /\ Owners(conn[c].session) = {c}
        /\ active[conn[c].session].generation = conn[c].generation
    BY <2>1, <2>2 DEF Owning, OwnersAreActive
  <2>4. ASSUME NEW d \in Conns, d \in Present', conn'[d].session = conn[c].session
        PROVE  d = c
    <3>1. conn'[d] = conn[d]
      BY <1>3, <2>1, <2>4
    <3>2. d \in Owners(conn[c].session)
      BY <2>4, <3>1 DEF Owners, Present
    <3> QED
      BY <2>3, <3>2
  <2> QED
    BY <2>1, <2>3, <2>4 DEF Owners, Present, ConnsDrop
<1>5. OrphansWereDiscarded'
  <2> SUFFICES ASSUME NEW s \in DOMAIN active', s \notin discarded'
               PROVE  HasOwner(s)'
    BY DEF OrphansWereDiscarded
  <2>1. s \in DOMAIN active /\ s \notin discarded /\ active'[s] = active[s]
    BY DEF ConnsDrop
  <2>2. PICK c \in Conns : /\ conn[c].state = "Established"
                           /\ conn[c].session = s
                           /\ conn[c].generation = active[s].generation
    BY <2>1 DEF Owning, OrphansWereDiscarded, HasOwner
  <2>3. conn'[c] = conn[c]
    BY <1>1, <2>2 DEF ConnsDrop
  <2> QED
    BY <2>1, <2>2, <2>3 DEF HasOwner
<1> QED
  BY <1>4, <1>5 DEF Owning

LEMMA CustodyKept ==
  ASSUME Custody, BindingsKept, UNCHANGED <<owned, nextSession>>
  PROVE  Custody'
  BY DEF Custody, BindingsKept, NoSharedGeneration

LEMMA TrackingKept ==
  ASSUME Types, Tracking, BindingsKept, TokensKept, NobodyNew
  PROVE  Tracking'
<1>1. \A slot \in Occupied(store) : store.records[slot].principal \in Conns
  BY DEF Types, StoreTypes, IsStoreOf, IsPartial, Occupied, Record, RecordOf
<1>2. TokensTrackBindings'
  BY DEF Tracking, TokensTrackBindings, BindingsKept, TokensKept
<1>3. \A i, j \in Occupied(store') :
        /\ store'.records[i].session = store'.records[j].session
        /\ store'.records[i].principal = store'.records[j].principal
        => i = j
  BY DEF Tracking, TokensKept
<1>4. \A slot \in Occupied(store') : conn'[store'.records[slot].principal].state \notin Early
  BY <1>1 DEF Tracking, TokensKept, NobodyNew
<1> QED
  BY <1>2, <1>3, <1>4 DEF Tracking

LEMMA AgreementKept ==
  ASSUME Agreement, UNCHANGED <<active, bindings, players, restored, principals, nextSession>>
  PROVE  Agreement'
  BY DEF Agreement, LiveBindingsAreActive, PlayersAreBound, PrincipalsMatchBindings

-----------------------------------------------------------------------------
(* Quiet steps: the registries stay, connections that own no session or whose *)
(* session is noted as discarded move, tokens are erased or renewed.          *)

Quiet ==
  /\ UNCHANGED <<players, active, identities, principals, nextSession, exhausted,
                 bindings, handed, owned, restored>>
  /\ discarded \subseteq discarded' /\ discarded' \subseteq Sessions
  /\ \A d \in Conns :
       \/ conn'[d] = conn[d]
       \/ /\ conn'[d].session = 0
          /\ conn'[d].state # "Established"
          /\ conn'[d].state \in Early => conn[d].state \in Early
          /\ conn[d].state = "Established" => conn[d].session \in discarded'

\* A session that a connection owns is active.
LEMMA OwnedIsActive ==
  ASSUME Types, Owning, NEW c \in Conns, conn[c].session # 0
  PROVE  /\ conn[c].state = "Established"
         /\ c \in Present
         /\ conn[c].session \in DOMAIN active
         /\ Owners(conn[c].session) = {c}
         /\ active[conn[c].session].generation = conn[c].generation
<1>1. conn[c].state = "Established"
  BY DEF Types, Bound
<1>2. c \in Present
  BY <1>1 DEF Present
<1> QED
  BY <1>1, <1>2 DEF Owning, OwnersAreActive

\* A store that did not change has no new tokens.
LEMMA SameStore ==
  ASSUME StoreTypes, UNCHANGED store
  PROVE  IsStoreOf(store', Record) /\ NoReservationLeaks' /\ TokensKept
<1>1. UNCHANGED Occupied(store)
  BY DEF Occupied
<1> QED
  BY <1>1 DEF StoreTypes, TokensKept, NoReservationLeaks, Record

LEMMA QuietTracked ==
  ASSUME IInv, Quiet, PumpTypes', IsStoreOf(store', Record), NoReservationLeaks',
         ~exhausted => Tracking'
  PROVE  IInv'
<1>1. Types'
  <2>1. RegistryTypes'
    BY DEF IInv, Types, RegistryTypes, Quiet
  <2>2. StoreTypes'
    BY DEF IInv, Types, StoreTypes, Quiet, Record
  <2>3. Bound'
    BY DEF IInv, Types, Bound, Quiet
  <2> QED
    BY <2>1, <2>2, <2>3 DEF Types
<1>2. ASSUME ~exhausted PROVE Core'
  <2>1. Types /\ Agreement /\ Owning /\ Custody
    BY <1>2 DEF IInv, Core
  <2>2. ConnsDrop
    <3>1. ASSUME NEW d \in Conns, conn[d].session # 0
          PROVE  conn[d].state = "Established" /\ conn[d].session \in DOMAIN active
      BY <2>1, <3>1, OwnedIsActive
    <3> QED
      BY <3>1 DEF Quiet, ConnsDrop
  <2>3. BindingsKept
    BY DEF Quiet, BindingsKept
  <2>4. Agreement'
    BY <2>1, AgreementKept DEF Quiet
  <2>5. Owning'
    BY <2>1, <2>2, OwningKept
  <2>6. Custody'
    BY <2>1, <2>3, CustodyKept DEF Quiet
  <2> QED
    BY <1>2, <2>4, <2>5, <2>6 DEF Core
<1> QED
  BY <1>1, <1>2 DEF IInv, Quiet

LEMMA QuietHolds ==
  ASSUME IInv, Quiet, PumpTypes', IsStoreOf(store', Record), NoReservationLeaks', TokensKept
  PROVE  IInv'
<1>1. BindingsKept /\ NobodyNew
  BY DEF Quiet, BindingsKept, NobodyNew
<1>2. ~exhausted => Tracking'
  BY <1>1, TrackingKept DEF IInv, Core
<1> QED
  BY <1>2, QuietTracked

\* The connections after sessions.close().
LEMMA ClosedConns ==
  ASSUME PumpTypes, NEW cs
  PROVE  /\ Closed(cs) \in [Conns -> ConnState]
         /\ \A d \in Conns :
              IF d \in cs
              THEN Closed(cs)[d].state = "Gone" /\ Closed(cs)[d].session = 0
              ELSE Closed(cs)[d] = conn[d]
<1>1. Blank("Gone") \in ConnState
  BY DEF Blank, ConnState, States
<1>2. Blank("Gone").state = "Gone" /\ Blank("Gone").session = 0
  BY DEF Blank
<1> QED
  BY <1>1, <1>2 DEF Closed, PumpTypes

\* failConnection() of a connection that owns no session, or whose session is
\* noted as discarded.
LEMMA FailIsQuiet ==
  ASSUME Types, NEW c \in Conns, failConnection(c),
         UNCHANGED <<now, running, phase>>,
         UNCHANGED <<players, active, identities, principals, nextSession, exhausted,
                     bindings, handed, owned, restored>>,
         discarded \subseteq discarded', discarded' \subseteq Sessions,
         conn[c].state = "Established" => conn[c].session \in discarded'
  PROVE  Quiet /\ PumpTypes'
<1>1. conn' = Closed({c}) /\ todo' = todo \ {c}
  BY DEF failConnection
<1>2. PumpTypes
  BY DEF Types
<1>3. conn' \in [Conns -> ConnState]
  BY <1>1, <1>2, ClosedConns
<1>4. \A d \in Conns : IF d \in {c} THEN conn'[d].state = "Gone" /\ conn'[d].session = 0
                                   ELSE conn'[d] = conn[d]
  BY <1>1, <1>2, ClosedConns
<1>5. PumpTypes'
  BY <1>1, <1>2, <1>3 DEF PumpTypes
<1>6. \A d \in Conns :
       \/ conn'[d] = conn[d]
       \/ /\ conn'[d].session = 0
          /\ conn'[d].state # "Established"
          /\ conn'[d].state \in Early => conn[d].state \in Early
          /\ conn[d].state = "Established" => conn[d].session \in discarded'
  BY <1>4 DEF Early
<1>7. Quiet
  BY <1>6 DEF Quiet
<1> QED
  BY <1>5, <1>7

\* The actions that leave the connections alone as well.
LEMMA SameConnsHolds ==
  ASSUME IInv, PumpTypes',
         UNCHANGED <<conn, canonical, joins, bindings, store, history>>
  PROVE  IInv' /\ Quiet
<1>1. Quiet
  BY DEF Quiet, canonical, joins, history, IInv, Types, StoreTypes
<1>2. StoreTypes /\ UNCHANGED store
  BY DEF IInv, Types
<1> QED
  BY <1>1, <1>2, SameStore, QuietHolds

LEMMA AcceptHolds ==
  ASSUME IInv, NEW c \in Conns, AcceptConnection(c)
  PROVE  IInv' /\ Quiet
<1> DEFINE state == IF Cardinality(Present) >= Capacity THEN "Gone" ELSE "AwaitingClientHello"
<1>1. /\ conn[c].state = "Unseen"
      /\ conn' = [conn EXCEPT ![c] = Blank(state)]
      /\ UNCHANGED <<now, running, phase, todo, canonical, joins, bindings, store, history>>
  BY DEF AcceptConnection
<1>2. PumpTypes /\ StoreTypes
  BY DEF IInv, Types
<1>3. state \in {"Gone", "AwaitingClientHello"}
  OBVIOUS
<1> HIDE DEF state
<1>4. /\ Blank(state) \in ConnState
      /\ Blank(state).session = 0 /\ Blank(state).state = state
  BY <1>3 DEF Blank, ConnState, States
<1>5. PumpTypes'
  BY <1>1, <1>2, <1>4 DEF PumpTypes
<1>6. \A d \in Conns :
       \/ conn'[d] = conn[d]
       \/ /\ conn'[d].session = 0
          /\ conn'[d].state # "Established"
          /\ conn'[d].state \in Early => conn[d].state \in Early
          /\ conn[d].state = "Established" => conn[d].session \in discarded'
  BY <1>1, <1>2, <1>3, <1>4 DEF Early, PumpTypes
<1>7. Quiet
  BY <1>1, <1>2, <1>6 DEF Quiet, canonical, joins, history, StoreTypes
<1> QED
  BY <1>1, <1>2, <1>5, <1>7, SameStore, QuietHolds

\* The tokens after checkTimeout() of every connection.
LEMMA RenewalKeeps ==
  ASSUME Types, NEW late, CheckTimeouts(late)
  PROVE  IsStoreOf(store', Record) /\ NoReservationLeaks' /\ TokensKept /\ TokensRenewed
<1> DEFINE renewed(slot) ==
             IF \E c \in Present : /\ conn[c].state = "Established"
                                   /\ Renews(store, conn[c].session, conn[c].generation, slot, now)
             THEN [store.records[slot] EXCEPT !.expiresAt = ExpiryFrom(now)]
             ELSE store.records[slot]
           records == [slot \in DOMAIN store.records |-> renewed(slot)]
<1>1. store' = [store EXCEPT !.records = records]
  BY Zenon DEF CheckTimeouts
<1>2. IsStoreOf(store, Record) /\ NoReservationLeaks /\ now \in Instants
  BY DEF Types, StoreTypes, PumpTypes, Instants
<1>3. ASSUME NEW slot \in DOMAIN store.records
      PROVE  /\ renewed(slot) \in Record
             /\ renewed(slot).session = store.records[slot].session
             /\ renewed(slot).principal = store.records[slot].principal
             /\ renewed(slot).generation = store.records[slot].generation
             /\ renewed(slot).digest = store.records[slot].digest
             /\ \/ renewed(slot).expiresAt = store.records[slot].expiresAt
                \/ renewed(slot).expiresAt = now + Lifetime
  <2>1. store.records[slot] \in Record
    BY <1>2 DEF IsStoreOf, IsPartial
  <2>2. (\E c \in Present : Renews(store, conn[c].session, conn[c].generation, slot, now))
          => ExpiryFrom(now) \in Instants
    BY <1>2, ExpiryType DEF Renews, Renewable
  <2> QED
    BY <2>1, <2>2 DEF Record, RecordOf, ExpiryFrom
<1> HIDE DEF renewed
<1>4. /\ store'.records = records
      /\ store'.pending = store.pending /\ store'.committed = store.committed
      /\ store'.size = store.size /\ store'.nextId = store.nextId
      /\ DOMAIN store' = DOMAIN store
  BY <1>1, <1>2 DEF IsStoreOf
<1>5. DOMAIN records = DOMAIN store.records /\ \A slot \in DOMAIN records : records[slot] = renewed(slot)
  OBVIOUS
<1>6. IsPartial(records, Slots, Record)
  BY <1>2, <1>3 DEF IsPartial, IsStoreOf
<1> HIDE DEF records
<1>7. IsStoreOf(store', Record)
  BY <1>2, <1>4, <1>6 DEF IsStoreOf
<1>8. TokensKept /\ TokensRenewed
  BY <1>3, <1>4, <1>5 DEF TokensKept, TokensRenewed, Occupied
<1> QED
  BY <1>2, <1>4, <1>7, <1>8 DEF NoReservationLeaks

LEMMA TimeoutsHold ==
  ASSUME IInv, NEW late \in SUBSET Handshaking, CheckTimeouts(late)
  PROVE  IInv' /\ Quiet
<1>1. /\ conn' = Closed(late) /\ phase' = "expire"
      /\ UNCHANGED <<now, running, todo, canonical, joins, bindings, history>>
  BY DEF CheckTimeouts
<1>2. Types /\ PumpTypes /\ StoreTypes
  BY DEF IInv, Types
<1>3. /\ conn' \in [Conns -> ConnState]
      /\ \A d \in Conns : IF d \in late THEN conn'[d].state = "Gone" /\ conn'[d].session = 0
                                      ELSE conn'[d] = conn[d]
  BY <1>1, <1>2, ClosedConns
<1>4. \A d \in late : conn[d].state # "Established"
  BY DEF Handshaking
<1>5. PumpTypes'
  BY <1>1, <1>2, <1>3 DEF PumpTypes
<1>6. Quiet
  BY <1>1, <1>2, <1>3, <1>4 DEF Quiet, Early, canonical, joins, history, StoreTypes
<1> QED
  BY <1>2, <1>5, <1>6, RenewalKeeps, QuietHolds

\* An answer to a connection that has no session: it moves on, is rejected, or
\* is dropped because its queue is full.
LEMMA AnswerHolds ==
  ASSUME IInv, NEW c \in Conns, NEW state \in {"AwaitingAuthenticationInput", "Rejected"},
         conn[c].state \in {"AwaitingClientHello", "AwaitingAuthenticationInput"},
         \/ failConnection(c)
         \/ conn' = [conn EXCEPT ![c].state = state] /\ UNCHANGED todo,
         UNCHANGED <<now, running, phase, canonical, joins, bindings, history>>,
         IsStoreOf(store', Record), NoReservationLeaks', TokensKept
  PROVE  IInv' /\ Quiet
<1>1. Types /\ PumpTypes /\ StoreTypes
  BY DEF IInv, Types
<1>2. UNCHANGED <<players, active, identities, principals, nextSession, exhausted,
                  bindings, handed, owned, restored, discarded>>
  BY DEF canonical, joins, history
<1>3. discarded' \subseteq Sessions
  BY <1>1, <1>2 DEF StoreTypes
<1>4. CASE failConnection(c)
  BY <1>1, <1>2, <1>3, <1>4, FailIsQuiet, QuietHolds
<1>5. CASE conn' = [conn EXCEPT ![c].state = state] /\ UNCHANGED todo
  <2>1. conn[c] \in ConnState
    BY <1>1 DEF PumpTypes
  <2>2. /\ [conn[c] EXCEPT !.state = state] \in ConnState
        /\ [conn[c] EXCEPT !.state = state].state = state
        /\ [conn[c] EXCEPT !.state = state].session = conn[c].session
    BY <2>1 DEF ConnState, States
  <2>3. /\ conn' \in [Conns -> ConnState]
        /\ conn'[c] = [conn[c] EXCEPT !.state = state]
        /\ \A d \in Conns : d # c => conn'[d] = conn[d]
    BY <1>1, <1>5, <2>2 DEF PumpTypes
  <2>4. PumpTypes'
    BY <1>1, <1>5, <2>3 DEF PumpTypes
  <2>5. conn[c].session = 0
    BY <1>1 DEF Types, Bound
  <2>6. Quiet
    BY <1>2, <1>3, <2>2, <2>3, <2>5 DEF Quiet, Early
  <2> QED
    BY <2>4, <2>6, QuietHolds
<1> QED
  BY <1>4, <1>5

LEMMA ExpirationsDoneHolds ==
  ASSUME IInv, ExpirationsDone
  PROVE  IInv' /\ Quiet
<1>1. todo' \subseteq Conns
  BY DEF ExpirationsDone, Present
<1>2. PumpTypes'
  BY <1>1 DEF ExpirationsDone, IInv, Types, PumpTypes
<1> QED
  BY <1>2, SameConnsHolds DEF ExpirationsDone

LEMMA ReceiveDoneHolds ==
  ASSUME IInv, NEW c \in Conns, ReceiveDone(c)
  PROVE  IInv' /\ Quiet
<1>1. PumpTypes'
  BY DEF ReceiveDone, IInv, Types, PumpTypes
<1> QED
  BY <1>1, SameConnsHolds DEF ReceiveDone

LEMMA ReceiveFinishedHolds ==
  ASSUME IInv, ReceiveFinished
  PROVE  IInv' /\ Quiet
<1>1. PumpTypes'
  BY DEF ReceiveFinished, IInv, Types, PumpTypes
<1> QED
  BY <1>1, SameConnsHolds DEF ReceiveFinished

LEMMA CommitTickHolds ==
  ASSUME IInv, NEW changed, NEW fault, CommitTick(changed, fault)
  PROVE  IInv' /\ Quiet
<1>1. running' \in BOOLEAN
  BY Zenon DEF CommitTick
<1>2. PumpTypes'
  BY <1>1 DEF CommitTick, IInv, Types, PumpTypes
<1> QED
  BY <1>2, SameConnsHolds DEF CommitTick

LEMMA TickHolds ==
  ASSUME IInv, Tick
  PROVE  IInv' /\ Quiet
<1>1. now' \in 0 .. Horizon
  BY DEF Tick, IInv, Types, PumpTypes
<1>2. PumpTypes'
  BY <1>1 DEF Tick, IInv, Types, PumpTypes
<1> QED
  BY <1>2, SameConnsHolds DEF Tick

LEMMA StutterHolds ==
  ASSUME IInv, UNCHANGED vars
  PROVE  IInv' /\ Quiet
<1>1. PumpTypes'
  BY DEF vars, IInv, Types, PumpTypes
<1> QED
  BY <1>1, SameConnsHolds DEF vars

LEMMA ClientHelloHolds ==
  ASSUME IInv, NEW c \in Conns, NEW accepted \in BOOLEAN, NEW fault,
         ClientHello(c, accepted, fault)
  PROVE  IInv' /\ Quiet
<1> DEFINE state == IF accepted THEN "AwaitingAuthenticationInput" ELSE "Rejected"
<1>1. state \in {"AwaitingAuthenticationInput", "Rejected"}
  OBVIOUS
<1>2. \/ failConnection(c)
      \/ conn' = [conn EXCEPT ![c].state = state] /\ UNCHANGED todo
  BY Zenon DEF ClientHello
<1> HIDE DEF state
<1>3. /\ conn[c].state = "AwaitingClientHello"
      /\ UNCHANGED <<now, running, phase, canonical, joins, bindings, history>>
      /\ UNCHANGED store
  BY DEF ClientHello, Receiving
<1>4. IsStoreOf(store', Record) /\ NoReservationLeaks' /\ TokensKept
  BY <1>3, SameStore DEF IInv, Types
<1> QED
  BY <1>1, <1>2, <1>3, <1>4, AnswerHolds

LEMMA AuthenticationDeniedHolds ==
  ASSUME IInv, NEW c \in Conns, NEW fault, AuthenticationDenied(c, fault)
  PROVE  IInv' /\ Quiet
<1>1. \/ failConnection(c)
      \/ conn' = [conn EXCEPT ![c].state = "Rejected"] /\ UNCHANGED todo
  BY Zenon DEF AuthenticationDenied
<1>2. /\ conn[c].state = "AwaitingAuthenticationInput"
      /\ UNCHANGED <<now, running, phase, canonical, joins, bindings, history>>
      /\ UNCHANGED store
  BY DEF AuthenticationDenied, Receiving
<1>3. IsStoreOf(store', Record) /\ NoReservationLeaks' /\ TokensKept
  BY <1>2, SameStore DEF IInv, Types
<1> QED
  BY <1>1, <1>2, <1>3, AnswerHolds

\* A connection that is discarded: its session is noted.
LEMMA DiscardHolds ==
  ASSUME IInv, NEW c \in Conns, ReceiveFails(c) \/ ResyncFails(c)
  PROVE  IInv' /\ Quiet
<1>1. /\ failConnection(c)
      /\ discarded' = discarded \cup SessionsOf({c})
      /\ UNCHANGED <<now, running, phase, canonical, joins, bindings, store, handed, owned, restored>>
  BY DEF ReceiveFails, ResyncFails
<1>2. Types /\ PumpTypes /\ StoreTypes
  BY DEF IInv, Types
<1>3. SessionsOf({c}) = {conn[c].session} \ {0}
  BY DEF SessionsOf
<1>4. conn[c].session \in 0 .. MaxSession
  BY <1>2 DEF PumpTypes, ConnState
<1>5. discarded' \subseteq Sessions
  <2>1. SessionsOf({c}) \subseteq Sessions
    BY <1>3, <1>4 DEF Sessions
  <2> QED
    BY <1>1, <1>2, <2>1 DEF StoreTypes
<1>6. conn[c].state = "Established" => conn[c].session \in discarded'
  BY <1>1, <1>2, <1>3 DEF Types, Bound
<1>7. UNCHANGED <<players, active, identities, principals, nextSession, exhausted,
                  bindings, handed, owned, restored>> /\ UNCHANGED <<now, running, phase>>
  BY <1>1 DEF canonical, joins
<1>8. Quiet /\ PumpTypes'
  BY <1>1, <1>2, <1>5, <1>6, <1>7, FailIsQuiet
<1> QED
  BY <1>1, <1>2, <1>8, SameStore, QuietHolds

-----------------------------------------------------------------------------
(* disconnectConnections(). *)

\* The sessions in leaving are hidden and no longer active.
Hides(leaving) ==
  /\ leaving \subseteq DOMAIN active
  /\ leaving \subseteq DOMAIN bindings
  /\ DOMAIN bindings' = DOMAIN bindings
  /\ \A s \in DOMAIN bindings :
       bindings'[s] = IF s \in leaving THEN Hide(s) ELSE bindings[s]
  /\ DOMAIN active' = DOMAIN active \ leaving
  /\ \A s \in DOMAIN active' : active'[s] = active[s]
  /\ leaving # {} => now <= MaxInstant - Grace

\* What a binding that becomes hidden is.
LEMMA HideType ==
  ASSUME Types, NEW s \in DOMAIN bindings, s \in DOMAIN active, now <= MaxInstant - Grace
  PROVE  /\ Hide(s) \in Binding
         /\ Hide(s).principal = bindings[s].principal
         /\ Hide(s).player = bindings[s].player
         /\ Hide(s).generation = active[s].generation
         /\ Hide(s).live = FALSE
         /\ Hide(s).deadline = now + Grace
<1>1. bindings[s] \in Binding /\ active[s].generation \in 1 .. MaxGeneration
  BY DEF Types, RegistryTypes
<1>2. now + Grace \in 0 .. MaxInstant
  BY DEF Types, PumpTypes, Grace
<1> QED
  BY <1>1, <1>2 DEF Hide, Binding

LEMMA DisconnectHides ==
  ASSUME NEW cs, NEW alsoClosed, NEW fault, disconnectConnections(cs, alsoClosed, fault),
         DisconnectAccepted(cs, fault)
  PROVE  /\ Hides(SessionsOf(cs \cap Present))
         /\ conn' = Closed((cs \cap Present) \cup alsoClosed)
         /\ UNCHANGED running
<1> DEFINE leaving == SessionsOf(cs \cap Present)
<1>1. /\ conn' = Closed((cs \cap Present) \cup alsoClosed)
      /\ bindings' = [s \in DOMAIN bindings |-> IF s \in leaving THEN Hide(s) ELSE bindings[s]]
      /\ active' = Restrict(active, DOMAIN active \ leaving)
      /\ UNCHANGED running
  BY Zenon DEF disconnectConnections
<1>2. \A s \in leaving : s \in DOMAIN bindings /\ s \in DOMAIN active
  BY DEF DisconnectAccepted
<1>3. leaving # {} => now <= MaxInstant - Grace
  BY DEF DisconnectAccepted
<1> HIDE DEF leaving
<1>4. Hides(leaving)
  BY <1>1, <1>2, <1>3 DEF Hides, Restrict
<1> QED
  BY <1>1, <1>4 DEF leaving

\* Hidden sessions leave the registries in agreement.
LEMMA HidesAgreement ==
  ASSUME Types, Agreement, NEW leaving, Hides(leaving),
         UNCHANGED <<players, restored, principals, nextSession>>
  PROVE  Agreement' /\ BindingsKept
<1>1. \A s \in DOMAIN bindings : bindings[s] \in Binding
  BY DEF Types, RegistryTypes
<1>2. ASSUME NEW s \in DOMAIN bindings
      PROVE  /\ bindings'[s].principal = bindings[s].principal
             /\ bindings'[s].player = bindings[s].player
             /\ bindings'[s].generation = bindings[s].generation
             /\ bindings'[s].live <=> (bindings[s].live /\ s \notin leaving)
  <2>1. CASE s \in leaving
    <3>1. s \in DOMAIN active /\ now <= MaxInstant - Grace /\ bindings'[s] = Hide(s)
      BY <2>1 DEF Hides
    <3>2. active[s].generation = bindings[s].generation
      BY <3>1 DEF Agreement, LiveBindingsAreActive
    <3> QED
      BY <2>1, <3>1, <3>2, HideType
  <2>2. CASE s \notin leaving
    BY <2>2 DEF Hides
  <2> QED
    BY <2>1, <2>2
<1>3. BindingsKept
  BY <1>2 DEF BindingsKept, Hides
<1>4. LiveBindingsAreActive'
  <2>1. {s \in DOMAIN bindings : bindings[s].live} = DOMAIN active
    BY DEF Agreement, LiveBindingsAreActive
  <2>2. {s \in DOMAIN bindings' : bindings'[s].live} = DOMAIN active'
    BY <1>2, <2>1 DEF Hides
  <2>3. \A s \in DOMAIN active' : /\ s \in DOMAIN bindings /\ s \in DOMAIN active
                                  /\ active'[s] = active[s]
    BY <2>1 DEF Hides
  <2>4. \A s \in DOMAIN active' : /\ active'[s].generation = bindings'[s].generation
                                  /\ active'[s].player = bindings'[s].player
    BY <1>2, <2>3 DEF Agreement, LiveBindingsAreActive
  <2> QED
    BY <2>2, <2>4 DEF LiveBindingsAreActive
<1>5. PlayersAreBound'
  <2>1. DOMAIN bindings' = DOMAIN bindings
    BY DEF Hides
  <2>2. {bindings'[s].player : s \in DOMAIN bindings'} = {bindings[s].player : s \in DOMAIN bindings}
    BY <1>2, <2>1
  <2>3. \A s, t \in DOMAIN bindings' : bindings'[s].player = bindings'[t].player => s = t
    BY <1>2, <2>1 DEF Agreement, PlayersAreBound
  <2> QED
    BY <2>2, <2>3 DEF Agreement, PlayersAreBound
<1>6. PrincipalsMatchBindings'
  <2>1. DOMAIN bindings' = DOMAIN bindings
    BY DEF Hides
  <2>2. {bindings'[s].principal : s \in DOMAIN bindings'} = {bindings[s].principal : s \in DOMAIN bindings}
    BY <1>2, <2>1
  <2> QED
    BY <1>2, <2>1, <2>2 DEF Agreement, PrincipalsMatchBindings
<1>7. \A s \in DOMAIN bindings' : s < nextSession'
  BY DEF Agreement, Hides
<1> QED
  BY <1>3, <1>4, <1>5, <1>6, <1>7 DEF Agreement

LEMMA HidesTypes ==
  ASSUME Types, NEW leaving, Hides(leaving), UNCHANGED <<players, joins>>
  PROVE  RegistryTypes'
<1>1. \A s \in DOMAIN bindings' : bindings'[s] \in Binding
  <2> SUFFICES ASSUME NEW s \in DOMAIN bindings PROVE bindings'[s] \in Binding
    BY DEF Hides
  <2>1. CASE s \in leaving
    <3>1. s \in DOMAIN active /\ now <= MaxInstant - Grace /\ bindings'[s] = Hide(s)
      BY <2>1 DEF Hides
    <3> QED
      BY <3>1, HideType
  <2>2. CASE s \notin leaving
    BY <2>2 DEF Hides, Types, RegistryTypes
  <2> QED
    BY <2>1, <2>2
<1>2. \A s \in DOMAIN active' : active'[s] \in [generation : 1 .. MaxGeneration, player : Players]
  BY DEF Hides, Types, RegistryTypes
<1>3. DOMAIN active' \subseteq Sessions /\ DOMAIN bindings' \subseteq Sessions
  BY DEF Hides, Types, RegistryTypes
<1>4. exhausted' \in BOOLEAN
  BY Zenon DEF Types, RegistryTypes, joins
<1> QED
  BY <1>1, <1>2, <1>3, <1>4 DEF Types, RegistryTypes, joins

\* Whoever is dropped by a disconnect, the invariant holds afterwards.
LEMMA DisconnectHolds ==
  ASSUME IInv, NEW cs \in SUBSET Conns, NEW alsoClosed \in SUBSET Rejected, NEW fault,
         disconnectConnections(cs, alsoClosed, fault),
         phase' \in {"events", "timeouts", "expire", "receive", "tick", "send"},
         todo' \subseteq Conns,
         UNCHANGED <<now, players, joins, store, history>>
  PROVE  /\ IInv'
         /\ Quiet \/ Hides(SessionsOf(cs \cap Present))
<1> DEFINE leaving == SessionsOf(cs \cap Present)
           gone == (cs \cap Present) \cup alsoClosed
<1>1. Types /\ PumpTypes /\ StoreTypes
  BY DEF IInv, Types
<1>2. UNCHANGED <<now, players, identities, principals, nextSession, exhausted, store,
                  handed, owned, discarded, restored>>
  BY DEF joins, history
<1>3. StoreTypes'
  BY <1>1, <1>2 DEF StoreTypes, NoReservationLeaks, Record
<1>4. CASE ~DisconnectAccepted(cs, fault)
  <2>1. running' = FALSE /\ UNCHANGED <<conn, bindings, active>>
    BY <1>4, Zenon DEF disconnectConnections
  <2>2. running' \in BOOLEAN
    BY <2>1, Zenon
  <2>3. PumpTypes'
    BY <1>1, <1>2, <2>1, <2>2 DEF PumpTypes
  <2> QED
    BY <1>2, <2>1, <2>3, SameConnsHolds DEF canonical, joins, history
<1>5. CASE DisconnectAccepted(cs, fault)
  <2>1. Hides(leaving) /\ conn' = Closed(gone) /\ UNCHANGED running
    BY <1>5, DisconnectHides
  <2>2. /\ conn' \in [Conns -> ConnState]
        /\ \A d \in Conns : IF d \in gone THEN conn'[d].state = "Gone" /\ conn'[d].session = 0
                                         ELSE conn'[d] = conn[d]
    BY <1>1, <2>1, ClosedConns
  <2>3. PumpTypes'
    BY <1>1, <1>2, <2>1, <2>2 DEF PumpTypes
  <2>4. RegistryTypes'
    BY <1>1, <2>1, HidesTypes
  <2>5. Bound'
    BY <1>1, <2>2 DEF Types, Bound
  <2>6. ASSUME ~exhausted PROVE Core'
    <3>1. Agreement /\ Owning /\ Custody /\ Tracking
      BY <2>6 DEF IInv, Core
    <3>2. Agreement' /\ BindingsKept
      BY <1>1, <1>2, <2>1, <3>1, HidesAgreement
    <3>3. Custody'
      BY <1>2, <3>1, <3>2, CustodyKept
    <3>4. TokensKept
      BY <1>1, <1>2, SameStore
    <3>5. NobodyNew
      BY <2>2 DEF NobodyNew, Early
    <3>6. Tracking'
      BY <1>1, <3>1, <3>2, <3>4, <3>5, TrackingKept
    <3>7. ASSUME NEW d \in Conns, d \notin gone, conn[d].session # 0
          PROVE  conn[d].session \in DOMAIN active'
      <4>1. /\ d \in Present /\ conn[d].session \in DOMAIN active
            /\ Owners(conn[d].session) = {d}
        BY <1>1, <3>1, <3>7, OwnedIsActive
      <4>2. conn[d].session \notin leaving
        <5> SUFFICES ASSUME NEW c \in cs \cap Present, conn[c].session = conn[d].session
                     PROVE  FALSE
          BY DEF SessionsOf
        <5>1. c \in Owners(conn[d].session)
          BY DEF Owners
        <5> QED
          BY <3>7, <4>1, <5>1
      <4> QED
        BY <2>1, <4>1, <4>2 DEF Hides
    <3>8. ASSUME NEW d \in Conns, d \in gone, conn[d].session # 0
          PROVE  conn[d].session \notin DOMAIN active'
      <4>1. conn[d].state = "Established"
        BY <1>1, <3>8 DEF Types, Bound
      <4>2. d \in cs \cap Present
        BY <3>8, <4>1 DEF Rejected
      <4>3. conn[d].session \in leaving
        BY <3>8, <4>2 DEF SessionsOf
      <4> QED
        BY <2>1, <4>3 DEF Hides
    <3>9. ConnsDrop
      <4>1. /\ DOMAIN active' \subseteq DOMAIN active
            /\ \A s \in DOMAIN active' : active'[s] = active[s]
        BY <2>1 DEF Hides
      <4> HIDE DEF gone
      <4> QED
        BY <1>2, <2>2, <3>7, <3>8, <4>1 DEF ConnsDrop
    <3>10. Owning'
      BY <1>1, <3>1, <3>9, OwningKept
    <3> QED
      BY <3>2, <3>3, <3>6, <3>10 DEF Core
  <2> QED
    BY <1>2, <1>3, <2>1, <2>3, <2>4, <2>5, <2>6 DEF IInv, Types
<1> QED
  BY <1>4, <1>5

LEMMA ConnectionsClosedHolds ==
  ASSUME IInv, NEW cs \in SUBSET Present, NEW fault, ConnectionsClosed(cs, fault)
  PROVE  IInv' /\ (Quiet \/ Hides(SessionsOf(cs \cap Present)))
<1>1. cs \in SUBSET Conns /\ {} \in SUBSET Rejected
  BY DEF Present
<1>2. /\ disconnectConnections(cs, {}, fault)
      /\ phase' = "timeouts"
      /\ UNCHANGED <<now, todo, players, joins, store, history>>
  BY DEF ConnectionsClosed
<1>3. todo' \subseteq Conns /\ phase' \in {"events", "timeouts", "expire", "receive", "tick", "send"}
  BY <1>2 DEF IInv, Types, PumpTypes
<1> QED
  BY <1>1, <1>2, <1>3, DisconnectHolds

LEMMA ProtocolRejectedHolds ==
  ASSUME IInv, NEW c \in Conns, NEW fault, ProtocolRejected(c, fault)
  PROVE  IInv' /\ (Quiet \/ Hides(SessionsOf({c} \cap Present)))
<1>1. {c} \in SUBSET Conns /\ {} \in SUBSET Rejected
  OBVIOUS
<1>2. /\ disconnectConnections({c}, {}, fault)
      /\ todo' = todo \ {c}
      /\ UNCHANGED <<now, phase, players, joins, store, history>>
  BY DEF ProtocolRejected
<1>3. todo' \subseteq Conns /\ phase' \in {"events", "timeouts", "expire", "receive", "tick", "send"}
  BY <1>2 DEF IInv, Types, PumpTypes
<1> QED
  BY <1>1, <1>2, <1>3, DisconnectHolds

LEMMA SendHolds ==
  ASSUME IInv, NEW failed \in SUBSET Present, NEW drained \in SUBSET Rejected, NEW fault,
         Send(failed, drained, fault)
  PROVE  IInv' /\ (Quiet \/ Hides(SessionsOf(failed \cap Present)))
<1>1. failed \in SUBSET Conns
  BY DEF Present
<1>2. /\ disconnectConnections(failed, drained, fault)
      /\ phase' = "events"
      /\ UNCHANGED <<now, todo, players, joins, store, history>>
  BY DEF Send
<1>3. todo' \subseteq Conns /\ phase' \in {"events", "timeouts", "expire", "receive", "tick", "send"}
  BY <1>2 DEF IInv, Types, PumpTypes
<1> QED
  BY <1>1, <1>2, <1>3, DisconnectHolds

-----------------------------------------------------------------------------
(* expireSessions(). *)

\* prepareNextExpiration() returns a session that is due: there is an earliest
\* deadline, and a smallest session with it.
LEMMA NextExpirationIsDue ==
  ASSUME Types, Due # {}
  PROVE  NextExpiration \in Due
<1> DEFINE deadlines == {bindings[s].deadline : s \in Due}
           earliest  == Min(deadlines)
           first     == {s \in Due : bindings[s].deadline = earliest}
<1>1. \A s \in Due : s \in Nat /\ bindings[s].deadline \in Nat
  BY DEF Due, Types, RegistryTypes, Binding, Sessions
<1>2. earliest \in deadlines /\ \A d \in deadlines : earliest <= d
  <2>1. deadlines \subseteq Nat /\ deadlines # {}
    BY <1>1
  <2> HIDE DEF deadlines
  <2> QED
    BY <2>1, MinIsMember
<1>3. first \subseteq Nat /\ first # {}
  BY <1>1, <1>2
<1>4. Min(first) \in first /\ \A s \in first : Min(first) <= s
  BY <1>3, MinIsMember
<1>5. ASSUME NEW t \in Due
      PROVE  \/ bindings[Min(first)].deadline < bindings[t].deadline
             \/ bindings[Min(first)].deadline = bindings[t].deadline /\ Min(first) <= t
  <2>1. Min(first) \in Due /\ bindings[Min(first)].deadline = earliest
    BY <1>4
  <2>2. bindings[t].deadline \in Nat /\ bindings[Min(first)].deadline \in Nat
    BY <1>1, <2>1
  <2>3. earliest <= bindings[t].deadline
    BY <1>2
  <2>4. CASE bindings[t].deadline = earliest
    BY <1>4, <2>1, <2>4
  <2> HIDE DEF earliest, first
  <2> QED
    BY <2>1, <2>2, <2>3, <2>4
<1>6. Min(first) \in Due
  BY <1>4
<1> HIDE DEF first
<1>7. \E s \in Due : \A t \in Due :
        \/ bindings[s].deadline < bindings[t].deadline
        \/ bindings[s].deadline = bindings[t].deadline /\ s <= t
  BY <1>5, <1>6
<1> QED
  BY <1>7, Zenon DEF NextExpiration

\* The binding of session s is gone, with its principal and its player.
Expires(s) ==
  /\ s \in Due
  /\ players' = players \ {bindings[s].player}
  /\ principals' = Restrict(principals, DOMAIN principals \ {bindings[s].principal})
  /\ bindings' = Restrict(bindings, DOMAIN bindings \ {s})
  /\ UNCHANGED <<now, conn, active, identities, nextSession, exhausted, store, history>>

LEMMA ExpiresTypes ==
  ASSUME Types, NEW s, Expires(s)
  PROVE  RegistryTypes'
<1>1. /\ DOMAIN principals' \subseteq Conns
      /\ \A c \in DOMAIN principals' : principals'[c] \in Players
  BY DEF Expires, Restrict, Types, RegistryTypes
<1>2. /\ DOMAIN bindings' \subseteq Sessions
      /\ \A t \in DOMAIN bindings' : bindings'[t] \in Binding
  BY DEF Expires, Restrict, Types, RegistryTypes
<1>3. players' \subseteq Players
  BY DEF Expires, Types, RegistryTypes
<1>4. exhausted' \in BOOLEAN
  BY Zenon DEF Expires, Types, RegistryTypes
<1> QED
  BY <1>1, <1>2, <1>3, <1>4 DEF Expires, Types, RegistryTypes

LEMMA ExpiresAgreement ==
  ASSUME Types, Agreement, NEW s, Expires(s)
  PROVE  Agreement' /\ BindingsKept
<1> DEFINE p == bindings[s].player
<1>1. /\ s \in DOMAIN bindings /\ ~bindings[s].live
      /\ players' = players \ {p}
      /\ UNCHANGED <<active, nextSession, restored>>
  BY DEF Expires, Due, history
<1>2. /\ DOMAIN bindings' = DOMAIN bindings \ {s}
      /\ \A t \in DOMAIN bindings' : t \in DOMAIN bindings /\ t # s /\ bindings'[t] = bindings[t]
  BY DEF Expires, Restrict
<1>3. /\ DOMAIN principals' = DOMAIN principals \ {bindings[s].principal}
      /\ \A c \in DOMAIN principals' : principals'[c] = principals[c]
  BY DEF Expires, Restrict
<1>4. /\ {t \in DOMAIN bindings : bindings[t].live} = DOMAIN active
      /\ \A t \in DOMAIN active : /\ active[t].generation = bindings[t].generation
                                  /\ active[t].player = bindings[t].player
  BY DEF Agreement, LiveBindingsAreActive
<1>5. /\ players \ restored = {bindings[t].player : t \in DOMAIN bindings}
      /\ restored \subseteq players
      /\ \A t, u \in DOMAIN bindings : bindings[t].player = bindings[u].player => t = u
  BY DEF Agreement, PlayersAreBound
<1>6. /\ DOMAIN principals = {bindings[t].principal : t \in DOMAIN bindings}
      /\ \A t \in DOMAIN bindings : principals[bindings[t].principal] = bindings[t].player
  BY DEF Agreement, PrincipalsMatchBindings
<1>7. BindingsKept
  BY <1>2 DEF BindingsKept
<1>8. LiveBindingsAreActive'
  BY <1>1, <1>2, <1>4 DEF LiveBindingsAreActive
<1>9. PlayersAreBound'
  <2>1. p \in players \ restored
    BY <1>1, <1>5
  <2>2. ASSUME NEW q \in players' \ restored'
        PROVE  \E t \in DOMAIN bindings' : bindings'[t].player = q
    <3>1. PICK t \in DOMAIN bindings : bindings[t].player = q
      BY <1>1, <1>5
    <3>2. t # s
      BY <1>1, <3>1
    <3> QED
      BY <1>2, <3>1, <3>2
  <2>3. ASSUME NEW t \in DOMAIN bindings'
        PROVE  bindings'[t].player \in players' \ restored'
    BY <1>1, <1>2, <1>5
  <2>4. players' \ restored' = {bindings'[t].player : t \in DOMAIN bindings'}
    BY <2>2, <2>3
  <2>5. restored' \subseteq players'
    BY <1>1, <1>5, <2>1
  <2>6. \A t, u \in DOMAIN bindings' : bindings'[t].player = bindings'[u].player => t = u
    BY <1>2, <1>5
  <2> QED
    BY <2>4, <2>5, <2>6 DEF PlayersAreBound
<1>10. PrincipalsMatchBindings'
  <2>1. \A t \in DOMAIN bindings' : bindings[t].principal # bindings[s].principal
    BY <1>1, <1>2, <1>5, <1>6
  <2>2. DOMAIN principals' = {bindings'[t].principal : t \in DOMAIN bindings'}
    BY <1>2, <1>3, <1>6, <2>1
  <2>3. \A t \in DOMAIN bindings' : principals'[bindings'[t].principal] = bindings'[t].player
    BY <1>2, <1>3, <1>6, <2>1
  <2> QED
    BY <2>2, <2>3 DEF PrincipalsMatchBindings
<1>11. \A t \in DOMAIN bindings' : t < nextSession'
  BY <1>1, <1>2 DEF Agreement
<1> QED
  BY <1>7, <1>8, <1>9, <1>10, <1>11 DEF Agreement

LEMMA ExpireSessionHolds ==
  ASSUME IInv, NEW fault, ExpireSession(fault)
  PROVE  /\ IInv'
         /\ Quiet \/ Expires(NextExpiration)
<1>1. Types /\ PumpTypes /\ StoreTypes /\ RegistryTypes /\ Bound
  BY DEF IInv, Types
<1>2. Due # {} /\ UNCHANGED <<now, phase, todo, conn, active, identities, nextSession, exhausted,
                              store, history>>
  BY DEF ExpireSession
<1>3. NextExpiration \in Due
  BY <1>1, <1>2, NextExpirationIsDue
<1>4. CASE ExpirationAccepted(NextExpiration, fault)
  <2>1. /\ players' = players \ {bindings[NextExpiration].player}
        /\ principals' = ReleasePrincipal(bindings[NextExpiration].principal)
        /\ bindings' = Restrict(bindings, DOMAIN bindings \ {NextExpiration})
        /\ UNCHANGED running
    BY <1>4, Zenon DEF ExpireSession
  <2>2. Expires(NextExpiration)
    BY <1>2, <1>3, <2>1 DEF Expires, ReleasePrincipal
  <2>3. RegistryTypes'
    BY <1>1, <2>2, ExpiresTypes
  <2>4. PumpTypes' /\ Bound'
    BY <1>1, <1>2, <2>1 DEF PumpTypes, Bound
  <2>5. StoreTypes' /\ TokensKept
    BY <1>1, <1>2, SameStore DEF StoreTypes, history
  <2>6. ASSUME ~exhausted PROVE Core'
    <3>1. Agreement /\ Owning /\ Custody /\ Tracking
      BY <2>6 DEF IInv, Core
    <3>2. Agreement' /\ BindingsKept
      BY <1>1, <2>2, <3>1, ExpiresAgreement
    <3>3. Custody'
      BY <1>2, <3>1, <3>2, CustodyKept DEF history
    <3>4. NobodyNew
      BY <1>2 DEF NobodyNew
    <3>5. Tracking'
      BY <1>1, <2>5, <3>1, <3>2, <3>4, TrackingKept
    <3>6. ConnsDrop
      BY <1>1, <1>2, <3>1, OwnedIsActive DEF ConnsDrop, history
    <3>7. Owning'
      BY <1>1, <3>1, <3>6, OwningKept
    <3> QED
      BY <3>2, <3>3, <3>5, <3>7 DEF Core
  <2> QED
    BY <1>2, <2>2, <2>3, <2>4, <2>5, <2>6 DEF IInv, Types
<1>5. CASE ~ExpirationAccepted(NextExpiration, fault)
  <2>1. running' = FALSE /\ UNCHANGED <<players, principals, bindings>>
    BY <1>5, Zenon DEF ExpireSession
  <2>2. running' \in BOOLEAN
    BY <2>1, Zenon
  <2>3. PumpTypes'
    BY <1>1, <1>2, <2>1, <2>2 DEF PumpTypes
  <2> QED
    BY <1>2, <2>1, <2>3, SameConnsHolds DEF canonical, joins, history
<1> QED
  BY <1>4, <1>5

-----------------------------------------------------------------------------
(* Join. *)

\* registerJoined() never refuses a join that the reducer has committed: the
\* session is new, the principal too, the player has at most a hidden binding,
\* and there is room because every binding is of another player in the world.
LEMMA RegisterNeverRefuses ==
  ASSUME Types, Agreement, NEW c \in Conns, NEW p \in Players, NEW fault,
         JoinAccepted(c, p, fault)
  PROVE  RegisterAccepted(c, p, nextSession)
<1>1. /\ c \notin DOMAIN principals /\ p \notin ActivePlayers
      /\ Cardinality(players \cup {p}) <= MaximumCanonicalPlayerEntities
  BY DEF JoinAccepted
<1>2. nextSession \in Sessions /\ \A t \in DOMAIN bindings : t \in Sessions /\ t < nextSession
  BY DEF Types, RegistryTypes, Agreement
<1>3. nextSession \notin DOMAIN bindings
  BY <1>2 DEF Sessions
<1>4. \A t \in DOMAIN bindings : bindings[t].principal # c
  BY <1>1 DEF Agreement, PrincipalsMatchBindings
<1>5. \A t \in BindingsOf(p) : ~bindings[t].live
  BY <1>1 DEF Agreement, LiveBindingsAreActive, ActivePlayers, BindingsOf
<1>6. Cardinality(BindingsOf(p)) <= 1
  <2>1. CASE BindingsOf(p) = {}
    BY <2>1, FS_EmptySet
  <2>2. CASE BindingsOf(p) # {}
    <3>1. PICK t : t \in BindingsOf(p)
      BY <2>2
    <3>2. BindingsOf(p) = {t}
      BY <3>1 DEF BindingsOf, Agreement, PlayersAreBound
    <3>3. Cardinality({t}) = 1
      BY FS_Singleton, Zenon
    <3> QED
      BY <3>2, <3>3
  <2> QED
    BY <2>1, <2>2
<1>7. ASSUME BindingsOf(p) = {}
      PROVE  Cardinality(DOMAIN bindings) < MaximumCanonicalActiveSessions
  <2> DEFINE bound == players \ restored
             f == [s \in DOMAIN bindings |-> bindings[s].player]
  <2>1. bound = {bindings[s].player : s \in DOMAIN bindings}
    BY DEF Agreement, PlayersAreBound
  <2>2. f \in Injection(DOMAIN bindings, bound)
    <3>1. f \in [DOMAIN bindings -> bound]
      BY <2>1
    <3>2. \A s, t \in DOMAIN bindings : f[s] = f[t] => s = t
      BY DEF Agreement, PlayersAreBound
    <3> QED
      BY <3>1, <3>2 DEF Injection, IsInjective
  <2>3. /\ IsFiniteSet(players \cup {p}) /\ IsFiniteSet(bound)
        /\ Cardinality(players \cup {p}) \in Nat /\ Cardinality(bound) \in Nat
    <3>1. players \cup {p} \in SUBSET Players /\ bound \in SUBSET Players
      BY DEF Types, RegistryTypes
    <3> QED
      BY <3>1, FS_Subset, FS_CardinalityType
  <2>4. p \notin bound
    BY <1>7, <2>1 DEF BindingsOf
  <2>5. Cardinality(bound \cup {p}) = Cardinality(bound) + 1
    BY <2>3, <2>4, FS_AddElement
  <2>6. Cardinality(bound \cup {p}) <= Cardinality(players \cup {p})
    <3>1. bound \cup {p} \in SUBSET (players \cup {p})
      OBVIOUS
    <3> QED
      BY <2>3, <3>1, FS_Subset
  <2>7. IsFiniteSet(DOMAIN bindings) /\ Cardinality(DOMAIN bindings) <= Cardinality(bound)
    BY <2>2, <2>3, FS_Injection
  <2>8. Cardinality(DOMAIN bindings) \in Nat
    BY <2>7, FS_CardinalityType
  <2> HIDE DEF bound
  <2> QED
    BY <1>1, <2>3, <2>5, <2>6, <2>7, <2>8
<1> QED
  BY <1>3, <1>4, <1>5, <1>6, <1>7 DEF RegisterAccepted

\* A new token, of a connection that has just authenticated and for a session
\* that was not given out before.
LEMMA TrackingGrows ==
  ASSUME Types, Agreement, Tracking, NEW c \in Conns, NEW slot, NEW r,
         conn[c].state \in Early, conn'[c].state \notin Early, NobodyNew,
         AddsRecord(store', store, slot, r),
         r.principal = c, r.session = nextSession,
         \A s \in DOMAIN bindings' :
           \/ /\ s \in DOMAIN bindings
              /\ bindings'[s].principal = bindings[s].principal
              /\ bindings'[s].generation = bindings[s].generation
           \/ bindings'[s].principal = c /\ bindings'[s].generation = r.generation
  PROVE  Tracking'
<1>1. \A other \in Occupied(store) : /\ store.records[other].principal \in Conns
                                     /\ store.records[other].principal # c
                                     /\ conn[store.records[other].principal].state \notin Early
  BY DEF Types, StoreTypes, IsStoreOf, IsPartial, Occupied, Record, RecordOf, Tracking
<1>2. nextSession \notin DOMAIN bindings
  <2>1. nextSession \in Int /\ \A s \in DOMAIN bindings : s < nextSession
    BY DEF Types, RegistryTypes, Agreement, Sessions
  <2> QED
    BY <2>1
<1>3. \A other \in Occupied(store') :
        \/ /\ other # slot /\ other \in Occupied(store)
           /\ store'.records[other] = store.records[other]
        \/ other = slot /\ store'.records[other] = r
  BY DEF AddsRecord
<1>4. TokensTrackBindings'
  <2> SUFFICES ASSUME NEW other \in Occupied(store'), NEW s \in DOMAIN bindings',
                      store'.records[other].session = s,
                      store'.records[other].principal = bindings'[s].principal
               PROVE  store'.records[other].generation = bindings'[s].generation
    BY DEF TokensTrackBindings
  <2>1. CASE other = slot /\ store'.records[other] = r
    BY <1>2, <2>1
  <2>2. CASE other \in Occupied(store) /\ store'.records[other] = store.records[other]
    BY <1>1, <2>2 DEF Tracking, TokensTrackBindings
  <2> QED
    BY <1>3, <2>1, <2>2
<1>5. \A i, j \in Occupied(store') :
        /\ store'.records[i].session = store'.records[j].session
        /\ store'.records[i].principal = store'.records[j].principal
        => i = j
  <2> SUFFICES ASSUME NEW i \in Occupied(store'), NEW j \in Occupied(store'),
                      store'.records[i].session = store'.records[j].session,
                      store'.records[i].principal = store'.records[j].principal
               PROVE  i = j
    OBVIOUS
  <2>1. i = slot <=> j = slot
    BY <1>1, <1>3
  <2>2. CASE i # slot /\ j # slot
    BY <1>3, <2>2 DEF Tracking
  <2> QED
    BY <2>1, <2>2
<1>6. \A other \in Occupied(store') : conn'[store'.records[other].principal].state \notin Early
  BY <1>1, <1>3 DEF NobodyNew
<1> QED
  BY <1>4, <1>5, <1>6 DEF Tracking

\* Player p has joined over connection c, in the session that was next.
Joins(c, p) ==
  /\ c \notin DOMAIN principals /\ p \notin ActivePlayers
  /\ conn[c].state = "AwaitingAuthenticationInput"
  /\ players' = players \cup {p}
  /\ active' = Put(active, nextSession, [generation |-> 1, player |-> p])
  /\ identities' = identities \cup {p}
  /\ principals' = PrincipalsAfterJoin(c, p)
  /\ nextSession' = nextSession + 1
  /\ bindings' = Registered(c, p, nextSession)
  /\ conn' = [conn EXCEPT ![c] = [state |-> "Established",
                                  session |-> nextSession, generation |-> 1]]
  /\ owned' = owned \cup {[session |-> nextSession, generation |-> 1, by |-> c]}
  /\ restored' = restored \ {p}
  /\ UNCHANGED <<now, discarded>>

\* The bindings and the active sessions after the join: the hidden binding of
\* the player is replaced.
JoinedRegistries(c, p) ==
  /\ nextSession \in Sessions /\ nextSession \notin DOMAIN bindings
  /\ nextSession \notin DOMAIN active
  /\ DOMAIN bindings' = (DOMAIN bindings \ BindingsOf(p)) \cup {nextSession}
  /\ bindings'[nextSession] = [principal |-> c, generation |-> 1, player |-> p,
                               live |-> TRUE, deadline |-> 0]
  /\ \A s \in DOMAIN bindings \ BindingsOf(p) : bindings'[s] = bindings[s]
  /\ DOMAIN active' = DOMAIN active \cup {nextSession}
  /\ active'[nextSession] = [generation |-> 1, player |-> p]
  /\ \A s \in DOMAIN active : active'[s] = active[s]
  /\ \A s \in BindingsOf(p) : s \notin DOMAIN active

LEMMA JoinsRegistries ==
  ASSUME Types, Agreement, NEW c \in Conns, NEW p \in Players, Joins(c, p)
  PROVE  JoinedRegistries(c, p)
<1>1. nextSession \in Sessions /\ \A t \in DOMAIN bindings : t \in Sessions /\ t < nextSession
  BY DEF Types, RegistryTypes, Agreement
<1>2. nextSession \notin DOMAIN bindings
  BY <1>1 DEF Sessions
<1>3. nextSession \notin DOMAIN active
  BY <1>2 DEF Agreement, LiveBindingsAreActive
<1>4. \A s \in BindingsOf(p) : s \notin DOMAIN active
  BY DEF Joins, BindingsOf, Agreement, LiveBindingsAreActive, ActivePlayers
<1> DEFINE rest == Restrict(bindings, DOMAIN bindings \ BindingsOf(p))
           b == [principal |-> c, generation |-> 1, player |-> p, live |-> TRUE, deadline |-> 0]
<1>5. bindings' = Put(rest, nextSession, b)
  BY Zenon DEF Joins, Registered
<1>6. /\ DOMAIN rest = DOMAIN bindings \ BindingsOf(p)
      /\ \A s \in DOMAIN bindings \ BindingsOf(p) : rest[s] = bindings[s]
  BY DEF Restrict
<1> HIDE DEF rest, b
<1>7. /\ DOMAIN bindings' = (DOMAIN bindings \ BindingsOf(p)) \cup {nextSession}
      /\ bindings'[nextSession] = b
      /\ \A s \in DOMAIN bindings \ BindingsOf(p) : bindings'[s] = bindings[s]
  BY <1>2, <1>5, <1>6 DEF Put
<1>8. /\ DOMAIN active' = DOMAIN active \cup {nextSession}
      /\ active'[nextSession] = [generation |-> 1, player |-> p]
      /\ \A s \in DOMAIN active : active'[s] = active[s]
  BY <1>3 DEF Joins, Put
<1> QED
  BY <1>1, <1>2, <1>3, <1>4, <1>7, <1>8 DEF b, JoinedRegistries

LEMMA JoinsAgreement ==
  ASSUME Types, Agreement, NEW c \in Conns, NEW p \in Players, Joins(c, p)
  PROVE  Agreement'
<1> DEFINE n == nextSession
           old == DOMAIN bindings \ BindingsOf(p)
<1>1. /\ n \in Sessions /\ n \notin DOMAIN bindings /\ n \notin DOMAIN active
      /\ DOMAIN bindings' = old \cup {n}
      /\ bindings'[n].principal = c /\ bindings'[n].generation = 1 /\ bindings'[n].player = p
      /\ bindings'[n].live
      /\ \A s \in old : bindings'[s] = bindings[s]
      /\ DOMAIN active' = DOMAIN active \cup {n}
      /\ active'[n].generation = 1 /\ active'[n].player = p
      /\ \A s \in DOMAIN active : active'[s] = active[s]
      /\ \A s \in BindingsOf(p) : s \notin DOMAIN active
  <2>1. JoinedRegistries(c, p)
    BY JoinsRegistries
  <2> QED
    BY <2>1 DEF JoinedRegistries
<1>2. /\ {t \in DOMAIN bindings : bindings[t].live} = DOMAIN active
      /\ \A t \in DOMAIN active : /\ active[t].generation = bindings[t].generation
                                  /\ active[t].player = bindings[t].player
  BY DEF Agreement, LiveBindingsAreActive
<1>3. /\ players \ restored = {bindings[t].player : t \in DOMAIN bindings}
      /\ restored \subseteq players
      /\ \A t, u \in DOMAIN bindings : bindings[t].player = bindings[u].player => t = u
  BY DEF Agreement, PlayersAreBound
<1>4. /\ DOMAIN principals = {bindings[t].principal : t \in DOMAIN bindings}
      /\ \A t \in DOMAIN bindings : principals[bindings[t].principal] = bindings[t].player
  BY DEF Agreement, PrincipalsMatchBindings
<1>5. \A s \in old : s \in DOMAIN bindings /\ bindings[s].player # p
  BY DEF BindingsOf
<1>6. \A s \in DOMAIN bindings : s \notin old => bindings[s].player = p /\ s \notin DOMAIN active
  BY <1>1 DEF BindingsOf
<1> HIDE DEF old
<1>7. LiveBindingsAreActive'
  <2>1. ASSUME NEW s \in DOMAIN active' PROVE /\ s \in DOMAIN bindings' /\ bindings'[s].live
                                              /\ active'[s].generation = bindings'[s].generation
                                              /\ active'[s].player = bindings'[s].player
    BY <1>1, <1>2, <1>6
  <2>2. ASSUME NEW s \in DOMAIN bindings', bindings'[s].live PROVE s \in DOMAIN active'
    BY <1>1, <1>2, <1>5, <2>2
  <2> QED
    BY <2>1, <2>2 DEF LiveBindingsAreActive
<1>8. PlayersAreBound'
  <2>1. players' = players \cup {p} /\ restored' = restored \ {p}
    BY DEF Joins
  <2>2. ASSUME NEW q \in players' \ restored'
        PROVE  \E t \in DOMAIN bindings' : bindings'[t].player = q
    <3>1. CASE q = p
      BY <1>1, <3>1
    <3>2. CASE q # p
      <4>1. PICK t \in DOMAIN bindings : bindings[t].player = q
        BY <1>3, <2>1, <3>2
      <4>2. t \in old
        BY <1>6, <3>2, <4>1
      <4> QED
        BY <1>1, <4>1, <4>2
    <3> QED
      BY <3>1, <3>2
  <2>3. ASSUME NEW t \in DOMAIN bindings'
        PROVE  bindings'[t].player \in players' \ restored'
    <3>1. CASE t = n
      BY <1>1, <2>1, <3>1
    <3>2. CASE t \in old
      BY <1>1, <1>3, <1>5, <2>1, <3>2
    <3> QED
      BY <1>1, <3>1, <3>2
  <2>4. players' \ restored' = {bindings'[t].player : t \in DOMAIN bindings'}
    BY <2>2, <2>3
  <2>5. \A t, u \in DOMAIN bindings' : bindings'[t].player = bindings'[u].player => t = u
    BY <1>1, <1>3, <1>5
  <2> QED
    BY <1>3, <2>1, <2>4, <2>5 DEF PlayersAreBound
<1>9. PrincipalsMatchBindings'
  <2>1. /\ DOMAIN principals' = {q \in DOMAIN principals : principals[q] # p} \cup {c}
        /\ principals'[c] = p
        /\ \A q \in DOMAIN principals : principals[q] # p => principals'[q] = principals[q]
    BY DEF Joins, PrincipalsAfterJoin, Put, Restrict
  <2>2. ASSUME NEW t \in DOMAIN bindings'
        PROVE  /\ bindings'[t].principal \in DOMAIN principals'
               /\ principals'[bindings'[t].principal] = bindings'[t].player
    <3>1. CASE t = n
      BY <1>1, <2>1, <3>1
    <3>2. CASE t \in old
      <4>1. bindings'[t] = bindings[t] /\ bindings[t].player # p /\ t \in DOMAIN bindings
        BY <1>1, <1>5, <3>2
      <4>2. /\ bindings[t].principal \in DOMAIN principals
            /\ principals[bindings[t].principal] = bindings[t].player
        BY <1>4, <4>1
      <4> QED
        BY <2>1, <4>1, <4>2
    <3> QED
      BY <1>1, <3>1, <3>2
  <2>3. ASSUME NEW q \in DOMAIN principals'
        PROVE  \E t \in DOMAIN bindings' : bindings'[t].principal = q
    <3>1. CASE q = c
      BY <1>1, <3>1
    <3>2. CASE q # c
      <4>1. q \in DOMAIN principals /\ principals[q] # p
        BY <2>1, <3>2
      <4>2. PICK t \in DOMAIN bindings : bindings[t].principal = q
        BY <1>4, <4>1
      <4>3. t \in old
        BY <1>4, <1>6, <4>1, <4>2
      <4> QED
        BY <1>1, <4>2, <4>3
    <3> QED
      BY <3>1, <3>2
  <2> QED
    BY <2>2, <2>3 DEF PrincipalsMatchBindings
<1>10. \A s \in DOMAIN bindings' : s < nextSession'
  <2>1. n \in Int /\ nextSession' = n + 1
    BY <1>1 DEF Joins, Sessions
  <2>2. \A s \in DOMAIN bindings : s \in Int /\ s < n
    BY DEF Agreement, Types, RegistryTypes, Sessions
  <2>3. \A s \in DOMAIN bindings' : s = n \/ s \in DOMAIN bindings
    BY <1>1, <1>5
  <2> QED
    BY <2>1, <2>2, <2>3
<1> QED
  BY <1>7, <1>8, <1>9, <1>10 DEF Agreement

\* A connection that has just authenticated takes a session that is not active.
Takes(c, s, g) ==
  /\ conn[c].state = "AwaitingAuthenticationInput"
  /\ s \in Sessions /\ s \notin DOMAIN active
  /\ conn' = [conn EXCEPT ![c] = [state |-> "Established", session |-> s, generation |-> g]]
  /\ DOMAIN active' = DOMAIN active \cup {s}
  /\ active'[s].generation = g
  /\ \A t \in DOMAIN active : active'[t] = active[t]
  /\ UNCHANGED discarded

LEMMA TakesConns ==
  ASSUME PumpTypes, NEW c \in Conns, NEW s \in Sessions, NEW g \in Generations,
         conn' = [conn EXCEPT ![c] = [state |-> "Established", session |-> s, generation |-> g]]
  PROVE  /\ conn' \in [Conns -> ConnState]
         /\ conn'[c].state = "Established" /\ conn'[c].session = s /\ conn'[c].generation = g
         /\ \A d \in Conns : d # c => conn'[d] = conn[d]
<1> DEFINE r == [state |-> "Established", session |-> s, generation |-> g]
<1>1. r \in ConnState /\ r.state = "Established" /\ r.session = s /\ r.generation = g
  BY DEF ConnState, States, Sessions, Generations
<1> HIDE DEF r
<1>2. conn' = [conn EXCEPT ![c] = r]
  BY DEF r
<1>3. /\ conn' \in [Conns -> ConnState] /\ conn'[c] = r
      /\ \A d \in Conns : d # c => conn'[d] = conn[d]
  BY <1>1, <1>2 DEF PumpTypes
<1> QED
  BY <1>1, <1>3

LEMMA TakesOwning ==
  ASSUME Types, Owning, NEW c \in Conns, NEW s, NEW g \in Generations, Takes(c, s, g)
  PROVE  Owning' /\ Bound' /\ NobodyNew /\ conn'[c].state \notin Early
<1>1. s \in Sessions /\ s \notin DOMAIN active /\ s # 0
  BY DEF Takes, Sessions
<1>2. /\ conn'[c].state = "Established" /\ conn'[c].session = s /\ conn'[c].generation = g
      /\ \A d \in Conns : d # c => conn'[d] = conn[d]
  BY <1>1, TakesConns DEF Takes, Types
<1>3. /\ DOMAIN active' = DOMAIN active \cup {s} /\ active'[s].generation = g
      /\ \A t \in DOMAIN active : active'[t] = active[t]
      /\ UNCHANGED discarded
      /\ conn[c].state = "AwaitingAuthenticationInput"
  BY DEF Takes
<1>4. Bound'
  BY <1>1, <1>2 DEF Types, Bound
<1>5. NobodyNew /\ conn'[c].state \notin Early
  BY <1>2, <1>3 DEF NobodyNew, Early
<1>6. ASSUME NEW d \in Conns, d # c, conn[d].session # 0
      PROVE  /\ d \in Present /\ conn[d].session \in DOMAIN active
             /\ conn[d].session # s
             /\ Owners(conn[d].session) = {d}
             /\ active[conn[d].session].generation = conn[d].generation
  BY <1>1, <1>6, OwnedIsActive
<1>7. OwnersAreActive'
  <2> SUFFICES ASSUME NEW d \in Conns, d \in Present', conn'[d].session # 0
               PROVE  /\ Owners(conn[d].session)' = {d}
                      /\ conn'[d].session \in DOMAIN active'
                      /\ active'[conn'[d].session].generation = conn'[d].generation
    BY DEF OwnersAreActive, Present, Owners
  <2>1. CASE d = c
    <3>1. Owners(conn[c].session)' = {c}
      BY <1>1, <1>2, <1>6, <2>1 DEF Owners, Present
    <3> QED
      BY <1>2, <1>3, <2>1, <3>1
  <2>2. CASE d # c
    <3>1. conn'[d] = conn[d]
      BY <1>2, <2>2
    <3>2. /\ d \in Present /\ conn[d].session \in DOMAIN active
          /\ conn[d].session # s
          /\ Owners(conn[d].session) = {d}
          /\ active[conn[d].session].generation = conn[d].generation
      BY <1>6, <2>2, <3>1
    <3>3. ASSUME NEW e \in Conns, e \in Present', conn'[e].session = conn[d].session
          PROVE  e = d
      <4>1. e # c
        BY <1>2, <3>2, <3>3
      <4>2. conn'[e] = conn[e]
        BY <1>2, <4>1
      <4>3. e \in Owners(conn[d].session)
        BY <3>3, <4>2 DEF Owners, Present
      <4> QED
        BY <3>2, <4>3
    <3>4. Owners(conn[d].session)' = {d}
      BY <3>1, <3>3 DEF Owners, Present
    <3> QED
      BY <1>3, <3>1, <3>2, <3>4
  <2> QED
    BY <2>1, <2>2
<1>8. OrphansWereDiscarded'
  <2> SUFFICES ASSUME NEW t \in DOMAIN active', t \notin discarded
               PROVE  HasOwner(t)'
    BY <1>3 DEF OrphansWereDiscarded
  <2>1. CASE t = s
    BY <1>2, <1>3, <2>1 DEF HasOwner
  <2>2. CASE t # s
    <3>1. t \in DOMAIN active /\ active'[t] = active[t]
      BY <1>3, <2>2
    <3>2. PICK d \in Conns : /\ conn[d].state = "Established"
                             /\ conn[d].session = t
                             /\ conn[d].generation = active[t].generation
      BY <3>1 DEF Owning, OrphansWereDiscarded, HasOwner
    <3>3. d # c
      BY <1>3, <3>2
    <3> QED
      BY <1>2, <3>1, <3>2, <3>3 DEF HasOwner
  <2> QED
    BY <2>1, <2>2
<1> QED
  BY <1>4, <1>5, <1>7, <1>8 DEF Owning

\* A new entry of the history of owners: no earlier one has the generation.
LEMMA CustodyGrows ==
  ASSUME Types, Custody, NEW c \in Conns, NEW s \in Sessions, NEW g \in Generations,
         owned' = owned \cup {[session |-> s, generation |-> g, by |-> c]},
         nextSession' \in Int, nextSession <= nextSession', s < nextSession',
         \A t \in DOMAIN bindings' :
           t # s => t \in DOMAIN bindings /\ bindings'[t].generation = bindings[t].generation,
         s \in DOMAIN bindings' => bindings'[s].generation = g,
         \A o \in owned : o.session = s => o.generation < g
  PROVE  Custody'
<1> DEFINE new == [session |-> s, generation |-> g, by |-> c]
<1>1. new.session = s /\ new.generation = g /\ new.by = c
  OBVIOUS
<1>2. owned' = owned \cup {new}
  OBVIOUS
<1> HIDE DEF new
<1>3. \A o \in owned : o.session \in Int /\ o.generation \in Int
  BY DEF Types, StoreTypes, Ownership, Sessions, Generations
<1>4. g \in Int /\ s \in Int /\ nextSession \in Int
  BY DEF Generations, Sessions, Types, RegistryTypes
<1>5. NoSharedGeneration'
  BY <1>1, <1>2, <1>3, <1>4 DEF Custody, NoSharedGeneration
<1>6. ASSUME NEW o \in owned'
      PROVE  /\ o.session < nextSession'
             /\ o.session \in DOMAIN bindings' => o.generation <= bindings'[o.session].generation
  <2>1. CASE o = new
    BY <1>1, <1>4, <2>1
  <2>2. CASE o \in owned
    <3>1. /\ o.session < nextSession /\ o.session \in Int /\ o.generation \in Int
          /\ o.session \in DOMAIN bindings => o.generation <= bindings[o.session].generation
      BY <1>3, <2>2 DEF Custody
    <3>2. o.session < nextSession'
      BY <1>4, <3>1
    <3>3. CASE o.session = s
      BY <1>4, <2>2, <3>1, <3>2, <3>3
    <3>4. CASE o.session # s
      BY <3>1, <3>2, <3>4
    <3> QED
      BY <3>3, <3>4
  <2> QED
    BY <1>2, <2>1, <2>2
<1> QED
  BY <1>5, <1>6 DEF Custody

LEMMA KeptRecordsAreTokens ==
  ASSUME KeepsRecords(store', store)
  PROVE  TokensKept /\ TokensRenewed
  BY DEF KeepsRecords, TokensKept, TokensRenewed

\* A join that fails after issue(): the token stays in the store, for a session
\* and a principal that nobody has.
LEMMA FailedJoinHolds ==
  ASSUME IInv, NEW c \in Conns, NEW token \in Tokens \cup {NoToken},
         conn[c].state = "AwaitingAuthenticationInput",
         failConnection(c),
         store' = Issue(store, c, nextSession, 1, Context, now, token),
         UNCHANGED <<now, running, phase, canonical, joins, bindings, history>>
  PROVE  IInv' /\ Quiet
<1>1. Types /\ PumpTypes /\ StoreTypes /\ RegistryTypes
  BY DEF IInv, Types
<1>2. IsStoreOf(store, Record) /\ NoReservationLeaks /\ now \in Instants /\ nextSession \in Sessions
  BY <1>1 DEF StoreTypes, PumpTypes, RegistryTypes, Instants
<1>3. IsStoreOf(store', Record)
  <2>1. c \in Conns /\ 1 \in Generations /\ Context \in {Context}
    BY DEF Generations
  <2> QED
    BY <1>2, <2>1, IssueType DEF Record
<1>4. NoReservationLeaks'
  <2>1. store'.pending = store.pending /\ store'.committed = store.committed
    BY <1>2, IssueEffect
  <2> QED
    BY <1>2, <2>1 DEF NoReservationLeaks
<1>5. Quiet /\ PumpTypes'
  <2>1. UNCHANGED <<players, active, identities, principals, nextSession, exhausted,
                    bindings, handed, owned, restored, discarded>>
    BY DEF canonical, joins, history
  <2>2. discarded' \subseteq Sessions
    BY <1>1, <2>1 DEF StoreTypes
  <2> QED
    BY <1>1, <2>1, <2>2, FailIsQuiet
<1>6. CASE ~IssueAccepted(store, now, token)
  <2>1. KeepsRecords(store', store)
    BY <1>2, <1>6, RefusedIssueRecords
  <2> QED
    BY <1>3, <1>4, <1>5, <2>1, KeptRecordsAreTokens, QuietHolds
<1>7. CASE IssueAccepted(store, now, token)
  <2> DEFINE r == [ digest |-> token, principal |-> c, session |-> nextSession,
                    generation |-> 1, context |-> Context, expiresAt |-> ExpiryFrom(now) ]
  <2>1. \E slot : AddsRecord(store', store, slot, r)
    BY <1>2, <1>7, AcceptedIssueRecords
  <2>2. r.principal = c /\ r.session = nextSession
    OBVIOUS
  <2> HIDE DEF r
  <2>3. PICK slot : AddsRecord(store', store, slot, r)
    BY <2>1
  <2>4. conn[c].state \in Early /\ conn'[c].state \notin Early /\ NobodyNew
    <3>1. conn' = Closed({c})
      BY DEF failConnection
    <3>2. conn'[c].state = "Gone"
      BY <1>1, <3>1, ClosedConns
    <3>3. NobodyNew
      BY <1>5 DEF Quiet, NobodyNew
    <3> QED
      BY <3>2, <3>3 DEF Early
  <2>5. \A s \in DOMAIN bindings' : /\ s \in DOMAIN bindings
                                    /\ bindings'[s].principal = bindings[s].principal
                                    /\ bindings'[s].generation = bindings[s].generation
    OBVIOUS
  <2>6. ~exhausted => Tracking'
    BY <1>1, <2>2, <2>3, <2>4, <2>5, TrackingGrows DEF IInv, Core
  <2> QED
    BY <1>3, <1>4, <1>5, <2>6, QuietTracked
<1> QED
  BY <1>6, <1>7

\* The parts of a join that was committed, registered or not.
LEMMA JoinTypes ==
  ASSUME Types, NEW c \in Conns, NEW p \in Players,
         UNCHANGED <<now, running, phase, discarded>>,
         IsStoreOf(store', Record), NoReservationLeaks',
         players' = players \cup {p},
         active' = Put(active, nextSession, [generation |-> 1, player |-> p]),
         identities' = identities \cup {p},
         principals' = PrincipalsAfterJoin(c, p),
         nextSession' = NextSession,
         exhausted' = (exhausted \/ nextSession = MaxSession),
         handed' = handed \cup {c},
         \/ /\ bindings' = Registered(c, p, nextSession)
            /\ conn' = [conn EXCEPT ![c] = [state |-> "Established",
                                            session |-> nextSession, generation |-> 1]]
            /\ owned' = owned \cup {[session |-> nextSession, generation |-> 1, by |-> c]}
            /\ UNCHANGED todo
         \/ failConnection(c) /\ UNCHANGED <<bindings, owned>>
  PROVE  Types'
<1>1. PumpTypes /\ StoreTypes /\ RegistryTypes /\ Bound /\ nextSession \in Sessions
  BY DEF Types, RegistryTypes
<1>2. /\ conn' \in [Conns -> ConnState] /\ todo' \subseteq Conns
      /\ \A d \in Conns : conn'[d].session # 0 <=> conn'[d].state = "Established"
  <2>1. CASE failConnection(c)
    <3>1. conn' = Closed({c}) /\ todo' = todo \ {c}
      BY <2>1 DEF failConnection
    <3>2. /\ conn' \in [Conns -> ConnState]
          /\ \A d \in Conns : IF d \in {c} THEN conn'[d].state = "Gone" /\ conn'[d].session = 0
                                           ELSE conn'[d] = conn[d]
      BY <1>1, <3>1, ClosedConns
    <3> QED
      BY <1>1, <3>1, <3>2 DEF PumpTypes, Bound
  <2>2. CASE /\ conn' = [conn EXCEPT ![c] = [state |-> "Established",
                                             session |-> nextSession, generation |-> 1]]
             /\ UNCHANGED todo
    <3>1. 1 \in Generations /\ nextSession # 0
      BY <1>1 DEF Generations, Sessions
    <3>2. /\ conn' \in [Conns -> ConnState]
          /\ conn'[c].state = "Established" /\ conn'[c].session = nextSession
          /\ \A d \in Conns : d # c => conn'[d] = conn[d]
      BY <1>1, <2>2, <3>1, TakesConns
    <3> QED
      BY <1>1, <2>2, <3>1, <3>2 DEF PumpTypes, Bound
  <2> QED
    BY <2>1, <2>2
<1>3. PumpTypes' /\ Bound'
  BY <1>1, <1>2 DEF PumpTypes, Bound
<1>4. owned' \subseteq Ownership
  <2>1. [session |-> nextSession, generation |-> 1, by |-> c] \in Ownership
    BY <1>1 DEF Ownership, Generations
  <2> QED
    BY <1>1, <2>1 DEF StoreTypes
<1>5. StoreTypes'
  BY <1>1, <1>4 DEF StoreTypes, Record
<1>6. /\ DOMAIN active' \subseteq Sessions
      /\ \A s \in DOMAIN active' : active'[s] \in [generation : 1 .. MaxGeneration, player : Players]
  <2>1. [generation |-> 1, player |-> p] \in [generation : 1 .. MaxGeneration, player : Players]
    OBVIOUS
  <2> QED
    BY <1>1, <2>1 DEF Put, RegistryTypes
<1>7. /\ DOMAIN principals' \subseteq Conns
      /\ \A d \in DOMAIN principals' : principals'[d] \in Players
  BY <1>1 DEF RegistryTypes, PrincipalsAfterJoin, Put, Restrict
<1>8. /\ DOMAIN bindings' \subseteq Sessions
      /\ \A s \in DOMAIN bindings' : bindings'[s] \in Binding
  <2> DEFINE b == [principal |-> c, generation |-> 1, player |-> p, live |-> TRUE, deadline |-> 0]
  <2>1. b \in Binding
    BY DEF Binding
  <2>2. CASE bindings' = Registered(c, p, nextSession)
    <3>1. bindings' = Put(Restrict(bindings, DOMAIN bindings \ BindingsOf(p)), nextSession, b)
      BY <2>2, Zenon DEF Registered
    <3> HIDE DEF b
    <3> QED
      BY <1>1, <2>1, <3>1 DEF Put, Restrict, RegistryTypes
  <2>3. CASE UNCHANGED bindings
    BY <1>1, <2>3 DEF RegistryTypes
  <2> QED
    BY <2>2, <2>3
<1>9. nextSession' \in Sessions
  BY <1>1 DEF NextSession, Sessions
<1>10. exhausted' \in BOOLEAN
  BY Zenon
<1>11. players' \subseteq Players /\ identities' \subseteq Players
  BY <1>1 DEF RegistryTypes
<1>12. RegistryTypes'
  BY <1>6, <1>7, <1>8, <1>9, <1>10, <1>11 DEF RegistryTypes
<1> QED
  BY <1>3, <1>5, <1>12 DEF Types

\* A join that was committed and registered.
LEMMA JoinsCore ==
  ASSUME Types, Core, NEW c \in Conns, NEW p \in Players, Joins(c, p), NEW slot, NEW r,
         AddsRecord(store', store, slot, r),
         r.principal = c, r.session = nextSession, r.generation = 1
  PROVE  Core'
<1>1. Agreement /\ Owning /\ Custody /\ Tracking
  BY DEF Core
<1>2. Agreement'
  BY <1>1, JoinsAgreement
<1>3. JoinedRegistries(c, p)
  BY <1>1, JoinsRegistries
<1>4. 1 \in Generations
  BY DEF Generations
<1>5. Takes(c, nextSession, 1)
  <2>1. active'[nextSession].generation = 1
    BY <1>3 DEF JoinedRegistries
  <2> QED
    BY <1>3, <2>1 DEF JoinedRegistries, Takes, Joins
<1>6. Owning' /\ NobodyNew /\ conn'[c].state \notin Early
  BY <1>1, <1>4, <1>5, TakesOwning
<1>7. /\ nextSession \in Sessions /\ nextSession \notin DOMAIN bindings
      /\ bindings'[nextSession].principal = c /\ bindings'[nextSession].generation = 1
      /\ \A s \in DOMAIN bindings' :
           s # nextSession => s \in DOMAIN bindings /\ bindings'[s] = bindings[s]
  BY <1>3 DEF JoinedRegistries
<1>8. Custody'
  <2>1. nextSession' \in Int /\ nextSession <= nextSession' /\ nextSession < nextSession'
    BY <1>7 DEF Joins, Sessions
  <2>2. \A o \in owned : o.session = nextSession => o.generation < 1
    <3>1. \A o \in owned : o.session < nextSession /\ o.session \in Int
      BY <1>1 DEF Custody, Types, StoreTypes, Ownership, Sessions
    <3> QED
      BY <1>7, <3>1 DEF Sessions
  <2>3. owned' = owned \cup {[session |-> nextSession, generation |-> 1, by |-> c]}
    BY DEF Joins
  <2> QED
    BY <1>1, <1>4, <1>7, <2>1, <2>2, <2>3, CustodyGrows
<1>9. Tracking'
  <2>1. conn[c].state \in Early
    BY DEF Joins, Early
  <2> QED
    BY <1>1, <1>6, <1>7, <2>1, TrackingGrows
<1> QED
  BY <1>2, <1>6, <1>8, <1>9 DEF Core

LEMMA JoinHolds ==
  ASSUME IInv, NEW c \in Conns, NEW p \in Players, NEW fault, Join(c, p, fault)
  PROVE  /\ IInv'
         /\ Quiet \/ (~exhausted' => Joins(c, p))
         /\ exhausted => exhausted'
<1> DEFINE token  == IF fault = "token" THEN NoToken ELSE c
           issued == Issue(store, c, nextSession, 1, Context, now, token)
<1>1. token \in Tokens \cup {NoToken}
  BY DEF Conns
<1>2. /\ conn[c].state = "AwaitingAuthenticationInput"
      /\ UNCHANGED <<now, running, phase>>
  BY DEF Join, Receiving
<1>3. Types /\ PumpTypes /\ StoreTypes /\ RegistryTypes /\ Bound
  BY DEF IInv, Types
<1>4. CASE ~JoinAccepted(c, p, fault)
  <2>1. failConnection(c) /\ UNCHANGED <<canonical, joins, bindings, store, history>>
    BY <1>4, Zenon DEF Join
  <2>2. UNCHANGED <<players, active, identities, principals, nextSession, exhausted,
                    bindings, handed, owned, restored, discarded>> /\ UNCHANGED store
    BY <2>1 DEF canonical, joins, history
  <2>3. discarded' \subseteq Sessions
    BY <1>3, <2>2 DEF StoreTypes
  <2>4. Quiet /\ PumpTypes'
    BY <1>2, <1>3, <2>1, <2>2, <2>3, FailIsQuiet
  <2> QED
    BY <1>3, <2>2, <2>4, SameStore, QuietHolds
<1>5. CASE /\ JoinAccepted(c, p, fault)
           /\ ~IssueAccepted(store, now, token) \/ ~JoinCommits(p, fault)
  <2>1. failConnection(c) /\ store' = issued /\ UNCHANGED <<canonical, joins, bindings, history>>
    BY <1>5, Zenon DEF Join
  <2>2. exhausted' = exhausted
    BY <2>1 DEF joins
  <2> HIDE DEF token
  <2> QED
    BY <1>1, <1>2, <2>1, <2>2, FailedJoinHolds
<1>6. CASE /\ JoinAccepted(c, p, fault)
           /\ IssueAccepted(store, now, token) /\ JoinCommits(p, fault)
  <2>1. /\ store' = issued
        /\ players' = players \cup {p}
        /\ active' = Put(active, nextSession, [generation |-> 1, player |-> p])
        /\ identities' = identities \cup {p}
        /\ principals' = PrincipalsAfterJoin(c, p)
        /\ nextSession' = NextSession
        /\ exhausted' = (exhausted \/ nextSession = MaxSession)
        /\ handed' = handed \cup {c}
        /\ restored' = restored \ {p}
        /\ UNCHANGED discarded
        /\ IF RegisterAccepted(c, p, nextSession)
           THEN /\ bindings' = Registered(c, p, nextSession)
                /\ conn' = [conn EXCEPT ![c] = [state |-> "Established",
                                                session |-> nextSession, generation |-> 1]]
                /\ owned' = owned \cup {[session |-> nextSession, generation |-> 1, by |-> c]}
                /\ UNCHANGED todo
           ELSE /\ failConnection(c)
                /\ UNCHANGED <<bindings, owned>>
    BY <1>6, Zenon DEF Join
  <2> HIDE DEF token
  <2>2. IsStoreOf(store, Record) /\ NoReservationLeaks /\ now \in Instants /\ nextSession \in Sessions
    BY <1>3 DEF StoreTypes, PumpTypes, RegistryTypes, Instants
  <2>3. IsStoreOf(store', Record)
    <3>1. 1 \in Generations /\ Context \in {Context}
      BY DEF Generations
    <3> QED
      BY <1>1, <2>1, <2>2, <3>1, IssueType DEF Record
  <2>4. NoReservationLeaks'
    <3>1. store'.pending = store.pending /\ store'.committed = store.committed
      BY <2>1, <2>2, IssueEffect
    <3> QED
      BY <2>2, <3>1 DEF NoReservationLeaks
  <2>5. Types'
    BY <1>2, <1>3, <2>1, <2>3, <2>4, JoinTypes
  <2>6. ASSUME ~exhausted' PROVE Joins(c, p) /\ Core'
    <3>1. ~exhausted /\ nextSession # MaxSession
      BY <2>1, <2>6
    <3>2. nextSession' = nextSession + 1
      BY <2>1, <3>1 DEF NextSession
    <3>3. Core /\ Agreement
      BY <3>1 DEF IInv, Core
    <3>4. RegisterAccepted(c, p, nextSession)
      BY <1>3, <1>6, <3>3, RegisterNeverRefuses
    <3>5. c \notin DOMAIN principals /\ p \notin ActivePlayers
      BY <1>6 DEF JoinAccepted
    <3>6. Joins(c, p)
      BY <1>2, <2>1, <3>2, <3>4, <3>5 DEF Joins
    <3> DEFINE r == [ digest |-> token, principal |-> c, session |-> nextSession,
                      generation |-> 1, context |-> Context, expiresAt |-> ExpiryFrom(now) ]
    <3>7. \E slot : AddsRecord(store', store, slot, r)
      BY <1>6, <2>1, <2>2, AcceptedIssueRecords
    <3>8. r.principal = c /\ r.session = nextSession /\ r.generation = 1
      OBVIOUS
    <3> HIDE DEF r
    <3>9. PICK slot : AddsRecord(store', store, slot, r)
      BY <3>7
    <3>10. Core'
      BY <1>3, <3>3, <3>6, <3>8, <3>9, JoinsCore
    <3> QED
      BY <3>6, <3>10
  <2> QED
    BY <2>1, <2>5, <2>6 DEF IInv
<1> QED
  BY <1>4, <1>5, <1>6

-----------------------------------------------------------------------------
(* Resume. *)

\* Connection c goes on with the hidden session s, one generation further.
Resumes(c, s, g) ==
  /\ conn[c].state = "AwaitingAuthenticationInput"
  /\ s \in DOMAIN bindings /\ s \notin DOMAIN active
  /\ ~bindings[s].live /\ now < bindings[s].deadline
  /\ bindings[s].generation < MaxGeneration
  /\ g = bindings[s].generation + 1
  /\ active' = Put(active, s, [generation |-> g, player |-> bindings[s].player])
  /\ bindings' = [bindings EXCEPT ![s].generation = g, ![s].live = TRUE]
  /\ conn' = [conn EXCEPT ![c] = [state |-> "Established", session |-> s, generation |-> g]]
  /\ owned' = owned \cup {[session |-> s, generation |-> g, by |-> c]}
  /\ UNCHANGED <<now, players, identities, principals, nextSession, exhausted,
                 discarded, restored>>

\* The bindings and the active sessions after the resume.
ResumedRegistries(c, s, g) ==
  /\ s \in Sessions /\ g \in Generations
  /\ DOMAIN bindings' = DOMAIN bindings
  /\ bindings'[s] \in Binding
  /\ bindings'[s].principal = bindings[s].principal
  /\ bindings'[s].player = bindings[s].player
  /\ bindings'[s].deadline = bindings[s].deadline
  /\ bindings'[s].generation = g
  /\ bindings'[s].live
  /\ \A t \in DOMAIN bindings : t # s => bindings'[t] = bindings[t]
  /\ DOMAIN active' = DOMAIN active \cup {s}
  /\ active'[s] \in [generation : 1 .. MaxGeneration, player : Players]
  /\ active'[s].generation = g
  /\ active'[s].player = bindings[s].player
  /\ \A t \in DOMAIN active : active'[t] = active[t]

LEMMA ResumesRegistries ==
  ASSUME Types, NEW c \in Conns, NEW s, NEW g, Resumes(c, s, g)
  PROVE  ResumedRegistries(c, s, g)
<1>1. s \in Sessions /\ bindings[s] \in Binding /\ s \notin DOMAIN active
  BY DEF Types, RegistryTypes, Resumes
<1>2. g \in Generations
  BY <1>1 DEF Resumes, Binding, Generations
<1> DEFINE b == [bindings[s] EXCEPT !.generation = g, !.live = TRUE]
           a == [generation |-> g, player |-> bindings[s].player]
<1>3. /\ b \in Binding
      /\ b.principal = bindings[s].principal /\ b.player = bindings[s].player
      /\ b.deadline = bindings[s].deadline /\ b.generation = g /\ b.live
  BY <1>1, <1>2 DEF Binding, Generations
<1>4. a \in [generation : 1 .. MaxGeneration, player : Players] /\ a.generation = g
      /\ a.player = bindings[s].player
  BY <1>1, <1>2 DEF Binding, Generations
<1>5. bindings' = [bindings EXCEPT ![s] = b]
  BY DEF Resumes
<1>6. active' = Put(active, s, a)
  BY DEF Resumes
<1> HIDE DEF a, b
<1>7. /\ DOMAIN bindings' = DOMAIN bindings
      /\ bindings'[s] = b
      /\ \A t \in DOMAIN bindings : t # s => bindings'[t] = bindings[t]
  BY <1>5 DEF Resumes
<1>8. /\ DOMAIN active' = DOMAIN active \cup {s}
      /\ active'[s] = a
      /\ \A t \in DOMAIN active : active'[t] = active[t]
  BY <1>1, <1>6 DEF Put
<1> QED
  BY <1>1, <1>2, <1>3, <1>4, <1>7, <1>8 DEF ResumedRegistries

LEMMA ResumesAgreement ==
  ASSUME Types, Agreement, NEW c \in Conns, NEW s, NEW g, Resumes(c, s, g)
  PROVE  Agreement'
<1>1. ResumedRegistries(c, s, g)
  BY ResumesRegistries
<1>2. /\ s \in DOMAIN bindings
      /\ DOMAIN bindings' = DOMAIN bindings
      /\ DOMAIN active' = DOMAIN active \cup {s} /\ s \notin DOMAIN active
      /\ UNCHANGED <<players, restored, principals, nextSession>>
  BY <1>1 DEF ResumedRegistries, Resumes
<1>3. \A t \in DOMAIN bindings :
        /\ bindings'[t].principal = bindings[t].principal
        /\ bindings'[t].player = bindings[t].player
        /\ bindings'[t].live <=> (bindings[t].live \/ t = s)
  BY <1>1 DEF ResumedRegistries
<1>4. LiveBindingsAreActive'
  <2>1. {t \in DOMAIN bindings' : bindings'[t].live} = DOMAIN active'
    BY <1>2, <1>3 DEF Agreement, LiveBindingsAreActive
  <2>2. \A t \in DOMAIN active' : /\ active'[t].generation = bindings'[t].generation
                                  /\ active'[t].player = bindings'[t].player
    BY <1>1, <1>2, <1>3 DEF Agreement, LiveBindingsAreActive, ResumedRegistries
  <2> QED
    BY <2>1, <2>2 DEF LiveBindingsAreActive
<1>5. PlayersAreBound'
  <2>1. {bindings'[t].player : t \in DOMAIN bindings'} = {bindings[t].player : t \in DOMAIN bindings}
    BY <1>2, <1>3
  <2>2. \A t, u \in DOMAIN bindings' : bindings'[t].player = bindings'[u].player => t = u
    BY <1>2, <1>3 DEF Agreement, PlayersAreBound
  <2> QED
    BY <1>2, <2>1, <2>2 DEF Agreement, PlayersAreBound
<1>6. PrincipalsMatchBindings'
  <2>1. {bindings'[t].principal : t \in DOMAIN bindings'}
          = {bindings[t].principal : t \in DOMAIN bindings}
    BY <1>2, <1>3
  <2> QED
    BY <1>2, <1>3, <2>1 DEF Agreement, PrincipalsMatchBindings
<1>7. \A t \in DOMAIN bindings' : t < nextSession'
  BY <1>2 DEF Agreement
<1> QED
  BY <1>4, <1>5, <1>6, <1>7 DEF Agreement

LEMMA ResumesCore ==
  ASSUME Types, Core, NEW c \in Conns, NEW s, NEW g, Resumes(c, s, g), NEW slot, NEW r,
         AddsRecord(store', store, slot, r), slot \in Occupied(store),
         r.principal = store.records[slot].principal,
         r.session = store.records[slot].session,
         r.session = s, r.principal = bindings[s].principal, r.generation = g
  PROVE  Core'
<1>1. Agreement /\ Owning /\ Custody /\ Tracking
  BY DEF Core
<1>2. Agreement'
  BY <1>1, ResumesAgreement
<1>3. ResumedRegistries(c, s, g)
  BY ResumesRegistries
<1>4. s \in Sessions /\ g \in Generations /\ DOMAIN bindings' = DOMAIN bindings
      /\ bindings'[s].principal = bindings[s].principal /\ bindings'[s].generation = g
      /\ \A t \in DOMAIN bindings : t # s => bindings'[t] = bindings[t]
  BY <1>3 DEF ResumedRegistries
<1>5. Takes(c, s, g)
  BY <1>3 DEF ResumedRegistries, Takes, Resumes
<1>6. Owning' /\ NobodyNew
  BY <1>1, <1>4, <1>5, TakesOwning
<1>7. Custody'
  <2>1. /\ nextSession' = nextSession /\ nextSession \in Int /\ s < nextSession
        /\ s \in DOMAIN bindings
    BY <1>1 DEF Resumes, Types, RegistryTypes, Sessions, Agreement
  <2>2. bindings[s].generation \in Int /\ g = bindings[s].generation + 1
    BY <2>1 DEF Resumes, Types, RegistryTypes, Binding
  <2>3. \A o \in owned : o.session = s => o.generation < g
    <3>1. \A o \in owned : o.session = s => o.generation <= bindings[s].generation
      BY <1>1, <2>1 DEF Custody
    <3>2. \A o \in owned : o.generation \in Int
      BY DEF Types, StoreTypes, Ownership, Generations
    <3> QED
      BY <2>2, <3>1, <3>2
  <2>4. owned' = owned \cup {[session |-> s, generation |-> g, by |-> c]}
    BY DEF Resumes
  <2>5. nextSession' \in Int /\ nextSession <= nextSession' /\ s < nextSession'
    BY <2>1
  <2>6. \A t \in DOMAIN bindings' :
          t # s => t \in DOMAIN bindings /\ bindings'[t].generation = bindings[t].generation
    BY <1>4
  <2> QED
    BY <1>1, <1>4, <2>3, <2>4, <2>5, <2>6, CustodyGrows
<1>8. Tracking'
  <2>1. \A other \in Occupied(store') :
          /\ other \in Occupied(store)
          /\ store'.records[other].session = store.records[other].session
          /\ store'.records[other].principal = store.records[other].principal
          /\ other # slot => store'.records[other] = store.records[other]
          /\ other = slot => store'.records[other] = r
    BY DEF AddsRecord
  <2>2. TokensTrackBindings'
    <3> SUFFICES ASSUME NEW other \in Occupied(store'), NEW t \in DOMAIN bindings',
                        store'.records[other].session = t,
                        store'.records[other].principal = bindings'[t].principal
                 PROVE  store'.records[other].generation = bindings'[t].generation
      BY DEF TokensTrackBindings
    <3>1. CASE other = slot
      BY <1>4, <2>1, <3>1
    <3>2. CASE other # slot
      <4>1. ASSUME t = s PROVE FALSE
        <5>1. /\ other \in Occupied(store)
              /\ store.records[other].session = store.records[slot].session
              /\ store.records[other].principal = store.records[slot].principal
          BY <1>4, <2>1, <4>1
        <5>2. other = slot
          BY <1>1, <5>1 DEF Tracking
        <5> QED
          BY <3>2, <5>2
      <4> QED
        BY <1>1, <1>4, <2>1, <3>2, <4>1 DEF Tracking, TokensTrackBindings
    <3> QED
      BY <3>1, <3>2
  <2>3. \A i, j \in Occupied(store') :
          /\ store'.records[i].session = store'.records[j].session
          /\ store'.records[i].principal = store'.records[j].principal
          => i = j
    BY <1>1, <2>1 DEF Tracking
  <2>4. \A other \in Occupied(store) : store.records[other].principal \in Conns
    BY DEF Types, StoreTypes, IsStoreOf, IsPartial, Occupied, Record, RecordOf
  <2>5. \A other \in Occupied(store') : conn'[store'.records[other].principal].state \notin Early
    BY <1>1, <1>6, <2>1, <2>4 DEF Tracking, NobodyNew
  <2> QED
    BY <2>2, <2>3, <2>5 DEF Tracking
<1> QED
  BY <1>2, <1>6, <1>7, <1>8 DEF Core

LEMMA ResumesTypes ==
  ASSUME Types, NEW c \in Conns, NEW s, NEW g, Resumes(c, s, g),
         IsStoreOf(store', Record), NoReservationLeaks',
         handed' = handed \cup {c},
         UNCHANGED <<running, phase, todo>>
  PROVE  Types'
<1>1. PumpTypes /\ StoreTypes /\ RegistryTypes /\ Bound
  BY DEF Types
<1>2. ResumedRegistries(c, s, g)
  BY ResumesRegistries
<1>3. s \in Sessions /\ g \in Generations /\ s # 0
  BY <1>2 DEF ResumedRegistries, Sessions
<1>4. /\ conn' \in [Conns -> ConnState]
      /\ conn'[c].state = "Established" /\ conn'[c].session = s
      /\ \A d \in Conns : d # c => conn'[d] = conn[d]
  BY <1>1, <1>3, TakesConns DEF Resumes
<1>5. PumpTypes' /\ Bound'
  BY <1>1, <1>3, <1>4 DEF PumpTypes, Bound, Resumes
<1>6. owned' \subseteq Ownership
  <2>1. [session |-> s, generation |-> g, by |-> c] \in Ownership
    BY <1>3 DEF Ownership
  <2> QED
    BY <1>1, <2>1 DEF StoreTypes, Resumes
<1>7. StoreTypes'
  BY <1>1, <1>6 DEF StoreTypes, Record, Resumes
<1>8. /\ DOMAIN active' \subseteq Sessions /\ DOMAIN bindings' \subseteq Sessions
      /\ \A t \in DOMAIN active' : active'[t] \in [generation : 1 .. MaxGeneration, player : Players]
      /\ \A t \in DOMAIN bindings' : bindings'[t] \in Binding
  BY <1>1, <1>2 DEF ResumedRegistries, RegistryTypes
<1>9. exhausted' \in BOOLEAN
  BY <1>1, Zenon DEF RegistryTypes, Resumes
<1>10. RegistryTypes'
  BY <1>1, <1>8, <1>9 DEF RegistryTypes, Resumes
<1> QED
  BY <1>5, <1>7, <1>10 DEF Types

\* What prepareConsume() has staged, in a store without reservations.
LEMMA ResumePrepared ==
  ASSUME Types, NEW token, NEW replacement \in Tokens \cup {NoToken},
         PrepareAccepted(store, token, Context, now, replacement)
  PROVE  LET prepared == PrepareConsume(store, token, Context, now, replacement)
             id == store.nextId
             slot == Found(store, token)
             r == prepared.pending[id].replacement
         IN  /\ IsStoreOf(prepared, Record)
             /\ prepared.records = store.records
             /\ DOMAIN prepared.pending = {id}
             /\ prepared.committed = {}
             /\ prepared.pending[id].slot = slot
             /\ slot \in Occupied(store)
             /\ store.records[slot].digest = token
             /\ r.digest = replacement
             /\ r.session = store.records[slot].session
             /\ r.principal = store.records[slot].principal
             /\ r.generation = store.records[slot].generation + 1
             /\ r.expiresAt = now + Lifetime
<1> DEFINE prepared == PrepareConsume(store, token, Context, now, replacement)
           id == store.nextId
           slot == Found(store, token)
           staged == [slot |-> slot, replacement |-> Replacement(store, slot, now, replacement)]
<1>1. IsStoreOf(store, Record) /\ NoReservationLeaks /\ now \in Instants
  BY DEF Types, StoreTypes, PumpTypes, Instants
<1>2. IsStoreOf(prepared, Record)
  BY <1>1, PrepareType DEF Record
<1>3. /\ prepared.records = store.records
      /\ DOMAIN prepared.pending = DOMAIN store.pending \cup {id}
      /\ prepared.pending[id] = staged
      /\ prepared.committed = {}
  BY <1>1, AcceptedPrepareEffect DEF Record
<1>4. /\ slot \in Occupied(store) /\ store.records[slot] \in Record
      /\ store.records[slot].digest = token
  BY <1>1, FoundType DEF PrepareAccepted
<1> DEFINE r == Replacement(store, slot, now, replacement)
<1>5. /\ r.digest = replacement
      /\ r.session = store.records[slot].session
      /\ r.principal = store.records[slot].principal
      /\ r.generation = store.records[slot].generation + 1
      /\ r.expiresAt = now + Lifetime
  <2> HIDE DEF slot
  <2> QED
    BY <1>4 DEF Replacement, Record, RecordOf, ExpiryFrom
<1>6. DOMAIN prepared.pending = {id}
  BY <1>1, <1>3 DEF NoReservationLeaks
<1>7. prepared.pending[id].slot = slot /\ prepared.pending[id].replacement = r
  BY <1>3
<1> HIDE DEF r, slot, prepared
<1> QED
  BY <1>2, <1>3, <1>4, <1>5, <1>6, <1>7 DEF slot, prepared

\* A resume that gives up keeps the records and leaves no reservation.
LEMMA GivenUp ==
  ASSUME Types, NEW token, NEW replacement \in Tokens \cup {NoToken},
         PrepareAccepted(store, token, Context, now, replacement),
         LET prepared == PrepareConsume(store, token, Context, now, replacement)
         IN  \/ store' = GiveUp(prepared, store.nextId)
             \/ store' = TakeBack(prepared, store.nextId)
  PROVE  IsStoreOf(store', Record) /\ NoReservationLeaks' /\ TokensKept /\ TokensRenewed
<1> DEFINE prepared == PrepareConsume(store, token, Context, now, replacement)
           id == store.nextId
<1>1. /\ IsStoreOf(prepared, Record)
      /\ prepared.records = store.records
      /\ DOMAIN prepared.pending = {id}
      /\ prepared.committed = {}
      /\ prepared.pending[id].slot \in Occupied(store)
  BY ResumePrepared
<1>2. store' = GiveUp(prepared, id) \/ store' = TakeBack(prepared, id)
  OBVIOUS
<1> HIDE DEF prepared
<1>3. CASE store' = GiveUp(prepared, id)
  <2>1. store' = CancelConsume(prepared, id)
    BY <1>3 DEF GiveUp
  <2>2. IsStoreOf(store', Record)
    BY <1>1, <2>1, CancelType
  <2>3. /\ store'.records = prepared.records /\ store'.committed = prepared.committed
        /\ DOMAIN store'.pending = DOMAIN prepared.pending \ {id}
    BY <1>1, <2>1, CancelEffect
  <2>4. KeepsRecords(store', store)
    BY <1>1, <2>3 DEF KeepsRecords, Occupied
  <2> QED
    BY <1>1, <2>2, <2>3, <2>4, KeptRecordsAreTokens DEF NoReservationLeaks
<1>4. CASE store' = TakeBack(prepared, id)
  <2>1. store' = RollbackConsume(CommitConsume(prepared, id), id)
    BY <1>4 DEF TakeBack
  <2>2. CommitDefined(prepared, id) /\ id \in DOMAIN prepared.pending
    BY <1>1 DEF CommitDefined, Occupied
  <2>3. IsStoreOf(store', Record)
    BY <1>1, <2>1, <2>2, CommitType, RollbackType
  <2>4. /\ KeepsRecords(store', prepared)
        /\ DOMAIN store'.pending = DOMAIN prepared.pending \ {id}
        /\ store'.committed = {}
    BY <1>1, <2>1, <2>2, RollbackRecords
  <2>5. KeepsRecords(store', store)
    BY <1>1, <2>4 DEF KeepsRecords, Occupied
  <2> QED
    BY <1>1, <2>3, <2>4, <2>5, KeptRecordsAreTokens DEF NoReservationLeaks
<1> QED
  BY <1>2, <1>3, <1>4

LEMMA ResumeHolds ==
  ASSUME IInv, NEW c \in Conns, NEW token, NEW fault, Resume(c, token, fault)
  PROVE  /\ IInv'
         /\ Quiet \/ \E s, g : Resumes(c, s, g)
<1> DEFINE replacement == IF fault = "token" THEN NoToken ELSE c
           prepared    == PrepareConsume(store, token, Context, now, replacement)
           id          == store.nextId
           grant       == prepared.pending[id].replacement
           accepted    == PrepareAccepted(store, token, Context, now, replacement)
<1>1. replacement \in Tokens \cup {NoToken}
  BY DEF Conns
<1>2. /\ conn[c].state = "AwaitingAuthenticationInput"
      /\ UNCHANGED <<now, running, phase, players, joins>>
  BY DEF Resume, Receiving
<1>3. Types /\ PumpTypes /\ StoreTypes /\ RegistryTypes /\ Bound
  BY DEF IInv, Types
<1>4. \/ /\ ~accepted
         /\ store' = prepared
         /\ \/ failConnection(c)
            \/ conn' = [conn EXCEPT ![c].state = "Rejected"] /\ UNCHANGED todo
         /\ UNCHANGED <<active, bindings, history>>
      \/ /\ accepted
         /\ failConnection(c)
         /\ store' = GiveUp(prepared, id) \/ store' = TakeBack(prepared, id)
         /\ UNCHANGED <<active, bindings, history>>
      \/ /\ accepted
         /\ ResumeAccepted(grant)
         /\ store' = FinalizeConsume(CommitConsume(prepared, id), id)
         /\ active' = Put(active, grant.session,
                          [generation |-> grant.generation,
                           player     |-> bindings[grant.session].player])
         /\ bindings' = [bindings EXCEPT ![grant.session].generation = grant.generation,
                                         ![grant.session].live       = TRUE]
         /\ conn' = [conn EXCEPT ![c] = [state |-> "Established", session |-> grant.session,
                                         generation |-> grant.generation]]
         /\ handed' = handed \cup {c}
         /\ owned' = owned \cup {[session |-> grant.session,
                                  generation |-> grant.generation, by |-> c]}
         /\ UNCHANGED <<todo, discarded, restored>>
  BY Zenon DEF Resume
<1> HIDE DEF replacement
<1>5. IsStoreOf(store, Record) /\ NoReservationLeaks /\ now \in Instants
  BY <1>3 DEF StoreTypes, PumpTypes, Instants
<1>6. CASE /\ ~accepted
           /\ store' = prepared
           /\ \/ failConnection(c)
              \/ conn' = [conn EXCEPT ![c].state = "Rejected"] /\ UNCHANGED todo
           /\ UNCHANGED <<active, bindings, history>>
  <2>1. IsStoreOf(store', Record)
    BY <1>1, <1>5, <1>6, PrepareType DEF Record
  <2>2. store'.pending = store.pending /\ store'.committed = {}
    BY <1>5, <1>6, RefusedPrepareEffect
  <2>3. KeepsRecords(store', store)
    BY <1>5, <1>6, RefusedPrepareRecords
  <2>4. NoReservationLeaks' /\ TokensKept
    BY <1>5, <2>2, <2>3, KeptRecordsAreTokens DEF NoReservationLeaks
  <2>5. UNCHANGED <<now, running, phase, canonical, joins, bindings, history>>
    BY <1>2, <1>6 DEF canonical
  <2>6. \/ failConnection(c)
        \/ conn' = [conn EXCEPT ![c].state = "Rejected"] /\ UNCHANGED todo
    BY <1>6
  <2>7. conn[c].state \in {"AwaitingClientHello", "AwaitingAuthenticationInput"}
        /\ "Rejected" \in {"AwaitingAuthenticationInput", "Rejected"}
    BY <1>2
  <2> QED
    BY <2>1, <2>4, <2>5, <2>6, <2>7, AnswerHolds
<1>7. CASE /\ accepted
           /\ failConnection(c)
           /\ store' = GiveUp(prepared, id) \/ store' = TakeBack(prepared, id)
           /\ UNCHANGED <<active, bindings, history>>
  <2>1. IsStoreOf(store', Record) /\ NoReservationLeaks' /\ TokensKept
    BY <1>1, <1>3, <1>7, GivenUp
  <2>2. UNCHANGED <<now, running, phase, canonical, joins, bindings, history>>
    BY <1>2, <1>7 DEF canonical
  <2>3. conn[c].state \in {"AwaitingClientHello", "AwaitingAuthenticationInput"}
        /\ "Rejected" \in {"AwaitingAuthenticationInput", "Rejected"}
    BY <1>2
  <2> QED
    BY <1>7, <2>1, <2>2, <2>3, AnswerHolds
<1>8. CASE /\ accepted
           /\ ResumeAccepted(grant)
           /\ store' = FinalizeConsume(CommitConsume(prepared, id), id)
           /\ active' = Put(active, grant.session,
                            [generation |-> grant.generation,
                             player     |-> bindings[grant.session].player])
           /\ bindings' = [bindings EXCEPT ![grant.session].generation = grant.generation,
                                           ![grant.session].live       = TRUE]
           /\ conn' = [conn EXCEPT ![c] = [state |-> "Established", session |-> grant.session,
                                           generation |-> grant.generation]]
           /\ handed' = handed \cup {c}
           /\ owned' = owned \cup {[session |-> grant.session,
                                    generation |-> grant.generation, by |-> c]}
           /\ UNCHANGED <<todo, discarded, restored>>
  <2> DEFINE slot == Found(store, token)
  <2>1. /\ IsStoreOf(prepared, Record)
        /\ prepared.records = store.records
        /\ DOMAIN prepared.pending = {id}
        /\ prepared.pending[id].slot = slot
        /\ slot \in Occupied(store)
        /\ grant.session = store.records[slot].session
        /\ grant.principal = store.records[slot].principal
    <3>1. PrepareAccepted(store, token, Context, now, replacement)
      BY <1>8
    <3> QED
      BY <1>1, <1>3, <3>1, ResumePrepared
  <2>2. UNCHANGED <<now, running, phase, todo, players, identities, principals, nextSession,
                    exhausted, discarded, restored>>
    BY <1>2, <1>8 DEF joins
  <2> HIDE DEF prepared, slot, accepted, grant
  <2>3. Resumes(c, grant.session, grant.generation)
    BY <1>2, <1>8, <2>2 DEF Resumes, ResumeAccepted
  <2>4. bindings[grant.session].principal = grant.principal
    BY <1>8 DEF ResumeAccepted
  <2>5. CommitDefined(prepared, id) /\ id \in DOMAIN prepared.pending
    BY <2>1 DEF CommitDefined, Occupied
  <2>6. IsStoreOf(store', Record)
    BY <1>8, <2>1, <2>5, CommitType, FinalizeType
  <2>7. /\ AddsRecord(store', prepared, prepared.pending[id].slot, prepared.pending[id].replacement)
        /\ DOMAIN store'.pending = DOMAIN prepared.pending \ {id}
        /\ store'.committed = {}
    BY <1>8, <2>1, FinalizedCommit
  <2>8. AddsRecord(store', store, slot, grant)
    <3>1. AddsRecord(store', prepared, slot, grant)
      BY <2>1, <2>7 DEF grant
    <3> QED
      BY <2>1, <3>1 DEF AddsRecord, Occupied
  <2>9. NoReservationLeaks'
    BY <2>1, <2>7 DEF NoReservationLeaks
  <2>10. Types'
    BY <1>3, <1>8, <2>2, <2>3, <2>6, <2>9, ResumesTypes
  <2>11. ~exhausted => Core'
    BY <1>3, <2>1, <2>3, <2>4, <2>8, ResumesCore DEF IInv
  <2> QED
    BY <2>2, <2>3, <2>10, <2>11 DEF IInv
<1> QED
  BY <1>4, <1>6, <1>7, <1>8

-----------------------------------------------------------------------------
(* Every step. *)

\* The registries move in one of these ways, or not at all.
Moves ==
  \/ Quiet
  \/ \E leaving : Hides(leaving) /\ UNCHANGED <<players, joins, restored>>
  \/ Expires(NextExpiration)
  \/ \E c \in Conns, p \in Players : ~exhausted' => Joins(c, p)
  \/ \E c \in Conns : \E s, g : Resumes(c, s, g)

LEMMA NextHolds ==
  ASSUME IInv, [Next]_vars
  PROVE  /\ IInv' /\ Moves
         /\ Tick \/ UNCHANGED now
         /\ Tick => Quiet
         /\ exhausted => exhausted'
<1>1. ASSUME NEW c \in Conns, AcceptConnection(c) PROVE IInv' /\ Quiet /\ UNCHANGED now
  BY <1>1, AcceptHolds DEF AcceptConnection
<1>2. ASSUME NEW cs \in SUBSET Present, NEW fault \in Outcomes, ConnectionsClosed(cs, fault)
      PROVE  IInv' /\ Moves /\ UNCHANGED <<now, exhausted>>
  <2>1. UNCHANGED <<now, players, joins, restored, exhausted>>
    BY <1>2 DEF ConnectionsClosed, history, joins
  <2> QED
    BY <1>2, <2>1, ConnectionsClosedHolds DEF Moves
<1>3. ASSUME NEW late \in SUBSET Handshaking, CheckTimeouts(late)
      PROVE  IInv' /\ Quiet /\ UNCHANGED now
  BY <1>3, TimeoutsHold DEF CheckTimeouts
<1>4. ASSUME NEW fault \in Outcomes, ExpireSession(fault)
      PROVE  IInv' /\ Moves /\ UNCHANGED <<now, exhausted>>
  BY <1>4, ExpireSessionHolds DEF ExpireSession, Moves
<1>5. ASSUME ExpirationsDone PROVE IInv' /\ Quiet /\ UNCHANGED now
  BY <1>5, ExpirationsDoneHolds DEF ExpirationsDone
<1>6. ASSUME NEW c \in Conns, ReceiveDone(c) PROVE IInv' /\ Quiet /\ UNCHANGED now
  BY <1>6, ReceiveDoneHolds DEF ReceiveDone
<1>7. ASSUME NEW c \in Conns, NEW accepted \in BOOLEAN, NEW fault \in Outcomes,
             ClientHello(c, accepted, fault)
      PROVE  IInv' /\ Quiet /\ UNCHANGED now
  BY <1>7, ClientHelloHolds DEF ClientHello
<1>8. ASSUME NEW c \in Conns, NEW fault \in Outcomes, AuthenticationDenied(c, fault)
      PROVE  IInv' /\ Quiet /\ UNCHANGED now
  BY <1>8, AuthenticationDeniedHolds DEF AuthenticationDenied
<1>9. ASSUME NEW c \in Conns, NEW fault \in Outcomes, ProtocolRejected(c, fault)
      PROVE  IInv' /\ Moves /\ UNCHANGED <<now, exhausted>>
  <2>1. UNCHANGED <<now, players, joins, restored, exhausted>>
    BY <1>9 DEF ProtocolRejected, history, joins
  <2> QED
    BY <1>9, <2>1, ProtocolRejectedHolds DEF Moves
<1>10. ASSUME NEW c \in Conns, ReceiveFails(c) \/ ResyncFails(c)
       PROVE  IInv' /\ Quiet /\ UNCHANGED now
  BY <1>10, DiscardHolds DEF ReceiveFails, ResyncFails
<1>11. ASSUME NEW c \in Conns, NEW p \in Players, NEW fault \in Outcomes, Join(c, p, fault)
       PROVE  IInv' /\ Moves /\ UNCHANGED now /\ (exhausted => exhausted')
  <2>1. UNCHANGED now
    BY <1>11, Zenon DEF Join
  <2>2. IInv' /\ (Quiet \/ (~exhausted' => Joins(c, p))) /\ (exhausted => exhausted')
    BY <1>11, JoinHolds
  <2> QED
    BY <2>1, <2>2 DEF Moves
<1>12. ASSUME NEW c \in Conns, NEW token \in handed, NEW fault \in Outcomes, Resume(c, token, fault)
       PROVE  IInv' /\ Moves /\ UNCHANGED <<now, exhausted>>
  <2>1. UNCHANGED <<now, joins>>
    BY <1>12, Zenon DEF Resume
  <2>2. UNCHANGED <<now, exhausted>>
    BY <2>1 DEF joins
  <2>3. IInv' /\ (Quiet \/ \E s, g : Resumes(c, s, g))
    BY <1>12, ResumeHolds
  <2> QED
    BY <2>2, <2>3 DEF Moves
<1>13. ASSUME ReceiveFinished PROVE IInv' /\ Quiet /\ UNCHANGED now
  BY <1>13, ReceiveFinishedHolds DEF ReceiveFinished
<1>14. ASSUME NEW changed \in BOOLEAN, NEW fault \in Outcomes, CommitTick(changed, fault)
       PROVE  IInv' /\ Quiet /\ UNCHANGED now
  BY <1>14, CommitTickHolds DEF CommitTick
<1>15. ASSUME NEW failed \in SUBSET Present, NEW drained \in SUBSET Rejected,
              NEW fault \in Outcomes, Send(failed, drained, fault)
       PROVE  IInv' /\ Moves /\ UNCHANGED <<now, exhausted>>
  <2>1. UNCHANGED <<now, players, joins, restored, exhausted>>
    BY <1>15 DEF Send, history, joins
  <2> QED
    BY <1>15, <2>1, SendHolds DEF Moves
<1>16. ASSUME Tick PROVE IInv' /\ Quiet
  BY <1>16, TickHolds
<1>17. ASSUME UNCHANGED vars PROVE IInv' /\ Quiet /\ UNCHANGED now
  BY <1>17, StutterHolds DEF vars
<1>18. Quiet => Moves /\ UNCHANGED exhausted
  BY DEF Quiet, Moves
<1>19. ASSUME Pump PROVE IInv' /\ Moves /\ UNCHANGED now /\ (exhausted => exhausted')
  BY <1>2, <1>3, <1>4, <1>5, <1>6, <1>7, <1>8, <1>9, <1>10, <1>11, <1>12, <1>13, <1>14, <1>15,
     <1>18, <1>19 DEF Pump
<1> QED
  BY <1>1, <1>16, <1>17, <1>18, <1>19 DEF Next

\* The inductive invariant holds in every state.
LEMMA Invariance == Spec => []IInv
<1>1. IInv /\ [Next]_vars => IInv'
  BY NextHolds
<1> QED
  BY InitHolds, <1>1, PTL DEF Spec

-----------------------------------------------------------------------------
(* What the server keeps. *)

\* The registries, the connections and the token store keep their types, with
\* every combination of faults and also once the session ids are used up: no
\* deadline and no expiry overflows the clock (disconnectConnections, issue).
THEOREM ServerTypeCorrect == Spec => []TypeOK
<1>1. IInv => TypeOK
  BY TypesAreOK DEF IInv
<1> QED
  BY <1>1, Invariance, PTL

\* The canonical state, the join coordinator, the lifecycle and the token store
\* agree after every handler, whichever of its steps has failed, for as long
\* as there are session ids to give out.
THEOREM RegistriesStayInStep == Spec => [](~exhausted => RegistriesAgree)
<1>1. IInv => (~exhausted => RegistriesAgree)
  BY DEF IInv, Types, StoreTypes, Core, Agreement, Tracking, RegistriesAgree
<1> QED
  BY <1>1, Invariance, PTL

\* An active session without a connection comes from a connection that was
\* discarded without a disconnect, and from nothing else that may fail.
THEOREM OrphansOnlyFromDiscards == Spec => [](~exhausted => OrphansWereDiscarded)
<1>1. IInv => (~exhausted => OrphansWereDiscarded)
  BY DEF IInv, Core, Owning
<1> QED
  BY <1>1, Invariance, PTL

\* A session that a connection is bound to is active, in the same generation,
\* and has no other connection, with every combination of faults.
THEOREM OwnersStayActive == Spec => [](~exhausted => OwnersAreActive)
<1>1. IInv => (~exhausted => OwnersAreActive)
  BY DEF IInv, Core, Owning
<1> QED
  BY <1>1, Invariance, PTL

\* Over the life of the process no two connections hold the same generation of
\* a session, through joins, resumes, failed commits and expirations.
THEOREM GenerationsAreNotShared == Spec => [](~exhausted => NoSharedGeneration)
<1>1. IInv => (~exhausted => NoSharedGeneration)
  BY DEF IInv, Core, Custody
<1> QED
  BY <1>1, Invariance, PTL

-----------------------------------------------------------------------------
(* The server implements PlayerPresence. *)

\* What a binding looks like from outside.
Shown(s) ==
  IF bindings[s].live
  THEN [status |-> "online", session |-> s, generation |-> bindings[s].generation, deadline |-> 0]
  ELSE [status |-> "hidden", session |-> s, generation |-> bindings[s].generation,
        deadline |-> bindings[s].deadline]

\* presence shows the binding of each player that has one.
PresenceShape ==
  /\ presence = [p \in Players |-> presence[p]]
  /\ \A s \in DOMAIN bindings : presence[bindings[s].player] = Shown(s)
  /\ \A p \in Players :
       (\A s \in DOMAIN bindings : bindings[s].player # p) => presence[p] = Presence!Absent

LEMMA PresenceShaped == Types /\ Agreement => PresenceShape
<1> SUFFICES ASSUME Types, Agreement PROVE PresenceShape
  OBVIOUS
<1>1. presence = [p \in Players |-> presence[p]]
  BY DEF presence
<1>2. /\ {s \in DOMAIN bindings : bindings[s].live} = DOMAIN active
      /\ \A s \in DOMAIN active : /\ active[s].generation = bindings[s].generation
                                  /\ active[s].player = bindings[s].player
  BY DEF Agreement, LiveBindingsAreActive
<1>3. /\ \A s, t \in DOMAIN bindings : bindings[s].player = bindings[t].player => s = t
      /\ \A s \in DOMAIN bindings : bindings[s].player \in players
  BY DEF Agreement, PlayersAreBound
<1>4. ASSUME NEW s \in DOMAIN bindings
      PROVE  presence[bindings[s].player] = Shown(s)
  <2> DEFINE p == bindings[s].player
  <2>1. p \in Players
    BY DEF Types, RegistryTypes, Binding
  <2>2. CASE bindings[s].live
    <3>1. s \in DOMAIN active /\ active[s].player = p
      BY <1>2, <2>2
    <3>2. \A t \in DOMAIN active : active[t].player = p => t = s
      BY <1>2, <1>3
    <3> DEFINE t == CHOOSE t \in DOMAIN active : active[t].player = p
    <3>3. t = s
      BY <3>1, <3>2
    <3>4. p \in ActivePlayers
      BY <3>1 DEF ActivePlayers
    <3> HIDE DEF p
    <3>5. presence[p] = [status |-> "online", session |-> t, generation |-> active[t].generation,
                         deadline |-> 0]
      BY <2>1, <3>4 DEF presence
    <3> HIDE DEF t
    <3>6. presence[p] = Shown(s)
      BY <1>2, <2>2, <3>1, <3>3, <3>5 DEF Shown
    <3> QED
      BY <3>6 DEF p
  <2>3. CASE ~bindings[s].live
    <3>1. p \notin ActivePlayers
      BY <1>2, <1>3, <2>3 DEF ActivePlayers
    <3>2. BindingsOf(p) = {s}
      BY <1>3 DEF BindingsOf
    <3>3. p \in players
      BY <1>3
    <3> DEFINE t == CHOOSE t \in BindingsOf(p) : TRUE
    <3>4. t = s
      BY <3>2
    <3> HIDE DEF p
    <3>5. presence[p] = [status |-> "hidden", session |-> t, generation |-> bindings[t].generation,
                         deadline |-> bindings[t].deadline]
      BY <2>1, <3>1, <3>2, <3>3 DEF presence
    <3> HIDE DEF t
    <3>6. presence[p] = Shown(s)
      BY <2>3, <3>4, <3>5 DEF Shown
    <3> QED
      BY <3>6 DEF p
  <2> QED
    BY <2>2, <2>3
<1>5. ASSUME NEW p \in Players, \A s \in DOMAIN bindings : bindings[s].player # p
      PROVE  presence[p] = Presence!Absent
  <2>1. p \notin ActivePlayers
    BY <1>2, <1>5 DEF ActivePlayers
  <2>2. BindingsOf(p) = {}
    BY <1>5 DEF BindingsOf
  <2> QED
    BY <2>1, <2>2 DEF presence, Presence!Absent
<1> QED
  BY <1>1, <1>4, <1>5 DEF PresenceShape

\* The registries before and after a step, and what they show.
LEMMA Before ==
  ASSUME Types, Agreement
  PROVE  /\ PresenceShape
         /\ \A s \in DOMAIN bindings : bindings[s] \in Binding
         /\ \A s, t \in DOMAIN bindings : bindings[s].player = bindings[t].player => s = t
  BY PresenceShaped DEF Types, RegistryTypes, Agreement, PlayersAreBound

\* presence after the step, pointwise.
LEMMA SamePresence ==
  ASSUME PresenceShape, PresenceShape', NEW f, f = [p \in Players |-> f[p]],
         \A p \in Players : presence'[p] = f[p]
  PROVE  presence' = f
<1>1. presence' = [p \in Players |-> presence'[p]]
  BY DEF PresenceShape
<1> DEFINE g == presence'
<1>2. g = [p \in Players |-> g[p]] /\ \A p \in Players : g[p] = f[p]
  BY <1>1
<1> HIDE DEF g
<1>3. g = f
  BY <1>2
<1> QED
  BY <1>3 DEF g

\* What an online player becomes when it is hidden.
LEMMA HiddenFromOnline ==
  ASSUME NEW s, NEW g, NEW d \in Int, NEW was,
         was = [status |-> "online", session |-> s, generation |-> g, deadline |-> 0]
  PROVE  [was EXCEPT !.status = "hidden", !.deadline = d] =
           [status |-> "hidden", session |-> s, generation |-> g, deadline |-> d]
<1> DEFINE is == [was EXCEPT !.status = "hidden", !.deadline = d]
<1>1. DOMAIN is = {"status", "session", "generation", "deadline"}
  OBVIOUS
<1>2. is.status = "hidden" /\ is.session = s /\ is.generation = g /\ is.deadline = d
  OBVIOUS
<1>3. is = [x \in DOMAIN is |-> is[x]]
  OBVIOUS
<1> HIDE DEF is
<1>4. is = [status |-> "hidden", session |-> s, generation |-> g, deadline |-> d]
  BY <1>1, <1>2, <1>3
<1> QED
  BY <1>4 DEF is

\* Connections are lost together: Leave, or nobody had a session.
LEMMA HidesIsLeave ==
  ASSUME Types, Agreement, PresenceShape', NEW leaving, Hides(leaving),
         UNCHANGED <<now, nextSession>>
  PROVE  (\E ps \in SUBSET Players : Presence!Leave(ps)) \/ UNCHANGED presence
<1>1. /\ PresenceShape
      /\ \A s \in DOMAIN bindings : bindings[s] \in Binding
      /\ \A s, t \in DOMAIN bindings : bindings[s].player = bindings[t].player => s = t
  BY Before
<1> DEFINE ps == {bindings[s].player : s \in leaving}
           f == [p \in Players |->
                   IF p \in ps
                   THEN [presence[p] EXCEPT !.status = "hidden", !.deadline = now + Grace]
                   ELSE presence[p]]
<1>2. /\ leaving \subseteq DOMAIN bindings
      /\ leaving \subseteq DOMAIN active
      /\ DOMAIN bindings' = DOMAIN bindings
      /\ \A s \in DOMAIN bindings :
           bindings'[s] = IF s \in leaving THEN Hide(s) ELSE bindings[s]
      /\ leaving # {} => now <= MaxInstant - Grace
  BY DEF Hides
<1>3. ps \in SUBSET Players
  BY <1>1, <1>2 DEF Binding
<1>4. ASSUME NEW s \in leaving
      PROVE  /\ presence[bindings[s].player].status = "online"
             /\ bindings'[s].player = bindings[s].player
             /\ presence'[bindings[s].player] =
                  [presence[bindings[s].player] EXCEPT !.status = "hidden", !.deadline = now + Grace]
  <2>1. /\ s \in DOMAIN bindings /\ s \in DOMAIN active /\ s \in DOMAIN bindings'
        /\ now <= MaxInstant - Grace
        /\ bindings'[s] = Hide(s)
    BY <1>2
  <2>2. /\ bindings'[s].player = bindings[s].player
        /\ bindings'[s].generation = active[s].generation
        /\ bindings'[s].live = FALSE
        /\ bindings'[s].deadline = now + Grace
    BY <2>1, HideType
  <2>3. bindings[s].live /\ active[s].generation = bindings[s].generation
    BY <2>1 DEF Agreement, LiveBindingsAreActive
  <2>4. presence[bindings[s].player] =
          [status |-> "online", session |-> s, generation |-> bindings[s].generation, deadline |-> 0]
    BY <1>1, <2>1, <2>3 DEF PresenceShape, Shown
  <2>5. presence'[bindings'[s].player] =
          [status |-> "hidden", session |-> s, generation |-> bindings[s].generation,
           deadline |-> now + Grace]
    <3>1. presence'[bindings'[s].player] = Shown(s)'
      BY <2>1 DEF PresenceShape
    <3> QED
      BY <2>2, <2>3, <3>1 DEF Shown
  <2>6. [presence[bindings[s].player] EXCEPT !.status = "hidden", !.deadline = now + Grace] =
          [status |-> "hidden", session |-> s, generation |-> bindings[s].generation,
           deadline |-> now + Grace]
    <3> DEFINE was == presence[bindings[s].player]
    <3>1. was = [status |-> "online", session |-> s, generation |-> bindings[s].generation,
                 deadline |-> 0]
      BY <2>4
    <3>2. now + Grace \in Int
      BY DEF Types, PumpTypes, Grace
    <3> HIDE DEF was
    <3>3. [was EXCEPT !.status = "hidden", !.deadline = now + Grace] =
            [status |-> "hidden", session |-> s, generation |-> bindings[s].generation,
             deadline |-> now + Grace]
      BY <3>1, <3>2, HiddenFromOnline
    <3> QED
      BY <3>3 DEF was
  <2>7. presence[bindings[s].player].status = "online"
    BY <2>4
  <2>8. bindings'[s].player = bindings[s].player
    BY <2>2
  <2>9. presence'[bindings[s].player] =
          [status |-> "hidden", session |-> s, generation |-> bindings[s].generation,
           deadline |-> now + Grace]
    BY <2>5, <2>8
  <2> QED
    BY <2>6, <2>7, <2>8, <2>9
<1>5. ASSUME NEW p \in Players, p \notin ps
      PROVE  presence'[p] = presence[p]
  <2>1. CASE \E s \in DOMAIN bindings : bindings[s].player = p
    <3>1. PICK s \in DOMAIN bindings : bindings[s].player = p
      BY <2>1
    <3>2. s \notin leaving
      BY <1>5, <3>1
    <3>3. s \in DOMAIN bindings' /\ bindings'[s] = bindings[s]
      BY <1>2, <3>2
    <3>4. presence[p] = Shown(s)
      BY <1>1, <3>1 DEF PresenceShape
    <3>5. presence'[p] = Shown(s)'
      BY <3>1, <3>3 DEF PresenceShape
    <3> QED
      BY <3>3, <3>4, <3>5 DEF Shown
  <2>2. CASE \A s \in DOMAIN bindings : bindings[s].player # p
    <3>1. \A s \in DOMAIN bindings' : bindings'[s].player # p
      <4> SUFFICES ASSUME NEW s \in DOMAIN bindings PROVE bindings'[s].player # p
        BY <1>2
      <4>1. CASE s \in leaving
        BY <1>4, <2>2, <4>1
      <4>2. CASE s \notin leaving
        BY <1>2, <2>2, <4>2
      <4> QED
        BY <4>1, <4>2
    <3>2. presence[p] = Presence!Absent /\ presence'[p] = Presence!Absent
      BY <1>1, <2>2, <3>1 DEF PresenceShape, Presence!Absent
    <3> QED
      BY <3>2
  <2> QED
    BY <2>1, <2>2
<1>6. \A p \in ps : /\ presence[p].status = "online"
                    /\ presence'[p] = [presence[p] EXCEPT !.status = "hidden", !.deadline = now + Grace]
  BY <1>4
<1>7. CASE leaving = {}
  <2>1. \A p \in Players : presence'[p] = presence[p]
    BY <1>5, <1>7
  <2>2. presence = [p \in Players |-> presence[p]]
    BY <1>1 DEF PresenceShape
  <2> QED
    BY <1>1, <2>1, <2>2, SamePresence
<1>8. CASE leaving # {}
  <2>1. ps # {}
    BY <1>8
  <2> HIDE DEF ps
  <2>2. \A p \in Players : presence'[p] = f[p]
    BY <1>5, <1>6
  <2>3. f = [p \in Players |-> f[p]]
    OBVIOUS
  <2>4. presence' = f
    <3> HIDE DEF f
    <3> QED
      BY <1>1, <2>2, <2>3, SamePresence
  <2>5. Presence!Leave(ps)
    BY <1>6, <2>1, <2>4 DEF Presence!Leave
  <2> QED
    BY <1>3, <2>5
<1> QED
  BY <1>7, <1>8

\* A player whose binding a step leaves alone looks the same after it.
LEMMA SameLook ==
  ASSUME PresenceShape, PresenceShape', NEW p \in Players,
         \A s \in DOMAIN bindings :
           bindings[s].player = p => s \in DOMAIN bindings' /\ bindings'[s] = bindings[s],
         \A s \in DOMAIN bindings' :
           bindings'[s].player = p => s \in DOMAIN bindings /\ bindings[s].player = p
  PROVE  presence'[p] = presence[p]
<1>1. CASE \E s \in DOMAIN bindings : bindings[s].player = p
  <2>1. PICK s \in DOMAIN bindings : bindings[s].player = p
    BY <1>1
  <2>2. s \in DOMAIN bindings' /\ bindings'[s] = bindings[s]
    BY <2>1
  <2>3. presence[p] = Shown(s)
    BY <2>1 DEF PresenceShape
  <2>4. presence'[p] = Shown(s)'
    BY <2>1, <2>2 DEF PresenceShape
  <2> QED
    BY <2>2, <2>3, <2>4 DEF Shown
<1>2. CASE \A s \in DOMAIN bindings : bindings[s].player # p
  <2>1. \A s \in DOMAIN bindings' : bindings'[s].player # p
    BY <1>2
  <2> QED
    BY <1>2, <2>1 DEF PresenceShape, Presence!Absent
<1> QED
  BY <1>1, <1>2

\* One player changes, and every other binding is left alone.
LEMMA OnePlayerChanges ==
  ASSUME PresenceShape, PresenceShape', NEW p \in Players, NEW r,
         presence'[p] = r,
         \A s \in DOMAIN bindings :
           bindings[s].player # p => s \in DOMAIN bindings' /\ bindings'[s] = bindings[s],
         \A s \in DOMAIN bindings' :
           bindings'[s].player # p => s \in DOMAIN bindings /\ bindings'[s] = bindings[s]
  PROVE  presence' = [presence EXCEPT ![p] = r]
<1> DEFINE f == [presence EXCEPT ![p] = r]
<1>1. presence = [q \in Players |-> presence[q]]
  BY DEF PresenceShape
<1>2. f = [q \in Players |-> f[q]] /\ f[p] = r /\ \A q \in Players : q # p => f[q] = presence[q]
  <2> DEFINE was == presence
  <2>1. was = [q \in Players |-> was[q]]
    BY <1>1
  <2> HIDE DEF was
  <2>2. /\ [was EXCEPT ![p] = r] = [q \in Players |-> [was EXCEPT ![p] = r][q]]
        /\ [was EXCEPT ![p] = r][p] = r
        /\ \A q \in Players : q # p => [was EXCEPT ![p] = r][q] = was[q]
    BY <2>1
  <2> QED
    BY <2>2 DEF was
<1> HIDE DEF f
<1>3. ASSUME NEW q \in Players, q # p
      PROVE  presence'[q] = presence[q]
  <2>1. \A s \in DOMAIN bindings :
          bindings[s].player = q => s \in DOMAIN bindings' /\ bindings'[s] = bindings[s]
    BY <1>3
  <2>2. \A s \in DOMAIN bindings' :
          bindings'[s].player = q => s \in DOMAIN bindings /\ bindings[s].player = q
    BY <1>3
  <2> QED
    BY <2>1, <2>2, SameLook
<1>4. \A q \in Players : presence'[q] = f[q]
  BY <1>2, <1>3
<1>5. presence' = f
  BY <1>2, <1>4, SamePresence
<1> QED
  BY <1>5 DEF f

\* A hidden player whose deadline has passed is removed: Expire.
LEMMA ExpiresIsExpire ==
  ASSUME Types, Agreement, PresenceShape', NEW s, Expires(s)
  PROVE  \E p \in Players : Presence!Expire(p)
<1>1. /\ PresenceShape
      /\ \A t \in DOMAIN bindings : bindings[t] \in Binding
      /\ \A t, u \in DOMAIN bindings : bindings[t].player = bindings[u].player => t = u
  BY Before
<1>2. s \in DOMAIN bindings /\ ~bindings[s].live /\ now >= bindings[s].deadline
  BY DEF Expires, Due
<1>3. /\ DOMAIN bindings' = DOMAIN bindings \ {s}
      /\ \A t \in DOMAIN bindings' : bindings'[t] = bindings[t]
  BY DEF Expires, Restrict
<1>4. PICK p : p = bindings[s].player
  OBVIOUS
<1>5. p \in Players
  BY <1>1, <1>2, <1>4 DEF Binding
<1>6. presence[p].status = "hidden" /\ presence[p].deadline = bindings[s].deadline
  <2>1. presence[p] = Shown(s)
    BY <1>1, <1>2, <1>4 DEF PresenceShape
  <2> QED
    BY <1>2, <2>1 DEF Shown
<1>7. presence'[p] = Presence!Absent
  <2>1. \A t \in DOMAIN bindings' : bindings'[t].player # p
    BY <1>1, <1>2, <1>3, <1>4
  <2> QED
    BY <1>5, <2>1 DEF PresenceShape, Presence!Absent
<1>8. presence' = [presence EXCEPT ![p] = Presence!Absent]
  <2>1. \A t \in DOMAIN bindings :
          bindings[t].player # p => t \in DOMAIN bindings' /\ bindings'[t] = bindings[t]
    BY <1>3, <1>4
  <2>2. \A t \in DOMAIN bindings' :
          bindings'[t].player # p => t \in DOMAIN bindings /\ bindings'[t] = bindings[t]
    BY <1>3
  <2> QED
    BY <1>1, <1>5, <1>7, <2>1, <2>2, OnePlayerChanges
<1>9. UNCHANGED <<now, nextSession>>
  BY DEF Expires
<1>10. now >= presence[p].deadline
  BY <1>2, <1>6
<1>11. Presence!Expire(p)
  BY <1>6, <1>8, <1>9, <1>10 DEF Presence!Expire
<1> QED
  BY <1>5, <1>11

\* A join commits: the player enters in the next session, or starts over.
LEMMA JoinsIsEnter ==
  ASSUME Types, Agreement, PresenceShape', NEW c \in Conns, NEW p \in Players, Joins(c, p)
  PROVE  Presence!Enter(p)
<1>1. /\ PresenceShape
      /\ \A t \in DOMAIN bindings : bindings[t] \in Binding
      /\ \A t, u \in DOMAIN bindings : bindings[t].player = bindings[u].player => t = u
  BY Before
<1>n. PICK n : n = nextSession
  OBVIOUS
<1>2. /\ n \in Int
      /\ DOMAIN bindings' = (DOMAIN bindings \ BindingsOf(p)) \cup {n}
      /\ bindings'[n].generation = 1 /\ bindings'[n].player = p /\ bindings'[n].live
      /\ \A t \in DOMAIN bindings \ BindingsOf(p) : bindings'[t] = bindings[t]
      /\ \A t \in BindingsOf(p) : t \notin DOMAIN active
  <2>1. JoinedRegistries(c, p)
    BY JoinsRegistries
  <2> QED
    BY <1>n, <2>1, ServerAssumption DEF JoinedRegistries, Sessions
<1>3. UNCHANGED now /\ nextSession' = n + 1
  BY <1>n DEF Joins
<1>4. presence[p].status # "online"
  <2>1. CASE \E t \in DOMAIN bindings : bindings[t].player = p
    <3>1. PICK t \in DOMAIN bindings : bindings[t].player = p
      BY <2>1
    <3>2. ~bindings[t].live
      BY <1>2, <3>1 DEF BindingsOf, Agreement, LiveBindingsAreActive
    <3>3. presence[p] = Shown(t)
      BY <1>1, <3>1 DEF PresenceShape
    <3> QED
      BY <3>2, <3>3 DEF Shown
  <2>2. CASE \A t \in DOMAIN bindings : bindings[t].player # p
    <3>1. presence[p] = Presence!Absent
      BY <1>1, <2>2 DEF PresenceShape
    <3> QED
      BY <3>1 DEF Presence!Absent
  <2> QED
    BY <2>1, <2>2
<1>5. presence'[p] = Presence!Online(n, 1)
  <2>1. presence'[bindings'[n].player] = Shown(n)'
    <3>1. n \in DOMAIN bindings'
      BY <1>2
    <3>2. \A t \in DOMAIN bindings' : presence'[bindings'[t].player] = Shown(t)'
      BY DEF PresenceShape
    <3> QED
      BY <3>1, <3>2 DEF Shown
  <2> QED
    BY <1>2, <2>1 DEF Shown, Presence!Online
<1>6. presence' = [presence EXCEPT ![p] = Presence!Online(n, 1)]
  <2>1. \A t \in DOMAIN bindings :
          bindings[t].player # p => t \in DOMAIN bindings' /\ bindings'[t] = bindings[t]
    BY <1>2 DEF BindingsOf
  <2>2. \A t \in DOMAIN bindings' :
          bindings'[t].player # p => t \in DOMAIN bindings /\ bindings'[t] = bindings[t]
    BY <1>2
  <2> QED
    BY <1>1, <1>5, <2>1, <2>2, OnePlayerChanges
<1>7. n = (nextSession - 1) + 1 /\ nextSession' - 1 = (nextSession - 1) + 1
  BY <1>n, <1>2, <1>3
<1> QED
  BY <1>3, <1>4, <1>6, <1>7 DEF Presence!Enter

\* A resume commits: the same session, within the grace, one generation on.
LEMMA ResumesIsResume ==
  ASSUME Types, Agreement, PresenceShape', NEW c \in Conns, NEW s, NEW g, Resumes(c, s, g)
  PROVE  \E p \in Players : Presence!Resume(p)
<1>1. /\ PresenceShape
      /\ \A t \in DOMAIN bindings : bindings[t] \in Binding
      /\ \A t, u \in DOMAIN bindings : bindings[t].player = bindings[u].player => t = u
  BY Before
<1>2. /\ s \in DOMAIN bindings /\ ~bindings[s].live /\ now < bindings[s].deadline
      /\ bindings[s].generation < MaxGeneration
      /\ g = bindings[s].generation + 1
      /\ UNCHANGED <<now, nextSession>>
  BY DEF Resumes
<1>3. /\ DOMAIN bindings' = DOMAIN bindings
      /\ bindings'[s].player = bindings[s].player
      /\ bindings'[s].generation = g /\ bindings'[s].live
      /\ \A t \in DOMAIN bindings : t # s => bindings'[t] = bindings[t]
  <2>1. ResumedRegistries(c, s, g)
    BY ResumesRegistries
  <2> QED
    BY <2>1 DEF ResumedRegistries
<1>4. PICK p : p = bindings[s].player
  OBVIOUS
<1>5. p \in Players
  BY <1>1, <1>2, <1>4 DEF Binding
<1>6. /\ presence[p].status = "hidden" /\ presence[p].session = s
      /\ presence[p].generation = bindings[s].generation
      /\ presence[p].deadline = bindings[s].deadline
  <2>1. presence[p] = Shown(s)
    BY <1>1, <1>2, <1>4 DEF PresenceShape
  <2> QED
    BY <1>2, <2>1 DEF Shown
<1>7. presence'[p] = Presence!Online(s, g)
  <2>1. presence'[bindings'[s].player] = Shown(s)'
    BY <1>2, <1>3 DEF PresenceShape
  <2> QED
    BY <1>3, <1>4, <2>1 DEF Shown, Presence!Online
<1>8. presence' = [presence EXCEPT ![p] = Presence!Online(s, g)]
  <2>1. \A t \in DOMAIN bindings :
          bindings[t].player # p => t \in DOMAIN bindings' /\ bindings'[t] = bindings[t]
    BY <1>3, <1>4
  <2>2. \A t \in DOMAIN bindings' :
          bindings'[t].player # p => t \in DOMAIN bindings /\ bindings'[t] = bindings[t]
    BY <1>3, <1>4
  <2> QED
    BY <1>1, <1>5, <1>7, <2>1, <2>2, OnePlayerChanges
<1>9. presence' = [presence EXCEPT ![p] =
                     Presence!Online(presence[p].session, presence[p].generation + 1)]
  BY <1>2, <1>6, <1>8
<1>10. now < presence[p].deadline /\ presence[p].generation < MaxGeneration
  BY <1>2, <1>6
<1>11. Presence!Resume(p)
  BY <1>2, <1>6, <1>9, <1>10 DEF Presence!Resume
<1> QED
  BY <1>5, <1>11

\* A quiet step shows nothing.
LEMMA QuietShowsNothing ==
  ASSUME Types, Agreement, PresenceShape', Quiet
  PROVE  UNCHANGED presence /\ UNCHANGED nextSession
<1>1. PresenceShape
  BY Before
<1>2. UNCHANGED <<bindings, nextSession>>
  BY DEF Quiet
<1>3. \A p \in Players : presence'[p] = presence[p]
  <2> SUFFICES ASSUME NEW p \in Players PROVE presence'[p] = presence[p]
    OBVIOUS
  <2>1. \A s \in DOMAIN bindings :
          bindings[s].player = p => s \in DOMAIN bindings' /\ bindings'[s] = bindings[s]
    BY <1>2
  <2>2. \A s \in DOMAIN bindings' :
          bindings'[s].player = p => s \in DOMAIN bindings /\ bindings[s].player = p
    BY <1>2
  <2> QED
    BY <1>1, <2>1, <2>2, SameLook
<1>4. presence = [p \in Players |-> presence[p]]
  BY <1>1 DEF PresenceShape
<1> QED
  BY <1>1, <1>2, <1>3, <1>4, SamePresence

\* Every step of the server is a step of PlayerPresence, or shows nothing.
LEMMA PresenceSteps ==
  ASSUME IInv, [Next]_vars, ~exhausted, ~exhausted', PresenceShape'
  PROVE  [Presence!Next]_(Presence!presenceVars)
<1>1. Types /\ Agreement
  BY DEF IInv, Core
<1>2. Moves /\ (Tick \/ UNCHANGED now) /\ (Tick => Quiet)
  BY NextHolds
<1>3. CASE Tick
  <2>1. UNCHANGED presence /\ UNCHANGED nextSession
    BY <1>1, <1>2, <1>3, QuietShowsNothing
  <2>2. Presence!Tick
    BY <1>3, <2>1 DEF Tick, Presence!Tick
  <2> QED
    BY <2>2 DEF Presence!Next
<1>4. CASE UNCHANGED now
  <2>1. CASE Quiet
    <3>1. UNCHANGED presence /\ UNCHANGED nextSession
      BY <1>1, <2>1, QuietShowsNothing
    <3> QED
      BY <1>4, <3>1 DEF Presence!presenceVars
  <2>2. ASSUME NEW leaving, Hides(leaving), UNCHANGED joins
        PROVE  [Presence!Next]_(Presence!presenceVars)
    <3>1. UNCHANGED <<now, nextSession>>
      BY <1>4, <2>2 DEF joins
    <3>2. (\E ps \in SUBSET Players : Presence!Leave(ps)) \/ UNCHANGED presence
      BY <1>1, <2>2, <3>1, HidesIsLeave
    <3> QED
      BY <3>1, <3>2 DEF Presence!Next, Presence!presenceVars
  <2>3. CASE Expires(NextExpiration)
    <3>1. \E p \in Players : Presence!Expire(p)
      BY <1>1, <2>3, ExpiresIsExpire
    <3> QED
      BY <3>1 DEF Presence!Next
  <2>4. ASSUME NEW c \in Conns, NEW p \in Players, Joins(c, p)
        PROVE  Presence!Next
    <3>1. Presence!Enter(p)
      BY <1>1, <2>4, JoinsIsEnter
    <3> QED
      BY <3>1 DEF Presence!Next
  <2>5. ASSUME NEW c \in Conns, NEW s, NEW g, Resumes(c, s, g)
        PROVE  Presence!Next
    <3>1. \E p \in Players : Presence!Resume(p)
      BY <1>1, <2>5, ResumesIsResume
    <3> QED
      BY <3>1 DEF Presence!Next
  <2> QED
    BY <1>2, <2>1, <2>2, <2>3, <2>4, <2>5 DEF Moves
<1> QED
  BY <1>2, <1>3, <1>4

LEMMA PresenceStarts ==
  ASSUME Init, PresenceShape
  PROVE  Presence!Init
<1>1. now = 0 /\ nextSession = 1 /\ DOMAIN bindings = {}
  BY DEF Init
<1>2. \A p \in Players : presence[p] = Presence!Absent
  BY <1>1 DEF PresenceShape
<1>3. presence = [p \in Players |-> presence[p]]
  BY DEF PresenceShape
<1>4. presence = [p \in Players |-> Presence!Absent]
  BY <1>2, <1>3
<1> QED
  BY <1>1, <1>4 DEF Presence!Init

\* The server implements PlayerPresence.tla for as long as there are session
\* ids to give out: a session is resumed only before its deadline and one
\* generation further, a player is removed only at or after it, no session id
\* is given out twice, and whatever else a handler does shows nothing of it.
THEOREM PresenceImplemented == Spec /\ []~exhausted => ImplementsPresence
<1>1. IInv /\ ~exhausted => PresenceShape
  BY PresenceShaped DEF IInv, Core
<1>2. Init /\ PresenceShape => Presence!Init
  BY PresenceStarts
<1>3. IInv /\ [Next]_vars /\ ~exhausted /\ ~exhausted' /\ PresenceShape'
        => [Presence!Next]_(Presence!presenceVars)
  BY PresenceSteps
<1> QED
  BY <1>1, <1>2, <1>3, Invariance, PTL DEF Spec, ImplementsPresence, Presence!Spec

-----------------------------------------------------------------------------
(* Without faults of the host the process goes on. *)

\* disconnectConnections() is accepted for any connections: their sessions are
\* active, live in the lifecycle, and have no other connection.
LEMMA DisconnectGoesThrough ==
  ASSUME Types, Agreement, Owning, NEW cs, NEW fault, fault \notin {"persist", "durability"},
         Horizon <= MaxInstant - Grace
  PROVE  DisconnectAccepted(cs, fault)
<1>1. now <= MaxInstant - Grace
  BY DEF Types, PumpTypes, Grace
<1>2. ASSUME NEW s \in SessionsOf(cs \cap Present)
      PROVE  /\ s \in DOMAIN bindings /\ bindings[s].live
             /\ s \in DOMAIN active
             /\ Cardinality(Owners(s) \cap cs) = 1
             /\ bindings[s].player \in players
  <2>1. PICK c \in cs \cap Present : conn[c].session = s /\ s # 0
    BY DEF SessionsOf
  <2>2. Owners(s) = {c} /\ s \in DOMAIN active
    BY <2>1 DEF Owning, OwnersAreActive
  <2>3. Owners(s) \cap cs = {c}
    BY <2>1, <2>2
  <2>4. Cardinality({c}) = 1
    BY FS_Singleton, Zenon
  <2>5. s \in DOMAIN bindings /\ bindings[s].live
    BY <2>2 DEF Agreement, LiveBindingsAreActive
  <2>6. bindings[s].player \in players
    BY <2>5 DEF Agreement, PlayersAreBound
  <2> QED
    BY <2>2, <2>3, <2>4, <2>5, <2>6
<1> QED
  BY <1>1, <1>2, Zenon DEF DisconnectAccepted

\* connectionForSession() finds somebody for every active session.
LEMMA EverybodyIsReached ==
  ASSUME Types, Owning, discarded = {}
  PROVE  /\ Routable(DOMAIN active)
         /\ \A after : Routable(Observers(after))
<1>1. ASSUME NEW s \in DOMAIN active PROVE Owners(s) # {}
  <2>1. PICK c \in Conns : conn[c].state = "Established" /\ conn[c].session = s
    BY DEF Owning, OrphansWereDiscarded, HasOwner
  <2>2. c \in Owners(s)
    BY <2>1 DEF Owners, Present
  <2> QED
    BY <2>2
<1> QED
  BY <1>1 DEF Routable, Observers

\* expireSessions() is accepted for a session that is due.
LEMMA ExpirationGoesThrough ==
  ASSUME Types, Agreement, Owning, discarded = {}, NEW s \in Due, NEW fault,
         fault \notin {"queue", "durability"}
  PROVE  ExpirationAccepted(s, fault)
<1>1. s \in DOMAIN bindings /\ ~bindings[s].live
  BY DEF Due
<1>2. bindings[s].player \in players
  BY <1>1 DEF Agreement, PlayersAreBound
<1>3. bindings[s].player \notin ActivePlayers
  <2> SUFFICES ASSUME NEW t \in DOMAIN active, active[t].player = bindings[s].player
               PROVE  FALSE
    BY DEF ActivePlayers
  <2>1. t \in DOMAIN bindings /\ bindings[t].live /\ bindings[t].player = bindings[s].player
    BY DEF Agreement, LiveBindingsAreActive
  <2>2. t = s
    BY <1>1, <2>1 DEF Agreement, PlayersAreBound
  <2> QED
    BY <1>1, <2>1, <2>2
<1>4. bindings[s].principal \in DOMAIN principals
  BY <1>1 DEF Agreement, PrincipalsMatchBindings
<1> QED
  BY <1>2, <1>3, <1>4, EverybodyIsReached DEF ExpirationAccepted

\* The faults that neither end the process nor leave a session behind.
Harmless == {"token", "identity"}

\* Nobody is discarded, and no handler returns false.
LEMMA UndisturbedStep ==
  ASSUME IInv, ~exhausted, discarded = {}, running, [Next]_vars,
         Faults \subseteq Harmless, Horizon <= MaxInstant - Grace
  PROVE  discarded' = {} /\ running'
<1>1. Types /\ Agreement /\ Owning
  BY DEF IInv, Core
<1>2. ASSUME NEW fault \in Outcomes
      PROVE  fault \notin {"persist", "durability", "queue"}
  BY DEF Outcomes, Harmless
<1>3. ASSUME NEW cs, NEW also, NEW fault \in Outcomes, disconnectConnections(cs, also, fault)
      PROVE  running'
  <2>1. DisconnectAccepted(cs, fault)
    BY <1>1, <1>2, DisconnectGoesThrough
  <2>2. UNCHANGED running
    BY <1>3, <2>1, Zenon DEF disconnectConnections
  <2> QED
    BY <2>2
<1>4. ASSUME NEW fault \in Outcomes, ExpireSession(fault)
      PROVE  discarded' = {} /\ running'
  <2>1. NextExpiration \in Due
    BY <1>1, <1>4, NextExpirationIsDue DEF ExpireSession
  <2>2. ExpirationAccepted(NextExpiration, fault)
    BY <1>1, <1>2, <2>1, ExpirationGoesThrough
  <2>3. UNCHANGED running /\ UNCHANGED history
    BY <1>4, <2>2, Zenon DEF ExpireSession
  <2> QED
    BY <2>3 DEF history
<1>5. ASSUME NEW changed \in BOOLEAN, NEW fault \in Outcomes, CommitTick(changed, fault)
      PROVE  discarded' = {} /\ running'
  <2>1. ~TickFails(changed, fault)
    BY <1>1, <1>2, EverybodyIsReached DEF TickFails
  <2>2. running' = ~TickFails(changed, fault)
    BY <1>5, Zenon DEF CommitTick
  <2>3. running'
    BY <2>1, <2>2, Zenon
  <2> QED
    BY <1>5, <2>3 DEF CommitTick, history
<1>6. ASSUME NEW c \in Conns, NEW p \in Players, NEW fault \in Outcomes, Join(c, p, fault)
      PROVE  discarded' = {} /\ running'
  <2>1. UNCHANGED running /\ (UNCHANGED discarded \/ UNCHANGED history)
    BY <1>6, Zenon DEF Join
  <2> QED
    BY <2>1 DEF history
<1>7. ASSUME NEW c \in Conns, NEW token \in handed, NEW fault \in Outcomes, Resume(c, token, fault)
      PROVE  discarded' = {} /\ running'
  <2>1. UNCHANGED running /\ (UNCHANGED <<todo, discarded, restored>> \/ UNCHANGED history)
    BY <1>7, Zenon DEF Resume
  <2> QED
    BY <2>1 DEF history
<1>8. ASSUME NEW c \in Conns, ReceiveFails(c) \/ ResyncFails(c)
      PROVE  FALSE
  BY <1>8 DEF ReceiveFails, ResyncFails, Harmless
<1>9. ASSUME NEW cs \in SUBSET Present, NEW fault \in Outcomes, ConnectionsClosed(cs, fault)
      PROVE  discarded' = {} /\ running'
  BY <1>3, <1>9 DEF ConnectionsClosed, history
<1>10. ASSUME NEW c \in Conns, NEW fault \in Outcomes, ProtocolRejected(c, fault)
       PROVE  discarded' = {} /\ running'
  BY <1>3, <1>10 DEF ProtocolRejected, history
<1>11. ASSUME NEW failed \in SUBSET Present, NEW drained \in SUBSET Rejected, NEW fault \in Outcomes,
              Send(failed, drained, fault)
       PROVE  discarded' = {} /\ running'
  BY <1>3, <1>11 DEF Send, history
<1>12. ASSUME Pump PROVE discarded' = {} /\ running'
  <2>1. CASE \/ \E late \in SUBSET Handshaking : CheckTimeouts(late)
             \/ ExpirationsDone
             \/ \E c \in Conns : ReceiveDone(c)
             \/ \E c \in Conns, accepted \in BOOLEAN, fault \in Outcomes :
                  ClientHello(c, accepted, fault)
             \/ \E c \in Conns, fault \in Outcomes : AuthenticationDenied(c, fault)
             \/ ReceiveFinished
    BY <2>1 DEF CheckTimeouts, ExpirationsDone, ReceiveDone, ClientHello, AuthenticationDenied,
                ReceiveFinished, history
  <2> QED
    BY <1>4, <1>5, <1>6, <1>7, <1>8, <1>9, <1>10, <1>11, <1>12, <2>1 DEF Pump
<1>13. CASE (\E c \in Conns : AcceptConnection(c)) \/ Tick \/ UNCHANGED vars
  BY <1>13 DEF AcceptConnection, Tick, vars, history
<1> QED
  BY <1>12, <1>13 DEF Next

\* Nothing that a client sends, replays or drops ends the process: while the
\* host works (only the random source and the identity registry may refuse),
\* the clock is not about to overflow and there are session ids, every handler
\* of the pump is accepted.
THEOREM NothingEndsTheProcess ==
  ASSUME Faults \subseteq Harmless, Horizon <= MaxInstant - Grace
  PROVE  Spec => [](~exhausted => ServerStaysUp)
<1> DEFINE Up == ~exhausted => discarded = {} /\ running
<1>1. Init => Up
  BY DEF Init
<1>2. IInv /\ Up /\ [Next]_vars => Up'
  <2> SUFFICES ASSUME IInv, Up, [Next]_vars, ~exhausted' PROVE discarded' = {} /\ running'
    OBVIOUS
  <2>1. ~exhausted
    BY NextHolds
  <2> QED
    BY <2>1, UndisturbedStep
<1>3. Up => (~exhausted => ServerStaysUp)
  BY DEF ServerStaysUp
<1> QED
  BY <1>1, <1>2, <1>3, Invariance, PTL DEF Spec

-----------------------------------------------------------------------------
(* Without faults of the host every live token is renewed. *)

\* There is one record for a session, made before the next session and renewed
\* at the latest now; its token was drawn for a connection that authenticated,
\* and while that one is established it is in the session of the record.
OneRecordEach ==
  /\ \A i, j \in Occupied(store) : store.records[i].session = store.records[j].session => i = j
  /\ \A slot \in Occupied(store) :
       LET r == store.records[slot]
       IN  /\ r.session < nextSession
           /\ r.expiresAt <= now + Lifetime
           /\ conn[r.digest].state \notin Early
           /\ conn[r.digest].state = "Established" =>
                conn[r.digest].session = r.session /\ conn[r.digest].generation = r.generation

\* No connection becomes established or new.
ConnsFade ==
  \A d \in Conns :
    \/ conn'[d] = conn[d]
    \/ /\ conn'[d].state # "Established"
       /\ conn'[d].state \in Early => conn[d].state \in Early

LEMMA OneRecordKept ==
  ASSUME Types, OneRecordEach, TokensKept, TokensRenewed, ConnsFade,
         nextSession' = nextSession, now' \in Int, now <= now'
  PROVE  OneRecordEach'
<1>1. \A slot \in Occupied(store) : store.records[slot] \in Record
  BY DEF Types, StoreTypes, IsStoreOf, IsPartial, Occupied
<1>2. now \in Int
  BY DEF Types, PumpTypes
<1>3. \A i, j \in Occupied(store') : store'.records[i].session = store'.records[j].session => i = j
  BY DEF OneRecordEach, TokensKept
<1>4. ASSUME NEW slot \in Occupied(store')
      PROVE  /\ store'.records[slot].session < nextSession'
             /\ store'.records[slot].expiresAt <= now' + Lifetime
             /\ conn'[store'.records[slot].digest].state \notin Early
             /\ conn'[store'.records[slot].digest].state = "Established" =>
                  /\ conn'[store'.records[slot].digest].session = store'.records[slot].session
                  /\ conn'[store'.records[slot].digest].generation = store'.records[slot].generation
  <2>1. /\ slot \in Occupied(store)
        /\ store'.records[slot].session = store.records[slot].session
        /\ store'.records[slot].generation = store.records[slot].generation
        /\ store'.records[slot].digest = store.records[slot].digest
        /\ \/ store'.records[slot].expiresAt = store.records[slot].expiresAt
           \/ store'.records[slot].expiresAt = now + Lifetime
    BY DEF TokensKept, TokensRenewed
  <2>2. PICK d \in Conns : d = store.records[slot].digest
    BY <1>1, <2>1 DEF Record, RecordOf, Conns
  <2>3. /\ store.records[slot].session < nextSession
        /\ store.records[slot].expiresAt <= now + Lifetime
        /\ conn[d].state \notin Early
        /\ conn[d].state = "Established" =>
             conn[d].session = store.records[slot].session
             /\ conn[d].generation = store.records[slot].generation
    BY <2>1, <2>2 DEF OneRecordEach
  <2>4. store.records[slot].expiresAt \in Int
    BY <1>1, <2>1 DEF Record, RecordOf, Instants
  <2>5. store'.records[slot].expiresAt <= now' + Lifetime
    BY <1>2, <2>1, <2>3, <2>4
  <2>6. conn'[d] = conn[d] \/ (conn'[d].state # "Established"
                               /\ (conn'[d].state \in Early => conn[d].state \in Early))
    BY DEF ConnsFade
  <2> QED
    BY <2>1, <2>2, <2>3, <2>5, <2>6
<1> QED
  BY <1>3, <1>4 DEF OneRecordEach

\* A connection takes a session, with a record r of its own in the slot.
TakesWithRecord(c, s, g, slot, r) ==
  /\ conn[c].state \in Early
  /\ conn' = [conn EXCEPT ![c] = [state |-> "Established", session |-> s, generation |-> g]]
  /\ AddsRecord(store', store, slot, r)
  /\ r.digest = c /\ r.session = s /\ r.generation = g /\ r.expiresAt = now + Lifetime
  /\ \A other \in Occupied(store) : other # slot => store.records[other].session # s
  /\ s \in Int /\ s < nextSession' /\ nextSession' \in Int /\ nextSession <= nextSession'
  /\ UNCHANGED now

LEMMA OneRecordTaken ==
  ASSUME Types, OneRecordEach, NEW c \in Conns, NEW s, NEW g, NEW slot, NEW r,
         TakesWithRecord(c, s, g, slot, r)
  PROVE  OneRecordEach'
<1> USE DEF TakesWithRecord
<1>1. \A i \in Occupied(store) : store.records[i] \in Record
  BY DEF Types, StoreTypes, IsStoreOf, IsPartial, Occupied
<1>2. now \in Int /\ nextSession \in Int /\ DOMAIN conn = Conns
  BY DEF Types, PumpTypes, RegistryTypes, Sessions
<1>3. /\ conn'[c].state = "Established" /\ conn'[c].session = s /\ conn'[c].generation = g
      /\ \A d \in Conns : d # c => conn'[d] = conn[d]
  BY <1>2
<1>4. /\ store'.records[slot] = r
      /\ \A i \in Occupied(store') :
           i # slot => i \in Occupied(store) /\ store'.records[i] = store.records[i]
  BY DEF AddsRecord
<1>5. \A i, j \in Occupied(store') : store'.records[i].session = store'.records[j].session => i = j
  BY <1>4 DEF OneRecordEach
<1>6. ASSUME NEW i \in Occupied(store')
      PROVE  /\ store'.records[i].session < nextSession'
             /\ store'.records[i].expiresAt <= now' + Lifetime
             /\ conn'[store'.records[i].digest].state \notin Early
             /\ conn'[store'.records[i].digest].state = "Established" =>
                  /\ conn'[store'.records[i].digest].session = store'.records[i].session
                  /\ conn'[store'.records[i].digest].generation = store'.records[i].generation
  <2>1. CASE i = slot
    BY <1>2, <1>3, <1>4, <2>1 DEF Early
  <2>2. CASE i # slot
    <3>1. i \in Occupied(store) /\ store'.records[i] = store.records[i]
      BY <1>4, <2>2
    <3>2. PICK d \in Conns : d = store.records[i].digest
      BY <1>1, <3>1 DEF Record, RecordOf, Conns
    <3>3. /\ store.records[i].session < nextSession
          /\ store.records[i].expiresAt <= now + Lifetime
          /\ conn[d].state \notin Early
          /\ conn[d].state = "Established" =>
               /\ conn[d].session = store.records[i].session
               /\ conn[d].generation = store.records[i].generation
      BY <3>1, <3>2 DEF OneRecordEach
    <3>4. conn'[d] = conn[d]
      BY <1>3, <3>3
    <3>5. store.records[i].session < nextSession'
      <4>1. store.records[i].session \in Int
        BY <1>1, <3>1 DEF Record, RecordOf, Sessions
      <4> QED
        BY <1>2, <3>3, <4>1
    <3> QED
      BY <3>1, <3>2, <3>3, <3>4, <3>5
  <2> QED
    BY <2>1, <2>2
<1> QED
  BY <1>5, <1>6 DEF OneRecordEach

\* A quiet step that leaves the store alone, or only erases and renews.
LEMMA QuietOneRecord ==
  ASSUME Types, OneRecordEach, Quiet, now' \in Int, now <= now',
         UNCHANGED store \/ (TokensKept /\ TokensRenewed)
  PROVE  OneRecordEach'
<1>1. ConnsFade /\ nextSession' = nextSession
  BY DEF Quiet, ConnsFade
<1>2. TokensKept /\ TokensRenewed
  BY DEF TokensKept, TokensRenewed
<1> QED
  BY <1>1, <1>2, OneRecordKept

\* Lost and rejected connections go; their tokens stay.
LEMMA DisconnectOneRecord ==
  ASSUME Types, OneRecordEach, NEW cs, NEW also, NEW fault, disconnectConnections(cs, also, fault),
         UNCHANGED <<now, joins, store>>
  PROVE  OneRecordEach'
<1>1. conn' = conn \/ \E gone : conn' = Closed(gone)
  BY Zenon DEF disconnectConnections
<1>2. PumpTypes
  BY DEF Types
<1>3. ConnsFade
  <2>1. CASE conn' = conn
    BY <2>1 DEF ConnsFade
  <2>2. ASSUME NEW gone, conn' = Closed(gone) PROVE ConnsFade
    BY <1>2, <2>2, ClosedConns DEF ConnsFade, Early
  <2> QED
    BY <1>1, <2>1, <2>2
<1>4. nextSession' = nextSession
  BY DEF joins
<1>5. now' \in Int /\ now <= now'
  BY <1>2 DEF PumpTypes
<1>6. TokensKept /\ TokensRenewed
  BY DEF TokensKept, TokensRenewed
<1> QED
  BY <1>3, <1>4, <1>5, <1>6, OneRecordKept

\* A join commits with its token, or leaves no token.
LEMMA JoinOneRecord ==
  ASSUME IInv, ~exhausted, ~exhausted', discarded = {}, OneRecordEach,
         NEW c \in Conns, NEW p \in Players, NEW fault, fault \notin {"queue", "durability"},
         Join(c, p, fault)
  PROVE  OneRecordEach'
<1> DEFINE token  == IF fault = "token" THEN NoToken ELSE c
           issued == Issue(store, c, nextSession, 1, Context, now, token)
<1>1. Types /\ Agreement /\ Owning /\ PumpTypes
  BY DEF IInv, Core, Types
<1>2. /\ conn[c].state = "AwaitingAuthenticationInput"
      /\ UNCHANGED <<now, running, phase>>
  BY DEF Join, Receiving
<1>3. IsStoreOf(store, Record) /\ now \in Instants /\ nextSession \in Sessions
  BY <1>1 DEF Types, StoreTypes, PumpTypes, RegistryTypes, Instants
<1>4. now' \in Int /\ now <= now'
  BY <1>1, <1>2 DEF PumpTypes
<1>5. JoinCommits(p, fault)
  BY <1>1, EverybodyIsReached DEF JoinCommits
<1>6. ASSUME failConnection(c) PROVE ConnsFade
  BY <1>1, <1>6, ClosedConns DEF failConnection, ConnsFade, Early
<1>7. CASE ~JoinAccepted(c, p, fault)
  <2>1. failConnection(c) /\ UNCHANGED <<canonical, joins, bindings, store, history>>
    BY <1>7, Zenon DEF Join
  <2>2. nextSession' = nextSession /\ UNCHANGED store
    BY <2>1 DEF joins
  <2>3. TokensKept /\ TokensRenewed
    BY <2>2 DEF TokensKept, TokensRenewed
  <2> QED
    BY <1>1, <1>4, <1>6, <2>1, <2>2, <2>3, OneRecordKept
<1>8. CASE JoinAccepted(c, p, fault) /\ ~IssueAccepted(store, now, token)
  <2>1. failConnection(c) /\ store' = issued /\ UNCHANGED <<canonical, joins, bindings, history>>
    BY <1>8, Zenon DEF Join
  <2>2. nextSession' = nextSession
    BY <2>1 DEF joins
  <2> HIDE DEF token
  <2>3. KeepsRecords(store', store)
    BY <1>3, <1>8, <2>1, RefusedIssueRecords
  <2> QED
    BY <1>1, <1>4, <1>6, <2>1, <2>2, <2>3, KeptRecordsAreTokens, OneRecordKept
<1>9. CASE JoinAccepted(c, p, fault) /\ IssueAccepted(store, now, token)
  <2>1. /\ store' = issued
        /\ nextSession' = NextSession
        /\ exhausted' = (exhausted \/ nextSession = MaxSession)
        /\ IF RegisterAccepted(c, p, nextSession)
           THEN /\ bindings' = Registered(c, p, nextSession)
                /\ conn' = [conn EXCEPT ![c] = [state |-> "Established",
                                                session |-> nextSession, generation |-> 1]]
                /\ owned' = owned \cup {[session |-> nextSession, generation |-> 1, by |-> c]}
                /\ UNCHANGED todo
           ELSE /\ failConnection(c)
                /\ UNCHANGED <<bindings, owned>>
    BY <1>5, <1>9, Zenon DEF Join
  <2>2. RegisterAccepted(c, p, nextSession)
    BY <1>1, <1>9, RegisterNeverRefuses
  <2>3. conn' = [conn EXCEPT ![c] = [state |-> "Established",
                                     session |-> nextSession, generation |-> 1]]
    BY <2>1, <2>2
  <2>4. nextSession' = nextSession + 1
    BY <2>1 DEF NextSession
  <2>5. token = c
    BY <1>9 DEF IssueAccepted
  <2> HIDE DEF token
  <2> DEFINE r == [ digest |-> token, principal |-> c, session |-> nextSession,
                    generation |-> 1, context |-> Context, expiresAt |-> ExpiryFrom(now) ]
  <2>6. \E slot : AddsRecord(store', store, slot, r)
    BY <1>3, <1>9, <2>1, AcceptedIssueRecords
  <2>7. r.digest = c /\ r.session = nextSession /\ r.generation = 1 /\ r.expiresAt = now + Lifetime
    BY <2>5 DEF ExpiryFrom
  <2> HIDE DEF r
  <2>8. PICK slot : AddsRecord(store', store, slot, r)
    BY <2>6
  <2>9. PICK n \in Int : n = nextSession
    BY <1>3 DEF Sessions
  <2>10. \A other \in Occupied(store) : store.records[other].session # n
    <3>1. \A other \in Occupied(store) :
            store.records[other].session \in Int /\ store.records[other].session < n
      BY <1>3, <2>9 DEF OneRecordEach, IsStoreOf, IsPartial, Occupied, Record, RecordOf, Sessions
    <3> QED
      BY <3>1, <2>9
  <2>11. n < nextSession' /\ nextSession' \in Int /\ nextSession <= nextSession'
    BY <2>4, <2>9
  <2>12. conn[c].state \in Early
    BY <1>2 DEF Early
  <2>13. /\ conn' = [conn EXCEPT ![c] = [state |-> "Established", session |-> n, generation |-> 1]]
         /\ r.session = n /\ UNCHANGED now
    BY <1>2, <2>3, <2>7, <2>9
  <2>14. TakesWithRecord(c, n, 1, slot, r)
    BY <2>7, <2>8, <2>9, <2>10, <2>11, <2>12, <2>13 DEF TakesWithRecord
  <2> QED
    BY <1>1, <2>14, OneRecordTaken
<1> QED
  BY <1>7, <1>8, <1>9

\* A resume rotates the record of its session, or leaves the records alone.
LEMMA ResumeOneRecord ==
  ASSUME IInv, ~exhausted, OneRecordEach, NEW c \in Conns, NEW token, NEW fault,
         Resume(c, token, fault)
  PROVE  OneRecordEach'
<1> DEFINE replacement == IF fault = "token" THEN NoToken ELSE c
           prepared    == PrepareConsume(store, token, Context, now, replacement)
           id          == store.nextId
           grant       == prepared.pending[id].replacement
           accepted    == PrepareAccepted(store, token, Context, now, replacement)
<1>1. replacement \in Tokens \cup {NoToken}
  BY DEF Conns
<1>2. conn[c].state = "AwaitingAuthenticationInput" /\ UNCHANGED <<now, joins>>
  BY DEF Resume, Receiving
<1>3. Types /\ PumpTypes
  BY DEF IInv, Types
<1>4. IsStoreOf(store, Record) /\ now' \in Int /\ now <= now' /\ nextSession' = nextSession
  BY <1>2, <1>3 DEF Types, StoreTypes, PumpTypes, joins
<1>5. \/ /\ ~accepted
         /\ store' = prepared
         /\ failConnection(c) \/ conn' = [conn EXCEPT ![c].state = "Rejected"]
      \/ /\ accepted
         /\ failConnection(c)
         /\ store' = GiveUp(prepared, id) \/ store' = TakeBack(prepared, id)
      \/ /\ accepted
         /\ ResumeAccepted(grant)
         /\ store' = FinalizeConsume(CommitConsume(prepared, id), id)
         /\ conn' = [conn EXCEPT ![c] = [state |-> "Established", session |-> grant.session,
                                         generation |-> grant.generation]]
  BY Zenon DEF Resume
<1>6. ASSUME failConnection(c) PROVE ConnsFade
  BY <1>3, <1>6, ClosedConns DEF failConnection, ConnsFade, Early
<1>7. ASSUME conn' = [conn EXCEPT ![c].state = "Rejected"] PROVE ConnsFade
  <2>1. conn[c] \in ConnState /\ DOMAIN conn = Conns
    BY <1>3 DEF PumpTypes
  <2>2. conn'[c].state = "Rejected" /\ \A d \in Conns : d # c => conn'[d] = conn[d]
    BY <1>7, <2>1 DEF ConnState
  <2> QED
    BY <2>2 DEF ConnsFade, Early
<1>8. CASE /\ ~accepted
           /\ store' = prepared
           /\ failConnection(c) \/ conn' = [conn EXCEPT ![c].state = "Rejected"]
  <2> HIDE DEF replacement
  <2>1. KeepsRecords(store', store)
    BY <1>4, <1>8, RefusedPrepareRecords
  <2>2. ConnsFade
    BY <1>6, <1>7, <1>8
  <2> QED
    BY <1>3, <1>4, <2>1, <2>2, KeptRecordsAreTokens, OneRecordKept
<1>9. CASE /\ accepted
           /\ failConnection(c)
           /\ store' = GiveUp(prepared, id) \/ store' = TakeBack(prepared, id)
  <2> HIDE DEF replacement
  <2>1. TokensKept /\ TokensRenewed
    BY <1>1, <1>3, <1>9, GivenUp
  <2> QED
    BY <1>3, <1>4, <1>6, <1>9, <2>1, OneRecordKept
<1>10. CASE /\ accepted
            /\ ResumeAccepted(grant)
            /\ store' = FinalizeConsume(CommitConsume(prepared, id), id)
            /\ conn' = [conn EXCEPT ![c] = [state |-> "Established", session |-> grant.session,
                                            generation |-> grant.generation]]
  <2> DEFINE slot == Found(store, token)
  <2>1. replacement = c
    BY <1>10 DEF PrepareAccepted
  <2> HIDE DEF replacement
  <2>2. /\ IsStoreOf(prepared, Record)
        /\ prepared.records = store.records
        /\ prepared.pending[id].slot = slot
        /\ slot \in Occupied(store)
        /\ grant.digest = replacement
        /\ grant.session = store.records[slot].session
        /\ grant.expiresAt = now + Lifetime
    <3>1. PrepareAccepted(store, token, Context, now, replacement)
      BY <1>10
    <3> QED
      BY <1>1, <1>3, <3>1, ResumePrepared
  <2> HIDE DEF prepared, slot, accepted, grant
  <2>3. AddsRecord(store', prepared, prepared.pending[id].slot, prepared.pending[id].replacement)
    BY <1>10, <2>2, FinalizedCommit
  <2>4. AddsRecord(store', store, slot, grant)
    <3>1. AddsRecord(store', prepared, slot, grant)
      BY <2>2, <2>3 DEF grant
    <3> QED
      BY <2>2, <3>1 DEF AddsRecord, Occupied
  <2>5. PICK s, g, r, at : s = grant.session /\ g = grant.generation /\ r = grant /\ at = slot
    OBVIOUS
  <2>6. /\ AddsRecord(store', store, at, r)
        /\ r.digest = c /\ r.session = s /\ r.generation = g /\ r.expiresAt = now + Lifetime
        /\ conn' = [conn EXCEPT ![c] = [state |-> "Established", session |-> s, generation |-> g]]
    BY <1>10, <2>1, <2>2, <2>4, <2>5
  <2>7. s \in Int /\ s < nextSession' /\ nextSession' \in Int /\ nextSession <= nextSession'
    <3>1. at \in Occupied(store) /\ store.records[at].session = s
      BY <2>2, <2>5
    <3>2. s \in Int
      BY <1>4, <3>1 DEF IsStoreOf, IsPartial, Occupied, Record, RecordOf, Sessions
    <3>3. s < nextSession
      BY <3>1 DEF OneRecordEach
    <3>4. nextSession \in Int
      BY <1>3 DEF Types, RegistryTypes, Sessions
    <3> QED
      BY <1>4, <3>2, <3>3, <3>4
  <2>8. \A other \in Occupied(store) : other # at => store.records[other].session # s
    BY <2>2, <2>5 DEF OneRecordEach
  <2>9. conn[c].state \in Early
    BY <1>2 DEF Early
  <2>10. TakesWithRecord(c, s, g, at, r)
    BY <1>2, <2>6, <2>7, <2>8, <2>9 DEF TakesWithRecord
  <2> QED
    BY <1>3, <2>10, OneRecordTaken
<1> QED
  BY <1>5, <1>8, <1>9, <1>10

LEMMA OneRecordStep ==
  ASSUME IInv, ~exhausted, ~exhausted', discarded = {}, OneRecordEach, [Next]_vars,
         Faults \subseteq Harmless
  PROVE  OneRecordEach'
<1>1. Types
  BY DEF IInv
<1>2. ASSUME NEW fault \in Outcomes
      PROVE  fault \notin {"queue", "durability"}
  BY DEF Outcomes, Harmless
<1>3. now \in Int
  BY <1>1 DEF Types, PumpTypes
<1>4. ASSUME Quiet, UNCHANGED <<now, store>> PROVE OneRecordEach'
  BY <1>1, <1>3, <1>4, QuietOneRecord
<1>5. ASSUME NEW late \in SUBSET Handshaking, CheckTimeouts(late) PROVE OneRecordEach'
  <2>1. Quiet /\ TokensKept /\ TokensRenewed /\ UNCHANGED now
    BY <1>1, <1>5, TimeoutsHold, RenewalKeeps DEF CheckTimeouts
  <2> QED
    BY <1>1, <1>3, <2>1, QuietOneRecord
<1>6. ASSUME NEW fault \in Outcomes, ExpireSession(fault) PROVE OneRecordEach'
  <2>1. UNCHANGED <<now, conn, store, nextSession>>
    BY <1>6 DEF ExpireSession
  <2>2. TokensKept /\ TokensRenewed /\ ConnsFade
    BY <2>1 DEF TokensKept, TokensRenewed, ConnsFade
  <2> QED
    BY <1>1, <1>3, <2>1, <2>2, OneRecordKept
<1>7. ASSUME NEW c \in Conns, ReceiveFails(c) \/ ResyncFails(c) PROVE FALSE
  BY <1>7 DEF ReceiveFails, ResyncFails, Harmless
<1>8. ASSUME NEW cs \in SUBSET Present, NEW fault \in Outcomes, ConnectionsClosed(cs, fault)
      PROVE  OneRecordEach'
  BY <1>1, <1>8, DisconnectOneRecord DEF ConnectionsClosed
<1>9. ASSUME NEW c \in Conns, NEW fault \in Outcomes, ProtocolRejected(c, fault)
      PROVE  OneRecordEach'
  BY <1>1, <1>9, DisconnectOneRecord DEF ProtocolRejected
<1>10. ASSUME NEW failed \in SUBSET Present, NEW drained \in SUBSET Rejected, NEW fault \in Outcomes,
              Send(failed, drained, fault)
       PROVE  OneRecordEach'
  BY <1>1, <1>10, DisconnectOneRecord DEF Send
<1>11. ASSUME NEW c \in Conns, NEW accepted \in BOOLEAN, NEW fault \in Outcomes,
              ClientHello(c, accepted, fault)
       PROVE  OneRecordEach'
  BY <1>4, <1>11, ClientHelloHolds DEF ClientHello
<1>12. ASSUME NEW c \in Conns, NEW fault \in Outcomes, AuthenticationDenied(c, fault)
       PROVE  OneRecordEach'
  BY <1>4, <1>12, AuthenticationDeniedHolds DEF AuthenticationDenied
<1>13. ASSUME NEW changed \in BOOLEAN, NEW fault \in Outcomes, CommitTick(changed, fault)
       PROVE  OneRecordEach'
  BY <1>4, <1>13, CommitTickHolds DEF CommitTick
<1>14. ASSUME NEW c \in Conns, ReceiveDone(c) PROVE OneRecordEach'
  BY <1>4, <1>14, ReceiveDoneHolds DEF ReceiveDone
<1>15. CASE ExpirationsDone \/ ReceiveFinished
  BY <1>4, <1>15, ExpirationsDoneHolds, ReceiveFinishedHolds DEF ExpirationsDone, ReceiveFinished
<1>16. ASSUME NEW c \in Conns, AcceptConnection(c) PROVE OneRecordEach'
  BY <1>4, <1>16, AcceptHolds DEF AcceptConnection
<1>17. CASE Tick
  <2>1. Quiet /\ now' \in Int /\ now <= now' /\ UNCHANGED store
    BY <1>3, <1>17, TickHolds DEF Tick
  <2> QED
    BY <1>1, <2>1, QuietOneRecord
<1>18. CASE UNCHANGED vars
  BY <1>4, <1>18, StutterHolds DEF vars
<1>19. ASSUME NEW c \in Conns, NEW p \in Players, NEW fault \in Outcomes, Join(c, p, fault)
       PROVE  OneRecordEach'
  BY <1>2, <1>19, JoinOneRecord
<1>20. ASSUME NEW c \in Conns, NEW token \in handed, NEW fault \in Outcomes, Resume(c, token, fault)
       PROVE  OneRecordEach'
  BY <1>20, ResumeOneRecord
<1>21. ASSUME Pump PROVE OneRecordEach'
  BY <1>5, <1>6, <1>7, <1>8, <1>9, <1>10, <1>11, <1>12, <1>13, <1>14, <1>15, <1>19, <1>20,
     <1>21 DEF Pump
<1> QED
  BY <1>16, <1>17, <1>18, <1>21 DEF Next

\* checkTimeout() of an established connection finds the record of its token
\* and renews it.
LEMMA TimeoutsRenew ==
  ASSUME Types, OneRecordEach, Horizon <= MaxInstant - Grace, NEW late, CheckTimeouts(late),
         NEW c \in Present, NEW slot \in Occupied(store),
         conn[c].state = "Established", store.records[slot].digest = c,
         now < store.records[slot].expiresAt
  PROVE  store'.records[slot].expiresAt = now + Lifetime
<1>1. IsStoreOf(store, Record) /\ NoReservationLeaks /\ now \in 0 .. Horizon
  BY DEF Types, StoreTypes, PumpTypes
<1>2. store.records[slot] \in Record
  BY <1>1 DEF IsStoreOf, IsPartial, Occupied
<1>3. Renews(store, conn[c].session, conn[c].generation, slot, now)
  <2>1. /\ conn[c].session = store.records[slot].session
        /\ conn[c].generation = store.records[slot].generation
        /\ store.records[slot].expiresAt <= now + Lifetime
    BY DEF OneRecordEach
  <2>2. slot \in SlotsFor(store, conn[c].session, conn[c].generation)
    BY <2>1 DEF SlotsFor
  <2>3. \A other \in SlotsFor(store, conn[c].session, conn[c].generation) : other = slot
    BY <2>1 DEF SlotsFor, OneRecordEach
  <2>4. slot \in Int
    BY <1>1 DEF IsStoreOf, IsPartial, Occupied, Slots
  <2>5. ExpiryFits(now)
    BY <1>1 DEF ExpiryFits, Grace
  <2>6. store.committed = {} /\ ~Reserved(store, slot)
    BY <1>1 DEF NoReservationLeaks, Reserved
  <2>7. ExpiryFrom(now) >= store.records[slot].expiresAt
    BY <1>1, <1>2, <2>1 DEF ExpiryFrom, Record, RecordOf, Instants
  <2>8. Renewable(store, slot, now)
    BY <2>5, <2>6, <2>7 DEF Renewable
  <2> QED
    BY <2>2, <2>3, <2>4, <2>8 DEF Renews
<1> DEFINE renewed(at) ==
             IF \E d \in Present : /\ conn[d].state = "Established"
                                   /\ Renews(store, conn[d].session, conn[d].generation, at, now)
             THEN [store.records[at] EXCEPT !.expiresAt = ExpiryFrom(now)]
             ELSE store.records[at]
           records == [at \in DOMAIN store.records |-> renewed(at)]
<1>4. store' = [store EXCEPT !.records = records]
  BY Zenon DEF CheckTimeouts
<1>5. renewed(slot) = [store.records[slot] EXCEPT !.expiresAt = ExpiryFrom(now)]
  BY <1>3
<1>6. records[slot] = renewed(slot)
  BY DEF Occupied
<1> HIDE DEF renewed, records
<1>7. store'.records = records
  BY <1>1, <1>4 DEF IsStoreOf
<1> QED
  BY <1>2, <1>5, <1>6, <1>7 DEF Record, RecordOf, ExpiryFrom

\* Only the timeout check takes the pump from its second phase to its third.
LEMMA TimeoutsComeThere ==
  ASSUME [Next]_vars, phase = "timeouts", phase' = "expire"
  PROVE  \E late \in SUBSET Handshaking : CheckTimeouts(late)
<1>1. ASSUME Pump PROVE \E late \in SUBSET Handshaking : CheckTimeouts(late)
  <2>1. ASSUME NEW cs, NEW fault PROVE ~ConnectionsClosed(cs, fault)
    BY DEF ConnectionsClosed
  <2>2. ASSUME NEW fault PROVE ~ExpireSession(fault)
    BY DEF ExpireSession
  <2>3. ~ExpirationsDone /\ ~ReceiveFinished
    BY DEF ExpirationsDone, ReceiveFinished
  <2>4. ASSUME NEW c PROVE ~ReceiveDone(c) /\ ~ReceiveFails(c) /\ ~ResyncFails(c)
    BY DEF ReceiveDone, ReceiveFails, ResyncFails, Receiving
  <2>5. ASSUME NEW c, NEW accepted, NEW fault PROVE ~ClientHello(c, accepted, fault)
    BY DEF ClientHello, Receiving
  <2>6. ASSUME NEW c, NEW fault PROVE ~AuthenticationDenied(c, fault) /\ ~ProtocolRejected(c, fault)
    BY DEF AuthenticationDenied, ProtocolRejected, Receiving
  <2>7. ASSUME NEW c, NEW p, NEW fault PROVE ~Join(c, p, fault)
    BY DEF Join, Receiving
  <2>8. ASSUME NEW c, NEW token, NEW fault PROVE ~Resume(c, token, fault)
    BY DEF Resume, Receiving
  <2>9. ASSUME NEW changed, NEW fault PROVE ~CommitTick(changed, fault)
    BY DEF CommitTick
  <2>10. ASSUME NEW failed, NEW drained, NEW fault PROVE ~Send(failed, drained, fault)
    BY DEF Send
  <2> QED
    BY <1>1, <2>1, <2>2, <2>3, <2>4, <2>5, <2>6, <2>7, <2>8, <2>9, <2>10 DEF Pump
<1>2. ASSUME NEW c PROVE ~AcceptConnection(c)
  BY DEF AcceptConnection
<1>3. ~Tick /\ ~UNCHANGED vars
  BY DEF Tick, vars
<1> QED
  BY <1>1, <1>2, <1>3 DEF Next

\* While the host works, the timeout check of every pump renews the token of
\* every established connection whose record has not expired: keepAlive, which
\* looks only at the first record of a session, never finds another one.
THEOREM LiveTokensAreRenewed ==
  ASSUME Faults \subseteq Harmless, Horizon <= MaxInstant - Grace
  PROVE  Spec /\ []~exhausted => LiveTokenRenewed
<1> DEFINE Undisturbed == ~exhausted => discarded = {} /\ running /\ OneRecordEach
           Renewal == (phase = "timeouts" /\ phase' = "expire") =>
                        \A c \in Present, slot \in Occupied(store) :
                          /\ conn[c].state = "Established"
                          /\ store.records[slot].digest = c
                          /\ now < store.records[slot].expiresAt
                          => store'.records[slot].expiresAt = now + Lifetime
<1>1. Init => Undisturbed
  BY DEF Init, OneRecordEach, EmptyStore, Occupied
<1>2. IInv /\ Undisturbed /\ [Next]_vars => Undisturbed'
  <2> SUFFICES ASSUME IInv, Undisturbed, [Next]_vars, ~exhausted'
               PROVE  discarded' = {} /\ running' /\ OneRecordEach'
    OBVIOUS
  <2>1. ~exhausted
    BY NextHolds
  <2>2. discarded = {} /\ running /\ OneRecordEach
    BY <2>1
  <2> QED
    BY <2>1, <2>2, UndisturbedStep, OneRecordStep
<1>3. IInv /\ Undisturbed /\ ~exhausted /\ [Next]_vars => Renewal
  <2> SUFFICES ASSUME IInv, Undisturbed, ~exhausted, [Next]_vars,
                      phase = "timeouts", phase' = "expire",
                      NEW c \in Present, NEW slot \in Occupied(store),
                      conn[c].state = "Established", store.records[slot].digest = c,
                      now < store.records[slot].expiresAt
               PROVE  store'.records[slot].expiresAt = now + Lifetime
    OBVIOUS
  <2>1. PICK late \in SUBSET Handshaking : CheckTimeouts(late)
    BY TimeoutsComeThere
  <2>2. Types /\ OneRecordEach
    BY DEF IInv
  <2> QED
    BY <2>1, <2>2, TimeoutsRenew
<1>4. LiveTokenRenewed <=> [][Renewal]_vars
  BY DEF LiveTokenRenewed
<1> HIDE DEF Renewal, Undisturbed
<1> QED
  BY <1>1, <1>2, <1>3, <1>4, Invariance, PTL DEF Spec
=============================================================================
