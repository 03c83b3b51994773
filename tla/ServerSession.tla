---------------------------- MODULE ServerSession ----------------------------
(***************************************************************************)
(* ServerSessionStateMachine                                               *)
(* (components/tes3mp/server_core/server_session.cpp): the handshake of a  *)
(* connection, with a deadline for every stage and an authentication that  *)
(* takes as long as its provider likes, and the resume it may have         *)
(* prepared at the token store.  Several machines share one store.         *)
(*                                                                         *)
(* Every public member function is an action; the owner may call them in   *)
(* any order, and calls that are refused change nothing.  ServerApplication*)
(* has the order in which the server calls them.                           *)
(*                                                                         *)
(* A machine draws one token at most, for the session it is bound to or    *)
(* for the resume it prepares, so the token carries its name.              *)
(***************************************************************************)
EXTENDS ResumeTokens

CONSTANTS
  Machines,                                  \* named by the token they may draw
  NegotiationTime, InputTime, ProviderTime,  \* SessionTimeoutPolicy
  MaxSession,                                \* session ids the owner gives out
  Horizon                                    \* bound on the clock, for TLC

ASSUME SessionAssumption ==
  /\ Machines \subseteq Tokens
  /\ {NegotiationTime, InputTime, ProviderTime} \subseteq Nat \ {0}
  /\ MaxSession \in Nat \ {0}
  /\ Horizon \in Nat /\ Horizon <= MaxInstant

VARIABLES
  now, machine, store,
  nextSession,   \* the owner's next session id
  handed         \* tokens that clients received

vars == <<now, machine, store, nextSession, handed>>

Waiting == { "AwaitingEncryptedTransport", "AwaitingClientHello",
             "AwaitingAuthenticationInput", "AuthenticationPending" }
Ended == {"Rejected", "TimedOut", "Cancelled", "Closed"}
States == Waiting \cup Ended \cup {"Established", "None", "Destroyed"}
Context == "context"

\* A machine that is not there; 0 is an empty optional.
Absent(state) ==
  [ state |-> state, deadline |-> 0, operation |-> "none", presented |-> NoToken,
    principal |-> NoToken, accepted |-> FALSE, prepared |-> 0, session |-> 0, generation |-> 1 ]

\* What the members of a machine can hold.
TypeOK ==
  /\ now \in 0 .. Horizon
  /\ machine \in [Machines ->
       [ state : States, deadline : 0 .. MaxInstant, operation : {"none", "join", "resume"},
         presented : Tokens \cup {NoToken}, principal : Tokens \cup {NoToken},
         accepted : BOOLEAN, prepared : 0 .. PreparationIds - 1,
         session : 0 .. MaxSession, generation : 1 .. MaxGeneration ]]
  /\ nextSession \in 2 .. MaxSession + 1
  /\ handed \subseteq Tokens

\* A client of an earlier connection may have left with a token.
Init ==
  /\ now = 0
  /\ machine = [c \in Machines |-> Absent("None")]
  /\ \E earlier \in (Tokens \ Machines) \cup {NoToken} :
       /\ store = Issue(EmptyStore, earlier, 1, 1, Context, now, earlier)
       /\ handed = {earlier} \ {NoToken}
  /\ nextSession = 2

-----------------------------------------------------------------------------
(* Steps of one machine. *)

In(c, state) == machine[c].state = state
Alive(c) == machine[c].state \notin {"None", "Destroyed"}

\* sessionDeadline(); in the variant it may wrap.
DeadlineFits_Mutant(duration) == TRUE

DeadlineFits(duration) == now <= MaxInstant - duration

\* cancelAuthentication()
Uncalled(r) == [r EXCEPT !.operation = "none", !.presented = NoToken]

Enter(c, state, duration) ==
  machine' = [machine EXCEPT ![c].state = state, ![c].deadline = now + duration]

create(c) ==
  /\ In(c, "None")
  /\ DeadlineFits(NegotiationTime)
  /\ Enter(c, "AwaitingEncryptedTransport", NegotiationTime)
  /\ UNCHANGED <<now, store, nextSession, handed>>

EncryptedTransportReady(c) ==
  /\ In(c, "AwaitingEncryptedTransport")
  /\ DeadlineFits(NegotiationTime)
  /\ Enter(c, "AwaitingClientHello", NegotiationTime)
  /\ UNCHANGED <<now, store, nextSession, handed>>

ClientHelloReceived(c, compatible) ==
  /\ In(c, "AwaitingClientHello")
  /\ IF compatible
     THEN DeadlineFits(InputTime) /\ Enter(c, "AwaitingAuthenticationInput", InputTime)
     ELSE machine' = [machine EXCEPT ![c].state = "Rejected", ![c].deadline = 0]
  /\ UNCHANGED <<now, store, nextSession, handed>>

\* A password or a token is submitted and the service begins an operation, or
\* has none to give.
AuthenticationSubmitted(c, operation, token) ==
  /\ In(c, "AwaitingAuthenticationInput")
  /\ DeadlineFits(ProviderTime)
  /\ machine' = [machine EXCEPT ![c] =
       IF operation = "none"
       THEN [@ EXCEPT !.state = "Rejected", !.deadline = 0]
       ELSE [@ EXCEPT !.state = "AuthenticationPending", !.deadline = now + ProviderTime,
                      !.operation = operation, !.presented = token]]
  /\ UNCHANGED <<now, store, nextSession, handed>>

\* The authentication is still pending, or its completion is of another
\* attempt: nothing moves.  The end of the operation:
Answered(c) == [Uncalled(machine[c]) EXCEPT !.deadline = 0]

PollJoin(c, granted) ==
  /\ In(c, "AuthenticationPending")
  /\ machine[c].operation = "join"
  /\ machine' = [machine EXCEPT ![c] =
       IF granted THEN [Answered(c) EXCEPT !.state = "Established", !.principal = c]
                  ELSE [Answered(c) EXCEPT !.state = "Rejected"]]
  /\ UNCHANGED <<now, store, nextSession, handed>>

\* ResumeAuthenticationOperation::poll() prepares the resume.
PollResume(c, replacement) ==
  LET token    == machine[c].presented
      prepared == PrepareConsume(store, token, Context, now, replacement)
      grant    == prepared.pending[store.nextId].replacement
  IN  /\ In(c, "AuthenticationPending")
      /\ machine[c].operation = "resume"
      /\ store' = prepared
      /\ machine' = [machine EXCEPT ![c] =
           IF PrepareAccepted(store, token, Context, now, replacement)
           THEN [Answered(c) EXCEPT !.state = "Established", !.principal = grant.principal,
                                    !.accepted = TRUE, !.prepared = store.nextId,
                                    !.session = grant.session, !.generation = grant.generation]
           ELSE [Answered(c) EXCEPT !.state = "Rejected"]]
      /\ UNCHANGED <<now, nextSession, handed>>

\* Variant: a pending authentication is not timed out.
TimeoutApplies_Mutant(c) == machine[c].state \in Waiting \ {"AuthenticationPending"}

TimeoutApplies(c) == machine[c].state \in Waiting

CheckTimeout(c) ==
  /\ TimeoutApplies(c)
  /\ machine[c].deadline # 0
  /\ now >= machine[c].deadline
  /\ machine' = [machine EXCEPT ![c] = [Uncalled(@) EXCEPT !.state = "TimedOut", !.deadline = 0]]
  /\ UNCHANGED <<now, store, nextSession, handed>>

\* Variant: a closed machine can be cancelled.
CancelApplies_Mutant(c) == Alive(c) /\ machine[c].state \notin Ended \ {"Closed"}

CancelApplies(c) == Alive(c) /\ machine[c].state \notin Ended

\* A resume that was prepared stays prepared until the machine is closed.
Cancel(c) ==
  /\ CancelApplies(c)
  /\ machine' = [machine EXCEPT ![c] = [Uncalled(@) EXCEPT !.state = "Cancelled", !.deadline = 0]]
  /\ UNCHANGED <<now, store, nextSession, handed>>

Close(c) ==
  /\ Alive(c)
  /\ ~In(c, "Closed")
  /\ machine' = [machine EXCEPT ![c] =
       [Uncalled(@) EXCEPT !.state = "Closed", !.deadline = 0, !.prepared = 0]]
  /\ store' = CancelConsume(store, machine[c].prepared)
  /\ UNCHANGED <<now, nextSession, handed>>

-----------------------------------------------------------------------------
(* Binding to a session, and the resume that was prepared. *)

Unbound(c) ==
  /\ In(c, "Established")
  /\ machine[c].principal # NoToken
  /\ ~machine[c].accepted
  /\ machine[c].session = 0

\* The owner issued the token and answered the client itself.
bindPreissuedInitialSession(c, token) ==
  /\ Unbound(c)
  /\ nextSession <= MaxSession
  /\ store' = Issue(store, machine[c].principal, nextSession, machine[c].generation, Context, now, token)
  /\ IssueAccepted(store, now, token)
  /\ machine' = [machine EXCEPT ![c].session = nextSession]
  /\ nextSession' = nextSession + 1
  /\ handed' = handed \cup {token}
  /\ UNCHANGED now

\* A machine whose token could not be issued is closed.
finalizeInitialSession(c, token) ==
  /\ Unbound(c)
  /\ nextSession <= MaxSession
  /\ store' = Issue(store, machine[c].principal, nextSession, machine[c].generation, Context, now, token)
  /\ machine' = [machine EXCEPT ![c] =
       IF IssueAccepted(store, now, token)
       THEN [@ EXCEPT !.session = nextSession, !.accepted = TRUE]
       ELSE [@ EXCEPT !.state = "Closed"]]
  /\ nextSession' = nextSession + 1
  /\ UNCHANGED <<now, handed>>

takeAuthenticationAccepted(c) ==
  /\ Alive(c)
  /\ machine[c].accepted
  /\ machine' = [machine EXCEPT ![c].accepted = FALSE]
  /\ handed' = handed \cup {c}
  /\ UNCHANGED <<now, store, nextSession>>

Prepared(c) == Alive(c) /\ machine[c].prepared # 0

\* What commitConsume does when the record is gone is for ResumeTokenStore.
commitPreparedResume(c) ==
  /\ Prepared(c)
  /\ machine[c].prepared \in DOMAIN store.pending
  /\ CommitDefined(store, machine[c].prepared)
  /\ store' = CommitConsume(store, machine[c].prepared)
  /\ UNCHANGED <<now, machine, nextSession, handed>>

finalizePreparedResume(c) ==
  /\ Prepared(c)
  /\ CommittedAs(store, machine[c].prepared)
  /\ store' = FinalizeConsume(store, machine[c].prepared)
  /\ machine' = [machine EXCEPT ![c].prepared = 0]
  /\ UNCHANGED <<now, nextSession, handed>>

rollbackPreparedResume(c) ==
  /\ Prepared(c)
  /\ CommittedAs(store, machine[c].prepared)
  /\ store' = RollbackConsume(store, machine[c].prepared)
  /\ machine' = [machine EXCEPT ![c].prepared = 0]
  /\ UNCHANGED <<now, nextSession, handed>>

cancelPreparedResume(c) ==
  /\ Prepared(c)
  /\ store' = CancelConsume(store, machine[c].prepared)
  /\ machine' = [machine EXCEPT ![c].prepared = 0]
  /\ UNCHANGED <<now, nextSession, handed>>

\* Variant: the destructor cancels the authentication only.
destroy_Mutant(c) ==
  /\ Alive(c)
  /\ machine' = [machine EXCEPT ![c] = Absent("Destroyed")]
  /\ UNCHANGED <<now, store, nextSession, handed>>

destroy(c) ==
  /\ Alive(c)
  /\ machine' = [machine EXCEPT ![c] = Absent("Destroyed")]
  /\ store' = CancelConsume(store, machine[c].prepared)
  /\ UNCHANGED <<now, nextSession, handed>>

Tick ==
  /\ now < Horizon
  /\ now' = now + 1
  /\ UNCHANGED <<machine, store, nextSession, handed>>

Next ==
  \/ \E c \in Machines :
       \/ create(c)
       \/ EncryptedTransportReady(c)
       \/ \E compatible \in BOOLEAN : ClientHelloReceived(c, compatible)
       \/ \E operation \in {"none", "join"} : AuthenticationSubmitted(c, operation, NoToken)
       \/ \E token \in handed : AuthenticationSubmitted(c, "resume", token)
       \/ \E granted \in BOOLEAN : PollJoin(c, granted)
       \/ \E replacement \in {c, NoToken} : PollResume(c, replacement)
       \/ CheckTimeout(c)
       \/ Cancel(c)
       \/ Close(c)
       \/ bindPreissuedInitialSession(c, c)
       \/ \E token \in {c, NoToken} : finalizeInitialSession(c, token)
       \/ takeAuthenticationAccepted(c)
       \/ commitPreparedResume(c)
       \/ finalizePreparedResume(c)
       \/ rollbackPreparedResume(c)
       \/ cancelPreparedResume(c)
       \/ destroy(c)
  \/ Tick

Spec == Init /\ [][Next]_vars

\* Every pump asks every machine for its timeout, and the clock goes on.  The
\* provider and the client need not ever answer.
FairSpec == Spec /\ WF_vars(Tick) /\ \A c \in Machines : WF_vars(CheckTimeout(c))

-----------------------------------------------------------------------------
\* Every reservation at the token store is held by one machine that is still
\* there to commit it or to give it up, so that no way out of a handshake
\* (timeout, cancel, close, destruction) locks a client's token for ever.
ReservationsAreHeld ==
  \A id \in DOMAIN store.pending :
    Cardinality({c \in Machines : Alive(c) /\ machine[c].prepared = id}) = 1

\* A machine neither changes its identity nor comes back: the session and
\* generation it was bound to, or resumed, are never exchanged under the
\* operations it receives (receiveReliableOperation compares with them), and no
\* late answer of the provider, no late message and no cancellation revives or
\* renames a machine that timed out, was cancelled, rejected or closed.
MachinesOnlyMoveOn ==
  [][ \A c \in Machines :
        /\ machine[c].session # 0 /\ Alive(c)' =>
             /\ machine'[c].session = machine[c].session
             /\ machine'[c].generation = machine[c].generation
        /\ machine[c].state \in Ended
             => machine'[c].state \in {machine[c].state, "Closed", "Destroyed"}
        /\ In(c, "Closed") => machine'[c].state \in {"Closed", "Destroyed"} ]_vars

\* Every stage of a handshake ends, whatever the client and the provider do
\* (handle(ServerCheckTimeout) is called for every connection in every pump).
StagesEnd ==
  \A c \in Machines, stage \in Waiting :
    (In(c, stage) /\ machine[c].deadline <= Horizon) ~> ~In(c, stage)
=============================================================================
