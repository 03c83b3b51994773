-------------------------- MODULE ServerApplication --------------------------
(***************************************************************************)
(* One process of the vNext server: the pump of ServerApplication and the  *)
(* four registries it keeps in step while clients join, drop, resume and   *)
(* expire.                                                                 *)
(*                                                                         *)
(*   conn                    ConnectionSessionCoordinator::mConnections    *)
(*   players, active         the canonical state of the command reducer    *)
(*   principals, nextSession AuthenticatedJoinCoordinator                  *)
(*   bindings                ServerLifecycleCoordinator::mBindings         *)
(*   store                   ResumeTokenStore (ResumeTokens.tla)           *)
(*                                                                         *)
(* The pump is one thread; every step below is one handler call of it, and *)
(* the clock, the peers and the faults in Faults move between the steps.   *)
(* phase and todo are the pump's program counter.  All players are in one  *)
(* cell, the case in which everyone observes everyone.                     *)
(*                                                                         *)
(* A connection authenticates once, so the principal and the token drawn   *)
(* for it carry its name: Conns = Tokens.  The history variables are the   *)
(* tokens sent to clients (handed), who held which session generation      *)
(* (owned), the sessions whose connection was discarded without a          *)
(* disconnect (discarded), and the players that the recovery at startup    *)
(* put into the world and who have not joined since (restored).            *)
(***************************************************************************)
EXTENDS ResumeTokens

CONSTANTS
  Players,                         \* player identities the registry can hold
  MaximumCanonicalPlayerEntities,
  MaximumCanonicalActiveSessions,
  Capacity,                        \* mCapacity: connections at a time
  RestoredPlayers,                 \* players the files at startup may hold
  MaxSession,                      \* largest SessionId (2^64 - 1)
  Faults,                          \* what may go wrong, see AllFaults
  Horizon                          \* bound on the clock, for TLC

AllFaults ==
  { "token",        \* the random source behind makeToken
    "identity",     \* the player identity registry refuses a join
    "queue",        \* an outbound queue has no room
    "durability",   \* CanonicalDurability::commit is not Committed
    "persist",      \* savePlayers cannot write the identity file
    "receive",      \* TransportRuntime::receive is not Accepted
    "resync" }      \* resyncConnection returns false

ASSUME ServerAssumption ==
  /\ MaximumCanonicalPlayerEntities \in Nat \ {0}
  /\ MaximumCanonicalActiveSessions \in Nat \ {0}
  /\ MaximumCanonicalPlayerEntities <= MaximumCanonicalActiveSessions
  /\ Capacity \in Nat
  /\ IsFiniteSet(Players)
  /\ RestoredPlayers \subseteq Players
  /\ Cardinality(RestoredPlayers) <= MaximumCanonicalPlayerEntities
  /\ MaxSession \in Nat \ {0}
  /\ Faults \subseteq AllFaults
  /\ Horizon \in Nat /\ Horizon <= MaxInstant

VARIABLES
  now, running, phase, todo, conn, players, active,
  identities, principals, nextSession, exhausted, bindings, store,
  handed, owned, discarded, restored

canonical == <<players, active>>
joins == <<identities, principals, nextSession, exhausted>>
history == <<handed, owned, discarded, restored>>
vars == <<now, running, phase, todo, conn, canonical, joins, bindings, store, history>>

Conns == Tokens
Sessions == 1 .. MaxSession
Outcomes == {"ok"} \cup Faults

\* main.cpp gives the token lifetime and the lifecycle the same grace period.
Grace == Lifetime

\* The negotiated context of every client; ResumeTokenStore.tla varies it.
Context == "context"

States == { "Unseen", "AwaitingClientHello", "AwaitingAuthenticationInput",
            "Established", "Rejected", "Gone" }

Blank(state) == [state |-> state, session |-> 0, generation |-> 1]

\* What the registries can hold.
TypeOK ==
  /\ now \in 0 .. Horizon
  /\ running \in BOOLEAN
  /\ phase \in {"events", "timeouts", "expire", "receive", "tick", "send"}
  /\ todo \subseteq Conns
  /\ conn \in [Conns -> [state : States, session : 0 .. MaxSession, generation : 1 .. MaxGeneration]]
  /\ players \subseteq Players
  /\ identities \subseteq Players
  /\ DOMAIN active \subseteq Sessions
  /\ \A s \in DOMAIN active :
       active[s] \in [generation : 1 .. MaxGeneration, player : Players]
  /\ DOMAIN principals \subseteq Conns
  /\ \A c \in DOMAIN principals : principals[c] \in Players
  /\ nextSession \in Sessions
  /\ exhausted \in BOOLEAN
  /\ DOMAIN bindings \subseteq Sessions
  /\ \A s \in DOMAIN bindings :
       bindings[s] \in [principal : Conns, generation : 1 .. MaxGeneration, player : Players,
                        live : BOOLEAN, deadline : 0 .. MaxInstant]
  /\ \A slot \in Occupied(store) : store.records[slot].expiresAt <= MaxInstant

Init ==
  /\ now = 0
  /\ running = TRUE
  /\ phase = "events"
  /\ todo = {}
  /\ conn = [c \in Conns |-> Blank("Unseen")]
  /\ restored \in SUBSET RestoredPlayers
  /\ players = restored
  /\ active = [s \in {} |-> 0]
  /\ \E absent \in SUBSET RestoredPlayers : identities = restored \cup absent
  /\ principals = [c \in {} |-> 0]
  /\ nextSession = 1
  /\ exhausted = FALSE
  /\ bindings = [s \in {} |-> 0]
  /\ store = EmptyStore
  /\ handed = {}
  /\ owned = {}
  /\ discarded = {}

-----------------------------------------------------------------------------
(* Lookups. *)

Present == {c \in Conns : conn[c].state \notin {"Unseen", "Gone"}}
Handshaking ==
  {c \in Conns : conn[c].state \in {"AwaitingClientHello", "AwaitingAuthenticationInput"}}
Rejected == {c \in Conns : conn[c].state = "Rejected"}
Owners(s) == {c \in Present : conn[c].session = s}
SessionsOf(cs) == {conn[c].session : c \in cs} \ {0}
ActivePlayers == {active[s].player : s \in DOMAIN active}
BindingsOf(p) == {s \in DOMAIN bindings : bindings[s].player = p}

\* connectionForSession() finds somebody for each of the sessions.
Routable(ss) == \A s \in ss : Owners(s) # {}

\* The sessions that projectInterestChanges() has news for when the players
\* become after: visibility follows the players, not their sessions.
Observers(after) == IF after = players THEN {} ELSE DOMAIN active

\* sessions.close() for some connections.
Closed(cs) == [c \in Conns |-> IF c \in cs THEN Blank("Gone") ELSE conn[c]]

-----------------------------------------------------------------------------
(* disconnectConnections(): sessions without an identity are simply closed; *)
(* the others become hidden in one lifecycle transaction.  FALSE makes the  *)
(* pump return false, and main() ends the process.                          *)

\* Variant: the deadline may overflow.
DisconnectAccepted_Mutant(cs, fault) ==
  LET leaving == SessionsOf(cs \cap Present)
  IN  leaving # {} =>
        /\ \A s \in leaving : s \in DOMAIN bindings /\ bindings[s].live /\ s \in DOMAIN active
        /\ fault \notin {"persist", "durability"}

DisconnectAccepted(cs, fault) ==
  LET leaving == SessionsOf(cs \cap Present)
  IN  leaving # {} =>
        /\ now <= MaxInstant - Grace
        /\ \A s \in leaving :
             /\ s \in DOMAIN bindings /\ bindings[s].live
             /\ s \in DOMAIN active
             /\ Cardinality(Owners(s) \cap cs) = 1
             /\ bindings[s].player \in players
        /\ fault \notin {"persist", "durability"}

Hide(s) == [bindings[s] EXCEPT !.generation = active[s].generation,
                               !.live       = FALSE,
                               !.deadline   = now + Grace]

\* Variant: the connections are not closed afterwards.
disconnectConnections_Mutant(cs, alsoClosed, fault) ==
  LET leaving == SessionsOf(cs \cap Present)
  IN  /\ DisconnectAccepted(cs, fault)
      /\ bindings' = [s \in DOMAIN bindings |-> IF s \in leaving THEN Hide(s) ELSE bindings[s]]
      /\ active' = Restrict(active, DOMAIN active \ leaving)
      /\ UNCHANGED <<conn, running>>

disconnectConnections(cs, alsoClosed, fault) ==
  LET leaving == SessionsOf(cs \cap Present)
  IN  IF DisconnectAccepted(cs, fault)
      THEN /\ conn' = Closed((cs \cap Present) \cup alsoClosed)
           /\ bindings' = [s \in DOMAIN bindings |->
                             IF s \in leaving THEN Hide(s) ELSE bindings[s]]
           /\ active' = Restrict(active, DOMAIN active \ leaving)
           /\ UNCHANGED running
      ELSE /\ running' = FALSE
           /\ UNCHANGED <<conn, bindings, active>>

-----------------------------------------------------------------------------
(* The events of the transport. *)

AcceptConnection(c) ==
  /\ running /\ phase = "events"
  /\ conn[c].state = "Unseen"
  /\ conn' = [conn EXCEPT ![c] =
                Blank(IF Cardinality(Present) >= Capacity THEN "Gone" ELSE "AwaitingClientHello")]
  /\ UNCHANGED <<now, running, phase, todo, canonical, joins, bindings, store, history>>

ConnectionsClosed(cs, fault) ==
  /\ running /\ phase = "events"
  /\ disconnectConnections(cs, {}, fault)
  /\ phase' = "timeouts"
  /\ UNCHANGED <<now, todo, players, joins, store, history>>

\* Variant: nobody renews the tokens.
CheckTimeouts_Mutant(late) ==
  /\ running /\ phase = "timeouts"
  /\ conn' = Closed(late)
  /\ phase' = "expire"
  /\ UNCHANGED <<now, running, todo, canonical, joins, bindings, store, history>>

\* checkTimeout() of every connection that is not rejected: late ones of the
\* handshake are dropped, established ones renew their token.
CheckTimeouts(late) ==
  /\ running /\ phase = "timeouts"
  /\ conn' = Closed(late)
  /\ store' = [store EXCEPT !.records =
       [slot \in DOMAIN @ |->
          IF \E c \in Present : /\ conn[c].state = "Established"
                                /\ Renews(store, conn[c].session, conn[c].generation, slot, now)
          THEN [@[slot] EXCEPT !.expiresAt = ExpiryFrom(now)]
          ELSE @[slot]]]
  /\ phase' = "expire"
  /\ UNCHANGED <<now, running, todo, canonical, joins, bindings, history>>

-----------------------------------------------------------------------------
(* expireSessions(). *)

\* Variant: the deadline is not looked at.
Due_Mutant == {s \in DOMAIN bindings : ~bindings[s].live}

Due == {s \in DOMAIN bindings : ~bindings[s].live /\ now >= bindings[s].deadline}

\* prepareNextExpiration(): the earliest deadline, then the smallest session.
NextExpiration ==
  CHOOSE s \in Due : \A t \in Due :
    \/ bindings[s].deadline < bindings[t].deadline
    \/ bindings[s].deadline = bindings[t].deadline /\ s <= t

ExpirationAccepted(s, fault) ==
  LET p == bindings[s].player
  IN  /\ p \in players
      /\ p \notin ActivePlayers
      /\ Routable(Observers(players \ {p}))
      /\ fault \notin {"queue", "durability"}
      /\ bindings[s].principal \in DOMAIN principals

\* releasePrincipal()
ReleasePrincipal(principal) == Restrict(principals, DOMAIN principals \ {principal})

ExpireSession(fault) ==
  /\ running /\ phase = "expire"
  /\ Due # {}
  /\ IF ExpirationAccepted(NextExpiration, fault)
     THEN /\ players' = players \ {bindings[NextExpiration].player}
          /\ principals' = ReleasePrincipal(bindings[NextExpiration].principal)
          /\ bindings' = Restrict(bindings, DOMAIN bindings \ {NextExpiration})
          /\ UNCHANGED running
     ELSE /\ running' = FALSE
          /\ UNCHANGED <<players, principals, bindings>>
  /\ UNCHANGED <<now, phase, todo, conn, active, identities, nextSession, exhausted,
                 store, history>>

\* Variant: the loop may end with sessions that are due.
ExpirationsDone_Mutant ==
  /\ running /\ phase = "expire"
  /\ phase' = "receive"
  /\ todo' = Present \ Rejected
  /\ UNCHANGED <<now, running, conn, canonical, joins, bindings, store, history>>

ExpirationsDone ==
  /\ running /\ phase = "expire"
  /\ Due = {}
  /\ phase' = "receive"
  /\ todo' = Present \ Rejected
  /\ UNCHANGED <<now, running, conn, canonical, joins, bindings, store, history>>

-----------------------------------------------------------------------------
(* The messages of a connection.  Gameplay messages that are accepted leave *)
(* this state alone.                                                        *)

Receiving(c, state) ==
  /\ running /\ phase = "receive"
  /\ c \in todo
  /\ conn[c].state = state

\* failConnection() alone: the session machine and its queue are discarded.
failConnection(c) ==
  /\ conn' = Closed({c})
  /\ todo' = todo \ {c}

ReceiveDone(c) ==
  /\ running /\ phase = "receive"
  /\ c \in todo
  /\ todo' = todo \ {c}
  /\ UNCHANGED <<now, running, phase, conn, canonical, joins, bindings, store, history>>

\* The reply, a ServerHello or a SessionRejected, needs room in the queue.
ClientHello(c, accepted, fault) ==
  /\ Receiving(c, "AwaitingClientHello")
  /\ IF fault = "queue"
     THEN failConnection(c)
     ELSE /\ conn' = [conn EXCEPT ![c].state =
                        IF accepted THEN "AwaitingAuthenticationInput" ELSE "Rejected"]
          /\ UNCHANGED todo
  /\ UNCHANGED <<now, running, phase, canonical, joins, bindings, store, history>>

\* A wrong password, a rate limit, an unknown player.
AuthenticationDenied(c, fault) ==
  /\ Receiving(c, "AwaitingAuthenticationInput")
  /\ IF fault = "queue"
     THEN failConnection(c)
     ELSE /\ conn' = [conn EXCEPT ![c].state = "Rejected"]
          /\ UNCHANGED todo
  /\ UNCHANGED <<now, running, phase, canonical, joins, bindings, store, history>>

\* Variant: the connection is discarded and its session is forgotten.
ProtocolRejected_Mutant(c, fault) ==
  /\ running /\ phase = "receive"
  /\ c \in todo
  /\ failConnection(c)
  /\ UNCHANGED <<now, running, phase, canonical, joins, bindings, store, history>>

\* A message that dispatch(), relayPose() or receivePlayerControls() refuses:
\* the session is disconnected before the connection is discarded.
ProtocolRejected(c, fault) ==
  /\ running /\ phase = "receive"
  /\ c \in todo
  /\ disconnectConnections({c}, {}, fault)
  /\ todo' = todo \ {c}
  /\ UNCHANGED <<now, phase, players, joins, store, history>>

\* The two places that discard a connection without disconnecting its session.
ReceiveFails(c) ==
  /\ "receive" \in Faults
  /\ running /\ phase = "receive"
  /\ c \in todo \ Rejected
  /\ failConnection(c)
  /\ discarded' = discarded \cup SessionsOf({c})
  /\ UNCHANGED <<now, running, phase, canonical, joins, bindings, store, handed, owned, restored>>

ResyncFails(c) ==
  /\ "resync" \in Faults
  /\ Receiving(c, "Established")
  /\ failConnection(c)
  /\ discarded' = discarded \cup SessionsOf({c})
  /\ UNCHANGED <<now, running, phase, canonical, joins, bindings, store, handed, owned, restored>>

-----------------------------------------------------------------------------
(* A join with the password: a new player, or an identity that comes back. *)

\* prepare() and prepareReattach(), then prepareIdentity() and prepareJoin().
JoinAccepted(c, p, fault) ==
  /\ fault # "identity"
  /\ c \notin DOMAIN principals
  /\ Cardinality(DOMAIN active) < MaximumCanonicalActiveSessions
  /\ p \notin identities => /\ Cardinality(players) < MaximumCanonicalPlayerEntities
                            /\ ~exhausted
  /\ Cardinality(players \cup {p}) <= MaximumCanonicalPlayerEntities
  /\ p \notin ActivePlayers
  /\ \A s \in DOMAIN active : s < nextSession

\* enqueueJoinResponses() reaches every observer and the reducer commits.
JoinCommits(p, fault) ==
  /\ Routable(Observers(players \cup {p}))
  /\ fault \notin {"queue", "durability"}

\* registerJoined(): a hidden binding of the same player is replaced.
RegisterAccepted(c, p, s) ==
  /\ s \notin DOMAIN bindings
  /\ \A t \in DOMAIN bindings : bindings[t].principal # c
  /\ \A t \in BindingsOf(p) : ~bindings[t].live
  /\ Cardinality(BindingsOf(p)) <= 1
  /\ BindingsOf(p) = {} => Cardinality(DOMAIN bindings) < MaximumCanonicalActiveSessions

Registered(c, p, s) ==
  Put(Restrict(bindings, DOMAIN bindings \ BindingsOf(p)), s,
      [principal |-> c, generation |-> 1, player |-> p, live |-> TRUE, deadline |-> 0])

\* mPrincipals after a commit: a reattached player's old principal is replaced.
PrincipalsAfterJoin(c, p) ==
  Put(Restrict(principals, {q \in DOMAIN principals : principals[q] # p}), c, p)

\* advance(mSeed.nextSession); the variant hands the same session out again.
NextSession_Mutant == nextSession

NextSession == IF nextSession = MaxSession THEN nextSession ELSE nextSession + 1

Join(c, p, fault) ==
  LET token  == IF fault = "token" THEN NoToken ELSE c
      issued == Issue(store, c, nextSession, 1, Context, now, token)
  IN  /\ Receiving(c, "AwaitingAuthenticationInput")
      /\ IF ~JoinAccepted(c, p, fault)
         THEN /\ failConnection(c)
              /\ UNCHANGED <<canonical, joins, bindings, store, history>>
         ELSE IF ~IssueAccepted(store, now, token) \/ ~JoinCommits(p, fault)
         THEN \* nobody takes back a token that was issued
              /\ failConnection(c)
              /\ store' = issued
              /\ UNCHANGED <<canonical, joins, bindings, history>>
         ELSE /\ store' = issued
              /\ players' = players \cup {p}
              /\ active' = Put(active, nextSession, [generation |-> 1, player |-> p])
              /\ identities' = identities \cup {p}
              /\ principals' = PrincipalsAfterJoin(c, p)
              /\ nextSession' = NextSession
              /\ exhausted' = (exhausted \/ nextSession = MaxSession)
              /\ handed' = handed \cup {c}
              /\ restored' = restored \ {p}
              /\ UNCHANGED discarded
              /\ IF RegisterAccepted(c, p, nextSession)
                 THEN /\ bindings' = Registered(c, p, nextSession)
                      /\ conn' = [conn EXCEPT ![c] = [state |-> "Established",
                                                      session |-> nextSession, generation |-> 1]]
                      /\ owned' = owned \cup {[session |-> nextSession, generation |-> 1, by |-> c]}
                      /\ UNCHANGED todo
                 ELSE /\ failConnection(c)
                      /\ UNCHANGED <<bindings, owned>>
      /\ UNCHANGED <<now, running, phase>>

-----------------------------------------------------------------------------
(* resumeConnection(): a token was presented and prepareConsume() granted it. *)

ResumeAccepted(grant) ==
  /\ grant.session \in DOMAIN bindings
  /\ LET b == bindings[grant.session]
     IN  /\ b.principal = grant.principal
         /\ ~b.live
         /\ now < b.deadline
         /\ b.generation < MaxGeneration
         /\ b.player \in players
         /\ b.player \notin ActivePlayers
         /\ b.generation + 1 = grant.generation
  /\ grant.session \notin DOMAIN active
  /\ Cardinality(DOMAIN active) < MaximumCanonicalActiveSessions

\* cancelPreparedResume(), when the lifecycle or a queue refuses.
GiveUp(st, id) == CancelConsume(st, id)

\* The lifecycle commit failed after the token was rotated; the variant forgets
\* to rotate it back.
TakeBack_Mutant(st, id) == FinalizeConsume(CommitConsume(st, id), id)

TakeBack(st, id) == RollbackConsume(CommitConsume(st, id), id)

Resume(c, token, fault) ==
  LET replacement == IF fault = "token" THEN NoToken ELSE c
      prepared    == PrepareConsume(store, token, Context, now, replacement)
      id          == store.nextId
      grant       == prepared.pending[id].replacement
  IN  /\ Receiving(c, "AwaitingAuthenticationInput")
      /\ IF ~PrepareAccepted(store, token, Context, now, replacement)
         THEN /\ store' = prepared
              /\ IF fault = "queue"
                 THEN failConnection(c)
                 ELSE /\ conn' = [conn EXCEPT ![c].state = "Rejected"]
                      /\ UNCHANGED todo
              /\ UNCHANGED <<active, bindings, history>>
         ELSE IF ~ResumeAccepted(grant) \/ fault = "queue"
         THEN /\ failConnection(c)
              /\ store' = GiveUp(prepared, id)
              /\ UNCHANGED <<active, bindings, history>>
         ELSE IF fault = "durability"
         THEN /\ failConnection(c)
              /\ store' = TakeBack(prepared, id)
              /\ UNCHANGED <<active, bindings, history>>
         ELSE /\ store' = FinalizeConsume(CommitConsume(prepared, id), id)
              /\ active' = Put(active, grant.session,
                               [generation |-> grant.generation,
                                player     |-> bindings[grant.session].player])
              /\ bindings' = [bindings EXCEPT ![grant.session].generation = grant.generation,
                                              ![grant.session].live       = TRUE]
              /\ conn' = [conn EXCEPT ![c] = [state |-> "Established", session |-> grant.session,
                                              generation |-> grant.generation]]
              /\ handed' = handed \cup {c}
              /\ owned' = owned \cup {[session |-> grant.session,
                                       generation |-> grant.generation, by |-> c]}
              /\ UNCHANGED <<todo, discarded, restored>>
      /\ UNCHANGED <<now, running, phase, players, joins>>

ReceiveFinished ==
  /\ running /\ phase = "receive"
  /\ todo = {}
  /\ phase' = "tick"
  /\ UNCHANGED <<now, running, todo, conn, canonical, joins, bindings, store, history>>

-----------------------------------------------------------------------------
(* The ticks of this pump, as far as they can fail: a tick that changes the *)
(* world has a view for every active session.                               *)
TickFails(changed, fault) ==
  \/ changed /\ ~Routable(DOMAIN active)
  \/ fault \in {"queue", "durability"}

CommitTick(changed, fault) ==
  /\ running /\ phase = "tick"
  /\ running' = ~TickFails(changed, fault)
  /\ phase' = "send"
  /\ UNCHANGED <<now, todo, conn, canonical, joins, bindings, store, history>>

\* The outbound queues: failed peers are disconnected together, rejected ones
\* whose answer has drained are closed.
Send(failed, drained, fault) ==
  /\ running /\ phase = "send"
  /\ disconnectConnections(failed, drained, fault)
  /\ phase' = "events"
  /\ UNCHANGED <<now, todo, players, joins, store, history>>

\* The monotonic clock.
Tick ==
  /\ running
  /\ now < Horizon
  /\ now' = now + 1
  /\ UNCHANGED <<running, phase, todo, conn, canonical, joins, bindings, store, history>>

\* What the pump itself does.
Pump ==
  \/ \E cs \in SUBSET Present, fault \in Outcomes : ConnectionsClosed(cs, fault)
  \/ \E late \in SUBSET Handshaking : CheckTimeouts(late)
  \/ \E fault \in Outcomes : ExpireSession(fault)
  \/ ExpirationsDone
  \/ \E c \in Conns : ReceiveDone(c)
  \/ \E c \in Conns, accepted \in BOOLEAN, fault \in Outcomes : ClientHello(c, accepted, fault)
  \/ \E c \in Conns, fault \in Outcomes : AuthenticationDenied(c, fault)
  \/ \E c \in Conns, fault \in Outcomes : ProtocolRejected(c, fault)
  \/ \E c \in Conns : ReceiveFails(c)
  \/ \E c \in Conns : ResyncFails(c)
  \/ \E c \in Conns, p \in Players, fault \in Outcomes : Join(c, p, fault)
  \/ \E c \in Conns, token \in handed, fault \in Outcomes : Resume(c, token, fault)
  \/ ReceiveFinished
  \/ \E changed \in BOOLEAN, fault \in Outcomes : CommitTick(changed, fault)
  \/ \E failed \in SUBSET Present, drained \in SUBSET Rejected, fault \in Outcomes :
       drained \cap failed = {} /\ Send(failed, drained, fault)

Next ==
  \/ \E c \in Conns : AcceptConnection(c)
  \/ Pump
  \/ Tick

Spec == Init /\ [][Next]_vars

\* main() calls pump() in a loop and the clock does not stop.
FairSpec == Spec /\ WF_vars(Pump) /\ WF_vars(Tick)
-----------------------------------------------------------------------------
(* The registries agree. *)

\* A binding is live exactly while the canonical state has its session, with
\* the same generation and player: registerJoined follows every committed
\* join, and ServerLifecycleCoordinator::commit moves both sides together.
LiveBindingsAreActive ==
  /\ {s \in DOMAIN bindings : bindings[s].live} = DOMAIN active
  /\ \A s \in DOMAIN active : /\ active[s].generation = bindings[s].generation
                              /\ active[s].player = bindings[s].player

\* The players in the world are those with a binding, one binding each, so
\* that every player that is left behind will be expired by somebody; only the
\* players that the recovery restored stay without one until they join.
PlayersAreBound ==
  /\ players \ restored = {bindings[s].player : s \in DOMAIN bindings}
  /\ restored \subseteq players
  /\ \A s, t \in DOMAIN bindings : bindings[s].player = bindings[t].player => s = t

\* The join coordinator's principals are those of the bindings: a principal
\* that stayed behind would make releasePrincipal fail later, or occupy the
\* player for ever.
PrincipalsMatchBindings ==
  /\ DOMAIN principals = {bindings[s].principal : s \in DOMAIN bindings}
  /\ \A s \in DOMAIN bindings : principals[bindings[s].principal] = bindings[s].player

HasOwner(s) ==
  \E c \in Conns : /\ conn[c].state = "Established"
                   /\ conn[c].session = s
                   /\ conn[c].generation = active[s].generation

\* Every active session is owned by an established connection of the same
\* generation (disconnectConnections before sessions.close): otherwise nobody
\* can disconnect it, and it can neither resume nor expire.
SessionsHaveOwners == \A s \in DOMAIN active : HasOwner(s)

\* The only sessions without an owner are those that ReceiveFails and
\* ResyncFails have left behind: whatever else fails in whatever order, a
\* connection does not go without its session.
OrphansWereDiscarded == \A s \in DOMAIN active : HasOwner(s) \/ s \in discarded

\* A connection that is bound to a session is the only one, and the session
\* is the canonical one (failConnection after every failed join or resume).
OwnersAreActive ==
  \A c \in Present :
    conn[c].session # 0 =>
      /\ Owners(conn[c].session) = {c}
      /\ conn[c].session \in DOMAIN active
      /\ active[conn[c].session].generation = conn[c].generation

\* No two connections ever hold the same generation of the same session, over
\* the life of the process: commands of a lost connection can always be told
\* from those of its successor (receiveReliableOperation's generation test).
NoSharedGeneration ==
  \A a, b \in owned :
    a.session = b.session /\ a.generation = b.generation => a.by = b.by

\* The token of a binding is one that can resume it: the store's generation
\* for the session is the lifecycle's, through commits, cancels and rollbacks
\* of resumeConnection, so the test of the two generations never refuses the
\* rightful client.
TokensTrackBindings ==
  \A slot \in Occupied(store), s \in DOMAIN bindings :
    /\ store.records[slot].session = s
    /\ store.records[slot].principal = bindings[s].principal
    => store.records[slot].generation = bindings[s].generation

\* No reservation and no unfinished commit of the token store outlives the
\* handler that made it; a reserved token could never be presented again.
NoReservationLeaks == DOMAIN store.pending = {} /\ store.committed = {}

\* The four registries and the token store agree after every handler, whichever
\* of its steps has failed.
RegistriesAgree ==
  /\ LiveBindingsAreActive
  /\ PlayersAreBound
  /\ PrincipalsMatchBindings
  /\ TokensTrackBindings
  /\ NoReservationLeaks

\* The process does not end: nothing a client sends, replays or drops makes
\* the pump return false (checked without faults of the host).
ServerStaysUp == running

-----------------------------------------------------------------------------
(* Steps. *)

\* The timeout check renews the token of every established connection that
\* has not expired yet (checkTimeout -> keepAlive).
LiveTokenRenewed ==
  [][ (phase = "timeouts" /\ phase' = "expire") =>
        \A c \in Present, slot \in Occupied(store) :
          /\ conn[c].state = "Established"
          /\ store.records[slot].digest = c
          /\ now < store.records[slot].expiresAt
          => store'.records[slot].expiresAt = now + Lifetime ]_vars

-----------------------------------------------------------------------------
(* Progress. *)

Hidden(p) == p \in players /\ p \notin ActivePlayers

\* A player that was left behind comes back or is removed, once the clock can
\* reach its deadline (expireSessions in every pump).
HiddenPlayersLeave ==
  \A p \in Players :
    (Hidden(p) /\ \E s \in BindingsOf(p) : bindings[s].deadline <= Horizon)
      ~> (~Hidden(p) \/ ~running)

-----------------------------------------------------------------------------
(* What a player's presence looks like from outside. *)

presence ==
  [p \in Players |->
     IF p \in ActivePlayers
     THEN LET s == CHOOSE s \in DOMAIN active : active[s].player = p
          IN  [status |-> "online", session |-> s, generation |-> active[s].generation, deadline |-> 0]
     ELSE IF p \in players /\ BindingsOf(p) # {}
     THEN LET s == CHOOSE s \in BindingsOf(p) : TRUE
          IN  [status |-> "hidden", session |-> s, generation |-> bindings[s].generation,
               deadline |-> bindings[s].deadline]
     ELSE [status |-> "absent", session |-> 0, generation |-> 0, deadline |-> 0]]

Presence == INSTANCE PlayerPresence WITH sessions <- nextSession - 1

\* The server implements PlayerPresence.tla: a session is resumed only before
\* its deadline and one generation further, a player is removed only at or
\* after it, and no session id is given out twice.
ImplementsPresence == Presence!Spec
=============================================================================
