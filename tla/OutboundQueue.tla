---------------------------- MODULE OutboundQueue ----------------------------
(***************************************************************************)
(* OutboundTransportQueue and OutboundQueueSet: what the server and the    *)
(* client still have to send.  A connection has one bounded reliable lane  *)
(* and six latest-wins slots, four of them (the world lanes) served in     *)
(* rotation; pump() offers messages to the transport within an attempt     *)
(* budget and four rate buckets, and evicts a peer whose reliable lane     *)
(* stays blocked.                                                          *)
(*                                                                         *)
(* A message is its lane and its size.  A reliable one also has a number,  *)
(* counted modulo Window by the caller (told) and by the transport (sent), *)
(* which are history.  Times enter only through differences, so a queue    *)
(* keeps those: the time from the last refill to the last pump, and from   *)
(* the first block to the last pump.                                       *)
(***************************************************************************)
EXTENDS Integers, Sequences, FiniteSets, SequencesExt

CONSTANTS
  Connections, mConnectionLimit,
  ReliableMessages, ReliableBytes, SendAttemptsPerPump, ReliableBurstBeforeLatest,
  ReliableRateBurst, ReliableRefill, LatestRateBurst, LatestRefill,
  ConsecutiveBlockLimit, BlockedDeadline,
  Sizes,      \* sizes of the reliable messages
  Offered,    \* connection -> the latest-wins lanes the callers use
  Pumped,     \* the connections that are pumped
  Elapses,    \* milliseconds between two pumps
  Idle        \* no pump is under way

WorldLatest == <<"world", "actor", "equipment", "combat">>
Slots == Range(WorldLatest) \cup {"control", "presentation"}
Buckets == {"reliable", "latest", "control", "presentation"}
Burst(bucket) == IF bucket = "reliable" THEN ReliableRateBurst ELSE LatestRateBurst
Interval(bucket) == IF bucket = "reliable" THEN ReliableRefill ELSE LatestRefill
Window == ReliableMessages + 1
NotBlocked == -1

\* OutboundQueuePolicy::create().
ASSUME PolicyAssumption ==
  /\ ReliableMessages \in Nat \ {0} /\ ReliableBytes \in Nat \ {0}
  /\ SendAttemptsPerPump \in Nat \ {0}
  /\ ReliableBurstBeforeLatest \in 1 .. SendAttemptsPerPump
  /\ ReliableRateBurst \in Nat \ {0} /\ ReliableRefill \in Nat \ {0}
  /\ LatestRateBurst \in Nat \ {0} /\ LatestRefill \in Nat \ {0}
  /\ ConsecutiveBlockLimit \in Nat \ {0} /\ BlockedDeadline \in Nat \ {0}

\* The inputs: no message is empty, and time does not run backwards.
ASSUME InputAssumption ==
  /\ mConnectionLimit \in Nat \ {0}
  /\ Sizes \subseteq Nat \ {0} /\ Offered \in [Connections -> SUBSET Slots]
  /\ Pumped \subseteq Connections /\ Elapses \subseteq Nat
  /\ Idle \notin Connections

VARIABLES
  mQueues,   \* connection -> queue, for the attached ones
  pump,      \* the pump that is under way: connection, stage and its locals
  told,      \* connection -> reliable messages the caller was told are queued
  sent,      \* connection -> reliable messages the transport accepted
  offer      \* the slot whose message was just offered to the transport

history == <<told, sent>>
outboundVars == <<mQueues, pump, history, offer>>

Queue ==
  [reliable : Seq([number : 0 .. Window - 1, size : Sizes]), bytes : 0 .. ReliableBytes,
   latest : SUBSET Slots, tokens : [Buckets -> Nat], phase : [Buckets -> Nat],
   initialized : BOOLEAN, next : 0 .. 3,
   blockedFor : NotBlocked .. BlockedDeadline, blocks : 0 .. ConsecutiveBlockLimit]
Stages == <<"burst", "world", "control", "presentation", "rest">>
PumpLocals ==
  [connection : Connections, stage : Range(Stages), attempts : 0 .. SendAttemptsPerPump,
   progressed : BOOLEAN, blocked : BOOLEAN]

\* The members have their types; the lanes, the budget of a pump and the
\* buckets keep their bounds, so that no unsigned subtraction wraps.
OutboundTypeOK ==
  /\ DOMAIN mQueues \subseteq Connections
  /\ Cardinality(DOMAIN mQueues) <= mConnectionLimit
  /\ \A c \in DOMAIN mQueues :
       /\ mQueues[c] \in Queue
       /\ Len(mQueues[c].reliable) <= ReliableMessages
       /\ \A b \in Buckets : /\ mQueues[c].tokens[b] <= Burst(b)
                             /\ mQueues[c].phase[b] < Interval(b)
  /\ pump = Idle \/ (pump \in PumpLocals /\ pump.connection \in DOMAIN mQueues)
  /\ told \in [Connections -> 0 .. Window - 1]
  /\ sent \in [Connections -> 0 .. Window - 1]
  /\ offer \in Slots \cup {Idle}

\* The constructor: full buckets that have not seen a clock yet.
NewQueue ==
  [reliable |-> <<>>, bytes |-> 0, latest |-> {},
   tokens |-> [b \in Buckets |-> Burst(b)], phase |-> [b \in Buckets |-> 0],
   initialized |-> FALSE, next |-> 0, blockedFor |-> NotBlocked, blocks |-> 0]

OutboundInit ==
  /\ mQueues = <<>>
  /\ pump = Idle
  /\ told = [c \in Connections |-> 0]
  /\ sent = [c \in Connections |-> 0]
  /\ offer = Idle

-----------------------------------------------------------------------------
(* Connections come and go. *)

attach(c) ==
  /\ pump = Idle
  /\ c \notin DOMAIN mQueues
  /\ Cardinality(DOMAIN mQueues) < mConnectionLimit
  /\ mQueues' = [d \in DOMAIN mQueues \cup {c} |-> IF d = c THEN NewQueue ELSE mQueues[d]]
  /\ offer' = Idle
  /\ UNCHANGED <<pump, history>>

\* The queue goes, and with it what is remembered of its messages.
Drop(c) ==
  /\ mQueues' = [d \in DOMAIN mQueues \ {c} |-> mQueues[d]]
  /\ told' = [told EXCEPT ![c] = 0]
  /\ sent' = [sent EXCEPT ![c] = 0]
  /\ pump' = Idle
  /\ offer' = Idle

\* ConnectionSessionCoordinator::close(), also after a pump that answered
\* InvalidTime: the clock had stepped back and the queue was not touched.
detach(c) ==
  /\ pump = Idle
  /\ c \in DOMAIN mQueues
  /\ Drop(c)

-----------------------------------------------------------------------------
(* Admission.  A group is a sequence of [connection, lane, size] that is    *)
(* admitted as a whole or not at all: the code stages it on a copy.         *)

\* Mutant: one message too many.
LaneHasRoom_Mutant(q, size) ==
  /\ Len(q.reliable) <= ReliableMessages
  /\ size <= ReliableBytes - q.bytes

LaneHasRoom(q, size) ==
  /\ Len(q.reliable) < ReliableMessages
  /\ size <= ReliableBytes - q.bytes

\* A latest-wins message replaces the one in its slot.
Append1(q, number, m) ==
  IF m.lane = "reliable"
  THEN [q EXCEPT !.reliable = Append(@, [number |-> number, size |-> m.size]),
                 !.bytes = @ + m.size]
  ELSE [q EXCEPT !.latest = @ \cup {m.lane}]

\* The staged queues, with ok = FALSE once a message was refused.
Stage(staged, m) ==
  IF /\ staged.ok
     /\ m.connection \in DOMAIN staged.queues
     /\ m.lane = "reliable" => LaneHasRoom(staged.queues[m.connection], m.size)
  THEN [ok |-> TRUE,
        queues |-> [staged.queues EXCEPT ![m.connection] = Append1(@, staged.count[m.connection], m)],
        count |-> IF m.lane = "reliable"
                  THEN [staged.count EXCEPT ![m.connection] = (@ + 1) % Window]
                  ELSE staged.count]
  ELSE [staged EXCEPT !.ok = FALSE]

Staged(group) == FoldLeft(Stage, [ok |-> TRUE, queues |-> mQueues, count |-> told], group)

\* A refused group leaves everything as it was, and the caller knows.
Admit(group) ==
  LET staged == Staged(group)
  IN  /\ pump = Idle
      /\ staged.ok
      /\ mQueues' = staged.queues
      /\ told' = staged.count
      /\ offer' = Idle
      /\ UNCHANGED <<pump, sent>>

Message(c) ==
  [connection : {c}, lane : {"reliable"}, size : Sizes]
    \cup [connection : {c}, lane : Offered[c], size : {1}]

enqueue(c) == \E m \in Message(c) : Admit(<<m>>)

enqueuePair(c) == \E m, n \in Message(c) : Admit(<<m, n>>)

\* A pair for each of two connections; a broadcast's first message is reliable.
enqueuePairsAtomically(c, d) ==
  \E a, m \in Sizes, b \in Message(c), n \in Message(d) :
    /\ c # d
    /\ Admit(<<[connection |-> c, lane |-> "reliable", size |-> a], b,
               [connection |-> d, lane |-> "reliable", size |-> m], n>>)

enqueueMessagesAtomically(c, d) ==
  \E m \in Message(c), n \in Message(d) : c # d /\ Admit(<<m, n>>)

-----------------------------------------------------------------------------
(* pump(), one call of the transport at a time. *)

Q == mQueues[pump.connection]
SetQ(q) == mQueues' = [mQueues EXCEPT ![pump.connection] = q]

\* The time since the last refill is the time since the last pump and what
\* that pump left over; before the first pump nothing is gained.
refill(q, elapsed) ==
  LET since(b) == q.phase[b] + elapsed
      gained(b) == since(b) \div Interval(b)
      missing(b) == Burst(b) - q.tokens[b]
  IN  IF ~q.initialized THEN [q EXCEPT !.initialized = TRUE]
      ELSE [q EXCEPT
              !.tokens = [b \in Buckets |-> IF gained(b) >= missing(b) THEN Burst(b)
                                            ELSE q.tokens[b] + gained(b)],
              !.phase = [b \in Buckets |-> since(b) % Interval(b)],
              !.blockedFor = IF @ = NotBlocked THEN @
                             ELSE IF @ + elapsed < BlockedDeadline THEN @ + elapsed
                             ELSE BlockedDeadline]

PumpBegins(c, elapsed) ==
  /\ pump = Idle
  /\ c \in DOMAIN mQueues
  /\ mQueues' = [mQueues EXCEPT ![c] = refill(@, elapsed)]
  /\ pump' = [connection |-> c, stage |-> "burst", attempts |-> 0,
              progressed |-> FALSE, blocked |-> FALSE]
  /\ offer' = Idle
  /\ UNCHANGED history

Attempt(bucket) == [Q EXCEPT !.tokens[bucket] = @ - 1]
MayAttempt(bucket) == pump.attempts < SendAttemptsPerPump /\ Q.tokens[bucket] # 0

\* The loop of sendReliable(): in the first round only a burst.
MaySendReliable(stage) ==
  /\ stage \in {"burst", "rest"}
  /\ ~pump.blocked
  /\ Q.reliable # <<>>
  /\ MayAttempt("reliable")
  /\ stage = "burst" => pump.attempts < ReliableBurstBeforeLatest

PopFront(q) == [q EXCEPT !.bytes = @ - Head(q.reliable).size, !.reliable = Tail(@)]

ReliableAccepted ==
  /\ pump # Idle /\ MaySendReliable(pump.stage)
  /\ SetQ(PopFront(Attempt("reliable")))
  /\ pump' = [pump EXCEPT !.attempts = @ + 1, !.progressed = TRUE]
  /\ sent' = [sent EXCEPT ![pump.connection] = (@ + 1) % Window]
  /\ offer' = Idle
  /\ UNCHANGED told

\* Mutant: the message that was refused is taken off the queue.
ReliableBlocked_Mutant ==
  /\ pump # Idle /\ MaySendReliable(pump.stage)
  /\ SetQ(PopFront(Attempt("reliable")))
  /\ pump' = [pump EXCEPT !.attempts = @ + 1, !.blocked = TRUE]
  /\ offer' = Idle
  /\ UNCHANGED history

ReliableBlocked ==
  /\ pump # Idle /\ MaySendReliable(pump.stage)
  /\ SetQ(Attempt("reliable"))
  /\ pump' = [pump EXCEPT !.attempts = @ + 1, !.blocked = TRUE]
  /\ offer' = Idle
  /\ UNCHANGED history

\* The world lanes in rotation.  The loop goes on behind the lane it offered
\* last, which is mNextWorldLatest; the lanes before that one are empty now.
Lane(offset) == WorldLatest[((Q.next + offset) % 4) + 1]
Waiting == {offset \in 0 .. 3 : Lane(offset) \in Q.latest}
MaySendWorld(stage) == stage = "world" /\ Waiting # {} /\ MayAttempt("latest")
Turn == CHOOSE o \in Waiting : \A p \in Waiting : o <= p

\* Mutant: every round starts with the first lane.
Rotated_Mutant(q) == q

\* mNextWorldLatest: the lane after the one that was offered.
Rotated(q) == [q EXCEPT !.next = (@ + Turn + 1) % 4]

WorldAccepted ==
  /\ pump # Idle /\ MaySendWorld(pump.stage)
  /\ SetQ([Rotated(Attempt("latest")) EXCEPT !.latest = @ \ {Lane(Turn)}])
  /\ pump' = [pump EXCEPT !.attempts = @ + 1, !.progressed = TRUE]
  /\ offer' = Lane(Turn)
  /\ UNCHANGED history

\* A blocked lane ends the round of the world lanes.
WorldBlocked ==
  /\ pump # Idle /\ MaySendWorld(pump.stage)
  /\ SetQ(Rotated(Attempt("latest")))
  /\ pump' = [pump EXCEPT !.attempts = @ + 1, !.stage = "control"]
  /\ offer' = Lane(Turn)
  /\ UNCHANGED history

\* The player controls and the presentation have a bucket each.
MaySendSlot(stage) ==
  stage \in {"control", "presentation"} /\ stage \in Q.latest /\ MayAttempt(stage)
MaySend(stage) == MaySendReliable(stage) \/ MaySendWorld(stage) \/ MaySendSlot(stage)
Afterwards == IF pump.stage = "control" THEN "presentation" ELSE "rest"

SlotAccepted ==
  /\ pump # Idle /\ MaySendSlot(pump.stage)
  /\ SetQ([Attempt(pump.stage) EXCEPT !.latest = @ \ {pump.stage}])
  /\ pump' = [pump EXCEPT !.attempts = @ + 1, !.progressed = TRUE,
                          !.stage = Afterwards]
  /\ offer' = pump.stage
  /\ UNCHANGED history

SlotBlocked ==
  /\ pump # Idle /\ MaySendSlot(pump.stage)
  /\ SetQ(Attempt(pump.stage))
  /\ pump' = [pump EXCEPT !.attempts = @ + 1,
                          !.stage = Afterwards]
  /\ offer' = pump.stage
  /\ UNCHANGED history

\* The stage has nothing (more) to offer: on to the next one that has.
NextStage ==
  /\ pump # Idle
  /\ ~MaySend(pump.stage)
  /\ \E from, to \in 1 .. Len(Stages) :
       /\ Stages[from] = pump.stage
       /\ from < to
       /\ \A between \in from .. to - 1 : ~MaySend(Stages[between])
       /\ MaySend(Stages[to]) \/ to = Len(Stages)
       /\ pump' = [pump EXCEPT !.stage = Stages[to]]
  /\ offer' = Idle
  /\ UNCHANGED <<mQueues, history>>

\* Any other answer of the transport: TransportFailed, and the caller lets go
\* of the queue in the same round (failConnection, or clear() in a client).
SendFails ==
  /\ pump # Idle
  /\ MaySend(pump.stage)
  /\ Drop(pump.connection)

\* mFirstReliableBlock and mConsecutiveReliableBlocks at the end of pump().
Blocked(q) ==
  [q EXCEPT !.blockedFor = IF @ = NotBlocked THEN 0 ELSE @, !.blocks = @ + 1]
\* Mutant: a pump that did not try the reliable lane counts as progress.
Released_Mutant(q) == [q EXCEPT !.blockedFor = NotBlocked, !.blocks = 0]
Released(q) ==
  IF pump.progressed \/ q.reliable = <<>>
  THEN [q EXCEPT !.blockedFor = NotBlocked, !.blocks = 0] ELSE q
shouldEvict(q) == q.blocks >= ConsecutiveBlockLimit \/ q.blockedFor >= BlockedDeadline

PumpReturns ==
  /\ pump # Idle
  /\ pump.stage = "rest" /\ ~MaySend("rest")
  /\ pump.blocked => ~shouldEvict(Blocked(Q))
  /\ SetQ(IF pump.blocked THEN Blocked(Q) ELSE Released(Q))
  /\ pump' = Idle
  /\ offer' = Idle
  /\ UNCHANGED history

\* clear(), and OutboundQueueSet::pump() erases the queue.
SlowPeerEvicted ==
  /\ pump # Idle
  /\ pump.stage = "rest" /\ ~MaySend("rest")
  /\ pump.blocked /\ shouldEvict(Blocked(Q))
  /\ Drop(pump.connection)

Send ==
  \/ ReliableAccepted \/ ReliableBlocked
  \/ WorldAccepted \/ WorldBlocked
  \/ SlotAccepted \/ SlotBlocked
  \/ NextStage \/ SendFails \/ PumpReturns \/ SlowPeerEvicted

OutboundNext ==
  \/ \E c \in Connections : attach(c) \/ detach(c) \/ enqueue(c) \/ enqueuePair(c)
  \/ \E c, d \in Connections : enqueuePairsAtomically(c, d) \/ enqueueMessagesAtomically(c, d)
  \/ \E c \in Pumped, elapsed \in Elapses : PumpBegins(c, elapsed)
  \/ Send

OutboundSpec == OutboundInit /\ [][OutboundNext]_outboundVars

\* The application pumps every connection in each of its rounds, a pump runs
\* to its end, and milliseconds pass between the rounds.
LongPump(c) == \E elapsed \in Elapses :
  elapsed >= ReliableRefill /\ elapsed >= LatestRefill /\ PumpBegins(c, elapsed)
OutboundFairSpec == OutboundSpec /\ WF_outboundVars(Send) /\ \A c \in Pumped : SF_outboundVars(LongPump(c))

-----------------------------------------------------------------------------
\* The reliable lane holds what the caller was told is queued and the
\* transport has not accepted, in order: refused groups, blocked sends and
\* failed pumps neither lose nor repeat a message.  mReliableBytes, which is
\* kept by hand, is the size of that (enqueue, enqueuePair, sendReliable).
ReliableInOrder ==
  \A c \in DOMAIN mQueues :
    LET q == mQueues[c]
    IN  /\ \A i \in 1 .. Len(q.reliable) : q.reliable[i].number = (sent[c] + i - 1) % Window
        /\ told[c] = (sent[c] + Len(q.reliable)) % Window
        /\ q.bytes = FoldLeft(LAMBDA n, m : n + m.size, 0, q.reliable)

Attached(c) == c \in DOMAIN mQueues

\* A peer that takes nothing while reliable messages wait for it is evicted,
\* by the count of blocked pumps or by the deadline (shouldEvict).
SilentPeerIsEvicted ==
  \A c \in Pumped :
    (Attached(c) /\ mQueues[c].reliable # <<>>)
      ~> (~Attached(c) \/ (pump # Idle /\ pump.connection = c /\ pump.progressed))

\* No lane starves the others: while the policy leaves an attempt over after
\* the reliable burst, and after the world lanes for the two single slots,
\* every message that waits in a slot is offered to the transport, however
\* busy the reliable lane and the other slots are (mNextWorldLatest; "The
\* initial burst reserves an early opportunity for latest-state traffic").
Attempts(l) == ReliableBurstBeforeLatest
  + (IF l \in Range(WorldLatest) THEN 0 ELSE IF LatestRateBurst < 4 THEN LatestRateBurst ELSE 4)
  + (IF l = "presentation" THEN 1 ELSE 0)
SlotsAreOffered ==
  \A c \in Pumped : \A l \in Offered[c] :
    Attempts(l) < SendAttemptsPerPump =>
      ((Attached(c) /\ l \in mQueues[c].latest)
         ~> (~Attached(c) \/ (pump # Idle /\ pump.connection = c /\ offer = l)))
=============================================================================
