---------------------------- MODULE CommandIntake ----------------------------
(***************************************************************************)
(* ServerCommandIntakeCoordinator and the FixedTickScheduler it owns: the  *)
(* bounded queue between the connections, which submit commands, and the   *)
(* reducer, which gets them stamped and cut into one batch per tick.       *)
(*                                                                         *)
(* A command is its source (session and generation) and a number; accepted *)
(* and admitted are history variables, the commands submit() took and the  *)
(* ones pump() gave to a tick, with their stamps.                          *)
(***************************************************************************)
EXTENDS Integers, Sequences, FiniteSets

CONSTANTS
  Sources,                          \* (session, generation) pairs
  MaximumPendingServerCommands,
  MaximumPendingServerCommandsPerSessionGeneration,
  MaximumServerCommandsPerTick,
  MaximumCatchUpTicks,
  ServerTicksPerSecond,
  NanosecondsPerSecond,
  Epochs, EpochTicks,               \* instants and ticks the server may start at
  MaxTick, MaxInstant, MaxOrdinal,  \* the largest values of their types
  ClockStepsBack,                   \* whether the clock may break its promise
  Submissions, Horizon              \* bounds for TLC

ASSUME IntakeAssumption ==
  /\ MaximumPendingServerCommands \in Nat
  /\ MaximumServerCommandsPerTick \in Nat \ {0}
  /\ MaximumCatchUpTicks \in Nat \ {0}
  /\ ServerTicksPerSecond \in Nat \ {0}
  /\ NanosecondsPerSecond \in Nat
  /\ NanosecondsPerSecond >= ServerTicksPerSecond
  /\ {MaxTick, MaxInstant, MaxOrdinal, Submissions, Horizon} \subseteq Nat
  /\ EpochTicks \subseteq 0 .. MaxTick
  /\ \A instant \in Epochs : instant \in Nat /\ instant + Horizon <= MaxInstant

VARIABLES
  epoch,            \* mEpoch
  epochTick,        \* mEpochTick
  now,              \* the clock, relative to mEpoch
  lastObservation,  \* mLastObservation
  nextTick,         \* mNextTick
  pending,          \* mPending
  nextOrdinal,      \* mNextIngressOrdinal; MaxOrdinal + 1 when there is none
  terminal,         \* mTerminalError
  lag,              \* mDueTickLag of the last pump
  accepted, admitted

start == <<epoch, epochTick>>
vars == <<start, now, lastObservation, nextTick, pending, nextOrdinal, terminal, lag, accepted, admitted>>

Command == [source : Sources, number : 1 .. Submissions]
Errors == {"None", "ClockMovedBackwards", "DeadlineOverflow", "TickExhausted",
           "IngressOrdinalExhausted"}

\* The members have their types and the queue its bound.
TypeOK ==
  /\ now \in 0 .. Horizon
  /\ lastObservation \in 0 .. Horizon
  /\ epoch \in Epochs
  /\ epochTick \in EpochTicks
  /\ nextTick \in epochTick .. MaxTick
  /\ pending \in Seq(Command)
  /\ Len(pending) <= MaximumPendingServerCommands
  /\ nextOrdinal \in 1 .. MaxOrdinal + 1
  /\ terminal \in Errors
  /\ lag \in Nat

Init ==
  /\ epoch \in Epochs
  /\ epochTick \in EpochTicks
  /\ now = 0
  /\ lastObservation = 0
  /\ nextTick = epochTick
  /\ pending = <<>>
  /\ nextOrdinal = 1
  /\ terminal = "None"
  /\ lag = 0
  /\ accepted = <<>>
  /\ admitted = <<>>

-----------------------------------------------------------------------------
(* FixedTickScheduler *)

\* tickOffsetNanoseconds(): rounded up within the second (down in the variant).
TickOffset_Mutant(tick) ==
  (tick \div ServerTicksPerSecond) * NanosecondsPerSecond
    + ((tick % ServerTicksPerSecond) * NanosecondsPerSecond) \div ServerTicksPerSecond

TickOffset(tick) ==
  (tick \div ServerTicksPerSecond) * NanosecondsPerSecond
    + ((tick % ServerTicksPerSecond) * NanosecondsPerSecond + ServerTicksPerSecond - 1)
        \div ServerTicksPerSecond

\* maximumDueTick(): rounded down within the second (up in the variant).
MaximumDueTick_Mutant(elapsed) ==
  (elapsed \div NanosecondsPerSecond) * ServerTicksPerSecond
    + ((elapsed % NanosecondsPerSecond) * ServerTicksPerSecond + NanosecondsPerSecond - 1)
        \div NanosecondsPerSecond

MaximumDueTick(elapsed) ==
  (elapsed \div NanosecondsPerSecond) * ServerTicksPerSecond
    + ((elapsed % NanosecondsPerSecond) * ServerTicksPerSecond) \div NanosecondsPerSecond

\* deadlineNanoseconds(), relative to the epoch.
Deadline(tick) == TickOffset(tick - epochTick)

\* The checks of FixedTickScheduler::pump(), in their order.
SchedulerError ==
  IF now < lastObservation THEN "ClockMovedBackwards"
  ELSE IF nextTick = MaxTick THEN "TickExhausted"
  ELSE IF epoch + Deadline(nextTick) > MaxInstant THEN "DeadlineOverflow"
  ELSE IF now >= Deadline(nextTick) /\ MaximumDueTick(now) >= MaxTick - epochTick
  THEN "TickExhausted"
  ELSE "None"

DueTickLag ==
  IF now < Deadline(nextTick) THEN 0 ELSE epochTick + MaximumDueTick(now) - nextTick + 1

\* Ticks that one pump emits.
Emitted == IF DueTickLag < MaximumCatchUpTicks THEN DueTickLag ELSE MaximumCatchUpTicks

-----------------------------------------------------------------------------
(* ServerCommandIntakeCoordinator *)

PendingFor(source) == Cardinality({i \in DOMAIN pending : pending[i].source = source})

NoOrdinal == nextOrdinal > MaxOrdinal

\* Variant: only the session's share of the queue is looked at.
HasRoom_Mutant(source) ==
  PendingFor(source) < MaximumPendingServerCommandsPerSessionGeneration

HasRoom(source) ==
  /\ PendingFor(source) < MaximumPendingServerCommandsPerSessionGeneration
  /\ Len(pending) < MaximumPendingServerCommands

Submit(source) ==
  LET command == [source |-> source, number |-> Len(accepted) + 1]
  IN  /\ Len(accepted) < Submissions
      /\ IF terminal # "None" \/ NoOrdinal
         THEN /\ terminal' = IF terminal = "None" THEN "IngressOrdinalExhausted" ELSE terminal
              /\ UNCHANGED <<pending, accepted>>
         ELSE IF ~HasRoom(source)
         THEN UNCHANGED <<terminal, pending, accepted>>
         ELSE /\ pending' = Append(pending, command)
              /\ accepted' = Append(accepted, command)
              /\ UNCHANGED terminal
      /\ UNCHANGED <<start, now, lastObservation, nextTick, nextOrdinal, lag, admitted>>

\* The number of commands that the emitted ticks take (in the variant, only
\* when there are enough for all of them).
AdmittedCount_Mutant(ticks) ==
  LET most == ticks * MaximumServerCommandsPerTick
  IN  IF Len(pending) < most THEN 0 ELSE most

AdmittedCount(ticks) ==
  LET most == ticks * MaximumServerCommandsPerTick
  IN  IF Len(pending) < most THEN Len(pending) ELSE most

\* The i-th admitted command goes to the tick after each full batch.
TickFor(i) == nextTick + (i - 1) \div MaximumServerCommandsPerTick

Stamped(count) ==
  [i \in 1 .. count |-> [tick |-> TickFor(i), ordinal |-> nextOrdinal + i - 1,
                         command |-> pending[i]]]

\* mPending.erase of the admitted ones; the variant erases the whole queue.
Remaining_Mutant(count) == <<>>

Remaining(count) == SubSeq(pending, count + 1, Len(pending))

Pump ==
  /\ terminal = "None"
  /\ IF SchedulerError # "None"
     THEN /\ terminal' = SchedulerError
          /\ lag' = 0
          /\ UNCHANGED <<lastObservation, nextTick, pending, nextOrdinal, admitted>>
     ELSE LET count == AdmittedCount(Emitted)
          IN  /\ lastObservation' = now
              /\ nextTick' = nextTick + Emitted
              /\ lag' = DueTickLag
              /\ IF count > MaxOrdinal + 1 - nextOrdinal
                 THEN /\ terminal' = "IngressOrdinalExhausted"
                      /\ UNCHANGED <<pending, nextOrdinal, admitted>>
                 ELSE /\ admitted' = admitted \o Stamped(count)
                      /\ pending' = Remaining(count)
                      /\ nextOrdinal' = nextOrdinal + count
                      /\ UNCHANGED terminal
  /\ UNCHANGED <<start, now, accepted>>

Tick ==
  /\ now < Horizon
  /\ now' = now + 1
  /\ UNCHANGED <<start, lastObservation, nextTick, pending, nextOrdinal, terminal, lag, accepted,
                 admitted>>

\* A clock that does not keep the promise of MonotonicClock.
ClockMovesBack ==
  /\ ClockStepsBack
  /\ now > 0
  /\ terminal = "None"
  /\ now' = now - 1
  /\ UNCHANGED <<start, lastObservation, nextTick, pending, nextOrdinal, terminal, lag, accepted,
                 admitted>>

Next ==
  \/ \E source \in Sources : Submit(source)
  \/ Pump
  \/ Tick
  \/ ClockMovesBack

Spec == Init /\ [][Next]_vars

\* The application pumps in a loop and the clock goes on.
FairSpec == Spec /\ WF_vars(Pump) /\ WF_vars(Tick)

-----------------------------------------------------------------------------
\* No command that submit() accepted is lost, duplicated or overtaken: what
\* was admitted followed by what is pending is what was accepted, in order, and
\* the stamps say so: ordinals strictly increase and ticks never go back, over
\* all pumps.
CommandsKeepTheirOrder ==
  /\ [i \in DOMAIN admitted |-> admitted[i].command] \o pending = accepted
  /\ \A i, j \in DOMAIN admitted :
       i < j => /\ admitted[i].ordinal < admitted[j].ordinal
                /\ admitted[i].tick <= admitted[j].tick

\* A tick is emitted only when its deadline was reached (the two roundings of
\* the scheduler agree), and it gets no more commands than its budget, also when
\* several ticks catch up at once.
TicksAreEarned ==
  /\ nextTick > epochTick => Deadline(nextTick - 1) <= lastObservation
  /\ \A i \in DOMAIN admitted :
       Cardinality({j \in DOMAIN admitted : admitted[j].tick = admitted[i].tick})
         <= MaximumServerCommandsPerTick

\* The lag is exactly the number of ticks that are due and were not emitted
\* (an unsigned subtraction in the code: it must not wrap).
LagCountsDueTicks ==
  [][ (Pump /\ terminal' \notin {"ClockMovedBackwards", "TickExhausted", "DeadlineOverflow"}) =>
        lag' = Cardinality({tick \in nextTick .. MaxTick : Deadline(tick) <= now}) ]_vars

\* n commands were accepted and there is time for a tick for each pending one.
InTime(n) == Len(accepted) >= n /\ Deadline(nextTick + Len(pending)) <= Horizon

\* An accepted command is given to a tick, unless the coordinator terminates
\* or the clock keeps breaking its promise: every due tick takes at least one
\* of the commands before it.
CommandsAreAdmitted ==
  <>[][now' >= now]_now =>
    \A n \in 1 .. Submissions :
      InTime(n) ~> (Len(admitted) >= n \/ terminal # "None")
=============================================================================
