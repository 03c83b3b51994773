----------------------------- MODULE QueueProofs -----------------------------
(***************************************************************************)
(* The server's two kinds of queues: what comes in waits in the command    *)
(* intake, what goes out in the outbound queues.                           *)
(*                                                                         *)
(* For every policy, every tick rate and every epoch: the intake neither   *)
(* loses nor reorders a command, and the scheduler, whose two roundings    *)
(* are inverse to each other, emits exactly the ticks that are due, each   *)
(* with no more commands than its budget.                                  *)
(*                                                                         *)
(* For every policy, every number of connections and groups of any length: *)
(* the reliable lanes neither lose, repeat nor reorder a message, and no   *)
(* counter of an outbound queue leaves its bounds.                         *)
(***************************************************************************)
EXTENDS CommandIntake, OutboundQueue, FiniteSetTheorems, SequenceTheorems,
        WellFoundedInduction, TLAPS

-----------------------------------------------------------------------------
(* The command intake. *)

Stamp == [tick : Nat, ordinal : Nat, command : Command]

\* The history has its type.
HistoryOK ==
  /\ accepted \in Seq(Command)
  /\ admitted \in Seq(Stamp)

\* The ticks and ordinals in use are behind the counters: what the next pump
\* stamps comes after them.
StampsInUse ==
  \A i \in DOMAIN admitted : admitted[i].ordinal < nextOrdinal /\ admitted[i].tick < nextTick

IInv == TypeOK /\ HistoryOK /\ StampsInUse /\ CommandsKeepTheirOrder /\ TicksAreEarned

-----------------------------------------------------------------------------
(* Arithmetic of the scheduler. *)

\* Commands are appended to a queue at its end.
LEMMA ConcatCommands ==
  ASSUME NEW s \in Seq(Command), NEW t \in Seq(Command), NEW u \in Seq(Command)
  PROVE  s \o (t \o u) = (s \o t) \o u
BY ConcatAssociative, SMTT(30)

LEMMA LessGrows ==
  ASSUME NEW a \in Nat, NEW b \in Nat, NEW c \in Nat, a < b, b <= c
  PROVE  a < c
OBVIOUS

\* Quotient and remainder.
LEMMA QuotientAndRemainder ==
  ASSUME NEW a \in Nat, NEW d \in Nat \ {0}
  PROVE  /\ a \div d \in Nat
         /\ a % d \in 0 .. d - 1
         /\ a = d * (a \div d) + (a % d)
  OBVIOUS

\* Multiplying by a positive number keeps the order.
LEMMA ProductKeepsOrder ==
  ASSUME NEW a \in Int, NEW b \in Int, NEW d \in Nat \ {0}
  PROVE  /\ d * a \in Int /\ d * b \in Int
         /\ a <= b <=> d * a <= d * b
         /\ a < b <=> d * a < d * b
  OBVIOUS

\* What the rounding up of tickOffsetNanoseconds() is below.
LEMMA RoundedUp ==
  ASSUME NEW a \in Nat, NEW x \in Int, NEW d \in Nat \ {0}
  PROVE  (a + d - 1) \div d <= x <=> a <= d * x
<1> DEFINE c == (a + d - 1) \div d
           m == (a + d - 1) % d
<1>0. a + d - 1 \in Nat
  OBVIOUS
<1>1. c \in Nat /\ m \in 0 .. d - 1 /\ a + d - 1 = d * c + m
  BY <1>0, QuotientAndRemainder
<1> HIDE DEF c, m
<1>2. d * c \in Int /\ d * x \in Int /\ d * (x + 1) = d * x + d /\ d * (x + 1) \in Int
  BY <1>1
<1>3. c <= x => a <= d * x
  BY <1>1, <1>2, ProductKeepsOrder
<1>4. a <= d * x => c < x + 1
  <2>1. a <= d * x => d * c < d * (x + 1)
    BY <1>1, <1>2
  <2> QED
    BY <1>1, <2>1, ProductKeepsOrder
<1>5. c <= x <=> a <= d * x
  BY <1>1, <1>3, <1>4
<1> QED
  BY <1>5 DEF c

\* What the rounding down of maximumDueTick() is above.
LEMMA RoundedDown ==
  ASSUME NEW a \in Nat, NEW x \in Int, NEW d \in Nat \ {0}
  PROVE  x <= a \div d <=> d * x <= a
<1> DEFINE c == a \div d
           m == a % d
<1>1. c \in Nat /\ m \in 0 .. d - 1 /\ a = d * c + m
  BY QuotientAndRemainder
<1> HIDE DEF c, m
<1>2. d * c \in Int /\ d * x \in Int /\ d * (c + 1) = d * c + d /\ d * (c + 1) \in Int
  BY <1>1
<1>3. x <= c => d * x <= a
  BY <1>1, <1>2, ProductKeepsOrder
<1>4. d * x <= a => x < c + 1
  <2>1. d * x <= a => d * x < d * (c + 1)
    BY <1>1, <1>2
  <2> QED
    BY <1>1, <2>1, ProductKeepsOrder
<1>5. x <= c <=> d * x <= a
  BY <1>1, <1>3, <1>4
<1> QED
  BY <1>5 DEF c

\* tickOffsetNanoseconds() is the time of a tick, rounded up.
LEMMA TickOffsetRoundsUp ==
  ASSUME NEW tick \in Nat, NEW elapsed \in Nat
  PROVE  /\ TickOffset(tick) \in Nat
         /\ TickOffset(tick) <= elapsed
              <=> tick * NanosecondsPerSecond <= elapsed * ServerTicksPerSecond
<1> DEFINE T == ServerTicksPerSecond
           N == NanosecondsPerSecond
           q == tick \div T
           r == tick % T
<1>1. T \in Nat \ {0} /\ N \in Nat
  BY IntakeAssumption
<1>2. q \in Nat /\ r \in 0 .. T - 1 /\ tick = T * q + r
  BY <1>1, QuotientAndRemainder
<1> HIDE DEF q, r
<1>3. TickOffset(tick) = q * N + (r * N + T - 1) \div T
  BY DEF TickOffset, q, r
<1> HIDE DEF T, N
<1>4. /\ r * N \in Nat /\ q * N \in Nat /\ elapsed - q * N \in Int
      /\ r * N + T - 1 \in Nat
  BY <1>1, <1>2
<1>5. (r * N + T - 1) \div T \in Nat
  BY <1>1, <1>4, QuotientAndRemainder
<1>6. (r * N + T - 1) \div T <= elapsed - q * N <=> r * N <= T * (elapsed - q * N)
  BY <1>1, <1>4, RoundedUp
<1>7. /\ T * (elapsed - q * N) = elapsed * T - T * q * N
      /\ tick * N = T * q * N + r * N
      /\ T * q * N \in Int /\ elapsed * T \in Int
  BY <1>1, <1>2
<1>8. TickOffset(tick) <= elapsed <=> tick * N <= elapsed * T
  BY <1>3, <1>4, <1>5, <1>6, <1>7
<1> QED
  BY <1>3, <1>4, <1>5, <1>8 DEF T, N

\* maximumDueTick() is the number of ticks in a time, rounded down.
LEMMA MaximumDueTickRoundsDown ==
  ASSUME NEW tick \in Nat, NEW elapsed \in Nat
  PROVE  /\ MaximumDueTick(elapsed) \in Nat
         /\ tick <= MaximumDueTick(elapsed)
              <=> tick * NanosecondsPerSecond <= elapsed * ServerTicksPerSecond
<1> DEFINE T == ServerTicksPerSecond
           N == NanosecondsPerSecond
           q == elapsed \div N
           r == elapsed % N
<1>1. T \in Nat \ {0} /\ N \in Nat \ {0}
  BY IntakeAssumption
<1>2. q \in Nat /\ r \in 0 .. N - 1 /\ elapsed = N * q + r
  BY <1>1, QuotientAndRemainder
<1> HIDE DEF q, r
<1>3. MaximumDueTick(elapsed) = q * T + (r * T) \div N
  BY DEF MaximumDueTick, q, r
<1> HIDE DEF T, N
<1>4. r * T \in Nat /\ q * T \in Nat /\ tick - q * T \in Int
  BY <1>1, <1>2
<1>5. (r * T) \div N \in Nat
  BY <1>1, <1>4, QuotientAndRemainder
<1>6. tick - q * T <= (r * T) \div N <=> N * (tick - q * T) <= r * T
  BY <1>1, <1>4, RoundedDown
<1>7. /\ N * (tick - q * T) = tick * N - N * q * T
      /\ elapsed * T = N * q * T + r * T
      /\ N * q * T \in Int /\ tick * N \in Int
  BY <1>1, <1>2
<1>8. tick <= MaximumDueTick(elapsed) <=> tick * N <= elapsed * T
  BY <1>3, <1>4, <1>5, <1>6, <1>7
<1> QED
  BY <1>3, <1>4, <1>5, <1>8 DEF T, N

\* The two roundings of FixedTickScheduler agree: a tick is among the due ones
\* of maximumDueTick() exactly when the deadline of tickOffsetNanoseconds() was
\* reached, for every tick rate.
THEOREM RoundingsAgree ==
  ASSUME NEW tick \in Nat, NEW elapsed \in Nat
  PROVE  TickOffset(tick) <= elapsed <=> tick <= MaximumDueTick(elapsed)
  BY TickOffsetRoundsUp, MaximumDueTickRoundsDown

-----------------------------------------------------------------------------
(* One pump. *)

\* The deadline of a tick, and the ticks that are due.
LEMMA DueTicks ==
  ASSUME TypeOK, NEW tick \in Nat, tick >= epochTick, NEW instant \in Nat
  PROVE  /\ Deadline(tick) \in Nat
         /\ MaximumDueTick(instant) \in Nat
         /\ Deadline(tick) <= instant <=> tick <= epochTick + MaximumDueTick(instant)
<1>1. epochTick \in Nat /\ tick - epochTick \in Nat
  BY IntakeAssumption DEF TypeOK
<1>2. /\ Deadline(tick) \in Nat
      /\ MaximumDueTick(instant) \in Nat
      /\ Deadline(tick) <= instant <=> tick - epochTick <= MaximumDueTick(instant)
  BY <1>1, TickOffsetRoundsUp, MaximumDueTickRoundsDown, RoundingsAgree DEF Deadline
<1> QED
  BY <1>1, <1>2

\* A pump that the scheduler accepts emits ticks that are due and that exist;
\* the unsigned subtraction of the lag does not wrap.
LEMMA EmittedTicks ==
  ASSUME TypeOK, SchedulerError = "None"
  PROVE  /\ now >= lastObservation
         /\ DueTickLag \in Nat
         /\ Emitted \in Nat
         /\ nextTick + Emitted \in epochTick .. MaxTick
         /\ Emitted # 0 => Deadline(nextTick + Emitted - 1) <= now
<1>1. /\ now \in Nat /\ lastObservation \in Nat /\ nextTick \in Nat /\ nextTick >= epochTick
      /\ MaxTick \in Nat /\ epochTick \in Nat /\ nextTick <= MaxTick
      /\ MaximumCatchUpTicks \in Nat \ {0}
  BY IntakeAssumption DEF TypeOK
<1> DEFINE due == MaximumDueTick(now)
<1>2. /\ Deadline(nextTick) \in Nat
      /\ due \in Nat
      /\ Deadline(nextTick) <= now <=> nextTick <= epochTick + due
  BY <1>1, DueTicks
<1>3. /\ now >= lastObservation
      /\ now >= Deadline(nextTick) => due < MaxTick - epochTick
  BY <1>1, <1>2 DEF SchedulerError
<1>4. DueTickLag = IF now < Deadline(nextTick) THEN 0 ELSE epochTick + due - nextTick + 1
  BY DEF DueTickLag
<1> HIDE DEF due
<1>5. DueTickLag \in Nat /\ (DueTickLag # 0 => /\ nextTick + DueTickLag - 1 = epochTick + due
                                              /\ nextTick + DueTickLag <= MaxTick)
  BY <1>1, <1>2, <1>3, <1>4
<1>6. Emitted \in Nat /\ Emitted <= DueTickLag
  BY <1>1, <1>5 DEF Emitted
<1>7. nextTick + Emitted \in epochTick .. MaxTick
  BY <1>1, <1>5, <1>6
<1>8. ASSUME Emitted # 0 PROVE Deadline(nextTick + Emitted - 1) <= now
  <2>1. /\ nextTick + Emitted - 1 \in Nat
        /\ nextTick + Emitted - 1 >= epochTick
        /\ nextTick + Emitted - 1 <= epochTick + due
    BY <1>1, <1>2, <1>5, <1>6, <1>8
  <2> HIDE <1>4
  <2> QED
    BY <1>1, <2>1, DueTicks DEF due
<1> QED
  BY <1>3, <1>5, <1>6, <1>7, <1>8

\* The commands that a pump admits fit into the ticks it emits.
LEMMA AdmittedFit ==
  ASSUME TypeOK, NEW ticks \in Nat, NEW i \in 1 .. AdmittedCount(ticks)
  PROVE  /\ AdmittedCount(ticks) \in 0 .. Len(pending)
         /\ TickFor(i) \in Nat
         /\ TickFor(i) >= nextTick
         /\ TickFor(i) < nextTick + ticks
<1> DEFINE M == MaximumServerCommandsPerTick
           q == (i - 1) \div M
           m == (i - 1) % M
<1>1. M \in Nat \ {0} /\ nextTick \in Nat /\ Len(pending) \in Nat
  BY IntakeAssumption, SMTT(20) DEF TypeOK
<1>2. ticks * M \in Nat
  BY <1>1
<1>3. AdmittedCount(ticks) \in 0 .. Len(pending) /\ AdmittedCount(ticks) <= ticks * M
  BY <1>1, <1>2 DEF AdmittedCount
<1>4. i - 1 \in Nat /\ i - 1 < ticks * M
  BY <1>2, <1>3
<1>5. q \in Nat /\ m \in 0 .. M - 1 /\ i - 1 = M * q + m
  BY <1>1, <1>4, QuotientAndRemainder
<1>6. TickFor(i) = nextTick + q
  BY DEF TickFor
<1> HIDE DEF q, m, M
<1>7. q < ticks
  <2>1. M * q < M * ticks
    BY <1>1, <1>4, <1>5
  <2> QED
    BY <1>1, <1>5, <2>1, ProductKeepsOrder
<1> QED
  BY <1>1, <1>3, <1>5, <1>6, <1>7

\* A tick is given no more commands than its budget.
LEMMA BudgetKept ==
  ASSUME TypeOK, NEW n \in Nat, NEW count \in Nat, NEW tick \in Nat, tick >= nextTick,
         NEW S, S \subseteq {j \in n + 1 .. n + count : TickFor(j - n) = tick}
  PROVE  Cardinality(S) <= MaximumServerCommandsPerTick
<1> DEFINE M == MaximumServerCommandsPerTick
           first == M * (tick - nextTick)
<1>1. M \in Nat \ {0} /\ nextTick \in Nat /\ tick - nextTick \in Nat
  BY IntakeAssumption DEF TypeOK
<1>2. first \in Nat
  BY <1>1
<1>3. ASSUME NEW j \in S PROVE j \in n + 1 + first .. n + first + M
  <2> DEFINE a == j - n - 1
             q == a \div M
             m == a % M
  <2>1. a \in Nat /\ j \in Nat /\ TickFor(j - n) = tick /\ j - n - 1 = a
    BY <1>3
  <2>2. q \in Nat /\ m \in 0 .. M - 1 /\ a = M * q + m
    BY <1>1, <2>1, QuotientAndRemainder
  <2>3. TickFor(j - n) = nextTick + q
    BY <2>1 DEF TickFor
  <2> HIDE DEF q, m
  <2>4. q = tick - nextTick
    BY <1>1, <2>1, <2>2, <2>3
  <2>5. a = first + m
    BY <2>2, <2>4
  <2> HIDE DEF first
  <2> QED
    BY <1>1, <1>2, <2>1, <2>2, <2>5
<1> HIDE DEF first
<1>4. S \subseteq n + 1 + first .. n + first + M
  BY <1>3
<1>5. /\ IsFiniteSet(n + 1 + first .. n + first + M)
      /\ Cardinality(n + 1 + first .. n + first + M) = M
  <2>1. n + 1 + first \in Int /\ n + first + M \in Int
    BY <1>1, <1>2
  <2>2. n + first + M >= n + 1 + first /\ (n + first + M) - (n + 1 + first) + 1 = M
    BY <1>1, <1>2
  <2> QED
    BY <2>1, <2>2, FS_Interval
<1> QED
  BY <1>4, <1>5, FS_Subset

-----------------------------------------------------------------------------
(* The invariant. *)

\* The commands of a sequence of stamped commands.
LEMMA CommandsOfStamped ==
  ASSUME NEW stamped \in Seq(Stamp)
  PROVE  LET commands == [i \in DOMAIN stamped |-> stamped[i].command]
         IN  /\ commands \in Seq(Command)
             /\ Len(commands) = Len(stamped)
             /\ \A i \in 1 .. Len(stamped) : commands[i] = stamped[i].command
<1> DEFINE commands == [i \in DOMAIN stamped |-> stamped[i].command]
<1>1. DOMAIN stamped = 1 .. Len(stamped) /\ Len(stamped) \in Nat
  BY LenProperties
<1>2. \A i \in 1 .. Len(stamped) : stamped[i].command \in Command
  <2>1. \A i \in 1 .. Len(stamped) : stamped[i] \in Stamp
    BY ElementOfSeq
  <2> QED
    BY <2>1 DEF Stamp
<1>3. commands \in [1 .. Len(stamped) -> Command]
  BY <1>1, <1>2
<1>4. commands \in Seq(Command) /\ Len(commands) = Len(stamped)
  BY <1>1, <1>3
<1> QED
  BY <1>1, <1>4

\* The three outcomes of pump(): the scheduler fails, the ordinals run out, or
\* a prefix of the queue is stamped and appended to what was admitted.
LEMMA PumpOutcome ==
  ASSUME TypeOK, HistoryOK, Pump, SchedulerError = "None",
         ~(AdmittedCount(Emitted) > MaxOrdinal + 1 - nextOrdinal)
  PROVE  LET count == AdmittedCount(Emitted)
             n == Len(admitted)
         IN  /\ count \in 0 .. Len(pending)
             /\ admitted' \in Seq(Stamp) /\ Len(admitted') = n + count
             /\ \A i \in 1 .. n : admitted'[i] = admitted[i]
             /\ \A i \in n + 1 .. n + count :
                  /\ admitted'[i].tick = TickFor(i - n)
                  /\ admitted'[i].tick \in Nat
                  /\ admitted'[i].tick >= nextTick
                  /\ admitted'[i].tick < nextTick + Emitted
                  /\ admitted'[i].ordinal = nextOrdinal + (i - n) - 1
                  /\ admitted'[i].command = pending[i - n]
             /\ pending' \in Seq(Command) /\ Len(pending') = Len(pending) - count
             /\ \A i \in 1 .. Len(pending) - count : pending'[i] = pending[count + i]
<1> DEFINE count == AdmittedCount(Emitted)
           n == Len(admitted)
<1>1. Emitted \in Nat
  BY EmittedTicks
<1>2. /\ pending \in Seq(Command) /\ Len(pending) \in Nat /\ nextOrdinal \in Nat \ {0}
      /\ MaximumServerCommandsPerTick \in Nat
  <2>1. pending \in Seq(Command) /\ nextOrdinal \in 1 .. MaxOrdinal + 1
    BY DEF TypeOK
  <2>2. MaxOrdinal \in Nat /\ MaximumServerCommandsPerTick \in Nat
    BY IntakeAssumption
  <2>3. nextOrdinal \in Nat \ {0}
    BY <2>1, <2>2
  <2> QED
    BY <2>1, <2>2, <2>3, LenProperties
<1>3. count \in 0 .. Len(pending)
  <2>1. Emitted * MaximumServerCommandsPerTick \in Nat
    BY <1>1, <1>2
  <2> QED
    BY <1>2, <2>1 DEF AdmittedCount
<1>4. \A i \in 1 .. count : /\ TickFor(i) \in Nat
                            /\ TickFor(i) >= nextTick
                            /\ TickFor(i) < nextTick + Emitted
  BY <1>1, AdmittedFit
<1>5. admitted' = admitted \o Stamped(count) /\ pending' = Remaining(count)
  BY DEF Pump
<1> HIDE DEF count
<1>6. \A i \in 1 .. Len(pending) : pending[i] \in Command
  BY <1>2, ElementOfSeq
<1>7. /\ Stamped(count) \in Seq(Stamp) /\ Len(Stamped(count)) = count
      /\ \A i \in 1 .. count :
           Stamped(count)[i] = [tick |-> TickFor(i), ordinal |-> nextOrdinal + i - 1,
                                command |-> pending[i]]
  <2>1. \A i \in 1 .. count :
          [tick |-> TickFor(i), ordinal |-> nextOrdinal + i - 1, command |-> pending[i]] \in Stamp
    BY <1>2, <1>3, <1>4, <1>6 DEF Stamp
  <2>2. Stamped(count) \in [1 .. count -> Stamp]
    BY <2>1 DEF Stamped
  <2>3. Stamped(count) \in Seq(Stamp) /\ Len(Stamped(count)) = count
    BY <1>3, <2>2
  <2> QED
    BY <2>3 DEF Stamped
<1>8. /\ admitted' \in Seq(Stamp) /\ Len(admitted') = n + count
      /\ n \in Nat
      /\ \A i \in 1 .. n + count :
           admitted'[i] = IF i <= n THEN admitted[i] ELSE Stamped(count)[i - n]
  <2>1. admitted \in Seq(Stamp)
    BY DEF HistoryOK
  <2> QED
    BY <1>5, <1>7, <2>1, ConcatProperties, LenProperties
<1>9. \A i \in 1 .. n : admitted'[i] = admitted[i]
  BY <1>3, <1>8
<1>10. \A i \in n + 1 .. n + count :
         admitted'[i] = [tick |-> TickFor(i - n), ordinal |-> nextOrdinal + (i - n) - 1,
                         command |-> pending[i - n]]
  <2> SUFFICES ASSUME NEW i \in n + 1 .. n + count
               PROVE  admitted'[i] = [tick |-> TickFor(i - n),
                                      ordinal |-> nextOrdinal + (i - n) - 1,
                                      command |-> pending[i - n]]
    OBVIOUS
  <2>1. i - n \in 1 .. count /\ i \in 1 .. n + count /\ ~(i <= n)
    BY <1>3, <1>8
  <2> QED
    BY <1>7, <1>8, <2>1
<1>11. /\ pending' \in Seq(Command) /\ Len(pending') = Len(pending) - count
       /\ \A i \in 1 .. Len(pending) - count : pending'[i] = pending[count + i]
  <2>1. \A i \in count + 1 .. Len(pending) : pending[i] \in Command
    BY <1>2, <1>3, <1>6
  <2>2. count + 1 \in Int /\ Len(pending) \in Int
    BY <1>2, <1>3
  <2>3. /\ pending' \in Seq(Command)
        /\ Len(pending') = IF count + 1 <= Len(pending) THEN Len(pending) - (count + 1) + 1 ELSE 0
        /\ \A i \in 1 .. Len(pending) - (count + 1) + 1 : pending'[i] = pending[(count + 1) + i - 1]
    BY <1>5, <2>1, <2>2, SubSeqProperties, SMTT(20) DEF Remaining
  <2> DEFINE l == Len(pending)
  <2>4. count \in 0 .. l /\ l \in Nat
    BY <1>2, <1>3
  <2>5. Len(pending') = IF count + 1 <= l THEN l - (count + 1) + 1 ELSE 0
    BY <2>3
  <2> HIDE DEF l
  <2>6. Len(pending') = l - count /\ l - (count + 1) + 1 = l - count
    BY <2>4, <2>5
  <2>7. \A i \in 1 .. l - count : (count + 1) + i - 1 = count + i
    BY <2>4
  <2> QED
    BY <2>3, <2>6, <2>7, Zenon DEF l
<1>12. \A i \in n + 1 .. n + count :
         /\ admitted'[i].tick = TickFor(i - n)
         /\ admitted'[i].tick \in Nat
         /\ admitted'[i].tick >= nextTick
         /\ admitted'[i].tick < nextTick + Emitted
         /\ admitted'[i].ordinal = nextOrdinal + (i - n) - 1
         /\ admitted'[i].command = pending[i - n]
  <2> SUFFICES ASSUME NEW i \in n + 1 .. n + count
               PROVE  /\ admitted'[i].tick = TickFor(i - n)
                      /\ admitted'[i].tick \in Nat
                      /\ admitted'[i].tick >= nextTick
                      /\ admitted'[i].tick < nextTick + Emitted
                      /\ admitted'[i].ordinal = nextOrdinal + (i - n) - 1
                      /\ admitted'[i].command = pending[i - n]
    OBVIOUS
  <2>1. i - n \in 1 .. count
    BY <1>3, <1>8
  <2>2. admitted'[i] = [tick |-> TickFor(i - n), ordinal |-> nextOrdinal + (i - n) - 1,
                        command |-> pending[i - n]]
    BY <1>10
  <2>3. TickFor(i - n) \in Nat /\ TickFor(i - n) >= nextTick /\ TickFor(i - n) < nextTick + Emitted
    BY <1>4, <2>1
  <2> QED
    BY <2>2, <2>3
<1> QED
  BY <1>3, <1>8, <1>9, <1>11, <1>12 DEF count

\* A command that submit() takes.
LEMMA SubmittedCommand ==
  ASSUME HistoryOK, NEW source \in Sources, Len(accepted) < Submissions
  PROVE  [source |-> source, number |-> Len(accepted) + 1] \in Command
  BY IntakeAssumption, LenProperties DEF HistoryOK, Command

\* submit() keeps the invariant: a command goes to the end of both sequences.
LEMMA SubmitKeepsIInv ==
  ASSUME IInv, NEW source \in Sources, Submit(source)
  PROVE  IInv'
<1> USE DEF IInv
<1>1. CASE UNCHANGED <<pending, accepted>>
  <2>1. terminal' \in Errors
    BY DEF Submit, TypeOK, Errors
  <2>2. TypeOK'
    BY <1>1, <2>1 DEF Submit, TypeOK, start
  <2>3. HistoryOK' /\ StampsInUse' /\ CommandsKeepTheirOrder'
    BY <1>1 DEF Submit, HistoryOK, StampsInUse, CommandsKeepTheirOrder
  <2>4. TicksAreEarned'
    BY DEF Submit, TicksAreEarned, Deadline, start
  <2> QED
    BY <2>2, <2>3, <2>4
<1>2. CASE ~UNCHANGED <<pending, accepted>>
  <2> DEFINE command == [source |-> source, number |-> Len(accepted) + 1]
             commands == [i \in DOMAIN admitted |-> admitted[i].command]
  <2>1. /\ HasRoom(source) /\ UNCHANGED terminal
        /\ pending' = Append(pending, command)
        /\ accepted' = Append(accepted, command)
    BY <1>2 DEF Submit
  <2>2. command \in Command
    BY SubmittedCommand DEF Submit
  <2> HIDE DEF command
  <2>3. /\ pending \in Seq(Command) /\ accepted \in Seq(Command)
        /\ Len(pending) < MaximumPendingServerCommands
        /\ admitted \in Seq(Stamp)
    BY <2>1 DEF TypeOK, HistoryOK, HasRoom
  <2>4. /\ pending' \in Seq(Command) /\ accepted' \in Seq(Command)
        /\ Len(pending') <= MaximumPendingServerCommands
    <3>1. pending' \in Seq(Command) /\ Len(pending') = Len(pending) + 1 /\ accepted' \in Seq(Command)
      BY <2>1, <2>2, <2>3, AppendProperties
    <3>2. Len(pending) \in Nat
      BY <2>3, LenProperties
    <3> QED
      BY <2>3, <3>1, <3>2, IntakeAssumption
  <2>5. TypeOK'
    BY <2>1, <2>4 DEF TypeOK, Submit, start
  <2>6. HistoryOK' /\ StampsInUse'
    BY <2>4 DEF HistoryOK, StampsInUse, Submit
  <2>7. commands \o pending' = accepted'
    <3>1. commands \in Seq(Command) /\ commands \o pending = accepted
      BY <2>3, CommandsOfStamped DEF CommandsKeepTheirOrder
    <3> HIDE DEF commands
    <3>2. <<command>> \in Seq(Command)
      BY <2>2
    <3>3. pending' = pending \o <<command>> /\ accepted' = accepted \o <<command>>
      BY <2>1, <2>2, <2>3, AppendIsConcat
    <3>4. commands \o (pending \o <<command>>) = (commands \o pending) \o <<command>>
      <4>1. pending \in Seq(Command)
        BY DEF IInv, TypeOK
      <4> QED
        BY <3>1, <3>2, <4>1, ConcatCommands
    <3> QED
      BY <3>1, <3>3, <3>4, Zenon
  <2>8. CommandsKeepTheirOrder'
    <3>1. UNCHANGED admitted
      BY DEF Submit
    <3> QED
      BY <2>7, <3>1 DEF CommandsKeepTheirOrder
  <2>9. TicksAreEarned'
    BY DEF Submit, TicksAreEarned, Deadline, start
  <2> QED
    BY <2>5, <2>6, <2>8, <2>9
<1> QED
  BY <1>1, <1>2

\* A pump that does not admit anything keeps the invariant.
LEMMA IdlePumpKeepsIInv ==
  ASSUME IInv, Pump, UNCHANGED <<pending, nextOrdinal, admitted>>
  PROVE  IInv'
<1> USE DEF IInv
<1>1. UNCHANGED <<start, now, accepted>>
  BY DEF Pump
<1>2. /\ terminal' \in Errors
      /\ lag' \in Nat
      /\ lastObservation' \in 0 .. Horizon
      /\ nextTick' \in epochTick .. MaxTick
      /\ nextTick' >= nextTick
      /\ nextTick' > epochTick => Deadline(nextTick' - 1) <= lastObservation'
  <2>0. nextTick \in Int /\ epochTick \in Int /\ MaxTick \in Nat
    BY IntakeAssumption DEF TypeOK
  <2>1. CASE SchedulerError # "None"
    <3>1. SchedulerError \in Errors
      BY DEF SchedulerError, Errors
    <3> QED
      BY <2>0, <2>1, <3>1 DEF Pump, TypeOK, TicksAreEarned
  <2>2. CASE SchedulerError = "None"
    <3>1. /\ lastObservation' = now /\ nextTick' = nextTick + Emitted /\ lag' = DueTickLag
          /\ terminal' \in Errors
      BY <2>2 DEF Pump, Errors, TypeOK
    <3>2. /\ now >= lastObservation /\ DueTickLag \in Nat /\ Emitted \in Nat
          /\ nextTick + Emitted \in epochTick .. MaxTick
          /\ Emitted # 0 => Deadline(nextTick + Emitted - 1) <= now
      BY <2>2, EmittedTicks
    <3>3. lastObservation' \in 0 .. Horizon /\ nextTick' >= nextTick
      BY <2>0, <3>1, <3>2 DEF TypeOK
    <3>4. ASSUME nextTick' > epochTick PROVE Deadline(nextTick' - 1) <= lastObservation'
      <4>1. CASE Emitted # 0
        <5>1. nextTick' - 1 = nextTick + Emitted - 1
          BY <2>0, <3>1, <3>2
        <5> QED
          BY <3>1, <3>2, <4>1, <5>1
      <4>2. CASE Emitted = 0
        <5>1. nextTick' = nextTick /\ nextTick - 1 \in Nat /\ nextTick - 1 >= epochTick
          BY <2>0, <3>1, <3>4, <4>2, IntakeAssumption DEF TypeOK
        <5>2. Deadline(nextTick - 1) \in Nat
          BY <5>1, DueTicks
        <5>3. Deadline(nextTick - 1) <= lastObservation
          BY <3>4, <5>1 DEF TicksAreEarned
        <5>4. lastObservation \in Nat /\ now \in Nat
          BY IntakeAssumption DEF TypeOK
        <5> QED
          BY <3>1, <3>2, <5>1, <5>2, <5>3, <5>4
      <4> QED
        BY <4>1, <4>2
    <3> QED
      BY <3>1, <3>2, <3>3, <3>4
  <2> QED
    BY <2>1, <2>2
<1>3. TypeOK'
  BY <1>1, <1>2 DEF TypeOK, start
<1>4. HistoryOK' /\ CommandsKeepTheirOrder'
  BY <1>1 DEF HistoryOK, CommandsKeepTheirOrder
<1>5. StampsInUse'
  <2> SUFFICES ASSUME NEW i \in DOMAIN admitted
               PROVE  admitted[i].ordinal < nextOrdinal /\ admitted[i].tick < nextTick'
    BY DEF StampsInUse
  <2>1. admitted[i].ordinal < nextOrdinal /\ admitted[i].tick < nextTick
    BY DEF StampsInUse
  <2>2. admitted[i] \in Stamp
    BY LenProperties, ElementOfSeq DEF HistoryOK
  <2>3. admitted[i].tick \in Nat
    BY <2>2 DEF Stamp
  <2>4. nextTick \in Nat /\ nextTick' \in Nat /\ nextTick <= nextTick'
    BY <1>2, IntakeAssumption DEF TypeOK
  <2> QED
    BY <2>1, <2>3, <2>4, LessGrows
<1>6. TicksAreEarned'
  BY <1>1, <1>2 DEF TicksAreEarned, Deadline, start
<1> QED
  BY <1>3, <1>4, <1>5, <1>6

\* A pump that admits commands keeps the invariant.
LEMMA AdmittingPumpKeepsIInv ==
  ASSUME IInv, Pump, SchedulerError = "None",
         ~(AdmittedCount(Emitted) > MaxOrdinal + 1 - nextOrdinal)
  PROVE  IInv'
<1> USE DEF IInv
<1> DEFINE count == AdmittedCount(Emitted)
           n == Len(admitted)
<1>1. /\ UNCHANGED <<start, now, accepted, terminal>>
      /\ lastObservation' = now /\ nextTick' = nextTick + Emitted /\ lag' = DueTickLag
      /\ nextOrdinal' = nextOrdinal + count
  BY DEF Pump
<1>2. /\ now >= lastObservation /\ DueTickLag \in Nat /\ Emitted \in Nat
      /\ nextTick + Emitted \in epochTick .. MaxTick
      /\ Emitted # 0 => Deadline(nextTick + Emitted - 1) <= now
  BY EmittedTicks
<1>3. /\ count \in 0 .. Len(pending)
      /\ admitted' \in Seq(Stamp) /\ Len(admitted') = n + count
      /\ \A i \in 1 .. n : admitted'[i] = admitted[i]
      /\ \A i \in n + 1 .. n + count :
           /\ admitted'[i].tick = TickFor(i - n)
           /\ admitted'[i].tick \in Nat
           /\ admitted'[i].tick >= nextTick
           /\ admitted'[i].tick < nextTick + Emitted
           /\ admitted'[i].ordinal = nextOrdinal + (i - n) - 1
           /\ admitted'[i].command = pending[i - n]
      /\ pending' \in Seq(Command) /\ Len(pending') = Len(pending) - count
      /\ \A i \in 1 .. Len(pending) - count : pending'[i] = pending[count + i]
  BY PumpOutcome
<1>4. /\ n \in Nat /\ Len(pending) \in Nat /\ nextTick \in Nat /\ epochTick \in Nat
      /\ nextOrdinal \in Nat /\ MaxOrdinal \in Nat /\ MaxTick \in Nat
      /\ now \in Nat /\ lastObservation \in Nat
      /\ DOMAIN admitted = 1 .. n /\ DOMAIN admitted' = 1 .. n + count
      /\ nextOrdinal + count <= MaxOrdinal + 1
  <2>1. admitted \in Seq(Stamp) /\ pending \in Seq(Command)
    BY DEF HistoryOK, TypeOK
  <2>2. /\ nextTick \in Nat /\ epochTick \in Nat
        /\ nextOrdinal \in Nat /\ MaxOrdinal \in Nat /\ MaxTick \in Nat
        /\ now \in Nat /\ lastObservation \in Nat
    BY IntakeAssumption DEF TypeOK
  <2>3. count \in Nat /\ nextOrdinal + count <= MaxOrdinal + 1
    BY <1>3, <2>2
  <2> QED
    BY <1>3, <2>1, <2>2, <2>3, LenProperties, SMTT(20)
<1>5. \A i \in 1 .. n : /\ admitted[i].tick \in Nat /\ admitted[i].ordinal \in Nat
                        /\ admitted[i].tick < nextTick /\ admitted[i].ordinal < nextOrdinal
  <2>1. \A i \in 1 .. n : admitted[i] \in Stamp
    BY ElementOfSeq DEF HistoryOK
  <2> QED
    BY <1>4, <2>1 DEF Stamp, StampsInUse
<1> HIDE DEF count, n
<1>6. TypeOK'
  <2>0. Len(pending') = Len(pending) - count /\ count \in Nat
    BY <1>3
  <2>1. Len(pending') <= MaximumPendingServerCommands
    BY <1>4, <2>0, IntakeAssumption DEF TypeOK
  <2>2. nextOrdinal' \in 1 .. MaxOrdinal + 1
    BY <1>1, <1>3, <1>4 DEF TypeOK
  <2>3. lastObservation' \in 0 .. Horizon
    BY <1>1 DEF TypeOK
  <2> QED
    BY <1>1, <1>2, <1>3, <2>1, <2>2, <2>3 DEF TypeOK, start
<1>7. HistoryOK'
  BY <1>1, <1>3 DEF HistoryOK
<1>8. StampsInUse'
  <2> SUFFICES ASSUME NEW i \in 1 .. n + count
               PROVE  admitted'[i].ordinal < nextOrdinal' /\ admitted'[i].tick < nextTick'
    BY <1>4 DEF StampsInUse
  <2>1. CASE i \in 1 .. n
    <3>1. /\ admitted'[i] = admitted[i]
          /\ admitted[i].tick \in Nat /\ admitted[i].ordinal \in Nat
          /\ admitted[i].tick < nextTick /\ admitted[i].ordinal < nextOrdinal
      BY <1>3, <1>5, <2>1
    <3>2. count \in Nat
      BY <1>3
    <3>3. /\ nextTick' \in Nat /\ nextTick <= nextTick'
          /\ nextOrdinal' \in Nat /\ nextOrdinal <= nextOrdinal'
      BY <1>1, <1>2, <1>4, <3>2
    <3> QED
      BY <1>4, <3>1, <3>3, LessGrows
  <2>2. CASE i \in n + 1 .. n + count
    <3>1. /\ admitted'[i].tick < nextTick + Emitted
          /\ admitted'[i].ordinal = nextOrdinal + (i - n) - 1
      BY <1>3, <2>2
    <3>2. count \in Nat
      BY <1>3
    <3>3. nextOrdinal + (i - n) - 1 < nextOrdinal + count
      BY <1>4, <2>2, <3>2
    <3>4. nextOrdinal' = nextOrdinal + count /\ nextTick' = nextTick + Emitted
      BY <1>1
    <3> QED
      BY <3>1, <3>3, <3>4, Zenon
  <2>3. i \in 1 .. n \/ i \in n + 1 .. n + count
    <3>1. i \in 1 .. n + count /\ n \in Nat
      BY <1>4
    <3> HIDE DEF n, count
    <3> QED
      BY <3>1
  <2> QED
    BY <2>1, <2>2, <2>3, Zenon
<1>9. CommandsKeepTheirOrder'
  <2> DEFINE before == [i \in DOMAIN admitted |-> admitted[i].command]
             after == [i \in DOMAIN admitted' |-> admitted'[i].command]
  <2>1. after \o pending' = accepted'
    <3>1. /\ before \in Seq(Command) /\ Len(before) = n
          /\ \A i \in 1 .. n : before[i] = admitted[i].command
      BY CommandsOfStamped DEF HistoryOK, n
    <3>2. /\ after \in Seq(Command) /\ Len(after) = n + count
          /\ \A i \in 1 .. n + count : after[i] = admitted'[i].command
      BY <1>3, CommandsOfStamped
    <3>3. accepted' = before \o pending
      BY <1>1 DEF CommandsKeepTheirOrder
    <3> HIDE DEF before, after
    <3>4. /\ pending \in Seq(Command) /\ before \o pending \in Seq(Command)
          /\ Len(before \o pending) = n + Len(pending)
          /\ \A i \in 1 .. n + Len(pending) :
               (before \o pending)[i] = IF i <= n THEN before[i] ELSE pending[i - n]
      BY <3>1, ConcatProperties DEF TypeOK
    <3>5. /\ after \o pending' \in Seq(Command)
          /\ Len(after \o pending') = (n + count) + Len(pending')
          /\ \A i \in 1 .. (n + count) + Len(pending') :
               (after \o pending')[i] = IF i <= n + count THEN after[i] ELSE pending'[i - (n + count)]
      <4>1. pending' \in Seq(Command)
        BY <1>3
      <4>2. /\ after \o pending' \in Seq(Command)
            /\ Len(after \o pending') = Len(after) + Len(pending')
            /\ \A i \in 1 .. Len(after) + Len(pending') :
                 (after \o pending')[i] =
                   IF i <= Len(after) THEN after[i] ELSE pending'[i - Len(after)]
        BY <3>2, <4>1, ConcatProperties
      <4>3. Len(after) = n + count
        BY <3>2
      <4> QED
        BY <4>2, <4>3, Zenon
    <3>6. (n + count) + Len(pending') = n + Len(pending)
      BY <1>3, <1>4
    <3>7. ASSUME NEW i \in 1 .. n + Len(pending)
          PROVE  (after \o pending')[i] = (before \o pending)[i]
      <4>0. i \in 1 .. (n + count) + Len(pending') /\ count \in Nat
        BY <1>3, <3>6
      <4>1. CASE i \in 1 .. n
        <5>1. i <= n /\ i <= n + count /\ i \in 1 .. n + count
          BY <1>4, <4>0, <4>1
        <5>2. (after \o pending')[i] = admitted'[i].command /\ admitted'[i] = admitted[i]
          BY <1>3, <3>2, <3>5, <4>0, <4>1, <5>1
        <5>3. (before \o pending)[i] = admitted[i].command
          BY <3>1, <3>4, <4>1, <5>1
        <5> QED
          BY <5>2, <5>3
      <4>2. CASE i \in n + 1 .. n + count
        <5>1. ~(i <= n) /\ i <= n + count /\ i \in 1 .. n + count
          BY <1>4, <4>0, <4>2
        <5>2. (after \o pending')[i] = admitted'[i].command
          BY <3>2, <3>5, <4>0, <5>1
        <5>3. (before \o pending)[i] = pending[i - n]
          BY <3>4, <5>1
        <5>4. admitted'[i].command = pending[i - n]
          BY <1>3, <4>2
        <5> QED
          BY <5>2, <5>3, <5>4
      <4>3. CASE i \in n + count + 1 .. n + Len(pending)
        <5>1. /\ i - (n + count) \in 1 .. Len(pending) - count
              /\ count + (i - (n + count)) = i - n
              /\ ~(i <= n + count) /\ ~(i <= n)
          BY <1>4, <4>0, <4>3
        <5>2. (after \o pending')[i] = pending'[i - (n + count)]
          BY <3>5, <4>0, <5>1
        <5>3. (before \o pending)[i] = pending[i - n]
          BY <3>4, <5>1
        <5>4. pending'[i - (n + count)] = pending[count + (i - (n + count))]
          BY <1>3, <5>1
        <5> QED
          BY <5>1, <5>2, <5>3, <5>4
      <4>4. i \in 1 .. n \/ i \in n + 1 .. n + count \/ i \in n + count + 1 .. n + Len(pending)
        BY <1>4, <4>0
      <4> QED
        BY <4>1, <4>2, <4>3, <4>4
    <3> QED
      BY <3>3, <3>4, <3>5, <3>6, <3>7, SeqEqual
  <2>2. ASSUME NEW i \in 1 .. n + count, NEW j \in 1 .. n + count, i < j
        PROVE  admitted'[i].ordinal < admitted'[j].ordinal /\ admitted'[i].tick <= admitted'[j].tick
    <3>1. CASE j \in 1 .. n
      <4>1. i \in 1 .. n
        BY <1>4, <2>2, <3>1
      <4>2. admitted[i].ordinal < admitted[j].ordinal /\ admitted[i].tick <= admitted[j].tick
        BY <1>4, <2>2, <3>1, <4>1 DEF CommandsKeepTheirOrder
      <4> QED
        BY <1>3, <3>1, <4>1, <4>2
    <3>2. CASE i \in 1 .. n /\ j \in n + 1 .. n + count
      <4>1. /\ admitted[i].tick < nextTick /\ admitted[i].ordinal < nextOrdinal
            /\ admitted[i].tick \in Nat /\ admitted[i].ordinal \in Nat
            /\ admitted'[i] = admitted[i]
        BY <1>3, <1>5, <3>2
      <4>2. /\ admitted'[j].tick \in Nat /\ admitted'[j].tick >= nextTick
            /\ admitted'[j].ordinal = nextOrdinal + (j - n) - 1
        BY <1>3, <3>2
      <4>3. /\ nextOrdinal \in Nat /\ nextTick \in Nat
            /\ nextOrdinal + (j - n) - 1 \in Nat /\ nextOrdinal <= nextOrdinal + (j - n) - 1
        BY <1>4, <3>2
      <4>4. admitted[i].ordinal < admitted'[j].ordinal
        BY <4>1, <4>2, <4>3, LessGrows
      <4>5. admitted[i].tick < admitted'[j].tick
        BY <4>1, <4>2, <4>3, LessGrows
      <4> QED
        BY <4>1, <4>2, <4>4, <4>5
    <3>3. CASE i \in n + 1 .. n + count /\ j \in n + 1 .. n + count
      <4>1. /\ admitted'[i].ordinal = nextOrdinal + (i - n) - 1
            /\ admitted'[j].ordinal = nextOrdinal + (j - n) - 1
            /\ admitted'[i].tick = TickFor(i - n)
            /\ admitted'[j].tick = TickFor(j - n)
        BY <1>3, <3>3
      <4>2. TickFor(i - n) <= TickFor(j - n)
        <5> DEFINE M == MaximumServerCommandsPerTick
                   a == i - n - 1
                   b == j - n - 1
        <5>1. M \in Nat \ {0} /\ a \in Nat /\ b \in Nat /\ a <= b
          BY <1>4, <2>2, <3>3, IntakeAssumption
        <5> DEFINE q == a \div M
                   p == b \div M
        <5>2. q \in Nat /\ p \in Nat
          BY <5>1, QuotientAndRemainder
        <5>3. (q <= q <=> M * q <= a) /\ (q <= p <=> M * q <= b)
          BY <5>1, <5>2, RoundedDown
        <5>4. TickFor(i - n) = nextTick + q /\ TickFor(j - n) = nextTick + p
          BY DEF TickFor
        <5> HIDE DEF q, p, a, b
        <5>5. M * q \in Int
          BY <5>1, <5>2
        <5>6. q <= p
          BY <5>1, <5>2, <5>3, <5>5
        <5> QED
          BY <1>4, <5>2, <5>4, <5>6
      <4> QED
        BY <1>3, <1>4, <2>2, <3>3, <4>1, <4>2
    <3> QED
      BY <1>3, <1>4, <2>2, <3>1, <3>2, <3>3
  <2> QED
    BY <1>4, <2>1, <2>2 DEF CommandsKeepTheirOrder
<1>10. TicksAreEarned'
  <2>1. ASSUME nextTick' > epochTick PROVE Deadline(nextTick' - 1) <= lastObservation'
    <3>1. CASE Emitted # 0
      <4>1. nextTick' - 1 = nextTick + Emitted - 1
        BY <1>1, <1>2, <1>4
      <4> QED
        BY <1>1, <1>2, <3>1, <4>1
    <3>2. CASE Emitted = 0
      <4>1. nextTick' = nextTick /\ nextTick - 1 \in Nat /\ nextTick - 1 >= epochTick
        BY <1>1, <1>4, <2>1, <3>2
      <4>2. Deadline(nextTick - 1) \in Nat
        BY <4>1, DueTicks
      <4>3. Deadline(nextTick - 1) <= lastObservation
        BY <2>1, <4>1 DEF TicksAreEarned
      <4> QED
        BY <1>1, <1>2, <1>4, <4>1, <4>2, <4>3
    <3> QED
      BY <3>1, <3>2
  <2>2. ASSUME NEW i \in 1 .. n + count
        PROVE  Cardinality({j \in 1 .. n + count : admitted'[j].tick = admitted'[i].tick})
                 <= MaximumServerCommandsPerTick
    <3> DEFINE S == {j \in 1 .. n + count : admitted'[j].tick = admitted'[i].tick}
    <3>1. CASE i \in 1 .. n
      <4>1. admitted'[i].tick = admitted[i].tick /\ admitted[i].tick < nextTick
            /\ admitted[i].tick \in Nat
        BY <1>3, <1>5, <3>1
      <4>2. S = {j \in 1 .. n : admitted[j].tick = admitted[i].tick}
        <5>1. ASSUME NEW j \in n + 1 .. n + count PROVE admitted'[j].tick # admitted'[i].tick
          <6>1. admitted'[j].tick \in Nat /\ admitted'[j].tick >= nextTick
            BY <1>3
          <6> QED
            BY <1>4, <4>1, <6>1
        <5>2. ASSUME NEW j \in 1 .. n PROVE admitted'[j].tick = admitted[j].tick
          BY <1>3
        <5>3. 1 .. n + count = (1 .. n) \cup (n + 1 .. n + count)
          BY <1>3, <1>4
        <5> QED
          BY <4>1, <5>1, <5>2, <5>3
      <4> QED
        BY <1>4, <3>1, <4>2 DEF TicksAreEarned
    <3>2. CASE i \in n + 1 .. n + count
      <4> DEFINE t == admitted'[i].tick
      <4>1. t \in Nat /\ t >= nextTick
        BY <1>3, <3>2
      <4>2. S \subseteq {j \in n + 1 .. n + count : TickFor(j - n) = t}
        <5>1. ASSUME NEW j \in 1 .. n PROVE admitted'[j].tick # t
          <6>1. /\ admitted'[j].tick = admitted[j].tick
                /\ admitted[j].tick \in Nat /\ admitted[j].tick < nextTick
            BY <1>3, <1>5
          <6> HIDE DEF t
          <6> QED
            BY <1>4, <4>1, <6>1
        <5>2. ASSUME NEW j \in n + 1 .. n + count PROVE admitted'[j].tick = TickFor(j - n)
          BY <1>3
        <5>3. 1 .. n + count = (1 .. n) \cup (n + 1 .. n + count)
          BY <1>3, <1>4
        <5> QED
          BY <5>1, <5>2, <5>3
      <4> HIDE DEF t, S
      <4>3. count \in Nat
        BY <1>3, <1>4
      <4>4. Cardinality(S) <= MaximumServerCommandsPerTick
        BY <1>4, <4>1, <4>2, <4>3, BudgetKept
      <4> QED
        BY <4>4 DEF S
    <3> QED
      BY <1>3, <1>4, <3>1, <3>2
  <2> QED
    BY <1>1, <1>4, <2>1, <2>2 DEF TicksAreEarned, Deadline, start
<1> QED
  BY <1>6, <1>7, <1>8, <1>9, <1>10

-----------------------------------------------------------------------------
\* The invariant holds when the coordinator is created.
LEMMA InitIInv == Init => IInv
<1> SUFFICES ASSUME Init PROVE IInv
  OBVIOUS
<1>1. TypeOK
  BY IntakeAssumption DEF Init, TypeOK, Errors
<1>2. HistoryOK
  BY DEF Init, HistoryOK
<1>3. StampsInUse /\ CommandsKeepTheirOrder /\ TicksAreEarned
  <2>1. admitted = <<>> /\ pending = <<>> /\ accepted = <<>> /\ nextTick = epochTick
    BY DEF Init
  <2>2. DOMAIN admitted = {}
    BY <2>1
  <2>3. [i \in DOMAIN admitted |-> admitted[i].command] \o pending = accepted
    <3>1. [i \in DOMAIN admitted |-> admitted[i].command] = <<>>
      BY <2>2
    <3> QED
      BY <2>1, <3>1, ConcatEmptySeq, EmptySeq
  <2>4. ~(nextTick > epochTick)
    BY <2>1, IntakeAssumption DEF Init
  <2> QED
    BY <2>2, <2>3, <2>4 DEF StampsInUse, CommandsKeepTheirOrder, TicksAreEarned
<1> QED
  BY <1>1, <1>2, <1>3 DEF IInv

\* Every step keeps the invariant.
LEMMA NextKeepsIInv == IInv /\ [Next]_vars => IInv'
<1> SUFFICES ASSUME IInv, [Next]_vars PROVE IInv'
  OBVIOUS
<1>1. ASSUME NEW source \in Sources, Submit(source) PROVE IInv'
  BY <1>1, SubmitKeepsIInv
<1>2. CASE Pump
  <2>1. CASE SchedulerError # "None"
    BY <1>2, <2>1, IdlePumpKeepsIInv DEF Pump
  <2>2. CASE SchedulerError = "None" /\ AdmittedCount(Emitted) > MaxOrdinal + 1 - nextOrdinal
    BY <1>2, <2>2, IdlePumpKeepsIInv DEF Pump
  <2>3. CASE SchedulerError = "None" /\ ~(AdmittedCount(Emitted) > MaxOrdinal + 1 - nextOrdinal)
    BY <1>2, <2>3, AdmittingPumpKeepsIInv
  <2> QED
    BY <2>1, <2>2, <2>3
<1>3. CASE Tick \/ ClockMovesBack \/ UNCHANGED vars
  <2>1. /\ now' \in 0 .. Horizon
        /\ UNCHANGED <<start, lastObservation, nextTick, pending, nextOrdinal, terminal, lag,
                       accepted, admitted>>
    <3>1. now \in 0 .. Horizon /\ Horizon \in Nat
      BY IntakeAssumption DEF IInv, TypeOK
    <3> QED
      BY <1>3, <3>1 DEF Tick, ClockMovesBack, vars, start
  <2>2. TypeOK'
    BY <2>1 DEF IInv, TypeOK, start
  <2>3. HistoryOK' /\ StampsInUse' /\ CommandsKeepTheirOrder'
    BY <2>1 DEF IInv, HistoryOK, StampsInUse, CommandsKeepTheirOrder
  <2>4. TicksAreEarned'
    BY <2>1 DEF IInv, TicksAreEarned, Deadline, start
  <2> QED
    BY <2>2, <2>3, <2>4 DEF IInv
<1> QED
  BY <1>1, <1>2, <1>3 DEF Next

LEMMA Invariance == Spec => []IInv
  BY InitIInv, NextKeepsIInv, PTL DEF Spec

\* The members keep their types, and the queue, the tick and the ordinals their
\* bounds: submit() and pump() neither overfill mPending nor go past the last
\* tick or ordinal, whatever the clock does.
THEOREM IntakeTypeCorrect == Spec => []TypeOK
<1>1. IInv => TypeOK
  BY DEF IInv
<1> QED
  BY <1>1, Invariance, PTL

\* No accepted command is lost, duplicated or overtaken, over any number of
\* pumps, catch-ups and failed pumps, and the stamps increase with it.
THEOREM OrderKept == Spec => []CommandsKeepTheirOrder
<1>1. IInv => CommandsKeepTheirOrder
  BY DEF IInv
<1> QED
  BY <1>1, Invariance, PTL

\* For every tick rate, a tick is emitted only after its deadline, and with no
\* more commands than its budget, also when several ticks catch up at once.
THEOREM TicksEarned == Spec => []TicksAreEarned
<1>1. IInv => TicksAreEarned
  BY DEF IInv
<1> QED
  BY <1>1, Invariance, PTL

\* The due ticks of a pump that the scheduler accepts are as many as its lag.
LEMMA LagIsTheDueTicks ==
  ASSUME TypeOK, SchedulerError = "None"
  PROVE  DueTickLag = Cardinality({tick \in nextTick .. MaxTick : Deadline(tick) <= now})
<1> DEFINE due == epochTick + MaximumDueTick(now)
           S == {tick \in nextTick .. MaxTick : Deadline(tick) <= now}
<1>1. /\ now \in Nat /\ nextTick \in Nat /\ nextTick >= epochTick /\ epochTick \in Nat
      /\ MaxTick \in Nat
  BY IntakeAssumption DEF TypeOK
<1>2. \A tick \in nextTick .. MaxTick : Deadline(tick) <= now <=> tick <= due
  BY <1>1, DueTicks
<1>3. /\ due \in Nat /\ Deadline(nextTick) \in Nat
      /\ Deadline(nextTick) <= now <=> nextTick <= due
  BY <1>1, DueTicks
<1>4. MaximumDueTick(now) \in Nat
  BY <1>1, MaximumDueTickRoundsDown
<1>5. now >= Deadline(nextTick) => due < MaxTick
  BY <1>1, <1>4 DEF SchedulerError
<1>6. DueTickLag = IF now < Deadline(nextTick) THEN 0 ELSE due - nextTick + 1
  BY <1>1, <1>4 DEF DueTickLag
<1> HIDE DEF due
<1>7. S = nextTick .. due
  BY <1>1, <1>2, <1>3, <1>5
<1>8. Cardinality(nextTick .. due) = IF nextTick > due THEN 0 ELSE due - nextTick + 1
  BY <1>1, <1>3, FS_Interval
<1>9. DueTickLag = Cardinality(nextTick .. due)
  BY <1>1, <1>3, <1>6, <1>8
<1> QED
  BY <1>7, <1>9

\* The lag that pump() reports is the number of ticks whose deadline has
\* passed, for every tick rate: its unsigned subtraction never wraps.
THEOREM LagExact == Spec => LagCountsDueTicks
<1>1. ASSUME TypeOK, Pump,
             terminal' \notin {"ClockMovedBackwards", "TickExhausted", "DeadlineOverflow"}
      PROVE  lag' = Cardinality({tick \in nextTick .. MaxTick : Deadline(tick) <= now})
  <2>1. SchedulerError \in {"None", "ClockMovedBackwards", "TickExhausted", "DeadlineOverflow"}
    BY DEF SchedulerError
  <2>2. SchedulerError = "None"
    BY <1>1, <2>1 DEF Pump
  <2>3. lag' = DueTickLag
    BY <1>1, <2>2 DEF Pump
  <2> QED
    BY <1>1, <2>2, <2>3, LagIsTheDueTicks
<1>2. TypeOK => [(Pump /\ terminal' \notin {"ClockMovedBackwards", "TickExhausted", "DeadlineOverflow"}) =>
                   lag' = Cardinality({tick \in nextTick .. MaxTick : Deadline(tick) <= now})]_vars
  BY <1>1
<1> QED
  BY <1>2, IntakeTypeCorrect, PTL DEF LagCountsDueTicks

-----------------------------------------------------------------------------
(* The outbound queues.  FoldLeft() is followed along the states it goes     *)
(* through, for the bytes of a lane and for the staging of a group alike.    *)

\* Induction over the naturals.
LEMMA Induct ==
  ASSUME NEW T, 0 \in T, \A n \in Nat : n \in T => n + 1 \in T
  PROVE  \A n \in Nat : n \in T
<1> SUFFICES ASSUME NEW m \in Nat, m \notin T
             PROVE  FALSE
  OBVIOUS
<1> DEFINE Less == {ss \in Nat \X Nat : ss[1] < ss[2]}
           S == Nat \ T
<1>1. IsWellFoundedOn(Less, Nat)
  BY NatLessThanWellFounded, Zenon DEF OpToRel
<1>2. S \subseteq Nat /\ S # {}
  OBVIOUS
<1> HIDE DEF Less, S
<1>3. PICK x \in S : \A y \in S : <<y, x>> \notin Less
  BY <1>1, <1>2, WFMin
<1>4. x \in Nat /\ x \notin T /\ x # 0
  BY <1>3 DEF S
<1>5. x - 1 \in Nat /\ (x - 1) + 1 = x /\ x - 1 < x
  BY <1>4
<1>6. x - 1 \notin T
  BY <1>4, <1>5
<1>7. x - 1 \in S
  BY <1>5, <1>6 DEF S
<1>8. <<x - 1, x>> \in Less
  BY <1>4, <1>5, Zenon DEF Less
<1> QED
  BY <1>3, <1>7, <1>8

\* One step of the two folds of the module.
FoldStep(bytes, a, m) == IF bytes THEN a + m.size ELSE Stage(a, m)

\* The function that FoldLeft() defines, on the first k elements.
Iterates(bytes, f, a, s, k) ==
  f = [t \in SUBSET (1 .. k) |->
         IF t = {} THEN a ELSE FoldStep(bytes, f[t \ {Max(t)}], s[Max(t)])]

Fold(bytes, a, s) == (CHOOSE f : Iterates(bytes, f, a, s, Len(s)))[1 .. Len(s)]

\* mReliableBytes as it should be.
Bytes(s) == FoldLeft(LAMBDA n, m : n + m.size, 0, s)

LEMMA BytesFold ==
  ASSUME NEW S, NEW s \in Seq(S)
  PROVE  Bytes(s) = Fold(TRUE, 0, s)
<1> DEFINE step(f) == [t \in SUBSET (DOMAIN s) |-> IF t = {} THEN 0 ELSE f[t \ {Max(t)}] + s[Max(t)].size]
           next(f) == [t \in SUBSET (DOMAIN s) |->
                         IF t = {} THEN 0 ELSE FoldStep(TRUE, f[t \ {Max(t)}], s[Max(t)])]
<1>1. DOMAIN s = 1 .. Len(s)
  OBVIOUS
<1>2. Bytes(s) = (CHOOSE f : f = step(f))[DOMAIN s]
  BY DEF FoldLeft, MapThenFoldSet, Bytes
<1>3. Fold(TRUE, 0, s) = (CHOOSE f : f = next(f))[DOMAIN s]
  BY <1>1, Zenon DEF Fold, Iterates
<1>4. ASSUME NEW f PROVE step(f) = next(f)
  BY DEF FoldStep
<1> HIDE DEF step, next
<1>5. (CHOOSE f : f = step(f)) = (CHOOSE f : f = next(f))
  BY <1>4, Zenon
<1> QED
  BY <1>2, <1>3, <1>5, Zenon

LEMMA StagedFold ==
  ASSUME NEW a, NEW S, NEW s \in Seq(S)
  PROVE  FoldLeft(Stage, a, s) = Fold(FALSE, a, s)
<1> DEFINE step(f) == [t \in SUBSET (DOMAIN s) |-> IF t = {} THEN a ELSE Stage(f[t \ {Max(t)}], s[Max(t)])]
           next(f) == [t \in SUBSET (DOMAIN s) |->
                         IF t = {} THEN a ELSE FoldStep(FALSE, f[t \ {Max(t)}], s[Max(t)])]
<1>1. DOMAIN s = 1 .. Len(s)
  OBVIOUS
<1>2. FoldLeft(Stage, a, s) = (CHOOSE f : f = step(f))[DOMAIN s]
  BY DEF FoldLeft, MapThenFoldSet
<1>3. Fold(FALSE, a, s) = (CHOOSE f : f = next(f))[DOMAIN s]
  BY <1>1, Zenon DEF Fold, Iterates
<1>4. ASSUME NEW f PROVE step(f) = next(f)
  BY DEF FoldStep
<1> HIDE DEF step, next
<1>5. (CHOOSE f : f = step(f)) = (CHOOSE f : f = next(f))
  BY <1>4, Zenon
<1> QED
  BY <1>2, <1>3, <1>5, Zenon

LEMMA MaxOfRange ==
  ASSUME NEW k \in Nat, NEW t \in SUBSET (1 .. k + 1), k + 1 \in t
  PROVE  Max(t) = k + 1
<1>1. \A y \in t : k + 1 >= y
  OBVIOUS
<1>2. \A x \in t : (\A y \in t : x >= y) => x = k + 1
  OBVIOUS
<1> QED
  BY <1>1, <1>2 DEF Max

LEMMA RangePrefix ==
  ASSUME NEW n \in Nat, NEW i \in 1 .. n
  PROVE  /\ 1 .. i \in SUBSET (1 .. n) /\ 1 .. i # {}
         /\ (1 .. i) \ {i} = 1 .. i - 1
         /\ i \in 0 .. n /\ i - 1 \in 0 .. n
<1>1. i \in Nat /\ 1 <= i /\ i <= n
  OBVIOUS
<1>2. 1 .. i \in SUBSET (1 .. n)
  BY <1>1
<1>3. i \in 1 .. i
  BY <1>1
<1>4. \A x : x \in (1 .. i) \ {i} <=> x \in 1 .. i - 1
  BY <1>1
<1>5. i \in 0 .. n /\ i - 1 \in 0 .. n
  BY <1>1
<1> QED
  BY <1>2, <1>3, <1>4, <1>5

LEMMA IterateMore ==
  ASSUME NEW bytes, NEW a, NEW s, NEW k \in Nat, NEW f, Iterates(bytes, f, a, s, k)
  PROVE  \E g : Iterates(bytes, g, a, s, k + 1)
<1> DEFINE g == [t \in SUBSET (1 .. k + 1) |->
                   IF k + 1 \in t THEN FoldStep(bytes, f[t \ {k + 1}], s[k + 1]) ELSE f[t]]
           step(h, t) == IF t = {} THEN a ELSE FoldStep(bytes, h[t \ {Max(t)}], s[Max(t)])
<1>1. \A t \in SUBSET (1 .. k + 1) :
        /\ k + 1 \in t => t \ {k + 1} \in SUBSET (1 .. k)
        /\ k + 1 \notin t => t \in SUBSET (1 .. k)
  OBVIOUS
<1>2. \A t \in SUBSET (1 .. k) : t \in SUBSET (1 .. k + 1) /\ k + 1 \notin t
  OBVIOUS
<1>3. \A t \in SUBSET (1 .. k) : f[t] = step(f, t)
  BY Zenon DEF Iterates
<1>4. \A t \in SUBSET (1 .. k) : g[t] = f[t]
  BY <1>2
<1>5. ASSUME NEW t \in SUBSET (1 .. k + 1)
      PROVE  g[t] = step(g, t)
  <2>1. CASE k + 1 \in t
    <3>1. Max(t) = k + 1
      BY <2>1, MaxOfRange
    <3>2. g[t \ {k + 1}] = f[t \ {k + 1}]
      BY <2>1, <1>1, <1>4, Zenon
    <3>3. g[t] = FoldStep(bytes, f[t \ {k + 1}], s[k + 1])
      BY <2>1, Zenon
    <3> HIDE DEF g
    <3> QED
      BY <2>1, <3>1, <3>2, <3>3, Zenon
  <2>2. CASE k + 1 \notin t
    <3>1. t \in SUBSET (1 .. k)
      BY <2>2, <1>1, Zenon
    <3>2. t \ {Max(t)} \in SUBSET (1 .. k)
      BY <3>1, Zenon
    <3>3. g[t] = f[t] /\ g[t \ {Max(t)}] = f[t \ {Max(t)}]
      BY <3>1, <3>2, <1>4, Zenon
    <3> HIDE DEF g
    <3> QED
      BY <3>1, <3>3, <1>3, Zenon
  <2> QED
    BY <2>1, <2>2
<1>6. g = [t \in SUBSET (1 .. k + 1) |-> step(g, t)]
  <2>1. g = [t \in SUBSET (1 .. k + 1) |-> g[t]]
    BY Zenon
  <2> HIDE DEF g
  <2> QED
    BY <2>1, <1>5, Zenon
<1>7. Iterates(bytes, g, a, s, k + 1)
  <2> HIDE DEF g
  <2> QED
    BY <1>6, Zenon DEF Iterates
<1> QED
  BY <1>7

LEMMA FoldExists ==
  ASSUME NEW bytes, NEW a, NEW S, NEW s \in Seq(S)
  PROVE  \E f : Iterates(bytes, f, a, s, Len(s))
<1> DEFINE T == {k \in Nat : \E f : Iterates(bytes, f, a, s, k)}
<1>1. 0 \in T
  <2> DEFINE f == [t \in SUBSET (1 .. 0) |-> a]
  <2>1. \A t \in SUBSET (1 .. 0) : t = {}
    OBVIOUS
  <2>2. Iterates(bytes, f, a, s, 0)
    BY <2>1, Zenon DEF Iterates
  <2> QED
    BY <2>2
<1>2. ASSUME NEW k \in Nat, k \in T PROVE k + 1 \in T
  BY <1>2, IterateMore
<1> HIDE DEF T
<1>3. Len(s) \in T
  BY <1>1, <1>2, Induct
<1> QED
  BY <1>3 DEF T

\* The states along a fold, up to the one that it returns.
IsRun(bytes, run, a, s) ==
  /\ run[0] = a
  /\ \A i \in 1 .. Len(s) : run[i] = FoldStep(bytes, run[i - 1], s[i])

LEMMA FoldRuns ==
  ASSUME NEW bytes, NEW a, NEW S, NEW s \in Seq(S)
  PROVE  \E run : IsRun(bytes, run, a, s) /\ run[Len(s)] = Fold(bytes, a, s)
<1> DEFINE f == CHOOSE g : Iterates(bytes, g, a, s, Len(s))
           run == [i \in 0 .. Len(s) |-> f[1 .. i]]
<1>1. Iterates(bytes, f, a, s, Len(s))
  BY FoldExists, Zenon
<1>2. Fold(bytes, a, s) = f[1 .. Len(s)]
  BY Zenon DEF Fold
<1> HIDE DEF f
<1>3. Len(s) \in Nat
  OBVIOUS
<1>4. \A t \in SUBSET (1 .. Len(s)) :
        f[t] = IF t = {} THEN a ELSE FoldStep(bytes, f[t \ {Max(t)}], s[Max(t)])
  BY <1>1, Zenon DEF Iterates
<1>5. run[0] = a
  <2>1. 1 .. 0 = {} /\ 0 \in 0 .. Len(s)
    BY <1>3
  <2> QED
    BY <2>1, <1>4
<1>6. ASSUME NEW i \in 1 .. Len(s)
      PROVE  run[i] = FoldStep(bytes, run[i - 1], s[i])
  <2>1. /\ 1 .. i \in SUBSET (1 .. Len(s)) /\ 1 .. i # {}
        /\ (1 .. i) \ {i} = 1 .. i - 1
        /\ i \in 0 .. Len(s) /\ i - 1 \in 0 .. Len(s)
    BY <1>3, RangePrefix
  <2>2. Max(1 .. i) = i
    <3>1. i - 1 \in Nat /\ (i - 1) + 1 = i /\ i \in 1 .. i
      BY <1>3
    <3> QED
      BY <3>1, MaxOfRange
  <2>3. f[1 .. i] = FoldStep(bytes, f[1 .. i - 1], s[i])
    BY <2>1, <2>2, <1>4
  <2> QED
    BY <2>1, <2>3
<1>7. run[Len(s)] = f[1 .. Len(s)]
  BY <1>3
<1> HIDE DEF run
<1> QED
  BY <1>2, <1>5, <1>6, <1>7 DEF IsRun

\* A message of the reliable lane.
Entry == [number : 0 .. Window - 1, size : Sizes]

\* What a lane holds after its first message went, and after one more came.
LEMMA LaneShrinks ==
  ASSUME NEW S, NEW s \in Seq(S), s # <<>>
  PROVE  /\ Tail(s) \in Seq(S) /\ Len(s) \in Nat \ {0} /\ Len(Tail(s)) = Len(s) - 1
         /\ Head(s) = s[1] /\ s[1] \in S
         /\ \A i \in 1 .. Len(s) - 1 : Tail(s)[i] = s[i + 1]
  OBVIOUS

LEMMA LaneGrows ==
  ASSUME NEW S, NEW s \in Seq(S), NEW e \in S
  PROVE  /\ Append(s, e) \in Seq(S) /\ Len(s) \in Nat /\ Len(Append(s, e)) = Len(s) + 1
         /\ Append(s, e)[Len(s) + 1] = e
         /\ \A i \in 1 .. Len(s) : Append(s, e)[i] = s[i]
  OBVIOUS

LEMMA LaneElements ==
  ASSUME NEW S, NEW s \in Seq(S)
  PROVE  Len(s) \in Nat /\ \A i \in 1 .. Len(s) : s[i] \in S
  OBVIOUS

LEMMA EntrySize ==
  ASSUME NEW e \in Entry
  PROVE  e.size \in Nat /\ e.size \in Sizes /\ e.number \in 0 .. Window - 1
  BY InputAssumption DEF Entry

\* The bytes of a lane, message by message.
LEMMA BytesRuns ==
  ASSUME NEW s \in Seq(Entry)
  PROVE  \E run : /\ run[0] = 0 /\ run[Len(s)] = Bytes(s)
                  /\ \A i \in 1 .. Len(s) : run[i] = run[i - 1] + s[i].size
                  /\ \A i \in 0 .. Len(s) : run[i] \in Nat
<1>1. PICK run : IsRun(TRUE, run, 0, s) /\ run[Len(s)] = Fold(TRUE, 0, s)
  BY FoldRuns
<1>2. run[0] = 0 /\ \A i \in 1 .. Len(s) : run[i] = run[i - 1] + s[i].size
  BY <1>1, Zenon DEF IsRun, FoldStep
<1>3. run[Len(s)] = Bytes(s)
  BY <1>1, BytesFold
<1> DEFINE T == {i \in Nat : i <= Len(s) => run[i] \in Nat}
<1>4. 0 \in T
  BY <1>2
<1>5. ASSUME NEW i \in Nat, i \in T PROVE i + 1 \in T
  <2> SUFFICES ASSUME i + 1 <= Len(s) PROVE run[i + 1] \in Nat
    OBVIOUS
  <2>1. Len(s) \in Nat /\ i + 1 \in 1 .. Len(s) /\ (i + 1) - 1 = i /\ run[i] \in Nat
    BY <1>5
  <2>2. s[i + 1].size \in Nat
    BY <2>1, LaneElements, EntrySize
  <2> QED
    BY <2>1, <2>2, <1>2
<1> HIDE DEF T
<1>6. \A i \in Nat : i \in T
  BY <1>4, <1>5, Induct
<1>7. \A i \in 0 .. Len(s) : run[i] \in Nat
  BY <1>6 DEF T
<1> QED
  BY <1>2, <1>3, <1>7

LEMMA BytesOfNothing == Bytes(<<>>) = 0
<1>1. <<>> \in Seq(Entry) /\ Len(<<>>) = 0
  OBVIOUS
<1>2. PICK run : run[0] = 0 /\ run[Len(<<>>)] = Bytes(<<>>)
  BY <1>1, BytesRuns
<1> QED
  BY <1>1, <1>2

LEMMA BytesOfMore ==
  ASSUME NEW s \in Seq(Entry), NEW e \in Entry
  PROVE  Bytes(s) \in Nat /\ Bytes(Append(s, e)) = Bytes(s) + e.size
<1> DEFINE u == Append(s, e)
           n == Len(s)
<1>1. /\ u \in Seq(Entry) /\ n \in Nat /\ Len(u) = n + 1 /\ u[n + 1] = e
      /\ \A i \in 1 .. n : u[i] = s[i]
  BY LaneGrows
<1>2. PICK r : /\ r[0] = 0 /\ r[n] = Bytes(s)
               /\ \A i \in 1 .. n : r[i] = r[i - 1] + s[i].size
               /\ \A i \in 0 .. n : r[i] \in Nat
  BY BytesRuns
<1>3. PICK q : /\ q[0] = 0 /\ q[n + 1] = Bytes(u)
               /\ \A i \in 1 .. n + 1 : q[i] = q[i - 1] + u[i].size
  <2> HIDE DEF u, n
  <2>1. \E q : /\ q[0] = 0 /\ q[Len(u)] = Bytes(u)
               /\ \A i \in 1 .. Len(u) : q[i] = q[i - 1] + u[i].size
    BY <1>1, BytesRuns, Zenon
  <2> QED
    BY <1>1, <2>1, Zenon
<1> DEFINE T == {i \in Nat : i <= n => q[i] = r[i]}
<1> HIDE DEF u, n
<1>4. 0 \in T
  BY <1>2, <1>3
<1>5. ASSUME NEW i \in Nat, i \in T PROVE i + 1 \in T
  <2> SUFFICES ASSUME i + 1 <= n PROVE q[i + 1] = r[i + 1]
    OBVIOUS
  <2>1. i + 1 \in 1 .. n /\ i + 1 \in 1 .. n + 1 /\ (i + 1) - 1 = i /\ q[i] = r[i]
    BY <1>5, <1>1
  <2>2. u[i + 1] = s[i + 1] /\ q[i + 1] = q[i] + u[i + 1].size /\ r[i + 1] = r[i] + s[i + 1].size
    BY <2>1, <1>1, <1>2, <1>3
  <2> QED
    BY <2>1, <2>2, Zenon
<1> HIDE DEF T
<1>6. n \in T
  BY <1>1, <1>4, <1>5, Induct
<1>7. q[n] = Bytes(s)
  BY <1>6, <1>1, <1>2 DEF T
<1>8. n + 1 \in 1 .. n + 1 /\ (n + 1) - 1 = n /\ n \in 0 .. n
  BY <1>1
<1>9. q[n + 1] = q[n] + u[n + 1].size /\ Bytes(s) \in Nat
  BY <1>2, <1>3, <1>8
<1>10. Bytes(u) = Bytes(s) + e.size
  BY <1>1, <1>3, <1>7, <1>9
<1> QED
  BY <1>9, <1>10 DEF u

LEMMA BytesOfTail ==
  ASSUME NEW s \in Seq(Entry), s # <<>>
  PROVE  /\ Bytes(s) \in Nat /\ Bytes(Tail(s)) \in Nat /\ Head(s).size \in Nat
         /\ Bytes(Tail(s)) = Bytes(s) - Head(s).size
<1> DEFINE u == Tail(s)
           n == Len(s)
           h == Head(s).size
<1>1. /\ u \in Seq(Entry) /\ n \in Nat \ {0} /\ Len(u) = n - 1 /\ Head(s) = s[1] /\ s[1] \in Entry
      /\ \A i \in 1 .. n - 1 : u[i] = s[i + 1]
  BY LaneShrinks
<1>2. h \in Nat
  BY <1>1, EntrySize
<1>3. PICK r : /\ r[0] = 0 /\ r[n] = Bytes(s)
               /\ \A i \in 1 .. n : r[i] = r[i - 1] + s[i].size
               /\ \A i \in 0 .. n : r[i] \in Nat
  BY BytesRuns
<1>4. PICK q : /\ q[0] = 0 /\ q[n - 1] = Bytes(u)
               /\ \A i \in 1 .. n - 1 : q[i] = q[i - 1] + u[i].size
               /\ \A i \in 0 .. n - 1 : q[i] \in Nat
  <2> HIDE DEF u, n, h
  <2> QED
    BY <1>1, BytesRuns
<1>5. h = s[1].size
  BY <1>1, Zenon
<1> DEFINE T == {i \in Nat : i <= n - 1 => r[i + 1] = q[i] + h}
<1> HIDE DEF u, n, h
<1>6. 0 \in T
  <2>1. 1 \in 1 .. n /\ 1 - 1 = 0
    BY <1>1
  <2>2. r[1] = r[0] + s[1].size
    BY <2>1, <1>3
  <2> QED
    BY <2>2, <1>2, <1>3, <1>4, <1>5
<1>7. ASSUME NEW i \in Nat, i \in T PROVE i + 1 \in T
  <2> SUFFICES ASSUME i + 1 <= n - 1 PROVE r[(i + 1) + 1] = q[i + 1] + h
    OBVIOUS
  <2>1. /\ i + 1 \in 1 .. n - 1 /\ (i + 1) - 1 = i /\ r[i + 1] = q[i] + h /\ q[i] \in Nat
        /\ (i + 1) + 1 \in 1 .. n /\ ((i + 1) + 1) - 1 = i + 1 /\ q[i + 1] \in Nat
        /\ i \in 0 .. n - 1
    BY <1>1, <1>4, <1>7
  <2>2. /\ q[i + 1] = q[i] + u[i + 1].size
        /\ r[(i + 1) + 1] = r[i + 1] + s[(i + 1) + 1].size
        /\ u[i + 1] = s[(i + 1) + 1]
    BY <2>1, <1>1, <1>3, <1>4
  <2>3. u[i + 1].size \in Nat
    BY <1>1, <2>1, LaneElements, EntrySize
  <2> DEFINE v == u[i + 1].size
  <2>4. /\ q[i + 1] = q[i] + v /\ r[(i + 1) + 1] = (q[i] + h) + v
        /\ v \in Nat /\ q[i] \in Nat
    BY <2>1, <2>2, <2>3, Zenon
  <2> HIDE DEF v
  <2> QED
    BY <1>2, <2>4
<1> HIDE DEF T
<1>8. n - 1 \in T /\ n - 1 \in Nat /\ (n - 1) + 1 = n /\ n - 1 \in 0 .. n - 1 /\ n \in 0 .. n
  <2>1. \A i \in Nat : i \in T
    BY <1>6, <1>7, Induct
  <2> QED
    BY <1>1, <2>1
<1>9. r[n] = q[n - 1] + h
  BY <1>8 DEF T
<1>10. Bytes(s) \in Nat /\ Bytes(u) \in Nat /\ Bytes(s) = Bytes(u) + h
  BY <1>3, <1>4, <1>8, <1>9
<1> QED
  BY <1>2, <1>10 DEF u, h

-----------------------------------------------------------------------------
(* What the operations make of one queue. *)

\* A queue that keeps its types and bounds.
QueueOK(q) ==
  /\ q \in Queue
  /\ Len(q.reliable) <= ReliableMessages
  /\ \A b \in Buckets : q.tokens[b] <= Burst(b) /\ q.phase[b] < Interval(b)

\* Its lane holds the messages from the transport's number to the caller's.
LaneOK(q, t, n) ==
  /\ \A i \in 1 .. Len(q.reliable) : q.reliable[i].number = (n + i - 1) % Window
  /\ t = (n + Len(q.reliable)) % Window
  /\ q.bytes = Bytes(q.reliable)

LEMMA Policies ==
  /\ Window \in Nat \ {0} /\ 0 \in 0 .. Window - 1
  /\ \A b \in Buckets : Burst(b) \in Nat \ {0} /\ Interval(b) \in Nat \ {0}
  BY PolicyAssumption DEF Window, Burst, Interval

LEMMA QueueFields ==
  ASSUME NEW q \in Queue
  PROVE  /\ q.reliable \in Seq(Entry) /\ q.bytes \in 0 .. ReliableBytes
         /\ q.latest \in SUBSET Slots /\ q.tokens \in [Buckets -> Nat]
         /\ q.phase \in [Buckets -> Nat] /\ q.initialized \in BOOLEAN /\ q.next \in 0 .. 3
         /\ q.blockedFor \in NotBlocked .. BlockedDeadline
         /\ q.blocks \in 0 .. ConsecutiveBlockLimit
  BY DEF Queue, Entry

\* The lanes of a queue whose other members change.
LEMMA LaneRests ==
  ASSUME NEW p, NEW q, NEW t, NEW n, LaneOK(p, t, n),
         q.reliable = p.reliable, q.bytes = p.bytes
  PROVE  LaneOK(q, t, n)
  BY Zenon DEF LaneOK

\* Numbers below twice the window.
LEMMA Modulo ==
  ASSUME NEW a \in Nat, a < Window + Window
  PROVE  /\ a < Window => a % Window = a
         /\ ~(a < Window) => a % Window = a - Window
<1> DEFINE w == Window
           d == a \div w
           r == a % w
<1>1. w \in Nat \ {0}
  BY Policies
<1> HIDE DEF w
<1>2. d \in Nat /\ r \in 0 .. w - 1 /\ a = w * d + r
  BY <1>1
<1> HIDE DEF d, r
<1>3. d < 2
  <2> SUFFICES ASSUME d >= 2 PROVE FALSE
    BY <1>2
  <2> DEFINE p == w * d
  <2>1. p >= w + w /\ p \in Int
    BY <1>1, <1>2
  <2>2. a = p + r
    BY <1>2
  <2> HIDE DEF p
  <2>3. a < w + w
    BY DEF w
  <2> QED
    BY <1>1, <1>2, <2>1, <2>2, <2>3
<1>4. CASE d = 0
  <2>1. a = r
    BY <1>1, <1>2, <1>4
  <2> QED
    BY <1>1, <1>2, <2>1 DEF w, r
<1>5. CASE d = 1
  <2>1. a = w + r
    BY <1>1, <1>2, <1>5
  <2>2. r = a - w /\ ~(a < w)
    BY <1>1, <1>2, <2>1
  <2> QED
    BY <2>2 DEF w, r
<1> QED
  BY <1>2, <1>3, <1>4, <1>5

LEMMA Counted ==
  ASSUME NEW a \in Nat
  PROVE  a % Window \in 0 .. Window - 1
  BY Policies

\* The number after the number of the last message of a lane.
LEMMA NextNumber ==
  ASSUME NEW n \in 0 .. Window - 1, NEW k \in 0 .. Window - 1
  PROVE  (((n + k) % Window) + 1) % Window = (n + (k + 1)) % Window
<1> DEFINE w == Window
           a == n + k
           b == (a % w) + 1
           c == n + (k + 1)
<1>1. w \in Nat \ {0} /\ n \in 0 .. w - 1 /\ k \in 0 .. w - 1
  BY Policies
<1>2. a \in Nat /\ a < w + w /\ c = a + 1 /\ c \in Nat
  <2> HIDE DEF w
  <2> QED
    BY <1>1
<1>3. /\ a < w => a % w = a
      /\ ~(a < w) => a % w = a - w
  <2> HIDE DEF a
  <2> QED
    BY <1>2, Modulo DEF w
<1>4. a + 1 < w + w
  <2> HIDE DEF w
  <2> QED
    BY <1>1
<1> HIDE DEF w, a, c
<1>5. b \in Nat /\ b < w + w
  <2> DEFINE r == a % w
  <2>1. r \in Nat /\ r < w
    <3> HIDE DEF r
    <3> QED
      BY <1>1, <1>2, <1>3 DEF r
  <2> HIDE DEF r
  <2>2. b = r + 1
    BY DEF r
  <2> QED
    BY <1>1, <2>1, <2>2
<1>6. b = IF a < w THEN a + 1 ELSE a - w + 1
  <2> DEFINE r == a % w
  <2>1. (a < w => r = a) /\ (~(a < w) => r = a - w) /\ b = r + 1
    BY <1>3
  <2> HIDE DEF r, b
  <2> QED
    BY <1>1, <1>2, <2>1
<1> HIDE DEF b
<1>7. /\ b < w => b % w = b
      /\ ~(b < w) => b % w = b - w
      /\ c < w => c % w = c
      /\ ~(c < w) => c % w = c - w
  BY <1>2, <1>4, <1>5, Modulo DEF w
<1> DEFINE x == b % w
           y == c % w
<1>8. /\ b < w => x = b
      /\ ~(b < w) => x = b - w
      /\ c < w => y = c
      /\ ~(c < w) => y = c - w
  BY <1>7
<1> HIDE DEF x, y
<1>9. x = y
  BY <1>1, <1>2, <1>4, <1>5, <1>6, <1>8
<1> QED
  BY <1>9 DEF a, b, c, w, x, y

\* The constructor.
LEMMA NewQueueOK ==
  ASSUME NEW n \in 0 .. Window - 1
  PROVE  QueueOK(NewQueue) /\ LaneOK(NewQueue, n, n)
<1>1. NewQueue \in Queue
  <2>1. [b \in Buckets |-> Burst(b)] \in [Buckets -> Nat] /\ [b \in Buckets |-> 0] \in [Buckets -> Nat]
    BY Policies
  <2>2. <<>> \in Seq([number : 0 .. Window - 1, size : Sizes])
    OBVIOUS
  <2>3. 0 \in 0 .. ReliableBytes /\ NotBlocked \in NotBlocked .. BlockedDeadline
        /\ 0 \in 0 .. ConsecutiveBlockLimit /\ 0 \in 0 .. 3
    BY PolicyAssumption DEF NotBlocked
  <2> QED
    BY <2>1, <2>2, <2>3 DEF NewQueue, Queue
<1>2. Len(NewQueue.reliable) <= ReliableMessages
  BY PolicyAssumption DEF NewQueue
<1>3. \A b \in Buckets : NewQueue.tokens[b] <= Burst(b) /\ NewQueue.phase[b] < Interval(b)
  BY Policies DEF NewQueue
<1>4. LaneOK(NewQueue, n, n)
  <2>1. NewQueue.reliable = <<>> /\ NewQueue.bytes = 0 /\ Len(<<>>) = 0
    BY DEF NewQueue
  <2>2. (n + 0) % Window = n
    BY Policies, Modulo
  <2>3. NewQueue.bytes = Bytes(NewQueue.reliable)
    BY <2>1, BytesOfNothing
  <2> QED
    BY <2>1, <2>2, <2>3 DEF LaneOK
<1> QED
  BY <1>1, <1>2, <1>3, <1>4 DEF QueueOK

\* enqueue() on the reliable lane.
LEMMA AppendKeeps ==
  ASSUME NEW q, NEW t, NEW n \in 0 .. Window - 1, NEW m,
         QueueOK(q), LaneOK(q, t, n), m.lane = "reliable", m.size \in Sizes,
         LaneHasRoom(q, m.size)
  PROVE  /\ QueueOK(Append1(q, t, m)) /\ LaneOK(Append1(q, t, m), (t + 1) % Window, n)
         /\ (t + 1) % Window \in 0 .. Window - 1
<1> DEFINE p == Append1(q, t, m)
           s == q.reliable
           e == [number |-> t, size |-> m.size]
           len == Len(s)
<1>1. /\ s \in Seq(Entry) /\ q.bytes \in 0 .. ReliableBytes /\ len \in Nat
  BY QueueFields DEF QueueOK
<1>2. /\ p = [q EXCEPT !.reliable = Append(s, e), !.bytes = q.bytes + m.size]
  BY DEF Append1
<1>3. m.size \in Nat /\ Window \in Nat \ {0} /\ Window = ReliableMessages + 1 /\ ReliableMessages \in Nat
  BY Policies, InputAssumption, PolicyAssumption DEF Window
<1>4. len < ReliableMessages /\ m.size <= ReliableBytes - q.bytes
  BY DEF LaneHasRoom
<1>5. t = (n + len) % Window
  BY DEF LaneOK
<1>6. n \in Nat /\ n < Window
  BY <1>3
<1>7. /\ n + len \in Nat /\ n + len < Window + Window
      /\ n + (len + 1) \in Nat /\ n + (len + 1) < Window + Window
  <2> HIDE DEF len
  <2> QED
    BY <1>1, <1>3, <1>4, <1>6
<1>8. t \in 0 .. Window - 1
  BY <1>5, <1>7, Counted
<1>9. e \in Entry
  BY <1>8 DEF Entry
<1>10. /\ Append(s, e) \in Seq(Entry) /\ Len(Append(s, e)) = len + 1
       /\ Append(s, e)[len + 1] = e /\ \A i \in 1 .. len : Append(s, e)[i] = s[i]
  BY <1>1, <1>9, LaneGrows
<1>11. q.bytes + m.size \in 0 .. ReliableBytes
  <2> DEFINE x == q.bytes
             y == m.size
  <2>1. x \in 0 .. ReliableBytes /\ y \in Nat /\ y <= ReliableBytes - x /\ ReliableBytes \in Nat
    BY <1>1, <1>3, <1>4, PolicyAssumption
  <2> HIDE DEF x, y
  <2>2. x + y \in 0 .. ReliableBytes
    BY <2>1
  <2> QED
    BY <2>2 DEF x, y
<1>12. p \in Queue
  <2>1. q \in Queue /\ Append(s, e) \in Seq([number : 0 .. Window - 1, size : Sizes])
    BY <1>10 DEF QueueOK, Entry
  <2> HIDE DEF p, s, e
  <2> QED
    BY <2>1, <1>2, <1>11 DEF Queue
<1>13. /\ p.reliable = Append(s, e) /\ p.bytes = q.bytes + m.size
       /\ p.tokens = q.tokens /\ p.phase = q.phase
  <2>1. q \in Queue
    BY DEF QueueOK
  <2> HIDE DEF p, s, e
  <2> QED
    BY <2>1, <1>2 DEF Queue
<1> HIDE DEF p, s, e
<1>14. QueueOK(p)
  <2>1. Len(p.reliable) <= ReliableMessages
    <3> HIDE DEF len
    <3> QED
      BY <1>1, <1>3, <1>4, <1>10, <1>13
  <2> QED
    BY <1>12, <1>13, <2>1, Zenon DEF QueueOK
<1>15. (t + 1) % Window = (n + (len + 1)) % Window /\ (t + 1) % Window \in 0 .. Window - 1
  <2>1. (t + 1) % Window = (n + (len + 1)) % Window
    <3> HIDE DEF len
    <3> QED
      BY <1>1, <1>3, <1>4, <1>5, <1>6, NextNumber
  <2> QED
    BY <1>7, <2>1, Counted
<1>16. \A i \in 1 .. len + 1 : Append(s, e)[i].number = (n + i - 1) % Window
  <2> SUFFICES ASSUME NEW i \in 1 .. len + 1
               PROVE  Append(s, e)[i].number = (n + i - 1) % Window
    OBVIOUS
  <2>1. CASE i = len + 1
    <3>1. n + i - 1 = n + len
      <4> HIDE DEF len
      <4> QED
        BY <1>1, <1>6, <2>1
    <3> QED
      BY <1>5, <1>10, <2>1, <3>1 DEF e
  <2>2. CASE i # len + 1
    <3>1. i \in 1 .. len
      <4> HIDE DEF len
      <4> QED
        BY <1>1, <2>2
    <3>2. s[i].number = (n + i - 1) % Window
      BY <3>1 DEF LaneOK, s
    <3> QED
      BY <1>10, <3>1, <3>2
  <2> QED
    BY <2>1, <2>2
<1>17. p.bytes = Bytes(p.reliable)
  <2>1. q.bytes = Bytes(s)
    BY DEF LaneOK, s
  <2>2. Bytes(Append(s, e)) = Bytes(s) + e.size /\ e.size = m.size
    BY <1>1, <1>9, BytesOfMore DEF e
  <2> QED
    BY <1>13, <2>1, <2>2
<1>18. LaneOK(p, (t + 1) % Window, n)
  <2>1. Len(p.reliable) = len + 1
    BY <1>10, <1>13
  <2> HIDE DEF len
  <2> QED
    BY <1>13, <1>15, <1>16, <1>17, <2>1, Zenon DEF LaneOK
<1> QED
  BY <1>14, <1>15, <1>18 DEF p

\* A change of the slots only.
LEMMA SlotsKeep ==
  ASSUME NEW q, NEW t, NEW n, NEW l \in SUBSET Slots, QueueOK(q), LaneOK(q, t, n)
  PROVE  QueueOK([q EXCEPT !.latest = l]) /\ LaneOK([q EXCEPT !.latest = l], t, n)
<1> DEFINE p == [q EXCEPT !.latest = l]
<1>1. q \in Queue
  BY DEF QueueOK
<1>2. /\ p \in Queue /\ p.reliable = q.reliable /\ p.bytes = q.bytes
      /\ p.tokens = q.tokens /\ p.phase = q.phase
  BY <1>1 DEF Queue
<1> HIDE DEF p
<1>3. QueueOK(p) /\ LaneOK(p, t, n)
  BY <1>2, LaneRests, Zenon DEF QueueOK
<1> QED
  BY <1>3 DEF p

LEMMA ReplaceKeeps ==
  ASSUME NEW q, NEW t, NEW n, NEW m, QueueOK(q), LaneOK(q, t, n), m.lane \in Slots
  PROVE  QueueOK(Append1(q, t, m)) /\ LaneOK(Append1(q, t, m), t, n)
<1>1. m.lane # "reliable"
  BY DEF Slots, Range, WorldLatest
<1>2. Append1(q, t, m) = [q EXCEPT !.latest = q.latest \cup {m.lane}]
  BY <1>1, Zenon DEF Append1
<1>3. q.latest \cup {m.lane} \in SUBSET Slots
  BY QueueFields DEF QueueOK
<1> DEFINE l == q.latest \cup {m.lane}
<1>4. QueueOK([q EXCEPT !.latest = l]) /\ LaneOK([q EXCEPT !.latest = l], t, n)
  <2>1. l \in SUBSET Slots
    BY <1>3
  <2> HIDE DEF l
  <2> QED
    BY <2>1, SlotsKeep, Zenon
<1> QED
  BY <1>2, <1>4, Zenon

\* refill() at the beginning of a pump.
LEMMA RefillKeeps ==
  ASSUME NEW q, NEW t, NEW n, NEW elapsed \in Nat, QueueOK(q), LaneOK(q, t, n)
  PROVE  QueueOK(refill(q, elapsed)) /\ LaneOK(refill(q, elapsed), t, n)
<1> DEFINE p == refill(q, elapsed)
<1>1. q \in Queue /\ q.tokens \in [Buckets -> Nat] /\ q.phase \in [Buckets -> Nat]
      /\ q.blockedFor \in NotBlocked .. BlockedDeadline
  BY QueueFields DEF QueueOK
<1>2. CASE ~q.initialized
  <2>1. p = [q EXCEPT !.initialized = TRUE]
    BY <1>2 DEF refill
  <2>2. /\ p \in Queue /\ p.reliable = q.reliable /\ p.bytes = q.bytes
        /\ p.tokens = q.tokens /\ p.phase = q.phase
    <3> HIDE DEF p
    <3> QED
      BY <1>1, <2>1 DEF Queue
  <2> HIDE DEF p
  <2>3. QueueOK(p) /\ LaneOK(p, t, n)
    BY <2>2, LaneRests, Zenon DEF QueueOK
  <2> QED
    BY <2>3 DEF p
<1>3. CASE q.initialized
  <2> DEFINE since(b) == q.phase[b] + elapsed
             gained(b) == since(b) \div Interval(b)
             missing(b) == Burst(b) - q.tokens[b]
             tokens == [b \in Buckets |-> IF gained(b) >= missing(b) THEN Burst(b)
                                          ELSE q.tokens[b] + gained(b)]
             phase == [b \in Buckets |-> since(b) % Interval(b)]
             for == IF q.blockedFor = NotBlocked THEN q.blockedFor
                    ELSE IF q.blockedFor + elapsed < BlockedDeadline
                    THEN q.blockedFor + elapsed ELSE BlockedDeadline
  <2>1. p = [q EXCEPT !.tokens = tokens, !.phase = phase, !.blockedFor = for]
    BY <1>3 DEF refill
  <2>2. for \in NotBlocked .. BlockedDeadline
    BY <1>1, PolicyAssumption DEF NotBlocked
  <2>3. ASSUME NEW b \in Buckets
        PROVE  /\ tokens[b] \in Nat /\ tokens[b] <= Burst(b)
               /\ phase[b] \in Nat /\ phase[b] < Interval(b)
    <3>1. /\ Burst(b) \in Nat /\ Interval(b) \in Nat \ {0} /\ q.tokens[b] \in Nat
          /\ q.tokens[b] <= Burst(b) /\ q.phase[b] \in Nat
      BY <1>1, Policies DEF QueueOK
    <3>2. since(b) \in Nat
      BY <3>1
    <3> DEFINE x == since(b)
               d == Interval(b)
    <3>3. x \div d \in Nat /\ x % d \in 0 .. d - 1
      <4>1. x \in Nat /\ d \in Nat \ {0}
        BY <3>1, <3>2
      <4> HIDE DEF x, d
      <4> QED
        BY <4>1
    <3> DEFINE g == gained(b)
    <3>4. g \in Nat /\ tokens[b] = IF g >= Burst(b) - q.tokens[b] THEN Burst(b) ELSE q.tokens[b] + g
      BY <3>3
    <3>5. phase[b] = x % d
      OBVIOUS
    <3> HIDE DEF g, x, tokens, phase
    <3> QED
      BY <3>1, <3>3, <3>4, <3>5
  <2> HIDE DEF for, p
  <2>4. tokens \in [Buckets -> Nat] /\ phase \in [Buckets -> Nat]
    <3>1. tokens = [b \in Buckets |-> tokens[b]] /\ phase = [b \in Buckets |-> phase[b]]
      OBVIOUS
    <3> HIDE DEF tokens, phase
    <3> QED
      BY <2>3, <3>1
  <2> HIDE DEF tokens, phase
  <2>5. /\ p \in Queue /\ p.reliable = q.reliable /\ p.bytes = q.bytes
        /\ p.tokens = tokens /\ p.phase = phase
    BY <1>1, <2>1, <2>2, <2>4 DEF Queue
  <2>6. QueueOK(p) /\ LaneOK(p, t, n)
    BY <2>3, <2>5, LaneRests, Zenon DEF QueueOK
  <2> QED
    BY <2>6 DEF p
<1> QED
  BY <1>2, <1>3

\* The numbers of a lane whose first message went.
LEMMA FirstNumber ==
  ASSUME NEW n \in 0 .. Window - 1, NEW j \in 0 .. Window - 1
  PROVE  (((n + 1) % Window) + j) % Window = (n + (j + 1)) % Window
<1>1. Window \in Nat \ {0} /\ n \in Nat /\ j \in Nat /\ n < Window /\ j < Window
  BY Policies
<1> DEFINE w == Window
           a == n + 1
           c == n + (j + 1)
<1>2. a \in Nat /\ a < w + w /\ a <= w
  BY <1>1
<1>3. /\ a < w => a % w = a
      /\ ~(a < w) => a % w = a - w
  <2> HIDE DEF a
  <2> QED
    BY <1>2, Modulo
<1>4. CASE a < w
  <2>1. a % w = n + 1
    BY <1>3, <1>4
  <2>2. (n + 1) + j = n + (j + 1)
    BY <1>1
  <2> HIDE DEF w
  <2> QED
    BY <2>1, <2>2, Zenon DEF a, w
<1>5. CASE ~(a < w)
  <2>1. a = w
    BY <1>1, <1>2, <1>5
  <2>2. a % w = 0
    BY <1>1, <1>3, <1>5, <2>1
  <2>3. c = w + j /\ c \in Nat /\ c < w + w /\ ~(c < w)
    BY <1>1, <2>1
  <2>4. c % w = c - w
    <3> HIDE DEF c
    <3> QED
      BY <2>3, Modulo
  <2>5. j % w = j
    BY <1>1, Modulo
  <2>6. c - w = j
    BY <1>1, <2>3
  <2>7. 0 + j = j
    BY <1>1
  <2>8. ((a % w) + j) % w = c % w
    <3> HIDE DEF a, c, w
    <3> QED
      BY <2>2, <2>4, <2>5, <2>6, <2>7, Zenon
  <2> QED
    BY <2>8
<1> QED
  BY <1>4, <1>5

\* Any change that leaves the lane alone.
LEMMA OtherMembers ==
  ASSUME NEW q, NEW p, NEW t, NEW n, QueueOK(q), LaneOK(q, t, n), p \in Queue,
         p.reliable = q.reliable, p.bytes = q.bytes,
         \A b \in Buckets : p.tokens[b] <= Burst(b), p.phase = q.phase
  PROVE  QueueOK(p) /\ LaneOK(p, t, n)
  BY LaneRests, Zenon DEF QueueOK

\* An attempt takes a token.
LEMMA AttemptKeeps ==
  ASSUME NEW q, NEW t, NEW n, NEW bucket \in Buckets, QueueOK(q), LaneOK(q, t, n),
         q.tokens[bucket] # 0
  PROVE  LET p == [q EXCEPT !.tokens[bucket] = @ - 1]
         IN  /\ QueueOK(p) /\ LaneOK(p, t, n)
             /\ p.reliable = q.reliable /\ p.bytes = q.bytes /\ p.latest = q.latest
             /\ p.next = q.next
<1> DEFINE p == [q EXCEPT !.tokens[bucket] = @ - 1]
           tokens == [q.tokens EXCEPT ![bucket] = q.tokens[bucket] - 1]
<1>1. q \in Queue /\ q.tokens \in [Buckets -> Nat]
  BY QueueFields DEF QueueOK
<1>2. \A b \in Buckets : q.tokens[b] \in Nat /\ Burst(b) \in Nat /\ q.tokens[b] <= Burst(b)
  BY <1>1, Policies DEF QueueOK
<1>3. p = [q EXCEPT !.tokens = tokens]
  OBVIOUS
<1>4. \A b \in Buckets : tokens[b] = IF b = bucket THEN q.tokens[bucket] - 1 ELSE q.tokens[b]
  BY <1>1
<1>5. \A b \in Buckets : tokens[b] \in Nat /\ tokens[b] <= Burst(b)
  <2> HIDE DEF tokens
  <2> QED
    BY <1>2, <1>4
<1>6. tokens \in [Buckets -> Nat]
  BY <1>1, <1>2
<1> HIDE DEF tokens, p
<1>7. /\ p \in Queue /\ p.reliable = q.reliable /\ p.bytes = q.bytes
      /\ p.tokens = tokens /\ p.phase = q.phase /\ p.latest = q.latest /\ p.next = q.next
  BY <1>1, <1>3, <1>6 DEF Queue
<1>8. QueueOK(p) /\ LaneOK(p, t, n)
  BY <1>5, <1>7, OtherMembers, Zenon
<1> QED
  BY <1>7, <1>8 DEF p

\* The transport accepted the first message of the lane.
LEMMA PopKeeps ==
  ASSUME NEW q, NEW t, NEW n \in 0 .. Window - 1, QueueOK(q), LaneOK(q, t, n),
         q.reliable # <<>>
  PROVE  /\ QueueOK(PopFront(q)) /\ LaneOK(PopFront(q), t, (n + 1) % Window)
         /\ (n + 1) % Window \in 0 .. Window - 1
<1> DEFINE p == PopFront(q)
           s == q.reliable
           u == Tail(s)
           len == Len(s)
           h == Head(s).size
<1>1. q \in Queue /\ s \in Seq(Entry) /\ q.bytes \in 0 .. ReliableBytes
  BY QueueFields DEF QueueOK
<1>2. p = [q EXCEPT !.bytes = q.bytes - h, !.reliable = u]
  BY DEF PopFront
<1>3. /\ u \in Seq(Entry) /\ len \in Nat \ {0} /\ Len(u) = len - 1
      /\ \A i \in 1 .. len - 1 : u[i] = s[i + 1]
  BY <1>1, LaneShrinks
<1>4. Bytes(s) \in Nat /\ Bytes(u) \in Nat /\ h \in Nat /\ Bytes(u) = Bytes(s) - h
  BY <1>1, BytesOfTail
<1>5. q.bytes = Bytes(s)
  BY DEF LaneOK
<1>6. q.bytes - h \in 0 .. ReliableBytes /\ q.bytes - h = Bytes(u)
  <2> DEFINE x == q.bytes
             y == Bytes(u)
             z == Bytes(s)
  <2>1. x \in 0 .. ReliableBytes /\ x = z /\ z \in Nat /\ y \in Nat /\ h \in Nat /\ y = z - h
        /\ ReliableBytes \in Nat
    BY <1>1, <1>4, <1>5, PolicyAssumption
  <2> HIDE DEF x, y, z, h
  <2>2. x - h \in 0 .. ReliableBytes /\ x - h = y
    BY <2>1
  <2> QED
    BY <2>2 DEF x, y
<1>7. Window \in Nat \ {0} /\ Window = ReliableMessages + 1 /\ ReliableMessages \in Nat /\ n + 1 \in Nat
  BY Policies, PolicyAssumption DEF Window
<1>8. len <= ReliableMessages
  BY DEF QueueOK
<1>9. (n + 1) % Window \in 0 .. Window - 1
  BY <1>7, Counted
<1>10. \A i \in 1 .. len : s[i].number = (n + i - 1) % Window
  BY DEF LaneOK
<1>11. t = (n + len) % Window
  BY DEF LaneOK
<1> HIDE DEF p, s, u, len, h
<1>12. /\ p \in Queue /\ p.reliable = u /\ p.bytes = q.bytes - h
       /\ p.tokens = q.tokens /\ p.phase = q.phase
  <2>1. u \in Seq([number : 0 .. Window - 1, size : Sizes])
    BY <1>3 DEF Entry
  <2> QED
    BY <1>1, <1>2, <1>6, <2>1 DEF Queue
<1>13. QueueOK(p)
  <2>1. Len(p.reliable) <= ReliableMessages
    BY <1>3, <1>7, <1>8, <1>12
  <2> QED
    BY <1>12, <2>1, Zenon DEF QueueOK
<1>14. ASSUME NEW i \in 1 .. len - 1
       PROVE  u[i].number = (((n + 1) % Window) + i - 1) % Window
  <2>1. /\ i + 1 \in 1 .. len /\ n + (i + 1) - 1 = n + ((i - 1) + 1)
        /\ i - 1 \in 0 .. Window - 1
    BY <1>3, <1>7, <1>8
  <2>2. u[i].number = (n + (i + 1) - 1) % Window
    BY <1>3, <1>10, <2>1
  <2>3. (((n + 1) % Window) + (i - 1)) % Window = (n + ((i - 1) + 1)) % Window
    BY <2>1, FirstNumber, Zenon
  <2>4. ((n + 1) % Window) + (i - 1) = ((n + 1) % Window) + i - 1
    <3> DEFINE x == (n + 1) % Window
    <3>1. x \in Int
      BY <1>9
    <3> HIDE DEF x
    <3>2. x + (i - 1) = x + i - 1
      BY <1>3, <3>1
    <3> QED
      BY <3>2 DEF x
  <2> QED
    BY <2>1, <2>2, <2>3, <2>4, Zenon
<1>15. t = (((n + 1) % Window) + (len - 1)) % Window
  <2>1. len - 1 \in 0 .. Window - 1 /\ (len - 1) + 1 = len
    BY <1>3, <1>7, <1>8
  <2>2. (((n + 1) % Window) + (len - 1)) % Window = (n + ((len - 1) + 1)) % Window
    BY <2>1, FirstNumber, Zenon
  <2> QED
    BY <2>1, <2>2, <1>11, Zenon
<1>16. LaneOK(p, t, (n + 1) % Window)
  <2>1. p.reliable = u /\ Len(u) = len - 1 /\ p.bytes = Bytes(u)
    BY <1>3, <1>6, <1>12, Zenon
  <2> QED
    BY <2>1, <1>14, <1>15, Zenon DEF LaneOK
<1> QED
  BY <1>9, <1>13, <1>16 DEF p

\* The world lanes take turns.
LEMMA RotateKeeps ==
  ASSUME NEW q, NEW t, NEW n, NEW k \in Nat, QueueOK(q), LaneOK(q, t, n)
  PROVE  LET p == [q EXCEPT !.next = (@ + k + 1) % 4]
         IN  QueueOK(p) /\ LaneOK(p, t, n) /\ p.latest = q.latest
<1> DEFINE p == [q EXCEPT !.next = (@ + k + 1) % 4]
           x == (q.next + k + 1) % 4
<1>1. q \in Queue /\ q.next \in 0 .. 3
  BY QueueFields DEF QueueOK
<1>2. x \in 0 .. 3
  BY <1>1
<1>3. p = [q EXCEPT !.next = x]
  OBVIOUS
<1> HIDE DEF p, x
<1>4. /\ p \in Queue /\ p.reliable = q.reliable /\ p.bytes = q.bytes
      /\ p.tokens = q.tokens /\ p.phase = q.phase /\ p.latest = q.latest
  BY <1>1, <1>2, <1>3 DEF Queue
<1>5. QueueOK(p) /\ LaneOK(p, t, n)
  BY <1>4, LaneRests, Zenon DEF QueueOK
<1> QED
  BY <1>4, <1>5 DEF p

\* The bookkeeping at the end of pump().
LEMMA BlockKeeps ==
  ASSUME NEW q, NEW t, NEW n, QueueOK(q), LaneOK(q, t, n), ~shouldEvict(Blocked(q))
  PROVE  QueueOK(Blocked(q)) /\ LaneOK(Blocked(q), t, n)
<1> DEFINE p == Blocked(q)
           for == IF q.blockedFor = NotBlocked THEN 0 ELSE q.blockedFor
           count == q.blocks + 1
<1>1. /\ q \in Queue /\ q.blocks \in 0 .. ConsecutiveBlockLimit
      /\ q.blockedFor \in NotBlocked .. BlockedDeadline
  BY QueueFields DEF QueueOK
<1>2. p = [q EXCEPT !.blockedFor = for, !.blocks = count]
  BY DEF Blocked
<1>3. p.blocks = count
  <2> HIDE DEF p, for, count
  <2> QED
    BY <1>1, <1>2 DEF Queue
<1>4. ~(p.blocks >= ConsecutiveBlockLimit)
  BY DEF shouldEvict
<1>5. count \in 0 .. ConsecutiveBlockLimit
  <2> DEFINE x == q.blocks
  <2>1. x \in 0 .. ConsecutiveBlockLimit /\ ~(x + 1 >= ConsecutiveBlockLimit)
    BY <1>1, <1>3, <1>4
  <2> HIDE DEF x
  <2>2. x + 1 \in 0 .. ConsecutiveBlockLimit
    BY <2>1, PolicyAssumption
  <2> QED
    BY <2>2 DEF x
<1>6. for \in NotBlocked .. BlockedDeadline
  BY <1>1, PolicyAssumption DEF NotBlocked
<1> HIDE DEF p, for, count
<1>7. /\ p \in Queue /\ p.reliable = q.reliable /\ p.bytes = q.bytes
      /\ p.tokens = q.tokens /\ p.phase = q.phase
  BY <1>1, <1>2, <1>5, <1>6 DEF Queue
<1>8. QueueOK(p) /\ LaneOK(p, t, n)
  BY <1>7, LaneRests, Zenon DEF QueueOK
<1> QED
  BY <1>8 DEF p

LEMMA ReleaseKeeps ==
  ASSUME NEW q, NEW t, NEW n, QueueOK(q), LaneOK(q, t, n)
  PROVE  QueueOK(Released(q)) /\ LaneOK(Released(q), t, n)
<1> DEFINE p == [q EXCEPT !.blockedFor = NotBlocked, !.blocks = 0]
<1>1. q \in Queue
  BY DEF QueueOK
<1>2. NotBlocked \in NotBlocked .. BlockedDeadline /\ 0 \in 0 .. ConsecutiveBlockLimit
  BY PolicyAssumption DEF NotBlocked
<1>3. /\ p \in Queue /\ p.reliable = q.reliable /\ p.bytes = q.bytes
      /\ p.tokens = q.tokens /\ p.phase = q.phase
  BY <1>1, <1>2 DEF Queue
<1>4. Released(q) = p \/ Released(q) = q
  BY DEF Released
<1> HIDE DEF p
<1>5. QueueOK(p) /\ LaneOK(p, t, n)
  BY <1>3, LaneRests, Zenon DEF QueueOK
<1> QED
  BY <1>4, <1>5

-----------------------------------------------------------------------------
(* The inductive invariant: connections that are not attached have nothing   *)
(* outstanding, and each queue that is attached is in order.                 *)

Numbers == 0 .. Window - 1

QueuesOK(queues, t, n) ==
  \A c \in DOMAIN queues : QueueOK(queues[c]) /\ LaneOK(queues[c], t[c], n[c])

AttachedOK ==
  /\ DOMAIN mQueues \subseteq Connections
  /\ IsFiniteSet(DOMAIN mQueues)
  /\ Cardinality(DOMAIN mQueues) <= mConnectionLimit

\* What is remembered of a connection goes with its queue.
NothingOutstanding == \A c \in Connections \ DOMAIN mQueues : told[c] = sent[c]

CountsOK == told \in [Connections -> Numbers] /\ sent \in [Connections -> Numbers]
PumpOK == pump = Idle \/ (pump \in PumpLocals /\ pump.connection \in DOMAIN mQueues)

OutboundIInv ==
  /\ AttachedOK
  /\ QueuesOK(mQueues, told, sent)
  /\ NothingOutstanding
  /\ CountsOK
  /\ PumpOK
  /\ offer \in Slots \cup {Idle}

LEMMA IInvImplies == OutboundIInv => OutboundTypeOK /\ ReliableInOrder
<1> SUFFICES ASSUME OutboundIInv PROVE OutboundTypeOK /\ ReliableInOrder
  OBVIOUS
<1>1. OutboundTypeOK
  BY Zenon DEF OutboundIInv, AttachedOK, QueuesOK, QueueOK, CountsOK, Numbers, PumpOK, OutboundTypeOK
<1>2. ReliableInOrder
  BY Zenon DEF OutboundIInv, QueuesOK, LaneOK, Bytes, ReliableInOrder
<1> QED
  BY <1>1, <1>2

LEMMA InitOutbound == OutboundInit => OutboundIInv
<1> SUFFICES ASSUME OutboundInit PROVE OutboundIInv
  OBVIOUS
<1>1. DOMAIN mQueues = {}
  BY DEF OutboundInit
<1>2. AttachedOK
  BY <1>1, FS_EmptySet, InputAssumption DEF AttachedOK
<1>3. QueuesOK(mQueues, told, sent)
  BY <1>1 DEF QueuesOK
<1>4. NothingOutstanding
  BY DEF NothingOutstanding, OutboundInit
<1>5. CountsOK
  BY Policies DEF CountsOK, OutboundInit, Numbers
<1> QED
  BY <1>2, <1>3, <1>4, <1>5 DEF OutboundIInv, PumpOK, OutboundInit

-----------------------------------------------------------------------------
(* Admission of a group. *)

GroupMessage ==
  [connection : Connections, lane : {"reliable"}, size : Sizes]
    \cup [connection : Connections, lane : Slots, size : {1}]

\* The staged copy of the queues.
StageOK(st) ==
  /\ st = [ok |-> st.ok, queues |-> st.queues, count |-> st.count]
  /\ DOMAIN st.queues = DOMAIN mQueues
  /\ st.count \in [Connections -> Numbers]
  /\ \A c \in Connections \ DOMAIN mQueues : st.count[c] = told[c]
  /\ QueuesOK(st.queues, st.count, sent)

LEMMA StageKeeps ==
  ASSUME OutboundIInv, NEW st, StageOK(st), NEW m \in GroupMessage
  PROVE  StageOK(Stage(st, m))
<1> DEFINE c == m.connection
           qs == st.queues
           k == st.count
           fits == /\ st.ok
                   /\ c \in DOMAIN qs
                   /\ m.lane = "reliable" => LaneHasRoom(qs[c], m.size)
<1>1. /\ c \in Connections
      /\ \/ m.lane = "reliable" /\ m.size \in Sizes
         \/ m.lane \in Slots /\ m.lane # "reliable"
  BY DEF GroupMessage, Slots, Range, WorldLatest
<1>2. /\ DOMAIN qs = DOMAIN mQueues /\ k \in [Connections -> Numbers]
      /\ \A d \in Connections \ DOMAIN mQueues : k[d] = told[d]
      /\ \A d \in DOMAIN qs : QueueOK(qs[d]) /\ LaneOK(qs[d], k[d], sent[d])
      /\ DOMAIN mQueues \subseteq Connections /\ sent \in [Connections -> Numbers]
  BY Zenon DEF StageOK, QueuesOK, OutboundIInv, AttachedOK, CountsOK
<1>3. CASE ~fits
  <2>1. Stage(st, m) = [st EXCEPT !.ok = FALSE]
    BY <1>3 DEF Stage
  <2>2. Stage(st, m) = [ok |-> FALSE, queues |-> qs, count |-> k]
    BY <2>1 DEF StageOK
  <2> QED
    BY <1>2, <2>2 DEF StageOK, QueuesOK
<1>4. CASE fits
  <2> DEFINE q == Append1(qs[c], k[c], m)
             queues == [qs EXCEPT ![c] = q]
             count == IF m.lane = "reliable" THEN [k EXCEPT ![c] = (k[c] + 1) % Window] ELSE k
  <2>1. Stage(st, m) = [ok |-> TRUE, queues |-> queues, count |-> count]
    BY <1>4 DEF Stage
  <2>2. c \in DOMAIN qs /\ c \in DOMAIN mQueues /\ QueueOK(qs[c]) /\ LaneOK(qs[c], k[c], sent[c])
        /\ sent[c] \in 0 .. Window - 1
    BY <1>2, <1>4 DEF Numbers
  <2>3. /\ QueueOK(q) /\ LaneOK(q, count[c], sent[c]) /\ count \in [Connections -> Numbers]
        /\ \A d \in Connections : d # c => count[d] = k[d]
    <3>1. CASE m.lane = "reliable"
      <4>1. m.size \in Sizes /\ LaneHasRoom(qs[c], m.size)
        BY <1>1, <1>4, <3>1 DEF Slots, Range, WorldLatest
      <4>2. /\ QueueOK(q) /\ LaneOK(q, (k[c] + 1) % Window, sent[c])
            /\ (k[c] + 1) % Window \in 0 .. Window - 1
        <5> HIDE DEF qs, k, c
        <5> QED
          BY <2>2, <3>1, <4>1, AppendKeeps
      <4>3. count = [k EXCEPT ![c] = (k[c] + 1) % Window]
        BY <3>1
      <4> DEFINE x == (k[c] + 1) % Window
      <4> HIDE DEF q, count, x, k, c, qs
      <4>4. x \in Numbers /\ count = [k EXCEPT ![c] = x] /\ LaneOK(q, x, sent[c])
        BY <4>2, <4>3 DEF Numbers, x
      <4>5. count \in [Connections -> Numbers] /\ count[c] = x
            /\ \A d \in Connections : d # c => count[d] = k[d]
        BY <1>1, <1>2, <4>4
      <4> QED
        BY <4>2, <4>4, <4>5, Zenon
    <3>2. CASE m.lane # "reliable"
      <4>1. m.lane \in Slots /\ count = k
        BY <1>1, <3>2
      <4>2. QueueOK(q) /\ LaneOK(q, k[c], sent[c])
        <5> HIDE DEF qs, k, c
        <5> QED
          BY <2>2, <4>1, ReplaceKeeps
      <4> HIDE DEF q, count, k, c, qs
      <4> QED
        BY <1>2, <4>1, <4>2
    <3> QED
      BY <3>1, <3>2
  <2> HIDE DEF q, count, c, qs, k
  <2>4. DOMAIN queues = DOMAIN qs /\ queues[c] = q /\ \A d \in DOMAIN qs : d # c => queues[d] = qs[d]
    BY <2>2
  <2> HIDE DEF queues
  <2>5. QueuesOK(queues, count, sent)
    <3> SUFFICES ASSUME NEW d \in DOMAIN queues
                 PROVE  QueueOK(queues[d]) /\ LaneOK(queues[d], count[d], sent[d])
      BY DEF QueuesOK
    <3>1. CASE d = c
      BY <2>3, <2>4, <3>1
    <3>2. CASE d # c
      <4>1. d \in Connections /\ queues[d] = qs[d] /\ count[d] = k[d]
        BY <1>2, <2>3, <2>4, <3>2
      <4> QED
        BY <1>2, <2>4, <4>1
    <3> QED
      BY <3>1, <3>2
  <2>6. \A d \in Connections \ DOMAIN mQueues : count[d] = told[d]
    BY <1>2, <2>2, <2>3
  <2>7. StageOK([ok |-> TRUE, queues |-> queues, count |-> count])
    BY <1>2, <2>3, <2>4, <2>5, <2>6 DEF StageOK
  <2> QED
    BY <2>1, <2>7
<1> QED
  BY <1>3, <1>4

\* A group of any length.
LEMMA GroupStaged ==
  ASSUME OutboundIInv, NEW group \in Seq(GroupMessage)
  PROVE  StageOK(Staged(group))
<1> DEFINE first == [ok |-> TRUE, queues |-> mQueues, count |-> told]
<1>1. StageOK(first)
  BY DEF StageOK, OutboundIInv, CountsOK
<1>2. Staged(group) = FoldLeft(Stage, first, group)
  BY DEF Staged
<1> HIDE DEF first
<1>3. PICK run : IsRun(FALSE, run, first, group) /\ run[Len(group)] = Fold(FALSE, first, group)
  BY FoldRuns
<1>4. run[Len(group)] = Staged(group)
  BY <1>2, <1>3, StagedFold
<1>5. run[0] = first /\ \A i \in 1 .. Len(group) : run[i] = Stage(run[i - 1], group[i])
  BY <1>3, Zenon DEF IsRun, FoldStep
<1> DEFINE T == {i \in Nat : i <= Len(group) => StageOK(run[i])}
<1>6. 0 \in T
  BY <1>1, <1>5
<1>7. ASSUME NEW i \in Nat, i \in T PROVE i + 1 \in T
  <2> SUFFICES ASSUME i + 1 <= Len(group) PROVE StageOK(run[i + 1])
    OBVIOUS
  <2>1. Len(group) \in Nat /\ i + 1 \in 1 .. Len(group) /\ (i + 1) - 1 = i /\ StageOK(run[i])
    BY <1>7
  <2>2. group[i + 1] \in GroupMessage /\ run[i + 1] = Stage(run[i], group[i + 1])
    BY <2>1, <1>5, LaneElements
  <2> QED
    BY <2>1, <2>2, StageKeeps
<1> HIDE DEF T
<1>8. Len(group) \in T /\ Len(group) \in Nat
  BY <1>6, <1>7, Induct
<1>9. StageOK(run[Len(group)])
  BY <1>8 DEF T
<1> QED
  BY <1>4, <1>9

LEMMA AdmitKeeps ==
  ASSUME OutboundIInv, NEW group \in Seq(GroupMessage), Admit(group)
  PROVE  OutboundIInv'
<1> DEFINE st == Staged(group)
<1>1. StageOK(st)
  BY GroupStaged
<1>2. mQueues' = st.queues /\ told' = st.count /\ sent' = sent /\ pump' = pump /\ pump = Idle
      /\ offer' = Idle
  BY DEF Admit
<1> HIDE DEF st
<1>3. DOMAIN mQueues' = DOMAIN mQueues
  BY <1>1, <1>2 DEF StageOK
<1>4. AttachedOK'
  BY <1>3, Zenon DEF AttachedOK, OutboundIInv
<1>5. QueuesOK(mQueues', told', sent')
  BY <1>1, <1>2, Zenon DEF StageOK
<1>6. NothingOutstanding'
  BY <1>1, <1>2, <1>3 DEF StageOK, NothingOutstanding, OutboundIInv
<1>7. CountsOK'
  BY <1>1, <1>2, Zenon DEF StageOK, CountsOK, OutboundIInv, Numbers, Window
<1> QED
  BY <1>2, <1>4, <1>5, <1>6, <1>7, Zenon DEF OutboundIInv, PumpOK, QueuesOK, Slots, WorldLatest

\* What the callers enqueue is a group.
LEMMA MessageTyped ==
  ASSUME NEW c \in Connections
  PROVE  Message(c) \subseteq GroupMessage
<1>1. Offered[c] \subseteq Slots
  BY InputAssumption
<1> QED
  BY <1>1 DEF Message, GroupMessage

LEMMA Groups ==
  /\ \A m \in GroupMessage : <<m>> \in Seq(GroupMessage)
  /\ \A m, n \in GroupMessage : <<m, n>> \in Seq(GroupMessage)
  /\ \A k, l, m, n \in GroupMessage : <<k, l, m, n>> \in Seq(GroupMessage)
<1> DEFINE G == GroupMessage
<1> HIDE DEF G
<1>1. \A m \in G : <<m>> \in Seq(G)
  OBVIOUS
<1>2. \A m, n \in G : <<m, n>> \in Seq(G)
  OBVIOUS
<1>3. \A k, l, m, n \in G : <<k, l, m, n>> \in Seq(G)
  OBVIOUS
<1> QED
  BY <1>1, <1>2, <1>3 DEF G

LEMMA EnqueueKeeps ==
  ASSUME OutboundIInv, NEW c \in Connections, enqueue(c) \/ enqueuePair(c)
  PROVE  OutboundIInv'
<1>1. CASE enqueue(c)
  <2>1. PICK m \in Message(c) : Admit(<<m>>)
    BY <1>1, Zenon DEF enqueue
  <2>2. <<m>> \in Seq(GroupMessage)
    BY MessageTyped, Groups
  <2> QED
    BY <2>1, <2>2, AdmitKeeps
<1>2. CASE enqueuePair(c)
  <2>1. PICK m \in Message(c), n \in Message(c) : Admit(<<m, n>>)
    BY <1>2, Zenon DEF enqueuePair
  <2>2. <<m, n>> \in Seq(GroupMessage)
    BY MessageTyped, Groups
  <2> QED
    BY <2>1, <2>2, AdmitKeeps
<1> QED
  BY <1>1, <1>2

LEMMA EnqueueGroupKeeps ==
  ASSUME OutboundIInv, NEW c \in Connections, NEW d \in Connections,
         enqueuePairsAtomically(c, d) \/ enqueueMessagesAtomically(c, d)
  PROVE  OutboundIInv'
<1>1. CASE enqueuePairsAtomically(c, d)
  <2>1. PICK a \in Sizes, m \in Sizes, b \in Message(c), n \in Message(d) :
          Admit(<<[connection |-> c, lane |-> "reliable", size |-> a], b,
                  [connection |-> d, lane |-> "reliable", size |-> m], n>>)
    BY <1>1, Zenon DEF enqueuePairsAtomically
  <2> DEFINE x == [connection |-> c, lane |-> "reliable", size |-> a]
             y == [connection |-> d, lane |-> "reliable", size |-> m]
  <2>2. x \in GroupMessage /\ y \in GroupMessage
    BY DEF GroupMessage
  <2>3. b \in GroupMessage /\ n \in GroupMessage
    BY MessageTyped
  <2> HIDE DEF x, y
  <2>4. <<x, b, y, n>> \in Seq(GroupMessage)
    BY <2>2, <2>3, Groups
  <2>5. Admit(<<x, b, y, n>>)
    BY <2>1 DEF x, y
  <2> QED
    BY <2>4, <2>5, AdmitKeeps
<1>2. CASE enqueueMessagesAtomically(c, d)
  <2>1. PICK m \in Message(c), n \in Message(d) : Admit(<<m, n>>)
    BY <1>2, Zenon DEF enqueueMessagesAtomically
  <2>2. <<m, n>> \in Seq(GroupMessage)
    BY MessageTyped, Groups
  <2> QED
    BY <2>1, <2>2, AdmitKeeps
<1> QED
  BY <1>1, <1>2

-----------------------------------------------------------------------------
(* The other steps. *)

LEMMA AttachKeeps ==
  ASSUME OutboundIInv, NEW c \in Connections, attach(c)
  PROVE  OutboundIInv'
<1> DEFINE D == DOMAIN mQueues
<1>1. /\ c \notin D /\ Cardinality(D) < mConnectionLimit /\ pump = Idle
      /\ mQueues' = [d \in D \cup {c} |-> IF d = c THEN NewQueue ELSE mQueues[d]]
      /\ offer' = Idle /\ pump' = pump /\ told' = told /\ sent' = sent
  BY DEF attach, history
<1>2. D \subseteq Connections /\ IsFiniteSet(D)
  BY Zenon DEF OutboundIInv, AttachedOK
<1>3. DOMAIN mQueues' = D \cup {c}
  BY <1>1
<1>4. AttachedOK'
  <2>1. IsFiniteSet(D \cup {c}) /\ Cardinality(D \cup {c}) = Cardinality(D) + 1
        /\ Cardinality(D) \in Nat
    BY <1>1, <1>2, FS_AddElement, FS_CardinalityType
  <2> HIDE DEF D
  <2>2. Cardinality(D \cup {c}) <= mConnectionLimit
    <3> DEFINE n == Cardinality(D)
    <3>1. n \in Nat /\ n < mConnectionLimit /\ Cardinality(D \cup {c}) = n + 1
      BY <1>1, <2>1
    <3> HIDE DEF n
    <3> QED
      BY <3>1, InputAssumption
  <2> QED
    BY <1>2, <1>3, <2>1, <2>2 DEF AttachedOK
<1>5. QueuesOK(mQueues', told', sent')
  <2> SUFFICES ASSUME NEW d \in D \cup {c}
               PROVE  QueueOK(mQueues'[d]) /\ LaneOK(mQueues'[d], told'[d], sent'[d])
    BY <1>3 DEF QueuesOK
  <2>1. CASE d = c
    <3>1. mQueues'[d] = NewQueue
      BY <1>1, <2>1
    <3>2. told[c] = sent[c] /\ sent[c] \in 0 .. Window - 1
      BY <1>1 DEF OutboundIInv, NothingOutstanding, CountsOK, Numbers
    <3>3. QueueOK(NewQueue) /\ LaneOK(NewQueue, sent[c], sent[c])
      BY <3>2, NewQueueOK
    <3> QED
      BY <1>1, <2>1, <3>1, <3>2, <3>3, Zenon
  <2>2. CASE d # c
    <3>1. d \in D /\ mQueues'[d] = mQueues[d]
      BY <1>1, <2>2
    <3> QED
      BY <1>1, <3>1, Zenon DEF OutboundIInv, QueuesOK
  <2> QED
    BY <2>1, <2>2
<1>6. NothingOutstanding'
  BY <1>1, <1>3 DEF NothingOutstanding, OutboundIInv
<1>7. CountsOK' /\ PumpOK' /\ offer' \in Slots \cup {Idle}
  BY <1>1 DEF OutboundIInv, CountsOK, PumpOK, Numbers, Window
<1> QED
  BY <1>4, <1>5, <1>6, <1>7, Zenon DEF OutboundIInv, QueuesOK, Slots, WorldLatest

LEMMA DropKeeps ==
  ASSUME OutboundIInv, NEW c \in DOMAIN mQueues, Drop(c)
  PROVE  OutboundIInv'
<1> DEFINE D == DOMAIN mQueues
<1>1. /\ mQueues' = [d \in D \ {c} |-> mQueues[d]]
      /\ told' = [told EXCEPT ![c] = 0] /\ sent' = [sent EXCEPT ![c] = 0]
      /\ pump' = Idle /\ offer' = Idle
  BY DEF Drop
<1>2. /\ D \subseteq Connections /\ IsFiniteSet(D) /\ Cardinality(D) <= mConnectionLimit
      /\ told \in [Connections -> Numbers] /\ sent \in [Connections -> Numbers]
  BY Zenon DEF OutboundIInv, AttachedOK, CountsOK
<1>3. DOMAIN mQueues' = D \ {c} /\ \A d \in D \ {c} : mQueues'[d] = mQueues[d]
  BY <1>1
<1>4. AttachedOK'
  <2>1. IsFiniteSet(D \ {c}) /\ Cardinality(D \ {c}) = Cardinality(D) - 1
        /\ Cardinality(D) \in Nat
    BY <1>2, FS_RemoveElement, FS_CardinalityType
  <2> HIDE DEF D
  <2>2. Cardinality(D \ {c}) <= mConnectionLimit
    <3> DEFINE n == Cardinality(D)
    <3>1. n \in Nat /\ n <= mConnectionLimit /\ Cardinality(D \ {c}) = n - 1
      BY <1>2, <2>1
    <3> HIDE DEF n
    <3> QED
      BY <3>1, InputAssumption
  <2> QED
    BY <1>2, <1>3, <2>1, <2>2 DEF AttachedOK
<1>5. /\ told' \in [Connections -> Numbers] /\ sent' \in [Connections -> Numbers]
      /\ told'[c] = 0 /\ sent'[c] = 0
      /\ \A d \in Connections : d # c => told'[d] = told[d] /\ sent'[d] = sent[d]
  <2>1. 0 \in Numbers /\ c \in Connections
    BY Policies, <1>2 DEF Numbers
  <2> QED
    BY <1>1, <1>2, <2>1
<1>6. QueuesOK(mQueues', told', sent')
  <2> SUFFICES ASSUME NEW d \in D \ {c}
               PROVE  QueueOK(mQueues'[d]) /\ LaneOK(mQueues'[d], told'[d], sent'[d])
    BY <1>3 DEF QueuesOK
  <2>1. mQueues'[d] = mQueues[d] /\ told'[d] = told[d] /\ sent'[d] = sent[d] /\ d \in DOMAIN mQueues
    BY <1>2, <1>3, <1>5
  <2> QED
    BY <2>1, Zenon DEF OutboundIInv, QueuesOK
<1>7. NothingOutstanding'
  <2> SUFFICES ASSUME NEW d \in Connections, d \notin D \ {c}
               PROVE  told'[d] = sent'[d]
    BY <1>3 DEF NothingOutstanding
  <2>1. CASE d = c
    BY <1>5, <2>1
  <2>2. CASE d # c
    BY <1>5, <2>2 DEF OutboundIInv, NothingOutstanding
  <2> QED
    BY <2>1, <2>2
<1>8. CountsOK' /\ PumpOK' /\ offer' \in Slots \cup {Idle}
  BY <1>1, <1>5 DEF CountsOK, PumpOK, Numbers, Window
<1> QED
  BY <1>4, <1>6, <1>7, <1>8, Zenon DEF OutboundIInv, QueuesOK, Slots, WorldLatest

\* A step that changes one queue.
LEMMA OneQueueKeeps ==
  ASSUME OutboundIInv, NEW c \in DOMAIN mQueues, NEW q,
         mQueues' = [mQueues EXCEPT ![c] = q], QueueOK(q), LaneOK(q, told[c], sent'[c]),
         told' = told, sent' \in [Connections -> Numbers],
         \A d \in Connections : d # c => sent'[d] = sent[d],
         pump' = Idle \/ (pump' \in PumpLocals /\ pump'.connection \in DOMAIN mQueues),
         offer' \in Slots \cup {Idle}
  PROVE  OutboundIInv'
<1>1. /\ DOMAIN mQueues' = DOMAIN mQueues /\ mQueues'[c] = q
      /\ \A d \in DOMAIN mQueues : d # c => mQueues'[d] = mQueues[d]
  OBVIOUS
<1>2. DOMAIN mQueues \subseteq Connections
  BY Zenon DEF OutboundIInv, AttachedOK
<1>3. AttachedOK'
  BY <1>1, Zenon DEF AttachedOK, OutboundIInv
<1>4. QueuesOK(mQueues', told', sent')
  <2> SUFFICES ASSUME NEW d \in DOMAIN mQueues
               PROVE  QueueOK(mQueues'[d]) /\ LaneOK(mQueues'[d], told'[d], sent'[d])
    BY <1>1 DEF QueuesOK
  <2>1. CASE d = c
    BY <1>1, <2>1, Zenon
  <2>2. CASE d # c
    <3>1. mQueues'[d] = mQueues[d] /\ told'[d] = told[d] /\ sent'[d] = sent[d]
      BY <1>1, <1>2, <2>2
    <3> QED
      BY <3>1, Zenon DEF OutboundIInv, QueuesOK
  <2> QED
    BY <2>1, <2>2
<1>5. NothingOutstanding'
  BY <1>1 DEF OutboundIInv, NothingOutstanding
<1>6. CountsOK' /\ PumpOK'
  BY <1>1 DEF OutboundIInv, CountsOK, PumpOK, Numbers, Window, PumpLocals
<1> QED
  BY <1>3, <1>4, <1>5, <1>6, Zenon DEF OutboundIInv, QueuesOK, Slots, WorldLatest

LEMMA PumpBeginsKeeps ==
  ASSUME OutboundIInv, NEW c \in Pumped, NEW elapsed \in Elapses, PumpBegins(c, elapsed)
  PROVE  OutboundIInv'
<1> DEFINE q == refill(mQueues[c], elapsed)
<1>1. /\ c \in DOMAIN mQueues /\ mQueues' = [mQueues EXCEPT ![c] = q]
      /\ pump' = [connection |-> c, stage |-> "burst", attempts |-> 0,
                  progressed |-> FALSE, blocked |-> FALSE]
      /\ offer' = Idle /\ told' = told /\ sent' = sent
  BY DEF PumpBegins, history
<1>2. elapsed \in Nat /\ c \in Connections
  BY InputAssumption
<1>3. QueueOK(mQueues[c]) /\ LaneOK(mQueues[c], told[c], sent[c]) /\ sent \in [Connections -> Numbers]
  BY <1>1, Zenon DEF OutboundIInv, QueuesOK, CountsOK
<1>4. QueueOK(q) /\ LaneOK(q, told[c], sent[c])
  BY <1>2, <1>3, RefillKeeps
<1> HIDE DEF q
<1>5. "burst" \in Range(Stages)
  BY DEF Range, Stages
<1>6. pump' \in PumpLocals /\ pump'.connection \in DOMAIN mQueues
  BY <1>1, <1>2, <1>5, PolicyAssumption DEF PumpLocals
<1> QED
  BY <1>1, <1>3, <1>4, <1>6, OneQueueKeeps

\* The pump that is under way, and its queue.
LEMMA UnderWay ==
  ASSUME OutboundIInv, pump # Idle
  PROVE  /\ pump \in PumpLocals /\ pump.connection \in DOMAIN mQueues
         /\ pump.connection \in Connections
         /\ Q = mQueues[pump.connection] /\ QueueOK(Q)
         /\ LaneOK(Q, told[pump.connection], sent[pump.connection])
         /\ sent[pump.connection] \in Numbers
<1>1. pump \in PumpLocals /\ pump.connection \in DOMAIN mQueues
  BY Zenon DEF OutboundIInv, PumpOK
<1>2. pump.connection \in Connections
  BY <1>1, Zenon DEF OutboundIInv, AttachedOK
<1> QED
  BY <1>1, <1>2 DEF Q, OutboundIInv, QueuesOK, CountsOK

LEMMA StageNames ==
  /\ Range(Stages) = {"burst", "world", "control", "presentation", "rest"}
  /\ \A i \in 1 .. Len(Stages) : Stages[i] \in Range(Stages)
  /\ {"control", "presentation"} \subseteq Slots /\ {"control", "presentation"} \subseteq Buckets
  /\ {"reliable", "latest"} \subseteq Buckets
<1>1. Len(Stages) = 5 /\ DOMAIN Stages = 1 .. 5
  BY DEF Stages
<1>2. \A i \in 1 .. Len(Stages) : Stages[i] \in Range(Stages)
  BY <1>1 DEF Range
<1>3. /\ Stages[1] = "burst" /\ Stages[2] = "world" /\ Stages[3] = "control"
      /\ Stages[4] = "presentation" /\ Stages[5] = "rest"
  BY DEF Stages
<1>4. \A i \in 1 .. 5 : i = 1 \/ i = 2 \/ i = 3 \/ i = 4 \/ i = 5
  OBVIOUS
<1>5. Range(Stages) = {"burst", "world", "control", "presentation", "rest"}
  BY <1>1, <1>3, <1>4 DEF Range
<1> QED
  BY <1>2, <1>5 DEF Slots, Buckets

LEMMA PumpMembers ==
  ASSUME pump \in PumpLocals
  PROVE  /\ pump.connection \in Connections /\ pump.stage \in Range(Stages)
         /\ pump.attempts \in 0 .. SendAttemptsPerPump
  BY DEF PumpLocals

LEMMA AttemptMade ==
  ASSUME OutboundIInv, pump # Idle, NEW bucket \in Buckets, MayAttempt(bucket)
  PROVE  /\ QueueOK(Attempt(bucket))
         /\ LaneOK(Attempt(bucket), told[pump.connection], sent[pump.connection])
         /\ Attempt(bucket).reliable = Q.reliable /\ Attempt(bucket).latest = Q.latest
         /\ pump.attempts + 1 \in 0 .. SendAttemptsPerPump
<1>1. pump \in PumpLocals /\ QueueOK(Q) /\ LaneOK(Q, told[pump.connection], sent[pump.connection])
  BY UnderWay
<1>2. Q.tokens[bucket] # 0 /\ pump.attempts < SendAttemptsPerPump
  BY DEF MayAttempt
<1>3. pump.attempts + 1 \in 0 .. SendAttemptsPerPump
  <2> DEFINE a == pump.attempts
  <2>1. a \in 0 .. SendAttemptsPerPump /\ a < SendAttemptsPerPump
    BY <1>1, <1>2, PumpMembers
  <2> HIDE DEF a
  <2>2. a + 1 \in 0 .. SendAttemptsPerPump
    BY <2>1, PolicyAssumption
  <2> QED
    BY <2>2 DEF a
<1> QED
  BY <1>1, <1>2, <1>3, AttemptKeeps DEF Attempt

LEMMA ReliableKeeps ==
  ASSUME OutboundIInv, ReliableAccepted \/ ReliableBlocked
  PROVE  OutboundIInv'
<1> DEFINE c == pump.connection
           a == Attempt("reliable")
<1>1. pump # Idle /\ MaySendReliable(pump.stage) /\ told' = told /\ offer' = Idle
  BY DEF ReliableAccepted, ReliableBlocked, history
<1>2. Q.reliable # <<>> /\ MayAttempt("reliable")
  BY <1>1, Zenon DEF MaySendReliable
<1>3. /\ pump \in PumpLocals /\ c \in DOMAIN mQueues /\ c \in Connections
      /\ sent[c] \in 0 .. Window - 1 /\ sent \in [Connections -> Numbers]
  BY <1>1, UnderWay, Zenon DEF Numbers, OutboundIInv, CountsOK
<1>4. /\ QueueOK(a) /\ LaneOK(a, told[c], sent[c]) /\ a.reliable # <<>>
      /\ pump.attempts + 1 \in 0 .. SendAttemptsPerPump
  BY <1>1, <1>2, AttemptMade, StageNames
<1>5. CASE ReliableAccepted
  <2>1. /\ mQueues' = [mQueues EXCEPT ![c] = PopFront(a)]
        /\ pump' = [pump EXCEPT !.attempts = pump.attempts + 1, !.progressed = TRUE]
        /\ sent' = [sent EXCEPT ![c] = (sent[c] + 1) % Window]
    BY <1>5 DEF ReliableAccepted, SetQ
  <2> HIDE DEF c, a
  <2>2. /\ QueueOK(PopFront(a)) /\ LaneOK(PopFront(a), told[c], (sent[c] + 1) % Window)
        /\ (sent[c] + 1) % Window \in 0 .. Window - 1
    BY <1>3, <1>4, PopKeeps
  <2> DEFINE x == (sent[c] + 1) % Window
  <2>3. x \in Numbers /\ sent' = [sent EXCEPT ![c] = x] /\ LaneOK(PopFront(a), told[c], x)
    BY <2>1, <2>2 DEF Numbers
  <2> HIDE DEF x
  <2>4. /\ sent' \in [Connections -> Numbers] /\ sent'[c] = x
        /\ \A d \in Connections : d # c => sent'[d] = sent[d]
    BY <1>3, <2>3
  <2>5. LaneOK(PopFront(a), told[c], sent'[c])
    BY <2>3, <2>4, Zenon
  <2>6. pump' \in PumpLocals /\ pump'.connection = c
    BY <1>3, <1>4, <2>1 DEF PumpLocals, c
  <2> QED
    BY <1>1, <1>3, <2>1, <2>2, <2>4, <2>5, <2>6, OneQueueKeeps
<1>6. CASE ReliableBlocked
  <2>1. /\ mQueues' = [mQueues EXCEPT ![c] = a]
        /\ pump' = [pump EXCEPT !.attempts = pump.attempts + 1, !.blocked = TRUE]
        /\ sent' = sent
    BY <1>6 DEF ReliableBlocked, SetQ, history
  <2> HIDE DEF c, a
  <2>2. pump' \in PumpLocals /\ pump'.connection = c
    BY <1>3, <1>4, <2>1 DEF PumpLocals, c
  <2> QED
    BY <1>1, <1>3, <1>4, <2>1, <2>2, OneQueueKeeps
<1> QED
  BY <1>5, <1>6

\* The lane whose turn it is.
LEMMA TurnOfLane ==
  ASSUME OutboundIInv, pump # Idle, Waiting # {}
  PROVE  Turn \in 0 .. 3 /\ Lane(Turn) \in Slots
<1>1. QueueOK(Q)
  BY UnderWay
<1>2. Q.latest \subseteq Slots
  BY <1>1, QueueFields DEF QueueOK
<1>3. Waiting \subseteq 0 .. 3
  BY DEF Waiting
<1>4. \E o \in Waiting : \A p \in Waiting : o <= p
  <2> DEFINE W == Waiting
  <2>1. W \subseteq 0 .. 3 /\ W # {}
    BY <1>3
  <2> HIDE DEF W
  <2>2. \E o \in W : \A p \in W : o <= p
    <3>1. \A p \in W : p = 0 \/ p = 1 \/ p = 2 \/ p = 3
      BY <2>1
    <3>2. CASE 0 \in W
      BY <3>1, <3>2
    <3>3. CASE 0 \notin W /\ 1 \in W
      BY <3>1, <3>3
    <3>4. CASE 0 \notin W /\ 1 \notin W /\ 2 \in W
      BY <3>1, <3>4
    <3>5. CASE 0 \notin W /\ 1 \notin W /\ 2 \notin W
      <4>1. 3 \in W /\ \A p \in W : p = 3
        BY <2>1, <3>1, <3>5, Zenon
      <4> QED
        BY <4>1
    <3> QED
      BY <3>2, <3>3, <3>4, <3>5
  <2> QED
    BY <2>2 DEF W
<1>5. Turn \in Waiting
  BY <1>4, Zenon DEF Turn
<1>6. Lane(Turn) \in Q.latest
  BY <1>5, Zenon DEF Waiting
<1> QED
  BY <1>2, <1>3, <1>5, <1>6

LEMMA WorldKeeps ==
  ASSUME OutboundIInv, WorldAccepted \/ WorldBlocked
  PROVE  OutboundIInv'
<1> DEFINE c == pump.connection
           a == Attempt("latest")
           r == Rotated(a)
           l == Lane(Turn)
<1>1. pump # Idle /\ MaySendWorld(pump.stage) /\ told' = told /\ sent' = sent /\ offer' = l
  BY DEF WorldAccepted, WorldBlocked, history
<1>2. Waiting # {} /\ MayAttempt("latest")
  BY <1>1, Zenon DEF MaySendWorld
<1>3. Turn \in 0 .. 3 /\ l \in Slots
  BY <1>1, <1>2, TurnOfLane
<1>4. /\ pump \in PumpLocals /\ c \in DOMAIN mQueues /\ c \in Connections
      /\ sent \in [Connections -> Numbers]
  BY <1>1, UnderWay, Zenon DEF OutboundIInv, CountsOK
<1>5. /\ QueueOK(a) /\ LaneOK(a, told[c], sent[c])
      /\ pump.attempts + 1 \in 0 .. SendAttemptsPerPump
  BY <1>1, <1>2, AttemptMade, StageNames
<1>6. QueueOK(r) /\ LaneOK(r, told[c], sent[c])
  <2> DEFINE k == Turn
  <2>1. r = [a EXCEPT !.next = (@ + k + 1) % 4]
    BY DEF Rotated
  <2>2. k \in Nat
    BY <1>3
  <2> HIDE DEF a, k, c, r
  <2> QED
    BY <1>5, <2>1, <2>2, RotateKeeps
<1>7. CASE WorldAccepted
  <2> DEFINE s == r.latest \ {l}
             q == [r EXCEPT !.latest = s]
  <2>1. /\ mQueues' = [mQueues EXCEPT ![c] = q]
        /\ pump' = [pump EXCEPT !.attempts = pump.attempts + 1, !.progressed = TRUE]
    BY <1>7 DEF WorldAccepted, SetQ
  <2> HIDE DEF c, r, l
  <2>2. s \in SUBSET Slots
    BY <1>6, QueueFields DEF QueueOK
  <2>3. QueueOK(q) /\ LaneOK(q, told[c], sent[c])
    <3> HIDE DEF s
    <3> QED
      BY <1>6, <2>2, SlotsKeep
  <2> HIDE DEF q
  <2>4. pump' \in PumpLocals /\ pump'.connection = c
    BY <1>4, <1>5, <2>1 DEF PumpLocals, c
  <2> QED
    BY <1>1, <1>3, <1>4, <2>1, <2>3, <2>4, OneQueueKeeps
<1>8. CASE WorldBlocked
  <2>1. /\ mQueues' = [mQueues EXCEPT ![c] = r]
        /\ pump' = [pump EXCEPT !.attempts = pump.attempts + 1, !.stage = "control"]
    BY <1>8 DEF WorldBlocked, SetQ
  <2> HIDE DEF c, r, l
  <2>2. pump' \in PumpLocals /\ pump'.connection = c
    BY <1>4, <1>5, <2>1, StageNames DEF PumpLocals, c
  <2> QED
    BY <1>1, <1>3, <1>4, <1>6, <2>1, <2>2, OneQueueKeeps
<1> QED
  BY <1>7, <1>8

LEMMA SlotKeeps ==
  ASSUME OutboundIInv, SlotAccepted \/ SlotBlocked
  PROVE  OutboundIInv'
<1> DEFINE c == pump.connection
           l == pump.stage
           a == Attempt(l)
<1>1. pump # Idle /\ MaySendSlot(l) /\ told' = told /\ sent' = sent /\ offer' = l
  BY DEF SlotAccepted, SlotBlocked, history
<1>2. l \in {"control", "presentation"} /\ MayAttempt(l)
  BY <1>1, Zenon DEF MaySendSlot
<1>3. l \in Slots /\ l \in Buckets
  BY <1>2, StageNames
<1>4. /\ pump \in PumpLocals /\ c \in DOMAIN mQueues /\ c \in Connections
      /\ sent \in [Connections -> Numbers]
  BY <1>1, UnderWay, Zenon DEF OutboundIInv, CountsOK
<1>5. /\ QueueOK(a) /\ LaneOK(a, told[c], sent[c])
      /\ pump.attempts + 1 \in 0 .. SendAttemptsPerPump
  BY <1>1, <1>2, <1>3, AttemptMade
<1>6. Afterwards \in Range(Stages)
  BY StageNames DEF Afterwards
<1>7. CASE SlotAccepted
  <2> DEFINE s == a.latest \ {l}
             q == [a EXCEPT !.latest = s]
  <2>1. /\ mQueues' = [mQueues EXCEPT ![c] = q]
        /\ pump' = [pump EXCEPT !.attempts = pump.attempts + 1, !.progressed = TRUE,
                                !.stage = Afterwards]
    BY <1>7 DEF SlotAccepted, SetQ
  <2> HIDE DEF c, a, l
  <2>2. s \in SUBSET Slots
    BY <1>5, QueueFields DEF QueueOK
  <2>3. QueueOK(q) /\ LaneOK(q, told[c], sent[c])
    <3> HIDE DEF s
    <3> QED
      BY <1>5, <2>2, SlotsKeep
  <2> HIDE DEF q
  <2>4. pump' \in PumpLocals /\ pump'.connection = c
    BY <1>4, <1>5, <1>6, <2>1 DEF PumpLocals, c
  <2> QED
    BY <1>1, <1>3, <1>4, <2>1, <2>3, <2>4, OneQueueKeeps
<1>8. CASE SlotBlocked
  <2>1. /\ mQueues' = [mQueues EXCEPT ![c] = a]
        /\ pump' = [pump EXCEPT !.attempts = pump.attempts + 1, !.stage = Afterwards]
    BY <1>8 DEF SlotBlocked, SetQ
  <2> HIDE DEF c, a, l
  <2>2. pump' \in PumpLocals /\ pump'.connection = c
    BY <1>4, <1>5, <1>6, <2>1 DEF PumpLocals, c
  <2> QED
    BY <1>1, <1>3, <1>4, <1>5, <2>1, <2>2, OneQueueKeeps
<1> QED
  BY <1>7, <1>8

LEMMA NextStageKeeps ==
  ASSUME OutboundIInv, NextStage
  PROVE  OutboundIInv'
<1>1. pump # Idle /\ mQueues' = mQueues /\ told' = told /\ sent' = sent /\ offer' = Idle
  BY DEF NextStage, history
<1>2. PICK to \in 1 .. Len(Stages) : pump' = [pump EXCEPT !.stage = Stages[to]]
  BY Zenon DEF NextStage
<1>3. pump \in PumpLocals /\ pump.connection \in DOMAIN mQueues
  BY <1>1, UnderWay
<1>4. Stages[to] \in Range(Stages)
  BY StageNames
<1> DEFINE l == Stages[to]
<1>5. l \in Range(Stages) /\ pump' = [pump EXCEPT !.stage = l]
  BY <1>2, <1>4
<1> HIDE DEF l
<1>6. pump' \in PumpLocals /\ pump'.connection = pump.connection
  BY <1>3, <1>5 DEF PumpLocals
<1>7. PumpOK'
  BY <1>1, <1>3, <1>6 DEF PumpOK, PumpLocals
<1>8. AttachedOK' /\ QueuesOK(mQueues', told', sent') /\ NothingOutstanding'
  BY <1>1, Zenon DEF OutboundIInv, AttachedOK, NothingOutstanding
<1>9. CountsOK' /\ offer' \in Slots \cup {Idle}
  BY <1>1, Zenon DEF OutboundIInv, CountsOK, Numbers, Window
<1> QED
  BY <1>7, <1>8, <1>9, Zenon DEF OutboundIInv, QueuesOK, Slots, WorldLatest

LEMMA ReturnKeeps ==
  ASSUME OutboundIInv, PumpReturns
  PROVE  OutboundIInv'
<1> DEFINE c == pump.connection
           q == IF pump.blocked THEN Blocked(Q) ELSE Released(Q)
<1>1. /\ pump # Idle /\ told' = told /\ sent' = sent /\ offer' = Idle /\ pump' = Idle
      /\ mQueues' = [mQueues EXCEPT ![c] = q]
      /\ pump.blocked => ~shouldEvict(Blocked(Q))
  BY DEF PumpReturns, SetQ, history
<1>2. /\ c \in DOMAIN mQueues /\ QueueOK(Q) /\ LaneOK(Q, told[c], sent[c])
      /\ sent \in [Connections -> Numbers]
  BY <1>1, UnderWay, Zenon DEF OutboundIInv, CountsOK
<1>3. QueueOK(q) /\ LaneOK(q, told[c], sent[c])
  BY <1>1, <1>2, BlockKeeps, ReleaseKeeps
<1> HIDE DEF c, q
<1> QED
  BY <1>1, <1>2, <1>3, OneQueueKeeps

\* A failed send and an eviction let go of the queue.
LEMMA GiveUpKeeps ==
  ASSUME OutboundIInv, SendFails \/ SlowPeerEvicted
  PROVE  OutboundIInv'
<1>1. pump # Idle /\ Drop(pump.connection)
  BY DEF SendFails, SlowPeerEvicted
<1>2. pump.connection \in DOMAIN mQueues
  BY <1>1, UnderWay
<1> QED
  BY <1>1, <1>2, DropKeeps

LEMMA OutboundRests ==
  ASSUME OutboundIInv, UNCHANGED outboundVars
  PROVE  OutboundIInv'
<1>1. mQueues' = mQueues /\ pump' = pump /\ told' = told /\ sent' = sent /\ offer' = offer
  BY DEF outboundVars, history
<1>2. AttachedOK' /\ QueuesOK(mQueues', told', sent') /\ NothingOutstanding'
  BY <1>1, Zenon DEF OutboundIInv, AttachedOK, NothingOutstanding
<1>3. CountsOK' /\ PumpOK' /\ offer' \in Slots \cup {Idle}
  BY <1>1, Zenon DEF OutboundIInv, CountsOK, PumpOK, Numbers, Window
<1> QED
  BY <1>2, <1>3, Zenon DEF OutboundIInv, QueuesOK, Slots, WorldLatest

LEMMA NextOutbound == OutboundIInv /\ [OutboundNext]_outboundVars => OutboundIInv'
<1> SUFFICES ASSUME OutboundIInv, [OutboundNext]_outboundVars
             PROVE  OutboundIInv'
  OBVIOUS
<1>1. ASSUME NEW c \in Connections, attach(c) PROVE OutboundIInv'
  BY <1>1, AttachKeeps
<1>2. ASSUME NEW c \in Connections, detach(c) PROVE OutboundIInv'
  BY <1>2, DropKeeps DEF detach
<1>3. ASSUME NEW c \in Connections, enqueue(c) \/ enqueuePair(c) PROVE OutboundIInv'
  BY <1>3, EnqueueKeeps
<1>4. ASSUME NEW c \in Connections, NEW d \in Connections,
             enqueuePairsAtomically(c, d) \/ enqueueMessagesAtomically(c, d)
      PROVE  OutboundIInv'
  BY <1>4, EnqueueGroupKeeps
<1>5. ASSUME NEW c \in Pumped, NEW elapsed \in Elapses, PumpBegins(c, elapsed)
      PROVE  OutboundIInv'
  BY <1>5, PumpBeginsKeeps
<1>6. CASE Send
  <2>1. CASE ReliableAccepted \/ ReliableBlocked
    BY <2>1, ReliableKeeps
  <2>2. CASE WorldAccepted \/ WorldBlocked
    BY <2>2, WorldKeeps
  <2>3. CASE SlotAccepted \/ SlotBlocked
    BY <2>3, SlotKeeps
  <2>4. CASE NextStage
    BY <2>4, NextStageKeeps
  <2>5. CASE PumpReturns
    BY <2>5, ReturnKeeps
  <2>6. CASE SendFails \/ SlowPeerEvicted
    BY <2>6, GiveUpKeeps
  <2> QED
    BY <1>6, <2>1, <2>2, <2>3, <2>4, <2>5, <2>6, Zenon DEF Send
<1>7. CASE UNCHANGED outboundVars
  BY <1>7, OutboundRests
<1> QED
  BY <1>1, <1>2, <1>3, <1>4, <1>5, <1>6, <1>7, Zenon DEF OutboundNext

\* The inductive invariant of the outbound queues.
THEOREM OutboundInvariance == OutboundSpec => []OutboundIInv
<1>1. OutboundInit => OutboundIInv
  BY InitOutbound
<1>2. OutboundIInv /\ [OutboundNext]_outboundVars => OutboundIInv'
  BY NextOutbound
<1> QED
  BY <1>1, <1>2, PTL DEF OutboundSpec

\* The lanes, the attempts of a pump, the buckets and the connections keep
\* their bounds, so that no unsigned subtraction of the queue wraps: for every
\* policy that OutboundQueuePolicy::create() accepts, any number of
\* connections and any times between the pumps.
THEOREM OutboundTypeCorrect == OutboundSpec => []OutboundTypeOK
<1>1. OutboundIInv => OutboundTypeOK
  BY IInvImplies
<1> QED
  BY <1>1, OutboundInvariance, PTL

\* The reliable lane of every connection holds what the caller was told is
\* queued and the transport has not accepted, in order and each once, and
\* mReliableBytes is the size of that: whatever groups are admitted or
\* refused, and however sends are blocked, fail or end in an eviction.
THEOREM NothingLostOrRepeated == OutboundSpec => []ReliableInOrder
<1>1. OutboundIInv => ReliableInOrder
  BY IInvImplies
<1> QED
  BY <1>1, OutboundInvariance, PTL
=============================================================================
