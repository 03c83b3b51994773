------------------- MODULE AuthenticationRateLimiterProofs -------------------
(***************************************************************************)
(* For every policy, every number of callers and scopes: the rate limiter  *)
(* keeps its buckets within their capacity, the unsigned subtraction of    *)
(* refill() never wraps, the rates hold and refusals are earned.           *)
(***************************************************************************)
EXTENDS AuthenticationRateLimiter, FiniteSetTheorems, TLAPS

\* How many of len attempts, from the i-th on, and of the tokens that are left
\* exceed the allowance.
Excess(len, i, tokens, allowance) == len - i + 1 + tokens - allowance

\* What a bucket has given is covered by its allowance and the time since: the
\* attempts from the i-th on and the tokens left, beyond the allowance, took
\* that many intervals.
Paid(grants, bucket, allowance, interval) ==
  \A i \in DOMAIN grants :
    Excess(Len(grants), i, bucket.tokens, allowance) * interval
      <= bucket.lastRefill - grants[i]

\* The tokens owed were given to the last attempts, and the m-th of them comes
\* back within the time that fills the bucket.
ComeBack(grants, owed, lastRefill, capacity, interval) ==
  /\ owed <= Len(grants)
  /\ \A m \in 1 .. owed :
       lastRefill + m * interval <= grants[Len(grants) - owed + m] + capacity * interval

\* That holds of the tokens that a bucket lacks.
Owed(grants, bucket, capacity, interval) ==
  ComeBack(grants, capacity - bucket.tokens, bucket.lastRefill, capacity, interval)

Bounded == TypeOK /\ RefillsInThePast /\ IsFiniteSet(Tracked)

\* The global bucket may stay full, which is worth one attempt more.
GlobalKept ==
  /\ Paid(admitted, global, GlobalBurst + 1, GlobalRefill)
  /\ Owed(admitted, global, GlobalBurst, GlobalRefill)

SourceKept(scope) ==
  IF scope \in Tracked
  THEN /\ Paid(granted[scope], sources[scope], SourceBurst, SourceRefill)
       /\ Owed(granted[scope], sources[scope], SourceBurst, SourceRefill)
  ELSE granted[scope] = <<>>

\* Types and instants are inductive by themselves: a bucket from the future
\* would be refilled by the wrapped difference.  The rates need the balance of
\* each bucket besides.
IInv ==
  /\ Bounded
  /\ GlobalKept /\ \A scope \in Scopes : SourceKept(scope)
  /\ RatesHold

-----------------------------------------------------------------------------
(* Arithmetic. *)

\* The whole refill intervals of a period fit into it, and one more does not
\* (refill()).
LEMMA WholeIntervals ==
  ASSUME NEW elapsed \in Nat, NEW interval \in Nat \ {0}
  PROVE  /\ elapsed \div interval \in Nat
         /\ (elapsed \div interval) * interval \in Nat
         /\ (elapsed \div interval) * interval <= elapsed
         /\ elapsed < (elapsed \div interval) * interval + interval
  OBVIOUS

\* Intervals that fit into a period are counted by a division.
LEMMA FitsIn ==
  ASSUME NEW n \in Int, NEW period \in Int, NEW interval \in Nat \ {0},
         n * interval <= period
  PROVE  period \div interval \in Int /\ n <= period \div interval
<1> DEFINE q == period \div interval
<1>1. q \in Int /\ period < q * interval + interval
  OBVIOUS
<1> HIDE DEF q
<1>2. n * interval < (q + 1) * interval
  <2>1. (q + 1) * interval = q * interval + interval
    BY <1>1
  <2>2. n * interval \in Int /\ q * interval \in Int
    BY <1>1
  <2> QED
    BY <1>1, <2>1, <2>2
<1>3. n < q + 1
  <2> SUFFICES ASSUME q + 1 <= n PROVE FALSE
    BY <1>1
  <2>1. (q + 1) * interval <= n * interval
    BY <1>1
  <2> QED
    BY <1>1, <1>2, <2>1
<1> QED
  BY <1>1, <1>3 DEF q

\* Sums of intervals.
LEMMA Distributes ==
  ASSUME NEW a \in Int, NEW b \in Int, NEW interval \in Nat \ {0}
  PROVE  /\ (a + b) * interval = a * interval + b * interval
         /\ a * interval \in Int /\ b * interval \in Int
         /\ a <= b => a * interval <= b * interval
  OBVIOUS

\* Without a wrap, the difference of two instants is the time between them
\* (refill()).
LEMMA NoWrap ==
  ASSUME NEW at \in 0 .. Horizon, NEW from \in 0 .. Horizon, from <= at
  PROVE  (at - from) % Instants = at - from
  BY PolicyAssumption

-----------------------------------------------------------------------------
(* refill() and the tokens it gives and takes. *)

BucketFacts(bucket, capacity) ==
  /\ bucket.tokens \in 0 .. capacity
  /\ bucket.lastRefill \in 0 .. Horizon

\* What refill() does with the additions whole intervals since the last refill.
Refilled(bucket, capacity, interval, at, additions, after) ==
  /\ additions * interval \in Nat
  /\ additions * interval <= at - bucket.lastRefill
  /\ at - bucket.lastRefill < additions * interval + interval
  /\ \/ additions = 0 /\ after = bucket
     \/ /\ additions # 0 /\ additions >= capacity - bucket.tokens
        /\ after = [tokens |-> capacity, lastRefill |-> at]
     \/ /\ additions # 0 /\ additions < capacity - bucket.tokens
        /\ after = [tokens |-> bucket.tokens + additions,
                    lastRefill |-> bucket.lastRefill + additions * interval]

LEMMA RefillCases ==
  ASSUME NEW capacity \in Nat \ {0}, NEW interval \in Nat \ {0},
         NEW bucket \in Bucket(capacity), NEW at \in 0 .. Horizon,
         bucket.lastRefill <= at
  PROVE  /\ BucketFacts(bucket, capacity)
         /\ \E additions \in Nat :
              Refilled(bucket, capacity, interval, at, additions,
                       refill(bucket, capacity, interval, at))
<1> DEFINE elapsed == at - bucket.lastRefill
           additions == elapsed \div interval
<1>1. BucketFacts(bucket, capacity)
  BY DEF Bucket, BucketFacts
<1>2. Elapsed(bucket, at) = elapsed /\ elapsed \in Nat
  BY <1>1, NoWrap, PolicyAssumption DEF Elapsed, BucketFacts
<1>3. /\ additions \in Nat
      /\ additions * interval \in Nat
      /\ additions * interval <= elapsed
      /\ elapsed < additions * interval + interval
  BY <1>2, WholeIntervals
<1> HIDE DEF additions
<1>4. refill(bucket, capacity, interval, at) =
        IF additions = 0 THEN bucket
        ELSE IF additions >= capacity - bucket.tokens
        THEN [tokens |-> capacity, lastRefill |-> at]
        ELSE [tokens |-> bucket.tokens + additions,
              lastRefill |-> bucket.lastRefill + additions * interval]
  BY <1>2 DEF refill, additions
<1>5. Refilled(bucket, capacity, interval, at, additions, refill(bucket, capacity, interval, at))
  BY <1>1, <1>3, <1>4 DEF Refilled, BucketFacts
<1> QED
  BY <1>1, <1>3, <1>5

\* refill() of a bucket that was last refilled before the attempt: tokens up to
\* the capacity, and again nothing after the attempt; less than an interval of
\* it is left over, and nothing of it when the bucket has become full.
LEMMA RefillBounded ==
  ASSUME NEW capacity \in Nat \ {0}, NEW interval \in Nat \ {0},
         NEW bucket \in Bucket(capacity), NEW at \in 0 .. Horizon,
         bucket.lastRefill <= at
  PROVE  LET after == refill(bucket, capacity, interval, at)
         IN  /\ after \in Bucket(capacity)
             /\ after.lastRefill <= at
             /\ at - after.lastRefill < interval
             /\ after.tokens = capacity /\ bucket.tokens # capacity => after.lastRefill = at
             /\ after.tokens = 0 => bucket = after
<1> DEFINE after == refill(bucket, capacity, interval, at)
<1>1. BucketFacts(bucket, capacity)
  BY RefillCases
<1>2. PICK additions \in Nat : Refilled(bucket, capacity, interval, at, additions, after)
  BY RefillCases
<1> HIDE DEF after
<1>3. CASE additions = 0 /\ after = bucket
  <2>1. additions * interval = 0
    BY <1>3
  <2> QED
    BY <1>1, <1>2, <1>3, <2>1 DEF Refilled, BucketFacts, after
<1>4. CASE additions # 0 /\ additions >= capacity - bucket.tokens
             /\ after = [tokens |-> capacity, lastRefill |-> at]
  BY <1>1, <1>4 DEF Bucket, BucketFacts, after
<1>5. CASE additions # 0 /\ additions < capacity - bucket.tokens
             /\ after = [tokens |-> bucket.tokens + additions,
                         lastRefill |-> bucket.lastRefill + additions * interval]
  <2>1. bucket.tokens + additions \in 0 .. capacity /\ bucket.tokens + additions < capacity
    BY <1>1, <1>5 DEF BucketFacts
  <2>2. /\ bucket.lastRefill + additions * interval \in 0 .. Horizon
        /\ bucket.lastRefill + additions * interval <= at
        /\ at - (bucket.lastRefill + additions * interval) < interval
    BY <1>1, <1>2, PolicyAssumption DEF BucketFacts, Refilled
  <2>3. bucket.tokens + additions # 0
    BY <1>1, <1>5 DEF BucketFacts
  <2> QED
    BY <1>5, <2>1, <2>2, <2>3 DEF Bucket, after
<1> QED
  BY <1>2, <1>3, <1>4, <1>5 DEF Refilled

\* A token can be taken from a bucket that is not empty (--tokens in allow()).
LEMMA TakeBounded ==
  ASSUME NEW capacity \in Nat \ {0}, NEW bucket \in Bucket(capacity), bucket.tokens # 0
  PROVE  /\ Take(bucket) \in Bucket(capacity - 1)
         /\ Take(bucket) \in Bucket(capacity)
         /\ Take(bucket).lastRefill = bucket.lastRefill
         /\ Take(bucket).tokens = bucket.tokens - 1
  BY DEF Take, Bucket

\* A history of grants is a list of instants.
LEMMA Granted ==
  ASSUME NEW grants \in Seq(Nat)
  PROVE  /\ Len(grants) \in Nat
         /\ DOMAIN grants = 1 .. Len(grants)
         /\ \A i \in 1 .. Len(grants) : grants[i] \in Int
  OBVIOUS

\* refill() gives no token that the time has not earned.
LEMMA PaidRefill ==
  ASSUME NEW capacity \in Nat \ {0}, NEW interval \in Nat \ {0},
         NEW bucket \in Bucket(capacity), NEW at \in 0 .. Horizon,
         bucket.lastRefill <= at,
         NEW allowance \in Nat, NEW grants \in Seq(Nat),
         Paid(grants, bucket, allowance, interval)
  PROVE  Paid(grants, refill(bucket, capacity, interval, at), allowance, interval)
<1> DEFINE after == refill(bucket, capacity, interval, at)
<1>1. BucketFacts(bucket, capacity)
  BY RefillCases
<1>2. PICK additions \in Nat : Refilled(bucket, capacity, interval, at, additions, after)
  BY RefillCases
<1> HIDE DEF after
<1> SUFFICES ASSUME NEW i \in DOMAIN grants
             PROVE  Excess(Len(grants), i, after.tokens, allowance) * interval
                      <= after.lastRefill - grants[i]
  BY DEF Paid, after
<1> DEFINE n == Excess(Len(grants), i, bucket.tokens, allowance)
           more == capacity - bucket.tokens
<1>3. n * interval <= bucket.lastRefill - grants[i]
  BY DEF Paid
<1>4. Len(grants) \in Int /\ i \in Int /\ grants[i] \in Int /\ allowance \in Int
  BY Granted
<1>5. /\ bucket.tokens \in 0 .. capacity /\ bucket.lastRefill \in Int
      /\ bucket.tokens \in Int /\ more \in Nat
  BY <1>1 DEF BucketFacts
<1>6. n \in Int /\ \A k \in Int : Excess(Len(grants), i, bucket.tokens + k, allowance) = n + k
  <2> DEFINE len == Len(grants)
             tokens == bucket.tokens
  <2>1. len \in Int /\ tokens \in Int
    BY <1>4, <1>5
  <2> HIDE DEF len, tokens
  <2>2. /\ Excess(len, i, tokens, allowance) \in Int
        /\ \A k \in Int : Excess(len, i, tokens + k, allowance)
                         = Excess(len, i, tokens, allowance) + k
    BY <1>4, <2>1 DEF Excess
  <2> QED
    BY <2>2 DEF len, tokens
<1> HIDE DEF n
<1>7. CASE additions = 0 /\ after = bucket
  BY <1>3, <1>7 DEF n
<1>8. CASE additions # 0 /\ additions >= capacity - bucket.tokens
             /\ after = [tokens |-> capacity, lastRefill |-> at]
  <2> DEFINE x == n * interval
             y == more * interval
             z == additions * interval
  <2>1. after.lastRefill = at /\ at \in Int /\ after.tokens = bucket.tokens + more /\ more \in Int
    BY <1>5, <1>8
  <2>2. y <= z
    BY <1>5, <1>8, Distributes
  <2> HIDE DEF more
  <2>3. Excess(Len(grants), i, after.tokens, allowance) = n + more
    BY <1>6, <2>1, Zenon
  <2>4. (n + more) * interval = x + y /\ x \in Int /\ y \in Int /\ z \in Int
    BY <1>6, <2>1, Distributes
  <2>5. z <= at - bucket.lastRefill
    BY <1>2 DEF Refilled
  <2> HIDE DEF x, y, z
  <2>6. x <= bucket.lastRefill - grants[i]
    BY <1>3 DEF x
  <2>7. x + y <= at - grants[i]
    <3> DEFINE r == bucket.lastRefill
               g == grants[i]
    <3>1. r \in Int /\ g \in Int /\ x <= r - g /\ z <= at - r
      BY <1>4, <1>5, <2>5, <2>6
    <3> HIDE DEF r, g
    <3>2. x + y <= at - g
      BY <2>1, <2>2, <2>4, <3>1
    <3> QED
      BY <3>2 DEF g
  <2> QED
    BY <2>1, <2>3, <2>4, <2>7, Zenon
<1>9. CASE additions # 0 /\ additions < capacity - bucket.tokens
             /\ after = [tokens |-> bucket.tokens + additions,
                         lastRefill |-> bucket.lastRefill + additions * interval]
  <2> DEFINE x == n * interval
             z == additions * interval
  <2>1. after.lastRefill = bucket.lastRefill + z /\ after.tokens = bucket.tokens + additions
    BY <1>9
  <2>2. additions \in Int
    OBVIOUS
  <2>3. Excess(Len(grants), i, after.tokens, allowance) = n + additions
    BY <1>6, <2>1, <2>2, Zenon
  <2>4. (n + additions) * interval = x + z /\ x \in Int /\ z \in Int
    BY <1>6, Distributes
  <2> HIDE DEF x, z
  <2>5. x <= bucket.lastRefill - grants[i]
    BY <1>3 DEF x
  <2>6. x + z <= after.lastRefill - grants[i]
    BY <1>4, <1>5, <2>1, <2>4, <2>5
  <2>7. Excess(Len(grants), i, after.tokens, allowance) * interval = x + z
    BY <2>3, <2>4, Zenon
  <2> QED
    BY <2>6, <2>7, Zenon
<1> QED
  BY <1>2, <1>7, <1>8, <1>9 DEF Refilled

\* An attempt that is allowed is paid for, when the bucket is not ahead of its
\* allowance.
LEMMA PaidTake ==
  ASSUME NEW capacity \in Nat \ {0}, NEW interval \in Nat \ {0},
         NEW bucket \in Bucket(capacity), NEW at \in 0 .. Horizon,
         bucket.tokens # 0,
         NEW allowance \in Nat, NEW grants \in Seq(Nat),
         Paid(grants, bucket, allowance, interval),
         (bucket.tokens - allowance) * interval <= bucket.lastRefill - at
  PROVE  Paid(Append(grants, at), Take(bucket), allowance, interval)
<1>1. /\ bucket.tokens \in Nat /\ bucket.lastRefill \in Nat
      /\ Take(bucket).lastRefill = bucket.lastRefill
      /\ Take(bucket).tokens = bucket.tokens - 1
  BY TakeBounded DEF Bucket
<1>2. Len(Append(grants, at)) = Len(grants) + 1 /\ Len(grants) \in Nat
  OBVIOUS
<1> SUFFICES ASSUME NEW i \in 1 .. Len(grants) + 1
             PROVE  Excess(Len(grants) + 1, i, bucket.tokens - 1, allowance) * interval
                      <= bucket.lastRefill - Append(grants, at)[i]
  BY <1>1, <1>2 DEF Paid
<1> DEFINE len == Len(grants)
           tokens == bucket.tokens
<1>3. len \in Int /\ tokens \in Int /\ allowance \in Int
  BY <1>1, <1>2
<1> HIDE DEF len, tokens
<1>4. CASE i = len + 1
  <2>1. Excess(len + 1, len + 1, tokens - 1, allowance) = tokens - allowance
    BY <1>3 DEF Excess
  <2>2. Append(grants, at)[i] = at
    BY <1>2, <1>4 DEF len
  <2> QED
    BY <1>4, <2>1, <2>2, Zenon DEF len, tokens
<1>5. CASE i \in 1 .. len
  <2>1. i \in Int /\ i \in DOMAIN grants /\ Append(grants, at)[i] = grants[i]
    BY <1>5, Granted DEF len
  <2>2. Excess(len + 1, i, tokens - 1, allowance) = Excess(len, i, tokens, allowance)
    BY <1>3, <2>1 DEF Excess
  <2>3. Excess(len, i, tokens, allowance) * interval <= bucket.lastRefill - grants[i]
    BY <2>1 DEF Paid, len, tokens
  <2> QED
    BY <2>1, <2>2, <2>3, Zenon DEF len, tokens
<1>6. i = len + 1 \/ i \in 1 .. len
  BY <1>2, <1>3 DEF len
<1> QED
  BY <1>4, <1>5, <1>6

\* refill() pays back the attempts that have waited longest.
LEMMA OwedRefill ==
  ASSUME NEW capacity \in Nat \ {0}, NEW interval \in Nat \ {0},
         NEW bucket \in Bucket(capacity), NEW at \in 0 .. Horizon,
         bucket.lastRefill <= at, NEW grants \in Seq(Nat),
         Owed(grants, bucket, capacity, interval)
  PROVE  Owed(grants, refill(bucket, capacity, interval, at), capacity, interval)
<1> DEFINE after == refill(bucket, capacity, interval, at)
<1>1. BucketFacts(bucket, capacity)
  BY RefillCases
<1>2. PICK additions \in Nat : Refilled(bucket, capacity, interval, at, additions, after)
  BY RefillCases
<1> HIDE DEF after
<1>3. CASE additions = 0 /\ after = bucket
  BY <1>3 DEF after
<1>4. CASE additions # 0 /\ additions >= capacity - bucket.tokens
             /\ after = [tokens |-> capacity, lastRefill |-> at]
  BY <1>4 DEF Owed, ComeBack, after
<1>5. CASE additions # 0 /\ additions < capacity - bucket.tokens
             /\ after = [tokens |-> bucket.tokens + additions,
                         lastRefill |-> bucket.lastRefill + additions * interval]
  <2> DEFINE owed == capacity - bucket.tokens
  <2>1. owed \in Nat /\ owed <= Len(grants) /\ capacity - after.tokens = owed - additions
    BY <1>1, <1>5 DEF BucketFacts, Owed, ComeBack
  <2>2. ASSUME NEW m \in 1 .. owed - additions
        PROVE  after.lastRefill + m * interval
                 <= grants[Len(grants) - (owed - additions) + m] + capacity * interval
    <3>1. m + additions \in 1 .. owed /\ m \in Int
      BY <2>1
    <3>2. bucket.lastRefill + (m + additions) * interval
            <= grants[Len(grants) - owed + (m + additions)] + capacity * interval
      BY <3>1 DEF Owed, ComeBack
    <3>3. Len(grants) - owed + (m + additions) = Len(grants) - (owed - additions) + m
      BY <2>1, <3>1
    <3>4. /\ (m + additions) * interval = m * interval + additions * interval
          /\ m * interval \in Int /\ additions * interval \in Int
      BY <3>1, Distributes
    <3>5. bucket.lastRefill \in Int
      BY <1>1 DEF BucketFacts
    <3>6. after.lastRefill + m * interval = bucket.lastRefill + (m + additions) * interval
      BY <1>5, <3>4, <3>5
    <3> QED
      BY <3>2, <3>3, <3>6
  <2>3. owed - additions <= Len(grants)
    BY <1>5, <2>1, Granted
  <2> QED
    BY <2>1, <2>2, <2>3 DEF Owed, ComeBack, after
<1> QED
  BY <1>2, <1>3, <1>4, <1>5 DEF Refilled

\* An attempt that is allowed will be paid back after the ones before it.
LEMMA OwedTake ==
  ASSUME NEW capacity \in Nat \ {0}, NEW interval \in Nat \ {0},
         NEW bucket \in Bucket(capacity), NEW at \in 0 .. Horizon,
         bucket.lastRefill <= at, bucket.tokens # 0, NEW grants \in Seq(Nat),
         Owed(grants, bucket, capacity, interval)
  PROVE  Owed(Append(grants, at), Take(bucket), capacity, interval)
<1> DEFINE owed == capacity - bucket.tokens
<1>1. /\ bucket.tokens \in 1 .. capacity /\ bucket.lastRefill \in Nat
      /\ Take(bucket).lastRefill = bucket.lastRefill
      /\ Take(bucket).tokens = bucket.tokens - 1
  BY TakeBounded DEF Bucket
<1>2. Len(Append(grants, at)) = Len(grants) + 1 /\ Len(grants) \in Nat
  OBVIOUS
<1>3. owed \in Nat /\ owed < capacity /\ owed <= Len(grants)
      /\ capacity - Take(bucket).tokens = owed + 1
  BY <1>1 DEF Owed, ComeBack
<1>4. ASSUME NEW m \in 1 .. owed + 1
      PROVE  bucket.lastRefill + m * interval
               <= Append(grants, at)[Len(Append(grants, at)) - (owed + 1) + m]
                  + capacity * interval
  <2>1. Len(Append(grants, at)) - (owed + 1) + m = Len(grants) - owed + m
    <3> DEFINE longer == Len(Append(grants, at))
               len == Len(grants)
    <3>1. longer = len + 1 /\ len \in Nat /\ owed \in Nat /\ m \in Int
      BY <1>2, <1>3
    <3> HIDE DEF longer, len, owed
    <3>2. longer - (owed + 1) + m = len - owed + m
      BY <3>1
    <3> QED
      BY <3>2 DEF longer, len
  <2>2. CASE m = owed + 1
    <3>1. Append(grants, at)[Len(grants) - owed + m] = at
      BY <1>2, <1>3, <2>2
    <3> DEFINE x == m * interval
               y == capacity * interval
    <3>2. x <= y /\ x \in Int /\ y \in Int
      BY <1>3, <2>2, Distributes
    <3> HIDE DEF x, y
    <3>4. bucket.lastRefill + x <= at + y
      BY <1>1, <3>2
    <3>3. bucket.lastRefill + m * interval <= at + capacity * interval
      BY <3>4 DEF x, y
    <3> QED
      BY <2>1, <3>1, <3>3
  <2>3. CASE m \in 1 .. owed
    <3>1. Append(grants, at)[Len(grants) - owed + m] = grants[Len(grants) - owed + m]
      BY <1>2, <1>3, <2>3
    <3>2. bucket.lastRefill + m * interval
            <= grants[Len(grants) - owed + m] + capacity * interval
      BY <2>3 DEF Owed, ComeBack
    <3>3. Append(grants, at)[Len(Append(grants, at)) - (owed + 1) + m] = grants[Len(grants) - owed + m]
      BY <2>1, <3>1, Zenon
    <3> QED
      BY <3>2, <3>3, Zenon
  <2>4. m = owed + 1 \/ m \in 1 .. owed
    BY <1>3
  <2> QED
    BY <2>2, <2>3, <2>4
<1>5. owed + 1 <= Len(Append(grants, at))
  BY <1>2, <1>3
<1> HIDE DEF owed
<1>6. ComeBack(Append(grants, at), owed + 1, bucket.lastRefill, capacity, interval)
  BY <1>4, <1>5, Zenon DEF ComeBack
<1> QED
  BY <1>1, <1>3, <1>6, Zenon DEF Owed

\* What allow() does with one of its two buckets keeps the balance, whether it
\* takes a token or not.  A bucket that can be full before the attempt needs an
\* allowance above its capacity.
LEMMA Balance ==
  ASSUME NEW capacity \in Nat \ {0}, NEW interval \in Nat \ {0},
         NEW bucket \in Bucket(capacity), NEW at \in 0 .. Horizon,
         bucket.lastRefill <= at,
         NEW allowance \in Nat, capacity <= allowance,
         bucket.tokens = capacity => capacity < allowance,
         NEW grants \in Seq(Nat),
         Paid(grants, bucket, allowance, interval),
         Owed(grants, bucket, capacity, interval)
  PROVE  LET after == refill(bucket, capacity, interval, at)
         IN  /\ Paid(grants, after, allowance, interval)
             /\ Owed(grants, after, capacity, interval)
             /\ after.tokens # 0 =>
                  /\ Paid(Append(grants, at), Take(after), allowance, interval)
                  /\ Owed(Append(grants, at), Take(after), capacity, interval)
<1> DEFINE after == refill(bucket, capacity, interval, at)
<1>1. Paid(grants, after, allowance, interval) /\ Owed(grants, after, capacity, interval)
  BY PaidRefill, OwedRefill
<1>2. /\ after \in Bucket(capacity) /\ after.lastRefill <= at
      /\ at - after.lastRefill < interval
      /\ after.tokens = capacity /\ bucket.tokens # capacity => after.lastRefill = at
  BY RefillBounded
<1> HIDE DEF after
<1>3. after.tokens \in 0 .. capacity /\ after.lastRefill \in Int /\ at \in Int
  BY <1>2 DEF Bucket
<1>4. (after.tokens - allowance) * interval <= after.lastRefill - at
  <2>1. CASE after.tokens = allowance
    <3>1. after.lastRefill = at
      BY <1>2, <1>3, <2>1
    <3>2. after.tokens - allowance = 0 /\ 0 * interval = 0
      BY <2>1
    <3> QED
      BY <1>3, <3>1, <3>2
  <2>2. CASE after.tokens # allowance
    <3> DEFINE short == after.tokens - allowance
               x == short * interval
    <3>1. short \in Int /\ short <= -1
      BY <1>3, <2>2
    <3> HIDE DEF short
    <3>2. x <= (-1) * interval /\ x \in Int
      BY <3>1, Distributes
    <3>3. (-1) * interval = -interval
      OBVIOUS
    <3> HIDE DEF x
    <3>4. x <= after.lastRefill - at
      BY <1>2, <1>3, <3>2, <3>3
    <3> QED
      BY <3>4 DEF x, short
  <2> QED
    BY <2>1, <2>2
<1>5. after.tokens # 0 => /\ Paid(Append(grants, at), Take(after), allowance, interval)
                          /\ Owed(Append(grants, at), Take(after), capacity, interval)
  BY <1>1, <1>2, <1>4, PaidTake, OwedTake
<1> QED
  BY <1>1, <1>5 DEF after

\* A bucket that pays for an attempt lets no more of them pass than its rate.
LEMMA RateKept ==
  ASSUME NEW interval \in Nat \ {0}, NEW allowance \in Nat, NEW at \in Nat,
         NEW grants \in Seq(Nat), NEW bucket,
         bucket.tokens \in Nat, bucket.lastRefill \in Nat, bucket.lastRefill <= at,
         Paid(Append(grants, at), bucket, allowance, interval),
         Within(grants, allowance, interval)
  PROVE  Within(Append(grants, at), allowance, interval)
<1> DEFINE longer == Append(grants, at)
           len == Len(grants)
<1>1. /\ len \in Nat /\ Len(longer) = len + 1 /\ DOMAIN longer = 1 .. len + 1
      /\ longer[len + 1] = at
      /\ \A i \in 1 .. len : longer[i] = grants[i] /\ i \in DOMAIN grants
      /\ \A i \in 1 .. len + 1 : longer[i] \in Int
  OBVIOUS
<1> HIDE DEF longer, len
<1>2. ASSUME NEW first \in 1 .. len + 1, NEW last \in 1 .. len + 1, first <= last
      PROVE  last - first + 1 <= allowance + (longer[last] - longer[first]) \div interval
  <2>1. CASE last = len + 1
    <3> DEFINE n == last - first + 1 - allowance
               excess == Excess(len + 1, first, bucket.tokens, allowance)
               x == n * interval
               y == excess * interval
               period == longer[last] - longer[first]
    <3>1. n \in Int /\ excess \in Int /\ n <= excess
      BY <1>1, <2>1 DEF Excess
    <3>2. y <= bucket.lastRefill - longer[first]
      BY <1>1 DEF Paid, longer
    <3>3. longer[first] \in Int /\ longer[last] = at /\ period \in Int
      BY <1>1, <2>1
    <3> HIDE DEF n, excess
    <3>4. x <= y /\ x \in Int /\ y \in Int
      BY <3>1, Distributes
    <3> HIDE DEF x, y
    <3>5. x <= period
      BY <3>2, <3>3, <3>4
    <3> HIDE DEF period
    <3>6. n * interval <= period
      BY <3>5 DEF x
    <3>7. period \div interval \in Int /\ n <= period \div interval
      BY <3>1, <3>3, <3>6, FitsIn
    <3> DEFINE q == period \div interval
    <3>8. q \in Int /\ last - first + 1 - allowance <= q
      BY <3>7 DEF n
    <3> HIDE DEF q
    <3>9. last - first + 1 <= allowance + q
      BY <1>1, <3>8
    <3> QED
      BY <3>9 DEF q, period
  <2>2. CASE last \in 1 .. len
    <3>1. first \in 1 .. len
      BY <1>1, <1>2, <2>2
    <3>2. /\ longer[first] = grants[first] /\ longer[last] = grants[last]
          /\ first \in DOMAIN grants /\ last \in DOMAIN grants
      BY <1>1, <2>2, <3>1
    <3>3. last - first + 1 <= allowance + (grants[last] - grants[first]) \div interval
      BY <1>2, <3>2, Zenon DEF Within
    <3> QED
      BY <3>2, <3>3, Zenon
  <2>3. last = len + 1 \/ last \in 1 .. len
    BY <1>1
  <2> QED
    BY <2>1, <2>2, <2>3
<1> QED
  BY <1>1, <1>2, Zenon DEF Within, longer

\* A bucket that refill() leaves empty was emptied within the time that fills it.
LEMMA EmptyIsEarned ==
  ASSUME NEW capacity \in Nat \ {0}, NEW interval \in Nat \ {0},
         NEW bucket \in Bucket(capacity), NEW at \in 0 .. Horizon,
         bucket.lastRefill <= at, NEW grants \in Seq(Nat),
         Owed(grants, bucket, capacity, interval),
         refill(bucket, capacity, interval, at).tokens = 0
  PROVE  Earned(grants, capacity, interval, at)
<1>1. /\ bucket.tokens = 0 /\ at - bucket.lastRefill < interval
      /\ bucket.lastRefill \in Int /\ at \in Int
  BY RefillBounded DEF Bucket
<1>2. capacity - bucket.tokens = capacity
  BY <1>1
<1>3. ComeBack(grants, capacity, bucket.lastRefill, capacity, interval)
  BY <1>2, Zenon DEF Owed
<1> DEFINE len == Len(grants)
<1>4. capacity <= len /\ len \in Nat
  BY <1>3 DEF ComeBack
<1>5. ASSUME NEW recent \in len - capacity + 1 .. len
      PROVE  at - grants[recent] < capacity * interval
  <2> DEFINE m == recent - (len - capacity)
             x == m * interval
             y == capacity * interval
  <2>1. m \in 1 .. capacity /\ m \in Int /\ len - capacity + m = recent /\ recent \in 1 .. len
    BY <1>4
  <2>2. grants[recent] \in Int
    BY <2>1, Granted
  <2> HIDE DEF m, len
  <2>3. x <= y /\ 1 * interval <= x /\ x \in Int /\ y \in Int
    BY <2>1, Distributes
  <2>4. bucket.lastRefill + m * interval <= grants[len - capacity + m] + capacity * interval
    BY <1>3, <2>1, Zenon DEF ComeBack, len
  <2> HIDE DEF x, y
  <2>5. bucket.lastRefill + x <= grants[recent] + y
    BY <2>1, <2>4, Zenon DEF x, y
  <2>6. at - grants[recent] < y
    <3> DEFINE r == bucket.lastRefill
               g == grants[recent]
    <3>1. r \in Int /\ g \in Int /\ at - r < interval /\ r + x <= g + y
      BY <1>1, <2>2, <2>5
    <3> HIDE DEF r, g
    <3>2. at - g < y
      BY <1>1, <2>3, <3>1
    <3> QED
      BY <3>2 DEF g
  <2> QED
    BY <2>6 DEF y
<1> QED
  BY <1>4, <1>5, Zenon DEF Earned

-----------------------------------------------------------------------------
(* allow(). *)

\* The global bucket after an attempt that did not regress.
LEMMA GlobalAfterBounded ==
  ASSUME Bounded, NEW scope \in Scopes, NEW at \in 0 .. Horizon, ~Regressed(at)
  PROVE  GlobalAfter(scope, at) \in Bucket(GlobalBurst) /\ GlobalAfter(scope, at).lastRefill <= at
<1>1. global \in Bucket(GlobalBurst) /\ global.lastRefill <= at
  <2>1. global.lastRefill \in Int /\ lastAttempt \in Int
    BY DEF Bounded, TypeOK, Bucket
  <2> QED
    BY <2>1 DEF Bounded, TypeOK, RefillsInThePast, Regressed
<1>2. GlobalAt(at) \in Bucket(GlobalBurst) /\ GlobalAt(at).lastRefill <= at
  BY <1>1, RefillBounded, PolicyAssumption DEF GlobalAt
<1>3. Answer(scope, at) = "Allowed" => GlobalAt(at).tokens # 0
  BY DEF Answer
<1> QED
  BY <1>2, <1>3, TakeBounded, PolicyAssumption DEF GlobalAfter

\* The bucket of a scope after an attempt that came to it.
LEMMA SourceAfterBounded ==
  ASSUME Bounded, NEW scope \in Scopes, NEW at \in 0 .. Horizon, ~Regressed(at)
  PROVE  /\ SourceAfter(scope, at) \in Bucket(SourceBurst - 1)
         /\ SourceAfter(scope, at).lastRefill <= at
<1>1. CASE scope \notin Tracked
  BY <1>1, PolicyAssumption DEF SourceAfter, Bucket
<1>2. CASE scope \in Tracked
  <2>1. /\ sources[scope] \in Bucket(SourceBurst - 1)
        /\ sources[scope].lastRefill <= lastAttempt
    BY <1>2 DEF Bounded, TypeOK, RefillsInThePast, Tracked
  <2>2. sources[scope] \in Bucket(SourceBurst) /\ sources[scope].lastRefill <= at
    BY <2>1, PolicyAssumption DEF Bounded, TypeOK, Regressed, Bucket
  <2>3. SourceAt(scope, at) \in Bucket(SourceBurst) /\ SourceAt(scope, at).lastRefill <= at
    BY <2>2, RefillBounded, PolicyAssumption DEF SourceAt
  <2>4. CASE SourceAt(scope, at).tokens = 0
    BY <1>2, <2>3, <2>4, PolicyAssumption DEF SourceAfter, Bucket
  <2>5. CASE SourceAt(scope, at).tokens # 0
    BY <1>2, <2>3, <2>5, TakeBounded, PolicyAssumption DEF SourceAfter
  <2> QED
    BY <2>4, <2>5
<1> QED
  BY <1>1, <1>2

\* A scope with a bucket is tracked.
LEMMA NoBucketApart ==
  ASSUME NEW bucket \in Bucket(SourceBurst - 1)
  PROVE  bucket # NoBucket
  BY SlotAssumption, PolicyAssumption DEF Bucket

\* allow() with an instant that is not too old: what changes and how.
Attempt(scope, at) ==
  /\ lastAttempt' = at
  /\ global' = GlobalAfter(scope, at)
  /\ \/ /\ Answer(scope, at) = "Allowed"
        /\ GlobalAt(at).tokens # 0
        /\ scope \in Tracked => SourceAt(scope, at).tokens # 0
        /\ scope \notin Tracked =>
             ~(Cardinality(Tracked) >= MaximumAuthenticationAdmissionScopes)
        /\ sources' = [sources EXCEPT ![scope] = SourceAfter(scope, at)]
        /\ granted' = [granted EXCEPT ![scope] = Append(@, at)]
        /\ admitted' = Append(admitted, at)
     \/ /\ Answer(scope, at) = "SourceExhausted"
        /\ scope \in Tracked /\ SourceAt(scope, at).tokens = 0
        /\ sources' = [sources EXCEPT ![scope] = SourceAfter(scope, at)]
        /\ UNCHANGED history
     \/ /\ Answer(scope, at) \notin {"Allowed", "SourceExhausted"}
        /\ UNCHANGED <<sources, history>>

LEMMA AllowCases ==
  ASSUME NEW caller \in Callers, allow(caller)
  PROVE  LET scope == calls[caller].scope
             at == calls[caller].at
         IN  /\ calls[caller] # NoCall
             /\ UNCHANGED now /\ calls' = [calls EXCEPT ![caller] = NoCall]
             /\ \/ Regressed(at) /\ UNCHANGED <<lastAttempt, global, sources, history>>
                \/ ~Regressed(at) /\ Attempt(scope, at)
<1> DEFINE scope == calls[caller].scope
           at == calls[caller].at
<1>1. CASE Regressed(at)
  BY <1>1 DEF allow, Answer
<1>2. CASE ~Regressed(at)
  <2>1. Answer(scope, at) # "ClockRegressed"
    BY <1>2 DEF Answer
  <2>2. /\ lastAttempt' = at
        /\ global' = GlobalAfter(scope, at)
        /\ sources' = IF Answer(scope, at) \in {"Allowed", "SourceExhausted"}
                      THEN [sources EXCEPT ![scope] = SourceAfter(scope, at)]
                      ELSE sources
        /\ IF Answer(scope, at) = "Allowed"
           THEN /\ granted' = [granted EXCEPT ![scope] = Append(@, at)]
                /\ admitted' = Append(admitted, at)
           ELSE UNCHANGED history
    BY <2>1 DEF allow
  <2>3. Answer(scope, at) = "Allowed" =>
          /\ GlobalAt(at).tokens # 0
          /\ scope \in Tracked => SourceAt(scope, at).tokens # 0
          /\ scope \notin Tracked => ~(Cardinality(Tracked) >= MaximumAuthenticationAdmissionScopes)
    BY DEF Answer
  <2>4. Answer(scope, at) = "SourceExhausted" => scope \in Tracked /\ SourceAt(scope, at).tokens = 0
    BY DEF Answer
  <2> HIDE DEF scope, at
  <2>5. Attempt(scope, at)
    BY <2>2, <2>3, <2>4 DEF Attempt
  <2>6. calls[caller] # NoCall /\ UNCHANGED now /\ calls' = [calls EXCEPT ![caller] = NoCall]
    BY DEF allow
  <2> QED
    BY <1>2, <2>5, <2>6 DEF scope, at
<1> QED
  BY <1>1, <1>2

\* The call that a caller passes on.
LEMMA CallFacts ==
  ASSUME Bounded, NEW caller \in Callers, calls[caller] # NoCall
  PROVE  /\ calls[caller].scope \in Scopes
         /\ calls[caller].at \in 0 .. Horizon
         /\ calls[caller].at <= now
  BY DEF Bounded, TypeOK, RefillsInThePast, Call

\* The buckets at an attempt that did not regress.
LEMMA BucketsAt ==
  ASSUME Bounded, NEW at \in 0 .. Horizon, ~Regressed(at)
  PROVE  /\ global \in Bucket(GlobalBurst) /\ global.lastRefill <= at
         /\ \A scope \in Tracked : /\ sources[scope] \in Bucket(SourceBurst)
                                   /\ sources[scope].tokens # SourceBurst
                                   /\ sources[scope].lastRefill <= at
<1>1. lastAttempt \in Int /\ at \in Int /\ lastAttempt <= at
  BY DEF Bounded, TypeOK, Regressed
<1>2. global \in Bucket(GlobalBurst) /\ global.lastRefill <= at
  <2>1. global.lastRefill \in Int
    BY DEF Bounded, TypeOK, Bucket
  <2> QED
    BY <1>1, <2>1 DEF Bounded, TypeOK, RefillsInThePast
<1>3. ASSUME NEW scope \in Tracked
      PROVE  /\ sources[scope] \in Bucket(SourceBurst)
             /\ sources[scope].tokens # SourceBurst
             /\ sources[scope].lastRefill <= at
  <2>1. sources[scope] \in Bucket(SourceBurst - 1) /\ sources[scope].lastRefill <= lastAttempt
    BY DEF Bounded, TypeOK, RefillsInThePast, Tracked
  <2> QED
    BY <1>1, <2>1, PolicyAssumption DEF Bucket
<1> QED
  BY <1>2, <1>3

\* A scope that is allowed gets a place in the table, if it has none.
LEMMA TableBounded ==
  ASSUME Bounded, NEW scope \in Scopes, NEW at \in 0 .. Horizon, ~Regressed(at),
         Attempt(scope, at)
  PROVE  /\ IsFiniteSet(Tracked')
         /\ Cardinality(Tracked') <= MaximumAuthenticationAdmissionScopes
<1>1. /\ IsFiniteSet(Tracked) /\ Cardinality(Tracked) \in Nat
      /\ Cardinality(Tracked) <= MaximumAuthenticationAdmissionScopes
      /\ sources \in [Scopes -> Bucket(SourceBurst - 1) \cup {NoBucket}]
  BY FS_CardinalityType DEF Bounded, TypeOK
<1>2. SourceAfter(scope, at) # NoBucket
  BY SourceAfterBounded, NoBucketApart
<1>3. Tracked' = Tracked \/ Tracked' = Tracked \cup {scope}
  BY <1>1, <1>2 DEF Attempt, Tracked
<1>4. CASE Tracked' = Tracked
  BY <1>1, <1>4
<1>5. CASE scope \notin Tracked /\ Tracked' = Tracked \cup {scope}
  <2>1. Answer(scope, at) = "Allowed"
    BY <1>1, <1>5 DEF Attempt, Tracked
  <2>2. ~(Cardinality(Tracked) >= MaximumAuthenticationAdmissionScopes)
    BY <1>5, <2>1 DEF Attempt
  <2>3. /\ IsFiniteSet(Tracked \cup {scope})
        /\ Cardinality(Tracked \cup {scope}) = Cardinality(Tracked) + 1
    BY <1>1, <1>5, FS_AddElement
  <2> QED
    BY <1>1, <1>5, <2>2, <2>3, PolicyAssumption
<1>6. CASE scope \in Tracked /\ Tracked' = Tracked \cup {scope}
  BY <1>1, <1>6
<1> QED
  BY <1>3, <1>4, <1>5, <1>6

\* allow(), whoever gets the lock and whatever instant it was called with, keeps
\* the buckets bounded and in the past.
LEMMA AllowBounded ==
  ASSUME Bounded, NEW caller \in Callers, allow(caller)
  PROVE  Bounded'
<1> DEFINE scope == calls[caller].scope
           at == calls[caller].at
<1>1. /\ calls[caller] # NoCall
      /\ UNCHANGED now /\ calls' = [calls EXCEPT ![caller] = NoCall]
      /\ \/ Regressed(at) /\ UNCHANGED <<lastAttempt, global, sources, history>>
         \/ ~Regressed(at) /\ Attempt(scope, at)
  BY AllowCases
<1>2. scope \in Scopes /\ at \in 0 .. Horizon /\ at <= now
  BY <1>1, CallFacts
<1> HIDE DEF scope, at
<1>3. /\ calls' \in [Callers -> Call \cup {NoCall}]
      /\ \A other \in Callers : calls'[other] # NoCall => calls'[other].at <= now'
  BY <1>1 DEF Bounded, TypeOK, RefillsInThePast
<1>4. CASE Regressed(at) /\ UNCHANGED <<lastAttempt, global, sources, history>>
  BY <1>1, <1>3, <1>4 DEF Bounded, TypeOK, RefillsInThePast, Tracked, history
<1>5. CASE ~Regressed(at) /\ Attempt(scope, at)
  <2>1. /\ lastAttempt' = at
        /\ global' = GlobalAfter(scope, at)
        /\ \/ sources' = [sources EXCEPT ![scope] = SourceAfter(scope, at)]
           \/ sources' = sources
    BY <1>5 DEF Attempt
  <2>2. global' \in Bucket(GlobalBurst) /\ global'.lastRefill <= lastAttempt'
    BY <1>2, <1>5, <2>1, GlobalAfterBounded
  <2>3. SourceAfter(scope, at) \in Bucket(SourceBurst - 1) /\ SourceAfter(scope, at).lastRefill <= at
    BY <1>2, <1>5, SourceAfterBounded
  <2>4. sources' \in [Scopes -> Bucket(SourceBurst - 1) \cup {NoBucket}]
    BY <1>2, <2>1, <2>3 DEF Bounded, TypeOK
  <2>5. \A other \in Tracked' : sources'[other].lastRefill <= lastAttempt'
    <3> SUFFICES ASSUME NEW other \in Tracked'
                 PROVE  sources'[other].lastRefill <= at
      BY <2>1
    <3>1. other \in Scopes /\ sources'[other] # NoBucket
      BY DEF Tracked
    <3>2. CASE sources'[other] = SourceAfter(scope, at)
      BY <2>3, <3>2
    <3>3. CASE sources'[other] = sources[other]
      <4>1. other \in Tracked
        BY <3>1, <3>3 DEF Tracked
      <4> QED
        BY <1>2, <1>5, <3>3, <4>1, BucketsAt
    <3> QED
      BY <1>2, <2>1, <3>1, <3>2, <3>3 DEF Bounded, TypeOK
  <2>6. granted' \in [Scopes -> Seq(Nat)] /\ admitted' \in Seq(Nat)
    <3>1. granted \in [Scopes -> Seq(Nat)] /\ admitted \in Seq(Nat) /\ at \in Nat
      BY <1>2 DEF Bounded, TypeOK
    <3>2. Append(granted[scope], at) \in Seq(Nat) /\ Append(admitted, at) \in Seq(Nat)
      BY <1>2, <3>1
    <3> QED
      BY <1>2, <1>5, <3>1, <3>2 DEF Attempt, history
  <2>7. IsFiniteSet(Tracked') /\ Cardinality(Tracked') <= MaximumAuthenticationAdmissionScopes
    BY <1>2, <1>5, TableBounded
  <2>8. lastAttempt' \in 0 .. Horizon /\ lastAttempt' <= now' /\ now' \in 0 .. Horizon
    BY <1>1, <1>2, <2>1 DEF Bounded, TypeOK
  <2> QED
    BY <1>3, <2>2, <2>4, <2>5, <2>6, <2>7, <2>8 DEF Bounded, TypeOK, RefillsInThePast
<1> QED
  BY <1>1, <1>4, <1>5

\* The global bucket pays for what is admitted.
LEMMA GlobalPreserved ==
  ASSUME IInv, NEW scope \in Scopes, NEW at \in 0 .. Horizon, ~Regressed(at),
         Attempt(scope, at)
  PROVE  GlobalKept' /\ GlobalRate'
<1> DEFINE after == GlobalAt(at)
<1>1. /\ global \in Bucket(GlobalBurst) /\ global.lastRefill <= at
      /\ admitted \in Seq(Nat) /\ at \in Nat
  BY BucketsAt DEF IInv, Bounded, TypeOK
<1>2. /\ Paid(admitted, after, GlobalBurst + 1, GlobalRefill)
      /\ Owed(admitted, after, GlobalBurst, GlobalRefill)
      /\ after.tokens # 0 =>
           /\ Paid(Append(admitted, at), Take(after), GlobalBurst + 1, GlobalRefill)
           /\ Owed(Append(admitted, at), Take(after), GlobalBurst, GlobalRefill)
  <2>1. /\ GlobalBurst + 1 \in Nat /\ GlobalBurst <= GlobalBurst + 1
        /\ GlobalBurst < GlobalBurst + 1
    BY PolicyAssumption
  <2> QED
    BY <1>1, <2>1, Balance, PolicyAssumption DEF IInv, GlobalKept, GlobalAt
<1>3. after \in Bucket(GlobalBurst) /\ after.lastRefill <= at
  BY <1>1, RefillBounded, PolicyAssumption DEF GlobalAt
<1> HIDE DEF after
<1>4. CASE Answer(scope, at) = "Allowed"
  <2>1. global' = Take(after) /\ admitted' = Append(admitted, at) /\ after.tokens # 0
    BY <1>4 DEF Attempt, GlobalAfter, after
  <2>2. /\ Take(after) \in Bucket(GlobalBurst)
        /\ Take(after).lastRefill = after.lastRefill
    BY <1>3, <2>1, TakeBounded, PolicyAssumption
  <2>3. /\ Take(after).tokens \in Nat /\ Take(after).lastRefill \in Nat
        /\ Take(after).lastRefill <= at /\ GlobalBurst + 1 \in Nat
    BY <1>3, <2>2, PolicyAssumption DEF Bucket
  <2>4. Within(Append(admitted, at), GlobalBurst + 1, GlobalRefill)
    BY <1>1, <1>2, <2>1, <2>3, RateKept, PolicyAssumption DEF IInv, RatesHold, GlobalRate
  <2>5. GlobalKept'
    BY <1>2, <2>1, Zenon DEF GlobalKept
  <2>6. GlobalRate'
    BY <2>1, <2>4, Zenon DEF GlobalRate
  <2> QED
    BY <2>5, <2>6
<1>5. CASE Answer(scope, at) # "Allowed"
  <2>1. global' = after /\ admitted' = admitted
    BY <1>5 DEF Attempt, GlobalAfter, after, history
  <2>2. GlobalKept'
    BY <1>2, <2>1, Zenon DEF GlobalKept
  <2>3. GlobalRate'
    BY <2>1, Zenon DEF GlobalRate, IInv, RatesHold
  <2> QED
    BY <2>2, <2>3
<1> QED
  BY <1>4, <1>5

\* The bucket of the scope pays for what is granted to it.
LEMMA SourcePreserved ==
  ASSUME IInv, NEW scope \in Scopes, NEW at \in 0 .. Horizon, ~Regressed(at),
         Attempt(scope, at), NEW other \in Scopes
  PROVE  SourceKept(other)' /\ Within(granted[other], SourceBurst, SourceRefill)'
<1>1. /\ sources \in [Scopes -> Bucket(SourceBurst - 1) \cup {NoBucket}]
      /\ granted \in [Scopes -> Seq(Nat)] /\ at \in Nat
  BY DEF IInv, Bounded, TypeOK
<1>2. SourceKept(other) /\ Within(granted[other], SourceBurst, SourceRefill)
  BY DEF IInv, RatesHold, SourceRate
<1>3. CASE sources'[other] = sources[other] /\ granted'[other] = granted[other]
  <2>1. other \in Tracked' <=> other \in Tracked
    BY <1>3 DEF Tracked
  <2> QED
    BY <1>2, <1>3, <2>1, Zenon DEF SourceKept
<1>4. CASE ~(sources'[other] = sources[other] /\ granted'[other] = granted[other])
  <2>1. other = scope /\ Answer(scope, at) \in {"Allowed", "SourceExhausted"}
    BY <1>1, <1>4 DEF Attempt, history
  <2>2. sources'[scope] = SourceAfter(scope, at)
    BY <1>1, <2>1 DEF Attempt
  <2>3. /\ SourceAfter(scope, at) \in Bucket(SourceBurst - 1)
        /\ SourceAfter(scope, at).lastRefill <= at
    BY SourceAfterBounded DEF IInv
  <2>4. scope \in Tracked'
    BY <2>2, <2>3, NoBucketApart DEF Tracked
  <2>5. /\ SourceAfter(scope, at).tokens \in Nat /\ SourceAfter(scope, at).lastRefill \in Nat
        /\ SourceBurst \in Nat /\ SourceBurst <= SourceBurst
    BY <2>3, PolicyAssumption DEF Bucket
  <2>6. ASSUME granted'[scope] = Append(granted[scope], at),
               Paid(granted'[scope], sources'[scope], SourceBurst, SourceRefill)
        PROVE  Within(granted'[scope], SourceBurst, SourceRefill)
    <3>1. /\ Paid(Append(granted[scope], at), SourceAfter(scope, at), SourceBurst, SourceRefill)
          /\ Within(granted[scope], SourceBurst, SourceRefill)
          /\ granted[scope] \in Seq(Nat)
      BY <1>1, <1>2, <2>1, <2>2, <2>6
    <3>2. Within(Append(granted[scope], at), SourceBurst, SourceRefill)
      BY <1>1, <2>3, <2>5, <3>1, RateKept, PolicyAssumption
    <3> QED
      BY <2>6, <3>2
  <2>7. CASE scope \notin Tracked
    <3>1. /\ granted[scope] = <<>> /\ granted'[scope] = Append(granted[scope], at)
          /\ SourceAfter(scope, at) = [tokens |-> SourceBurst - 1, lastRefill |-> at]
      BY <1>1, <1>2, <2>1, <2>7 DEF SourceKept, Attempt, SourceAfter
    <3>2. granted'[scope] = <<at>>
      BY <3>1
    <3>3. Paid(<<at>>, [tokens |-> SourceBurst - 1, lastRefill |-> at], SourceBurst, SourceRefill)
      <4>1. DOMAIN <<at>> = {1} /\ Len(<<at>>) = 1 /\ <<at>>[1] = at
        OBVIOUS
      <4>2. Excess(1, 1, SourceBurst - 1, SourceBurst) = 0 /\ 0 * SourceRefill = 0
        BY PolicyAssumption DEF Excess
      <4>3. 0 <= at - at
        BY <1>1
      <4> QED
        BY <4>1, <4>2, <4>3 DEF Paid
    <3>4. Owed(<<at>>, [tokens |-> SourceBurst - 1, lastRefill |-> at], SourceBurst, SourceRefill)
      <4>1. /\ Len(<<at>>) = 1 /\ <<at>>[1] = at
            /\ SourceBurst - (SourceBurst - 1) = 1
        BY PolicyAssumption
      <4>2. 1 * SourceRefill <= SourceBurst * SourceRefill /\ SourceBurst * SourceRefill \in Int
        BY Distributes, PolicyAssumption
      <4>3. ComeBack(<<at>>, 1, at, SourceBurst, SourceRefill)
        <5>1. 1 - 1 + 1 = 1 /\ \A m \in 1 .. 1 : m = 1
          OBVIOUS
        <5>2. at + 1 * SourceRefill <= at + SourceBurst * SourceRefill
          BY <1>1, <4>2, PolicyAssumption
        <5> QED
          BY <4>1, <5>1, <5>2 DEF ComeBack
      <4> QED
        BY <4>1, <4>3 DEF Owed
    <3>5. /\ Paid(granted'[scope], sources'[scope], SourceBurst, SourceRefill)
          /\ Owed(granted'[scope], sources'[scope], SourceBurst, SourceRefill)
      BY <2>2, <3>1, <3>2, <3>3, <3>4, Zenon
    <3>6. Within(granted'[scope], SourceBurst, SourceRefill)
      BY <2>6, <3>1, <3>5
    <3> QED
      BY <2>1, <2>4, <3>5, <3>6, Zenon DEF SourceKept
  <2>8. CASE scope \in Tracked
    <3> DEFINE after == SourceAt(scope, at)
    <3>1. /\ sources[scope] \in Bucket(SourceBurst) /\ sources[scope].lastRefill <= at
          /\ sources[scope].tokens # SourceBurst /\ granted[scope] \in Seq(Nat)
      BY <1>1, <2>8, BucketsAt DEF IInv
    <3>2. /\ Paid(granted[scope], sources[scope], SourceBurst, SourceRefill)
          /\ Owed(granted[scope], sources[scope], SourceBurst, SourceRefill)
      BY <1>2, <2>1, <2>8 DEF SourceKept
    <3>3. /\ Paid(granted[scope], after, SourceBurst, SourceRefill)
          /\ Owed(granted[scope], after, SourceBurst, SourceRefill)
          /\ after.tokens # 0 =>
               /\ Paid(Append(granted[scope], at), Take(after), SourceBurst, SourceRefill)
               /\ Owed(Append(granted[scope], at), Take(after), SourceBurst, SourceRefill)
      BY <2>5, <3>1, <3>2, Balance, PolicyAssumption DEF SourceAt
    <3> HIDE DEF after
    <3>4. CASE Answer(scope, at) = "Allowed"
      <4>1. /\ after.tokens # 0 /\ SourceAfter(scope, at) = Take(after)
            /\ granted'[scope] = Append(granted[scope], at)
        BY <1>1, <2>8, <3>4 DEF Attempt, SourceAfter, after
      <4>2. /\ Paid(granted'[scope], sources'[scope], SourceBurst, SourceRefill)
            /\ Owed(granted'[scope], sources'[scope], SourceBurst, SourceRefill)
        BY <2>2, <3>3, <4>1, Zenon
      <4>3. Within(granted'[scope], SourceBurst, SourceRefill)
        BY <2>6, <4>1, <4>2
      <4> QED
        BY <2>1, <2>4, <4>2, <4>3, Zenon DEF SourceKept
    <3>5. CASE Answer(scope, at) = "SourceExhausted"
      <4>1. /\ SourceAfter(scope, at) = after /\ granted'[scope] = granted[scope]
        BY <2>8, <3>5 DEF Attempt, SourceAfter, after, history
      <4>2. /\ Paid(granted'[scope], sources'[scope], SourceBurst, SourceRefill)
            /\ Owed(granted'[scope], sources'[scope], SourceBurst, SourceRefill)
        BY <2>2, <3>3, <4>1, Zenon
      <4> QED
        BY <1>2, <2>1, <2>4, <4>1, <4>2, Zenon DEF SourceKept
    <3> QED
      BY <2>1, <3>4, <3>5
  <2> QED
    BY <2>7, <2>8
<1> QED
  BY <1>3, <1>4

-----------------------------------------------------------------------------
(* Every step. *)

\* What the invariant says of buckets and history is about nothing else.
LEMMA KeptUnchanged ==
  ASSUME IInv, UNCHANGED <<global, sources, history>>
  PROVE  GlobalKept' /\ (\A scope \in Scopes : SourceKept(scope)') /\ RatesHold'
<1>1. global' = global /\ sources' = sources /\ granted' = granted /\ admitted' = admitted
  BY DEF history
<1>2. GlobalKept' /\ RatesHold'
  BY <1>1, Zenon DEF IInv, GlobalKept, RatesHold, SourceRate, GlobalRate
<1>3. ASSUME NEW scope \in Scopes PROVE SourceKept(scope)'
  <2>1. scope \in Tracked' <=> scope \in Tracked
    BY <1>1 DEF Tracked
  <2>2. SourceKept(scope)
    BY DEF IInv
  <2> QED
    BY <1>1, <2>1, <2>2, Zenon DEF SourceKept
<1> QED
  BY <1>2, <1>3

\* allow() keeps the invariant.
LEMMA AllowPreserves ==
  ASSUME IInv, NEW caller \in Callers, allow(caller)
  PROVE  IInv'
<1> DEFINE scope == calls[caller].scope
           at == calls[caller].at
<1>1. /\ calls[caller] # NoCall
      /\ \/ Regressed(at) /\ UNCHANGED <<lastAttempt, global, sources, history>>
         \/ ~Regressed(at) /\ Attempt(scope, at)
  BY AllowCases
<1>2. scope \in Scopes /\ at \in 0 .. Horizon
  BY <1>1, CallFacts DEF IInv
<1> HIDE DEF scope, at
<1>3. Bounded'
  BY AllowBounded DEF IInv
<1>4. CASE Regressed(at) /\ UNCHANGED <<lastAttempt, global, sources, history>>
  <2>1. GlobalKept' /\ (\A s \in Scopes : SourceKept(s)') /\ RatesHold'
    BY <1>4, KeptUnchanged
  <2> QED
    BY <1>3, <2>1 DEF IInv
<1>5. CASE ~Regressed(at) /\ Attempt(scope, at)
  <2>1. GlobalKept' /\ GlobalRate'
    BY <1>2, <1>5, GlobalPreserved
  <2>2. \A s \in Scopes : SourceKept(s)' /\ Within(granted[s], SourceBurst, SourceRefill)'
    BY <1>2, <1>5, SourcePreserved
  <2>3. RatesHold'
    BY <2>1, <2>2, Zenon DEF RatesHold, SourceRate
  <2> QED
    BY <1>3, <2>1, <2>2, <2>3 DEF IInv
<1> QED
  BY <1>1, <1>4, <1>5

\* The limiter starts with a full global bucket, an empty table and no history.
LEMMA InitIInv == Init => IInv
<1> SUFFICES ASSUME Init PROVE IInv
  OBVIOUS
<1>1. Tracked = {}
  BY DEF Init, Tracked
<1>2. IsFiniteSet(Tracked) /\ Cardinality(Tracked) <= MaximumAuthenticationAdmissionScopes
  BY <1>1, FS_EmptySet, PolicyAssumption
<1>3. Bounded
  BY <1>1, <1>2, PolicyAssumption DEF Init, Bounded, TypeOK, RefillsInThePast, Bucket
<1>4. GlobalKept
  <2>1. admitted = <<>> /\ DOMAIN admitted = {} /\ Len(admitted) = 0
    BY DEF Init
  <2>2. GlobalBurst - global.tokens = 0
    BY PolicyAssumption DEF Init
  <2>3. ComeBack(admitted, 0, global.lastRefill, GlobalBurst, GlobalRefill)
    BY <2>1 DEF ComeBack
  <2> QED
    BY <2>1, <2>2, <2>3 DEF GlobalKept, Paid, Owed
<1>5. \A scope \in Scopes : SourceKept(scope)
  BY <1>1 DEF Init, SourceKept
<1>6. RatesHold
  BY DEF Init, RatesHold, SourceRate, GlobalRate, Within
<1> QED
  BY <1>3, <1>4, <1>5, <1>6 DEF IInv

\* Every step of callers and clock keeps the invariant.
LEMMA NextPreserves == IInv /\ [Next]_vars => IInv'
<1> SUFFICES ASSUME IInv, [Next]_vars PROVE IInv'
  OBVIOUS
<1>1. ASSUME Bounded', UNCHANGED <<global, sources, history>>
      PROVE  IInv'
  <2>1. GlobalKept' /\ (\A s \in Scopes : SourceKept(s)') /\ RatesHold'
    BY <1>1, KeptUnchanged
  <2> QED
    BY <1>1, <2>1 DEF IInv
<1>2. ASSUME NEW caller \in Callers, NEW scope \in Scopes, begin(caller, scope)
      PROVE  IInv'
  <2>1. [scope |-> scope, at |-> now] \in Call
    BY DEF IInv, Bounded, TypeOK, Call
  <2>2. Bounded' /\ UNCHANGED <<global, sources, history>>
    BY <1>2, <2>1 DEF begin, IInv, Bounded, TypeOK, RefillsInThePast, Tracked, history
  <2> QED
    BY <1>1, <2>2
<1>3. ASSUME NEW caller \in Callers, allow(caller) PROVE IInv'
  BY <1>3, AllowPreserves
<1>4. CASE Tick
  <2>1. now' \in 0 .. Horizon /\ now <= now'
    BY <1>4, PolicyAssumption DEF Tick, IInv, Bounded, TypeOK
  <2>2. UNCHANGED <<calls, lastAttempt, global, sources, history>>
    BY <1>4 DEF Tick
  <2>3. lastAttempt' <= now'
    BY <2>1, <2>2 DEF IInv, Bounded, TypeOK, RefillsInThePast
  <2>4. \A caller \in Callers : calls'[caller] # NoCall => calls'[caller].at <= now'
    <3> SUFFICES ASSUME NEW caller \in Callers, calls[caller] # NoCall
                 PROVE  calls[caller].at <= now'
      BY <2>2
    <3>1. calls[caller].at \in 0 .. Horizon /\ calls[caller].at <= now
      BY CallFacts DEF IInv
    <3> QED
      BY <2>1, <3>1 DEF IInv, Bounded, TypeOK
  <2>5. Bounded'
    BY <2>1, <2>2, <2>3, <2>4
       DEF IInv, Bounded, TypeOK, RefillsInThePast, Tracked, history
  <2> QED
    BY <1>1, <2>2, <2>5
<1>5. CASE UNCHANGED vars
  <2>1. Bounded' /\ UNCHANGED <<global, sources, history>>
    BY <1>5 DEF vars, IInv, Bounded, TypeOK, RefillsInThePast, Tracked, history
  <2> QED
    BY <1>1, <2>1
<1> QED
  BY <1>2, <1>3, <1>4, <1>5 DEF Next

\* Whatever the policy and whoever gets the lock first, no bucket exceeds its
\* capacity, a scope's bucket is never full between two attempts, and the
\* unsigned subtraction in refill() never wraps.
THEOREM LimiterIsBounded == Spec => [](TypeOK /\ RefillsInThePast)
<1>1. IInv => TypeOK /\ RefillsInThePast
  BY DEF IInv, Bounded
<1> QED
  BY InitIInv, NextPreserves, <1>1, PTL DEF Spec

\* The buckets, the table of scopes and the instants keep their types: no
\* bucket ever holds more than its capacity and the table never more scopes
\* than it has places (allow).
THEOREM LimiterTypeCorrect == Spec => []TypeOK
<1>1. IInv => TypeOK
  BY DEF IInv, Bounded
<1> QED
  BY InitIInv, NextPreserves, <1>1, PTL DEF Spec

\* Over every period, the attempts that are allowed to a scope, and to all of
\* them, stay within the rates of the policy (allow, refill).
THEOREM RatesAreKept == Spec => []RatesHold
<1>1. IInv => RatesHold
  BY DEF IInv
<1> QED
  BY InitIInv, NextPreserves, <1>1, PTL DEF Spec

\* An attempt that is refused for an empty bucket comes after as many as the
\* burst, within the time in which the bucket would have been filled (allow).
THEOREM RefusalsAreEarned == Spec => []RefusalIsEarned
<1>1. ASSUME IInv PROVE RefusalIsEarned
  <2> SUFFICES ASSUME NEW caller \in Callers, calls[caller] # NoCall
               PROVE  LET scope == calls[caller].scope
                          at == calls[caller].at
                      IN  /\ Answer(scope, at) = "SourceExhausted" =>
                               Earned(granted[scope], SourceBurst, SourceRefill, at)
                          /\ Answer(scope, at) = "GlobalExhausted" =>
                               Earned(admitted, GlobalBurst, GlobalRefill, at)
    BY DEF RefusalIsEarned
  <2> DEFINE scope == calls[caller].scope
             at == calls[caller].at
  <2>1. scope \in Scopes /\ at \in 0 .. Horizon
    BY <1>1, CallFacts DEF IInv
  <2>2. granted[scope] \in Seq(Nat) /\ admitted \in Seq(Nat)
    BY <1>1, <2>1 DEF IInv, Bounded, TypeOK
  <2> HIDE DEF scope, at
  <2>3. ASSUME Answer(scope, at) = "SourceExhausted"
        PROVE  Earned(granted[scope], SourceBurst, SourceRefill, at)
    <3>1. ~Regressed(at) /\ scope \in Tracked /\ SourceAt(scope, at).tokens = 0
      BY <2>3 DEF Answer
    <3>2. sources[scope] \in Bucket(SourceBurst) /\ sources[scope].lastRefill <= at
      BY <1>1, <2>1, <3>1, BucketsAt DEF IInv
    <3>3. Owed(granted[scope], sources[scope], SourceBurst, SourceRefill)
      BY <1>1, <2>1, <3>1 DEF IInv, SourceKept
    <3> QED
      BY <2>1, <2>2, <3>1, <3>2, <3>3, EmptyIsEarned, PolicyAssumption DEF SourceAt
  <2>4. ASSUME Answer(scope, at) = "GlobalExhausted"
        PROVE  Earned(admitted, GlobalBurst, GlobalRefill, at)
    <3>1. ~Regressed(at) /\ GlobalAt(at).tokens = 0
      BY <2>4 DEF Answer
    <3>2. global \in Bucket(GlobalBurst) /\ global.lastRefill <= at
      BY <1>1, <2>1, <3>1, BucketsAt DEF IInv
    <3> QED
      BY <1>1, <2>1, <2>2, <3>1, <3>2, EmptyIsEarned, PolicyAssumption DEF GlobalAt, IInv, GlobalKept
  <2> QED
    BY <2>3, <2>4 DEF scope, at
<1> QED
  BY InitIInv, NextPreserves, <1>1, PTL DEF Spec
=============================================================================
