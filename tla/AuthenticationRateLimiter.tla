---------------------- MODULE AuthenticationRateLimiter ----------------------
(***************************************************************************)
(* AuthenticationRateLimiter: a token bucket for each admission scope and  *)
(* one for all of them, in front of every authentication attempt.          *)
(* SharedServerAuthenticationService::begin() reads the clock and then     *)
(* calls allow(), which takes the lock: between the two another caller may *)
(* come in with a later instant.                                           *)
(*                                                                         *)
(* granted and admitted are history variables: the instants of the         *)
(* attempts that were allowed, of each scope and of all of them.  The      *)
(* slots of mSources are never emptied and never looked at by index, so    *)
(* the table is a function of the scope.                                   *)
(***************************************************************************)
EXTENDS Integers, FiniteSets, Sequences

CONSTANTS
  Callers, Scopes,
  NoCall, NoBucket,                      \* nobody calls, an empty slot
  MaximumAuthenticationAdmissionScopes,
  SourceBurst, GlobalBurst,              \* of the AuthenticationRateLimitPolicy
  SourceRefill, GlobalRefill,            \* its two refill intervals
  Instants,                              \* number of values of an instant
  Horizon                                \* bound for TLC

ASSUME PolicyAssumption ==
  /\ SourceBurst \in Nat \ {0} /\ GlobalBurst \in Nat \ {0}
  /\ SourceRefill \in Nat \ {0} /\ GlobalRefill \in Nat \ {0}
  /\ MaximumAuthenticationAdmissionScopes \in Nat
  /\ Horizon \in Nat /\ Instants \in Nat /\ Horizon < Instants

\* An empty slot of mSources is no bucket.
ASSUME SlotAssumption == NoBucket \notin [tokens : Nat, lastRefill : Nat]

VARIABLES
  now,          \* the clock
  calls,        \* the scope and the instant each caller is about to pass on
  lastAttempt,  \* mLastAttempt
  global,       \* mGlobal
  sources,      \* mSources
  granted, admitted

history == <<granted, admitted>>
vars == <<now, calls, lastAttempt, global, sources, history>>

Bucket(capacity) == [tokens : 0 .. capacity, lastRefill : 0 .. Horizon]
Call == [scope : Scopes, at : 0 .. Horizon]

Init ==
  /\ now = 0
  /\ calls = [caller \in Callers |-> NoCall]
  /\ lastAttempt = 0
  /\ global = [tokens |-> GlobalBurst, lastRefill |-> 0]
  /\ sources = [scope \in Scopes |-> NoBucket]
  /\ granted = [scope \in Scopes |-> <<>>]
  /\ admitted = <<>>

-----------------------------------------------------------------------------
\* Instants are unsigned: a clock that went back would look like a long time.
Elapsed(bucket, at) == (at - bucket.lastRefill) % Instants

\* refill().  The time that does not fill a token is kept for the next one,
\* unless the bucket is full.  The first variant forgets it, the second one
\* does not look at the capacity, the third one counts it as a whole token.
refill_Mutant(bucket, capacity, interval, at) ==
  LET additions == Elapsed(bucket, at) \div interval
  IN  IF additions = 0 THEN bucket
      ELSE IF additions >= capacity - bucket.tokens
      THEN [tokens |-> capacity, lastRefill |-> at]
      ELSE [tokens |-> bucket.tokens + additions, lastRefill |-> at]

refill_Uncapped(bucket, capacity, interval, at) ==
  LET additions == Elapsed(bucket, at) \div interval
  IN  [tokens |-> bucket.tokens + additions,
       lastRefill |-> bucket.lastRefill + additions * interval]

refill_RoundedUp(bucket, capacity, interval, at) ==
  LET additions == (Elapsed(bucket, at) + interval - 1) \div interval
  IN  IF additions >= capacity - bucket.tokens
      THEN [tokens |-> capacity, lastRefill |-> at]
      ELSE [tokens |-> bucket.tokens + additions,
            lastRefill |-> bucket.lastRefill + additions * interval]

refill(bucket, capacity, interval, at) ==
  LET additions == Elapsed(bucket, at) \div interval
  IN  IF additions = 0 THEN bucket
      ELSE IF additions >= capacity - bucket.tokens
      THEN [tokens |-> capacity, lastRefill |-> at]
      ELSE [tokens |-> bucket.tokens + additions,
            lastRefill |-> bucket.lastRefill + additions * interval]

Tracked == {scope \in Scopes : sources[scope] # NoBucket}

GlobalAt(at) == refill(global, GlobalBurst, GlobalRefill, at)

\* Variant: refilled at the pace of the global bucket.
SourceAt_Mutant(scope, at) == refill(sources[scope], SourceBurst, GlobalRefill, at)

SourceAt(scope, at) == refill(sources[scope], SourceBurst, SourceRefill, at)

\* A caller whose instant is older than that of the last attempt.
Regressed(at) == at < lastAttempt

\* What allow() answers, its checks in their order.
Answer(scope, at) ==
  IF Regressed(at) THEN "ClockRegressed"
  ELSE IF GlobalAt(at).tokens = 0 THEN "GlobalExhausted"
  ELSE IF scope \in Tracked
  THEN IF SourceAt(scope, at).tokens = 0 THEN "SourceExhausted" ELSE "Allowed"
  ELSE IF Cardinality(Tracked) >= MaximumAuthenticationAdmissionScopes
  THEN "SourceTableFull"
  ELSE "Allowed"

Take(bucket) == [bucket EXCEPT !.tokens = @ - 1]

\* The bucket of a scope after an attempt that came to it.
SourceAfter(scope, at) ==
  IF scope \notin Tracked THEN [tokens |-> SourceBurst - 1, lastRefill |-> at]
  ELSE IF SourceAt(scope, at).tokens = 0 THEN SourceAt(scope, at)
  ELSE Take(SourceAt(scope, at))

\* The global bucket pays for every attempt that is allowed.
GlobalAfter(scope, at) ==
  IF Answer(scope, at) = "Allowed" THEN Take(GlobalAt(at)) ELSE GlobalAt(at)

allow(caller) ==
  /\ calls[caller] # NoCall
  /\ LET scope == calls[caller].scope
         at == calls[caller].at
         answer == Answer(scope, at)
     IN  IF answer = "ClockRegressed"
         THEN UNCHANGED <<lastAttempt, global, sources, history>>
         ELSE /\ lastAttempt' = at
              /\ global' = GlobalAfter(scope, at)
              /\ sources' = IF answer \in {"Allowed", "SourceExhausted"}
                            THEN [sources EXCEPT ![scope] = SourceAfter(scope, at)]
                            ELSE sources
              /\ IF answer = "Allowed"
                 THEN /\ granted' = [granted EXCEPT ![scope] = Append(@, at)]
                      /\ admitted' = Append(admitted, at)
                 ELSE UNCHANGED history
  /\ calls' = [calls EXCEPT ![caller] = NoCall]
  /\ UNCHANGED now

\* SharedServerAuthenticationService::begin() up to the call of allow().
begin(caller, scope) ==
  /\ calls[caller] = NoCall
  /\ calls' = [calls EXCEPT ![caller] = [scope |-> scope, at |-> now]]
  /\ UNCHANGED <<now, lastAttempt, global, sources, history>>

Tick ==
  /\ now < Horizon
  /\ now' = now + 1
  /\ UNCHANGED <<calls, lastAttempt, global, sources, history>>

Next ==
  \/ \E caller \in Callers, scope \in Scopes : begin(caller, scope)
  \/ \E caller \in Callers : allow(caller)
  \/ Tick

Spec == Init /\ [][Next]_vars

-----------------------------------------------------------------------------
\* The members have their types, the buckets their capacity and the table of
\* scopes its size.
TypeOK ==
  /\ now \in 0 .. Horizon
  /\ calls \in [Callers -> Call \cup {NoCall}]
  /\ lastAttempt \in 0 .. Horizon
  /\ global \in Bucket(GlobalBurst)
  /\ sources \in [Scopes -> Bucket(SourceBurst - 1) \cup {NoBucket}]
  /\ Cardinality(Tracked) <= MaximumAuthenticationAdmissionScopes
  /\ granted \in [Scopes -> Seq(Nat)]
  /\ admitted \in Seq(Nat)

\* No bucket was refilled after the last attempt, nor the last attempt made
\* after now: the unsigned subtraction of refill() never wraps, whoever gets
\* the lock first.
RefillsInThePast ==
  /\ global.lastRefill <= lastAttempt
  /\ \A scope \in Tracked : sources[scope].lastRefill <= lastAttempt
  /\ lastAttempt <= now
  /\ \A caller \in Callers : calls[caller] # NoCall => calls[caller].at <= now

-----------------------------------------------------------------------------
\* From no attempt to a later one are there more of them than the burst and one
\* for each refill interval between the two.
Within(grants, burst, interval) ==
  \A first, last \in DOMAIN grants : first <= last =>
    last - first + 1 <= burst + (grants[last] - grants[first]) \div interval

\* What the policy promises of a scope, whose bucket is never full between two
\* attempts.
SourceRate == \A scope \in Scopes : Within(granted[scope], SourceBurst, SourceRefill)

\* The same of all scopes together, except that the global bucket, which can
\* stay full between two attempts, keeps the phase of its last refill: one
\* attempt more fits into a period.
GlobalRate == Within(admitted, GlobalBurst + 1, GlobalRefill)

\* Both rates hold together, whichever caller gets the lock first.
RatesHold == SourceRate /\ GlobalRate

\* As many attempts as the burst were allowed within the time that fills it.
Earned(grants, burst, interval, at) ==
  /\ burst <= Len(grants)
  /\ \A recent \in Len(grants) - burst + 1 .. Len(grants) :
       at - grants[recent] < burst * interval

\* Nobody is refused for what was not used: a bucket that allow() finds empty
\* was emptied by attempts that it has not had the time to pay back.
RefusalIsEarned ==
  \A caller \in Callers : calls[caller] # NoCall =>
    LET scope == calls[caller].scope
        at == calls[caller].at
    IN  /\ Answer(scope, at) = "SourceExhausted" =>
             Earned(granted[scope], SourceBurst, SourceRefill, at)
        /\ Answer(scope, at) = "GlobalExhausted" =>
             Earned(admitted, GlobalBurst, GlobalRefill, at)
=============================================================================
