---------------------- MODULE InterestReplicationProofs ----------------------
(***************************************************************************)
(* Theorems about InterestReplication, for any number of players, cells,   *)
(* revisions, ticks and messages on their way, and every order in which    *)
(* views arrive or get lost.                                               *)
(***************************************************************************)
EXTENDS InterestReplication, SequenceTheorems, WellFoundedInduction, TLAPS

USE DEF Revisions, Ticks

-----------------------------------------------------------------------------
(* The messages. *)

\* The kind of a message tells what it is.
LEMMA MessageKinds ==
  ASSUME NEW m \in Messages
  PROVE  /\ m.kind \in {"accepted", "baseline", "batch"}
         /\ m.kind = "accepted" <=> m = Accepted
         /\ m.kind = "baseline" <=> m \in Baselines
         /\ m.kind = "batch" <=> m \in Batches
BY DEF Messages, Accepted, Baselines, Batches

\* What the projections send has the types of the messages.
LEMMA SamplesTyped ==
  ASSUME NEW at \in Places, NEW rev \in Revisions, NEW tick \in Ticks,
         NEW physics \in Physics \cup {None}
  PROVE  /\ visibleTo(at) \in SUBSET Players
         /\ View(at, rev, tick, physics) \in Views /\ View(at, rev, tick, physics) # None
         /\ View(at, rev, tick, physics).revision = rev
         /\ View(at, rev, tick, physics).tick = tick
         /\ View(at, rev, tick, physics).members = visibleTo(at)
         /\ View(at, rev, tick, physics).physics = physics
         /\ Baseline(at, rev, tick) \in Baselines /\ Baseline(at, rev, tick) # None
         /\ Baseline(at, rev, tick).revision = rev
         /\ Baseline(at, rev, tick).tick = tick
         /\ Baseline(at, rev, tick).members = visibleTo(at)
<1>1. visibleTo(at) \in SUBSET Players
  BY DEF visibleTo, Present
<1>2. View(at, rev, tick, physics) \in Views
  BY <1>1 DEF View, Views
<1>3. Baseline(at, rev, tick) \in Baselines
  BY <1>1 DEF Baseline, Baselines
<1> QED
  BY <1>1, <1>2, <1>3, NoneAssumption DEF View, Baseline

LEMMA BaselinesAreNoViews == Baselines \cap Views = {}
BY DEF Baselines, Views

\* A sample has a tick and, on a native server, the physics of Self.
LEMMA SampleFields ==
  ASSUME NEW tick \in Ticks, NEW physics \in Physics \cup {None}
  PROVE  /\ [tick |-> tick, physics |-> physics] \in Samples
         /\ [tick |-> tick, physics |-> physics].tick = tick
         /\ [tick |-> tick, physics |-> physics].physics = physics
BY DEF Samples

\* Self is in its own cell.
LEMMA SelfIsVisible ==
  ASSUME NEW at, Self \in Present(at)
  PROVE  Self \in visibleTo(at)
BY DEF visibleTo

\* The batch of projectInterestChanges().
Change(before, after, rev) ==
  [kind |-> "batch", revision |-> rev,
   enters |-> visibleTo(after) \ visibleTo(before),
   leaves |-> visibleTo(before) \ visibleTo(after)]

LEMMA ChangeTyped ==
  ASSUME NEW before \in Places, NEW after \in Places, NEW rev \in Revisions
  PROVE  /\ Change(before, after, rev) \in Batches
         /\ Change(before, after, rev).revision = rev
         /\ Change(before, after, rev).enters = visibleTo(after) \ visibleTo(before)
         /\ Change(before, after, rev).leaves = visibleTo(before) \ visibleTo(after)
<1>1. visibleTo(before) \in SUBSET Players /\ visibleTo(after) \in SUBSET Players
  BY DEF visibleTo, Present
<1>2. Change(before, after, rev) \in Batches
  BY <1>1 DEF Change, Batches
<1> QED
  BY <1>2 DEF Change

\* What projectInterestChanges() returns for a session that was known.
Projects(e, before, after, rev) ==
  \/ e = <<Change(before, after, rev)>>
  \/ e = <<>> /\ visibleTo(before) = visibleTo(after)

-----------------------------------------------------------------------------
(* The client. *)

LEMMA ClientFields ==
  ASSUME NEW c \in Clients
  PROVE  /\ c.state \in {"Offline", "Authenticating", "Established", "Refused"}
         /\ c.baseline = None \/ c.baseline \in Baselines
         /\ c.batch = None \/ c.batch \in Batches
         /\ c.snapshot = None \/ c.snapshot \in Views
         /\ c.observed \in SUBSET Players
         /\ c.resync \in BOOLEAN /\ c.seen \in BOOLEAN
BY Zenon DEF Clients

LEMMA FixedClients ==
  /\ Offline \in Clients /\ NewClient \in Clients /\ Refused \in Clients
  /\ Refused.state = "Refused" /\ Refused.baseline = None /\ Refused.batch = None
  /\ Refused.snapshot = None /\ Refused.observed = {}
  /\ NewClient.state = "Authenticating" /\ NewClient.baseline = None
  /\ NewClient.batch = None /\ NewClient.snapshot = None /\ NewClient.observed = {}
  /\ Offline.state = "Offline" /\ Offline.baseline = None /\ Offline.batch = None
  /\ Offline.snapshot = None /\ Offline.observed = {}
BY DEF Offline, NewClient, Refused, Clients

\* Settled() ends a resync and touches nothing else.
LEMMA SettledKeeps ==
  ASSUME NEW c \in Clients
  PROVE  /\ Settled(c) \in Clients
         /\ Settled(c).state = c.state /\ Settled(c).baseline = c.baseline
         /\ Settled(c).batch = c.batch /\ Settled(c).snapshot = c.snapshot
         /\ Settled(c).observed = c.observed
<1> DEFINE d == [c EXCEPT !.resync = FALSE, !.seen = FALSE]
<1>1. /\ d \in Clients
      /\ d.state = c.state /\ d.baseline = c.baseline
      /\ d.batch = c.batch /\ d.snapshot = c.snapshot /\ d.observed = c.observed
  BY DEF Clients
<1>2. Settled(c) = d \/ Settled(c) = c
  BY Zenon DEF Settled
<1> QED
  BY <1>1, <1>2

\* c and d differ at most in what they know of a resync.
Same(c, d) ==
  /\ d.state = c.state /\ d.baseline = c.baseline /\ d.batch = c.batch
  /\ d.snapshot = c.snapshot /\ d.observed = c.observed

\* A baseline: refused, the one the client has, or a later one.
LEMMA BaselineTaken ==
  ASSUME NEW c \in Clients, NEW b \in Baselines
  PROVE  LET d == receiveReliableInterestBaseline(c, b)
         IN  /\ d \in Clients
             /\ \/ /\ d = Refused
                   /\ c.baseline # None
                   /\ b.revision < c.baseline.revision
                        \/ (b.revision = c.baseline.revision /\ b # c.baseline)
                \/ c.baseline = b /\ Same(c, d)
                \/ /\ c.baseline # None => c.baseline.revision < b.revision
                   /\ d.state = c.state /\ d.baseline = b /\ d.batch = None
                   /\ d.snapshot = c.snapshot /\ d.observed = b.members
<1> DEFINE d == receiveReliableInterestBaseline(c, b)
           same == [c EXCEPT !.seen = c.resync]
           later == [c EXCEPT !.baseline = b, !.observed = b.members, !.batch = None,
                              !.seen = c.resync]
           older == c.baseline # None /\ b.revision < c.baseline.revision
           equal == c.baseline # None /\ b.revision = c.baseline.revision
<1>1. same \in Clients /\ Same(c, same)
  BY DEF Clients, Same
<1>2. /\ later \in Clients
      /\ later.state = c.state /\ later.baseline = b /\ later.batch = None
      /\ later.snapshot = c.snapshot /\ later.observed = b.members
  <2>1. b.members \in SUBSET Players
    BY DEF Baselines
  <2> QED
    BY <2>1 DEF Clients
<1>3. d = IF older THEN Refused
          ELSE IF equal THEN IF b = c.baseline THEN same ELSE Refused
          ELSE later
  BY Zenon DEF receiveReliableInterestBaseline
<1>4. ~older /\ ~equal /\ c.baseline # None => c.baseline.revision < b.revision
  BY ClientFields DEF Baselines
<1> HIDE DEF d, same, later, older, equal
<1>5. CASE older
  BY <1>3, <1>5, FixedClients DEF d, older
<1>6. CASE ~older /\ equal /\ b = c.baseline
  BY <1>1, <1>3, <1>6 DEF d
<1>7. CASE ~older /\ equal /\ b # c.baseline
  BY <1>3, <1>7, FixedClients DEF d, equal
<1>8. CASE ~older /\ ~equal
  BY <1>2, <1>3, <1>4, <1>8 DEF d
<1> QED
  BY <1>5, <1>6, <1>7, <1>8

\* A batch: refused, the one the client has, or a later one.
LEMMA BatchTaken ==
  ASSUME NEW c \in Clients, NEW b \in Batches
  PROVE  LET d == receiveReliableObservationBatch(c, b)
         IN  /\ d \in Clients
             /\ \/ /\ d = Refused
                   /\ \/ c.baseline = None
                      \/ c.batch # None /\ b.revision <= c.batch.revision
                      \/ b.enters \cap c.observed # {}
                      \/ ~(b.leaves \subseteq c.observed)
                \/ c.batch = b /\ d = c
                \/ /\ c.baseline # None
                   /\ c.batch # None => c.batch.revision < b.revision
                   /\ d.state = c.state /\ d.baseline = c.baseline /\ d.batch = b
                   /\ d.snapshot = c.snapshot
                   /\ d.observed = (c.observed \cup b.enters) \ b.leaves
<1> DEFINE d == receiveReliableObservationBatch(c, b)
           later == [c EXCEPT !.observed = (c.observed \cup b.enters) \ b.leaves, !.batch = b]
           older == c.batch # None /\ b.revision < c.batch.revision
           equal == c.batch # None /\ b.revision = c.batch.revision
           clash == b.enters \cap c.observed # {} \/ ~(b.leaves \subseteq c.observed)
<1>1. /\ later \in Clients
      /\ later.state = c.state /\ later.baseline = c.baseline /\ later.batch = b
      /\ later.snapshot = c.snapshot
      /\ later.observed = (c.observed \cup b.enters) \ b.leaves
  <2>1. (c.observed \cup b.enters) \ b.leaves \in SUBSET Players
    BY ClientFields DEF Batches
  <2> QED
    BY <2>1 DEF Clients
<1>2. d = IF c.baseline = None THEN Refused
          ELSE IF older THEN Refused
          ELSE IF equal THEN IF b = c.batch THEN c ELSE Refused
          ELSE IF clash THEN Refused
          ELSE later
  BY Zenon DEF receiveReliableObservationBatch
<1>3. /\ ~older /\ ~equal /\ c.batch # None => c.batch.revision < b.revision
      /\ older \/ equal => b.revision <= c.batch.revision
  BY ClientFields DEF Batches
<1>4. older \/ equal => c.batch # None
  OBVIOUS
<1>5. clash => b.enters \cap c.observed # {} \/ ~(b.leaves \subseteq c.observed)
  OBVIOUS
<1> HIDE DEF d, later, older, equal, clash
<1>6. CASE c.baseline = None
  BY <1>2, <1>6, FixedClients DEF d
<1>7. CASE c.baseline # None /\ older
  BY <1>2, <1>3, <1>4, <1>7, FixedClients DEF d
<1>8. CASE c.baseline # None /\ ~older /\ equal
  BY <1>2, <1>3, <1>4, <1>8, FixedClients DEF d
<1>9. CASE c.baseline # None /\ ~older /\ ~equal /\ clash
  BY <1>2, <1>5, <1>9, FixedClients DEF d
<1>10. CASE c.baseline # None /\ ~older /\ ~equal /\ ~clash
  BY <1>1, <1>2, <1>3, <1>10 DEF d
<1> QED
  BY <1>6, <1>7, <1>8, <1>9, <1>10

\* A view: refused, ignored, or a later one.
LEMMA ViewTaken ==
  ASSUME NEW c \in Clients, NEW v \in Views
  PROVE  LET d == receiveLatestWinsSnapshot(c, v)
         IN  /\ d \in Clients
             /\ \/ /\ d = Refused
                   /\ \/ Self \notin v.members
                      \/ /\ c.snapshot # None
                         /\ v.revision = c.snapshot.revision /\ v # c.snapshot
                \/ c.snapshot # None /\ v.revision <= c.snapshot.revision /\ d = c
                \/ /\ d.state = c.state /\ d.baseline = c.baseline /\ d.batch = c.batch
                   /\ d.snapshot = v /\ d.observed = c.observed
                   /\ c.snapshot # None => c.snapshot.revision < v.revision
<1> DEFINE d == receiveLatestWinsSnapshot(c, v)
           later == [c EXCEPT !.snapshot = v]
           older == c.snapshot # None /\ v.revision < c.snapshot.revision
           equal == c.snapshot # None /\ v.revision = c.snapshot.revision
<1>1. /\ later \in Clients
      /\ later.state = c.state /\ later.baseline = c.baseline /\ later.batch = c.batch
      /\ later.snapshot = v /\ later.observed = c.observed
  BY DEF Clients
<1>2. d = IF Self \notin v.members THEN Refused
          ELSE IF older THEN c
          ELSE IF equal THEN IF v = c.snapshot THEN c ELSE Refused
          ELSE later
  BY Zenon DEF receiveLatestWinsSnapshot
<1>3. /\ ~older /\ ~equal /\ c.snapshot # None => c.snapshot.revision < v.revision
      /\ older \/ equal => v.revision <= c.snapshot.revision
  BY ClientFields DEF Views
<1>4. older \/ equal => c.snapshot # None
  OBVIOUS
<1>5. equal => v.revision = c.snapshot.revision
  OBVIOUS
<1> HIDE DEF d, later, older, equal
<1>6. CASE Self \notin v.members
  BY <1>2, <1>6, FixedClients DEF d
<1>7. CASE Self \in v.members /\ older
  BY <1>2, <1>3, <1>4, <1>7 DEF d
<1>8. CASE Self \in v.members /\ ~older /\ equal /\ v = c.snapshot
  BY <1>2, <1>3, <1>4, <1>8 DEF d
<1>9. CASE Self \in v.members /\ ~older /\ equal /\ v # c.snapshot
  BY <1>2, <1>4, <1>5, <1>9, FixedClients DEF d
<1>10. CASE Self \in v.members /\ ~older /\ ~equal
  BY <1>1, <1>2, <1>3, <1>10 DEF d
<1> QED
  BY <1>6, <1>7, <1>8, <1>9, <1>10

\* Why a client refuses a baseline or a batch.
BaselineClashes(c, b) ==
  /\ c.baseline # None
  /\ b.revision < c.baseline.revision \/ (b.revision = c.baseline.revision /\ b # c.baseline)

BatchClashes(c, b) ==
  \/ c.baseline = None
  \/ c.batch # None /\ b.revision <= c.batch.revision
  \/ b.enters \cap c.observed # {}
  \/ ~(b.leaves \subseteq c.observed)

\* How a client takes a baseline or a batch that it did not have.
TakesBaseline(c, b, d) ==
  /\ c.baseline # None => c.baseline.revision < b.revision
  /\ d.state = c.state /\ d.baseline = b /\ d.batch = None
  /\ d.snapshot = c.snapshot /\ d.observed = b.members

TakesBatch(c, b, d) ==
  /\ c.baseline # None
  /\ c.batch # None => c.batch.revision < b.revision
  /\ d.state = c.state /\ d.baseline = c.baseline /\ d.batch = b
  /\ d.snapshot = c.snapshot
  /\ d.observed = (c.observed \cup b.enters) \ b.leaves

TakesAnswer(c, d) ==
  /\ d.state = "Established" /\ d.baseline = c.baseline /\ d.batch = c.batch
  /\ d.snapshot = c.snapshot /\ d.observed = c.observed

\* One message of the reliable lane, and the client d that took it.
ReliableStep(c, m, d) ==
  \/ m \in Baselines /\ BaselineClashes(c, m) /\ d = Refused
  \/ m \in Batches /\ BatchClashes(c, m) /\ d = Refused
  \/ m \in Baselines /\ c.baseline = m /\ Same(c, d)
  \/ m \in Baselines /\ TakesBaseline(c, m, d)
  \/ m \in Batches /\ c.batch = m /\ Same(c, d)
  \/ m \in Batches /\ TakesBatch(c, m, d)
  \/ m = Accepted /\ TakesAnswer(c, d)

LEMMA ReliableTaken ==
  ASSUME NEW c \in Clients, NEW m \in Messages
  PROVE  /\ receiveReliable(c, m) \in Clients
         /\ c.state = "Refused" => receiveReliable(c, m) = c
         /\ c.state # "Refused" => ReliableStep(c, m, receiveReliable(c, m))
<1> DEFINE d == receiveReliable(c, m)
<1>1. CASE c.state = "Refused"
  BY <1>1 DEF receiveReliable
<1>2. CASE c.state # "Refused" /\ m.kind = "accepted"
  <2>1. d = [c EXCEPT !.state = "Established"]
    BY <1>2, Zenon DEF receiveReliable
  <2>2. d \in Clients /\ TakesAnswer(c, d)
    BY <2>1 DEF Clients, TakesAnswer
  <2>3. m = Accepted
    BY <1>2, MessageKinds
  <2> QED
    BY <1>2, <2>2, <2>3 DEF ReliableStep
<1>3. CASE c.state # "Refused" /\ m.kind = "baseline"
  <2> DEFINE e == receiveReliableInterestBaseline(c, m)
  <2>1. m \in Baselines
    BY <1>3, MessageKinds
  <2>2. d = Settled(e)
    BY <1>3 DEF receiveReliable
  <2>3. e \in Clients
    BY <2>1, BaselineTaken
  <2>4. \/ e = Refused /\ BaselineClashes(c, m)
        \/ c.baseline = m /\ Same(c, e)
        \/ TakesBaseline(c, m, e)
    BY <2>1, BaselineTaken DEF BaselineClashes, TakesBaseline
  <2> HIDE DEF e
  <2>5. d \in Clients /\ Same(e, d)
    BY <2>2, <2>3, SettledKeeps DEF Same
  <2>6. e = Refused => d = Refused
    <3>1. Refused.resync = FALSE
      BY DEF Refused, Offline
    <3> QED
      BY <2>2, <3>1, Zenon DEF Settled
  <2>7. Same(c, e) => Same(c, d)
    BY <2>5 DEF Same
  <2>8. TakesBaseline(c, m, e) => TakesBaseline(c, m, d)
    BY <2>5 DEF Same, TakesBaseline
  <2> QED
    BY <1>3, <2>1, <2>4, <2>5, <2>6, <2>7, <2>8, Zenon DEF ReliableStep
<1>4. CASE c.state # "Refused" /\ m.kind = "batch"
  <2>1. m \in Batches
    BY <1>4, MessageKinds
  <2>2. d = receiveReliableObservationBatch(c, m)
    BY <1>4 DEF receiveReliable
  <2>3. d \in Clients
    BY <2>1, <2>2, BatchTaken
  <2>4. \/ d = Refused /\ BatchClashes(c, m)
        \/ c.batch = m /\ d = c
        \/ TakesBatch(c, m, d)
    BY <2>1, <2>2, BatchTaken DEF BatchClashes, TakesBatch
  <2>5. d = c => Same(c, d)
    BY DEF Same
  <2> QED
    BY <1>4, <2>1, <2>3, <2>4, <2>5, Zenon DEF ReliableStep
<1> QED
  BY <1>1, <1>2, <1>3, <1>4, MessageKinds

-----------------------------------------------------------------------------
(* The reliable lane. *)

Held(x) == IF x = None THEN {} ELSE {x}

\* n may come after m: a baseline is not older, a batch is later.
Follows(m, n) ==
  /\ n.kind = "baseline" => m.revision <= n.revision
  /\ n.kind = "batch" => m.revision < n.revision

\* What is on the lane s comes after what the client c has taken, in its order.
Ordered(c, s) ==
  /\ \A m \in Held(c.baseline) \cup Held(c.batch), i \in DOMAIN s : Follows(m, s[i])
  /\ \A i, j \in DOMAIN s : i < j /\ s[i].kind # "accepted" => Follows(s[i], s[j])
  /\ c.baseline # None /\ c.batch # None => c.baseline.revision < c.batch.revision

\* There is a baseline, before the batches that start from it.
Led(c, s) ==
  /\ c.baseline # None \/ \E i \in DOMAIN s : s[i].kind = "baseline"
  /\ \A i \in DOMAIN s :
       s[i].kind = "batch" => c.baseline # None \/ \E j \in 1 .. i - 1 : s[j].kind = "baseline"
  /\ c.baseline # None /\ c.batch = None => c.observed = c.baseline.members

\* The players observed before and after a message.
Observes(m, old, new) ==
  /\ m.kind = "accepted" => new = old
  /\ m.kind = "baseline" => new = m.members
  /\ m.kind = "batch" =>
       /\ m.enters \cap old = {} /\ m.leaves \subseteq old
       /\ new = (old \cup m.enters) \ m.leaves

\* The players observed along the lane.
IsPath(path, c, s) ==
  /\ path \in [0 .. Len(s) -> SUBSET Players]
  /\ path[0] = c.observed
  /\ \A i \in DOMAIN s : Observes(s[i], path[i - 1], path[i])

Leads(c, s, target) == \E path : IsPath(path, c, s) /\ path[Len(s)] = target

\* The client c can take the lane s, and observes the target in the end.
Fits(c, s, target) == Ordered(c, s) /\ Led(c, s) /\ Leads(c, s, target)

LEMMA HeadAndTail ==
  ASSUME NEW s \in Seq(Messages), s # <<>>
  PROVE  /\ Head(s) \in Messages /\ Tail(s) \in Seq(Messages)
         /\ Len(s) \in Nat \ {0} /\ Len(Tail(s)) = Len(s) - 1
         /\ DOMAIN s = 1 .. Len(s) /\ DOMAIN Tail(s) = 1 .. Len(s) - 1
         /\ Head(s) = s[1]
         /\ \A i \in DOMAIN Tail(s) : Tail(s)[i] = s[i + 1] /\ i + 1 \in DOMAIN s
OBVIOUS

\* A client that the lane fits takes the next message, or there are two
\* baselines of one revision.
LEMMA FitsOn ==
  ASSUME NEW c \in Clients, NEW s \in Seq(Messages), NEW target, NEW d \in Clients,
         s # <<>>, c.state # "Refused", Fits(c, s, target), ReliableStep(c, Head(s), d)
  PROVE  /\ d.state = "Refused" =>
              /\ Head(s) \in Baselines /\ c.baseline # None
              /\ Head(s).revision = c.baseline.revision /\ Head(s) # c.baseline
         /\ d.state # "Refused" => Fits(d, Tail(s), target)
<1> DEFINE h == Head(s)
           t == Tail(s)
<1>1. /\ h \in Messages /\ t \in Seq(Messages)
      /\ Len(s) \in Nat \ {0} /\ Len(t) = Len(s) - 1
      /\ DOMAIN s = 1 .. Len(s) /\ DOMAIN t = 1 .. Len(s) - 1
      /\ h = s[1] /\ 1 \in DOMAIN s
      /\ \A i \in DOMAIN t : t[i] = s[i + 1] /\ i + 1 \in DOMAIN s
  BY HeadAndTail
<1>2. PICK path : IsPath(path, c, s) /\ path[Len(s)] = target
  BY DEF Fits, Leads
<1> HIDE DEF h, t
<1>3. Ordered(c, s) /\ Led(c, s)
  BY DEF Fits
<1>4. Observes(h, c.observed, path[1])
  <2>1. path[1 - 1] = c.observed /\ Observes(s[1], path[1 - 1], path[1])
    BY <1>1, <1>2 DEF IsPath
  <2> QED
    BY <1>1, <2>1
<1>5. /\ h \in Baselines <=> h.kind = "baseline"
      /\ h \in Batches <=> h.kind = "batch"
      /\ h = Accepted <=> h.kind = "accepted"
  BY <1>1, MessageKinds
<1>6. /\ c.baseline # None => Follows(c.baseline, h)
      /\ c.batch # None => Follows(c.batch, h)
  BY <1>1, <1>3 DEF Ordered, Held
<1>7. h \in Batches => c.baseline # None
  BY <1>1, <1>3, <1>5 DEF Led
<1>8. /\ c.baseline # None => c.baseline \in Baselines /\ c.baseline.revision \in Nat
      /\ c.batch # None => c.batch \in Batches /\ c.batch.revision \in Nat
      /\ h \in Baselines \cup Batches => h.revision \in Nat
      /\ c.observed \in SUBSET Players
  BY ClientFields DEF Baselines, Batches
<1>9. ~(h \in Batches /\ BatchClashes(c, h))
  BY <1>4, <1>5, <1>6, <1>7, <1>8 DEF BatchClashes, Follows, Observes
<1>10. ~(h \in Batches /\ c.batch = h)
  BY <1>5, <1>6, <1>8, NoneAssumption DEF Follows
<1>11. h \in Baselines /\ BaselineClashes(c, h) =>
         h.revision = c.baseline.revision /\ h # c.baseline /\ c.baseline # None
  BY <1>5, <1>6, <1>8 DEF BaselineClashes, Follows
<1>12. \/ h \in Baselines /\ BaselineClashes(c, h) /\ d = Refused
       \/ h \in Baselines /\ c.baseline = h /\ Same(c, d)
       \/ h \in Baselines /\ TakesBaseline(c, h, d)
       \/ h \in Batches /\ TakesBatch(c, h, d)
       \/ h = Accepted /\ TakesAnswer(c, d)
  BY <1>9, <1>10 DEF ReliableStep, h
<1>13. CASE h \in Baselines /\ BaselineClashes(c, h) /\ d = Refused
  BY <1>11, <1>13, FixedClients DEF h
<1>14. ASSUME ~(h \in Baselines /\ BaselineClashes(c, h) /\ d = Refused)
       PROVE  d.state # "Refused" /\ Fits(d, t, target)
  <2>1. d.state # "Refused"
    BY <1>12, <1>14 DEF Same, TakesBaseline, TakesBatch, TakesAnswer
  <2>2. /\ d.baseline = c.baseline \/ (d.baseline = h /\ h \in Baselines)
        /\ d.batch = c.batch \/ d.batch = None \/ (d.batch = h /\ h \in Batches)
    BY <1>12, <1>14 DEF Same, TakesBaseline, TakesBatch, TakesAnswer
  <2>3. d.baseline # None /\ d.batch # None => d.baseline.revision < d.batch.revision
    <3>1. CASE h \in Batches /\ TakesBatch(c, h, d)
      BY <3>1, <1>5, <1>6 DEF TakesBatch, Follows
    <3>2. CASE d.batch = None \/ (d.batch = c.batch /\ d.baseline = c.baseline)
      BY <3>2, <1>3 DEF Ordered
    <3> QED
      BY <1>12, <1>14, <3>1, <3>2 DEF Same, TakesBaseline, TakesAnswer
  <2>4. Ordered(d, t)
    <3>1. ASSUME NEW m \in Held(d.baseline) \cup Held(d.batch), NEW i \in DOMAIN t
          PROVE  Follows(m, t[i])
      <4>1. t[i] = s[i + 1] /\ i + 1 \in DOMAIN s /\ 1 < i + 1
        BY <1>1
      <4>2. CASE m \in Held(c.baseline) \cup Held(c.batch)
        BY <4>1, <4>2, <1>3 DEF Ordered
      <4>3. CASE m = h /\ h \in Baselines \cup Batches
        BY <4>1, <4>3, <1>1, <1>3, <1>5 DEF Ordered
      <4> QED
        BY <2>2, <4>2, <4>3 DEF Held
    <3>2. ASSUME NEW i \in DOMAIN t, NEW j \in DOMAIN t, i < j, t[i].kind # "accepted"
          PROVE  Follows(t[i], t[j])
      BY <3>2, <1>1, <1>3 DEF Ordered
    <3> QED
      BY <2>3, <3>1, <3>2 DEF Ordered
  <2>5. Led(d, t)
    <3>1. ASSUME NEW i \in DOMAIN t, t[i].kind = "batch", d.baseline = None
          PROVE  \E j \in 1 .. i - 1 : t[j].kind = "baseline"
      <4>1. c.baseline = None /\ h \notin Baselines
        BY <3>1, <1>5, <1>8, <1>12, <1>14, NoneAssumption
        DEF Same, TakesBaseline, TakesBatch, TakesAnswer
      <4>2. PICK j \in 1 .. i : s[j].kind = "baseline"
        BY <3>1, <4>1, <1>1, <1>3 DEF Led
      <4>3. j # 1
        BY <4>1, <4>2, <1>1, <1>5
      <4>4. j - 1 \in 1 .. i - 1 /\ j - 1 \in DOMAIN t /\ (j - 1) + 1 = j
        BY <4>3, <1>1
      <4>5. t[j - 1] = s[j]
        BY <4>4, <1>1
      <4> QED
        BY <4>2, <4>4, <4>5
    <3>2. ASSUME d.baseline # None, d.batch = None
          PROVE  d.observed = d.baseline.members
      BY <3>2, <1>3, <1>12, <1>14, NoneAssumption
      DEF Led, Same, TakesBaseline, TakesBatch, TakesAnswer
    <3>3. ASSUME d.baseline = None
          PROVE  \E i \in DOMAIN t : t[i].kind = "baseline"
      <4>1. c.baseline = None /\ h \notin Baselines
        BY <3>3, <1>5, <1>8, <1>12, <1>14, NoneAssumption
        DEF Same, TakesBaseline, TakesBatch, TakesAnswer
      <4>2. PICK j \in DOMAIN s : s[j].kind = "baseline"
        BY <4>1, <1>3 DEF Led
      <4>3. j # 1
        BY <4>1, <4>2, <1>1, <1>5
      <4>4. j - 1 \in DOMAIN t /\ (j - 1) + 1 = j
        BY <4>3, <1>1
      <4>5. t[j - 1] = s[j]
        BY <4>4, <1>1
      <4> QED
        BY <4>2, <4>4, <4>5
    <3> QED
      BY <3>1, <3>2, <3>3 DEF Led
  <2>6. path[1] = d.observed
    <3>1. CASE h \in Baselines /\ c.baseline = h /\ Same(c, d)
      <4>1. c.batch = None
        BY <3>1, <1>3, <1>5, <1>6, <1>8, NoneAssumption DEF Ordered, Follows
      <4>2. c.observed = h.members
        BY <3>1, <4>1, <1>3, NoneAssumption DEF Led
      <4> QED
        BY <3>1, <4>2, <1>4, <1>5 DEF Observes, Same
    <3>2. CASE h \in Baselines /\ TakesBaseline(c, h, d)
      BY <3>2, <1>4, <1>5 DEF Observes, TakesBaseline
    <3>3. CASE h \in Batches /\ TakesBatch(c, h, d)
      BY <3>3, <1>4, <1>5 DEF Observes, TakesBatch
    <3>4. CASE h = Accepted /\ TakesAnswer(c, d)
      BY <3>4, <1>4, <1>5 DEF Observes, TakesAnswer
    <3> QED
      BY <1>12, <1>14, <3>1, <3>2, <3>3, <3>4
  <2>7. Leads(d, t, target)
    <3> DEFINE rest == [i \in 0 .. Len(t) |-> path[i + 1]]
    <3>1. rest \in [0 .. Len(t) -> SUBSET Players]
      BY <1>1, <1>2 DEF IsPath
    <3>2. rest[0] = d.observed
      BY <2>6, <1>1
    <3>3. rest[Len(t)] = target
      BY <1>1, <1>2
    <3>4. ASSUME NEW i \in DOMAIN t
          PROVE  Observes(t[i], rest[i - 1], rest[i])
      <4>1. rest[i - 1] = path[i] /\ rest[i] = path[i + 1]
        BY <1>1
      <4>2. Observes(s[i + 1], path[(i + 1) - 1], path[i + 1])
        BY <1>1, <1>2 DEF IsPath
      <4>3. (i + 1) - 1 = i
        BY <1>1
      <4> QED
        BY <4>1, <4>2, <4>3, <1>1
    <3> QED
      BY <3>1, <3>2, <3>3, <3>4 DEF Leads, IsPath
  <2> QED
    BY <2>1, <2>4, <2>5, <2>7 DEF Fits
<1> QED
  BY <1>13, <1>14, FixedClients DEF t

LEMMA Successor ==
  ASSUME NEW n \in Nat
  PROVE  (n + 1) - 1 = n /\ n # n + 1 /\ n \in 0 .. n + 1 /\ n + 1 \in 0 .. n + 1
OBVIOUS

\* A message put on the lane after what is there.
LEMMA FitsMore ==
  ASSUME NEW c \in Clients, NEW s \in Seq(Messages), NEW old, NEW m \in Messages,
         NEW target \in SUBSET Players, Fits(c, s, old), m.kind # "accepted",
         \A n \in Held(c.baseline) \cup Held(c.batch) : Follows(n, m),
         \A i \in DOMAIN s : s[i].kind # "accepted" => Follows(s[i], m),
         Observes(m, old, target)
  PROVE  Fits(c, Append(s, m), target)
<1> DEFINE t == Append(s, m)
<1>1. /\ Len(s) \in Nat /\ Len(t) = Len(s) + 1
      /\ DOMAIN s = 1 .. Len(s) /\ DOMAIN t = 1 .. Len(s) + 1
      /\ t[Len(s) + 1] = m /\ \A i \in DOMAIN s : t[i] = s[i] /\ i \in DOMAIN t
  OBVIOUS
<1>2. \A i \in DOMAIN t : i \in DOMAIN s \/ i = Len(s) + 1
  BY <1>1
<1> HIDE DEF t
<1>3. Ordered(c, s) /\ Led(c, s)
  BY DEF Fits
<1>4. PICK path : IsPath(path, c, s) /\ path[Len(s)] = old
  BY DEF Fits, Leads
<1>5. Ordered(c, t)
  <2>1. ASSUME NEW n \in Held(c.baseline) \cup Held(c.batch), NEW i \in DOMAIN t
        PROVE  Follows(n, t[i])
    BY <1>1, <1>2, <1>3 DEF Ordered
  <2>2. ASSUME NEW i \in DOMAIN t, NEW j \in DOMAIN t, i < j, t[i].kind # "accepted"
        PROVE  Follows(t[i], t[j])
    <3>1. i \in DOMAIN s
      BY <2>2, <1>1
    <3>2. CASE j \in DOMAIN s
      BY <2>2, <3>1, <3>2, <1>1, <1>3 DEF Ordered
    <3>3. CASE j = Len(s) + 1
      BY <2>2, <3>1, <3>3, <1>1
    <3> QED
      BY <3>2, <3>3, <1>2
  <2> QED
    BY <2>1, <2>2, <1>3 DEF Ordered
<1>6. Led(c, t)
  <2>1. ASSUME NEW i \in DOMAIN t, t[i].kind = "batch", c.baseline = None
        PROVE  \E j \in 1 .. i - 1 : t[j].kind = "baseline"
    <3>1. CASE i \in DOMAIN s
      <4>1. PICK j \in 1 .. i - 1 : s[j].kind = "baseline"
        BY <2>1, <3>1, <1>1, <1>3 DEF Led
      <4>2. j \in DOMAIN s
        BY <3>1, <1>1
      <4> QED
        BY <4>1, <4>2, <1>1
    <3>2. CASE i = Len(s) + 1
      <4>1. PICK j \in DOMAIN s : s[j].kind = "baseline"
        BY <2>1, <1>3 DEF Led
      <4> QED
        BY <4>1, <3>2, <1>1
    <3> QED
      BY <3>1, <3>2, <1>2
  <2>2. c.baseline # None \/ \E i \in DOMAIN t : t[i].kind = "baseline"
    BY <1>1, <1>3 DEF Led
  <2> QED
    BY <2>1, <2>2, <1>3 DEF Led
<1>7. Leads(c, t, target)
  <2> DEFINE more == [i \in 0 .. Len(t) |-> IF i = Len(s) + 1 THEN target ELSE path[i]]
  <2>1. more \in [0 .. Len(t) -> SUBSET Players]
    BY <1>1, <1>4 DEF IsPath
  <2>2. more[0] = c.observed /\ more[Len(t)] = target
    BY <1>1, <1>4 DEF IsPath
  <2>3. ASSUME NEW i \in DOMAIN t
        PROVE  Observes(t[i], more[i - 1], more[i])
    <3>1. CASE i \in DOMAIN s
      <4>1. more[i - 1] = path[i - 1] /\ more[i] = path[i]
        BY <3>1, <1>1
      <4> QED
        BY <3>1, <4>1, <1>1, <1>4 DEF IsPath
    <3>2. CASE i = Len(s) + 1
      <4> HIDE DEF more
      <4>1. /\ (Len(s) + 1) - 1 = Len(s) /\ Len(s) # Len(s) + 1
            /\ Len(s) \in 0 .. Len(t) /\ Len(s) + 1 \in 0 .. Len(t)
        <5>1. Len(s) \in Nat /\ Len(t) = Len(s) + 1
          BY <1>1
        <5> QED
          BY <5>1, Successor, Zenon
      <4>2. more[i - 1] = path[Len(s)] /\ more[i] = target
        BY <3>2, <4>1 DEF more
      <4> QED
        BY <3>2, <4>2, <1>1, <1>4
    <3> QED
      BY <3>1, <3>2, <1>2
  <2> QED
    BY <2>1, <2>2, <2>3 DEF Leads, IsPath
<1> QED
  BY <1>5, <1>6, <1>7 DEF Fits, t

-----------------------------------------------------------------------------
(* What a client makes of the whole lane. *)

\* Induction, for a set of natural numbers.
LEMMA Induct ==
  ASSUME NEW T, 0 \in T, \A n \in Nat : n \in T => n + 1 \in T
  PROVE  \A n \in Nat : n \in T
<1> SUFFICES ASSUME NEW m \in Nat, m \notin T
             PROVE  FALSE
  OBVIOUS
<1> DEFINE Less == {ss \in Nat \X Nat : ss[1] < ss[2]}
           S == Nat \ T
<1>1. IsWellFoundedOn(Less, Nat)
  BY NatLessThanWellFounded, Zenon DEF OpToRel
<1>2. S \subseteq Nat /\ S # {}
  OBVIOUS
<1> HIDE DEF Less, S
<1>3. PICK x \in S : \A y \in S : <<y, x>> \notin Less
  BY <1>1, <1>2, WFMin
<1>4. x \in Nat /\ x \notin T /\ x # 0
  BY <1>3 DEF S
<1>5. x - 1 \in Nat /\ (x - 1) + 1 = x /\ x - 1 < x
  BY <1>4
<1>6. x - 1 \notin T
  BY <1>4, <1>5
<1>7. x - 1 \in S
  BY <1>5, <1>6 DEF S
<1>8. <<x - 1, x>> \in Less
  BY <1>4, <1>5, Zenon DEF Less
<1> QED
  BY <1>3, <1>7, <1>8

\* The function that FoldLeft() defines, on the first k messages.
Iterates(f, c, s, k) ==
  f = [t \in SUBSET (1 .. k) |->
         IF t = {} THEN c ELSE receiveReliable(f[t \ {Max(t)}], s[Max(t)])]

LEMMA FoldIterates ==
  ASSUME NEW c, NEW s \in Seq(Messages)
  PROVE  FoldLeft(receiveReliable, c, s)
           = (CHOOSE f : Iterates(f, c, s, Len(s)))[1 .. Len(s)]
<1>1. DOMAIN s = 1 .. Len(s)
  OBVIOUS
<1>2. FoldLeft(receiveReliable, c, s)
        = (CHOOSE f : f = [t \in SUBSET (DOMAIN s) |->
             IF t = {} THEN c ELSE receiveReliable(f[t \ {Max(t)}], s[Max(t)])])[DOMAIN s]
  BY DEF FoldLeft, MapThenFoldSet
<1> QED
  BY <1>1, <1>2, Zenon DEF Iterates

LEMMA MaxOfRange ==
  ASSUME NEW k \in Nat, NEW t \in SUBSET (1 .. k + 1), k + 1 \in t
  PROVE  Max(t) = k + 1
<1>1. \A y \in t : k + 1 >= y
  OBVIOUS
<1>2. \A x \in t : (\A y \in t : x >= y) => x = k + 1
  OBVIOUS
<1> QED
  BY <1>1, <1>2 DEF Max

LEMMA RangePrefix ==
  ASSUME NEW n \in Nat, NEW i \in 1 .. n
  PROVE  /\ 1 .. i \in SUBSET (1 .. n) /\ 1 .. i # {}
         /\ (1 .. i) \ {i} = 1 .. i - 1
         /\ i \in 0 .. n /\ i - 1 \in 0 .. n
<1>1. i \in Nat /\ 1 <= i /\ i <= n
  OBVIOUS
<1>2. 1 .. i \in SUBSET (1 .. n)
  BY <1>1
<1>3. i \in 1 .. i
  BY <1>1
<1>4. \A x : x \in (1 .. i) \ {i} <=> x \in 1 .. i - 1
  BY <1>1
<1>5. i \in 0 .. n /\ i - 1 \in 0 .. n
  BY <1>1
<1> QED
  BY <1>2, <1>3, <1>4, <1>5

LEMMA IterateMore ==
  ASSUME NEW c, NEW s, NEW k \in Nat, NEW f, Iterates(f, c, s, k)
  PROVE  \E g : Iterates(g, c, s, k + 1)
<1> DEFINE g == [t \in SUBSET (1 .. k + 1) |->
                   IF k + 1 \in t THEN receiveReliable(f[t \ {k + 1}], s[k + 1]) ELSE f[t]]
           step(h, t) == IF t = {} THEN c ELSE receiveReliable(h[t \ {Max(t)}], s[Max(t)])
<1>1. \A t \in SUBSET (1 .. k + 1) :
        /\ k + 1 \in t => t \ {k + 1} \in SUBSET (1 .. k)
        /\ k + 1 \notin t => t \in SUBSET (1 .. k)
  OBVIOUS
<1>2. \A t \in SUBSET (1 .. k) : t \in SUBSET (1 .. k + 1) /\ k + 1 \notin t
  OBVIOUS
<1>3. \A t \in SUBSET (1 .. k) : f[t] = step(f, t)
  BY Zenon DEF Iterates
<1>4. \A t \in SUBSET (1 .. k) : g[t] = f[t]
  BY <1>2
<1>5. ASSUME NEW t \in SUBSET (1 .. k + 1)
      PROVE  g[t] = step(g, t)
  <2>1. CASE k + 1 \in t
    <3>1. Max(t) = k + 1
      BY <2>1, MaxOfRange
    <3>2. g[t \ {k + 1}] = f[t \ {k + 1}]
      BY <2>1, <1>1, <1>4, Zenon
    <3>3. g[t] = receiveReliable(f[t \ {k + 1}], s[k + 1])
      BY <2>1, Zenon
    <3> HIDE DEF g
    <3> QED
      BY <2>1, <3>1, <3>2, <3>3, Zenon
  <2>2. CASE k + 1 \notin t
    <3>1. t \in SUBSET (1 .. k)
      BY <2>2, <1>1, Zenon
    <3>2. t \ {Max(t)} \in SUBSET (1 .. k)
      BY <3>1, Zenon
    <3>3. g[t] = f[t] /\ g[t \ {Max(t)}] = f[t \ {Max(t)}]
      BY <3>1, <3>2, <1>4, Zenon
    <3> HIDE DEF g
    <3> QED
      BY <3>1, <3>3, <1>3, Zenon
  <2> QED
    BY <2>1, <2>2
<1>6. g = [t \in SUBSET (1 .. k + 1) |-> step(g, t)]
  <2>1. g = [t \in SUBSET (1 .. k + 1) |-> g[t]]
    BY Zenon
  <2> HIDE DEF g
  <2> QED
    BY <2>1, <1>5, Zenon
<1>7. Iterates(g, c, s, k + 1)
  <2> HIDE DEF g
  <2> QED
    BY <1>6, Zenon DEF Iterates
<1> QED
  BY <1>7

LEMMA FoldExists ==
  ASSUME NEW c, NEW s \in Seq(Messages)
  PROVE  \E f : Iterates(f, c, s, Len(s))
<1> DEFINE T == {k \in Nat : \E f : Iterates(f, c, s, k)}
<1>1. 0 \in T
  <2> DEFINE f == [t \in SUBSET (1 .. 0) |-> c]
  <2>1. \A t \in SUBSET (1 .. 0) : t = {}
    OBVIOUS
  <2>2. Iterates(f, c, s, 0)
    BY <2>1, Zenon DEF Iterates
  <2> QED
    BY <2>2
<1>2. ASSUME NEW k \in Nat, k \in T PROVE k + 1 \in T
  BY <1>2, IterateMore
<1> HIDE DEF T
<1>3. Len(s) \in T
  BY <1>1, <1>2, Induct
<1> QED
  BY <1>3 DEF T

\* The clients along the lane, up to the one that FoldLeft() returns.
IsRun(run, c, s) ==
  /\ run[0] = c
  /\ \A i \in 1 .. Len(s) : run[i] = receiveReliable(run[i - 1], s[i])

LEMMA FoldRuns ==
  ASSUME NEW c, NEW s \in Seq(Messages)
  PROVE  \E run : IsRun(run, c, s) /\ run[Len(s)] = FoldLeft(receiveReliable, c, s)
<1> DEFINE f == CHOOSE g : Iterates(g, c, s, Len(s))
           run == [i \in 0 .. Len(s) |-> f[1 .. i]]
<1>1. Iterates(f, c, s, Len(s))
  BY FoldExists, Zenon
<1>2. FoldLeft(receiveReliable, c, s) = f[1 .. Len(s)]
  BY FoldIterates
<1> HIDE DEF f
<1>3. Len(s) \in Nat
  OBVIOUS
<1>4. \A t \in SUBSET (1 .. Len(s)) :
        f[t] = IF t = {} THEN c ELSE receiveReliable(f[t \ {Max(t)}], s[Max(t)])
  BY <1>1, Zenon DEF Iterates
<1>5. run[0] = c
  <2>1. 1 .. 0 = {} /\ 0 \in 0 .. Len(s)
    BY <1>3
  <2> QED
    BY <2>1, <1>4
<1>6. ASSUME NEW i \in 1 .. Len(s)
      PROVE  run[i] = receiveReliable(run[i - 1], s[i])
  <2>1. /\ 1 .. i \in SUBSET (1 .. Len(s)) /\ 1 .. i # {}
        /\ (1 .. i) \ {i} = 1 .. i - 1
        /\ i \in 0 .. Len(s) /\ i - 1 \in 0 .. Len(s)
    BY <1>3, RangePrefix
  <2>2. Max(1 .. i) = i
    <3>1. i - 1 \in Nat /\ (i - 1) + 1 = i /\ i \in 1 .. i
      BY <1>3
    <3> QED
      BY <3>1, MaxOfRange
  <2>3. f[1 .. i] = receiveReliable(f[1 .. i - 1], s[i])
    BY <2>1, <2>2, <1>4
  <2> QED
    BY <2>1, <2>3
<1>7. run[Len(s)] = f[1 .. Len(s)]
  BY <1>3
<1> HIDE DEF run
<1> QED
  BY <1>2, <1>5, <1>6, <1>7 DEF IsRun

\* The messages that are left after the first i.
Rest(s, i) == [j \in 1 .. Len(s) - i |-> s[j + i]]

LEMMA RestOfLane ==
  ASSUME NEW s \in Seq(Messages), NEW i \in Nat, i < Len(s)
  PROVE  /\ Rest(s, i) \in Seq(Messages) /\ Rest(s, i) # <<>>
         /\ Head(Rest(s, i)) = s[i + 1] /\ Tail(Rest(s, i)) = Rest(s, i + 1)
<1> DEFINE r == Rest(s, i)
<1>1. PICK n \in Nat : n = Len(s) /\ DOMAIN s = 1 .. n
  OBVIOUS
<1>2. /\ r = [j \in 1 .. n - i |-> s[j + i]]
      /\ Rest(s, i + 1) = [j \in 1 .. n - (i + 1) |-> s[j + (i + 1)]]
  BY <1>1, Zenon DEF Rest
<1>3. i < n
  BY <1>1
<1>4. \A j \in 1 .. n : s[j] \in Messages
  BY <1>1
<1> HIDE <1>1
<1>5. /\ n - i \in Nat \ {0} /\ 1 \in 1 .. n - i /\ 1 + i = i + 1
      /\ (n - i) - 1 = n - (i + 1)
      /\ \A j \in 1 .. n - i : j + i \in 1 .. n
      /\ \A j \in 1 .. n - (i + 1) : j + 1 \in 1 .. n - i /\ (j + 1) + i = j + (i + 1)
  BY <1>3
<1>6. \A j \in 1 .. n - i : r[j] = s[j + i] /\ r[j] \in Messages
  BY <1>2, <1>4, <1>5, Zenon
<1> HIDE DEF r
<1>7. r \in Seq(Messages) /\ Len(r) = n - i
  BY <1>2, <1>5, <1>6
<1>8. r # <<>>
  BY <1>5, <1>7
<1>9. Head(r) = s[i + 1]
  BY <1>5, <1>6, <1>7, <1>8, HeadAndTail
<1>10. Tail(r) = Rest(s, i + 1)
  <2> DEFINE t == Tail(r)
  <2>1. DOMAIN t = 1 .. Len(r) - 1 /\ t = [j \in DOMAIN t |-> t[j]]
    <3>1. t \in Seq(Messages) /\ DOMAIN t = 1 .. Len(r) - 1
      BY <1>7, <1>8, HeadAndTail
    <3> HIDE DEF t
    <3> QED
      BY <3>1
  <2>2. DOMAIN t = 1 .. n - (i + 1)
    BY <2>1, <1>5, <1>7
  <2>3. ASSUME NEW j \in 1 .. n - (i + 1)
        PROVE  t[j] = s[j + (i + 1)]
    <3>1. t[j] = r[j + 1]
      BY <1>7, <1>8, <2>2, HeadAndTail
    <3> QED
      BY <3>1, <1>5, <1>6
  <2> HIDE DEF t
  <2>4. t = [j \in 1 .. n - (i + 1) |-> s[j + (i + 1)]]
    BY <2>1, <2>2, <2>3
  <2> QED
    BY <2>4, <1>2 DEF t
<1> QED
  BY <1>7, <1>8, <1>9, <1>10 DEF r

\* A client that takes a lane that fits observes what the lane leads to, unless
\* it closes.
LEMMA FoldObserves ==
  ASSUME NEW c \in Clients, NEW s \in Seq(Messages), NEW target,
         c.state # "Refused", Fits(c, s, target)
  PROVE  LET last == FoldLeft(receiveReliable, c, s)
         IN  last.state = "Refused" \/ last.observed = target
<1>1. PICK run : IsRun(run, c, s) /\ run[Len(s)] = FoldLeft(receiveReliable, c, s)
  BY FoldRuns
<1> DEFINE fits(i) == /\ run[i] \in Clients
                      /\ run[i].state = "Refused" \/ Fits(run[i], Rest(s, i), target)
           T == {i \in Nat : i <= Len(s) => fits(i)}
<1>2. Len(s) \in Nat
  OBVIOUS
<1>3. 0 \in T
  <2>1. Rest(s, 0) = s
    <3>1. DOMAIN s = 1 .. Len(s) /\ Len(s) - 0 = Len(s) /\ s = [j \in DOMAIN s |-> s[j]]
      OBVIOUS
    <3>2. \A j \in 1 .. Len(s) : j + 0 = j
      OBVIOUS
    <3> QED
      BY <3>1, <3>2 DEF Rest
  <2>2. run[0] = c
    BY <1>1 DEF IsRun
  <2> QED
    BY <2>1, <2>2
<1>4. ASSUME NEW i \in Nat, i \in T, i + 1 <= Len(s)
      PROVE  fits(i + 1)
  <2>1. fits(i) /\ i < Len(s) /\ i + 1 \in 1 .. Len(s) /\ (i + 1) - 1 = i
    BY <1>2, <1>4
  <2>2. run[i + 1] = receiveReliable(run[i], s[i + 1])
    BY <1>1, <2>1 DEF IsRun
  <2>3. /\ Rest(s, i) \in Seq(Messages) /\ Rest(s, i) # <<>>
        /\ Head(Rest(s, i)) = s[i + 1] /\ Tail(Rest(s, i)) = Rest(s, i + 1)
    BY <2>1, RestOfLane
  <2>4. s[i + 1] \in Messages
    BY <2>1
  <2>5. CASE run[i].state = "Refused"
    BY <2>1, <2>2, <2>4, <2>5, ReliableTaken
  <2>6. CASE run[i].state # "Refused"
    <3>1. run[i + 1] \in Clients /\ ReliableStep(run[i], Head(Rest(s, i)), run[i + 1])
      BY <2>1, <2>2, <2>3, <2>4, <2>6, ReliableTaken
    <3>2. Fits(run[i], Rest(s, i), target)
      BY <2>1, <2>6
    <3>3. run[i + 1].state # "Refused" => Fits(run[i + 1], Tail(Rest(s, i)), target)
      BY <2>1, <2>3, <2>6, <3>1, <3>2, FitsOn
    <3> QED
      BY <2>3, <3>1, <3>3
  <2> QED
    BY <2>5, <2>6
<1>5. ASSUME NEW i \in Nat, i \in T PROVE i + 1 \in T
  BY <1>4, <1>5
<1> HIDE DEF T
<1>6. Len(s) \in T
  BY <1>2, <1>3, <1>5, Induct
<1>7. fits(Len(s))
  BY <1>2, <1>6 DEF T
<1>8. ASSUME Fits(run[Len(s)], Rest(s, Len(s)), target)
      PROVE  run[Len(s)].observed = target
  <2>1. Len(Rest(s, Len(s))) = 0
    BY <1>2 DEF Rest
  <2> QED
    BY <1>8, <2>1 DEF Fits, Leads, IsPath
<1> QED
  BY <1>1, <1>7, <1>8

-----------------------------------------------------------------------------
(* The inductive invariant. *)

\* Baselines and views that a client c has or that are on their way to it.
Snapshots(c, s, vs) ==
  Held(c.baseline) \cup Held(c.snapshot) \cup vs \cup (Range(s) \cap Baselines)

\* These and the batches.
Told(c, s, vs) == Snapshots(c, s, vs) \cup Held(c.batch) \cup (Range(s) \cap Batches)

\* Nobody is told of a revision that is not there yet.
Bounded(told, rev) == \A m \in told : m.revision <= rev

\* For each baseline there is a view that completes it, unless the last one was
\* lost.
Covered(c, s, vs, gone) ==
  \A b \in Held(c.baseline) \cup (Range(s) \cap Baselines) :
    gone \/ \E v \in vs \cup Held(c.snapshot) : b.revision <= v.revision

\* Each revision has one baseline and one view, sampled at the same tick; those
\* of the current revision show the world as it is, with the tick and the physics
\* that Self was given.
Sampled(snapshots, rev, sample, at) ==
  /\ \A m, n \in snapshots :
       m.revision = n.revision => m.tick = n.tick /\ m.members = n.members
  /\ \A m \in snapshots :
       m.revision = rev => sample # None /\ m.tick = sample.tick /\ m.members = visibleTo(at)
  /\ \A m, n \in snapshots \cap Views : m.revision = n.revision => m.physics = n.physics
  /\ \A m \in snapshots \cap Views : m.revision = rev => m.physics = sample.physics

\* Nothing is on its way to a client that is not there.
Silent ==
  /\ Self \notin sessions => client = Offline /\ lane = <<>> /\ views = {} /\ requests = 0
  /\ client.state = "Refused" => client = Refused

ViewsShowSelf == \A view \in views : Self \in view.members

\* A session that mDirectMutationBase has not touched.
Live == Self \in sessions /\ ~overlapped /\ client.state # "Refused"

\* While mDirectMutationBase is kept, nothing is told of what came after it.
Kept ==
  base # None => /\ given = None
                 /\ Self \in base.sessions
                 /\ Bounded(Told(client, lane, views), base.revision)

Following ==
  /\ Fits(client, lane, visibleTo(Before.cells))
  /\ Kept
  /\ ~resampled => Sampled(Snapshots(client, lane, views), revision, given, cells)

IInv ==
  /\ TypeOK /\ Silent /\ ViewsShowSelf
  /\ Bounded(Told(client, lane, views), revision)
  /\ Covered(client, lane, views, lost)
  /\ RefusalsAreExplained
  /\ Live => Following

-----------------------------------------------------------------------------
(* What is told. *)

LEMMA RangeFacts ==
  /\ Range(<<>>) = {}
  /\ \A s \in Seq(Messages) : s # <<>> => Head(s) \in Range(s) /\ Range(Tail(s)) \subseteq Range(s)
  /\ \A s \in Seq(Messages), m \in Messages : Range(Append(s, m)) = Range(s) \cup {m}
<1>1. Range(<<>>) = {}
  BY DEF Range
<1>2. ASSUME NEW s \in Seq(Messages), s # <<>>
      PROVE  Head(s) \in Range(s) /\ Range(Tail(s)) \subseteq Range(s)
  <2>1. Head(s) = s[1] /\ 1 \in DOMAIN s
    BY <1>2, HeadAndTail
  <2>2. \A i \in DOMAIN Tail(s) : Tail(s)[i] = s[i + 1] /\ i + 1 \in DOMAIN s
    BY <1>2, HeadAndTail
  <2> QED
    BY <2>1, <2>2 DEF Range
<1>3. ASSUME NEW s \in Seq(Messages), NEW m \in Messages
      PROVE  Range(Append(s, m)) = Range(s) \cup {m}
  <2> DEFINE t == Append(s, m)
  <2>1. /\ DOMAIN s = 1 .. Len(s) /\ DOMAIN t = 1 .. Len(s) + 1 /\ Len(s) \in Nat
        /\ t[Len(s) + 1] = m /\ \A i \in DOMAIN s : t[i] = s[i]
    OBVIOUS
  <2> HIDE DEF t
  <2>2. /\ Len(s) + 1 \in DOMAIN t
        /\ \A i \in DOMAIN t : i \in DOMAIN s \/ i = Len(s) + 1
        /\ \A i \in DOMAIN s : i \in DOMAIN t
    BY <2>1
  <2>3. Range(t) = Range(s) \cup {m}
    BY <2>1, <2>2, Zenon DEF Range
  <2> QED
    BY <2>3 DEF t
<1> QED
  BY <1>1, <1>2, <1>3

\* The lane with at most one message more.
LEMMA LaneMore ==
  ASSUME NEW s \in Seq(Messages)
  PROVE  /\ s \o <<>> = s
         /\ \A m \in Messages : s \o <<m>> = Append(s, m) /\ Append(s, m) \in Seq(Messages)
OBVIOUS

LEMMA GreetingLane ==
  ASSUME NEW b \in Baselines
  PROVE  /\ <<Accepted, b>> \in Seq(Messages)
         /\ Range(<<Accepted, b>>) = {Accepted, b}
         /\ DOMAIN <<Accepted, b>> = {1, 2} /\ Len(<<Accepted, b>>) = 2
         /\ <<Accepted, b>>[1] = Accepted /\ <<Accepted, b>>[2] = b
<1>1. Accepted \in Messages /\ b \in Messages
  BY DEF Messages
<1>2. DOMAIN <<Accepted, b>> = {1, 2}
  OBVIOUS
<1> QED
  BY <1>1, <1>2 DEF Range

\* What is told has a revision.
LEMMA ToldTyped ==
  ASSUME NEW c \in Clients, NEW s \in Seq(Messages), NEW vs \in SUBSET Views
  PROVE  /\ \A m \in Snapshots(c, s, vs) : m \in Baselines \cup Views
         /\ \A m \in Told(c, s, vs) : m.revision \in Revisions
         /\ \A i \in DOMAIN s : s[i].kind # "accepted" => s[i] \in Told(c, s, vs)
         /\ \A m \in Held(c.baseline) \cup Held(c.batch) : m \in Told(c, s, vs)
         /\ Snapshots(c, s, vs) \subseteq Told(c, s, vs)
<1>1. \A m \in Snapshots(c, s, vs) : m \in Baselines \cup Views
  BY ClientFields DEF Snapshots, Held
<1>2. \A m \in Told(c, s, vs) : m \in Baselines \cup Views \cup Batches
  BY <1>1, ClientFields DEF Told, Held
<1>3. \A m \in Baselines \cup Views \cup Batches : m.revision \in Revisions
  BY DEF Baselines, Views, Batches
<1>4. ASSUME NEW i \in DOMAIN s, s[i].kind # "accepted"
      PROVE  s[i] \in Told(c, s, vs)
  <2>1. s[i] \in Messages
    OBVIOUS
  <2>2. s[i] \in Baselines \cup Batches
    BY <1>4, <2>1, MessageKinds
  <2>3. s[i] \in Range(s)
    BY DEF Range
  <2> QED
    BY <2>2, <2>3 DEF Told, Snapshots
<1>5. \A m \in Held(c.baseline) \cup Held(c.batch) : m \in Told(c, s, vs)
  BY DEF Told, Snapshots
<1> QED
  BY <1>1, <1>2, <1>3, <1>4, <1>5 DEF Told

\* A client that has refused, or is not there, is told nothing.
LEMMA NobodyTold ==
  ASSUME NEW c \in {Offline, Refused}
  PROVE  /\ Told(c, <<>>, {}) = {} /\ \A gone : Covered(c, <<>>, {}, gone)
BY FixedClients, RangeFacts DEF Told, Snapshots, Held, Covered

-----------------------------------------------------------------------------
(* The steps of the client and of the network. *)

LEMMA InitHolds == Init => IInv
<1> SUFFICES ASSUME Init PROVE IInv
  OBVIOUS
<1> USE DEF Init
<1>1. client \in Clients /\ client.state = "Offline"
  BY FixedClients
<1>2. TypeOK
  <2>1. /\ lane \in Seq(Messages) /\ revision \in Revisions /\ now \in 1 .. MaxTick
        /\ requests \in 0 .. MaxRequests /\ checkpoint \in 0 .. now
    BY InterestAssumption
  <2>2. /\ cells \in Places /\ unborn \subseteq Players
        /\ sessions \subseteq Present(cells) /\ hidden \subseteq Present(cells)
        /\ sessions \cap hidden = {} /\ views \subseteq Views
        /\ Self \notin sessions /\ given \in Samples \cup {None}
    OBVIOUS
  <2>3. /\ overlapped \in BOOLEAN /\ resampled \in BOOLEAN /\ lost \in BOOLEAN
        /\ native \in BOOLEAN /\ frame \in Physics \cup {None} /\ base = None
    BY Zenon
  <2> HIDE DEF Init
  <2> QED
    BY <1>1, <2>1, <2>2, <2>3, Zenon DEF TypeOK
<1>3. Bounded(Told(client, lane, views), revision) /\ Covered(client, lane, views, lost)
  BY NobodyTold DEF Bounded
<1> QED
  BY <1>1, <1>2, <1>3 DEF IInv, Silent, ViewsShowSelf, RefusalsAreExplained, Live

\* What the client and the network leave alone.
LEMMA ServerRests ==
  ASSUME UNCHANGED <<canonical, now, frame, base, overlapped, resampled, given>>
  PROVE  /\ UNCHANGED <<cells, sessions, hidden, unborn, revision, checkpoint, native, now, frame, base>>
         /\ UNCHANGED <<overlapped, resampled, given>>
         /\ visibleTo(Before.cells)' = visibleTo(Before.cells)
BY DEF canonical, Before, visibleTo, Present

\* What the parts of the invariant say of the next state.
LEMMA PartsLater ==
  /\ Sampled(Snapshots(client, lane, views), revision, given, cells)'
       <=> Sampled(Snapshots(client', lane', views'), revision', given', cells')
  /\ Bounded(Told(client, lane, views), revision)'
       <=> Bounded(Told(client', lane', views'), revision')
  /\ Covered(client, lane, views, lost)' <=> Covered(client', lane', views', lost')
  /\ Bounded(Told(client, lane, views), base.revision)'
       <=> Bounded(Told(client', lane', views'), base'.revision)
<1>1. Snapshots(client, lane, views)' = Snapshots(client', lane', views')
  BY Zenon DEF Snapshots, Held, Range
<1>2. Told(client, lane, views)' = Told(client', lane', views')
  BY <1>1, Zenon DEF Told, Snapshots, Held, Range
<1>3. visibleTo(cells)' = visibleTo(cells')
  BY DEF visibleTo, Present
<1>4. Sampled(Snapshots(client, lane, views), revision, given, cells)'
       <=> Sampled(Snapshots(client', lane', views'), revision', given', cells')
  BY <1>1, <1>3, Zenon DEF Sampled
<1>5. Bounded(Told(client, lane, views), revision)'
       <=> Bounded(Told(client', lane', views'), revision')
  BY <1>2, Zenon DEF Bounded
<1>6. Covered(client, lane, views, lost)' <=> Covered(client', lane', views', lost')
  BY Zenon DEF Covered, Held, Range
<1>7. Bounded(Told(client, lane, views), base.revision)'
       <=> Bounded(Told(client', lane', views'), base'.revision)
  BY <1>2, Zenon DEF Bounded
<1> QED
  BY <1>4, <1>5, <1>6, <1>7

\* The client has taken something, or something was lost, and what is left was
\* there before.
LEMMA LessIsTold ==
  ASSUME IInv, UNCHANGED <<canonical, now, frame, base, overlapped, resampled, given>>,
         Snapshots(client', lane', views') \subseteq Snapshots(client, lane, views),
         Told(client', lane', views') \subseteq Told(client, lane, views),
         views' \subseteq views, Live,
         Fits(client', lane', visibleTo(Before.cells))
  PROVE  Following'
<1>1. /\ UNCHANGED <<cells, sessions, hidden, unborn, revision, checkpoint, native, now, frame, base>>
      /\ UNCHANGED <<overlapped, resampled, given>>
      /\ visibleTo(Before.cells)' = visibleTo(Before.cells)
  BY ServerRests
<1>2. Fits(client, lane, visibleTo(Before.cells))'
  BY <1>1, Zenon DEF Fits, Ordered, Led, Leads, IsPath
<1>3. Kept /\ (~resampled => Sampled(Snapshots(client, lane, views), revision, given, cells))
  BY DEF IInv, Following
<1>4. Kept'
  <2>1. base # None => Bounded(Told(client', lane', views'), base'.revision)
    BY <1>1, <1>3 DEF Kept, Bounded
  <2> QED
    BY <1>1, <1>3, <2>1, PartsLater DEF Kept
<1>5. ~resampled' => Sampled(Snapshots(client, lane, views), revision, given, cells)'
  <2> SUFFICES ASSUME ~resampled
               PROVE  Sampled(Snapshots(client', lane', views'), revision', given', cells')
    BY <1>1, PartsLater
  <2>1. Sampled(Snapshots(client, lane, views), revision, given, cells)
    BY <1>3
  <2> QED
    BY <1>1, <2>1, Zenon DEF Sampled
<1> QED
  BY <1>2, <1>4, <1>5 DEF Following

\* The types after a step of the client.
LEMMA ClientTypes ==
  ASSUME TypeOK, UNCHANGED <<canonical, now, frame, base, overlapped, resampled, given>>,
         lane' \in Seq(Messages), views' \subseteq Views, requests' \in 0 .. MaxRequests,
         client' \in Clients, client'.state = "Offline" <=> client.state = "Offline",
         lost' \in BOOLEAN
  PROVE  TypeOK'
<1>1. /\ UNCHANGED <<cells, sessions, hidden, unborn, revision, checkpoint, native, now, frame, base>>
      /\ UNCHANGED <<overlapped, resampled, given>>
  BY ServerRests
<1> QED
  BY <1>1 DEF TypeOK, Present

\* A client that refuses takes its connection along.
LEMMA RefusalHolds ==
  ASSUME IInv, UNCHANGED <<canonical, now, frame, base, history>>, Self \in sessions,
         client' = Refused, lane' = <<>>, views' = {}, requests' = 0,
         overlapped \/ resampled
  PROVE  IInv'
<1>1. UNCHANGED <<overlapped, resampled, given, lost>>
  BY DEF history
<1>2. /\ UNCHANGED <<cells, sessions, hidden, unborn, revision, checkpoint, native, now, frame, base>>
  BY <1>1, ServerRests
<1>3. TypeOK'
  <2>1. TypeOK /\ client.state # "Offline" /\ lost \in BOOLEAN
    BY DEF IInv, TypeOK
  <2>2. client' \in Clients /\ client'.state = "Refused"
    BY FixedClients
  <2>3. lane' \in Seq(Messages) /\ views' \subseteq Views /\ requests' \in 0 .. MaxRequests
    BY InterestAssumption
  <2> QED
    BY <1>1, <2>1, <2>2, <2>3, ClientTypes
<1>4. Bounded(Told(client, lane, views), revision)' /\ Covered(client, lane, views, lost)'
  <2>1. Bounded(Told(client', lane', views'), revision') /\ Covered(client', lane', views', lost')
    BY NobodyTold DEF Bounded
  <2> QED
    BY <2>1, PartsLater
<1>5. Silent' /\ ViewsShowSelf' /\ RefusalsAreExplained' /\ ~Live'
  BY <1>1, <1>2, FixedClients DEF Silent, ViewsShowSelf, RefusalsAreExplained, Live
<1> QED
  BY <1>3, <1>4, <1>5 DEF IInv

LEMMA ReceiveReliableHolds ==
  ASSUME IInv, ReceiveReliable
  PROVE  IInv'
<1> DEFINE d == receiveReliable(client, Head(lane))
<1>1. /\ lane # <<>> /\ client' = d
      /\ lane' = IF d.state = "Refused" THEN <<>> ELSE Tail(lane)
      /\ views' = IF d.state = "Refused" THEN {} ELSE views
      /\ requests' = IF d.state = "Refused" THEN 0 ELSE requests
      /\ UNCHANGED <<canonical, now, frame, base, history>>
  BY DEF ReceiveReliable, Becomes
<1>2. /\ lane \in Seq(Messages) /\ client \in Clients /\ views \in SUBSET Views
      /\ requests \in 0 .. MaxRequests /\ TypeOK /\ lost \in BOOLEAN
      /\ client.state = "Offline" <=> Self \notin sessions
  BY DEF IInv, TypeOK
<1>3. Self \in sessions
  BY <1>1 DEF IInv, Silent
<1>4. Head(lane) \in Messages /\ Tail(lane) \in Seq(Messages)
  BY <1>1, <1>2, HeadAndTail
<1>5. /\ d \in Clients
      /\ client.state = "Refused" => d = client
      /\ client.state # "Refused" => ReliableStep(client, Head(lane), d)
  BY <1>2, <1>4, ReliableTaken
<1> HIDE DEF d
<1>6. UNCHANGED <<overlapped, resampled, given, lost>>
  BY <1>1 DEF history
<1>7. CASE d.state = "Refused"
  <2>1. d = Refused
    <3>1. CASE client.state = "Refused"
      BY <1>5, <3>1 DEF IInv, Silent
    <3>2. CASE client.state # "Refused"
      BY <1>5, <1>7, <3>2 DEF ReliableStep, Same, TakesBaseline, TakesBatch, TakesAnswer
    <3> QED
      BY <3>1, <3>2
  <2>2. overlapped \/ resampled
    <3>1. CASE client.state = "Refused"
      BY <3>1 DEF IInv, RefusalsAreExplained
    <3>2. ASSUME client.state # "Refused", ~overlapped, ~resampled
          PROVE  FALSE
      <4>1. Live
        BY <1>3, <3>2 DEF Live
      <4>2. /\ Fits(client, lane, visibleTo(Before.cells))
            /\ Sampled(Snapshots(client, lane, views), revision, given, cells)
        BY <3>2, <4>1 DEF IInv, Following
      <4>3. /\ Head(lane) \in Baselines /\ client.baseline # None
            /\ Head(lane).revision = client.baseline.revision /\ Head(lane) # client.baseline
        BY <1>1, <1>2, <1>5, <1>7, <3>2, <4>2, FitsOn
      <4>4. Head(lane) \in Snapshots(client, lane, views)
        BY <1>1, <1>2, <4>3, RangeFacts DEF Snapshots
      <4>5. client.baseline \in Snapshots(client, lane, views)
        BY <4>3 DEF Snapshots, Held
      <4>6. /\ Head(lane).tick = client.baseline.tick
            /\ Head(lane).members = client.baseline.members
        BY <4>2, <4>3, <4>4, <4>5 DEF Sampled
      <4>7. client.baseline \in Baselines
        BY <1>2, <4>3, ClientFields
      <4>8. Head(lane) = client.baseline
        BY <4>3, <4>6, <4>7 DEF Baselines
      <4> QED
        BY <4>3, <4>8
    <3> QED
      BY <3>1, <3>2
  <2> QED
    BY <1>1, <1>3, <1>7, <2>1, <2>2, RefusalHolds
<1>8. CASE d.state # "Refused"
  <2>1. client' = d /\ lane' = Tail(lane) /\ views' = views /\ requests' = requests
    BY <1>1, <1>8
  <2>2. client.state # "Refused" /\ ReliableStep(client, Head(lane), d)
    BY <1>5, <1>8
  <2>3. d.state # "Offline"
    <3>1. d.state = client.state \/ d.state = "Established"
      BY <1>8, <2>2, FixedClients DEF ReliableStep, Same, TakesBaseline, TakesBatch, TakesAnswer
    <3>2. client.state # "Offline"
      BY <1>2, <1>3
    <3> QED
      BY <3>1, <3>2
  <2>4. /\ d.snapshot = client.snapshot
        /\ d.baseline = client.baseline \/ (d.baseline = Head(lane) /\ Head(lane) \in Baselines)
        /\ \/ d.batch = client.batch \/ d.batch = None
           \/ d.batch = Head(lane) /\ Head(lane) \in Batches
    BY <1>8, <2>2, FixedClients DEF ReliableStep, Same, TakesBaseline, TakesBatch, TakesAnswer
  <2>5. Head(lane) \in Range(lane) /\ Range(Tail(lane)) \subseteq Range(lane)
    BY <1>1, <1>2, RangeFacts
  <2>6. /\ Snapshots(client', lane', views') \subseteq Snapshots(client, lane, views)
        /\ Told(client', lane', views') \subseteq Told(client, lane, views)
    BY <2>1, <2>4, <2>5 DEF Told, Snapshots, Held
  <2>7. TypeOK'
    BY <1>1, <1>2, <1>3, <1>4, <1>5, <1>6, <2>1, <2>3, ClientTypes
  <2>8. /\ UNCHANGED <<cells, sessions, hidden, unborn, revision, checkpoint, native, now, frame, base>>
    BY <1>1, <1>6, ServerRests
  <2>9. Silent' /\ ViewsShowSelf' /\ RefusalsAreExplained'
    BY <1>3, <1>8, <2>1, <2>8 DEF IInv, Silent, ViewsShowSelf, RefusalsAreExplained
  <2>10. Bounded(Told(client, lane, views), revision)'
    <3>1. Bounded(Told(client', lane', views'), revision')
      BY <2>6, <2>8 DEF IInv, Bounded
    <3> QED
      BY <3>1, PartsLater
  <2>11. Covered(client, lane, views, lost)'
    <3>1. Held(client'.baseline) \cup (Range(lane') \cap Baselines)
            \subseteq Held(client.baseline) \cup (Range(lane) \cap Baselines)
      BY <2>1, <2>4, <2>5 DEF Held
    <3>2. views' \cup Held(client'.snapshot) = views \cup Held(client.snapshot)
      BY <2>1, <2>4
    <3>3. Covered(client', lane', views', lost')
      BY <1>6, <3>1, <3>2, Zenon DEF IInv, Covered
    <3> QED
      BY <3>3, PartsLater
  <2>12. Live' => Following'
    <3> SUFFICES ASSUME Live' PROVE Following'
      OBVIOUS
    <3>1. Live
      BY <1>3, <1>6, <2>2 DEF Live
    <3>2. Fits(client, lane, visibleTo(Before.cells))
      BY <3>1 DEF IInv, Following
    <3>3. Fits(client', lane', visibleTo(Before.cells))
      BY <1>1, <1>2, <1>5, <1>8, <2>1, <2>2, <3>2, FitsOn
    <3> QED
      BY <1>1, <1>6, <2>1, <2>6, <3>1, <3>3, LessIsTold
  <2> QED
    BY <2>7, <2>9, <2>10, <2>11, <2>12 DEF IInv
<1> QED
  BY <1>7, <1>8

\* Fits() does not depend on the view.
LEMMA FitsSame ==
  ASSUME NEW c, NEW d, NEW s, NEW target, Fits(c, s, target),
         d.baseline = c.baseline, d.batch = c.batch, d.observed = c.observed
  PROVE  Fits(d, s, target)
BY Zenon DEF Fits, Ordered, Led, Leads, IsPath

LEMMA ReceiveViewHolds ==
  ASSUME IInv, NEW view \in views, ReceiveView(view)
  PROVE  IInv'
<1> DEFINE e == receiveLatestWinsSnapshot(client, view)
           d == Settled(e)
<1>1. /\ client.state = "Established" /\ client' = d
      /\ lane' = IF d.state = "Refused" THEN <<>> ELSE lane
      /\ views' = IF d.state = "Refused" THEN {} ELSE views \ {view}
      /\ requests' = IF d.state = "Refused" THEN 0 ELSE requests
      /\ UNCHANGED <<canonical, now, frame, base, history>>
  BY DEF ReceiveView, Becomes
<1>2. /\ lane \in Seq(Messages) /\ client \in Clients /\ views \in SUBSET Views
      /\ requests \in 0 .. MaxRequests /\ TypeOK /\ lost \in BOOLEAN
      /\ client.state = "Offline" <=> Self \notin sessions
  BY DEF IInv, TypeOK
<1>3. Self \in sessions
  BY <1>1, <1>2
<1>4. view \in Views /\ Self \in view.members
  BY <1>2 DEF IInv, ViewsShowSelf
<1>5. /\ e \in Clients
      /\ \/ /\ e = Refused
            /\ client.snapshot # None
            /\ view.revision = client.snapshot.revision /\ view # client.snapshot
         \/ client.snapshot # None /\ view.revision <= client.snapshot.revision /\ e = client
         \/ /\ e.state = client.state /\ e.baseline = client.baseline /\ e.batch = client.batch
            /\ e.snapshot = view /\ e.observed = client.observed
  BY <1>2, <1>4, ViewTaken
<1> HIDE DEF e
<1>6. /\ d \in Clients
      /\ d.state = e.state /\ d.baseline = e.baseline /\ d.batch = e.batch
      /\ d.snapshot = e.snapshot /\ d.observed = e.observed
  BY <1>5, SettledKeeps
<1>7. e = Refused => d = Refused
  <2>1. Refused.resync = FALSE
    BY DEF Refused, Offline
  <2> QED
    BY <2>1, Zenon DEF Settled
<1> HIDE DEF d
<1>8. UNCHANGED <<overlapped, resampled, given, lost>>
  BY <1>1 DEF history
<1>9. CASE e = Refused
  <2>1. client' = Refused /\ lane' = <<>> /\ views' = {} /\ requests' = 0
    BY <1>1, <1>7, <1>9, FixedClients
  <2>2. overlapped \/ resampled
    <3> SUFFICES ASSUME ~overlapped, ~resampled PROVE FALSE
      OBVIOUS
    <3>1. Live
      BY <1>1, <1>3 DEF Live
    <3>2. Sampled(Snapshots(client, lane, views), revision, given, cells)
      BY <3>1 DEF IInv, Following
    <3>3. /\ client.snapshot # None
          /\ view.revision = client.snapshot.revision /\ view # client.snapshot
      BY <1>1, <1>5, <1>6, <1>9, FixedClients
    <3>4. view \in Snapshots(client, lane, views) /\ client.snapshot \in Snapshots(client, lane, views)
      BY <3>3 DEF Snapshots, Held
    <3>5. client.snapshot \in Views
      BY <1>2, <3>3, ClientFields
    <3>6. /\ view.tick = client.snapshot.tick /\ view.members = client.snapshot.members
          /\ view.physics = client.snapshot.physics
      BY <1>4, <3>2, <3>3, <3>4, <3>5 DEF Sampled
    <3>7. view = client.snapshot
      BY <1>4, <3>3, <3>5, <3>6 DEF Views
    <3> QED
      BY <3>3, <3>7
  <2> QED
    BY <1>1, <1>3, <2>1, <2>2, RefusalHolds
<1>10. CASE e # Refused
  <2>1. d.state = "Established" /\ d.baseline = client.baseline /\ d.batch = client.batch
        /\ d.observed = client.observed
    BY <1>1, <1>5, <1>6, <1>10
  <2>2. \/ d.snapshot = view
        \/ d.snapshot = client.snapshot /\ client.snapshot # None
           /\ view.revision <= client.snapshot.revision
    BY <1>5, <1>6, <1>10
  <2>3. client' = d /\ lane' = lane /\ views' = views \ {view} /\ requests' = requests
    BY <1>1, <2>1
  <2>4. /\ Snapshots(client', lane', views') \subseteq Snapshots(client, lane, views)
        /\ Told(client', lane', views') \subseteq Told(client, lane, views)
    BY <2>1, <2>2, <2>3 DEF Told, Snapshots, Held
  <2>5. TypeOK'
    BY <1>1, <1>2, <1>6, <1>8, <2>1, <2>3, ClientTypes
  <2>6. /\ UNCHANGED <<cells, sessions, hidden, unborn, revision, checkpoint, native, now, frame, base>>
    BY <1>1, <1>8, ServerRests
  <2>7. Silent' /\ ViewsShowSelf' /\ RefusalsAreExplained'
    BY <1>3, <2>1, <2>3, <2>6 DEF IInv, Silent, ViewsShowSelf, RefusalsAreExplained
  <2>8. Bounded(Told(client, lane, views), revision)'
    <3>1. Bounded(Told(client', lane', views'), revision')
      BY <2>4, <2>6 DEF IInv, Bounded
    <3> QED
      BY <3>1, PartsLater
  <2>9. Covered(client, lane, views, lost)'
    <3>1. ASSUME NEW b \in Held(client.baseline) \cup (Range(lane) \cap Baselines), ~lost
          PROVE  \E v \in views' \cup Held(client'.snapshot) : b.revision <= v.revision
      <4>1. PICK v \in views \cup Held(client.snapshot) : b.revision <= v.revision
        BY <3>1 DEF IInv, Covered
      <4>2. CASE v \in views \ {view} \/ v \in Held(client'.snapshot)
        BY <2>3, <4>1, <4>2
      <4>3. CASE v = view
        <5>1. CASE d.snapshot = view
          BY <2>3, <4>1, <4>3, <5>1, <1>4, NoneAssumption DEF Held
        <5>2. CASE d.snapshot = client.snapshot /\ client.snapshot # None
                   /\ view.revision <= client.snapshot.revision
          <6>1. /\ b.revision \in Nat /\ view.revision \in Nat /\ client.snapshot.revision \in Nat
                /\ client.snapshot \in Held(client'.snapshot)
            BY <1>2, <1>4, <2>3, <5>2, ClientFields DEF Baselines, Views, Held
          <6>2. b.revision <= client.snapshot.revision
            BY <4>1, <4>3, <5>2, <6>1
          <6> QED
            BY <6>1, <6>2
        <5> QED
          BY <2>2, <5>1, <5>2
      <4>4. CASE v \in Held(client.snapshot) /\ v \notin Held(client'.snapshot)
        <5>1. v = client.snapshot /\ client.snapshot # None /\ d.snapshot = view
          BY <2>2, <2>3, <4>4 DEF Held
        <5>2. client.snapshot.revision < view.revision
          BY <1>2, <1>4, <1>5, <1>6, <1>10, <5>1, <4>4, <2>3, ViewTaken DEF e, Held
        <5>3. /\ b.revision \in Nat /\ view.revision \in Nat /\ client.snapshot.revision \in Nat
              /\ view \in Held(client'.snapshot)
          BY <1>2, <1>4, <2>3, <5>1, ClientFields, NoneAssumption DEF Baselines, Views, Held
        <5>4. b.revision <= view.revision
          BY <4>1, <5>1, <5>2, <5>3
        <5> QED
          BY <5>3, <5>4
      <4> QED
        BY <4>1, <4>2, <4>3, <4>4
    <3>2. Held(client'.baseline) \cup (Range(lane') \cap Baselines)
            = Held(client.baseline) \cup (Range(lane) \cap Baselines)
      BY <2>1, <2>3
    <3>3. Covered(client', lane', views', lost')
      BY <1>8, <3>1, <3>2 DEF Covered
    <3> QED
      BY <3>3, PartsLater
  <2>10. Live' => Following'
    <3> SUFFICES ASSUME Live' PROVE Following'
      OBVIOUS
    <3>1. Live
      BY <1>1, <1>3, <1>8 DEF Live
    <3>2. Fits(client, lane, visibleTo(Before.cells))
      BY <3>1 DEF IInv, Following
    <3>3. Fits(client', lane', visibleTo(Before.cells))
      BY <2>1, <2>3, <3>2, FitsSame
    <3> QED
      BY <1>1, <1>8, <2>3, <2>4, <3>1, <3>3, LessIsTold
  <2> QED
    BY <2>5, <2>7, <2>8, <2>9, <2>10 DEF IInv
<1> QED
  BY <1>9, <1>10

\* A step that leaves the server, the lane and what the client has as they are,
\* while views may get lost.
LEMMA QuietHolds ==
  ASSUME IInv, UNCHANGED <<canonical, now, frame, base, lane, overlapped, resampled, given>>,
         client' \in Clients, Same(client, client'), client.state = "Refused" => client' = client,
         Self \notin sessions => client' = client /\ requests' = 0,
         views' \subseteq views, requests' \in 0 .. MaxRequests, lost' \in BOOLEAN,
         Covered(client, lane, views', lost')
  PROVE  IInv'
<1>1. /\ UNCHANGED <<cells, sessions, hidden, unborn, revision, checkpoint, native, now, frame, base>>
      /\ UNCHANGED <<overlapped, resampled, given>> /\ lane' = lane
  BY ServerRests
<1>2. TypeOK /\ lane \in Seq(Messages) /\ views \subseteq Views
  BY DEF IInv, TypeOK
<1>3. /\ client'.state = client.state /\ client'.baseline = client.baseline
      /\ client'.batch = client.batch /\ client'.snapshot = client.snapshot
      /\ client'.observed = client.observed
  BY DEF Same
<1>4. TypeOK'
  BY <1>1, <1>2, <1>3, ClientTypes
<1>5. Silent' /\ ViewsShowSelf' /\ RefusalsAreExplained'
  BY <1>1, <1>3 DEF IInv, Silent, ViewsShowSelf, RefusalsAreExplained
<1>6. /\ Snapshots(client', lane', views') \subseteq Snapshots(client, lane, views)
      /\ Told(client', lane', views') \subseteq Told(client, lane, views)
  BY <1>1, <1>3 DEF Told, Snapshots
<1>7. Bounded(Told(client', lane', views'), revision')
  BY <1>1, <1>6 DEF IInv, Bounded
<1>8. Covered(client', lane', views', lost')
  BY <1>1, <1>3, Zenon DEF Covered
<1>9. Live' => Following'
  <2> SUFFICES ASSUME Live' PROVE Following'
    OBVIOUS
  <2>1. Live
    BY <1>1, <1>3 DEF Live
  <2>2. Fits(client, lane, visibleTo(Before.cells))
    BY <2>1 DEF IInv, Following
  <2>3. Fits(client', lane', visibleTo(Before.cells))
    BY <1>1, <1>3, <2>2, FitsSame
  <2> QED
    BY <1>1, <1>6, <2>1, <2>3, LessIsTold
<1> QED
  BY <1>4, <1>5, <1>7, <1>8, <1>9, PartsLater DEF IInv

LEMMA LoseViewHolds ==
  ASSUME IInv, NEW view \in views, LoseView(view)
  PROVE  IInv'
<1>1. /\ views' = views \ {view}
      /\ lost' = (lost \/ \A other \in views : other.revision <= view.revision)
      /\ UNCHANGED <<canonical, now, frame, base, lane, overlapped, resampled, given>>
      /\ UNCHANGED <<client, requests>>
  BY DEF LoseView
<1>2. /\ client \in Clients /\ views \subseteq Views /\ requests \in 0 .. MaxRequests
      /\ Self \notin sessions => requests = 0
  BY DEF IInv, TypeOK, Silent
<1>3. lost' \in BOOLEAN
  BY <1>1, Zenon
<1>4. Covered(client, lane, views', lost')
  <2> SUFFICES ASSUME NEW b \in Held(client.baseline) \cup (Range(lane) \cap Baselines), ~lost'
               PROVE  \E v \in views' \cup Held(client.snapshot) : b.revision <= v.revision
    BY DEF Covered
  <2>1. PICK other \in views : ~(other.revision <= view.revision)
    BY <1>1
  <2>2. PICK v \in views \cup Held(client.snapshot) : b.revision <= v.revision
    BY <1>1 DEF IInv, Covered
  <2>3. CASE v # view
    BY <1>1, <2>2, <2>3
  <2>4. CASE v = view
    <3>1. b.revision \in Nat /\ view.revision \in Nat /\ other.revision \in Nat
      BY <1>2, ClientFields DEF Held, Baselines, Views
    <3>2. b.revision <= other.revision
      BY <2>1, <2>2, <2>4, <3>1
    <3>3. other \in views'
      BY <1>1, <2>1, <3>1
    <3> QED
      BY <3>2, <3>3
  <2> QED
    BY <2>3, <2>4
<1> QED
  BY <1>1, <1>2, <1>3, <1>4, QuietHolds DEF Same

LEMMA RequestHolds ==
  ASSUME IInv, requestResync
  PROVE  IInv'
<1>1. /\ client.state = "Established" /\ requests < MaxRequests
      /\ client' = [client EXCEPT !.resync = TRUE, !.seen = FALSE]
      /\ requests' = requests + 1
      /\ UNCHANGED <<canonical, now, frame, base, lane, views, history>>
  BY DEF requestResync
<1>2. UNCHANGED <<overlapped, resampled, given, lost>>
  BY <1>1 DEF history
<1>3. /\ client \in Clients /\ requests \in 0 .. MaxRequests /\ lost \in BOOLEAN
      /\ client.state = "Offline" <=> Self \notin sessions
      /\ Covered(client, lane, views, lost)
  BY DEF IInv, TypeOK
<1>4. client' \in Clients /\ Same(client, client')
  BY <1>1, <1>3 DEF Clients, Same
<1>5. requests' \in 0 .. MaxRequests
  BY <1>1, <1>3, InterestAssumption
<1> QED
  BY <1>1, <1>2, <1>3, <1>4, <1>5, QuietHolds

-----------------------------------------------------------------------------
(* The steps of the server. *)

\* What a projection puts on the lane: at most one batch.
LEMMA LaneEmits ==
  ASSUME NEW s \in Seq(Messages), NEW b \in Batches, NEW e, e = <<>> \/ e = <<b>>
  PROVE  /\ s \o e \in Seq(Messages)
         /\ Range(s \o e) \cap Baselines = Range(s) \cap Baselines
         /\ Range(s \o e) \cap Batches \subseteq (Range(s) \cap Batches) \cup {b}
         /\ e = <<b>> => s \o e = Append(s, b)
         /\ e = <<>> => s \o e = s
<1>1. b \in Messages /\ b \notin Baselines
  <2>1. b \in Messages
    BY DEF Messages
  <2> QED
    BY <2>1, MessageKinds
<1>2. /\ e = <<b>> => s \o e = Append(s, b) /\ s \o e \in Seq(Messages)
      /\ e = <<>> => s \o e = s
  BY <1>1, LaneMore
<1>3. e = <<b>> => Range(s \o e) = Range(s) \cup {b}
  BY <1>1, <1>2, RangeFacts
<1> QED
  BY <1>1, <1>2, <1>3

\* What is told stays within the revision, and a view completes every baseline.
LEMMA ToldMore ==
  ASSUME NEW c \in Clients, NEW s \in Seq(Messages), NEW vs \in SUBSET Views,
         NEW rev \in Revisions, NEW e, NEW V,
         e = <<>> \/ \E b \in Batches : e = <<b>> /\ b.revision = rev,
         \A v \in V : v.revision = rev,
         Bounded(Told(c, s, vs), rev)
  PROVE  /\ Snapshots(c, s \o e, vs \cup V) = Snapshots(c, s, vs) \cup V
         /\ Bounded(Told(c, s \o e, vs \cup V), rev)
         /\ Range(s \o e) \cap Baselines = Range(s) \cap Baselines
         /\ \A x \in Held(c.baseline) \cup (Range(s) \cap Baselines), w \in V :
              x.revision <= w.revision
<1>1. /\ Range(s \o e) \cap Baselines = Range(s) \cap Baselines
      /\ \A m \in Range(s \o e) \cap Batches : m \in Range(s) \/ m.revision = rev
  <2>1. CASE e = <<>>
    BY <2>1, LaneMore
  <2>2. CASE e # <<>>
    <3>1. PICK b \in Batches : e = <<b>> /\ b.revision = rev
      BY <2>2
    <3> QED
      BY <3>1, LaneEmits
  <2> QED
    BY <2>1, <2>2
<1>2. Snapshots(c, s \o e, vs \cup V) = Snapshots(c, s, vs) \cup V
  BY <1>1, Zenon DEF Snapshots
<1>3. \A m \in Told(c, s \o e, vs \cup V) : m \in Told(c, s, vs) \/ m.revision = rev
  BY <1>1, <1>2 DEF Told
<1>4. Bounded(Told(c, s \o e, vs \cup V), rev)
  BY <1>3 DEF Bounded
<1>5. ASSUME NEW x \in Held(c.baseline) \cup (Range(s) \cap Baselines), NEW w \in V
      PROVE  x.revision <= w.revision
  <2>1. x \in Told(c, s, vs)
    BY DEF Told, Snapshots
  <2> QED
    BY <2>1 DEF Bounded
<1> QED
  BY <1>1, <1>2, <1>4, <1>5

\* A new revision goes with what was sampled at the ones before.
LEMMA SampledLater ==
  ASSUME NEW snapshots, NEW rev, NEW sample, NEW at, NEW later \in Nat, NEW g, NEW there,
         Sampled(snapshots, rev, sample, at),
         \A m \in snapshots : m.revision \in Nat /\ m.revision < later
  PROVE  Sampled(snapshots, later, g, there)
BY DEF Sampled

\* A projection from what the client was told last leads to what it shows.
LEMMA FitsEmitted ==
  ASSUME NEW c \in Clients, NEW s \in Seq(Messages), NEW vs \in SUBSET Views,
         NEW before \in Places, NEW after \in Places, NEW rev \in Revisions,
         NEW sample \in Samples, NEW e,
         NEW V \in SUBSET {View(after, rev, sample.tick, sample.physics)},
         Projects(e, before, after, rev),
         \A m \in Told(c, s, vs) : m.revision < rev,
         Fits(c, s, visibleTo(before))
  PROVE  /\ Fits(c, s \o e, visibleTo(after))
         /\ \A r, g, at, h : (Sampled(Snapshots(c, s, vs), r, g, at) /\ (V # {} => h = sample))
                               => Sampled(Snapshots(c, s, vs) \cup V, rev, h, after)
<1> DEFINE b == Change(before, after, rev)
           v == View(after, rev, sample.tick, sample.physics)
<1>1. /\ b \in Batches /\ b.revision = rev
      /\ b.enters = visibleTo(after) \ visibleTo(before)
      /\ b.leaves = visibleTo(before) \ visibleTo(after)
      /\ v.revision = rev /\ v.tick = sample.tick /\ v.members = visibleTo(after)
      /\ v.physics = sample.physics /\ visibleTo(after) \in SUBSET Players
  <2>1. sample.tick \in Ticks /\ sample.physics \in Physics \cup {None}
    BY DEF Samples
  <2>2. /\ b \in Batches /\ b.revision = rev
        /\ b.enters = visibleTo(after) \ visibleTo(before)
        /\ b.leaves = visibleTo(before) \ visibleTo(after)
    BY ChangeTyped
  <2> HIDE DEF b
  <2>3. /\ v.revision = rev /\ v.tick = sample.tick /\ v.members = visibleTo(after)
        /\ v.physics = sample.physics /\ visibleTo(after) \in SUBSET Players
    BY <2>1, SamplesTyped
  <2> QED
    BY <2>2, <2>3
<1>2. b \in Messages /\ b.kind = "batch"
  <2>1. b \in Messages
    BY <1>1 DEF Messages
  <2> QED
    BY <1>1, <2>1, MessageKinds
<1>3. \/ s \o e = s /\ visibleTo(before) = visibleTo(after)
      \/ s \o e = Append(s, b)
  <2>1. \/ e = <<>> /\ visibleTo(before) = visibleTo(after)
        \/ e = <<b>>
    BY Zenon DEF Projects
  <2> HIDE DEF b
  <2> QED
    BY <1>1, <2>1, LaneEmits
<1> HIDE DEF b
<1>4. Fits(c, s \o e, visibleTo(after))
  <2>1. CASE s \o e = s /\ visibleTo(before) = visibleTo(after)
    BY <2>1
  <2>2. CASE s \o e = Append(s, b)
    <3>1. Observes(b, visibleTo(before), visibleTo(after))
      BY <1>1, <1>2, Zenon DEF Observes
    <3>2. \A n \in Held(c.baseline) \cup Held(c.batch) : Follows(n, b)
      BY <1>1, <1>2, ToldTyped DEF Follows
    <3>3. \A i \in DOMAIN s : s[i].kind # "accepted" => Follows(s[i], b)
      BY <1>1, <1>2, ToldTyped DEF Follows
    <3>4. Fits(c, Append(s, b), visibleTo(after))
      BY <1>1, <1>2, <3>1, <3>2, <3>3, FitsMore
    <3> QED
      BY <2>2, <3>4
  <2> QED
    BY <1>3, <2>1, <2>2
<1>5. ASSUME NEW r, NEW g, NEW at, NEW h, Sampled(Snapshots(c, s, vs), r, g, at),
             V # {} => h = sample
      PROVE  Sampled(Snapshots(c, s, vs) \cup V, rev, h, after)
  <2>1. \A m \in Snapshots(c, s, vs) : m.revision \in Nat /\ m.revision < rev
    BY ToldTyped
  <2>2. \A m \in V : /\ m.revision = rev /\ m.tick = h.tick /\ m.members = visibleTo(after)
                     /\ m.physics = h.physics /\ h # None
    BY <1>1, <1>5, NoneAssumption
  <2>3. rev \in Nat
    OBVIOUS
  <2> QED
    BY <1>5, <2>1, <2>2, <2>3 DEF Sampled
<1> QED
  BY <1>4, <1>5

LEMMA RestTyped ==
  /\ sessions' \subseteq Present(cells)' <=> sessions' \subseteq Present(cells')
  /\ hidden' \subseteq Present(cells)' <=> hidden' \subseteq Present(cells')
BY DEF Present

\* The messages e and the views V of a sample that Self is given, from the state
\* before.
Emission(before, e, V, sample) ==
  /\ e = <<>> \/ e = <<Change(before, cells', revision')>>
  /\ V \subseteq {View(cells', revision', sample.tick, sample.physics)}
  /\ Self \notin sessions => e = <<>> /\ V = {}
  /\ V # {} => given' = sample
  /\ lane' = lane \o e /\ views' = views \cup V

\* The lane and the views that a projection leaves behind, for a client that
\* stays as it is.
LEMMA EmitsHolds ==
  ASSUME IInv, NEW before \in Places, NEW e, NEW V, NEW sample \in Samples,
         Emission(before, e, V, sample),
         cells' \in Places, revision' \in Revisions, revision <= revision',
         sessions' \subseteq Present(cells'), Self \in sessions' <=> Self \in sessions,
         lost' = (lost /\ V = {}),
         UNCHANGED <<client, requests, resampled>>, overlapped => overlapped'
  PROVE  /\ lane' \in Seq(Messages) /\ views' \subseteq Views
         /\ lost' \in BOOLEAN /\ Silent' /\ ViewsShowSelf' /\ RefusalsAreExplained'
         /\ Snapshots(client', lane', views') = Snapshots(client, lane, views) \cup V
         /\ Bounded(Told(client, lane, views), revision)'
         /\ Covered(client, lane, views, lost)'
<1> DEFINE b == Change(before, cells', revision')
           v == View(cells', revision', sample.tick, sample.physics)
<1>1. /\ e = <<>> \/ e = <<b>>
      /\ V \subseteq {v}
      /\ V # {} => Self \in sessions
      /\ Self \notin sessions => e = <<>> /\ V = {}
      /\ lane' = lane \o e /\ views' = views \cup V
  BY DEF Emission
<1>2. /\ client \in Clients /\ lane \in Seq(Messages) /\ views \in SUBSET Views
      /\ revision \in Nat /\ sample.tick \in Ticks /\ sample.physics \in Physics \cup {None}
  BY DEF IInv, TypeOK, Samples
<1>3. b \in Batches /\ b.revision = revision'
  BY ChangeTyped
<1>4. v \in Views /\ v.revision = revision' /\ v.members = visibleTo(cells')
  BY <1>2, SamplesTyped
<1> HIDE DEF b, v
<1>5. lane' \in Seq(Messages)
  BY <1>1, <1>2, <1>3, LaneEmits
<1>6. Bounded(Told(client, lane, views), revision')
  <2>1. \A m \in Told(client, lane, views) : m.revision \in Revisions
    BY <1>2, ToldTyped
  <2> QED
    BY <1>2, <2>1 DEF IInv, Bounded
<1>7. Covered(client, lane, views, lost)
  BY DEF IInv
<1>8. /\ Snapshots(client, lane', views') = Snapshots(client, lane, views) \cup V
      /\ Bounded(Told(client, lane', views'), revision')
      /\ Range(lane') \cap Baselines = Range(lane) \cap Baselines
      /\ \A x \in Held(client.baseline) \cup (Range(lane) \cap Baselines), w \in V :
           x.revision <= w.revision
  <2>1. /\ Snapshots(client, lane \o e, views \cup V) = Snapshots(client, lane, views) \cup V
        /\ Bounded(Told(client, lane \o e, views \cup V), revision')
        /\ Range(lane \o e) \cap Baselines = Range(lane) \cap Baselines
        /\ \A x \in Held(client.baseline) \cup (Range(lane) \cap Baselines), w \in V :
             x.revision <= w.revision
    <3>1. e = <<>> \/ \E m \in Batches : e = <<m>> /\ m.revision = revision'
      BY <1>1, <1>3
    <3>2. \A w \in V : w.revision = revision'
      BY <1>1, <1>4
    <3> QED
      BY <1>2, <1>6, <3>1, <3>2, ToldMore
  <2> QED
    BY <1>1, <2>1
<1>9. Covered(client', lane', views', lost')
  <2>1. ASSUME NEW x \in Held(client.baseline) \cup (Range(lane) \cap Baselines), ~lost'
        PROVE  \E w \in views' \cup Held(client.snapshot) : x.revision <= w.revision
    <3>1. CASE V # {}
      BY <3>1, <1>1, <1>8
    <3>2. CASE V = {}
      <4>1. ~lost
        BY <2>1, <3>2, Zenon
      <4> QED
        BY <4>1, <1>1, <1>7 DEF Covered
    <3> QED
      BY <3>1, <3>2
  <2> QED
    BY <2>1, <1>8, Zenon DEF Covered
<1>10. Silent'
  <2>1. ASSUME Self \notin sessions
        PROVE  lane' = <<>> /\ views' = {} /\ requests' = 0 /\ client' = Offline
    <3>1. e = <<>> /\ V = {} /\ lane = <<>> /\ views = {}
      BY <1>1, <2>1 DEF IInv, Silent
    <3>2. lane' = lane
      BY <1>1, <1>2, <3>1, LaneMore
    <3> QED
      BY <1>1, <2>1, <3>1, <3>2 DEF IInv, Silent
  <2> QED
    BY <2>1 DEF IInv, Silent
<1>11. ViewsShowSelf'
  <2>1. V # {} => Self \in visibleTo(cells')
    BY <1>1, SelfIsVisible
  <2> QED
    BY <2>1, <1>1, <1>4 DEF IInv, ViewsShowSelf
<1>12. RefusalsAreExplained' /\ views' \subseteq Views
  BY <1>1, <1>2, <1>4 DEF IInv, RefusalsAreExplained
<1>13. lost' \in BOOLEAN
  BY Zenon
<1> QED
  BY <1>5, <1>8, <1>9, <1>10, <1>11, <1>12, <1>13, PartsLater

\* What a live client follows when it is told of a new revision.
LEMMA EmitsFollows ==
  ASSUME IInv, Live, NEW e, NEW V, NEW sample \in Samples,
         Emission(Before.cells, e, V, sample),
         cells' \in Places, revision' \in Revisions, Before.cells \in Places,
         e = <<>> => visibleTo(Before.cells) = visibleTo(cells'),
         \A m \in Told(client, lane, views) : m.revision < revision',
         base' = None, UNCHANGED <<client, resampled>>,
         Snapshots(client', lane', views') = Snapshots(client, lane, views) \cup V
  PROVE  Following'
<1>1. client \in Clients /\ lane \in Seq(Messages) /\ views \in SUBSET Views
  BY DEF IInv, TypeOK
<1>2. /\ Fits(client, lane, visibleTo(Before.cells))
      /\ ~resampled => Sampled(Snapshots(client, lane, views), revision, given, cells)
  BY DEF IInv, Following
<1>3. PICK before \in Places : before = Before.cells
  OBVIOUS
<1>4. /\ Projects(e, before, cells', revision')
      /\ V \in SUBSET {View(cells', revision', sample.tick, sample.physics)}
      /\ lane' = lane \o e /\ views' = views \cup V
      /\ V # {} => given' = sample
  BY <1>3 DEF Emission, Projects
<1>5. /\ Fits(client, lane \o e, visibleTo(cells'))
      /\ \A r, g, at, h : (Sampled(Snapshots(client, lane, views), r, g, at) /\ (V # {} => h = sample))
                            => Sampled(Snapshots(client, lane, views) \cup V, revision', h, cells')
  BY <1>1, <1>2, <1>3, <1>4, FitsEmitted
<1>6. ~resampled' => Sampled(Snapshots(client', lane', views'), revision', given', cells')
  BY <1>2, <1>4, <1>5
<1>7. Before.cells' = cells'
  BY DEF Before
<1>8. Fits(client, lane, visibleTo(Before.cells))'
  <2>1. visibleTo(Before.cells)' = visibleTo(cells')
    BY <1>7 DEF visibleTo, Present
  <2>2. Fits(client', lane', visibleTo(cells'))
    BY <1>4, <1>5
  <2> QED
    BY <2>1, <2>2, Zenon DEF Fits, Ordered, Led, Leads, IsPath
<1>9. Kept'
  BY DEF Kept
<1> QED
  BY <1>6, <1>8, <1>9, PartsLater DEF Following

LEMMA InformHolds ==
  ASSUME IInv, NEW after \in Places, Inform(after),
         cells' = after, revision < MaxRevision, revision' = revision + 1,
         checkpoint' = now, UNCHANGED <<unborn, native, now, base>>,
         sessions' \subseteq Present(after), hidden' \subseteq Present(after),
         sessions' \cap hidden' = {}, Self \in sessions' <=> Self \in sessions
  PROVE  IInv'
<1> DEFINE rev == revision + 1
           e == projectInterestChanges(cells, Self \in sessions, after, rev)
           V == IF e = <<>> THEN {} ELSE {View(after, rev, now, None)}
           sample == [tick |-> now, physics |-> None]
<1>1. /\ lane' = lane \o e /\ views' = views \cup V
      /\ given' = IF V # {} THEN sample ELSE IF revision' = revision THEN given ELSE None
      /\ lost' = (lost /\ V = {}) /\ overlapped' = (overlapped \/ base # None)
      /\ UNCHANGED <<client, requests, frame, resampled>>
  BY Zenon DEF Inform, Deliver, Give
<1>2. /\ e = <<>> \/ e = <<Change(cells, after, rev)>>
      /\ Self \in sessions /\ e = <<>> => visibleTo(cells) = visibleTo(after)
  BY Zenon DEF projectInterestChanges, Change
<1>3. Self \notin sessions => e = <<>>
  BY Zenon DEF projectInterestChanges
<1>4. V \subseteq {View(after, rev, now, None)} /\ (Self \notin sessions => V = {})
  BY <1>3
<1> HIDE DEF e, V
<1>5. /\ TypeOK /\ client \in Clients /\ lane \in Seq(Messages) /\ views \in SUBSET Views
      /\ revision \in Nat /\ rev \in Revisions /\ now \in Nat /\ now \in Ticks
      /\ cells \in Places /\ rev = revision' /\ revision <= rev /\ revision < rev
  BY InterestAssumption DEF IInv, TypeOK
<1> HIDE DEF rev
<1>6. sample \in Samples /\ sample.tick = now /\ sample.physics = None
  BY <1>5, SampleFields
<1> HIDE DEF sample
<1>7. overlapped => overlapped'
  BY <1>1, Zenon
<1>8. given' \in Samples \cup {None} /\ (V # {} => given' = sample)
  BY <1>1, <1>5, <1>6
<1>9. Emission(cells, e, V, sample)
  BY <1>1, <1>2, <1>3, <1>4, <1>5, <1>6, <1>8 DEF Emission
<1>10. /\ lane' \in Seq(Messages) /\ views' \subseteq Views
       /\ lost' \in BOOLEAN /\ Silent' /\ ViewsShowSelf' /\ RefusalsAreExplained'
       /\ Snapshots(client', lane', views') = Snapshots(client, lane, views) \cup V
       /\ Bounded(Told(client, lane, views), revision)'
       /\ Covered(client, lane, views, lost)'
  BY <1>1, <1>5, <1>6, <1>7, <1>9, EmitsHolds
<1>11. TypeOK'
  <2>1. base' = None \/ (base' \in Bases /\ base'.revision < revision')
    BY <1>5 DEF TypeOK, Bases
  <2>2. /\ sessions' \subseteq Present(cells)' /\ hidden' \subseteq Present(cells)'
    BY RestTyped
  <2>3. overlapped' \in BOOLEAN /\ resampled' \in BOOLEAN
    <3>1. resampled' \in BOOLEAN
      BY <1>1, <1>5 DEF TypeOK
    <3> QED
      BY <3>1, <1>1, Zenon
  <2>4. /\ unborn' \subseteq Players /\ checkpoint' \in 0 .. now' /\ now' \in 1 .. MaxTick
        /\ requests' \in 0 .. MaxRequests /\ client'.state = "Offline" <=> Self \notin sessions'
        /\ native' \in BOOLEAN /\ frame' \in Physics \cup {None}
    BY <1>1, <1>5 DEF TypeOK
  <2> QED
    BY <1>1, <1>5, <1>8, <1>10, <2>1, <2>2, <2>3, <2>4, Zenon DEF TypeOK
<1>12. Live' => Following'
  <2> SUFFICES ASSUME Live' PROVE Following'
    OBVIOUS
  <2>1. ~overlapped /\ base = None
    BY <1>1, Zenon DEF Live
  <2>2. Live
    BY <1>1, <2>1 DEF Live
  <2>3. Before.cells = cells
    BY <2>1 DEF Before
  <2>4. Self \in sessions
    BY <2>2 DEF Live
  <2>5. /\ Emission(Before.cells, e, V, sample)
        /\ e = <<>> => visibleTo(Before.cells) = visibleTo(after)
    BY <1>2, <1>9, <2>3, <2>4
  <2>6. \A m \in Told(client, lane, views) : m.revision < rev
    <3>1. \A m \in Told(client, lane, views) : m.revision \in Revisions
      BY <1>5, ToldTyped
    <3> QED
      BY <1>5, <3>1 DEF IInv, Bounded
  <2> QED
    BY <1>1, <1>5, <1>6, <1>10, <2>1, <2>2, <2>3, <2>5, <2>6, EmitsFollows
<1> QED
  BY <1>10, <1>11, <1>12 DEF IInv

\* What the state keeps for the next tick has the types of the state.
LEMMA BeforeTyped ==
  ASSUME TypeOK
  PROVE  /\ Before.cells \in Places
         /\ base = None => /\ Before.cells = cells /\ Before.sessions = sessions
                           /\ Before.revision = revision
         /\ base # None => Before = base /\ Before.revision < revision
BY DEF Before, TypeOK, Bases

LEMMA CommitTickHolds ==
  ASSUME IInv, NEW after \in Places, NEW changed \in BOOLEAN,
         NEW shown \in Physics \cup {None}, NEW found \in Physics \cup {None},
         now < MaxTick, changed => revision < MaxRevision,
         Present(after) = Present(cells), after # cells => changed,
         CommitTick(after, IF changed THEN revision + 1 ELSE revision, shown, found)
  PROVE  IInv'
<1> DEFINE rev == IF changed THEN revision + 1 ELSE revision
           sample == [tick |-> now, physics |-> shown]
           told == rev # Before.revision /\ Self \in sessions
           batch == projectInterestChanges(Before.cells, Self \in Before.sessions, after, rev)
           e == IF told THEN batch ELSE <<>>
           V == IF told THEN {View(after, rev, now, shown)} ELSE {}
<1>1. /\ cells' = after
      /\ revision' = rev /\ checkpoint' = now /\ now' = now + 1
      /\ frame' = found /\ base' = None
      /\ lane' = lane \o e /\ views' = views \cup V
      /\ given' = IF V # {} THEN sample ELSE IF revision' = revision THEN given ELSE None
      /\ lost' = (lost /\ V = {}) /\ UNCHANGED requests
      /\ UNCHANGED <<sessions, hidden, unborn, native, client, overlapped, resampled>>
  BY Zenon DEF CommitTick, Give
<1>2. /\ batch = <<>> \/ batch = <<Change(Before.cells, after, rev)>>
      /\ Self \in Before.sessions /\ batch = <<>> => visibleTo(Before.cells) = visibleTo(after)
  BY Zenon DEF projectInterestChanges, Change
<1> HIDE DEF batch
<1>3. rev = IF changed THEN revision + 1 ELSE revision
  OBVIOUS
<1> HIDE DEF rev
<1>4. /\ told => e = batch /\ V = {View(after, rev, now, shown)}
      /\ ~told => e = <<>> /\ V = {}
      /\ told <=> rev # Before.revision /\ Self \in sessions
  OBVIOUS
<1> HIDE DEF told, e, V
<1>5. /\ TypeOK /\ client \in Clients /\ lane \in Seq(Messages) /\ views \in SUBSET Views
      /\ revision \in Revisions /\ now \in 1 .. MaxTick /\ cells \in Places
      /\ given \in Samples \cup {None}
  BY DEF IInv, TypeOK
<1>6. /\ rev \in Revisions /\ revision <= rev /\ now + 1 \in 1 .. MaxTick
      /\ sample \in Samples /\ sample.tick = now /\ sample.physics = shown
  <2>1. rev \in Revisions /\ revision <= rev /\ now \in Ticks /\ now + 1 \in 1 .. MaxTick
    BY <1>3, <1>5, InterestAssumption
  <2> QED
    BY <2>1, SampleFields
<1> HIDE DEF sample
<1>7. V # {} => given' = sample
  BY <1>1
<1>8. Emission(Before.cells, e, V, sample)
  BY <1>1, <1>2, <1>4, <1>6, <1>7 DEF Emission
<1>9. /\ sessions' \subseteq Present(cells') /\ hidden' \subseteq Present(cells')
      /\ Self \in sessions' <=> Self \in sessions
  BY <1>1, <1>5 DEF TypeOK
<1>10. /\ Before.cells \in Places
       /\ base = None => /\ Before.cells = cells /\ Before.sessions = sessions
                         /\ Before.revision = revision
       /\ base # None => Before = base /\ Before.revision < revision
  BY <1>5, BeforeTyped
<1>11. /\ lane' \in Seq(Messages) /\ views' \subseteq Views
       /\ lost' \in BOOLEAN /\ Silent' /\ ViewsShowSelf' /\ RefusalsAreExplained'
       /\ Snapshots(client', lane', views') = Snapshots(client, lane, views) \cup V
       /\ Bounded(Told(client, lane, views), revision)'
       /\ Covered(client, lane, views, lost)'
  <2>1. overlapped => overlapped'
    BY <1>1
  <2>2. UNCHANGED <<client, requests, resampled>>
    BY <1>1
  <2> QED
    BY <1>1, <1>6, <1>8, <1>9, <1>10, <2>1, <2>2, EmitsHolds
<1>12. TypeOK'
  <2>1. given' \in Samples \cup {None}
    BY <1>1, <1>5, <1>6
  <2>2. sessions' \subseteq Present(cells)' /\ hidden' \subseteq Present(cells)'
    BY <1>9, RestTyped
  <2>3. overlapped' \in BOOLEAN /\ resampled' \in BOOLEAN
    BY <1>1, <1>5 DEF TypeOK
  <2>4. /\ unborn' \subseteq Players /\ checkpoint' \in 0 .. now' /\ now' \in 1 .. MaxTick
        /\ requests' \in 0 .. MaxRequests /\ client'.state = "Offline" <=> Self \notin sessions'
        /\ sessions' \cap hidden' = {}
        /\ native' \in BOOLEAN /\ frame' \in Physics \cup {None}
    BY <1>1, <1>5, <1>6 DEF TypeOK
  <2> QED
    BY <1>1, <1>5, <1>6, <1>11, <2>1, <2>2, <2>3, <2>4, Zenon DEF TypeOK
<1>13. Live' => Following'
  <2> SUFFICES ASSUME Live' PROVE Following'
    OBVIOUS
  <2>1. Live /\ Self \in sessions
    BY <1>1 DEF Live
  <2>2. Following
    BY <2>1 DEF IInv
  <2>3. \A m \in Told(client, lane, views) : m.revision \in Revisions /\ m.revision <= revision
    BY <1>5, ToldTyped DEF IInv, Bounded
  <2>4. CASE told
    <3>1. \A m \in Told(client, lane, views) : m.revision < rev
      <4>1. CASE base = None
        <5>1. revision < rev
          BY <1>3, <1>4, <1>5, <1>10, <2>4, <4>1
        <5> QED
          BY <1>5, <1>6, <2>3, <5>1
      <4>2. CASE base # None
        <5>1. Bounded(Told(client, lane, views), base.revision)
          BY <2>2, <4>2 DEF Following, Kept
        <5>2. base.revision \in Nat /\ base.revision < revision
          BY <1>5, <4>2 DEF TypeOK, Bases
        <5> QED
          BY <1>5, <1>6, <2>3, <5>1, <5>2 DEF Bounded
      <4> QED
        BY <4>1, <4>2
    <3>2. Self \in Before.sessions
      BY <1>10, <2>1, <2>2 DEF Following, Kept
    <3>3. e = <<>> => visibleTo(Before.cells) = visibleTo(after)
      BY <1>2, <1>4, <2>4, <3>2
    <3>4. UNCHANGED <<client, resampled>> /\ base' = None
      BY <1>1
    <3> QED
      BY <1>1, <1>6, <1>8, <1>10, <1>11, <2>1, <3>1, <3>3, <3>4, EmitsFollows
  <2>5. CASE ~told
    <3>1. rev = Before.revision
      BY <1>4, <2>1, <2>5
    <3>2. base = None /\ rev = revision
      BY <1>5, <1>6, <1>10, <3>1 DEF TypeOK, Bases
    <3>3. ~changed /\ after = cells
      BY <1>1, <1>3, <1>5, <3>2
    <3>4. lane' = lane /\ views' = views
      BY <1>1, <1>4, <1>5, <2>5, LaneMore
    <3>5. UNCHANGED <<cells, sessions, hidden, unborn, revision, base>> /\ given' = given
      BY <1>1, <1>4, <2>5, <3>2, <3>3
    <3>6. Fits(client, lane, visibleTo(Before.cells))'
      <4>1. visibleTo(Before.cells)' = visibleTo(Before.cells)
        BY <3>2, <3>5 DEF Before, visibleTo, Present
      <4>2. Fits(client', lane', visibleTo(Before.cells))
        BY <1>1, <2>2, <3>4 DEF Following
      <4> QED
        BY <4>1, <4>2, Zenon DEF Fits, Ordered, Led, Leads, IsPath
    <3>7. ~resampled' => Sampled(Snapshots(client', lane', views'), revision', given', cells')
      BY <1>1, <2>2, <3>4, <3>5 DEF Following
    <3>8. Kept'
      BY <1>1 DEF Kept
    <3> QED
      BY <3>6, <3>7, <3>8, PartsLater DEF Following
  <2> QED
    BY <2>4, <2>5
<1> QED
  BY <1>11, <1>12, <1>13 DEF IInv

LEMMA TickHolds ==
  ASSUME IInv, NEW changed \in BOOLEAN, Tick(changed)
  PROVE  IInv'
<1>1. /\ now < MaxTick /\ (changed => revision < MaxRevision)
      /\ \E after \in Places, shown, found \in Frames :
           /\ Present(after) = Present(cells) /\ (after # cells => changed)
           /\ CommitTick(after, IF changed THEN revision + 1 ELSE revision, shown, found)
  BY Zenon DEF Tick
<1>2. PICK after \in Places, shown \in Frames, found \in Frames :
        /\ Present(after) = Present(cells) /\ (after # cells => changed)
        /\ CommitTick(after, IF changed THEN revision + 1 ELSE revision, shown, found)
  BY <1>1, Zenon
<1>3. shown \in Physics \cup {None} /\ found \in Physics \cup {None}
  BY DEF Frames
<1> QED
  BY <1>1, <1>2, <1>3, CommitTickHolds

LEMMA ResyncHolds ==
  ASSUME IInv, resyncConnection
  PROVE  IInv'
<1> DEFINE b == Baseline(cells, revision, checkpoint)
           v == View(cells, revision, checkpoint, frame)
           sample == [tick |-> checkpoint, physics |-> frame]
<1>1. PICK taken \in 1 .. requests : requests' = requests - taken
  BY DEF resyncConnection
<1>2. /\ lane' = Append(lane, b) /\ views' = views \cup {v}
      /\ given' = sample /\ lost' = FALSE
      /\ resampled' = (resampled \/ given \notin {None, sample})
      /\ overlapped' = (overlapped \/ base # None)
      /\ UNCHANGED <<canonical, now, frame, base, client>>
  BY Zenon DEF resyncConnection
<1>3. /\ UNCHANGED <<cells, sessions, hidden, unborn, revision, checkpoint, native, now, frame, base, client>>
  BY <1>2 DEF canonical
<1>4. /\ TypeOK /\ client \in Clients /\ lane \in Seq(Messages) /\ views \in SUBSET Views
      /\ revision \in Revisions /\ checkpoint \in Ticks /\ now \in 1 .. MaxTick /\ cells \in Places
      /\ requests \in 0 .. MaxRequests /\ given \in Samples \cup {None}
      /\ frame \in Physics \cup {None} /\ native \in BOOLEAN
  BY InterestAssumption DEF IInv, TypeOK
<1>5. requests' \in 0 .. MaxRequests /\ requests # 0
  BY <1>1, <1>4, InterestAssumption
<1>6. Self \in sessions
  BY <1>5 DEF IInv, Silent
<1>7. /\ b \in Baselines /\ b.revision = revision /\ b.tick = checkpoint
      /\ b.members = visibleTo(cells)
      /\ v \in Views /\ v.revision = revision /\ v.tick = checkpoint
      /\ v.members = visibleTo(cells) /\ visibleTo(cells) \in SUBSET Players
      /\ v.physics = frame
      /\ sample \in Samples /\ sample.tick = checkpoint /\ sample.physics = frame
  BY <1>4, SamplesTyped, SampleFields
<1> HIDE DEF b, v, sample
<1>8. b \in Messages /\ b.kind = "baseline" /\ b \notin Batches
  <2>1. b \in Messages
    BY <1>7 DEF Messages
  <2> QED
    BY <1>7, <2>1, MessageKinds
<1>9. lane' \in Seq(Messages) /\ Range(lane') = Range(lane) \cup {b}
  BY <1>2, <1>4, <1>8, LaneMore, RangeFacts
<1>10. overlapped' \in BOOLEAN /\ resampled' \in BOOLEAN /\ lost' \in BOOLEAN
  BY <1>2, Zenon
<1>11. TypeOK'
  <2>1. views' \subseteq Views /\ given' \in Samples \cup {None}
    BY <1>2, <1>4, <1>7
  <2>2. /\ sessions' \subseteq Present(cells)' /\ hidden' \subseteq Present(cells)'
    <3>1. sessions' \subseteq Present(cells') /\ hidden' \subseteq Present(cells')
      BY <1>3, <1>4 DEF TypeOK
    <3> QED
      BY <3>1, RestTyped
  <2>3. /\ cells' \in Places /\ revision' \in Revisions /\ checkpoint' \in 0 .. now'
        /\ now' \in 1 .. MaxTick /\ unborn' \subseteq Players /\ client' \in Clients
        /\ client'.state = "Offline" <=> Self \notin sessions'
        /\ sessions' \cap hidden' = {}
        /\ base' = None \/ (base' \in Bases /\ base'.revision < revision')
        /\ native' \in BOOLEAN /\ frame' \in Physics \cup {None}
    BY <1>3, <1>4 DEF TypeOK
  <2> QED
    BY <1>5, <1>9, <1>10, <2>1, <2>2, <2>3, Zenon DEF TypeOK
<1>12. Silent' /\ ViewsShowSelf' /\ RefusalsAreExplained'
  <2>1. Self \in visibleTo(cells)
    BY <1>4, <1>6, SelfIsVisible DEF TypeOK
  <2>2. ViewsShowSelf'
    BY <1>2, <1>7, <2>1 DEF IInv, ViewsShowSelf
  <2>3. Silent'
    BY <1>3, <1>6 DEF IInv, Silent
  <2>4. (overlapped => overlapped') /\ (resampled => resampled')
    BY <1>2, Zenon
  <2>5. RefusalsAreExplained'
    BY <1>3, <2>4 DEF IInv, RefusalsAreExplained
  <2> QED
    BY <2>2, <2>3, <2>5
<1>13. /\ Snapshots(client', lane', views') = Snapshots(client, lane, views) \cup {b, v}
       /\ Told(client', lane', views') = Told(client, lane, views) \cup {b, v}
  <2>1. Snapshots(client', lane', views') = Snapshots(client, lane, views) \cup {b, v}
    BY <1>2, <1>3, <1>7, <1>9 DEF Snapshots
  <2> QED
    BY <1>3, <1>8, <1>9, <2>1 DEF Told
<1>14. Bounded(Told(client', lane', views'), revision')
  BY <1>3, <1>4, <1>7, <1>13 DEF IInv, Bounded
<1>15. Covered(client', lane', views', lost')
  <2>1. ASSUME NEW x \in Held(client'.baseline) \cup (Range(lane') \cap Baselines)
        PROVE  x.revision <= v.revision
    <3>1. x \in Told(client', lane', views')
      BY DEF Told, Snapshots
    <3> QED
      BY <1>3, <1>7, <1>14, <3>1 DEF Bounded
  <2> QED
    BY <2>1, <1>2 DEF Covered
<1>16. Live' => Following'
  <2> SUFFICES ASSUME Live' PROVE Following'
    OBVIOUS
  <2>1. ~overlapped /\ base = None
    BY <1>2, Zenon DEF Live
  <2>2. Live
    BY <1>3, <2>1 DEF Live
  <2>3. /\ Fits(client, lane, visibleTo(Before.cells))
        /\ ~resampled => Sampled(Snapshots(client, lane, views), revision, given, cells)
    BY <2>2 DEF IInv, Following
  <2>4. Fits(client, lane, visibleTo(Before.cells))'
    <3>1. \A m \in Told(client, lane, views) : Follows(m, b)
      BY <1>7, <1>8 DEF IInv, Bounded, Follows
    <3>2. /\ \A n \in Held(client.baseline) \cup Held(client.batch) : Follows(n, b)
          /\ \A i \in DOMAIN lane : lane[i].kind # "accepted" => Follows(lane[i], b)
      BY <1>4, <3>1, ToldTyped
    <3>3. Observes(b, visibleTo(Before.cells), visibleTo(cells))
      BY <1>7, <1>8 DEF Observes
    <3>4. Fits(client, Append(lane, b), visibleTo(cells))
      BY <1>4, <1>7, <1>8, <2>3, <3>2, <3>3, FitsMore
    <3>5. visibleTo(Before.cells)' = visibleTo(cells)
      BY <1>3, <2>1 DEF Before, visibleTo, Present
    <3>6. Fits(client', lane', visibleTo(cells))
      BY <1>2, <1>3, <3>4
    <3> QED
      BY <3>5, <3>6, Zenon DEF Fits, Ordered, Led, Leads, IsPath
  <2>5. Kept'
    BY <1>3, <2>1 DEF Kept
  <2>6. ASSUME ~resampled'
        PROVE  Sampled(Snapshots(client', lane', views'), revision', given', cells')
    <3>1. ~resampled /\ given \in {None, sample}
      BY <1>2, <2>6, Zenon
    <3>2. Sampled(Snapshots(client, lane, views), revision, given, cells)
      BY <2>3, <3>1
    <3>3. \A m \in Snapshots(client, lane, views) :
            m.revision = revision => m.tick = checkpoint /\ m.members = visibleTo(cells)
      BY <1>7, <3>1, <3>2 DEF Sampled
    <3>4. \A m \in Snapshots(client, lane, views) \cap Views :
            m.revision = revision => m.physics = frame
      BY <1>7, <3>1, <3>2 DEF Sampled
    <3>5. b \notin Views /\ sample # None
      BY <1>7, BaselinesAreNoViews, NoneAssumption
    <3>6. Sampled(Snapshots(client, lane, views) \cup {b, v}, revision, sample, cells)
      BY <1>7, <3>2, <3>3, <3>4, <3>5 DEF Sampled
    <3> QED
      BY <1>2, <1>3, <1>13, <3>6
  <2> QED
    BY <2>4, <2>5, <2>6, PartsLater DEF Following
<1> QED
  BY <1>11, <1>12, <1>14, <1>15, <1>16, PartsLater DEF IInv

\* A greeting fits the client that is not told anything yet.
LEMMA GreetingFits ==
  ASSUME NEW b \in Baselines
  PROVE  Fits(NewClient, <<Accepted, b>>, b.members)
<1> DEFINE s == <<Accepted, b>>
           path == [i \in 0 .. 2 |-> IF i = 2 THEN b.members ELSE {}]
<1>1. /\ DOMAIN s = {1, 2} /\ Len(s) = 2 /\ s[1] = Accepted /\ s[2] = b
      /\ b.kind = "baseline" /\ Accepted.kind = "accepted" /\ b.members \in SUBSET Players
  BY GreetingLane DEF Baselines, Accepted
<1> HIDE DEF s
<1>2. Ordered(NewClient, s)
  BY <1>1, FixedClients DEF Ordered, Held
<1>3. Led(NewClient, s)
  BY <1>1, FixedClients DEF Led
<1>4. IsPath(path, NewClient, s) /\ path[Len(s)] = b.members
  <2>1. path[0] = {} /\ path[1] = {} /\ path[2] = b.members
    OBVIOUS
  <2>2. path \in [0 .. Len(s) -> SUBSET Players]
    BY <1>1
  <2>3. 1 - 1 = 0 /\ 2 - 1 = 1
    OBVIOUS
  <2> HIDE DEF path
  <2> QED
    BY <1>1, <2>1, <2>2, <2>3, FixedClients DEF IsPath, Observes
<1> HIDE DEF path
<1>5. Leads(NewClient, s, b.members)
  BY <1>4 DEF Leads
<1> QED
  BY <1>2, <1>3, <1>5 DEF Fits, s

LEMMA GreetHolds ==
  ASSUME IInv, NEW after \in Places, NEW physics \in Physics \cup {None},
         Greet(after, physics),
         cells' = after, revision < MaxRevision, revision' = revision + 1,
         checkpoint' = now, UNCHANGED <<unborn, native, now, base>>,
         sessions' \subseteq Present(after), hidden' \subseteq Present(after),
         sessions' \cap hidden' = {}, Self \in sessions'
  PROVE  IInv'
<1> DEFINE b == Baseline(after, revision + 1, now)
           v == View(after, revision + 1, now, physics)
           sample == [tick |-> now, physics |-> physics]
<1>1. /\ client' = NewClient /\ lane' = <<Accepted, b>> /\ views' = {v} /\ requests' = 0
      /\ given' = sample /\ frame' = physics
      /\ overlapped' = (base # None) /\ resampled' = FALSE /\ lost' = FALSE
  BY Zenon DEF Greet
<1>2. /\ TypeOK /\ revision \in Nat /\ revision + 1 \in Revisions /\ now \in Ticks
      /\ now \in 1 .. MaxTick
  BY InterestAssumption DEF IInv, TypeOK
<1>3. /\ b \in Baselines /\ b.revision = revision + 1 /\ b.tick = now
      /\ b.members = visibleTo(after)
      /\ v \in Views /\ v.revision = revision + 1 /\ v.tick = now
      /\ v.members = visibleTo(after) /\ v.physics = physics
      /\ sample \in Samples /\ sample.tick = now /\ sample.physics = physics
  BY <1>2, SamplesTyped, SampleFields
<1> HIDE DEF b, v, sample
<1>4. Accepted \notin Baselines /\ Accepted \notin Batches /\ b \notin Batches
  <2>1. Accepted \in Messages /\ b \in Messages
    BY <1>3 DEF Messages
  <2> QED
    BY <1>3, <2>1, MessageKinds DEF Accepted
<1>5. lane' \in Seq(Messages) /\ Range(lane') = {Accepted, b}
  BY <1>1, <1>3, GreetingLane
<1>6. /\ Snapshots(client', lane', views') = {b, v}
      /\ Told(client', lane', views') = {b, v}
  <2>1. Snapshots(client', lane', views') = {b, v}
    BY <1>1, <1>3, <1>4, <1>5, FixedClients DEF Snapshots, Held
  <2> QED
    BY <1>1, <1>4, <1>5, <2>1, FixedClients DEF Told, Held
<1>7. Bounded(Told(client', lane', views'), revision')
  BY <1>2, <1>3, <1>6 DEF Bounded
<1>8. Covered(client', lane', views', lost')
  BY <1>1, <1>2, <1>3, <1>4, <1>5, FixedClients DEF Covered, Held
<1>9. Silent' /\ ViewsShowSelf' /\ RefusalsAreExplained'
  <2>1. Self \in visibleTo(after)
    BY SelfIsVisible
  <2> QED
    BY <1>1, <1>3, <2>1, FixedClients DEF Silent, ViewsShowSelf, RefusalsAreExplained
<1>10. TypeOK'
  <2>1. overlapped' \in BOOLEAN /\ resampled' \in BOOLEAN /\ lost' \in BOOLEAN
    BY <1>1, Zenon
  <2>2. sessions' \subseteq Present(cells)' /\ hidden' \subseteq Present(cells)'
    BY RestTyped
  <2>3. base' = None \/ (base' \in Bases /\ base'.revision < revision')
    BY <1>2 DEF TypeOK, Bases
  <2>4. /\ unborn' \subseteq Players /\ checkpoint' \in 0 .. now' /\ now' \in 1 .. MaxTick
        /\ requests' \in 0 .. MaxRequests /\ given' \in Samples \cup {None}
        /\ revision' \in Revisions /\ views' \subseteq Views
        /\ native' \in BOOLEAN /\ frame' \in Physics \cup {None}
    BY <1>1, <1>2, <1>3, InterestAssumption DEF TypeOK
  <2>5. client'.state = "Offline" <=> Self \notin sessions'
    BY <1>1, FixedClients
  <2>6. client' \in Clients
    BY <1>1, FixedClients
  <2> QED
    BY <1>5, <2>1, <2>2, <2>3, <2>4, <2>5, <2>6, Zenon DEF TypeOK
<1>11. Live' => Following'
  <2> SUFFICES ASSUME Live' PROVE Following'
    OBVIOUS
  <2>1. base = None
    BY <1>1, Zenon DEF Live
  <2>2. Fits(client, lane, visibleTo(Before.cells))'
    <3>1. visibleTo(Before.cells)' = b.members
      BY <1>3, <2>1 DEF Before, visibleTo, Present
    <3>2. Fits(client', lane', b.members)
      BY <1>1, <1>3, GreetingFits
    <3> QED
      BY <3>1, <3>2, Zenon DEF Fits, Ordered, Led, Leads, IsPath
  <2>3. Kept'
    BY <2>1 DEF Kept
  <2>4. Sampled(Snapshots(client', lane', views'), revision', given', cells')
    <3>1. \A m \in {b, v} : m.tick = sample.tick /\ m.members = visibleTo(cells')
      BY <1>3
    <3>2. sample # None /\ \A m \in {b, v} \cap Views : m.physics = sample.physics
      BY <1>3, BaselinesAreNoViews, NoneAssumption
    <3>3. Sampled({b, v}, revision', sample, cells')
      BY <3>1, <3>2, Zenon DEF Sampled
    <3> QED
      BY <1>1, <1>6, <3>3
  <2> QED
    BY <2>2, <2>3, <2>4, PartsLater DEF Following
<1> QED
  BY <1>7, <1>8, <1>9, <1>10, <1>11, PartsLater DEF IInv

\* A new revision of which nobody is told.
LEMMA UntoldHolds ==
  ASSUME IInv, UNCHANGED <<client, wire, overlapped, resampled, lost>>,
         revision' \in Revisions, revision < revision',
         Self \in sessions' <=> Self \in sessions, given' = None,
         TypeOK', Live => Kept', Before'.cells = Before.cells
  PROVE  IInv'
<1>1. UNCHANGED <<lane, views, requests, client, overlapped, resampled, lost>>
  BY DEF wire
<1>2. /\ TypeOK /\ revision \in Nat /\ revision' \in Nat /\ client \in Clients
      /\ lane \in Seq(Messages) /\ views \in SUBSET Views
  BY DEF IInv, TypeOK
<1>3. \A m \in Told(client, lane, views) : m.revision \in Nat /\ m.revision < revision'
  BY <1>2, ToldTyped DEF IInv, Bounded
<1>4. Bounded(Told(client', lane', views'), revision')
  BY <1>1, <1>3 DEF Bounded
<1>5. Covered(client', lane', views', lost')
  BY <1>1 DEF IInv
<1>6. Silent' /\ ViewsShowSelf' /\ RefusalsAreExplained'
  BY <1>1 DEF IInv, Silent, ViewsShowSelf, RefusalsAreExplained
<1>7. Live' => Following'
  <2> SUFFICES ASSUME Live' PROVE Following'
    OBVIOUS
  <2>1. Live
    BY <1>1 DEF Live
  <2>2. /\ Fits(client, lane, visibleTo(Before.cells))
        /\ ~resampled => Sampled(Snapshots(client, lane, views), revision, given, cells)
    BY <2>1 DEF IInv, Following
  <2>3. Fits(client, lane, visibleTo(Before.cells))'
    <3>1. visibleTo(Before.cells)' = visibleTo(Before.cells)
      BY DEF visibleTo, Present
    <3>2. Fits(client', lane', visibleTo(Before.cells))
      BY <1>1, <2>2
    <3> QED
      BY <3>1, <3>2, Zenon DEF Fits, Ordered, Led, Leads, IsPath
  <2>4. ~resampled' => Sampled(Snapshots(client', lane', views'), revision', given', cells')
    <3>1. \A m \in Snapshots(client, lane, views) : m.revision \in Nat /\ m.revision < revision'
      BY <1>2, <1>3, ToldTyped
    <3> QED
      BY <1>1, <1>2, <2>2, <3>1, SampledLater
  <2> QED
    BY <2>1, <2>3, <2>4, PartsLater DEF Following
<1> QED
  BY <1>4, <1>5, <1>6, <1>7, PartsLater DEF IInv

LEMMA DisconnectHolds ==
  ASSUME IInv, NEW ps \in SUBSET Players, Disconnect(ps)
  PROVE  IInv'
<1>1. PICK tick \in {now, checkpoint} : Publish(tick)
  BY DEF Disconnect
<1>2. /\ ps \subseteq sessions /\ sessions' = sessions \ ps /\ hidden' = hidden \cup ps
      /\ base' = IF base = None THEN None ELSE [base EXCEPT !.sessions = @ \ ps]
      /\ IF Self \in ps
         THEN /\ client' = Offline
              /\ lane' = <<>> /\ views' = {} /\ requests' = 0
              /\ overlapped' = FALSE /\ resampled' = FALSE /\ lost' = FALSE
         ELSE UNCHANGED <<client, wire, overlapped, resampled, lost>>
      /\ given' = None
      /\ UNCHANGED <<cells, unborn, native, now, frame>>
  BY DEF Disconnect
<1>3. revision < MaxRevision /\ revision' = revision + 1 /\ checkpoint' = tick
  BY <1>1 DEF Publish
<1>4. /\ TypeOK /\ client \in Clients /\ revision \in Revisions /\ now \in 1 .. MaxTick
      /\ checkpoint \in 0 .. now /\ sessions \cap hidden = {}
      /\ sessions \subseteq Present(cells) /\ hidden \subseteq Present(cells)
      /\ client.state = "Offline" <=> Self \notin sessions
  BY DEF IInv, TypeOK
<1>5. revision' \in Revisions /\ revision < revision' /\ checkpoint' \in 0 .. now'
  BY <1>1, <1>2, <1>3, <1>4, InterestAssumption
<1>6. /\ base = None => base' = None
      /\ base # None => /\ base \in Bases /\ base' \in Bases /\ base' # None
                        /\ base'.revision = base.revision /\ base'.cells = base.cells
                        /\ base'.sessions = base.sessions \ ps /\ base.revision < revision
  <2>1. ASSUME base # None PROVE base \in Bases /\ base.revision < revision
    BY <2>1, <1>4 DEF TypeOK
  <2>2. ASSUME base # None
        PROVE  /\ base' \in Bases /\ base'.revision = base.revision /\ base'.cells = base.cells
               /\ base'.sessions = base.sessions \ ps
    BY <1>2, <2>1, <2>2 DEF Bases
  <2> QED
    BY <1>2, <2>1, <2>2, NoneAssumption
<1>7. /\ sessions' \subseteq Present(cells)' /\ hidden' \subseteq Present(cells)'
  <2>1. sessions' \subseteq Present(cells') /\ hidden' \subseteq Present(cells')
    BY <1>2, <1>4
  <2> QED
    BY <2>1, RestTyped
<1>8. ASSUME lane' \in Seq(Messages), views' \subseteq Views, requests' \in 0 .. MaxRequests,
             client' \in Clients, client'.state = "Offline" <=> Self \notin sessions',
             overlapped' \in BOOLEAN, resampled' \in BOOLEAN, lost' \in BOOLEAN
      PROVE  TypeOK'
  <2>1. base' = None \/ (base' \in Bases /\ base'.revision < revision')
    <3>1. base # None => base.revision \in Nat
      BY <1>6 DEF Bases
    <3> QED
      BY <1>3, <1>4, <1>6, <3>1
  <2>2. /\ cells' \in Places /\ unborn' \subseteq Players /\ now' \in 1 .. MaxTick
        /\ sessions' \cap hidden' = {} /\ given' \in Samples \cup {None}
        /\ native' \in BOOLEAN /\ frame' \in Physics \cup {None}
    BY <1>2, <1>4 DEF TypeOK
  <2> QED
    BY <1>5, <1>7, <1>8, <2>1, <2>2, Zenon DEF TypeOK
<1>9. CASE Self \in ps
  <2>1. /\ client' = Offline /\ lane' = <<>> /\ views' = {} /\ requests' = 0
        /\ overlapped' = FALSE /\ resampled' = FALSE /\ lost' = FALSE
        /\ Self \notin sessions'
    BY <1>2, <1>9
  <2>2. TypeOK'
    <3>1. /\ client' \in Clients /\ client'.state = "Offline" /\ lane' \in Seq(Messages)
          /\ views' \subseteq Views /\ requests' \in 0 .. MaxRequests
      BY <2>1, FixedClients, InterestAssumption
    <3>2. overlapped' \in BOOLEAN /\ resampled' \in BOOLEAN /\ lost' \in BOOLEAN
      BY <2>1, Zenon
    <3> QED
      BY <1>8, <2>1, <3>1, <3>2
  <2>3. Bounded(Told(client', lane', views'), revision') /\ Covered(client', lane', views', lost')
    BY <2>1, NobodyTold DEF Bounded
  <2>4. Silent' /\ ViewsShowSelf' /\ RefusalsAreExplained' /\ ~Live'
    BY <2>1, FixedClients DEF Silent, ViewsShowSelf, RefusalsAreExplained, Live
  <2> QED
    BY <2>2, <2>3, <2>4, PartsLater DEF IInv
<1>10. CASE Self \notin ps
  <2>1. UNCHANGED <<client, wire, overlapped, resampled, lost>>
    BY <1>2, <1>10
  <2>2. UNCHANGED <<lane, views, requests>>
    BY <2>1 DEF wire
  <2>3. Self \in sessions' <=> Self \in sessions
    BY <1>2, <1>10
  <2>4. TypeOK'
    BY <1>4, <1>8, <2>1, <2>2, <2>3 DEF TypeOK
  <2>5. Before'.cells = Before.cells
    BY <1>2, <1>6 DEF Before
  <2>6. ASSUME Live PROVE Kept'
    <3>1. Kept
      BY <2>6 DEF IInv, Following
    <3>2. ASSUME base' # None
          PROVE  /\ Self \in base'.sessions
                 /\ Bounded(Told(client', lane', views'), base'.revision)
      BY <3>2, <1>6, <1>10, <2>1, <2>2, <3>1 DEF Kept
    <3> QED
      BY <1>2, <3>2, PartsLater DEF Kept
  <2> QED
    BY <1>2, <1>5, <2>1, <2>3, <2>4, <2>5, <2>6, UntoldHolds
<1> QED
  BY <1>9, <1>10

LEMMA CompleteHolds ==
  ASSUME IInv, NEW p \in Players, NEW c \in Cells, CompleteCharacter(p, c)
  PROVE  IInv'
<1> DEFINE kept == [cells |-> cells, sessions |-> sessions, revision |-> revision]
<1>1. /\ p \in sessions \cap unborn
      /\ cells' = [cells EXCEPT ![p] = c] /\ unborn' = unborn \ {p}
      /\ Publish(now)
      /\ base' = IF base # None THEN base ELSE kept
      /\ given' = None
      /\ UNCHANGED <<sessions, hidden, native, now, frame, wire, client>>
      /\ UNCHANGED <<overlapped, resampled, lost>>
  BY DEF CompleteCharacter
<1>2. revision < MaxRevision /\ revision' = revision + 1 /\ checkpoint' = now
  BY <1>1 DEF Publish
<1>3. /\ TypeOK /\ client \in Clients /\ revision \in Revisions /\ now \in 1 .. MaxTick
      /\ cells \in Places /\ sessions \subseteq Present(cells) /\ hidden \subseteq Present(cells)
  BY DEF IInv, TypeOK
<1>4. revision' \in Revisions /\ revision < revision' /\ checkpoint' \in 0 .. now'
  BY <1>1, <1>2, <1>3, InterestAssumption
<1>5. /\ kept \in Bases /\ kept # None /\ kept.cells = cells /\ kept.sessions = sessions
      /\ kept.revision = revision
  <2>1. sessions \in SUBSET Players
    BY <1>3 DEF Present
  <2>2. kept \in Bases
    BY <1>3, <2>1 DEF Bases
  <2> QED
    BY <2>2, NoneAssumption
<1> HIDE DEF kept
<1>6. cells' \in Places /\ Present(cells) \subseteq Present(cells')
  <2>1. cells' \in Places
    BY <1>1, <1>3 DEF Places
  <2>2. \A q \in Players : cells'[q] = IF q = p THEN c ELSE cells[q]
    BY <1>1, <1>3 DEF Places
  <2> QED
    BY <2>1, <2>2, InterestAssumption DEF Present
<1>7. UNCHANGED <<lane, views, requests>>
  BY <1>1 DEF wire
<1>8. TypeOK'
  <2>1. base' = None \/ (base' \in Bases /\ base'.revision < revision')
    <3>1. base # None => base.revision \in Nat
      BY <1>3 DEF TypeOK, Bases
    <3> QED
      BY <1>1, <1>2, <1>3, <1>5, <3>1 DEF TypeOK
  <2>2. /\ sessions' \subseteq Present(cells)' /\ hidden' \subseteq Present(cells)'
    <3>1. sessions' \subseteq Present(cells') /\ hidden' \subseteq Present(cells')
      BY <1>1, <1>3, <1>6
    <3> QED
      BY <3>1, RestTyped
  <2>3. /\ unborn' \subseteq Players /\ now' \in 1 .. MaxTick
        /\ sessions' \cap hidden' = {} /\ given' \in Samples \cup {None}
        /\ lane' \in Seq(Messages) /\ views' \subseteq Views /\ requests' \in 0 .. MaxRequests
        /\ client' \in Clients /\ (client'.state = "Offline" <=> Self \notin sessions')
        /\ overlapped' \in BOOLEAN /\ resampled' \in BOOLEAN /\ lost' \in BOOLEAN
        /\ native' \in BOOLEAN /\ frame' \in Physics \cup {None}
    BY <1>1, <1>3, <1>7 DEF TypeOK
  <2> QED
    BY <1>4, <1>6, <2>1, <2>2, <2>3, Zenon DEF TypeOK
<1>9. Before'.cells = Before.cells
  BY <1>1, <1>5 DEF Before
<1>10. ASSUME Live PROVE Kept'
  <2>1. Kept /\ Self \in sessions
    BY <1>10 DEF IInv, Following, Live
  <2>2. Self \in base'.sessions /\ Bounded(Told(client', lane', views'), base'.revision)
    <3>1. CASE base # None
      BY <1>1, <1>7, <2>1, <3>1 DEF Kept
    <3>2. CASE base = None
      BY <1>1, <1>5, <1>7, <2>1, <3>2 DEF IInv
    <3> QED
      BY <3>1, <3>2
  <2> QED
    BY <1>1, <2>2, PartsLater DEF Kept
<1> QED
  BY <1>1, <1>4, <1>8, <1>9, <1>10, UntoldHolds

-----------------------------------------------------------------------------
(* The theorems. *)

LEMMA NextHolds ==
  ASSUME IInv, [Next]_vars
  PROVE  IInv'
<1>1. /\ TypeOK /\ cells \in Places /\ sessions \cap hidden = {}
      /\ sessions \subseteq Present(cells) /\ hidden \subseteq Present(cells)
  BY DEF IInv, TypeOK
<1>2. ASSUME NEW p \in Players, Resume(p) PROVE IInv'
  <2>1. /\ p \in hidden
        /\ sessions' = sessions \cup {p} /\ hidden' = hidden \ {p}
        /\ revision < MaxRevision /\ revision' = revision + 1 /\ checkpoint' = now
        /\ UNCHANGED <<cells, unborn, native, now, base>>
    BY <1>2 DEF Resume, Publish
  <2>2. /\ sessions' \subseteq Present(cells) /\ hidden' \subseteq Present(cells)
        /\ sessions' \cap hidden' = {}
    BY <1>1, <2>1
  <2>3. CASE p = Self
    <3>1. Self \in sessions'
      BY <2>1, <2>3
    <3>2. PICK physics \in Resumed : Greet(cells, physics)
      BY <1>2, <2>3, Zenon DEF Resume
    <3>3. physics \in Physics \cup {None}
      BY DEF Resumed
    <3> QED
      BY <1>1, <2>1, <2>2, <3>1, <3>2, <3>3, GreetHolds
  <2>4. CASE p # Self
    <3>1. Inform(cells) /\ (Self \in sessions' <=> Self \in sessions)
      BY <1>2, <2>1, <2>4 DEF Resume
    <3> QED
      BY <1>1, <2>1, <2>2, <3>1, InformHolds
  <2> QED
    BY <2>3, <2>4
<1>3. ASSUME NEW p \in Players, Expire(p) PROVE IInv'
  <2> DEFINE after == [cells EXCEPT ![p] = Away]
  <2>1. /\ p \in hidden /\ cells' = after /\ hidden' = hidden \ {p} /\ sessions' = sessions
        /\ revision < MaxRevision /\ revision' = revision + 1 /\ checkpoint' = now
        /\ Inform(after) /\ UNCHANGED <<unborn, native, now, base>>
    BY <1>3 DEF Expire, Publish
  <2>2. after \in Places /\ \A q \in Players : q # p => after[q] = cells[q]
    BY <1>1 DEF Places
  <2> HIDE DEF after
  <2>3. /\ sessions' \subseteq Present(after) /\ hidden' \subseteq Present(after)
        /\ sessions' \cap hidden' = {} /\ (Self \in sessions' <=> Self \in sessions)
    BY <1>1, <2>1, <2>2 DEF Present
  <2> QED
    BY <2>1, <2>2, <2>3, InformHolds
<1>4. ASSUME NEW p \in Players, NEW c \in Cells, Join(p, c) PROVE IInv'
  <2> DEFINE at == IF cells[p] # Away /\ p \notin unborn THEN cells[p] ELSE c
             after == [cells EXCEPT ![p] = at]
  <2>1. /\ p \notin sessions /\ cells' = after
        /\ sessions' = sessions \cup {p} /\ hidden' = hidden \ {p}
        /\ revision < MaxRevision /\ revision' = revision + 1 /\ checkpoint' = now
        /\ IF p = Self THEN Greet(after, None) ELSE Inform(after)
        /\ UNCHANGED <<unborn, native, now, base>>
    BY <1>4 DEF Join, Publish
  <2>2. at \in Cells
    BY <1>1, InterestAssumption DEF Places
  <2> HIDE DEF at
  <2>3. after \in Places /\ \A q \in Players : after[q] = IF q = p THEN at ELSE cells[q]
    BY <1>1, <2>2 DEF Places
  <2> HIDE DEF after
  <2>4. /\ sessions' \subseteq Present(after) /\ hidden' \subseteq Present(after)
        /\ sessions' \cap hidden' = {}
    BY <1>1, <2>1, <2>2, <2>3, InterestAssumption DEF Present
  <2>5. CASE p = Self
    <3>1. Greet(after, None) /\ Self \in sessions'
      BY <2>1, <2>5
    <3> QED
      BY <2>1, <2>3, <2>4, <3>1, GreetHolds
  <2>6. CASE p # Self
    <3>1. Inform(after) /\ (Self \in sessions' <=> Self \in sessions)
      BY <2>1, <2>6
    <3> QED
      BY <2>1, <2>3, <2>4, <3>1, InformHolds
  <2> QED
    BY <2>5, <2>6
<1>5. CASE UNCHANGED vars
  <2>1. /\ UNCHANGED <<canonical, now, frame, base, lane, overlapped, resampled, given>>
        /\ UNCHANGED <<client, views, requests, lost>>
    BY <1>5 DEF vars, wire, history
  <2>2. /\ client \in Clients /\ requests \in 0 .. MaxRequests /\ lost \in BOOLEAN
        /\ Covered(client, lane, views, lost) /\ (Self \notin sessions => requests = 0)
    BY DEF IInv, TypeOK, Silent
  <2> QED
    BY <2>1, <2>2, QuietHolds DEF Same
<1> QED
  BY <1>2, <1>3, <1>4, <1>5, CompleteHolds, DisconnectHolds, TickHolds, ResyncHolds,
     ReceiveReliableHolds, ReceiveViewHolds, LoseViewHolds, RequestHolds DEF Next

\* The inductive invariant holds in every state that Spec reaches.
THEOREM Invariance == Spec => []IInv
<1>1. IInv /\ [Next]_vars => IInv'
  BY NextHolds
<1> QED
  BY <1>1, InitHolds, PTL DEF Spec

\* The canonical state, what is on its way and what the client keeps have the
\* types the code gives them, and a session is one of a player in the world.
THEOREM InterestTypeCorrect == Spec => []TypeOK
<1>1. IInv => TypeOK
  BY DEF IInv
<1> QED
  BY <1>1, Invariance, PTL

\* A client closes its session over what it is told about players only after a
\* stale mDirectMutationBase, or a resync of an unchanged revision on another
\* tick or with other physics than the view it was given before (reject() in
\* client_session.cpp), however views are lost or reordered.
THEOREM RefusalsExplained == Spec => []RefusalsAreExplained
<1>1. IInv => RefusalsAreExplained
  BY DEF IInv
<1> QED
  BY <1>1, Invariance, PTL

\* The client observes whom the server told of, once it has taken the reliable
\* lane, of any length: no batch of projectInterestChanges() is missing, early or
\* told twice.
THEOREM ObservedMatches == Spec => []ObservedMatchesServer
<1>1. ASSUME IInv PROVE ObservedMatchesServer
  <2>1. ASSUME Live
        PROVE  LET c == FoldLeft(receiveReliable, client, lane)
               IN  c.state = "Refused" \/ c.observed = visibleTo(Before.cells)
    <3>1. client \in Clients /\ lane \in Seq(Messages)
      BY <1>1 DEF IInv, TypeOK
    <3>2. client.state # "Refused" /\ Fits(client, lane, visibleTo(Before.cells))
      BY <1>1, <2>1 DEF IInv, Live, Following
    <3> QED
      BY <3>1, <3>2, FoldObserves
  <2> QED
    BY <2>1, Zenon DEF ObservedMatchesServer, Live
<1> QED
  BY <1>1, Invariance, PTL

\* A baseline that no view completes waits for one on its way, or the last view
\* was lost.
THEOREM CompletionOnlyLost == Spec => []CompletionIsOnlyLost
<1>1. ASSUME IInv PROVE CompletionIsOnlyLost
  <2> SUFFICES ASSUME client.baseline # None, ~interestBaselineComplete(client), ~lost
               PROVE  \E view \in views : view.revision >= client.baseline.revision
    BY DEF CompletionIsOnlyLost
  <2>1. client \in Clients /\ views \in SUBSET Views
    BY <1>1 DEF IInv, TypeOK
  <2>2. client.baseline \in Held(client.baseline)
    BY DEF Held
  <2>3. PICK v \in views \cup Held(client.snapshot) : client.baseline.revision <= v.revision
    BY <1>1, <2>2 DEF IInv, Covered
  <2>4. v.revision \in Nat /\ client.baseline.revision \in Nat
    BY <2>1, ClientFields DEF Held, Baselines, Views
  <2>5. v \notin Held(client.snapshot)
    BY <2>3, <2>4 DEF interestBaselineComplete, Held
  <2> QED
    BY <2>3, <2>4, <2>5
<1> QED
  BY <1>1, Invariance, PTL
=============================================================================
