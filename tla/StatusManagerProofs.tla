------------------------ MODULE StatusManagerProofs ------------------------
(***************************************************************************)
(* Theorems about StatusManager, for every sequence of manifests, both     *)
(* platforms, any number of workloads and every bound.                     *)
(***************************************************************************)
EXTENDS StatusManager, TLAPS

\* The fields of the records that EXCEPT is applied to
OperatorShape(c) ==
  c = [conditions |-> c.conditions, related |-> c.related,
       version |-> c.version, lastSeen |-> c.lastSeen]
RoundShape ==
  round = [new |-> round.new, reached |-> round.reached, tries |-> round.tries,
           base |-> round.base, found |-> round.found, current |-> round.current,
           pending |-> round.pending]

ShapeInv ==
  /\ co # Nil => OperatorShape(co)
  /\ coCache # Nil => OperatorShape(coCache)
  /\ RoundShape
  /\ OperatorShape(round.base)

\* Until a lookup fails, what has been published holds what is being applied
PublishedInv ==
  failures = 0 /\ (applying \/ related # Nil) => Manifest[version] \subseteq related

\* Until set writes: what it read is still there if it is allowed to write, and what
\* it is going to drop from the list is still to be deleted, gone, or a namespace
RoundInv ==
  pc = "clean" =>
    /\ round.found /\ round.current => co.related = round.base.related
    /\ related # Nil \/ round.pending # {} =>
         \A o \in round.base.related \ related :
           \/ o \in round.pending \/ o \in Namespaces \/ o \notin existing
           \/ o \in Manifest[version] /\ failures > 0

\* What it is going to delete is not published, nor rendered unless a lookup failed
PendingInv ==
  pc = "clean" =>
    /\ \A o \in round.pending : o \notin related
    /\ failures = 0 => round.pending \cap Manifest[version] = {}

CacheInv == synced => coCache = co

RelatedInv ==
  failures \in Nat /\ ShapeInv /\ PublishedInv /\ RoundInv /\ PendingInv /\ CacheInv

\* No step fails more than one call
FailuresCount == failures' \in {failures, failures + 1}

-----------------------------------------------------------------------------
\* Setting the annotation changes neither the list nor the fields.
LEMMA LastSeenShape ==
  ASSUME NEW c, OperatorShape(c), NEW l
  PROVE  /\ OperatorShape([c EXCEPT !.lastSeen = l])
         /\ [c EXCEPT !.lastSeen = l].related = c.related
<1>1. [c EXCEPT !.lastSeen = l] =
        [conditions |-> c.conditions, related |-> c.related,
         version |-> c.version, lastSeen |-> l]
  BY DEF OperatorShape
<1> QED
  BY <1>1 DEF OperatorShape

\* Time changes neither the list nor the fields.
LEMMA AgedRelated ==
  ASSUME NEW c, c = Nil \/ OperatorShape(c)
  PROVE  /\ AgedOperator(c).related = c.related
         /\ OperatorShape(c) => OperatorShape(AgedOperator(c))
<1>1. CASE c = Nil
  BY <1>1 DEF AgedOperator
<1>2. CASE c # Nil
  <2> DEFINE l == Aged(c.lastSeen)
  <2>1. AgedOperator(c) = [c EXCEPT !.lastSeen = l]
    BY <1>2 DEF AgedOperator
  <2>2. OperatorShape(c)
    BY <1>2
  <2> HIDE DEF l
  <2>3. AgedOperator(c) = [conditions |-> c.conditions, related |-> c.related,
                           version |-> c.version, lastSeen |-> l]
    BY <2>1, <2>2 DEF OperatorShape
  <2> QED
    BY <2>3 DEF OperatorShape
<1> QED
  BY <1>1, <1>2

\* A read of the cache starts a round that satisfies the invariant.
LEMMA ReadKeepsInv ==
  ASSUME RelatedInv, NEW n, NEW r, NEW t, ReadOperator(n, r, t),
         UNCHANGED <<co, existing, coCache, synced, version, related, applying>>, FailuresCount
  PROVE  RelatedInv'
<1> DEFINE b == IF coCache # Nil THEN coCache ELSE NoOperator
<1>1. /\ round' = [new |-> n, reached |-> r, tries |-> t, base |-> b,
                   found |-> (coCache # Nil), current |-> synced,
                   pending |-> IF related = Nil THEN {} ELSE b.related \ related]
      /\ pc' = "clean"
  BY DEF ReadOperator
<1>2. OperatorShape(b)
  BY DEF RelatedInv, ShapeInv, NoOperator, OperatorShape
<1> HIDE DEF b
<1>3. ShapeInv'
  BY <1>1, <1>2 DEF RelatedInv, ShapeInv, RoundShape, OperatorShape
<1>4. RoundInv'
  <2>1. round'.found /\ round'.current => co.related = b.related
    BY <1>1 DEF RelatedInv, CacheInv, b
  <2>2. round'.pending = IF related = Nil THEN {} ELSE b.related \ related
    BY <1>1
  <2> QED
    BY <1>1, <2>1, <2>2 DEF RoundInv
<1>5. PendingInv'
  BY <1>1 DEF PendingInv, RelatedInv, PublishedInv, FailuresCount
<1> QED
  BY <1>3, <1>4, <1>5 DEF RelatedInv, PublishedInv, CacheInv, FailuresCount

\* A call that returns leaves no round to speak of.
LEMMA DoneKeepsInv ==
  ASSUME RelatedInv, CallDone,
         UNCHANGED <<co, coCache, synced, version, related, applying>>, FailuresCount
  PROVE  RelatedInv'
<1>1. round' = NoRound /\ pc' # "clean"
  BY DEF CallDone
<1>2. ShapeInv'
  BY <1>1 DEF RelatedInv, ShapeInv, RoundShape, OperatorShape, NoRound, NoOperator
<1> QED
  BY <1>1, <1>2 DEF RelatedInv, PublishedInv, RoundInv,
     PendingInv, CacheInv, FailuresCount

\* So does one that writes the ClusterOperator first.
LEMMA WriteKeepsInv ==
  ASSUME RelatedInv, CallDone, NEW c, OperatorShape(c), WriteOperator(c),
         UNCHANGED <<version, related, applying>>, FailuresCount
  PROVE  RelatedInv'
<1>1. round' = NoRound /\ pc' # "clean"
  BY DEF CallDone
<1>2. co' = c /\ ~ synced' /\ coCache' = coCache
  BY DEF WriteOperator
<1>3. ShapeInv'
  BY <1>1, <1>2 DEF RelatedInv, ShapeInv, RoundShape, OperatorShape, NoRound, NoOperator
<1> QED
  BY <1>1, <1>2, <1>3 DEF RelatedInv, PublishedInv, RoundInv,
     PendingInv, CacheInv, FailuresCount

\* What set writes has the fields of what it read.
LEMMA WantedShape ==
  ASSUME ShapeInv
  PROVE  /\ OperatorShape(Wanted)
         /\ Wanted.related = IF related = Nil THEN round.base.related ELSE related
         /\ OperatorShape([Wanted EXCEPT !.lastSeen = co.lastSeen])
         /\ [Wanted EXCEPT !.lastSeen = co.lastSeen].related = Wanted.related
<1> DEFINE k == setClusterOperatorConditions(round.base.conditions, round.new)
           v == IF round.reached THEN version ELSE round.base.version
           l == IF related = Nil THEN round.base.related ELSE related
<1>1. Wanted = [round.base EXCEPT !.conditions = k, !.related = l, !.version = v]
  BY DEF Wanted
<1>2. OperatorShape(round.base)
  BY DEF ShapeInv
<1> HIDE DEF k, v
<1>3. Wanted = [conditions |-> k, related |-> l, version |-> v,
                lastSeen |-> round.base.lastSeen]
  BY <1>1, <1>2 DEF OperatorShape
<1>4. OperatorShape(Wanted) /\ Wanted.related = l
  BY <1>3 DEF OperatorShape
<1> QED
  BY <1>4, LastSeenShape

-----------------------------------------------------------------------------
\* Nothing has been published, read or applied yet.
LEMMA InitRelatedInv == Init => RelatedInv
<1> SUFFICES ASSUME Init PROVE RelatedInv
  OBVIOUS
<1>1. /\ co = Nil /\ coCache = Nil /\ ~applying /\ related = Nil
      /\ pc = "idle" /\ round = NoRound /\ failures = 0
  BY DEF Init
<1>2. ShapeInv
  BY <1>1 DEF ShapeInv, RoundShape, OperatorShape, NoRound, NoOperator
<1> QED
  BY <1>1, <1>2 DEF RelatedInv, PublishedInv, RoundInv,
     PendingInv, CacheInv, FailuresCount

\* A step that leaves alone what the invariant speaks of.
LEMMA ElsewhereKeepsInv ==
  ASSUME RelatedInv,
         UNCHANGED <<co, coCache, synced, version, related, applying, round>>,
         existing' = existing, pc' # "clean", FailuresCount
  PROVE  RelatedInv'
BY DEF RelatedInv, ShapeInv, RoundShape, OperatorShape, PublishedInv, RoundInv,
     PendingInv, CacheInv, FailuresCount

\* The calls of the install reconciler.  SetRendered publishes the objects before
\* ApplyRendered creates any of them.
LEMMA InstallReconcilerCallsKeepInv ==
  ASSUME RelatedInv, InstallReconcilerCalls, FailuresCount
  PROVE  RelatedInv'
<1>1. ASSUME NEW level, SetDegraded(level) \/ SetNotDegraded(level)
      PROVE  RelatedInv'
  BY <1>1, ElsewhereKeepsInv
  DEF SetDegraded, SetNotDegraded, Start, api, cache, FailuresCount
<1>2. ASSUME SetRendered \/ SetRenderedFails PROVE RelatedInv'
  <2>1. PICK listed \in SUBSET Manifest[version] :
          Publish(listed) /\ (listed = Manifest[version] \/ Fault)
    BY <1>2 DEF SetRendered, SetRenderedFails
  <2>2. /\ related' = IF listed = {} THEN Nil ELSE listed
        /\ pc = "idle" /\ UNCHANGED <<co, coCache, synced, version, round, pc>>
    BY <2>1 DEF Publish, api, cache, job
  <2>3. listed = Manifest[version] \/ failures' = failures + 1
    BY <2>1 DEF Fault
  <2>4. PublishedInv' /\ failures' \in Nat
    BY <2>2, <2>3 DEF PublishedInv, RelatedInv, FailuresCount
  <2> QED
    BY <2>2, <2>4 DEF RelatedInv, ShapeInv, RoundShape, OperatorShape, CacheInv, RoundInv,
       PendingInv
<1>3. ASSUME ApplyRendered PROVE RelatedInv'
  <2>1. PICK applied \in SUBSET Manifest[version] : existing' = existing \cup applied
    BY <1>3 DEF ApplyRendered
  <2>2. /\ applying /\ ~applying'
        /\ UNCHANGED <<co, coCache, synced, version, related, pc, round, failures>>
    BY <1>3 DEF ApplyRendered, cache, job, counts
  <2>3. failures > 0 \/ Manifest[version] \subseteq related
    BY <2>2 DEF RelatedInv, PublishedInv
  <2>4. RoundInv'
    BY <2>1, <2>2, <2>3 DEF RelatedInv, RoundInv
  <2> QED
    BY <2>2, <2>4
    DEF RelatedInv, ShapeInv, RoundShape, OperatorShape, PublishedInv, PendingInv, CacheInv
<1> QED
  BY <1>1, <1>2, <1>3 DEF InstallReconcilerCalls

\* The steps of the operation that holds the mutex.  Its deletions and its write
\* are the steps the invariant is about.
LEMMA StepKeepsInv ==
  ASSUME RelatedInv, Step, FailuresCount
  PROVE  RelatedInv'
<1>1. ASSUME SetLastPodState PROVE RelatedInv'
  <2> DEFINE c == [co EXCEPT !.lastSeen = pods.seen]
  <2>1. CallDone /\ UNCHANGED <<version, related, applying>>
    BY <1>1 DEF SetLastPodState, memory
  <2>2. CASE UNCHANGED <<co, cache>>
    BY <2>1, <2>2, DoneKeepsInv DEF cache
  <2>3. CASE co # Nil /\ WriteOperator(c)
    <3>1. OperatorShape(c)
      BY <2>3, LastSeenShape DEF RelatedInv, ShapeInv
    <3> HIDE DEF c
    <3> QED
      BY <2>1, <2>3, <3>1, WriteKeepsInv
  <2> QED
    BY <1>1, <2>2, <2>3 DEF SetLastPodState
<1>2. ASSUME set PROVE RelatedInv'
  <2>1. /\ UNCHANGED <<co, coCache, synced, existing, version, related, applying>>
        /\ pc = "call"
    BY <1>2 DEF set, api, cache
  <2>2. ASSUME NEW n, NEW r, ReadOperator(n, r, 0) PROVE RelatedInv'
    BY <2>1, <2>2, ReadKeepsInv
  <2>3. ASSUME NEW n, ReadInstall(n) PROVE RelatedInv'
    <3>1. CASE CallDone
      BY <2>1, <3>1, DoneKeepsInv
    <3>2. CASE /\ round' = [NoRound EXCEPT
                              !.new = n,
                              !.base.conditions = setClusterOperatorConditions(NoConditions, n)]
               /\ pc' = "copy"
      <4> DEFINE k == setClusterOperatorConditions(NoConditions, n)
      <4> HIDE DEF k
      <4>1. round' = [NoRound EXCEPT !.new = n, !.base.conditions = k]
        BY <3>2 DEF k
      <4>2. ShapeInv'
        BY <2>1, <4>1
        DEF RelatedInv, ShapeInv, RoundShape, OperatorShape, NoRound, NoOperator
      <4> QED
        BY <2>1, <3>2, <4>2 DEF RelatedInv, PublishedInv, RoundInv,
     PendingInv, CacheInv, FailuresCount
    <3> QED
      BY <2>3, <3>1, <3>2 DEF ReadInstall
  <2> QED
    BY <1>2, <2>2, <2>3 DEF set
<1>3. ASSUME DeleteRelated PROVE RelatedInv'
  <2>1. PICK o \in round.pending :
          /\ round' = [round EXCEPT !.pending = @ \ {o}]
          /\ existing' = IF o \in Namespaces THEN existing ELSE existing \ {o}
    BY <1>3 DEF DeleteRelated
  <2>2. /\ UNCHANGED <<co, coCache, synced, version, related, applying, pc>>
        /\ pc = "clean"
    BY <1>3 DEF DeleteRelated, cache, memory
  <2>3. round' = [round EXCEPT !.pending = round.pending \ {o}] /\ RoundShape
    BY <2>1 DEF RelatedInv, ShapeInv
  <2>4. ShapeInv'
    BY <2>2, <2>3 DEF RelatedInv, ShapeInv, RoundShape, OperatorShape
  <2>5. /\ round'.pending = round.pending \ {o}
        /\ round'.base = round.base
        /\ round'.found = round.found /\ round'.current = round.current
    BY <2>3 DEF RoundShape
  <2>6. RoundInv' /\ PendingInv'
    BY <2>1, <2>2, <2>5 DEF RelatedInv, RoundInv, PendingInv, FailuresCount
  <2> QED
    BY <2>2, <2>4, <2>6 DEF RelatedInv, PublishedInv, CacheInv, FailuresCount
<1>4. ASSUME OperatorUnchanged PROVE RelatedInv'
  BY <1>4, DoneKeepsInv DEF OperatorUnchanged, api, cache, memory
<1>5. ASSUME CreateOperator PROVE RelatedInv'
  <2>1. CallDone /\ UNCHANGED <<version, related, applying>>
    BY <1>5 DEF CreateOperator, memory
  <2>2. CASE WriteOperator(NoOperator)
    <3>1. OperatorShape(NoOperator)
      BY DEF OperatorShape, NoOperator
    <3> QED
      BY <2>1, <2>2, <3>1, WriteKeepsInv
  <2>3. CASE UNCHANGED <<co, cache>>
    BY <2>1, <2>3, DoneKeepsInv DEF cache
  <2> QED
    BY <1>5, <2>2, <2>3 DEF CreateOperator
<1>6. ASSUME UpdateOperator PROVE RelatedInv'
  <2> DEFINE w == Wanted
             c == [Wanted EXCEPT !.lastSeen = co.lastSeen]
  <2>1. OperatorShape(w) /\ OperatorShape(c)
    BY WantedShape DEF RelatedInv
  <2>2. /\ co' = c /\ ~synced' /\ coCache' = coCache
        /\ round' = [round EXCEPT !.base = w]
        /\ pc' = "copy"
        /\ UNCHANGED <<version, related, applying>>
    BY <1>6 DEF UpdateOperator, WriteOperator, memory
  <2> HIDE DEF w, c
  <2>3. ShapeInv'
    BY <2>1, <2>2 DEF RelatedInv, ShapeInv, RoundShape, OperatorShape
  <2> QED
    BY <2>2, <2>3 DEF RelatedInv, PublishedInv, RoundInv,
     PendingInv, CacheInv, FailuresCount
<1>7. ASSUME Conflict PROVE RelatedInv'
  <2>1. UNCHANGED <<co, coCache, synced, existing, version, related, applying>>
    BY <1>7 DEF Conflict, api, cache, memory
  <2>2. CASE ReadOperator(round.new, round.reached, round.tries + 1)
    BY <2>1, <2>2, ReadKeepsInv
  <2>3. CASE CallDone
    BY <2>1, <2>3, DoneKeepsInv
  <2> QED
    BY <1>7, <2>2, <2>3 DEF Conflict
<1>8. ASSUME SetInstallStatus PROVE RelatedInv'
  BY <1>8, DoneKeepsInv DEF SetInstallStatus, cache, memory
<1> QED
  BY <1>1, <1>2, <1>3, <1>4, <1>5, <1>6, <1>7, <1>8 DEF Step

\* The same steps when an API call returns an error.
LEMMA StepFailsKeepsInv ==
  ASSUME RelatedInv, StepFails, FailuresCount
  PROVE  RelatedInv'
<1>1. ASSUME SetLastPodStateFails PROVE RelatedInv'
  BY <1>1, DoneKeepsInv DEF SetLastPodStateFails, api, cache, memory
<1>2. ASSUME GetFails PROVE RelatedInv'
  BY <1>2, DoneKeepsInv DEF GetFails, api, cache
<1>3. ASSUME DeleteRelatedFails PROVE RelatedInv'
  <2>1. PICK o \in round.pending :
          /\ round' = [round EXCEPT !.pending = @ \ {o}]
          /\ related' = related \cup {o}
          /\ existing' = existing \/ existing' = existing \ {o}
    BY <1>3 DEF DeleteRelatedFails
  <2>2. /\ UNCHANGED <<co, coCache, synced, version, applying, pc>>
        /\ pc = "clean"
    BY <1>3 DEF DeleteRelatedFails, cache
  <2>3. round' = [round EXCEPT !.pending = round.pending \ {o}] /\ RoundShape
    BY <2>1 DEF RelatedInv, ShapeInv
  <2>4. ShapeInv'
    BY <2>2, <2>3 DEF RelatedInv, ShapeInv, RoundShape, OperatorShape
  <2>5. /\ round'.pending = round.pending \ {o}
        /\ round'.base = round.base
        /\ round'.found = round.found /\ round'.current = round.current
    BY <2>3 DEF RoundShape
  <2>6. failures' = failures + 1
    BY <1>3 DEF DeleteRelatedFails, Fault
  <2>7. RoundInv' /\ PendingInv'
    BY <2>1, <2>2, <2>5, <2>6 DEF RelatedInv, RoundInv, PendingInv
  <2> QED
    BY <2>2, <2>4, <2>6, <2>7 DEF RelatedInv, PublishedInv, CacheInv
<1>4. ASSUME WriteOperatorFails PROVE RelatedInv'
  <2> DEFINE c == [Wanted EXCEPT !.lastSeen = co.lastSeen]
  <2>1. CallDone /\ UNCHANGED <<version, related, applying>>
    BY <1>4 DEF WriteOperatorFails, memory
  <2>2. OperatorShape(NoOperator) /\ OperatorShape(c)
    BY WantedShape DEF RelatedInv, OperatorShape, NoOperator
  <2>3. UNCHANGED <<co, cache>> \/ WriteOperator(NoOperator) \/ WriteOperator(c)
    BY <1>4 DEF WriteOperatorFails
  <2> HIDE DEF c
  <2> QED
    BY <2>1, <2>2, <2>3, DoneKeepsInv, WriteKeepsInv DEF cache
<1>5. ASSUME SetInstallStatusFails PROVE RelatedInv'
  BY <1>5, DoneKeepsInv DEF SetInstallStatusFails, cache, memory
<1> QED
  BY <1>1, <1>2, <1>3, <1>4, <1>5 DEF StepFails

\* SetFromPods only starts an operation.
LEMMA SetFromPodsKeepsInv ==
  ASSUME RelatedInv, SetFromPods, FailuresCount
  PROVE  RelatedInv'
BY ElsewhereKeepsInv DEF SetFromPods, Start, api, cache

\* What happens around the operator.  Deliver is the informer's, and a restart
\* forgets the list and the round together.
LEMMA EnvironmentKeepsInv ==
  ASSUME RelatedInv, Environment, FailuresCount
  PROVE  RelatedInv'
<1>1. ASSUME Deliver PROVE RelatedInv'
  <2>1. coCache' = co /\ UNCHANGED <<co, existing, version, related, applying, pc, round>>
    BY <1>1 DEF Deliver, api, memory, job
  <2> QED
    BY <2>1
    DEF RelatedInv, ShapeInv, RoundShape, OperatorShape, PublishedInv, RoundInv,
     PendingInv, CacheInv, FailuresCount
<1>2. ASSUME Tick PROVE RelatedInv'
  <2> DEFINE b == AgedOperator(round.base)
  <2>1. /\ co' = AgedOperator(co) /\ coCache' = AgedOperator(coCache)
        /\ round' = [round EXCEPT !.base = b]
        /\ UNCHANGED <<existing, synced, version, related, applying, pc, failures>>
    BY <1>2 DEF Tick, memory, counts
  <2>2. OperatorShape(b) /\ b.related = round.base.related
    BY AgedRelated DEF RelatedInv, ShapeInv
  <2> HIDE DEF b
  <2>3. /\ co' # Nil => OperatorShape(co')
        /\ co'.related = co.related
        /\ coCache' # Nil => OperatorShape(coCache')
    <3>1. \A c : c = Nil => AgedOperator(c) = Nil
      BY DEF AgedOperator
    <3> QED
      BY <2>1, <3>1, AgedRelated DEF RelatedInv, ShapeInv
  <2>4. ShapeInv'
    BY <2>1, <2>2, <2>3 DEF RelatedInv, ShapeInv, RoundShape, OperatorShape
  <2>5. /\ round'.pending = round.pending /\ round'.base = b
        /\ round'.found = round.found /\ round'.current = round.current
    BY <2>1 DEF RelatedInv, ShapeInv, RoundShape
  <2>6. RoundInv' /\ PendingInv'
    BY <2>1, <2>2, <2>3, <2>5 DEF RelatedInv, RoundInv, PendingInv
  <2> QED
    BY <2>1, <2>4, <2>6 DEF RelatedInv, PublishedInv, CacheInv
<1>3. ASSUME NEW w \in Workloads, ChangeWorkload(w) PROVE RelatedInv'
  BY <1>3 DEF ChangeWorkload, api, cache, memory, job, RelatedInv, ShapeInv, RoundShape,
              OperatorShape, PublishedInv, RoundInv,
     PendingInv, CacheInv, FailuresCount
<1>4. ASSUME ChangeInstall PROVE RelatedInv'
  BY <1>4 DEF ChangeInstall, cache, memory, job, RelatedInv, ShapeInv, RoundShape,
              OperatorShape, PublishedInv, RoundInv,
     PendingInv, CacheInv, FailuresCount
<1>5. ASSUME Restart PROVE RelatedInv'
  <2>1. /\ co' = co /\ coCache' = co /\ pc' = "idle" /\ round' = NoRound
        /\ related' = Nil /\ ~applying'
    BY <1>5 DEF Restart, api
  <2>2. ShapeInv'
    BY <2>1 DEF RelatedInv, ShapeInv, RoundShape, OperatorShape, NoRound, NoOperator
  <2> QED
    BY <2>1, <2>2 DEF RelatedInv, PublishedInv, RoundInv,
     PendingInv, CacheInv, FailuresCount
<1> QED
  BY <1>1, <1>2, <1>3, <1>4, <1>5 DEF Environment

\* No step fails more than one call.
LEMMA AtMostOneFailure == [Next]_vars => FailuresCount
  BY DEF FailuresCount, vars, counts, Next, InstallReconcilerCalls, SetDegraded,
     SetNotDegraded, SetRendered, SetRenderedFails, Publish, ApplyRendered, SetFromPods,
     Step, SetLastPodState, set, DeleteRelated, OperatorUnchanged, CreateOperator,
     UpdateOperator, Conflict, SetInstallStatus, StepFails, SetLastPodStateFails,
     GetFails, DeleteRelatedFails, WriteOperatorFails, SetInstallStatusFails,
     Environment, Deliver, Tick, ChangeWorkload, ChangeInstall, Restart, Fault

\* Every step keeps the invariant.
LEMMA NextKeepsInv ==
  ASSUME RelatedInv, [Next]_vars
  PROVE  RelatedInv'
<1>1. CASE UNCHANGED vars
  BY <1>1 DEF vars, api, cache, memory, job, RelatedInv, ShapeInv, RoundShape,
              OperatorShape, PublishedInv, RoundInv, PendingInv, CacheInv, counts
<1> QED
  BY <1>1, AtMostOneFailure, InstallReconcilerCallsKeepInv, SetFromPodsKeepsInv,
     StepKeepsInv, StepFailsKeepsInv, EnvironmentKeepsInv DEF Next

-----------------------------------------------------------------------------
\* An object leaves the list in one step only, the write at the end of set, and by
\* then the round has deleted it, put it back, or it is a namespace.
LEMMA OnlyGoneAreDropped ==
  ASSUME RelatedInv, [Next]_vars, co # Nil,
         NEW o \in co.related, o \notin co'.related
  PROVE  \/ o \in Namespaces \/ o \notin existing
         \/ o \in Manifest[version] /\ failures > 0
<1> DEFINE c == [Wanted EXCEPT !.lastSeen = co.lastSeen]
<1>1. ASSUME Cleaned, round.found, round.current, WriteOperator(c)
      PROVE  \/ o \in Namespaces \/ o \notin existing
             \/ o \in Manifest[version] /\ failures > 0
  <2>1. co'.related = IF related = Nil THEN round.base.related ELSE related
    BY <1>1, WantedShape DEF WriteOperator, RelatedInv
  <2> HIDE DEF c
  <2>2. co.related = round.base.related /\ round.pending = {} /\ pc = "clean"
    BY <1>1 DEF Cleaned, RelatedInv, RoundInv
  <2> QED
    BY <2>1, <2>2 DEF RelatedInv, RoundInv
<1>2. CASE UNCHANGED vars
  BY <1>2 DEF vars, api
<1>3. CASE InstallReconcilerCalls
  BY <1>3 DEF InstallReconcilerCalls, SetDegraded, SetNotDegraded, SetRendered,
              SetRenderedFails, Publish, ApplyRendered, api
<1>4. CASE SetFromPods
  BY <1>4 DEF SetFromPods, api
<1>5. CASE Step
  <2>1. CASE SetLastPodState
    BY <2>1, LastSeenShape DEF SetLastPodState, WriteOperator, RelatedInv, ShapeInv
  <2>2. CASE set
    BY <2>2 DEF set, api
  <2>3. CASE DeleteRelated
    BY <2>3 DEF DeleteRelated
  <2>4. CASE OperatorUnchanged \/ Conflict
    BY <2>4 DEF OperatorUnchanged, Conflict, api
  <2>5. CASE CreateOperator
    BY <2>5 DEF CreateOperator
  <2>6. CASE UpdateOperator
    BY <2>6, <1>1 DEF UpdateOperator
  <2>7. CASE SetInstallStatus
    BY <2>7 DEF SetInstallStatus
  <2> QED
    BY <1>5, <2>1, <2>2, <2>3, <2>4, <2>5, <2>6, <2>7 DEF Step
<1>6. CASE StepFails
  <2>1. CASE WriteOperatorFails
    BY <2>1, <1>1 DEF WriteOperatorFails
  <2>2. CASE SetLastPodStateFails \/ GetFails \/ DeleteRelatedFails \/ SetInstallStatusFails
    BY <2>2 DEF SetLastPodStateFails, GetFails, DeleteRelatedFails, SetInstallStatusFails, api
  <2> QED
    BY <1>6, <2>1, <2>2 DEF StepFails
<1>7. CASE Environment
  <2>1. CASE Tick
    BY <2>1, AgedRelated DEF Tick, RelatedInv, ShapeInv
  <2>2. CASE Deliver \/ (\E w \in Workloads : ChangeWorkload(w)) \/ ChangeInstall \/ Restart
    BY <2>2 DEF Deliver, ChangeWorkload, ChangeInstall, Restart, api
  <2> QED
    BY <1>7, <2>1, <2>2 DEF Environment
<1> QED
  BY <1>2, <1>3, <1>4, <1>5, <1>6, <1>7 DEF Next

\* status_manager.go:100-145, 229-262: for every sequence of manifests and every
\* number of conflicts, failures, restarts and upgrades, the ClusterOperator stops
\* listing an object only when it is gone or a namespace, or one of its own that a
\* failed lookup left out.
THEOREM NothingForgotten == Spec => RelatedUntilGone
<1>1. RelatedInv /\ [Next]_vars => RelatedInv'
  BY NextKeepsInv
<1>2. RelatedInv /\ [Next]_vars =>
        [co # Nil => \A o \in co.related \ co'.related :
           \/ o \in Namespaces \/ o \notin existing
           \/ o \in Manifest[version] /\ failures > 0]_vars
  BY OnlyGoneAreDropped
<1> QED
  BY <1>1, <1>2, InitRelatedInv, PTL DEF Spec, RelatedUntilGone

\* Only the cleanup deletes objects of a manifest, and it deletes what it found listed
\* and not published.
LEMMA OnlyCleanupDeletes ==
  ASSUME RelatedInv, [Next]_vars, NEW o \in existing, o \notin existing'
  PROVE  pc = "clean" /\ o \in round.pending
<1>1. CASE DeleteRelated \/ DeleteRelatedFails
  BY <1>1 DEF DeleteRelated, DeleteRelatedFails
<1>2. CASE ~ DeleteRelated /\ ~ DeleteRelatedFails
  <2>1. existing' = existing \/ ApplyRendered
    BY <1>2 DEF vars, api, Next, InstallReconcilerCalls, SetDegraded,
       SetNotDegraded, SetRendered, SetRenderedFails, Publish, SetFromPods, Step,
       SetLastPodState, set, OperatorUnchanged, CreateOperator, UpdateOperator,
       Conflict, SetInstallStatus, StepFails, SetLastPodStateFails, GetFails,
       WriteOperatorFails, SetInstallStatusFails, Environment, Deliver, Tick,
       ChangeWorkload, ChangeInstall, Restart
  <2> QED
    BY <2>1 DEF ApplyRendered
<1> QED
  BY <1>1, <1>2

\* status_manager.go:97-99: for every sequence of manifests, stale reads, failed calls,
\* restarts and upgrades, no object that the running version renders is deleted as a
\* leftover, unless a lookup has failed and left it out of what was published.
THEOREM RenderedKept == Spec => RenderedIsKept
<1>1. RelatedInv /\ [Next]_vars => RelatedInv'
  BY NextKeepsInv
<1>2. RelatedInv /\ [Next]_vars =>
        [\A o \in Manifest[version] \cap existing :
           o \notin existing' => failures > 0 /\ o \notin related]_vars
  <2> SUFFICES ASSUME RelatedInv, [Next]_vars,
                      NEW o \in Manifest[version] \cap existing, o \notin existing'
               PROVE  failures > 0 /\ o \notin related
    OBVIOUS
  <2>1. pc = "clean" /\ o \in round.pending
    BY OnlyCleanupDeletes
  <2> QED
    BY <2>1 DEF RelatedInv, PendingInv
<1> QED
  BY <1>1, <1>2, InitRelatedInv, PTL DEF Spec, RenderedIsKept
=============================================================================
