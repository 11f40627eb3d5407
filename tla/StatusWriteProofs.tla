------------------------- MODULE StatusWriteProofs -------------------------
(***************************************************************************)
(* What StatusManager writes: the ClusterOperator's conditions and         *)
(* version, the copy in the AntreaInstall, and the way of an operation to  *)
(* its end.                                                                *)
(***************************************************************************)
EXTENDS StatusTypeProofs

\* Until set writes: what it read is still there if it is allowed to write, and what it
\* adds is true of the memory, which nobody else changes meanwhile.
AttemptInv ==
  pc = "clean" =>
    /\ round.found /\ round.current =>
         co.conditions = round.base.conditions /\ co.version = round.base.version
    /\ round.new.degraded \in {Nil, DegradedCondition(failing).degraded}
    /\ round.reached => round.new.progressing = {} /\ round.new.available = "True"

\* Until it copies: what it copies is what it wrote.
CopyInv == pc = "copy" /\ Openshift => co # Nil /\ round.base.conditions = co.conditions

\* Between attempts no attempt counts, and SetFromPods is done when nothing is left to wait for.
BetweenInv ==
  /\ pc \in {"idle", "call"} => round.tries = 0
  /\ pods.reached => pods.progressing = {}

WriteInv == TypeInv /\ AttemptInv /\ CopyInv /\ BetweenInv

-----------------------------------------------------------------------------
(***************************************************************************)
(* The operators.                                                          *)
(***************************************************************************)

\* What the new conditions make of the old ones.
LEMMA ConditionsCombined ==
  ASSUME NEW old \in Conditions, NEW new \in Conditions
  PROVE  LET c == setClusterOperatorConditions(old, new)
         IN  /\ c.degraded = IF new.degraded = Nil THEN old.degraded ELSE new.degraded
             /\ new.progressing = {} /\ new.available = "True" =>
                  c.progressing = {} /\ c.available = "True"
<1> DEFINE c == CombineConditions(old, new)
<1>1. DOMAIN old = {"degraded", "progressing", "available"}
  BY DEF Conditions
<1>2. c = [degraded |-> IF new.degraded = Nil THEN old.degraded ELSE new.degraded,
           progressing |-> IF new.progressing = Nil THEN old.progressing ELSE new.progressing,
           available |-> IF new.available = Nil THEN old.available ELSE new.available]
  BY <1>1 DEF CombineConditions
<1>3. /\ c.degraded = IF new.degraded = Nil THEN old.degraded ELSE new.degraded
      /\ new.progressing = {} /\ new.available = "True" =>
           c.progressing = {} /\ c.available = "True"
      /\ [c EXCEPT !.available = "False"].degraded = c.degraded
  BY <1>2, NilAssumption
<1> HIDE DEF c
<1> QED
  BY <1>3, NilAssumption DEF setClusterOperatorConditions, c

\* The annotation is one field of four.
LEMMA SameButSeen ==
  ASSUME NEW c \in ClusterOperators, NEW l
  PROVE  /\ [c EXCEPT !.lastSeen = l].conditions = c.conditions
         /\ [c EXCEPT !.lastSeen = l].version = c.version
  BY DEF ClusterOperators

\* Time changes neither conditions nor version.
LEMMA AgedSame ==
  ASSUME NEW c \in ClusterOperators \cup {Nil}
  PROVE  /\ c = Nil <=> AgedOperator(c) = Nil
         /\ c # Nil => AgedOperator(c).conditions = c.conditions
                       /\ AgedOperator(c).version = c.version
<1>1. CASE c = Nil
  BY <1>1 DEF AgedOperator
<1>2. CASE c # Nil
  <2> DEFINE l == Aged(c.lastSeen)
  <2>1. AgedOperator(c) = [c EXCEPT !.lastSeen = l]
    BY <1>2 DEF AgedOperator
  <2> HIDE DEF l
  <2> QED
    BY <1>2, <2>1, SameButSeen, AgedTyped, NilAssumption
<1> QED
  BY <1>1, <1>2

\* The fields of what set writes.
LEMMA WantedFields ==
  ASSUME TypeInv
  PROVE  LET w == [Wanted EXCEPT !.lastSeen = co.lastSeen]
         IN  /\ Wanted \in ClusterOperators
             /\ Wanted.conditions = setClusterOperatorConditions(round.base.conditions, round.new)
             /\ Wanted.version = IF round.reached THEN version ELSE round.base.version
             /\ w.conditions = Wanted.conditions /\ w.version = Wanted.version
<1> DEFINE k == setClusterOperatorConditions(round.base.conditions, round.new)
           r == IF related = Nil THEN round.base.related ELSE related
           v == IF round.reached THEN version ELSE round.base.version
           w == Wanted
<1>1. w = [round.base EXCEPT !.conditions = k, !.related = r, !.version = v]
  BY DEF Wanted
<1>2. round.base \in ClusterOperators
  BY DEF TypeInv, TypeOK, Rounds
<1>3. w \in ClusterOperators
  BY OperatorTyped
<1> HIDE DEF k, r, v, w
<1>4. w.conditions = k /\ w.version = v
  BY <1>1, <1>2 DEF ClusterOperators
<1>5. /\ [w EXCEPT !.lastSeen = co.lastSeen].conditions = w.conditions
      /\ [w EXCEPT !.lastSeen = co.lastSeen].version = w.version
  BY <1>3, SameButSeen
<1> QED
  BY <1>3, <1>4, <1>5 DEF k, v, w

-----------------------------------------------------------------------------
(***************************************************************************)
(* The steps.                                                              *)
(***************************************************************************)
Written == AttemptInv /\ CopyInv /\ BetweenInv

\* A call that returns leaves nothing to write.
LEMMA DoneWritten == ASSUME WriteInv, CallDone PROVE Written'
<1>1. pc' \in {"idle", "call"} /\ round' = NoRound /\ pods' \in {pods, NoPods}
  BY DEF CallDone
<1> QED
  BY <1>1 DEF WriteInv, Written, AttemptInv, CopyInv, BetweenInv, NoRound, NoPods

\* A read of the ClusterOperator is of the one that is there, if it is current.
LEMMA ReadWritten ==
  ASSUME WriteInv, NEW n, NEW r, NEW t, ReadOperator(n, r, t),
         UNCHANGED <<co, coCache, synced, pods>>,
         n.degraded \in {Nil, DegradedCondition(failing').degraded},
         r => n.progressing = {} /\ n.available = "True"
  PROVE  Written'
<1> DEFINE b == IF coCache # Nil THEN coCache ELSE NoOperator
           p == IF related = Nil THEN {} ELSE b.related \ related
<1>1. /\ round' = [new |-> n, reached |-> r, tries |-> t, base |-> b,
                   found |-> (coCache # Nil), current |-> synced, pending |-> p]
      /\ pc' = "clean"
  BY DEF ReadOperator
<1>2. coCache # Nil /\ synced => b = co
  BY DEF WriteInv, TypeInv, TypeOK
<1> HIDE DEF b, p
<1>3. AttemptInv'
  BY <1>1, <1>2 DEF AttemptInv
<1> QED
  BY <1>1, <1>3 DEF WriteInv, Written, CopyInv, BetweenInv

\* A step of somebody else, which leaves the operation and the ClusterOperator alone.
LEMMA ElsewhereWritten ==
  ASSUME WriteInv, UNCHANGED <<co, round, pods, pc>>, failing' = failing
  PROVE  Written'
  BY DEF WriteInv, Written, AttemptInv, CopyInv, BetweenInv

\* The callers start operations between operations.
LEMMA CallsWritten ==
  ASSUME WriteInv, InstallReconcilerCalls \/ SetFromPods
  PROVE  Written'
<1>1. CASE ApplyRendered
  BY <1>1, ElsewhereWritten DEF ApplyRendered, job
<1>2. CASE SetRendered \/ SetRenderedFails
  BY <1>2, ElsewhereWritten DEF SetRendered, SetRenderedFails, Publish, api, job
<1>3. CASE \E level \in {"ClusterConfig", "OperatorConfig"} :
             SetDegraded(level) \/ SetNotDegraded(level)
  BY <1>3 DEF SetDegraded, SetNotDegraded, Start, WriteInv, Written, AttemptInv, CopyInv,
     BetweenInv
<1>4. CASE SetFromPods
  <2>1. pods'.reached => pods'.progressing = {}
    BY <1>4 DEF SetFromPods
  <2> QED
    BY <1>4, <2>1 DEF SetFromPods, Start, WriteInv, Written, AttemptInv, CopyInv, BetweenInv
<1> QED
  BY <1>1, <1>2, <1>3, <1>4 DEF InstallReconcilerCalls

\* The operation that holds the mutex.
LEMMA StepWritten == ASSUME WriteInv, Step PROVE Written'
<1> USE DEF WriteInv
<1>1. CASE \/ SetLastPodState \/ OperatorUnchanged \/ CreateOperator \/ SetInstallStatus
  BY <1>1, DoneWritten DEF SetLastPodState, OperatorUnchanged, CreateOperator,
     SetInstallStatus
<1>2. CASE set
  <2> DEFINE pod == Head(calls) = "conditions"
             new == IF pod THEN PodConditions ELSE DegradedCondition(failing')
  <2>1. /\ IF Openshift THEN ReadOperator(new, pod /\ pods.reached, 0) /\ UNCHANGED <<calls, pods>>
                        ELSE ReadInstall(new)
        /\ UNCHANGED <<co, coCache, synced>>
    BY <1>2 DEF set, api, cache
  <2>2. PodConditions.degraded = Nil
    BY DEF PodConditions, NoConditions
  <2>3. pods.reached => PodConditions.progressing = {} /\ PodConditions.available = "True"
    BY DEF PodConditions, NoConditions, BetweenInv
  <2>4. /\ new.degraded \in {Nil, DegradedCondition(failing').degraded}
        /\ pod /\ pods.reached => new.progressing = {} /\ new.available = "True"
    BY <2>2, <2>3
  <2> HIDE DEF new, pod
  <2>5. CASE Openshift
    BY <2>1, <2>4, <2>5, ReadWritten
  <2>6. CASE ~ Openshift
    <3>1. CASE CallDone
      BY <3>1, DoneWritten
    <3>2. CASE ~ CallDone
      BY <2>1, <2>6, <3>2 DEF ReadInstall, Written, AttemptInv, CopyInv, BetweenInv, Openshift
    <3> QED
      BY <3>1, <3>2
  <2> QED
    BY <2>5, <2>6
<1>3. CASE DeleteRelated
  <2>1. PICK o \in round.pending : round' = [round EXCEPT !.pending = @ \ {o}]
    BY <1>3 DEF DeleteRelated
  <2>2. /\ UNCHANGED <<co, failing, pc, pods>>
        /\ pc = "clean"
    BY <1>3 DEF DeleteRelated, memory
  <2>3. /\ round'.base = round.base /\ round'.new = round.new
        /\ round'.found = round.found /\ round'.current = round.current
        /\ round'.reached = round.reached
    BY <2>1 DEF TypeInv, TypeOK, Rounds
  <2> QED
    BY <2>2, <2>3 DEF Written, AttemptInv, CopyInv, BetweenInv
<1>4. CASE UpdateOperator
  <2> DEFINE w == Wanted
             c == [Wanted EXCEPT !.lastSeen = co.lastSeen]
  <2>1. /\ co' = c /\ round' = [round EXCEPT !.base = w]
        /\ pc' = "copy" /\ UNCHANGED pods
    BY <1>4 DEF UpdateOperator, WriteOperator
  <2>2. c.conditions = w.conditions
    BY WantedFields
  <2>3. c # Nil
    <3>1. co.lastSeen \in LastSeenStates \cup {Nil}
      BY <1>4 DEF UpdateOperator, TypeInv, TypeOK, RoundOK, ClusterOperators
    <3> QED
      BY <3>1, WantedFields, OperatorTyped, NilAssumption
  <2> HIDE DEF w, c
  <2>4. round'.base = w
    BY <2>1 DEF TypeInv, TypeOK, Rounds
  <2> QED
    BY <2>1, <2>2, <2>3, <2>4 DEF Written, AttemptInv, CopyInv, BetweenInv
<1>5. CASE Conflict
  <2>1. CASE CallDone
    BY <2>1, DoneWritten
  <2>2. CASE ReadOperator(round.new, round.reached, round.tries + 1) /\ UNCHANGED pods
    <3>1. UNCHANGED <<co, coCache, synced, failing>> /\ pc = "clean"
      BY <1>5 DEF Conflict, Cleaned, api, cache, memory
    <3> QED
      BY <2>2, <3>1, ReadWritten DEF AttemptInv
  <2> QED
    BY <1>5, <2>1, <2>2 DEF Conflict
<1> QED
  BY <1>1, <1>2, <1>3, <1>4, <1>5 DEF Step

\* The same steps when an API call returns an error.
LEMMA StepFailsWritten == ASSUME WriteInv, StepFails PROVE Written'
<1>1. CASE \/ SetLastPodStateFails \/ GetFails \/ WriteOperatorFails \/ SetInstallStatusFails
  BY <1>1, DoneWritten DEF SetLastPodStateFails, GetFails, WriteOperatorFails,
     SetInstallStatusFails
<1>2. CASE DeleteRelatedFails
  <2>1. PICK o \in round.pending : round' = [round EXCEPT !.pending = @ \ {o}]
    BY <1>2 DEF DeleteRelatedFails
  <2>2. /\ UNCHANGED <<co, failing, pc, pods>>
        /\ pc = "clean"
    BY <1>2 DEF DeleteRelatedFails
  <2>3. /\ round'.base = round.base /\ round'.new = round.new
        /\ round'.found = round.found /\ round'.current = round.current
        /\ round'.reached = round.reached
    BY <2>1 DEF WriteInv, TypeInv, TypeOK, Rounds
  <2> QED
    BY <2>2, <2>3 DEF WriteInv, Written, AttemptInv, CopyInv, BetweenInv
<1> QED
  BY <1>1, <1>2 DEF StepFails

\* What happens around the operator.
LEMMA EnvironmentWritten == ASSUME WriteInv, Environment PROVE Written'
<1>1. CASE Deliver
  BY <1>1, ElsewhereWritten DEF Deliver, api, memory, job
<1>2. CASE Tick
  <2> DEFINE b == AgedOperator(round.base)
             s == Aged(pods.seen)
  <2>1. /\ co' = AgedOperator(co)
        /\ round' = [round EXCEPT !.base = b] /\ pods' = [pods EXCEPT !.seen = s]
        /\ UNCHANGED <<failing, pc>>
    BY <1>2 DEF Tick, memory
  <2>2. b.conditions = round.base.conditions /\ b.version = round.base.version
    BY AgedSame, NilAssumption DEF WriteInv, TypeInv, TypeOK, Rounds
  <2>3. /\ co = Nil <=> co' = Nil
        /\ co # Nil => co'.conditions = co.conditions /\ co'.version = co.version
    BY <2>1, AgedSame DEF WriteInv, TypeInv, TypeOK
  <2> HIDE DEF b, s
  <2>4. /\ round'.base = b /\ round'.new = round.new /\ round'.tries = round.tries
        /\ round'.found = round.found /\ round'.current = round.current
        /\ round'.reached = round.reached
    BY <2>1 DEF WriteInv, TypeInv, TypeOK, Rounds
  <2>5. pods'.reached = pods.reached /\ pods'.progressing = pods.progressing
    BY <2>1 DEF WriteInv, TypeInv, TypeOK, PodLocals
  <2>6. pc = "clean" /\ round.found /\ round.current => co # Nil
    BY DEF WriteInv, TypeInv, RoundOK
  <2> QED
    BY <2>1, <2>2, <2>3, <2>4, <2>5, <2>6 DEF WriteInv, Written, AttemptInv, CopyInv, BetweenInv
<1>3. CASE \E w \in Workloads : ChangeWorkload(w)
  BY <1>3, ElsewhereWritten DEF ChangeWorkload, api, memory, job
<1>4. CASE ChangeInstall
  BY <1>4, ElsewhereWritten DEF ChangeInstall, memory, job
<1>5. CASE Restart
  BY <1>5 DEF Restart, Written, AttemptInv, CopyInv, BetweenInv, NoRound, NoPods
<1> QED
  BY <1>1, <1>2, <1>3, <1>4, <1>5 DEF Environment

\* Every step keeps it.
LEMMA WriteStep == WriteInv /\ [Next]_vars => WriteInv'
<1> SUFFICES ASSUME WriteInv, [Next]_vars PROVE Written'
  BY TypeStep DEF WriteInv, Written
<1>1. CASE UNCHANGED vars
  BY <1>1, ElsewhereWritten DEF vars, api, memory, job
<1> QED
  BY <1>1, CallsWritten, StepWritten, StepFailsWritten, EnvironmentWritten DEF Next

\* Nothing has been read yet.
LEMMA WriteInit == Init => WriteInv
  BY TypeInit DEF Init, WriteInv, AttemptInv, CopyInv, BetweenInv, NoRound, NoPods

-----------------------------------------------------------------------------
(***************************************************************************)
(* Who writes what.                                                        *)
(***************************************************************************)
WritesWanted ==
  /\ pc = "clean" /\ round.found /\ round.current
  /\ co' = [Wanted EXCEPT !.lastSeen = co.lastSeen]

\* Only a write at the end of set changes the conditions or the version.
LEMMA OnlySetWrites ==
  ASSUME TypeInv, [Next]_vars, co # Nil, co' # Nil
  PROVE  \/ co'.conditions = co.conditions /\ co'.version = co.version
         \/ WritesWanted
<1>1. CASE UNCHANGED co
  BY <1>1
<1>2. CASE SetLastPodState
  <2>1. co' \in {co, [co EXCEPT !.lastSeen = pods.seen]}
    BY <1>2 DEF SetLastPodState, WriteOperator
  <2> QED
    BY <2>1, SameButSeen DEF TypeInv, TypeOK
<1>3. CASE CreateOperator
  BY <1>3 DEF CreateOperator
<1>4. CASE UpdateOperator
  BY <1>4 DEF UpdateOperator, Cleaned, WriteOperator, WritesWanted
<1>5. CASE WriteOperatorFails
  BY <1>5 DEF WriteOperatorFails, Cleaned, WriteOperator, WritesWanted
<1>6. CASE Tick
  BY <1>6, AgedSame DEF Tick, TypeInv, TypeOK
<1>7. CASE InstallReconcilerCalls \/ SetFromPods
  <2>1. UNCHANGED co
    BY <1>7 DEF InstallReconcilerCalls, SetDegraded, SetNotDegraded, SetRendered,
       SetRenderedFails, Publish, ApplyRendered, SetFromPods, api
  <2> QED
    BY <2>1
<1>8. CASE \/ set \/ DeleteRelated \/ OperatorUnchanged \/ Conflict \/ SetInstallStatus
           \/ SetLastPodStateFails \/ GetFails \/ DeleteRelatedFails \/ SetInstallStatusFails
  <2>1. UNCHANGED co
    BY <1>8 DEF set, DeleteRelated, OperatorUnchanged, Conflict, SetInstallStatus,
       SetLastPodStateFails, GetFails, DeleteRelatedFails, SetInstallStatusFails, api
  <2> QED
    BY <2>1
<1>9. CASE Deliver \/ (\E w \in Workloads : ChangeWorkload(w)) \/ ChangeInstall \/ Restart
  <2>1. UNCHANGED co
    BY <1>9 DEF Deliver, ChangeWorkload, ChangeInstall, Restart, api
  <2> QED
    BY <2>1
<1>10. CASE UNCHANGED vars
  BY <1>10 DEF vars, api
<1> QED
  BY <1>2, <1>3, <1>4, <1>5, <1>6, <1>7, <1>8, <1>9, <1>10
  DEF Next, Step, StepFails, Environment

\* Only the copy at the end of set changes the AntreaInstall's conditions, unless users
\* create or delete it.
LEMMA OnlyCopyWrites ==
  ASSUME [Next]_vars, install # Nil, install' \notin {install, Nil}
  PROVE  pc = "copy" /\ install' = round.base.conditions
<1>1. CASE SetInstallStatus \/ SetInstallStatusFails
  BY <1>1 DEF SetInstallStatus, SetInstallStatusFails
<1>2. CASE ChangeInstall
  BY <1>2 DEF ChangeInstall
<1>3. CASE InstallReconcilerCalls \/ SetFromPods
  BY <1>3 DEF InstallReconcilerCalls, SetDegraded, SetNotDegraded, SetRendered,
     SetRenderedFails, Publish, ApplyRendered, SetFromPods, api
<1>4. CASE \/ SetLastPodState \/ set \/ DeleteRelated \/ OperatorUnchanged \/ CreateOperator
           \/ UpdateOperator \/ Conflict \/ SetLastPodStateFails \/ GetFails
           \/ DeleteRelatedFails \/ WriteOperatorFails
  BY <1>4 DEF SetLastPodState, set, DeleteRelated, OperatorUnchanged, CreateOperator,
     UpdateOperator, Conflict, SetLastPodStateFails, GetFails, DeleteRelatedFails,
     WriteOperatorFails, api
<1>5. CASE \/ Deliver \/ Tick \/ (\E w \in Workloads : ChangeWorkload(w)) \/ Restart
           \/ UNCHANGED vars
  BY <1>5 DEF Deliver, Tick, ChangeWorkload, Restart, vars, api
<1> QED
  BY <1>1, <1>2, <1>3, <1>4, <1>5 DEF Next, Step, StepFails, Environment

\* What a write of set shows.
LEMMA WantedShows ==
  ASSUME WriteInv, WritesWanted
  PROVE  /\ \/ co'.conditions.degraded = co.conditions.degraded
            \/ co'.conditions.degraded = DegradedCondition(failing).degraded
         /\ \/ co'.version = co.version
            \/ /\ co'.version = version
               /\ co'.conditions.available = "True" /\ co'.conditions.progressing = {}
<1> DEFINE k == setClusterOperatorConditions(round.base.conditions, round.new)
<1>1. /\ co'.conditions = k
      /\ co'.version = IF round.reached THEN version ELSE round.base.version
  BY WantedFields DEF WriteInv, WritesWanted
<1>2. /\ co.conditions = round.base.conditions /\ co.version = round.base.version
      /\ round.new.degraded \in {Nil, DegradedCondition(failing).degraded}
      /\ round.reached => round.new.progressing = {} /\ round.new.available = "True"
  BY DEF WriteInv, WritesWanted, AttemptInv
<1>3. round.base.conditions \in Conditions /\ round.new \in Conditions
  BY DEF WriteInv, TypeInv, TypeOK, Rounds, ClusterOperators
<1>4. /\ k.degraded = IF round.new.degraded = Nil THEN round.base.conditions.degraded
                                                 ELSE round.new.degraded
      /\ round.new.progressing = {} /\ round.new.available = "True" =>
           k.progressing = {} /\ k.available = "True"
  BY <1>3, ConditionsCombined
<1> HIDE DEF k
<1> QED
  BY <1>1, <1>2, <1>4

\* For both platforms, every sequence of manifests, all workloads, and any number of stale
\* reads, conflicts, failed calls and restarts: Degraded changes to the lowest level that
\* fails at that moment, never to what an older read showed.
THEOREM DegradedCurrent == Spec => DegradedIsCurrent
<1>1. WriteInv /\ [Next]_vars =>
        [co # Nil /\ co' # Nil /\ co'.conditions.degraded # co.conditions.degraded =>
           co'.conditions.degraded = DegradedCondition(failing).degraded]_vars
  BY OnlySetWrites, WantedShows DEF WriteInv
<1> QED
  BY <1>1, WriteInit, WriteStep, PTL DEF Spec, DegradedIsCurrent

\* The version in the ClusterOperator changes to the running one only, in a write that
\* shows Available with nothing progressing.
THEOREM VersionEarned == Spec => VersionIsEarned
<1>1. WriteInv /\ [Next]_vars =>
        [co # Nil /\ co' # Nil /\ co'.version # co.version =>
           /\ co'.version = version
           /\ co'.conditions.available = "True" /\ co'.conditions.progressing = {}]_vars
  BY OnlySetWrites, WantedShows DEF WriteInv
<1> QED
  BY <1>1, WriteInit, WriteStep, PTL DEF Spec, VersionIsEarned

\* The AntreaInstall comes to show what the ClusterOperator holds at that moment only.
THEOREM InstallCopies == Spec => InstallCopiesOperator
<1>1. WriteInv /\ [Next]_vars =>
        [Openshift /\ install # Nil /\ install' \notin {install, Nil} =>
           co # Nil /\ install' = co.conditions]_vars
  BY OnlyCopyWrites DEF WriteInv, CopyInv
<1> QED
  BY <1>1, WriteInit, WriteStep, PTL DEF Spec, InstallCopiesOperator

-----------------------------------------------------------------------------
(***************************************************************************)
(* The way of an operation to its end.                                     *)
(***************************************************************************)

\* A call that returns leaves one call less.
LEMMA DoneForward ==
  ASSUME WriteInv, pc # "idle", CallDone
  PROVE  Forward
<1>1. calls \in Seq(Calls) /\ calls # << >>
  BY DEF WriteInv, TypeInv, TypeOK
<1>2. Len(Tail(calls)) < Len(calls)
  BY <1>1
<1> QED
  BY <1>2 DEF CallDone, Forward

\* An object that is no longer pending leaves less to clean.
LEMMA CleanForward ==
  ASSUME WriteInv, NEW o \in round.pending, round' = [round EXCEPT !.pending = @ \ {o}],
         UNCHANGED <<pc, calls>>
  PROVE  Forward
<1>1. round'.tries = round.tries /\ round'.pending = round.pending \ {o}
  BY DEF WriteInv, TypeInv, TypeOK, Rounds
<1> QED
  BY <1>1 DEF Forward

\* Each step of the operation goes forward.
LEMMA StepForward == ASSUME WriteInv, Step \/ StepFails PROVE Forward
<1>1. CASE \/ SetLastPodState \/ OperatorUnchanged \/ CreateOperator \/ SetInstallStatus
           \/ SetLastPodStateFails \/ GetFails \/ WriteOperatorFails \/ SetInstallStatusFails
  <2>1. pc # "idle" /\ CallDone
    BY <1>1 DEF SetLastPodState, OperatorUnchanged, CreateOperator, SetInstallStatus,
       SetLastPodStateFails, GetFails, WriteOperatorFails, SetInstallStatusFails, Cleaned
  <2> QED
    BY <2>1, DoneForward
<1>2. CASE set
  <2>1. pc = "call" /\ round.tries = 0
    BY <1>2 DEF set, WriteInv, BetweenInv
  <2>2. \/ CallDone
        \/ pc' = "clean" /\ round'.tries = 0 /\ UNCHANGED calls
        \/ pc' = "copy" /\ round'.tries = 0 /\ UNCHANGED calls
    <3>1. ASSUME NEW n, NEW r, ReadOperator(n, r, 0)
          PROVE  pc' = "clean" /\ round'.tries = 0
      BY <3>1 DEF ReadOperator
    <3>2. ASSUME NEW n, ReadInstall(n)
          PROVE  \/ CallDone
                 \/ pc' = "copy" /\ round'.tries = 0 /\ UNCHANGED calls
      <4> DEFINE k == setClusterOperatorConditions(NoConditions, n)
      <4>1. \/ CallDone
            \/ /\ round' = [NoRound EXCEPT !.new = n, !.base.conditions = k]
               /\ pc' = "copy" /\ UNCHANGED calls
        BY <3>2 DEF ReadInstall
      <4> HIDE DEF k
      <4> QED
        BY <4>1 DEF NoRound
    <3> QED
      BY <1>2, <3>1, <3>2 DEF set
  <2> QED
    BY <2>1, <2>2, DoneForward DEF Forward
<1>3. CASE DeleteRelated \/ DeleteRelatedFails
  BY <1>3, CleanForward DEF DeleteRelated, DeleteRelatedFails
<1>4. CASE UpdateOperator
  <2>1. pc = "clean" /\ pc' = "copy" /\ UNCHANGED calls
    BY <1>4 DEF UpdateOperator, Cleaned
  <2>2. round'.tries = round.tries
    BY <1>4 DEF UpdateOperator, WriteInv, TypeInv, TypeOK, Rounds
  <2> QED
    BY <2>1, <2>2 DEF Forward
<1>5. CASE Conflict
  <2>1. CASE CallDone
    BY <1>5, <2>1, DoneForward DEF Conflict, Cleaned
  <2>2. CASE /\ round.tries + 1 < MaxAttempts
             /\ ReadOperator(round.new, round.reached, round.tries + 1) /\ UNCHANGED calls
    BY <2>2 DEF ReadOperator, Forward
  <2> QED
    BY <1>5, <2>1, <2>2 DEF Conflict
<1> QED
  BY <1>1, <1>2, <1>3, <1>4, <1>5 DEF Step, StepFails

\* Nothing else turns an operation back.
LEMMA OthersPause ==
  ASSUME WriteInv, [Next]_vars, pc # "idle", ~ (Step \/ StepFails)
  PROVE  Paused \/ pc' = "idle"
<1>1. CASE UNCHANGED vars
  BY <1>1 DEF vars, job, Paused
<1>2. CASE InstallReconcilerCalls \/ SetFromPods
  BY <1>2 DEF InstallReconcilerCalls, SetDegraded, SetNotDegraded, SetRendered,
     SetRenderedFails, Publish, ApplyRendered, SetFromPods, Start, job, Paused
<1>3. CASE Tick
  <2>1. round'.tries = round.tries /\ round'.pending = round.pending
    BY <1>3 DEF Tick, WriteInv, TypeInv, TypeOK, Rounds
  <2> QED
    BY <1>3, <2>1 DEF Tick, Paused
<1>4. CASE Deliver \/ (\E w \in Workloads : ChangeWorkload(w)) \/ ChangeInstall \/ Restart
  BY <1>4 DEF Deliver, ChangeWorkload, ChangeInstall, Restart, job, Paused
<1> QED
  BY <1>1, <1>2, <1>3, <1>4 DEF Next, Environment

\* Every operation gets to its end, or the process does: the safety half of the mutex being
\* released, for any number of objects, attempts and calls.
THEOREM OperationsForward == Spec => OperationsGoForward
<1>1. WriteInv /\ [Next]_vars =>
        [pc # "idle" => IF Step \/ StepFails THEN Forward ELSE Paused \/ pc' = "idle"]_vars
  BY StepForward, OthersPause
<1> QED
  BY <1>1, WriteInit, WriteStep, PTL DEF Spec, OperationsGoForward
=============================================================================
