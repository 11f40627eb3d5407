-------------------------- MODULE StatusTypeProofs --------------------------
(***************************************************************************)
(* The types of StatusManager, and what rests on them: the AntreaInstall   *)
(* shows what the ClusterOperator shows.                                   *)
(***************************************************************************)
EXTENDS StatusManager, TLAPS

\* What may be written is there, and what is put back on the list has one to go back to.
RoundOK ==
  /\ round.found /\ round.current => co # Nil
  /\ pc = "clean" /\ round.pending # {} => related \in SUBSET Objects

TypeInv == TypeOK /\ RoundOK

-----------------------------------------------------------------------------
(***************************************************************************)
(* The operators return what their arguments' types promise.               *)
(***************************************************************************)

\* A level that fails is one of the levels.
LEMMA LowestTyped ==
  ASSUME NEW f \in SUBSET Levels, f # {}
  PROVE  Lowest(f) \in Levels
<1> DEFINE First(i) == LevelOrder[i] \in f /\ \A j \in 1..(i - 1) : LevelOrder[j] \notin f
<1>1. DOMAIN LevelOrder = 1..5
  BY DEF LevelOrder
<1>2. \E i \in 1..5 : LevelOrder[i] \in f
  BY <1>1 DEF Levels
<1>3. \E i \in 1..5 : First(i)
  <2>1. CASE LevelOrder[1] \in f
    BY <2>1
  <2>2. CASE LevelOrder[1] \notin f /\ LevelOrder[2] \in f
    <3>1. First(2)
      BY <2>2
    <3> QED
      BY <3>1
  <2>3. CASE {LevelOrder[1], LevelOrder[2]} \cap f = {} /\ LevelOrder[3] \in f
    <3>1. First(3)
      BY <2>3
    <3> QED
      BY <3>1
  <2>4. CASE {LevelOrder[1], LevelOrder[2], LevelOrder[3]} \cap f = {} /\ LevelOrder[4] \in f
    <3>1. First(4)
      BY <2>4
    <3> QED
      BY <3>1
  <2>5. CASE {LevelOrder[i] : i \in 1..4} \cap f = {} /\ LevelOrder[5] \in f
    <3>1. First(5)
      BY <2>5
    <3> QED
      BY <3>1
  <2> QED
    BY <1>2, <2>1, <2>2, <2>3, <2>4, <2>5
<1>4. (CHOOSE i \in 1..5 : First(i)) \in 1..5
  BY <1>3
<1> QED
  BY <1>1, <1>4 DEF Lowest, Levels

\* The conditions that set starts from.
LEMMA NewConditionsTyped ==
  ASSUME TypeInv
  PROVE  /\ NoConditions \in Conditions
         /\ PodConditions \in Conditions
         /\ \A f \in SUBSET Levels : DegradedCondition(f) \in Conditions
<1>1. NoConditions \in Conditions
  BY DEF NoConditions, Conditions
<1>2. PodConditions \in Conditions
  BY DEF PodConditions, NoConditions, Conditions, TypeInv, TypeOK, PodLocals
<1>3. ASSUME NEW f \in SUBSET Levels PROVE DegradedCondition(f) \in Conditions
  BY LowestTyped DEF DegradedCondition, NoConditions, Conditions
<1> QED
  BY <1>1, <1>2, <1>3

\* The conditions that it writes.
LEMMA ConditionsTyped ==
  ASSUME NEW old \in Conditions, NEW new \in Conditions
  PROVE  setClusterOperatorConditions(old, new) \in Conditions
<1> DEFINE c == CombineConditions(old, new)
<1>1. DOMAIN old = {"degraded", "progressing", "available"}
  BY DEF Conditions
<1>2. c = [degraded |-> IF new.degraded = Nil THEN old.degraded ELSE new.degraded,
           progressing |-> IF new.progressing = Nil THEN old.progressing ELSE new.progressing,
           available |-> IF new.available = Nil THEN old.available ELSE new.available]
  BY <1>1 DEF CombineConditions
<1>3. c \in Conditions
  BY <1>2 DEF Conditions
<1> HIDE DEF c
<1>4. [c EXCEPT !.available = "False"] \in Conditions
  BY <1>3 DEF Conditions
<1> QED
  BY <1>3, <1>4 DEF setClusterOperatorConditions, c

\* The ClusterOperator that it writes.
LEMMA OperatorTyped ==
  ASSUME TypeInv
  PROVE  /\ NoOperator \in ClusterOperators
         /\ Wanted \in ClusterOperators
         /\ \A c \in ClusterOperators, l \in LastSeenStates \cup {Nil} :
              [c EXCEPT !.lastSeen = l] \in ClusterOperators
<1>1. NoOperator \in ClusterOperators
  BY NewConditionsTyped DEF NoOperator, ClusterOperators
<1>2. Wanted \in ClusterOperators
  <2> DEFINE k == setClusterOperatorConditions(round.base.conditions, round.new)
             l == IF related = Nil THEN round.base.related ELSE related
             v == IF round.reached THEN version ELSE round.base.version
  <2>1. round.base \in ClusterOperators /\ round.new \in Conditions
    BY DEF TypeInv, TypeOK, Rounds
  <2>2. k \in Conditions
    BY <2>1, ConditionsTyped DEF ClusterOperators
  <2>3. l \in SUBSET Objects
    BY <2>1 DEF TypeInv, TypeOK, ClusterOperators
  <2>4. v \in DOMAIN Manifest \cup {Nil}
    BY <2>1 DEF TypeInv, TypeOK, ClusterOperators
  <2>5. Wanted = [round.base EXCEPT !.conditions = k, !.related = l, !.version = v]
    BY DEF Wanted
  <2> HIDE DEF k, l, v
  <2> QED
    BY <2>1, <2>2, <2>3, <2>4, <2>5 DEF ClusterOperators
<1>3. ASSUME NEW c \in ClusterOperators, NEW l \in LastSeenStates \cup {Nil}
      PROVE  [c EXCEPT !.lastSeen = l] \in ClusterOperators
  BY DEF ClusterOperators
<1> QED
  BY <1>1, <1>2, <1>3

\* What time makes of the last change times.
LEMMA AgedTyped ==
  /\ \A s \in LastSeenStates : Aged(s) \in LastSeenStates
  /\ \A c \in ClusterOperators :
       AgedOperator(c) \in ClusterOperators /\ AgedOperator(c).conditions = c.conditions
  /\ AgedOperator(Nil) = Nil
<1>1. ASSUME NEW s \in LastSeenStates PROVE Aged(s) \in LastSeenStates
  <2> DEFINE R == [status : DaemonSetStatuses \cup DeploymentStatuses, age : Ages]
  <2>1. PICK W \in SUBSET Workloads : s \in [W -> R]
    BY DEF LastSeenStates
  <2>2. ASSUME NEW w \in W
        PROVE  [s[w] EXCEPT !.age =
                  IF s[w].age \in Ages \ {ProgressTimeout + 1} THEN s[w].age + 1 ELSE s[w].age]
                 \in R
    BY <2>1, StatusAssumption DEF Ages
  <2>3. CASE s = Nil
    BY <2>3 DEF Aged
  <2>4. CASE s # Nil
    <3>1. Aged(s) \in [W -> R]
      BY <2>1, <2>2, <2>4 DEF Aged
    <3> QED
      BY <3>1 DEF LastSeenStates
  <2> QED
    BY <2>3, <2>4
<1>2. ASSUME NEW c \in ClusterOperators
      PROVE  AgedOperator(c) \in ClusterOperators /\ AgedOperator(c).conditions = c.conditions
  <2> DEFINE l == Aged(c.lastSeen)
  <2>1. l \in LastSeenStates \cup {Nil}
    BY <1>1 DEF ClusterOperators, Aged
  <2>2. AgedOperator(c) = [c EXCEPT !.lastSeen = l]
    BY NilAssumption DEF AgedOperator
  <2> HIDE DEF l
  <2> QED
    BY <2>1, <2>2 DEF ClusterOperators
<1>3. AgedOperator(Nil) = Nil
  BY DEF AgedOperator
<1> QED
  BY <1>1, <1>2, <1>3

\* What SetFromPods computes from what it reads.
LEMMA SeenTyped ==
  ASSUME TypeInv
  PROVE  /\ Rolling \in SUBSET Workloads
         /\ SeenNow(LastPodState) \in LastSeenStates
<1> DEFINE R == [status : DaemonSetStatuses \cup DeploymentStatuses, age : Ages]
           before == LastPodState
<1>1. Rolling \subseteq Present /\ Present \subseteq Workloads
  BY DEF Rolling, Present, TypeInv, TypeOK
<1>2. before \in LastSeenStates
  <2>1. Nothing \in LastSeenStates
    <3>1. Nothing \in [{} -> R]
      BY DEF Nothing
    <3> QED
      BY <3>1 DEF LastSeenStates
  <2> QED
    BY <2>1 DEF LastPodState, TypeInv, TypeOK, ClusterOperators
<1> HIDE DEF before
<1>3. PICK W \in SUBSET Workloads : before \in [W -> R]
  BY <1>2 DEF LastSeenStates
<1>4. ASSUME NEW w \in Rolling
      PROVE  [status |-> workload[w].status, age |-> 0] \in R
  <2>1. workload[w] \in [status : DaemonSetStatuses \cup DeploymentStatuses, behind : BOOLEAN]
    BY <1>1 DEF Present, TypeInv, TypeOK, WorkloadStates
  <2>2. 0 \in Ages
    BY StatusAssumption DEF Ages
  <2> QED
    BY <2>1, <2>2
<1> DEFINE D == Rolling \cup (W \ Present)
<1>5. D \in SUBSET Workloads
  BY <1>1
<1>6. SeenNow(before) \in [D -> R]
  BY <1>3, <1>4 DEF SeenNow
<1> QED
  BY <1>1, <1>5, <1>6 DEF LastSeenStates, before
-----------------------------------------------------------------------------
(***************************************************************************)
(* The steps, in two parts: the operation that holds the mutex, and the    *)
(* rest of the state.                                                      *)
(***************************************************************************)
JobTyped ==
  /\ pc \in {"idle", "call", "clean", "copy"}
  /\ calls \in Seq(Calls) /\ (pc = "idle" <=> calls = << >>)
  /\ round \in Rounds
  /\ pods \in PodLocals
  /\ RoundOK

WorldTyped ==
  /\ co \in ClusterOperators \cup {Nil} /\ coCache \in ClusterOperators \cup {Nil}
  /\ install \in Conditions \cup {Nil}
  /\ existing \subseteq Objects
  /\ DOMAIN workload = Workloads /\ \A w \in Workloads : workload[w] \in WorkloadStates(w)
  /\ event \in BOOLEAN
  /\ synced \in BOOLEAN /\ (synced => coCache = co)
  /\ version \in DOMAIN Manifest
  /\ failing \subseteq Levels
  /\ watched \in {{}, Workloads}
  /\ related \in (SUBSET Objects) \cup {Nil}
  /\ applying \in BOOLEAN

LEMMA TypeParts == /\ TypeInv <=> JobTyped /\ WorldTyped
                   /\ TypeInv' <=> JobTyped' /\ WorldTyped'
  BY DEF TypeInv, TypeOK, JobTyped, WorldTyped

\* The locals of an operation that has none.
LEMMA IdleTyped == NoRound \in Rounds /\ NoPods \in PodLocals
<1>1. NoConditions \in Conditions
  BY DEF NoConditions, Conditions
<1>2. NoOperator \in ClusterOperators
  BY <1>1 DEF NoOperator, ClusterOperators
<1>3. NoRound \in Rounds
  BY <1>1, <1>2, StatusAssumption DEF NoRound, Rounds
<1>4. Nothing \in LastSeenStates
  <2> DEFINE R == [status : DaemonSetStatuses \cup DeploymentStatuses, age : Ages]
  <2>1. Nothing \in [{} -> R]
    BY DEF Nothing
  <2> QED
    BY <2>1 DEF LastSeenStates
<1> QED
  BY <1>3, <1>4 DEF NoPods, PodLocals

\* Initially there is nothing.
LEMMA TypeInit == Init => TypeInv
<1> SUFFICES ASSUME Init PROVE TypeInv
  OBVIOUS
<1>1. NoConditions \in Conditions
  BY DEF NoConditions, Conditions
<1>2. 1 \in DOMAIN Manifest
  BY StatusAssumption
<1>3. JobTyped
  BY IdleTyped DEF Init, JobTyped, RoundOK, NoRound
<1>4. WorldTyped
  BY <1>1, <1>2 DEF Init, WorldTyped, WorkloadStates
<1> QED
  BY <1>3, <1>4, TypeParts

\* A call that returns.
LEMMA DoneTyped ==
  ASSUME TypeInv, pc # "idle", CallDone
  PROVE  JobTyped'
<1>1. calls \in Seq(Calls) /\ calls # << >> /\ pods \in PodLocals
  BY DEF TypeInv, TypeOK
<1>2. Tail(calls) \in Seq(Calls)
  BY <1>1
<1>3. calls' = Tail(calls) /\ round' = NoRound
  BY DEF CallDone
<1>4. (pc' = "idle" /\ pods' = NoPods /\ calls' = << >>) \/ (pc' = "call" /\ pods' = pods /\ calls' # << >>)
  BY DEF CallDone
<1>5. RoundOK'
  BY <1>3, <1>4 DEF RoundOK, NoRound
<1> QED
  BY <1>1, <1>2, <1>3, <1>4, <1>5, IdleTyped DEF JobTyped

\* The write of a ClusterOperator.
LEMMA WriteTyped ==
  ASSUME TypeInv, NEW c \in ClusterOperators, WriteOperator(c),
         UNCHANGED <<install, existing, workloads, memory>>
  PROVE  WorldTyped'
  BY DEF TypeInv, TypeOK, WorldTyped, WriteOperator, workloads, memory

\* A read of the ClusterOperator that starts a round.
LEMMA ReadTyped ==
  ASSUME TypeInv, pc # "idle", NEW n \in Conditions, NEW r \in BOOLEAN,
         NEW t \in 0..(MaxAttempts - 1), ReadOperator(n, r, t),
         UNCHANGED <<co, related, calls, pods>>
  PROVE  JobTyped'
<1> DEFINE b == IF coCache # Nil THEN coCache ELSE NoOperator
           p == IF related = Nil THEN {} ELSE b.related \ related
<1>1. /\ round' = [new |-> n, reached |-> r, tries |-> t, base |-> b,
                   found |-> (coCache # Nil), current |-> synced, pending |-> p]
      /\ pc' = "clean"
  BY DEF ReadOperator
<1>2. b \in ClusterOperators
  BY OperatorTyped DEF TypeInv, TypeOK
<1>3. p \in SUBSET Objects
  BY <1>2 DEF ClusterOperators
<1>4. p # {} => related \in SUBSET Objects
  BY DEF TypeInv, TypeOK
<1>5. coCache # Nil /\ synced => co # Nil
  BY DEF TypeInv, TypeOK
<1>6. synced \in BOOLEAN
  BY DEF TypeInv, TypeOK
<1> HIDE DEF b, p
<1>7. round' \in Rounds
  BY <1>1, <1>2, <1>3, <1>6 DEF Rounds
<1>8. RoundOK'
  BY <1>1, <1>4, <1>5 DEF RoundOK
<1> QED
  BY <1>1, <1>7, <1>8 DEF JobTyped, TypeInv, TypeOK

\* The calls of the install reconciler.
LEMMA InstallReconcilerCallsTyped ==
  ASSUME TypeInv, InstallReconcilerCalls PROVE TypeInv'
<1> USE DEF TypeInv, TypeOK, RoundOK
<1>1. ASSUME NEW level \in {"ClusterConfig", "OperatorConfig"},
             SetDegraded(level) \/ SetNotDegraded(level)
      PROVE  TypeInv'
  <2>1. level \in Levels
    BY DEF Levels, LevelOrder
  <2>2. /\ failing' = failing \cup {level} \/ failing' = failing \ {level}
        /\ pc = "idle" /\ pc' = "call" /\ calls' = <<"degraded">>
        /\ UNCHANGED <<co, install, existing, workload, event, coCache, synced, version,
                       watched, related, applying, round, pods>>
    BY <1>1 DEF SetDegraded, SetNotDegraded, Start, api, workloads, cache
  <2>3. WorldTyped'
    BY <2>1, <2>2 DEF WorldTyped
  <2>4. <<"degraded">> \in Seq(Calls) /\ <<"degraded">> # << >>
    BY DEF Calls
  <2>5. JobTyped'
    BY <2>2, <2>4 DEF JobTyped
  <2> QED
    BY <2>3, <2>5, TypeParts
<1>2. ASSUME SetRendered \/ SetRenderedFails PROVE TypeInv'
  <2>1. PICK listed \in SUBSET Manifest[version] : Publish(listed)
    BY <1>2 DEF SetRendered, SetRenderedFails
  <2>2. listed \subseteq Objects
    BY DEF Objects
  <2> QED
    BY <2>1, <2>2 DEF Publish, api, workloads, cache, job
<1>3. ASSUME ApplyRendered PROVE TypeInv'
  <2>1. Manifest[version] \subseteq Objects
    BY DEF Objects
  <2> QED
    BY <1>3, <2>1 DEF ApplyRendered, cache, job
<1> QED
  BY <1>1, <1>2, <1>3 DEF InstallReconcilerCalls

\* SetFromPods starts an operation with what it has read.
LEMMA SetFromPodsTyped == ASSUME TypeInv, SetFromPods PROVE TypeInv'
<1>1. pods' \in PodLocals
  <2> DEFINE seen == SeenNow(LastPodState)
             waiting == Rolling \cup (watched \ Present)
             hung == {w \in Rolling \cap DOMAIN LastPodState : seen[w].age > ProgressTimeout}
  <2>1. seen \in LastSeenStates /\ Rolling \in SUBSET Workloads
    BY SeenTyped
  <2>2. waiting \in SUBSET Workloads /\ hung \in SUBSET Workloads
    BY <2>1 DEF TypeInv, TypeOK
  <2>3. pods' = [progressing |-> waiting, reached |-> (waiting = {}), hung |-> hung,
                 seen |-> seen]
    BY DEF SetFromPods
  <2> HIDE DEF seen, waiting, hung
  <2> QED
    BY <2>1, <2>2, <2>3 DEF PodLocals
<1>2. PodCalls(pods'.hung) \in Seq(Calls) /\ PodCalls(pods'.hung) # << >>
  <2>1. {"degraded", "lastSeen", "conditions", "hung"} = Calls
    BY DEF Calls
  <2>2. CASE Openshift
    <3>1. PodCalls(pods'.hung) = <<"degraded", "lastSeen", "conditions", "hung">>
      BY <2>2 DEF PodCalls
    <3>2. <<"degraded", "lastSeen", "conditions", "hung">> \in Seq(Calls)
      BY <2>1
    <3> QED
      BY <3>1, <3>2
  <2>3. CASE ~ Openshift
    <3>1. PodCalls(pods'.hung) = <<"degraded", "conditions", "hung">>
      BY <2>3 DEF PodCalls
    <3>2. <<"degraded", "conditions", "hung">> \in Seq(Calls)
      BY <2>1
    <3> QED
      BY <3>1, <3>2
  <2> QED
    BY <2>2, <2>3
<1>3. JobTyped'
  BY <1>1, <1>2 DEF SetFromPods, Start, api, JobTyped, TypeInv, TypeOK, RoundOK
<1>4. WorldTyped'
  BY DEF SetFromPods, api, cache, WorldTyped, TypeInv, TypeOK
<1> QED
  BY <1>3, <1>4, TypeParts
\* The steps of the operation that holds the mutex.
LEMMA StepTyped == ASSUME TypeInv, Step PROVE TypeInv'
<1>1. ASSUME SetLastPodState PROVE TypeInv'
  <2>1. pc # "idle" /\ CallDone /\ UNCHANGED <<install, existing, workloads, memory>>
    BY <1>1 DEF SetLastPodState
  <2>2. CASE UNCHANGED <<co, cache>>
    BY <2>1, <2>2, DoneTyped, TypeParts DEF WorldTyped, workloads, memory, cache
  <2>3. CASE co # Nil /\ WriteOperator([co EXCEPT !.lastSeen = pods.seen])
    <3>1. [co EXCEPT !.lastSeen = pods.seen] \in ClusterOperators
      BY <2>3, OperatorTyped DEF TypeInv, TypeOK, PodLocals
    <3> QED
      BY <2>1, <2>3, <3>1, DoneTyped, WriteTyped, TypeParts
  <2> QED
    BY <1>1, <2>2, <2>3 DEF SetLastPodState
<1>2. ASSUME set PROVE TypeInv'
  <2>1. /\ pc = "call" /\ SetRolloutHung
        /\ UNCHANGED <<api, workloads, cache, version, watched, related, applying>>
    BY <1>2 DEF set
  <2>2. failing' \in SUBSET Levels
    BY <2>1 DEF SetRolloutHung, TypeInv, TypeOK, Levels, LevelOrder
  <2>3. WorldTyped'
    BY <2>1, <2>2 DEF TypeInv, TypeOK, WorldTyped, api, workloads, cache
  <2> DEFINE pod == Head(calls) = "conditions"
             new == IF pod THEN PodConditions ELSE DegradedCondition(failing')
  <2>4. new \in Conditions
    BY <2>2, NewConditionsTyped
  <2>5. IF Openshift THEN ReadOperator(new, pod /\ pods.reached, 0) /\ UNCHANGED <<calls, pods>>
                     ELSE ReadInstall(new)
    BY <1>2 DEF set
  <2> HIDE DEF new
  <2>6. CASE Openshift
    <3>1. (pod /\ pods.reached) \in BOOLEAN
      OBVIOUS
    <3>2. 0 \in 0..(MaxAttempts - 1)
      BY StatusAssumption
    <3>3. JobTyped'
      BY <2>1, <2>4, <2>5, <2>6, <3>1, <3>2, ReadTyped DEF api
    <3> QED
      BY <2>3, <3>3, TypeParts
  <2>7. CASE ~ Openshift
    <3>1. CASE CallDone
      BY <2>1, <2>3, <3>1, DoneTyped, TypeParts
    <3>2. CASE /\ round' = [NoRound EXCEPT
                              !.new = new,
                              !.base.conditions = setClusterOperatorConditions(NoConditions, new)]
               /\ pc' = "copy"
               /\ UNCHANGED <<calls, pods>>
      <4> DEFINE k == setClusterOperatorConditions(NoConditions, new)
      <4>1. k \in Conditions
        BY <2>4, NewConditionsTyped, ConditionsTyped
      <4> HIDE DEF k
      <4>2. round' = [NoRound EXCEPT !.new = new, !.base.conditions = k]
        BY <3>2 DEF k
      <4>3. round' \in Rounds /\ ~ round'.found
        BY <2>4, <4>1, <4>2, IdleTyped DEF Rounds, ClusterOperators, NoRound
      <4>4. JobTyped'
        BY <2>1, <3>2, <4>3 DEF JobTyped, RoundOK, TypeInv, TypeOK
      <4> QED
        BY <2>3, <4>4, TypeParts
    <3> QED
      BY <2>5, <2>7, <3>1, <3>2 DEF ReadInstall
  <2> QED
    BY <2>6, <2>7
<1>3. ASSUME DeleteRelated PROVE TypeInv'
  <2>1. PICK o \in round.pending :
          /\ round' = [round EXCEPT !.pending = @ \ {o}]
          /\ existing' \in {existing, existing \ {o}}
    BY <1>3 DEF DeleteRelated
  <2>2. UNCHANGED <<co, install, workloads, cache, memory, pc, calls, pods>>
    BY <1>3 DEF DeleteRelated
  <2>3. round' \in Rounds /\ round'.found = round.found /\ round'.current = round.current
        /\ (round'.pending # {} => round.pending # {})
    BY <2>1 DEF TypeInv, TypeOK, Rounds
  <2>4. WorldTyped'
    BY <2>1, <2>2 DEF TypeInv, TypeOK, WorldTyped, workloads, cache, memory
  <2>5. JobTyped'
    BY <2>2, <2>3 DEF TypeInv, TypeOK, JobTyped, RoundOK, memory
  <2> QED
    BY <2>4, <2>5, TypeParts
<1>4. ASSUME OperatorUnchanged PROVE TypeInv'
  <2>1. pc # "idle" /\ CallDone /\ UNCHANGED <<api, workloads, cache, memory>>
    BY <1>4 DEF OperatorUnchanged, Cleaned
  <2> QED
    BY <2>1, DoneTyped, TypeParts DEF WorldTyped, api, workloads, cache, memory
<1>5. ASSUME CreateOperator PROVE TypeInv'
  <2>1. pc # "idle" /\ CallDone /\ UNCHANGED <<install, existing, workloads, memory>>
    BY <1>5 DEF CreateOperator, Cleaned
  <2>2. CASE UNCHANGED <<co, cache>>
    BY <2>1, <2>2, DoneTyped, TypeParts DEF WorldTyped, workloads, memory, cache
  <2>3. CASE WriteOperator(NoOperator)
    BY <2>1, <2>3, DoneTyped, WriteTyped, OperatorTyped, TypeParts
  <2> QED
    BY <1>5, <2>2, <2>3 DEF CreateOperator
<1>6. ASSUME UpdateOperator PROVE TypeInv'
  <2>1. co # Nil
    BY <1>6 DEF UpdateOperator, TypeInv, RoundOK
  <2>2. Wanted \in ClusterOperators /\ [Wanted EXCEPT !.lastSeen = co.lastSeen] \in ClusterOperators
    <3>1. co.lastSeen \in LastSeenStates \cup {Nil}
      BY <2>1 DEF TypeInv, TypeOK, ClusterOperators
    <3> QED
      BY <3>1, OperatorTyped
  <2>3. WorldTyped'
    BY <1>6, <2>2, WriteTyped DEF UpdateOperator
  <2> DEFINE w == Wanted
  <2>4. round' = [round EXCEPT !.base = w] /\ pc' = "copy" /\ w \in ClusterOperators
        /\ UNCHANGED <<calls, pods>> /\ pc = "clean"
        /\ co' # Nil
    BY <1>6, <2>2, NilAssumption DEF UpdateOperator, WriteOperator, Cleaned
  <2> HIDE DEF w
  <2>5. JobTyped'
    BY <2>4 DEF TypeInv, TypeOK, JobTyped, RoundOK, Rounds
  <2> QED
    BY <2>3, <2>5, TypeParts
<1>7. ASSUME Conflict PROVE TypeInv'
  <2>1. pc # "idle" /\ UNCHANGED <<api, workloads, cache, memory>>
    BY <1>7 DEF Conflict, Cleaned
  <2>2. WorldTyped'
    BY <2>1 DEF TypeInv, TypeOK, WorldTyped, api, workloads, cache, memory
  <2>3. CASE CallDone
    BY <2>1, <2>2, <2>3, DoneTyped, TypeParts
  <2>4. CASE /\ round.tries + 1 < MaxAttempts
             /\ ReadOperator(round.new, round.reached, round.tries + 1)
             /\ UNCHANGED <<calls, pods>>
    <3>1. /\ round.tries + 1 \in 0..(MaxAttempts - 1)
          /\ round.new \in Conditions /\ round.reached \in BOOLEAN
      BY <2>4, StatusAssumption DEF TypeInv, TypeOK, Rounds
    <3>2. JobTyped'
      BY <2>1, <2>4, <3>1, ReadTyped DEF api, memory
    <3> QED
      BY <2>2, <3>2, TypeParts
  <2> QED
    BY <1>7, <2>3, <2>4 DEF Conflict
<1>8. ASSUME SetInstallStatus PROVE TypeInv'
  <2>1. pc # "idle" /\ CallDone /\ UNCHANGED <<co, existing, workloads, cache, memory>>
    BY <1>8 DEF SetInstallStatus
  <2>2. install' \in Conditions \cup {Nil}
    BY <1>8 DEF SetInstallStatus, TypeInv, TypeOK, Rounds, ClusterOperators
  <2> QED
    BY <2>1, <2>2, DoneTyped, TypeParts DEF WorldTyped, workloads, cache, memory
<1> QED
  BY <1>1, <1>2, <1>3, <1>4, <1>5, <1>6, <1>7, <1>8 DEF Step

\* The same steps when an API call returns an error.
LEMMA StepFailsTyped == ASSUME TypeInv, StepFails PROVE TypeInv'
<1>1. ASSUME SetLastPodStateFails PROVE TypeInv'
  <2>1. pc # "idle" /\ CallDone /\ UNCHANGED <<api, workloads, cache, memory>>
    BY <1>1 DEF SetLastPodStateFails
  <2> QED
    BY <2>1, DoneTyped, TypeParts DEF WorldTyped, api, workloads, cache, memory
<1>2. ASSUME GetFails PROVE TypeInv'
  <2>1. /\ pc # "idle" /\ CallDone /\ SetRolloutHung
        /\ UNCHANGED <<api, workloads, cache, version, watched, related, applying>>
    BY <1>2 DEF GetFails
  <2>2. failing' \in SUBSET Levels
    BY <2>1 DEF SetRolloutHung, TypeInv, TypeOK, Levels, LevelOrder
  <2>3. WorldTyped'
    BY <2>1, <2>2 DEF TypeInv, TypeOK, WorldTyped, api, workloads, cache
  <2> QED
    BY <2>1, <2>3, DoneTyped, TypeParts
<1>3. ASSUME DeleteRelatedFails PROVE TypeInv'
  <2>1. PICK o \in round.pending :
          /\ round' = [round EXCEPT !.pending = @ \ {o}]
          /\ related' = related \cup {o}
          /\ existing' \in {existing, existing \ {o}}
    BY <1>3 DEF DeleteRelatedFails
  <2>2. /\ UNCHANGED <<co, install, workloads, cache, version, failing, watched, applying,
                       pc, calls, pods>>
        /\ pc = "clean"
    BY <1>3 DEF DeleteRelatedFails
  <2>3. round' \in Rounds /\ round'.found = round.found /\ round'.current = round.current
    BY <2>1 DEF TypeInv, TypeOK, Rounds
  <2>4. related' \in SUBSET Objects
    BY <2>1, <2>2 DEF TypeInv, TypeOK, RoundOK, Rounds
  <2>5. WorldTyped'
    BY <2>1, <2>2, <2>4 DEF TypeInv, TypeOK, WorldTyped, workloads, cache
  <2>6. JobTyped'
    BY <2>2, <2>3, <2>4 DEF TypeInv, TypeOK, JobTyped, RoundOK
  <2> QED
    BY <2>5, <2>6, TypeParts
<1>4. ASSUME WriteOperatorFails PROVE TypeInv'
  <2>1. pc # "idle" /\ CallDone /\ UNCHANGED <<install, existing, workloads, memory>>
    BY <1>4 DEF WriteOperatorFails, Cleaned
  <2>2. CASE UNCHANGED <<co, cache>>
    BY <2>1, <2>2, DoneTyped, TypeParts DEF WorldTyped, workloads, memory, cache
  <2>3. CASE WriteOperator(NoOperator)
    BY <2>1, <2>3, DoneTyped, WriteTyped, OperatorTyped, TypeParts
  <2>4. CASE /\ round.found /\ round.current
             /\ WriteOperator([Wanted EXCEPT !.lastSeen = co.lastSeen])
    <3>1. co.lastSeen \in LastSeenStates \cup {Nil}
      BY <2>4 DEF TypeInv, RoundOK, TypeOK, ClusterOperators
    <3>2. [Wanted EXCEPT !.lastSeen = co.lastSeen] \in ClusterOperators
      BY <3>1, OperatorTyped
    <3> QED
      BY <2>1, <2>4, <3>2, DoneTyped, WriteTyped, TypeParts
  <2> QED
    BY <1>4, <2>2, <2>3, <2>4 DEF WriteOperatorFails
<1>5. ASSUME SetInstallStatusFails PROVE TypeInv'
  <2>1. pc # "idle" /\ CallDone /\ UNCHANGED <<co, existing, workloads, cache, memory>>
    BY <1>5 DEF SetInstallStatusFails
  <2>2. install' \in Conditions \cup {Nil}
    BY <1>5 DEF SetInstallStatusFails, TypeInv, TypeOK, Rounds, ClusterOperators
  <2> QED
    BY <2>1, <2>2, DoneTyped, TypeParts DEF WorldTyped, workloads, cache, memory
<1> QED
  BY <1>1, <1>2, <1>3, <1>4, <1>5 DEF StepFails

\* What happens around the operator.
LEMMA EnvironmentTyped == ASSUME TypeInv, Environment PROVE TypeInv'
<1>1. ASSUME Deliver PROVE TypeInv'
  BY <1>1 DEF Deliver, api, workloads, memory, job, TypeInv, TypeOK, RoundOK
<1>2. ASSUME Tick PROVE TypeInv'
  <2> DEFINE b == AgedOperator(round.base)
             s == Aged(pods.seen)
  <2>1. /\ co' = AgedOperator(co) /\ coCache' = AgedOperator(coCache)
        /\ round' = [round EXCEPT !.base = b] /\ pods' = [pods EXCEPT !.seen = s]
        /\ UNCHANGED <<install, existing, workloads, synced, memory, pc, calls>>
    BY <1>2 DEF Tick
  <2>2. b \in ClusterOperators /\ s \in LastSeenStates
    BY AgedTyped DEF TypeInv, TypeOK, Rounds, PodLocals
  <2> HIDE DEF b, s
  <2>3. co' \in ClusterOperators \cup {Nil} /\ coCache' \in ClusterOperators \cup {Nil}
        /\ (co # Nil => co' # Nil)
    BY <2>1, AgedTyped, NilAssumption DEF TypeInv, TypeOK
  <2>4. WorldTyped'
    BY <2>1, <2>3 DEF TypeInv, TypeOK, WorldTyped, workloads, memory
  <2>5. round' \in Rounds /\ pods' \in PodLocals
    BY <2>1, <2>2 DEF TypeInv, TypeOK, Rounds, PodLocals
  <2>6. /\ round'.found = round.found /\ round'.current = round.current
        /\ round'.pending = round.pending
    BY <2>1 DEF TypeInv, TypeOK, Rounds
  <2>7. JobTyped'
    BY <2>1, <2>3, <2>5, <2>6 DEF TypeInv, TypeOK, JobTyped, RoundOK, memory
  <2> QED
    BY <2>4, <2>7, TypeParts
<1>3. ASSUME NEW w \in Workloads, ChangeWorkload(w) PROVE TypeInv'
  <2>1. PICK s \in WorkloadStates(w) : workload' = [workload EXCEPT ![w] = s]
    BY <1>3 DEF ChangeWorkload
  <2>2. event' = TRUE /\ UNCHANGED <<api, cache, memory, job>>
    BY <1>3 DEF ChangeWorkload
  <2>3. WorldTyped'
    BY <2>1, <2>2 DEF TypeInv, TypeOK, WorldTyped, api, cache, memory
  <2>4. JobTyped'
    BY <2>2 DEF TypeInv, TypeOK, JobTyped, RoundOK, api, memory, job
  <2> QED
    BY <2>3, <2>4, TypeParts
<1>4. ASSUME ChangeInstall PROVE TypeInv'
  <2>1. NoConditions \in Conditions
    BY NewConditionsTyped
  <2> QED
    BY <1>4, <2>1 DEF ChangeInstall, workloads, cache, memory, job, TypeInv, TypeOK, RoundOK
<1>5. ASSUME Restart PROVE TypeInv'
  <2>1. JobTyped'
    BY <1>5, IdleTyped DEF Restart, JobTyped, RoundOK, NoRound
  <2>2. WorldTyped'
    BY <1>5 DEF Restart, api, workloads, TypeInv, TypeOK, WorldTyped
  <2> QED
    BY <2>1, <2>2, TypeParts
<1> QED
  BY <1>1, <1>2, <1>3, <1>4, <1>5 DEF Environment

\* Every step keeps the types.
LEMMA TypeStep == TypeInv /\ [Next]_vars => TypeInv'
<1> SUFFICES ASSUME TypeInv, [Next]_vars PROVE TypeInv'
  OBVIOUS
<1>1. CASE UNCHANGED vars
  BY <1>1 DEF vars, api, workloads, cache, memory, job, TypeInv, TypeOK, RoundOK
<1> QED
  BY <1>1, InstallReconcilerCallsTyped, SetFromPodsTyped, StepTyped, StepFailsTyped,
     EnvironmentTyped DEF Next

\* status_manager.go:244-262, pod_status.go:66-210: retries stay within their limit, an
\* operation ends with its last call, the cache is the ClusterOperator once the informer
\* has delivered it, and every condition and annotation that is written is well formed.
THEOREM StatusTypeCorrect == Spec => []TypeOK
<1>1. TypeInv => TypeOK
  BY DEF TypeInv
<1> QED
  BY <1>1, TypeInit, TypeStep, PTL DEF Spec
-----------------------------------------------------------------------------
(***************************************************************************)
(* The copy of the conditions in the AntreaInstall.  It is behind only     *)
(* between the two writes of one call of set, and by then what is to be    *)
(* copied is what was written; or users have replaced the AntreaInstall.   *)
(***************************************************************************)
Undisturbed == failures = 0 /\ restarts = 0 /\ Openshift

Renewed == changes > 0 /\ install \in {Nil, NoConditions}

CopyFollows ==
  /\ install = Nil => changes > 0
  /\ IF co = Nil THEN pc # "copy" /\ (install = NoConditions \/ Renewed)
     ELSE IF pc = "copy" THEN round.base.conditions = co.conditions
                         ELSE install = co.conditions \/ Renewed

FollowInv ==
  /\ TypeInv
  /\ {failures, restarts, changes} \subseteq Nat
  /\ Undisturbed => CopyFollows

\* Nothing is disturbed twice over: what happens is counted.
LEMMA Counted ==
  ASSUME FollowInv, [Next]_vars
  PROVE  /\ {failures', restarts', changes'} \subseteq Nat
         /\ Undisturbed' =>
              /\ Undisturbed
              /\ \/ /\ UNCHANGED changes
                    /\ \/ UNCHANGED vars
                       \/ InstallReconcilerCalls \/ SetFromPods \/ Step \/ Deliver \/ Tick
                 \/ (\E w \in Workloads : ChangeWorkload(w)) \/ ChangeInstall
<1> USE DEF FollowInv, Undisturbed, Openshift, counts
<1>1. CASE UNCHANGED vars
  BY <1>1 DEF vars
<1>2. CASE InstallReconcilerCalls
  BY <1>2 DEF InstallReconcilerCalls, SetDegraded, SetNotDegraded, SetRendered,
     SetRenderedFails, Publish, ApplyRendered, Fault
<1>3. CASE SetFromPods \/ Deliver \/ Tick
  BY <1>3 DEF SetFromPods, Deliver, Tick
<1>4. CASE Step
  BY <1>4 DEF Step, SetLastPodState, set, DeleteRelated, OperatorUnchanged,
     CreateOperator, UpdateOperator, Conflict, SetInstallStatus
<1>5. CASE StepFails
  BY <1>5 DEF StepFails, SetLastPodStateFails, GetFails, DeleteRelatedFails,
     WriteOperatorFails, SetInstallStatusFails, Fault
<1>6. CASE (\E w \in Workloads : ChangeWorkload(w)) \/ ChangeInstall \/ Restart
  BY <1>6 DEF ChangeWorkload, ChangeInstall, Restart
<1> QED
  BY <1>1, <1>2, <1>3, <1>4, <1>5, <1>6 DEF Next, Environment

\* What users see of it does not change with the annotation.
LEMMA SameConditions ==
  ASSUME NEW c \in ClusterOperators, NEW l
  PROVE  [c EXCEPT !.lastSeen = l].conditions = c.conditions
  BY DEF ClusterOperators

\* Every step keeps the copy.
LEMMA FollowStep == FollowInv /\ [Next]_vars => FollowInv'
<1> SUFFICES ASSUME FollowInv, [Next]_vars, Undisturbed' PROVE CopyFollows'
  BY TypeStep, Counted DEF FollowInv
<1>1. CopyFollows /\ TypeInv /\ Openshift
  BY Counted DEF FollowInv, Undisturbed
<1>2. \/ /\ UNCHANGED changes
         /\ \/ UNCHANGED vars
            \/ InstallReconcilerCalls \/ SetFromPods \/ Step \/ Deliver \/ Tick
      \/ (\E w \in Workloads : ChangeWorkload(w)) \/ ChangeInstall
  BY Counted
<1> USE <1>1 DEF CopyFollows, Renewed
<1>3. CASE UNCHANGED vars
  BY <1>3 DEF vars, api, job, counts
<1>4. CASE UNCHANGED changes /\ InstallReconcilerCalls
  BY <1>4 DEF InstallReconcilerCalls, SetDegraded, SetNotDegraded, SetRendered,
     SetRenderedFails, Publish, ApplyRendered, Start, api, job
<1>5. CASE SetFromPods
  BY <1>5 DEF SetFromPods, Start, api, counts
<1>6. CASE Deliver
  BY <1>6 DEF Deliver, api, job, counts
<1>7. CASE Tick
  <2> DEFINE b == AgedOperator(round.base)
  <2>1. round' = [round EXCEPT !.base = b] /\ co' = AgedOperator(co)
        /\ UNCHANGED <<install, pc, changes>>
    BY <1>7 DEF Tick, counts
  <2>2. b.conditions = round.base.conditions
    BY AgedTyped DEF TypeInv, TypeOK, Rounds
  <2> HIDE DEF b
  <2>3. round'.base = b
    BY <2>1 DEF TypeInv, TypeOK, Rounds
  <2>4. IF co = Nil THEN co' = Nil ELSE co' # Nil /\ co'.conditions = co.conditions
    BY <2>1, AgedTyped, NilAssumption DEF TypeInv, TypeOK
  <2> QED
    BY <2>1, <2>2, <2>3, <2>4
<1>8. CASE UNCHANGED changes /\ Step
  <2> USE <1>8
  <2>1. CASE SetLastPodState
    <3>1. pc # "copy" /\ pc' # "copy" /\ UNCHANGED install
      BY <2>1 DEF SetLastPodState, CallDone
    <3>2. CASE UNCHANGED co
      BY <3>1, <3>2
    <3>3. CASE co # Nil /\ co' = [co EXCEPT !.lastSeen = pods.seen]
      <4>1. co \in ClusterOperators /\ pods.seen \in LastSeenStates
        BY <3>3 DEF TypeInv, TypeOK, PodLocals
      <4>2. co' # Nil /\ co'.conditions = co.conditions
        BY <3>3, <4>1, OperatorTyped, SameConditions, NilAssumption
      <4> QED
        BY <3>1, <3>3, <4>2
    <3> QED
      BY <2>1, <3>2, <3>3 DEF SetLastPodState, WriteOperator
  <2>2. CASE set
    <3>1. pc = "call" /\ UNCHANGED <<co, install>>
      BY <2>2 DEF set, api
    <3>2. pc' = "clean"
      BY <2>2 DEF set, ReadOperator
    <3> QED
      BY <3>1, <3>2
  <2>3. CASE DeleteRelated
    BY <2>3 DEF DeleteRelated
  <2>4. CASE OperatorUnchanged
    BY <2>4 DEF OperatorUnchanged, Cleaned, CallDone, api
  <2>5. CASE CreateOperator
    <3>1. pc # "copy" /\ pc' # "copy" /\ UNCHANGED install
      BY <2>5 DEF CreateOperator, Cleaned, CallDone
    <3>2. co' = co \/ (co = Nil /\ co' = NoOperator)
      BY <2>5 DEF CreateOperator, WriteOperator
    <3>3. NoOperator.conditions = NoConditions /\ NoOperator # Nil
      BY OperatorTyped, NilAssumption DEF NoOperator
    <3> QED
      BY <3>1, <3>2, <3>3
  <2>6. CASE UpdateOperator
    <3> DEFINE w == Wanted
    <3>1. /\ co' = [w EXCEPT !.lastSeen = co.lastSeen]
          /\ round' = [round EXCEPT !.base = w]
          /\ pc' = "copy" /\ UNCHANGED install
          /\ round.found /\ round.current
      BY <2>6 DEF UpdateOperator, WriteOperator
    <3>2. w \in ClusterOperators
      BY OperatorTyped
    <3>3. co.lastSeen \in LastSeenStates \cup {Nil}
      BY <3>1 DEF TypeInv, TypeOK, RoundOK, ClusterOperators
    <3>4. co' # Nil
      BY <3>1, <3>2, <3>3, OperatorTyped, NilAssumption
    <3> HIDE DEF w
    <3>5. co'.conditions = w.conditions
      BY <3>1, <3>2, SameConditions
    <3>6. round'.base = w
      BY <3>1 DEF TypeInv, TypeOK, Rounds
    <3> QED
      BY <3>1, <3>4, <3>5, <3>6
  <2>7. CASE Conflict
    BY <2>7 DEF Conflict, Cleaned, CallDone, ReadOperator, api
  <2>8. CASE SetInstallStatus
    <3>1. pc = "copy" /\ pc' # "copy" /\ UNCHANGED co
          /\ install' = IF install = Nil THEN Nil ELSE round.base.conditions
      BY <2>8 DEF SetInstallStatus, CallDone
    <3>2. round.base.conditions \in Conditions
      BY DEF TypeInv, TypeOK, Rounds, ClusterOperators
    <3> QED
      BY <3>1, <3>2, NilAssumption
  <2> QED
    BY <1>8, <2>1, <2>2, <2>3, <2>4, <2>5, <2>6, <2>7, <2>8 DEF Step
<1>9. CASE \E w \in Workloads : ChangeWorkload(w)
  <2>1. UNCHANGED <<co, install, pc, round>> /\ changes' = changes + 1 /\ changes \in Nat
    BY <1>9 DEF ChangeWorkload, api, job, FollowInv
  <2> QED
    BY <2>1
<1>10. CASE ChangeInstall
  <2>1. /\ UNCHANGED <<co, pc, round>> /\ changes' = changes + 1 /\ changes \in Nat
        /\ install' \in {Nil, NoConditions}
    BY <1>10 DEF ChangeInstall, job, FollowInv
  <2> QED
    BY <2>1
<1> QED
  BY <1>2, <1>3, <1>4, <1>5, <1>6, <1>7, <1>8, <1>9, <1>10

\* status_manager.go:256-261: between operations, the AntreaInstall shows the conditions of
\* the ClusterOperator, through rollouts, stale reads, conflicts and the patches of the
\* annotation in between, as long as no call fails and the process lives.  One that users
\* have replaced shows nothing until the conditions change again.
THEOREM CopyIsCurrent == Spec => []InstallFollowsOperator
<1>1. Init => FollowInv
  <2> SUFFICES ASSUME Init PROVE FollowInv
    OBVIOUS
  <2>1. install # Nil
    BY TypeInit, NewConditionsTyped, NilAssumption DEF Init
  <2> QED
    BY <2>1, TypeInit DEF Init, FollowInv, CopyFollows
<1>2. FollowInv => InstallFollowsOperator
  BY DEF FollowInv, CopyFollows, Renewed, Undisturbed, InstallFollowsOperator
<1> QED
  BY <1>1, <1>2, FollowStep, PTL DEF Spec
=============================================================================
