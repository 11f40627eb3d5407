--------------------------- MODULE StatusManager ---------------------------
(***************************************************************************)
(* StatusManager (controllers/statusmanager): what the operator tells of   *)
(* itself, in the ClusterOperator on OpenShift and in the status of the    *)
(* AntreaInstall on both platforms, and on OpenShift the deletion of the   *)
(* objects that are no longer rendered.                                    *)
(*                                                                         *)
(* Both reconcilers call it.  Every operation holds its mutex to the end,  *)
(* so that the operations form one sequence; an operation is a series of   *)
(* calls of set, and a step is one API call.  The client reads from the    *)
(* informers' cache, which may lag behind the operator's own writes.       *)
(***************************************************************************)
EXTENDS Integers, Sequences, FiniteSets

CONSTANTS
  Nil,                \* a nil slice, a missing object, condition or annotation
  Platform,           \* SharedInfo.AntreaPlatform
  DaemonSets,         \* the DaemonSets of the manifest
  Deployments,        \* the Deployments of the manifest
  DaemonSetStatuses,  \* the statuses a DaemonSet may have
  DeploymentStatuses, \* the statuses a Deployment may have
  ProgressTimeout,    \* ticks a rollout may stand still
  Manifest,           \* the objects rendered by each version of the operator
  Namespaces,         \* the objects that are namespaces
  Unmapped,           \* the objects of kinds whose RESTMapping may fail
  MaxAttempts,        \* attempts of RetryOnConflict(DefaultBackoff)
  MaxReports,         \* bound: calls of the install reconciler
  MaxChanges,         \* bound: changes of a workload or of the AntreaInstall
  MaxFailures,        \* bound: API calls that return an error
  MaxRestarts         \* bound: restarts of the process

Workloads == DaemonSets \cup Deployments
Objects   == UNION {Manifest[v] : v \in DOMAIN Manifest}

ASSUME StatusAssumption ==
  /\ Platform \in {"kubernetes", "openshift"}
  /\ DaemonSets \cap Deployments = {} /\ Workloads # {}
  /\ Nil \notin DaemonSetStatuses \cup DeploymentStatuses
  /\ Manifest \in Seq(SUBSET Objects) /\ Manifest # << >>
  /\ MaxAttempts \in Nat \ {0}
  /\ {ProgressTimeout, MaxReports, MaxChanges, MaxFailures, MaxRestarts} \subseteq Nat

VARIABLES
  \* The API server
  co,        \* the ClusterOperator "antrea", or Nil
  install,   \* the conditions in the AntreaInstall's status, Nil without AntreaInstall
  existing,  \* the objects of the manifests that exist
  workload,  \* the watched workloads as the informers show them
  event,     \* the pod reconciler has an event of a workload to handle
  \* The client's cache of the ClusterOperator
  coCache,   \* as the informer last delivered it
  synced,    \* it has delivered the operator's last write
  \* The memory of the process
  version,   \* version.GetVersion(), an index of Manifest
  failing,   \* status.failing, as the set of levels that are not nil
  watched,   \* status.daemonSets and status.deployments
  related,   \* status.relatedObjects
  applying,  \* the install reconciler is applying what it has published
  \* The operation that holds the mutex
  pc,        \* its next step
  calls,     \* the calls it has still to make
  round,     \* the locals of set
  pods,      \* the locals of SetFromPods
  \* Counters of the bounds
  reports, changes, failures, restarts

api    == <<co, install, existing>>
workloads == <<workload, event>>
cache  == <<coCache, synced>>
memory == <<version, failing, watched, related, applying>>
job    == <<pc, calls, round, pods>>
counts == <<reports, changes, failures, restarts>>
vars   == <<api, workloads, cache, memory, job, counts>>

Openshift == Platform = "openshift"

-----------------------------------------------------------------------------
(***************************************************************************)
(* Levels and conditions.  A condition is Nil when absent; Degraded is     *)
(* "False" or the level whose error it shows, Progressing the set of       *)
(* workloads it names, Available the status of the condition.              *)
(***************************************************************************)
LevelOrder ==
  <<"ClusterConfig", "OperatorConfig", "PodDeployment", "RolloutHung", "ClusterNode">>
Levels == {LevelOrder[i] : i \in DOMAIN LevelOrder}

Conditions ==
  [degraded : Levels \cup {"False", Nil}, progressing : (SUBSET Workloads) \cup {Nil},
   available : {"True", "False", Nil}]
NoConditions == [degraded |-> Nil, progressing |-> Nil, available |-> Nil]

\* The first entry of failing that is not nil
Lowest(f) ==
  LevelOrder[CHOOSE i \in DOMAIN LevelOrder :
    LevelOrder[i] \in f /\ \A j \in 1..(i - 1) : LevelOrder[j] \notin f]

\* The conditions of syncDegraded and of setConditions
DegradedCondition(f) ==
  [NoConditions EXCEPT !.degraded = IF f = {} THEN "False" ELSE Lowest(f)]

\* Mutant: a condition that is False is not given.
PodConditions_NeverFalse ==
  [NoConditions EXCEPT !.progressing = IF pods.progressing = {} THEN Nil ELSE pods.progressing,
                       !.available = IF pods.reached THEN "True" ELSE Nil]

PodConditions ==
  [NoConditions EXCEPT !.progressing = pods.progressing,
                       !.available = IF pods.reached THEN "True" ELSE Nil]

CombineConditions(old, new) ==
  [k \in DOMAIN old |-> IF new[k] = Nil THEN old[k] ELSE new[k]]

\* Available starts as False with the first rollout; nothing else sets it to False
setClusterOperatorConditions(old, new) ==
  LET combined == CombineConditions(old, new)
  IN  IF combined.available = Nil /\ combined.progressing \notin {Nil, {}}
      THEN [combined EXCEPT !.available = "False"] ELSE combined

-----------------------------------------------------------------------------
\* Workloads.  behind: the generation is ahead of status.observedGeneration.

DaemonSetProgressing(d) ==
  \/ d.status.updated < d.status.desired
  \/ d.status.unavailable > 0
  \/ d.status.available = 0
  \/ d.behind

DeploymentProgressing(d) ==
  \/ d.status.unavailable > 0
  \/ d.status.available = 0
  \/ d.behind

Present == {w \in watched : workload[w] # Nil}
Rolling == {w \in Present : IF w \in DaemonSets THEN DaemonSetProgressing(workload[w])
                                                ELSE DeploymentProgressing(workload[w])}

WorkloadStates(w) ==
  [status : IF w \in DaemonSets THEN DaemonSetStatuses ELSE DeploymentStatuses,
   behind : BOOLEAN] \cup {Nil}

\* Time since the last change, up to the first value beyond the timeout
Ages == 0..(ProgressTimeout + 1)
LastSeenStates ==
  UNION {[W -> [status : DaemonSetStatuses \cup DeploymentStatuses, age : Ages]] :
           W \in SUBSET Workloads}

Nothing == [w \in {} |-> Nil]

-----------------------------------------------------------------------------
\* The ClusterOperator and the locals

NoOperator ==
  [conditions |-> NoConditions, related |-> {}, version |-> Nil, lastSeen |-> Nil]
ClusterOperators ==
  [conditions : Conditions, related : SUBSET Objects,
   version : (DOMAIN Manifest) \cup {Nil}, lastSeen : LastSeenStates \cup {Nil}]

ASSUME NilAssumption ==
  /\ Nil \notin Conditions \cup ClusterOperators
  /\ Nil # {} /\ Nil # "True"

\* base: the ClusterOperator as read, with the conditions to write once known;
\* found: it exists in the cache; current: its resourceVersion is the latest;
\* pending: related objects still to be looked at; reached: reachedAvailableLevel
NoRound ==
  [new |-> NoConditions, reached |-> FALSE, tries |-> 0, base |-> NoOperator,
   found |-> FALSE, current |-> FALSE, pending |-> {}]
Rounds ==
  [new : Conditions, reached : BOOLEAN, tries : 0..(MaxAttempts - 1),
   base : ClusterOperators, found : BOOLEAN, current : BOOLEAN, pending : SUBSET Objects]

NoPods == [progressing |-> {}, reached |-> FALSE, hung |-> {}, seen |-> Nothing]
PodLocals ==
  [progressing : SUBSET Workloads, reached : BOOLEAN, hung : SUBSET Workloads,
   seen : LastSeenStates]

Calls == {"degraded", "lastSeen", "conditions", "hung"}

-----------------------------------------------------------------------------
\* Parts of the actions

Fault == failures < MaxFailures /\ failures' = failures + 1

Start(cs) == pc = "idle" /\ pc' = "call" /\ calls' = cs

\* The call at the head returns; errors of set are only logged
CallDone ==
  /\ calls' = Tail(calls)
  /\ round' = NoRound
  /\ IF Tail(calls) = << >> THEN pc' = "idle" /\ pods' = NoPods
                            ELSE pc' = "call" /\ UNCHANGED pods

\* A write of the ClusterOperator, which the informer has yet to deliver
WriteOperator(new) == co' = new /\ synced' = FALSE /\ UNCHANGED coCache

-----------------------------------------------------------------------------
\* The operations of the install reconciler

SetDegraded(level) ==
  /\ reports < MaxReports /\ reports' = reports + 1
  /\ Start(<<"degraded">>)
  /\ failing' = failing \cup {level}
  /\ UNCHANGED <<api, workloads, cache, version, watched, related, applying, round, pods,
                 changes, failures, restarts>>

SetNotDegraded(level) ==
  /\ reports < MaxReports /\ reports' = reports + 1
  /\ Start(<<"degraded">>)
  /\ failing' = failing \ {level}
  /\ UNCHANGED <<api, workloads, cache, version, watched, related, applying, round, pods,
                 changes, failures, restarts>>

\* SetDaemonSets, SetDeployments and SetRelatedObjects, before the objects are applied.
\* The list is a nil slice when nothing was appended to it.
Publish(listed) ==
  /\ pc = "idle"
  /\ reports < MaxReports /\ reports' = reports + 1
  /\ watched' = Workloads
  /\ related' = IF listed = {} THEN Nil ELSE listed
  /\ applying' = TRUE
  /\ UNCHANGED <<api, workloads, cache, version, failing, job, changes, restarts>>

SetRendered == Publish(Manifest[version]) /\ UNCHANGED failures

\* RESTMapping fails for the kind of an object, which is rendered and not listed
SetRenderedFails ==
  /\ Fault
  /\ \E lost \in SUBSET (Manifest[version] \cap Unmapped) :
       lost # {} /\ Publish(Manifest[version] \ lost)

\* The objects are applied while other operations run; some may fail
ApplyRendered ==
  /\ applying /\ applying' = FALSE
  /\ \E applied \in SUBSET Manifest[version] : existing' = existing \cup applied
  /\ event' = TRUE
  /\ UNCHANGED <<co, install, workload, cache, version, failing, watched, related, job, counts>>

-----------------------------------------------------------------------------
(***************************************************************************)
(* SetFromPods, called for each event of a workload and again after every  *)
(* ResyncPeriod, once the workloads have been published.  Its reads come   *)
(* from the cache, which is up to date after two quiet minutes, and may    *)
(* not be after an event.                                                  *)
(***************************************************************************)

\* The annotation as getLastPodState reads it; Kubernetes keeps none
LastPodState ==
  IF Openshift /\ coCache # Nil /\ coCache.lastSeen # Nil THEN coCache.lastSeen ELSE Nothing

\* Mutant: the last change time is set at each call.
SeenNow_AlwaysNow(before) ==
  [w \in Rolling \cup (DOMAIN before \ Present) |->
     IF w \in Rolling THEN [status |-> workload[w].status, age |-> 0] ELSE before[w]]

\* A workload that progresses keeps its last change time while its status stays,
\* one that does not is forgotten, a missing one is left alone
SeenNow(before) ==
  [w \in Rolling \cup (DOMAIN before \ Present) |->
     IF w \in DOMAIN before /\ (w \in Rolling => before[w].status = workload[w].status)
     THEN before[w] ELSE [status |-> workload[w].status, age |-> 0]]

\* Mutant: Degraded is written only when it is about to be True.
PodCalls_OnlyHung(hung) ==
  IF hung # {} THEN <<"degraded", "lastSeen", "conditions", "hung">>
               ELSE <<"lastSeen", "conditions">>

\* The calls SetFromPods makes after its reads; on Kubernetes there is no state to keep
PodCalls(hung) ==
  IF Openshift THEN <<"degraded", "lastSeen", "conditions", "hung">>
               ELSE <<"degraded", "conditions", "hung">>
SetFromPods ==
  /\ watched # {}
  /\ event \/ synced
  /\ event' = FALSE
  /\ pods' = LET before  == LastPodState
                 seen    == SeenNow(before)
                 waiting == Rolling \cup (watched \ Present)
             IN  [progressing |-> waiting,
                  reached     |-> waiting = {},
                  hung        |-> {w \in Rolling \cap DOMAIN before :
                                     seen[w].age > ProgressTimeout},
                  seen        |-> seen]
  /\ Start(PodCalls(pods'.hung))
  /\ failing' = failing \ {"PodDeployment"}
  /\ UNCHANGED <<api, workload, cache, version, watched, related, applying, round, counts>>

\* setLastPodState.  The patch is the difference to what the cache holds, and
\* fails when the ClusterOperator does not exist.
SetLastPodState ==
  /\ pc = "call" /\ Head(calls) = "lastSeen"
  /\ IF co # Nil /\ (coCache # Nil => coCache.lastSeen # pods.seen)
     THEN WriteOperator([co EXCEPT !.lastSeen = pods.seen])
     ELSE UNCHANGED <<co, cache>>
  /\ CallDone
  /\ UNCHANGED <<install, existing, workloads, memory, counts>>

SetLastPodStateFails ==
  /\ pc = "call" /\ Head(calls) = "lastSeen"
  /\ Fault
  /\ CallDone
  /\ UNCHANGED <<api, workloads, cache, memory, reports, changes, restarts>>

-----------------------------------------------------------------------------
(***************************************************************************)
(* set.  RolloutHung is set or cleared by the last call of SetFromPods.    *)
(***************************************************************************)

\* Mutant: whatever the ClusterOperator lists is taken for a leftover.
ReadOperator_AllListed(new, reached, tries) ==
  LET found == coCache # Nil
      base  == IF found THEN coCache ELSE NoOperator
  IN  /\ round' = [new |-> new, reached |-> reached, tries |-> tries,
                   base |-> base, found |-> found, current |-> synced,
                   pending |-> IF related = Nil THEN {} ELSE base.related]
      /\ pc' = "clean"

ReadOperator(new, reached, tries) ==
  LET found == coCache # Nil
      base  == IF found THEN coCache ELSE NoOperator
  IN  /\ round' = [new |-> new, reached |-> reached, tries |-> tries,
                   base |-> base, found |-> found, current |-> synced,
                   pending |-> IF related = Nil THEN {} ELSE base.related \ related]
      /\ pc' = "clean"

\* StatusK8s.set combines with a new, empty list of conditions
ReadInstall(new) ==
  IF install = Nil
  THEN CallDone
  ELSE /\ round' = [NoRound EXCEPT
                      !.new = new,
                      !.base.conditions = setClusterOperatorConditions(NoConditions, new)]
       /\ pc' = "copy"
       /\ UNCHANGED <<calls, pods>>

SetRolloutHung ==
  failing' = IF Head(calls) # "hung" THEN failing
             ELSE IF pods.hung # {} THEN failing \cup {"RolloutHung"}
                                    ELSE failing \ {"RolloutHung"}

\* Mutant: each call after the reads of SetFromPods sets the version.
set_ReachedForAll ==
  /\ pc = "call" /\ Head(calls) # "lastSeen"
  /\ SetRolloutHung
  /\ LET pod == Head(calls) = "conditions"
         new == IF pod THEN PodConditions ELSE DegradedCondition(failing')
     IN  IF Openshift
         THEN ReadOperator(new, pods.reached, 0) /\ UNCHANGED <<calls, pods>>
         ELSE ReadInstall(new)
  /\ UNCHANGED <<api, workloads, cache, version, watched, related, applying, counts>>

set ==
  /\ pc = "call" /\ Head(calls) # "lastSeen"
  /\ SetRolloutHung
  /\ LET pod == Head(calls) = "conditions"
         new == IF pod THEN PodConditions ELSE DegradedCondition(failing')
     IN  IF Openshift
         THEN ReadOperator(new, pod /\ pods.reached, 0) /\ UNCHANGED <<calls, pods>>
         ELSE ReadInstall(new)
  /\ UNCHANGED <<api, workloads, cache, version, watched, related, applying, counts>>

GetFails ==
  /\ pc = "call" /\ Head(calls) # "lastSeen"
  /\ Fault
  /\ SetRolloutHung
  /\ CallDone
  /\ UNCHANGED <<api, workloads, cache, version, watched, related, applying,
                 reports, changes, restarts>>

-----------------------------------------------------------------------------
(***************************************************************************)
(* deleteRelatedObjectsNotRendered.  An object that could not be deleted   *)
(* goes back to relatedObjects; a namespace is dropped without deleting it. *)
(***************************************************************************)

\* Mutant: an object is taken off the list and not deleted.
DeleteRelated_Kept ==
  /\ pc = "clean"
  /\ \E o \in round.pending : round' = [round EXCEPT !.pending = @ \ {o}]
  /\ UNCHANGED <<api, workloads, cache, memory, pc, calls, pods, counts>>

DeleteRelated ==
  /\ pc = "clean"
  /\ \E o \in round.pending :
       /\ round' = [round EXCEPT !.pending = @ \ {o}]
       /\ existing' = IF o \in Namespaces THEN existing ELSE existing \ {o}
  /\ UNCHANGED <<co, install, workloads, cache, memory, pc, calls, pods, counts>>

\* Mutant: an object that could not be deleted is dropped from the list.
DeleteRelatedFails_Dropped ==
  /\ pc = "clean"
  /\ Fault
  /\ \E o \in round.pending : round' = [round EXCEPT !.pending = @ \ {o}]
  /\ UNCHANGED <<api, workloads, cache, memory, pc, calls, pods, reports, changes, restarts>>

\* The kind is not known or the call fails, before or after it took effect
DeleteRelatedFails ==
  /\ pc = "clean"
  /\ Fault
  /\ \E o \in round.pending :
       /\ round' = [round EXCEPT !.pending = @ \ {o}]
       /\ related' = related \cup {o}
       /\ \/ UNCHANGED existing
          \/ o \notin Namespaces /\ existing' = existing \ {o}
  /\ UNCHANGED <<co, install, workloads, cache, version, failing, watched, applying,
                 pc, calls, pods, reports, changes, restarts>>
-----------------------------------------------------------------------------
\* The rest of StatusOc.set

Cleaned == pc = "clean" /\ round.pending = {}

\* Mutant: the ClusterOperator keeps its related objects.
Wanted_SameRelated ==
  [round.base EXCEPT
     !.conditions = setClusterOperatorConditions(@, round.new),
     !.version    = IF round.reached THEN version ELSE @]

\* Mutant: the version is not written.
Wanted_SameVersion ==
  [round.base EXCEPT
     !.conditions = setClusterOperatorConditions(@, round.new),
     !.related    = IF related = Nil THEN @ ELSE related]

\* What set makes of the ClusterOperator it read
Wanted ==
  [round.base EXCEPT
     !.conditions = setClusterOperatorConditions(@, round.new),
     !.related    = IF related = Nil THEN @ ELSE related,
     !.version    = IF round.reached THEN version ELSE @]

OperatorUnchanged ==
  /\ Cleaned
  /\ Wanted = round.base
  /\ CallDone
  /\ UNCHANGED <<api, workloads, cache, memory, counts>>

\* Create ignores the status, which is a subresource
CreateOperator ==
  /\ Cleaned
  /\ ~round.found
  /\ IF co = Nil THEN WriteOperator(NoOperator) ELSE UNCHANGED <<co, cache>>
  /\ CallDone
  /\ UNCHANGED <<install, existing, workloads, memory, counts>>

\* Mutant: the conditions are not copied to the AntreaInstall.
UpdateOperator_NoCopy ==
  /\ Cleaned
  /\ round.found /\ Wanted # round.base
  /\ round.current
  /\ WriteOperator([Wanted EXCEPT !.lastSeen = co.lastSeen])
  /\ CallDone
  /\ UNCHANGED <<install, existing, workloads, memory, counts>>

\* Mutant: the last write wins, whatever it is based on.
UpdateOperator_LastWins ==
  /\ Cleaned
  /\ round.found /\ Wanted # round.base
  /\ WriteOperator([Wanted EXCEPT !.lastSeen = co.lastSeen])
  /\ round' = [round EXCEPT !.base = Wanted]
  /\ pc' = "copy"
  /\ UNCHANGED <<install, existing, workloads, memory, calls, pods, counts>>

\* Mutant: the conditions are copied as they were read.
UpdateOperator_CopiesRead ==
  /\ Cleaned
  /\ round.found /\ Wanted # round.base
  /\ round.current
  /\ WriteOperator([Wanted EXCEPT !.lastSeen = co.lastSeen])
  /\ pc' = "copy"
  /\ UNCHANGED <<install, existing, workloads, memory, calls, round, pods, counts>>

\* Update is refused unless it is based on the latest version; it leaves the
\* annotation alone
UpdateOperator ==
  /\ Cleaned
  /\ round.found /\ Wanted # round.base
  /\ round.current
  /\ WriteOperator([Wanted EXCEPT !.lastSeen = co.lastSeen])
  /\ round' = [round EXCEPT !.base = Wanted]
  /\ pc' = "copy"
  /\ UNCHANGED <<install, existing, workloads, memory, calls, pods, counts>>

\* Mutant: one attempt more than allowed.
Conflict_OneMore ==
  /\ Cleaned
  /\ round.found /\ Wanted # round.base
  /\ ~round.current
  /\ IF round.tries < MaxAttempts
     THEN ReadOperator(round.new, round.reached, round.tries + 1) /\ UNCHANGED <<calls, pods>>
     ELSE CallDone
  /\ UNCHANGED <<api, workloads, cache, memory, counts>>

\* Mutant: attempts are not counted.
Conflict_Uncounted ==
  /\ Cleaned
  /\ round.found /\ Wanted # round.base
  /\ ~round.current
  /\ ReadOperator(round.new, round.reached, round.tries) /\ UNCHANGED <<calls, pods>>
  /\ UNCHANGED <<api, workloads, cache, memory, counts>>

Conflict ==
  /\ Cleaned
  /\ round.found /\ Wanted # round.base
  /\ ~round.current
  /\ IF round.tries + 1 < MaxAttempts
     THEN ReadOperator(round.new, round.reached, round.tries + 1) /\ UNCHANGED <<calls, pods>>
     ELSE CallDone
  /\ UNCHANGED <<api, workloads, cache, memory, counts>>

WriteOperatorFails ==
  /\ Cleaned
  /\ Wanted # round.base
  /\ Fault
  /\ \/ UNCHANGED <<co, cache>>
     \/ ~round.found /\ co = Nil /\ WriteOperator(NoOperator)
     \/ round.found /\ round.current /\ WriteOperator([Wanted EXCEPT !.lastSeen = co.lastSeen])
  /\ CallDone
  /\ UNCHANGED <<install, existing, workloads, memory, reports, changes, restarts>>

-----------------------------------------------------------------------------
\* setAntreaInstallStatus: the conditions are copied without comparing them

SetInstallStatus ==
  /\ pc = "copy"
  /\ install' = IF install = Nil THEN Nil ELSE round.base.conditions
  /\ CallDone
  /\ UNCHANGED <<co, existing, workloads, cache, memory, counts>>

SetInstallStatusFails ==
  /\ pc = "copy"
  /\ Fault
  /\ install' \in {install, IF install = Nil THEN Nil ELSE round.base.conditions}
  /\ CallDone
  /\ UNCHANGED <<co, existing, workloads, cache, memory, reports, changes, restarts>>

-----------------------------------------------------------------------------
\* The environment

\* The informer delivers the operator's last write
Deliver ==
  /\ ~synced
  /\ synced' = TRUE /\ coCache' = co
  /\ UNCHANGED <<api, workloads, memory, job, counts>>

Aged(states) ==
  IF states = Nil THEN Nil
  ELSE [w \in DOMAIN states |->
          [states[w] EXCEPT !.age = IF @ \in Ages \ {ProgressTimeout + 1} THEN @ + 1 ELSE @]]
AgedOperator(c) == IF c = Nil THEN Nil ELSE [c EXCEPT !.lastSeen = Aged(@)]

\* Time passes, wherever a last change time is kept
Tick ==
  /\ co' = AgedOperator(co)
  /\ coCache' = AgedOperator(coCache)
  /\ round' = [round EXCEPT !.base = AgedOperator(@)]
  /\ pods' = [pods EXCEPT !.seen = Aged(@)]
  /\ <<co', coCache', pods'>> # <<co, coCache, pods>>
  /\ UNCHANGED <<install, existing, workloads, synced, memory, pc, calls, counts>>

ChangeWorkload(w) ==
  /\ changes < MaxChanges /\ changes' = changes + 1
  /\ workload' \in {[workload EXCEPT ![w] = s] : s \in WorkloadStates(w)}
  /\ event' = TRUE
  /\ UNCHANGED <<api, cache, memory, job, reports, failures, restarts>>

\* Users delete the AntreaInstall and create it again
ChangeInstall ==
  /\ changes < MaxChanges /\ changes' = changes + 1
  /\ install' = IF install = Nil THEN NoConditions ELSE Nil
  /\ UNCHANGED <<co, existing, workloads, cache, memory, job, reports, failures, restarts>>

\* The process starts again, perhaps as the next version
Restart ==
  /\ restarts < MaxRestarts /\ restarts' = restarts + 1
  /\ version' \in {version} \cup ({version + 1} \cap DOMAIN Manifest)
  /\ failing' = {} /\ watched' = {} /\ related' = Nil /\ applying' = FALSE
  /\ pc' = "idle" /\ calls' = << >> /\ round' = NoRound /\ pods' = NoPods
  /\ coCache' = co /\ synced' = TRUE
  /\ UNCHANGED <<api, workloads, reports, changes, failures>>

-----------------------------------------------------------------------------
Init ==
  /\ co = Nil /\ coCache = Nil /\ synced = TRUE
  /\ install = NoConditions
  /\ existing = {}
  /\ workload = [w \in Workloads |-> Nil] /\ event = FALSE
  /\ version = 1
  /\ failing = {} /\ watched = {} /\ related = Nil /\ applying = FALSE
  /\ pc = "idle" /\ calls = << >> /\ round = NoRound /\ pods = NoPods
  /\ reports = 0 /\ changes = 0 /\ failures = 0 /\ restarts = 0

Step ==
  \/ SetLastPodState \/ set
  \/ DeleteRelated
  \/ OperatorUnchanged \/ CreateOperator \/ UpdateOperator \/ Conflict
  \/ SetInstallStatus

StepFails ==
  \/ SetLastPodStateFails \/ GetFails \/ DeleteRelatedFails
  \/ WriteOperatorFails \/ SetInstallStatusFails

InstallReconcilerCalls ==
  \/ \E level \in {"ClusterConfig", "OperatorConfig"} :
       SetDegraded(level) \/ SetNotDegraded(level)
  \/ SetRendered \/ SetRenderedFails
  \/ ApplyRendered

Environment ==
  \/ Deliver \/ Tick
  \/ \E w \in Workloads : ChangeWorkload(w)
  \/ ChangeInstall
  \/ Restart

Next == InstallReconcilerCalls \/ SetFromPods \/ Step \/ StepFails \/ Environment

Spec == Init /\ [][Next]_vars

(***************************************************************************)
(* An operation goes on to its end; SetFromPods is called again and again  *)
(* and gets the mutex, which is fair; informers deliver and time passes.   *)
(***************************************************************************)
Fairness ==
  /\ WF_vars(Step)
  /\ SF_vars(SetFromPods)
  /\ WF_vars(Deliver)
  /\ WF_vars(Tick)
FairSpec == Spec /\ Fairness

-----------------------------------------------------------------------------
(***************************************************************************)
(* Properties.  The environment is bounded, so that every behaviour ends   *)
(* with a quiet period; the liveness properties speak of it.               *)
(***************************************************************************)

\* Every variable stays in its domain: retries stay within their limit, an operation
\* ends with its last call, and the cache is the ClusterOperator once it is delivered.
TypeOK ==
  /\ co \in ClusterOperators \cup {Nil} /\ coCache \in ClusterOperators \cup {Nil}
  /\ install \in Conditions \cup {Nil}
  /\ existing \subseteq Objects
  /\ DOMAIN workload = Workloads /\ \A w \in Workloads : workload[w] \in WorkloadStates(w)
  /\ event \in BOOLEAN
  /\ synced \in BOOLEAN /\ (synced => coCache = co)
  /\ version \in DOMAIN Manifest
  /\ failing \subseteq Levels
  /\ watched \in {{}, Workloads}
  /\ related \in (SUBSET Objects) \cup {Nil}
  /\ applying \in BOOLEAN
  /\ pc \in {"idle", "call", "clean", "copy"}
  /\ calls \in Seq(Calls) /\ (pc = "idle" <=> calls = << >>)
  /\ round \in Rounds
  /\ pods \in PodLocals

\* Where the platform's users look, and when: between operations, once the workloads
\* are known
Shown == IF ~Openshift THEN install ELSE IF co = Nil THEN Nil ELSE co.conditions
Reporting == pc = "idle" /\ watched # {} /\ (Openshift \/ install # Nil)

\* status_manager.go:100-145, 229-262: the ClusterOperator stops listing an object only
\* when it is gone (or a namespace), in spite of stale reads, conflicts, failed calls and
\* restarts into another version: what an older version left is not forgotten.  Only an
\* object of the version that runs may get lost, and only once a call has failed (as the
\* lookup of its kind must have).
RelatedUntilGone ==
  [][co # Nil => \A o \in co.related \ co'.related :
       \/ o \in Namespaces \/ o \notin existing
       \/ o \in Manifest[version] /\ failures > 0]_vars

\* status_manager.go:97-99: nothing that the running version renders is deleted as a
\* leftover, whatever list of another version or process a stale read shows, unless the
\* lookup of its kind has failed (antreainstall_controller.go:445) and left it out.
RenderedIsKept ==
  [][\A o \in Manifest[version] \cap existing :
       o \notin existing' => failures > 0 /\ o \notin related]_vars

\* status_manager.go:256-261: the AntreaInstall shows the conditions of the ClusterOperator
\* between operations, through rollouts, conflicts and stale reads, as long as no call fails
\* and the process lives.  (The copy is not repeated when it fails, nor when the process dies
\* before it.)  An AntreaInstall that users have created again shows nothing at first.
InstallFollowsOperator ==
  failures = 0 /\ restarts = 0 /\ pc = "idle" /\ Openshift /\ co # Nil =>
    \/ install = co.conditions
    \/ changes > 0 /\ install \in {Nil, NoConditions}

\* status_manager.go:228-262, 309-324: a change of Degraded in the ClusterOperator is to the lowest
\* level that fails at that moment, although sets of other conditions write the whole list
\* as they read it, perhaps from a cache that lags behind.
DegradedIsCurrent ==
  [][co # Nil /\ co' # Nil /\ co'.conditions.degraded # co.conditions.degraded =>
       co'.conditions.degraded = DegradedCondition(failing).degraded]_vars

\* pod_status.go:65-161, status_manager.go:177-182: the version changes to the running one
\* only, in the write that shows Available with nothing progressing, whatever was read
\* late, refused, retried or written by another process.
VersionIsEarned ==
  [][co # Nil /\ co' # Nil /\ co'.version # co.version =>
       /\ co'.version = version
       /\ co'.conditions.available = "True" /\ co'.conditions.progressing = {}]_vars

\* status_manager.go:256-261: what the AntreaInstall comes to show is what the ClusterOperator
\* holds at that moment, through conflicts, failed calls and restarts.
InstallCopiesOperator ==
  [][Openshift /\ install # Nil /\ install' \notin {install, Nil} =>
       co # Nil /\ install' = co.conditions]_vars

\* status_manager.go:100-145, 228-262: an operation goes on to its end, where it releases the
\* mutex: each of its steps ends a call, starts the next and last but one of few attempts,
\* goes on in the attempt, or leaves less to clean, and nothing else turns it back.
Forward ==
  \/ Len(calls') < Len(calls)
  \/ /\ calls' = calls
     /\ \/ round'.tries = round.tries + 1 /\ round'.tries < MaxAttempts
        \/ /\ round'.tries = round.tries
           /\ \/ <<pc, pc'>> \in {<<"call", "clean">>, <<"call", "copy">>, <<"clean", "copy">>}
              \/ pc' = pc /\ round'.pending \subseteq round.pending
                          /\ round'.pending # round.pending
Paused == UNCHANGED <<pc, calls, round.tries, round.pending>>
OperationsGoForward ==
  [][pc # "idle" => IF Step \/ StepFails THEN Forward ELSE Paused \/ pc' = "idle"]_vars

\* status_manager.go:97-99: once a version has published its objects, and no call
\* failed, its objects are the ones listed, and what older versions had listed and it does
\* not render no longer exists, unless it is a namespace.  (What a version has applied
\* without living to list it is unknown to later ones, and stays.)
Leftovers ==
  {o \in Objects : \E v \in DOMAIN Manifest : \E u \in 1..(v - 1) : o \in Manifest[u] \ Manifest[v]}
CleanedUp == watched # {} /\ failures = 0
LeftoversAreDeleted ==
  /\ <>[](CleanedUp => co # Nil /\ co.related = Manifest[version])
  /\ \A o \in Leftovers \ Namespaces :
       <>(co # Nil /\ o \in co.related) =>
         <>[](CleanedUp => o \in Manifest[version] \/ o \notin existing)

\* status_manager.go:309-324: between operations, the Degraded condition ends up showing the lowest level
\* that fails, whatever writes were refused or based on stale reads.
DegradedIsReported ==
  <>[](Reporting =>
         /\ Shown # Nil
         /\ Shown.degraded = DegradedCondition(failing).degraded)

\* pod_status.go:59-60: the conditions end up naming the workloads that progress,
\* and with none, Available; the ClusterOperator then has the operator's version.
RolloutIsReported ==
  <>[](Reporting =>
         /\ Shown # Nil
         /\ Shown.progressing = Rolling \cup (watched \ Present)
         /\ Shown.progressing = {} =>
              /\ Shown.available = "True"
              /\ Openshift => co.version = version)

\* pod_status.go:26-27: a rollout that makes no progress is reported as RolloutHung,
\* and once none is left the level is cleared.
HungIsDetected ==
  <>[](watched # {} => ("RolloutHung" \in failing <=> Rolling # {}))

=============================================================================
