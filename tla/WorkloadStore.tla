---------------------------- MODULE WorkloadStore ----------------------------
(***************************************************************************)
(* What the two reconcilers of the operator promise about the workloads of *)
(* Antrea (SharedInfo, controllers/sharedinfo/sharedinfo.go, and those who *)
(* lock it).  The store holds the specs rendered last, or nothing in a     *)
(* process that has not rendered any.  Whoever writes a workload, writes   *)
(* what the store holds at that moment.                                    *)
(***************************************************************************)
CONSTANTS
  Names,   \* the workloads
  Nil      \* no spec, no workload

VARIABLES
  store,   \* the specs rendered last, one for each name, or Nil
  objs     \* the workloads in the cluster

vars == <<store, objs>>

Init == store = Nil /\ objs = [n \in Names |-> Nil]

Publish == store' # Nil /\ UNCHANGED objs

\* The process dies.
Forget == store' = Nil /\ UNCHANGED objs

Write(n) ==
  /\ store # Nil
  /\ objs' = [objs EXCEPT ![n] = store[n]]
  /\ UNCHANGED store

\* Users delete a workload.
Delete(n) == objs' = [objs EXCEPT ![n] = Nil] /\ UNCHANGED store

Next == Publish \/ Forget \/ \E n \in Names : Write(n) \/ Delete(n)

Spec == Init /\ [][Next]_vars
=============================================================================
