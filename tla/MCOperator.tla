------------------------------ MODULE MCOperator ------------------------------
(***************************************************************************)
(* Small instances of Operator for TLC.                                    *)
(***************************************************************************)
EXTENDS Operator, MCInstallReconciler

K8sWorkerSpecs == {SampleSpec, TunedSpec}
=============================================================================
