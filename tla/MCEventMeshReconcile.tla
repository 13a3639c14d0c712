------------------------ MODULE MCEventMeshReconcile ------------------------
(* Instances of EventMeshReconcile for TLC.                                *)
EXTENDS EventMeshReconcile

CONSTANTS eventing, kafka
=============================================================================
