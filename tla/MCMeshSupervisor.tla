-------------------------- MODULE MCMeshSupervisor --------------------------
(* MeshSupervisor with as many clients as the configuration names: one in   *)
(* use and the others left over from failed disconnects.                    *)
EXTENDS MeshSupervisor

============================================================================
