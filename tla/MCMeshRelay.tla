----------------------------- MODULE MCMeshRelay -----------------------------
(***************************************************************************)
(* Model checking of the mesh relay: two peers, interchangeable.           *)
(***************************************************************************)
EXTENDS MeshRelay, TLC

CONSTANTS p1, p2

ModelPeers == {p1, p2}
Symmetric == Permutations(ModelPeers)
==============================================================================
