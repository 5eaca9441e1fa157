----------------------------- MODULE MCPatchRun -----------------------------
(* Two meshes; both may register a texture of the load order, the second   *)
(* also one that the load order does not have.                             *)
EXTENDS PatchRun

CONSTANTS m1, m2, t1, t2
MCMeshes   == {m1, m2}
MCTextures == {t1, t2}
MCMapped   == {t1}
MCHooked   == [m \in MCMeshes |-> IF m = m2 THEN {t1, t2} ELSE {t1}]
MCLit      == {m1}
=============================================================================
