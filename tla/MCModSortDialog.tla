------------------------- MODULE MCModSortDialog -------------------------
(***************************************************************************)
(* Two sessions.  In the first list modU has no file of its own, so the    *)
(* dialog does not show it; in the second modU comes first and takes a     *)
(* file from modC, which keeps a mesh only, and modA is not installed any  *)
(* more.                                                                   *)
(***************************************************************************)
EXTENDS ModSortDialog

CONSTANTS modA, modB, modC, modU, fa, fb, fs, fm

MCMods == {modA, modB, modC, modU}
MCNameRank == (modA :> 1) @@ (modB :> 2) @@ (modC :> 3) @@ (modU :> 4)
MCFiles == {fa, fb, fs, fm}
MCKind == (fa :> 3) @@ (fb :> 2) @@ (fs :> 2) @@ (fm :> MeshKind)
MCProvides == (modA :> {fa}) @@ (modB :> {fb}) @@ (modC :> {fm, fs}) @@ (modU :> {fs})
MCModlists == {<<modB, modA, modC, modU>>, <<modU, modC>>}
MCFound == {modA, modC}
MCIgnorable == {modA}

=============================================================================
