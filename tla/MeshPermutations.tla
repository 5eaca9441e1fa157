-------------------------- MODULE MeshPermutations --------------------------
(***************************************************************************)
(* patchNIF and PGMeshPermutationTracker: one NIF is patched once for each *)
(* plugin record that uses it, each time from a fresh copy, and the        *)
(* results are merged into as few output meshes as possible.  Output 0     *)
(* replaces the NIF; the others are duplicates the plugin redirects        *)
(* records to.  Jobs for different NIFs share one thing, the cache in      *)
(* which a weighted mesh waits for its other weight variant.               *)
(*                                                                         *)
(* A mesh is the sequence of its shapes in 3D index order.  Of a shape we  *)
(* keep its place in the original mesh, which compareMesh cannot see, its  *)
(* look, for all the properties compareMesh compares but textures, and its *)
(* textures.  0 stands for a look or a texture set as found.  The patchers *)
(* are an environment that may give a shape any look and any textures, or  *)
(* delete it as the "delete" of a TruePBR entry does.                      *)
(***************************************************************************)
EXTENDS Integers, SequencesExt

CONSTANTS
  NIFs,          \* the NIFs patched
  OtherVariant,  \* getOtherWeightVariant: the NIF itself if it has no suffix
  Shapes,        \* the number of patchable shapes of each NIF
  UseLists,      \* the lists of uses getModelUses may give for each NIF
  Looks, Texs    \* what the patchers may give a shape

\* The names of two weight variants differ in the digit of their suffix.
ASSUME PermutationsAssumption ==
  /\ OtherVariant \in [NIFs -> NIFs] /\ Shapes \in [NIFs -> Nat]
  /\ \A n \in NIFs : OtherVariant[OtherVariant[n]] = n
  /\ 0 \in Looks /\ 0 \in Texs
  /\ \A n \in NIFs : \A u \in UseLists[n] :
       /\ Len(u) \in Nat /\ DOMAIN u = 1..Len(u)
       /\ \A i \in DOMAIN u : u[i].alt \subseteq 1..Shapes[n] /\ u[i].weighted \in BOOLEAN

VARIABLES
  uses,        \* meshUses: the records that use each NIF, in order
  next,        \* the use each job is at; past the end it saves its meshes
  jobs,        \* whether each job is running, saved or failed
  outputs,     \* m_outputMeshes
  processed,   \* m_processedFormKeys
  ignoreBase,  \* m_ignoreBaseMesh
  cache,       \* s_otherWeightVariants
  errors,      \* what was logged about weight variants
  validated,   \* validateWeightedVariants was called
  saved,       \* the results of saveMeshes
  modelUses,   \* what setModelUses gave PGMutagen
  wanted       \* history: what the patchers made for each use committed

trackerVars == <<outputs, processed, ignoreBase, wanted>>
weightVars  == <<cache, errors>>
vars == <<uses, next, jobs, trackerVars, weightVars, validated, saved, modelUses>>

Removed == -1
Places(n) == 1..Shapes[n]
Original(n) == [s \in Places(n) |-> [shape |-> s, look |-> 0, tex |-> 0]]
NoCache == [k \in {} |-> <<>>]

Init ==
  /\ uses \in {u \in [NIFs -> UNION {UseLists[n] : n \in NIFs}] :
                 \A n \in NIFs : u[n] \in UseLists[n]}
  /\ next = [n \in NIFs |-> 1]
  /\ jobs = [n \in NIFs |-> "running"]
  /\ outputs = [n \in NIFs |-> <<>>]
  /\ processed = [n \in NIFs |-> {}]
  /\ ignoreBase = [n \in NIFs |-> FALSE]
  /\ cache = NoCache /\ errors = {} /\ validated = FALSE
  /\ saved = [n \in NIFs |-> <<>>]
  /\ modelUses = {} /\ wanted = {}

-----------------------------------------------------------------------------
(* One use: stageMesh, processNIF, commitMesh.                             *)

Use(n) == uses[n][next[n]]
Working(n) == jobs[n] = "running" /\ next[n] <= Len(uses[n])
NextUse(n) == next' = [next EXCEPT ![n] = @ + 1]

\* The shapes that may be left of a mesh, in their order.
Orders(n) ==
  {o \in UNION {[1..k -> Places(n)] : k \in 0..Shapes[n]} :
     \A i, j \in DOMAIN o : i < j => o[i] < o[j]}

\* A shape with alternate textures keeps its own in the mesh; what the
\* patchers make of the alternate ones is returned beside it.
processNIF(n, alt) ==
  {[mesh |-> [i \in DOMAIN order |->
                [shape |-> order[i], look |-> look[order[i]],
                 tex |-> IF order[i] \in alt THEN 0 ELSE tex[order[i]]]],
    alt  |-> [s \in alt |-> IF s \in ToSet(order) THEN tex[s] ELSE 0]] :
     order \in Orders(n),
     look \in [Places(n) -> Looks], tex \in [Places(n) -> Texs]}

\* The textures are compared at the shapes without alternate textures.
compareMesh(a, b, nonAlt) ==
  /\ Len(a) = Len(b)
  /\ \A i \in DOMAIN a :
       a[i].look = b[i].look /\ (a[i].shape \in nonAlt => a[i].tex = b[i].tex)

\* Mutant: weighted and other records are never merged.
FirstSameOfKind(n, mesh, nonAlt) ==
  SelectInSeq(outputs[n], LAMBDA o : /\ o.weighted = Use(n).weighted
                                     /\ compareMesh(mesh, o.mesh, nonAlt))

\* The first output mesh the staged one is taken to be identical to, or 0.
FirstSame(n, mesh, nonAlt) ==
  SelectInSeq(outputs[n], LAMBDA o : compareMesh(mesh, o.mesh, nonAlt))

\* A record that is ignored, or of a type that is not to be patched.
IgnoreUse(n) ==
  /\ Working(n) /\ Use(n).ignored
  /\ ignoreBase' = [ignoreBase EXCEPT ![n] = TRUE]
  /\ NextUse(n)
  /\ UNCHANGED <<uses, jobs, outputs, processed, wanted, weightVars, validated, saved, modelUses>>

\* processNIF returns false: nothing of this NIF is saved.
UseFails(n) ==
  /\ Working(n) /\ ~Use(n).ignored
  /\ jobs' = [jobs EXCEPT ![n] = "failed"]
  /\ UNCHANGED <<uses, next, trackerVars, weightVars, validated, saved, modelUses>>

RepeatedUse(n) ==
  /\ Working(n) /\ ~Use(n).ignored
  /\ Use(n).key \in processed[n]
  /\ NextUse(n)
  /\ UNCHANGED <<uses, jobs, trackerVars, weightVars, validated, saved, modelUses>>

\* Mutant: a variant is paired with any mesh of the other one.
PairAny(n, k, mesh) ==
  LET others == {<<OtherVariant[n], i>> : i \in 0..k} \cap DOMAIN cache
  IN  IF others # {}
      THEN /\ cache' = [c \in DOMAIN cache \ {CHOOSE o \in others : TRUE} |-> cache[c]]
           /\ UNCHANGED errors
      ELSE /\ cache' = [c \in DOMAIN cache \cup {<<n, k>>} |->
                          IF c = <<n, k>> THEN mesh ELSE cache[c]]
           /\ UNCHANGED errors

\* Weight variants match if they have as many shapes.  The mutex is held.
processWeightVariant(n, k, mesh) ==
  LET other == <<OtherVariant[n], k>>
  IN  IF other \in DOMAIN cache
      THEN /\ cache' = [c \in DOMAIN cache \ {other} |-> cache[c]]
           /\ errors' = IF Len(mesh) = Len(cache[other]) THEN errors
                        ELSE errors \cup {<<"doNotMatch", n>>}
      ELSE /\ cache' = [c \in DOMAIN cache \cup {<<n, k>>} |->
                          IF c = <<n, k>> THEN mesh ELSE cache[c]]
           /\ UNCHANGED errors

commitMesh(n) ==
  /\ Working(n) /\ ~Use(n).ignored
  /\ Use(n).key \notin processed[n]
  /\ processed' = [processed EXCEPT ![n] = @ \cup {Use(n).key}]
  /\ NextUse(n)
  /\ \E patched \in processNIF(n, Use(n).alt) :
       LET nonAlt == Places(n) \ Use(n).alt
           mesh   == patched.mesh
           result == <<Use(n).key, patched.alt>>
           k      == FirstSame(n, mesh, nonAlt)
       IN  /\ wanted' = wanted \cup {[nif |-> n, key |-> Use(n).key,
                                      mesh |-> mesh, alt |-> patched.alt]}
           /\ \/ \* Identical to an output mesh: the use is added to it.
                 /\ k # 0
                 /\ outputs' = [outputs EXCEPT ![n][k].results = Append(@, result)]
                 /\ UNCHANGED <<ignoreBase, weightVars>>
              \/ \* Identical to the original: the base mesh has to stay.
                 /\ k = 0 /\ outputs[n] = <<>> /\ compareMesh(mesh, Original(n), nonAlt)
                 /\ ignoreBase' = [ignoreBase EXCEPT ![n] = TRUE]
                 /\ UNCHANGED <<outputs, weightVars>>
              \/ \* A new output mesh.
                 /\ k = 0 /\ ~(outputs[n] = <<>> /\ compareMesh(mesh, Original(n), nonAlt))
                 /\ IF Use(n).weighted
                    THEN processWeightVariant(n, Len(outputs[n]), mesh)
                    ELSE UNCHANGED weightVars
                 /\ outputs' = [outputs EXCEPT ![n] =
                      Append(@, [mesh |-> mesh, results |-> <<result>>,
                                 weighted |-> Use(n).weighted])]
                 /\ UNCHANGED ignoreBase
  /\ UNCHANGED <<uses, jobs, validated, saved, modelUses>>

-----------------------------------------------------------------------------
(* Saving.                                                                 *)

\* PrettySortBlocks: the shapes of a mesh in another order.
Sortings(mesh) ==
  {[i \in DOMAIN mesh |-> mesh[f[i]]] :
     f \in {g \in [DOMAIN mesh -> DOMAIN mesh] : IsInjective(g)}}

\* Mutant: outputs are counted from 0 although the base mesh is to stay.
IndexFromBase(n, i) == i - 1

\* curIndex of the i-th output mesh.
curIndex(n, i) == IF ignoreBase[n] THEN i ELSE i - 1

\* Mutant: a patched mesh's index is taken for the original one.
IdxOfPatched(n, mesh, sorted) ==
  [s \in Places(n) |->
     IF s \in DOMAIN mesh THEN CHOOSE i \in DOMAIN sorted : sorted[i] = mesh[s]
     ELSE Removed]

\* Where each shape of the original mesh is in the file that is saved.
idxCorrections(n, mesh, sorted) ==
  [s \in Places(n) |->
     IF \E i \in DOMAIN mesh : mesh[i].shape = s
     THEN CHOOSE i \in DOMAIN sorted : sorted[i].shape = s
     ELSE Removed]

\* The alternate textures of a use at the indices they have in the file; one
\* for a removed shape is deleted from the record.
setModelUses(n, results) ==
  UNION {{[nif |-> n, key |-> r[1], index |-> o.index,
           alt |-> {<<o.idx[s], r[2][s]>> : s \in {p \in DOMAIN r[2] : o.idx[p] # Removed}}] :
            r \in ToSet(o.results)} : o \in ToSet(results)}

saveMeshes(n) ==
  /\ jobs[n] = "running" /\ next[n] > Len(uses[n])
  /\ jobs' = [jobs EXCEPT ![n] = "saved"]
  /\ \E sorted \in {f \in [DOMAIN outputs[n] ->
                             UNION {Sortings(outputs[n][i].mesh) : i \in DOMAIN outputs[n]}] :
                      \A i \in DOMAIN f : f[i] \in Sortings(outputs[n][i].mesh)} :
       saved' = [saved EXCEPT ![n] =
                   [i \in DOMAIN outputs[n] |->
                      [index |-> curIndex(n, i), mesh |-> sorted[i],
                       idx |-> idxCorrections(n, outputs[n][i].mesh, sorted[i]),
                       results |-> outputs[n][i].results]]]
  /\ modelUses' = modelUses \cup setModelUses(n, saved'[n])
  /\ UNCHANGED <<uses, next, trackerVars, weightVars, validated>>

\* After the last job: a variant still in the cache has no counterpart.
validateWeightedVariants ==
  /\ ~validated /\ \A n \in NIFs : jobs[n] # "running"
  /\ validated' = TRUE
  /\ errors' = errors \cup {<<"notCreated", c[1]>> : c \in DOMAIN cache}
  /\ cache' = NoCache
  /\ UNCHANGED <<uses, next, jobs, trackerVars, saved, modelUses>>

patchNIF(n) == \/ IgnoreUse(n) \/ UseFails(n) \/ RepeatedUse(n)
               \/ commitMesh(n) \/ saveMeshes(n)

Next == \/ \E n \in NIFs : patchNIF(n)
        \/ validateWeightedVariants

Spec == Init /\ [][Next]_vars

-----------------------------------------------------------------------------
(* Properties                                                              *)

TypeOK ==
  /\ \A n \in NIFs :
       /\ next[n] \in 1..(Len(uses[n]) + 1) /\ jobs[n] \in {"running", "saved", "failed"}
       /\ Len(outputs[n]) <= Cardinality(processed[n])
       /\ \A i \in DOMAIN saved[n] :
            /\ saved[n][i].index \in 0..Len(saved[n])
            /\ ToSet(saved[n][i].idx) \subseteq Places(n) \cup {Removed}
  /\ DOMAIN cache \subseteq NIFs \X Nat
  /\ errors \subseteq {"doNotMatch", "notCreated"} \X NIFs
  /\ \A u \in modelUses : u.key \in processed[u.nif]

(* A record the plugin does not redirect goes on loading the path it       *)
(* names, so that path is overwritten only when every use of the NIF is    *)
(* redirected: an ignored or unpatched record never gets another record's  *)
(* patched mesh, whichever of them came first.                             *)
OmittedUsesSeeOriginal ==
  \A n \in NIFs : jobs[n] = "saved" =>
    \A i \in DOMAIN uses[n] :
      \/ \E u \in modelUses : u.nif = n /\ u.key = uses[n][i].key
      \/ \A j \in DOMAIN saved[n] : saved[n][j].index # 0

\* A shape with the textures the game gives it: a record's alternate
\* textures replace those in the file.
Effective(mesh, alt) ==
  [i \in DOMAIN mesh |->
     [shape |-> mesh[i].shape, look |-> mesh[i].look,
      tex |-> IF \E a \in alt : a[1] = i THEN (CHOOSE a \in alt : a[1] = i)[2]
              ELSE mesh[i].tex]]
InGame(u) ==
  UNION {ToSet(Effective(o.mesh, u.alt)) : o \in {p \in ToSet(saved[u.nif]) : p.index = u.index}}
Made(w) ==
  {[shape |-> w.mesh[i].shape, look |-> w.mesh[i].look,
    tex |-> IF w.mesh[i].shape \in DOMAIN w.alt THEN w.alt[w.mesh[i].shape]
            ELSE w.mesh[i].tex] : i \in DOMAIN w.mesh}
ShapesOf(things) == {x.shape : x \in things}

(* A redirected record shows in the game what the patchers made for it,    *)
(* shape by shape, though its mesh may have been merged with another's,    *)
(* its shapes deleted, sorted and saved under any index; the exception is  *)
(* a record merged into a mesh that lost other shapes than its own.        *)
GameSeesPatchedUse ==
  \A u \in modelUses, w \in wanted :
    u.nif = w.nif /\ u.key = w.key /\ ShapesOf(InGame(u)) = ShapesOf(Made(w)) =>
      InGame(u) = Made(w)

(* No two outputs of a NIF are the same mesh.                              *)
NoTwinOutputs ==
  \A n \in NIFs : \A i, j \in DOMAIN outputs[n] :
    outputs[n][i].mesh = outputs[n][j].mesh => i = j

(* The state is well formed, and the outputs of a NIF differ.              *)
OutputsSafe == TypeOK /\ NoTwinOutputs

WeightedPlaces(n) == {i \in DOMAIN outputs[n] : outputs[n][i].weighted}

(* When nothing was logged, the weighted outputs of a NIF and of its other *)
(* variant pair up place by place with as many shapes, however the two     *)
(* jobs interleave and even if one of them failed on the way.              *)
UnreportedVariantsPair ==
  validated /\ errors = {} =>
    \A n \in NIFs :
      /\ WeightedPlaces(n) = WeightedPlaces(OtherVariant[n])
      /\ \A i \in WeightedPlaces(n) :
           Len(outputs[n][i].mesh) = Len(outputs[OtherVariant[n]][i].mesh)

(* PGPatcher.cpp:727 of the slots of a shape with alternate textures:      *)
(* "assign new slots to propogate upstream for alternate textures": when   *)
(* the patchers changed them, the plugin gets them.                        *)
ChangedTexturesPropagate ==
  \A w \in wanted :
    jobs[w.nif] = "saved" /\ (\E s \in DOMAIN w.alt : w.alt[s] # 0) =>
      \E u \in modelUses : u.nif = w.nif /\ u.key = w.key
=============================================================================
