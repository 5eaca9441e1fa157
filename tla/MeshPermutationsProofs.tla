----------------------- MODULE MeshPermutationsProofs -----------------------
(***************************************************************************)
(* The properties of MeshPermutations, for every number of meshes, shapes  *)
(* and uses, and whatever the patchers make of them.                       *)
(*                                                                         *)
(* The invariant has a part for each question: Typed, what is of what     *)
(* kind; UsesInv and WantedInv, that every use passed is in an output mesh *)
(* made of what the patchers wanted for it, or keeps the base mesh in      *)
(* place; NoTwinOutputs; SavedInv, how what is saved comes from the        *)
(* outputs; WeightInv, where the counterpart of a weighted output is.      *)
(***************************************************************************)
EXTENDS MeshPermutations, FiniteSetTheorems, WellFoundedInduction, SequenceTheorems, TLAPS

-----------------------------------------------------------------------------
(* What the variables hold. *)

Keys == UNION {UNION {{u[i].key : i \in DOMAIN u} : u \in UseLists[n]} : n \in NIFs}
ShapeRec == [shape : Nat, look : Looks, tex : Texs]
AltsOf(n) == UNION {[S -> Texs] : S \in SUBSET Places(n)}
Alts == UNION {AltsOf(n) : n \in NIFs}
Output == [mesh : Seq(ShapeRec), results : Seq(Keys \X Alts), weighted : BOOLEAN]

\* Meshes of a NIF: some of its shapes, in their order.
MeshesOf(n) ==
  {m \in Seq(ShapeRec) :
     /\ Len(m) <= Shapes[n]
     /\ \A i \in DOMAIN m : m[i].shape \in Places(n)
     /\ \A i, j \in DOMAIN m : i < j => m[i].shape < m[j].shape}

Typed ==
  /\ DOMAIN uses = NIFs /\ \A n \in NIFs : uses[n] \in UseLists[n]
  /\ next \in [NIFs -> Nat] /\ \A n \in NIFs : next[n] \in 1..(Len(uses[n]) + 1)
  /\ jobs \in [NIFs -> {"running", "saved", "failed"}]
  /\ outputs \in [NIFs -> Seq(Output)]
  /\ \A n \in NIFs : \A i \in DOMAIN outputs[n] : outputs[n][i].mesh \in MeshesOf(n)
  /\ processed \in [NIFs -> SUBSET Keys]
  /\ ignoreBase \in [NIFs -> BOOLEAN]
  /\ DOMAIN saved = NIFs
  /\ DOMAIN cache \subseteq NIFs \X Nat
  /\ errors \subseteq {"doNotMatch", "notCreated"} \X NIFs
  /\ validated \in BOOLEAN

-----------------------------------------------------------------------------
(* The invariant. *)

Results(n, i) == outputs[n][i].results
HasKey(n, i, key) == \E j \in DOMAIN Results(n, i) : Results(n, i)[j][1] = key

\* A use passed is in an output mesh, or the base mesh has to stay.
UsesInv ==
  \A n \in NIFs :
    /\ IsFiniteSet(processed[n]) /\ Len(outputs[n]) <= Cardinality(processed[n])
    /\ \A i \in 1..(next[n] - 1) :
         /\ uses[n][i].ignored => ignoreBase[n]
         /\ ~ uses[n][i].ignored => uses[n][i].key \in processed[n]
    /\ \A key \in processed[n] :
         ignoreBase[n] \/ \E i \in DOMAIN outputs[n] : HasKey(n, i, key)

\* What was made for a use is kept once, and an output it was merged into
\* compares equal to it.
Merged(n, i, j, w) ==
  /\ w.nif = n /\ w.key = Results(n, i)[j][1] /\ w.alt = Results(n, i)[j][2]
  /\ compareMesh(w.mesh, outputs[n][i].mesh, Places(n) \ DOMAIN w.alt)

WantedInv ==
  /\ \A w \in wanted :
       /\ w.nif \in NIFs /\ w.key \in processed[w.nif]
       /\ w.mesh \in MeshesOf(w.nif) /\ w.alt \in AltsOf(w.nif)
  /\ \A w, v \in wanted : w.nif = v.nif /\ w.key = v.key => w = v
  /\ \A n \in NIFs : \A i \in DOMAIN outputs[n] : \A j \in DOMAIN Results(n, i) :
       \E w \in wanted : Merged(n, i, j, w)

\* A file is saved from an output that no longer changes.
SavedFrom(n, i) ==
  /\ saved[n][i].index = curIndex(n, i)
  /\ saved[n][i].mesh \in Sortings(outputs[n][i].mesh)
  /\ saved[n][i].idx = idxCorrections(n, outputs[n][i].mesh, saved[n][i].mesh)

AltAt(idx, alt) == {<<idx[s], alt[s]>> : s \in {p \in DOMAIN alt : idx[p] # Removed}}

\* The redirected record is the j-th use of the i-th output.
Redirects(u, n, i, j) ==
  /\ u.nif = n /\ u.key = Results(n, i)[j][1]
  /\ u.index = saved[n][i].index /\ u.alt = AltAt(saved[n][i].idx, Results(n, i)[j][2])

SavedInv ==
  /\ \A n \in NIFs :
       /\ jobs[n] # "saved" => saved[n] = <<>>
       /\ jobs[n] = "saved" =>
            /\ next[n] > Len(uses[n])
            /\ Len(saved[n]) = Len(outputs[n]) /\ DOMAIN saved[n] = DOMAIN outputs[n]
            /\ \A i \in DOMAIN outputs[n] : SavedFrom(n, i)
            /\ \A i \in DOMAIN outputs[n] : \A j \in DOMAIN Results(n, i) :
                 \E u \in modelUses : u.nif = n /\ u.key = Results(n, i)[j][1]
  /\ \A u \in modelUses :
       \E n \in NIFs :
         /\ jobs[n] = "saved"
         /\ \E i \in DOMAIN outputs[n] : \E j \in DOMAIN Results(n, i) : Redirects(u, n, i, j)

\* The counterpart of a weighted output is there, or still missing.
WeightedAt(n, i) == i \in DOMAIN outputs[n] /\ outputs[n][i].weighted
Cached(n, i) == <<n, i - 1>> \in DOMAIN cache
Paired(n, i) ==
  /\ WeightedAt(OtherVariant[n], i)
  /\ Len(outputs[n][i].mesh) = Len(outputs[OtherVariant[n]][i].mesh)

WeightInv ==
  /\ \A n \in NIFs, i \in Nat : WeightedAt(n, i) => Cached(n, i) \/ Paired(n, i) \/ errors # {}
  /\ \A n \in NIFs, i \in Nat :
       Cached(n, i) => WeightedAt(n, i) /\ cache[<<n, i - 1>>] = outputs[n][i].mesh
  /\ validated => DOMAIN cache = {} /\ \A n \in NIFs : jobs[n] # "running"

IInv == Typed /\ UsesInv /\ NoTwinOutputs /\ WantedInv /\ SavedInv /\ WeightInv

LEMMA UsesTyped ==
  ASSUME Typed, NEW n \in NIFs
  PROVE  /\ Len(uses[n]) \in Nat /\ DOMAIN uses[n] = 1..Len(uses[n])
         /\ \A i \in DOMAIN uses[n] : /\ uses[n][i].alt \subseteq Places(n)
                                      /\ uses[n][i].weighted \in BOOLEAN
                                      /\ uses[n][i].key \in Keys
<1>1. uses[n] \in UseLists[n] BY DEF Typed
<1>2. \A i \in DOMAIN uses[n] : uses[n][i].key \in Keys BY <1>1 DEF Keys
<1> QED BY <1>1, <1>2, PermutationsAssumption DEF PermutationsAssumption, Places

LEMMA UseTyped ==
  ASSUME Typed, NEW n \in NIFs, Working(n)
  PROVE  /\ next[n] \in DOMAIN uses[n] /\ Use(n).alt \subseteq Places(n)
         /\ Use(n).weighted \in BOOLEAN /\ Use(n).key \in Keys
<1>1. next[n] \in 1..Len(uses[n]) BY UsesTyped DEF Typed, Working
<1> QED BY <1>1, UsesTyped DEF Use

-----------------------------------------------------------------------------
(* What the patchers make of a use. *)

LEMMA MadeTyped ==
  ASSUME NEW n \in NIFs, NEW alt \in SUBSET Places(n), NEW p \in processNIF(n, alt)
  PROVE  /\ p.mesh \in MeshesOf(n) /\ p.alt \in [alt -> Texs]
         /\ \A i \in DOMAIN p.mesh : p.mesh[i].shape \in alt => p.mesh[i].tex = 0
<1>1. PICK order \in Orders(n), look \in [Places(n) -> Looks], tex \in [Places(n) -> Texs] :
        p = [mesh |-> [i \in DOMAIN order |->
                         [shape |-> order[i], look |-> look[order[i]],
                          tex |-> IF order[i] \in alt THEN 0 ELSE tex[order[i]]]],
             alt  |-> [s \in alt |-> IF s \in ToSet(order) THEN tex[s] ELSE 0]]
  BY DEF processNIF
<1>2. PICK k \in 0..Shapes[n] : order \in [1..k -> Places(n)]
                                /\ \A i, j \in DOMAIN order : i < j => order[i] < order[j]
  BY DEF Orders
<1>3. Shapes[n] \in Nat /\ 0 \in Texs /\ Places(n) \subseteq Nat
  BY PermutationsAssumption DEF PermutationsAssumption, Places
<1>4. p.mesh \in [1..k -> ShapeRec]
  BY <1>1, <1>2, <1>3 DEF ShapeRec
<1>5. p.mesh \in Seq(ShapeRec) /\ Len(p.mesh) = k /\ DOMAIN p.mesh = 1..k
  BY <1>2, <1>3, <1>4
<1>6. \A i \in 1..k : /\ p.mesh[i].shape = order[i]
                      /\ order[i] \in alt => p.mesh[i].tex = 0
  BY <1>1, <1>2
<1>7. p.mesh \in MeshesOf(n)
  <2> DEFINE m == p.mesh
  <2>1. Len(m) <= Shapes[n] BY <1>2, <1>3, <1>5
  <2>2. \A i \in DOMAIN m : m[i].shape \in Places(n) BY <1>2, <1>5, <1>6
  <2>3. \A i, j \in DOMAIN m : i < j => m[i].shape < m[j].shape
    BY <1>2, <1>5, <1>6
  <2>4. m \in Seq(ShapeRec) BY <1>5
  <2> HIDE DEF m
  <2>5. m \in MeshesOf(n) BY <2>1, <2>2, <2>3, <2>4 DEF MeshesOf
  <2> QED BY <2>5 DEF m
<1>8. p.alt \in [alt -> Texs]
  BY <1>1, <1>3
<1> QED BY <1>5, <1>6, <1>7, <1>8

\* The staged mesh is new, or the same as the output mesh found.
LEMMA FirstSameFound ==
  ASSUME NEW n, NEW mesh, NEW nonAlt, Len(outputs[n]) \in Nat,
         DOMAIN outputs[n] = 1..Len(outputs[n])
  PROVE  LET k == FirstSame(n, mesh, nonAlt)
         IN IF k = 0
            THEN \A i \in DOMAIN outputs[n] : ~ compareMesh(mesh, outputs[n][i].mesh, nonAlt)
            ELSE k \in DOMAIN outputs[n] /\ compareMesh(mesh, outputs[n][k].mesh, nonAlt)
<1> DEFINE I == {i \in 1..Len(outputs[n]) : compareMesh(mesh, outputs[n][i].mesh, nonAlt)}
           k == FirstSame(n, mesh, nonAlt)
<1>1. k = IF I # {} THEN Min(I) ELSE 0
  BY DEF FirstSame, SelectInSeq
<1>2. CASE I = {}
  BY <1>1, <1>2
<1>3. CASE I # {}
  <2>1. I \subseteq Nat OBVIOUS
  <2>2. PICK x \in I : \A y \in I : ~ (<<y, x>> \in OpToRel(<, Nat))
    BY <1>3, <2>1, WFMin, NatLessThanWellFounded
  <2>6. \A y \in I : ~ (y < x) BY <2>1, <2>2 DEF OpToRel
  <2>3. \A y \in I : x <= y BY <2>1, <2>6
  <2>4. Min(I) \in I BY <2>2, <2>3 DEF Min
  <2>5. \A i \in I : i # 0 OBVIOUS
  <2> QED BY <1>1, <1>3, <2>4, <2>5
<1> QED BY <1>2, <1>3

\* compareMesh does not tell a mesh from itself.
LEMMA SameMesh ==
  ASSUME NEW a, NEW nonAlt
  PROVE  compareMesh(a, a, nonAlt)
BY DEF compareMesh

-----------------------------------------------------------------------------
(* The cases of commitMesh. *)

Committed(n, mesh, alt) ==
  /\ Working(n) /\ ~Use(n).ignored /\ Use(n).key \notin processed[n]
  /\ mesh \in MeshesOf(n) /\ alt \in [Use(n).alt -> Texs]
  /\ processed' = [processed EXCEPT ![n] = @ \cup {Use(n).key}]
  /\ next' = [next EXCEPT ![n] = @ + 1]
  /\ wanted' = wanted \cup {[nif |-> n, key |-> Use(n).key, mesh |-> mesh, alt |-> alt]}
  /\ UNCHANGED <<uses, jobs, validated, saved, modelUses>>

\* The use is added to the output mesh it compares equal to.
Merge(n, k, mesh, alt) ==
  /\ k \in DOMAIN outputs[n]
  /\ compareMesh(mesh, outputs[n][k].mesh, Places(n) \ Use(n).alt)
  /\ outputs' = [outputs EXCEPT ![n][k].results = Append(@, <<Use(n).key, alt>>)]
  /\ UNCHANGED <<ignoreBase, cache, errors>>

\* The base mesh serves.
Drop(n) ==
  /\ ignoreBase' = [ignoreBase EXCEPT ![n] = TRUE]
  /\ UNCHANGED <<outputs, cache, errors>>

\* The mesh is a new output.
NewOutput(n, mesh, alt) ==
  [mesh |-> mesh, results |-> <<<<Use(n).key, alt>>>>, weighted |-> Use(n).weighted]
Add(n, mesh, alt) ==
  /\ \A i \in DOMAIN outputs[n] : ~ compareMesh(mesh, outputs[n][i].mesh, Places(n) \ Use(n).alt)
  /\ IF Use(n).weighted THEN processWeightVariant(n, Len(outputs[n]), mesh)
     ELSE UNCHANGED <<cache, errors>>
  /\ outputs' = [outputs EXCEPT ![n] = Append(@, NewOutput(n, mesh, alt))]
  /\ UNCHANGED ignoreBase

Placed(n, mesh, alt) ==
  (\E k \in DOMAIN outputs[n] : Merge(n, k, mesh, alt)) \/ Drop(n) \/ Add(n, mesh, alt)

LEMMA OutputsTyped ==
  ASSUME Typed, NEW n \in NIFs
  PROVE  /\ outputs[n] \in Seq(Output) /\ Len(outputs[n]) \in Nat
         /\ DOMAIN outputs[n] = 1..Len(outputs[n])
         /\ \A i \in DOMAIN outputs[n] :
              /\ outputs[n][i] \in Output /\ outputs[n][i].mesh \in MeshesOf(n)
              /\ Results(n, i) \in Seq(Keys \X Alts) /\ Len(Results(n, i)) \in Nat
              /\ DOMAIN Results(n, i) = 1..Len(Results(n, i))
<1>1. outputs[n] \in Seq(Output) BY DEF Typed
<1>2. \A i \in DOMAIN outputs[n] : outputs[n][i] \in Output
  BY <1>1
<1>3. \A i \in DOMAIN outputs[n] : Results(n, i) \in Seq(Keys \X Alts)
  BY <1>2 DEF Output, Results
<1> QED BY <1>1, <1>2, <1>3 DEF Typed

LEMMA CommitCases ==
  ASSUME Typed, NEW n \in NIFs, commitMesh(n)
  PROVE  \E mesh, alt : Committed(n, mesh, alt) /\ Placed(n, mesh, alt)
<1>1. PICK p \in processNIF(n, Use(n).alt) :
        LET nonAlt == Places(n) \ Use(n).alt
            k      == FirstSame(n, p.mesh, nonAlt)
        IN  /\ wanted' = wanted \cup {[nif |-> n, key |-> Use(n).key,
                                       mesh |-> p.mesh, alt |-> p.alt]}
            /\ \/ /\ k # 0
                  /\ outputs' = [outputs EXCEPT ![n][k].results =
                                   Append(@, <<Use(n).key, p.alt>>)]
                  /\ UNCHANGED <<ignoreBase, cache, errors>>
               \/ Drop(n)
               \/ /\ k = 0
                  /\ IF Use(n).weighted
                     THEN processWeightVariant(n, Len(outputs[n]), p.mesh)
                     ELSE UNCHANGED <<cache, errors>>
                  /\ outputs' = [outputs EXCEPT ![n] = Append(@, NewOutput(n, p.mesh, p.alt))]
                  /\ UNCHANGED ignoreBase
  BY DEF commitMesh, Drop, NewOutput, weightVars
<1>2. Working(n) /\ Use(n).alt \in SUBSET Places(n) BY UseTyped DEF commitMesh
<1>3. p.mesh \in MeshesOf(n) /\ p.alt \in [Use(n).alt -> Texs]
  BY <1>2, MadeTyped
<1>4. Committed(n, p.mesh, p.alt)
  BY <1>1, <1>3 DEF Committed, commitMesh, NextUse
<1>5. LET k == FirstSame(n, p.mesh, Places(n) \ Use(n).alt)
      IN IF k = 0
         THEN \A i \in DOMAIN outputs[n] :
                ~ compareMesh(p.mesh, outputs[n][i].mesh, Places(n) \ Use(n).alt)
         ELSE k \in DOMAIN outputs[n]
              /\ compareMesh(p.mesh, outputs[n][k].mesh, Places(n) \ Use(n).alt)
  BY FirstSameFound, OutputsTyped
<1>6. Placed(n, p.mesh, p.alt)
  BY <1>1, <1>5, Zenon DEF Placed, Merge, Add
<1> QED BY <1>4, <1>6

-----------------------------------------------------------------------------
(* What becomes of the outputs. *)

LEMMA MergeEffect ==
  ASSUME Typed, NEW n \in NIFs, NEW k, NEW mesh, NEW alt \in Alts,
         Use(n).key \in Keys, Merge(n, k, mesh, alt)
  PROVE  /\ outputs' \in [NIFs -> Seq(Output)]
         /\ \A m \in NIFs : /\ Len(outputs'[m]) = Len(outputs[m])
                            /\ DOMAIN outputs'[m] = DOMAIN outputs[m]
                            /\ m # n => outputs'[m] = outputs[m]
         /\ \A i \in DOMAIN outputs[n] :
              /\ outputs'[n][i].mesh = outputs[n][i].mesh
              /\ outputs'[n][i].weighted = outputs[n][i].weighted
              /\ i # k => outputs'[n][i] = outputs[n][i]
         /\ outputs'[n][k].results = Append(outputs[n][k].results, <<Use(n).key, alt>>)
<1> DEFINE o == outputs[n][k]
           e == [o EXCEPT !.results = Append(@, <<Use(n).key, alt>>)]
<1>1. /\ k \in 1..Len(outputs[n]) /\ outputs[n] \in Seq(Output) /\ o \in Output
      /\ Len(outputs[n]) \in Nat /\ DOMAIN outputs[n] = 1..Len(outputs[n])
  BY OutputsTyped DEF Merge
<1>2. Append(o.results, <<Use(n).key, alt>>) \in Seq(Keys \X Alts)
  BY <1>1 DEF Output
<1>3. /\ e \in Output /\ e.results = Append(o.results, <<Use(n).key, alt>>)
      /\ e.mesh = o.mesh /\ e.weighted = o.weighted
  BY <1>1, <1>2 DEF Output
<1>4. outputs' = [outputs EXCEPT ![n] = [@ EXCEPT ![k] = e]]
  BY DEF Merge
<1>5. outputs \in [NIFs -> Seq(Output)] BY DEF Typed
<1> HIDE DEF e
<1> DEFINE q == [outputs[n] EXCEPT ![k] = e]
<1>6. /\ q \in Seq(Output) /\ Len(q) = Len(outputs[n]) /\ DOMAIN q = DOMAIN outputs[n]
      /\ q[k] = e /\ \A i \in DOMAIN outputs[n] : i # k => q[i] = outputs[n][i]
  BY <1>1, <1>3
<1> HIDE DEF q
<1>7. outputs' = [outputs EXCEPT ![n] = q] BY <1>4 DEF q
<1>8. outputs' \in [NIFs -> Seq(Output)] /\ outputs'[n] = q
      /\ \A m \in NIFs : m # n => outputs'[m] = outputs[m]
  BY <1>5, <1>6, <1>7
<1>9. /\ \A m \in NIFs : Len(outputs'[m]) = Len(outputs[m])
      /\ \A m \in NIFs : DOMAIN outputs'[m] = DOMAIN outputs[m]
  BY <1>6, <1>8
<1> QED BY <1>3, <1>6, <1>8, <1>9

LEMMA AddEffect ==
  ASSUME Typed, NEW n \in NIFs, NEW mesh \in MeshesOf(n), NEW alt \in Alts,
         Use(n).key \in Keys, Use(n).weighted \in BOOLEAN, Add(n, mesh, alt)
  PROVE  /\ outputs' \in [NIFs -> Seq(Output)]
         /\ \A m \in NIFs : m # n => outputs'[m] = outputs[m]
         /\ Len(outputs'[n]) = Len(outputs[n]) + 1
         /\ DOMAIN outputs'[n] = 1..(Len(outputs[n]) + 1)
         /\ \A i \in DOMAIN outputs[n] : outputs'[n][i] = outputs[n][i]
         /\ outputs'[n][Len(outputs[n]) + 1] = NewOutput(n, mesh, alt)
<1>1. /\ outputs[n] \in Seq(Output)
      /\ Len(outputs[n]) \in Nat /\ DOMAIN outputs[n] = 1..Len(outputs[n])
  BY OutputsTyped
<1>2. NewOutput(n, mesh, alt) \in Output
  <2>1. <<<<Use(n).key, alt>>>> \in Seq(Keys \X Alts) OBVIOUS
  <2>2. mesh \in Seq(ShapeRec) BY DEF MeshesOf
  <2> QED BY <2>1, <2>2 DEF NewOutput, Output
<1> DEFINE q == Append(outputs[n], NewOutput(n, mesh, alt))
<1>3. /\ q \in Seq(Output) /\ Len(q) = Len(outputs[n]) + 1 /\ DOMAIN q = 1..(Len(outputs[n]) + 1)
      /\ \A i \in DOMAIN outputs[n] : q[i] = outputs[n][i]
      /\ q[Len(outputs[n]) + 1] = NewOutput(n, mesh, alt)
  BY <1>1, <1>2
<1>4. outputs' = [outputs EXCEPT ![n] = q] BY DEF Add
<1>5. outputs \in [NIFs -> Seq(Output)] BY DEF Typed
<1> HIDE DEF q
<1>6. outputs' \in [NIFs -> Seq(Output)] /\ outputs'[n] = q
      /\ \A m \in NIFs : m # n => outputs'[m] = outputs[m]
  BY <1>3, <1>4, <1>5
<1> QED BY <1>3, <1>6

\* However a use is placed, what is there stays, and the use is found in an
\* output that compares equal to what was made for it, or in the base mesh.
Outcome(n, mesh, alt) ==
  /\ outputs' \in [NIFs -> Seq(Output)]
  /\ \A m \in NIFs : m # n => outputs'[m] = outputs[m] /\ ignoreBase'[m] = ignoreBase[m]
  /\ Len(outputs'[n]) \in {Len(outputs[n]), Len(outputs[n]) + 1}
  /\ \A i \in DOMAIN outputs[n] :
       /\ i \in DOMAIN outputs'[n]
       /\ outputs'[n][i].mesh = outputs[n][i].mesh
       /\ outputs'[n][i].weighted = outputs[n][i].weighted
       /\ \A j \in DOMAIN Results(n, i) :
            j \in DOMAIN Results(n, i)' /\ Results(n, i)'[j] = Results(n, i)[j]
  /\ \A i \in DOMAIN outputs'[n] :
       /\ i \in DOMAIN outputs[n] \/ outputs'[n][i].mesh = mesh
       /\ \A j \in DOMAIN Results(n, i)' :
            \/ i \in DOMAIN outputs[n] /\ j \in DOMAIN Results(n, i)
            \/ /\ Results(n, i)'[j] = <<Use(n).key, alt>>
               /\ compareMesh(mesh, outputs'[n][i].mesh, Places(n) \ Use(n).alt)
  /\ \A i, j \in DOMAIN outputs'[n] :
       i \in DOMAIN outputs[n] /\ j \notin DOMAIN outputs[n] => outputs'[n][i].mesh # outputs'[n][j].mesh
  /\ ignoreBase[n] => ignoreBase'[n]
  /\ ignoreBase'[n] \/ \E i \in DOMAIN outputs'[n] : \E j \in DOMAIN Results(n, i)' :
                           Results(n, i)'[j][1] = Use(n).key
  /\ ignoreBase' \in [NIFs -> BOOLEAN]

LEMMA PlacedOutcome ==
  ASSUME Typed, NEW n \in NIFs, NEW mesh \in MeshesOf(n), NEW alt \in Alts,
         Use(n).key \in Keys, Use(n).weighted \in BOOLEAN, Placed(n, mesh, alt)
  PROVE  Outcome(n, mesh, alt)
<1>1. /\ outputs \in [NIFs -> Seq(Output)] /\ ignoreBase \in [NIFs -> BOOLEAN]
      /\ Len(outputs[n]) \in Nat /\ DOMAIN outputs[n] = 1..Len(outputs[n])
      /\ \A i \in DOMAIN outputs[n] : /\ Results(n, i) \in Seq(Keys \X Alts)
                                      /\ Len(Results(n, i)) \in Nat
                                      /\ DOMAIN Results(n, i) = 1..Len(Results(n, i))
  BY OutputsTyped DEF Typed
<1>2. CASE Drop(n)
  BY <1>1, <1>2 DEF Outcome, Drop, Results
<1>3. ASSUME NEW k \in DOMAIN outputs[n], Merge(n, k, mesh, alt) PROVE Outcome(n, mesh, alt)
  <2> DEFINE q == Results(n, k)
             r == Append(q, <<Use(n).key, alt>>)
  <2>1. /\ Len(r) = Len(q) + 1 /\ DOMAIN r = 1..(Len(q) + 1)
        /\ \A j \in DOMAIN q : j \in DOMAIN r /\ r[j] = q[j]
        /\ \A j \in DOMAIN r : j \in DOMAIN q \/ r[j] = <<Use(n).key, alt>>
        /\ Len(q) + 1 \in DOMAIN r /\ r[Len(q) + 1] = <<Use(n).key, alt>>
    BY <1>1
  <2>2. Results(n, k)' = r BY <1>3, MergeEffect DEF Results
  <2>3. \A i \in DOMAIN outputs[n] : i # k => Results(n, i)' = Results(n, i)
    BY <1>3, MergeEffect DEF Results
  <2>4. /\ outputs' \in [NIFs -> Seq(Output)]
        /\ \A m \in NIFs : m # n => outputs'[m] = outputs[m]
        /\ Len(outputs'[n]) = Len(outputs[n]) /\ DOMAIN outputs'[n] = DOMAIN outputs[n]
        /\ \A i \in DOMAIN outputs[n] : /\ outputs'[n][i].mesh = outputs[n][i].mesh
                                        /\ outputs'[n][i].weighted = outputs[n][i].weighted
    BY <1>3, MergeEffect
  <2>5. ignoreBase' = ignoreBase /\ compareMesh(mesh, outputs[n][k].mesh, Places(n) \ Use(n).alt)
    BY <1>3 DEF Merge
  <2> HIDE DEF r, q
  <2>6. \A i \in DOMAIN outputs[n] : \A j \in DOMAIN Results(n, i) :
          j \in DOMAIN Results(n, i)' /\ Results(n, i)'[j] = Results(n, i)[j]
    <3> SUFFICES ASSUME NEW i \in DOMAIN outputs[n], NEW j \in DOMAIN Results(n, i)
                 PROVE  j \in DOMAIN Results(n, i)' /\ Results(n, i)'[j] = Results(n, i)[j]
      OBVIOUS
    <3>1. CASE i = k BY <2>1, <2>2, <3>1 DEF q
    <3>2. CASE i # k BY <2>3, <3>2
    <3> QED BY <3>1, <3>2
  <2>7. \A i \in DOMAIN outputs[n] : \A j \in DOMAIN Results(n, i)' :
          \/ j \in DOMAIN Results(n, i)
          \/ /\ Results(n, i)'[j] = <<Use(n).key, alt>>
             /\ compareMesh(mesh, outputs'[n][i].mesh, Places(n) \ Use(n).alt)
    <3> SUFFICES ASSUME NEW i \in DOMAIN outputs[n], NEW j \in DOMAIN Results(n, i)',
                        j \notin DOMAIN Results(n, i)
                 PROVE  /\ Results(n, i)'[j] = <<Use(n).key, alt>>
                        /\ compareMesh(mesh, outputs'[n][i].mesh, Places(n) \ Use(n).alt)
      OBVIOUS
    <3>1. i = k BY <2>3
    <3>2. Results(n, i)'[j] = <<Use(n).key, alt>> BY <2>1, <2>2, <3>1 DEF q
    <3>3. compareMesh(mesh, outputs'[n][i].mesh, Places(n) \ Use(n).alt)
      BY <2>4, <2>5, <3>1
    <3> QED BY <3>2, <3>3
  <2>8. \E i \in DOMAIN outputs'[n] : \E j \in DOMAIN Results(n, i)' :
          Results(n, i)'[j][1] = Use(n).key
    <3>1. r[Len(q) + 1][1] = Use(n).key BY <2>1
    <3>2. Len(q) + 1 \in DOMAIN Results(n, k)' /\ Results(n, k)'[Len(q) + 1][1] = Use(n).key
      BY <2>1, <2>2, <3>1
    <3> QED BY <2>4, <3>2
  <2> QED BY <1>1, <2>4, <2>5, <2>6, <2>7, <2>8 DEF Outcome
<1>4. CASE Add(n, mesh, alt)
  <2>14. PICK l : l = Len(outputs[n]) + 1 OBVIOUS
  <2>1. /\ outputs' \in [NIFs -> Seq(Output)]
        /\ \A m \in NIFs : m # n => outputs'[m] = outputs[m]
        /\ Len(outputs'[n]) = l /\ DOMAIN outputs'[n] = 1..l
        /\ \A i \in DOMAIN outputs[n] : outputs'[n][i] = outputs[n][i]
        /\ outputs'[n][l] = NewOutput(n, mesh, alt)
    BY <1>4, <2>14, AddEffect
  <2>2. /\ \A i \in DOMAIN outputs[n] : ~ compareMesh(mesh, outputs[n][i].mesh, Places(n) \ Use(n).alt)
        /\ ignoreBase' = ignoreBase
    BY <1>4 DEF Add
  <2>3. outputs'[n][l].mesh = mesh /\ Results(n, l)' = <<<<Use(n).key, alt>>>>
    BY <2>1 DEF NewOutput, Results
  <2>4. \A i \in DOMAIN outputs[n] : outputs[n][i].mesh # mesh
    BY <2>2, SameMesh
  <2>5. compareMesh(mesh, outputs'[n][l].mesh, Places(n) \ Use(n).alt)
    BY <2>3, SameMesh
  <2>6. \A i \in DOMAIN outputs[n] : Results(n, i)' = Results(n, i)
    BY <2>1 DEF Results
  <2>7. /\ DOMAIN outputs[n] \subseteq DOMAIN outputs'[n]
        /\ \A i \in DOMAIN outputs'[n] : i \in DOMAIN outputs[n] \/ i = l
        /\ l \in DOMAIN outputs'[n] /\ l \notin DOMAIN outputs[n]
    BY <1>1, <2>1, <2>14
  <2>8. /\ \A j \in DOMAIN Results(n, l)' : Results(n, l)'[j] = <<Use(n).key, alt>>
        /\ 1 \in DOMAIN Results(n, l)' /\ Results(n, l)'[1][1] = Use(n).key
    BY <2>3
  <2>9. \A i \in DOMAIN outputs'[n] :
          /\ i \in DOMAIN outputs[n] \/ outputs'[n][i].mesh = mesh
          /\ \A j \in DOMAIN Results(n, i)' :
               \/ i \in DOMAIN outputs[n] /\ j \in DOMAIN Results(n, i)
               \/ /\ Results(n, i)'[j] = <<Use(n).key, alt>>
                  /\ compareMesh(mesh, outputs'[n][i].mesh, Places(n) \ Use(n).alt)
    BY <2>3, <2>5, <2>6, <2>7, <2>8
  <2>10. \A i, j \in DOMAIN outputs'[n] :
           i \in DOMAIN outputs[n] /\ j \notin DOMAIN outputs[n]
             => outputs'[n][i].mesh # outputs'[n][j].mesh
    BY <2>1, <2>3, <2>4, <2>7
  <2>11. \E i \in DOMAIN outputs'[n] : \E j \in DOMAIN Results(n, i)' :
           Results(n, i)'[j][1] = Use(n).key
    BY <2>7, <2>8
  <2>12. \A i \in DOMAIN outputs[n] :
       /\ i \in DOMAIN outputs'[n]
       /\ outputs'[n][i].mesh = outputs[n][i].mesh
       /\ outputs'[n][i].weighted = outputs[n][i].weighted
       /\ \A j \in DOMAIN Results(n, i) :
            j \in DOMAIN Results(n, i)' /\ Results(n, i)'[j] = Results(n, i)[j]
    BY <2>1, <2>6, <2>7
  <2>13. Len(outputs'[n]) \in {Len(outputs[n]), Len(outputs[n]) + 1}
    BY <2>1, <2>14
  <2> QED BY <1>1, <2>1, <2>2, <2>9, <2>10, <2>11, <2>12, <2>13 DEF Outcome
<1> QED BY <1>2, <1>3, <1>4 DEF Placed

LEMMA CommitOutcome ==
  ASSUME Typed, NEW n \in NIFs, commitMesh(n)
  PROVE  \E mesh \in MeshesOf(n), alt \in AltsOf(n) :
           /\ Committed(n, mesh, alt) /\ Placed(n, mesh, alt) /\ Outcome(n, mesh, alt)
           /\ DOMAIN alt = Use(n).alt
<1>1. PICK mesh, alt : Committed(n, mesh, alt) /\ Placed(n, mesh, alt)
  BY CommitCases
<1>2. /\ mesh \in MeshesOf(n) /\ alt \in [Use(n).alt -> Texs] /\ Working(n)
  BY <1>1 DEF Committed
<1>3. /\ Use(n).alt \subseteq Places(n) /\ Use(n).weighted \in BOOLEAN /\ Use(n).key \in Keys
  BY <1>2, UseTyped
<1>4. alt \in AltsOf(n) /\ alt \in Alts /\ DOMAIN alt = Use(n).alt
  BY <1>2, <1>3 DEF AltsOf, Alts
<1>5. Outcome(n, mesh, alt) BY <1>1, <1>2, <1>3, <1>4, PlacedOutcome
<1> QED BY <1>1, <1>2, <1>4, <1>5

-----------------------------------------------------------------------------
(* Typed is inductive. *)

LEMMA TypedInit == Init => Typed
<1> SUFFICES ASSUME Init PROVE Typed OBVIOUS
<1>1. DOMAIN uses = NIFs /\ \A n \in NIFs : uses[n] \in UseLists[n]
  BY DEF Init
<1>2. \A n \in NIFs : Len(uses[n]) \in Nat
  BY <1>1, PermutationsAssumption DEF PermutationsAssumption
<1>3. next \in [NIFs -> Nat] /\ \A n \in NIFs : next[n] \in 1..(Len(uses[n]) + 1)
  BY <1>2 DEF Init
<1>4. /\ outputs \in [NIFs -> Seq(Output)]
      /\ \A n \in NIFs : \A i \in DOMAIN outputs[n] : outputs[n][i].mesh \in MeshesOf(n)
  <2>1. \A n \in NIFs : outputs[n] = <<>> BY DEF Init
  <2>2. <<>> \in Seq(Output) /\ DOMAIN <<>> = {} OBVIOUS
  <2>3. outputs \in [NIFs -> Seq(Output)] BY <2>2 DEF Init
  <2> QED BY <2>1, <2>2, <2>3
<1>5. DOMAIN cache \subseteq NIFs \X Nat BY DEF Init, NoCache
<1> QED BY <1>1, <1>3, <1>4, <1>5 DEF Init, Typed

LEMMA WeightTyped ==
  ASSUME NEW n \in NIFs, NEW k \in Nat, NEW mesh, DOMAIN cache \subseteq NIFs \X Nat,
         errors \subseteq {"doNotMatch", "notCreated"} \X NIFs,
         processWeightVariant(n, k, mesh)
  PROVE  /\ DOMAIN cache' \subseteq NIFs \X Nat
         /\ errors' \subseteq {"doNotMatch", "notCreated"} \X NIFs
<1>1. CASE <<OtherVariant[n], k>> \in DOMAIN cache
  BY <1>1 DEF processWeightVariant
<1>2. CASE <<OtherVariant[n], k>> \notin DOMAIN cache
  BY <1>2 DEF processWeightVariant
<1> QED BY <1>1, <1>2

LEMMA TypedCommit ==
  ASSUME Typed, NEW n \in NIFs, NEW mesh \in MeshesOf(n), NEW alt \in AltsOf(n),
         Committed(n, mesh, alt), Placed(n, mesh, alt), Outcome(n, mesh, alt)
  PROVE  Typed'
<1>1. /\ Use(n).key \in Keys /\ next[n] \in DOMAIN uses[n]
      /\ Len(uses[n]) \in Nat /\ DOMAIN uses[n] = 1..Len(uses[n])
  BY UseTyped, UsesTyped DEF Committed
<1>2. /\ next' = [next EXCEPT ![n] = @ + 1] /\ UNCHANGED <<uses, jobs, validated, saved>>
      /\ processed' = [processed EXCEPT ![n] = @ \cup {Use(n).key}]
  BY DEF Committed
<1>3. next' \in [NIFs -> Nat] /\ \A m \in NIFs : next'[m] \in 1..(Len(uses'[m]) + 1)
  BY <1>1, <1>2 DEF Typed
<1>4. processed' \in [NIFs -> SUBSET Keys]
  BY <1>1, <1>2 DEF Typed
<1>5. /\ outputs' \in [NIFs -> Seq(Output)] /\ ignoreBase' \in [NIFs -> BOOLEAN]
      /\ \A m \in NIFs : m # n => outputs'[m] = outputs[m]
      /\ \A i \in DOMAIN outputs[n] : outputs'[n][i].mesh = outputs[n][i].mesh
      /\ \A i \in DOMAIN outputs'[n] : i \in DOMAIN outputs[n] \/ outputs'[n][i].mesh = mesh
  BY DEF Outcome
<1>6. \A m \in NIFs : \A i \in DOMAIN outputs'[m] : outputs'[m][i].mesh \in MeshesOf(m)
  BY <1>5 DEF Typed
<1>7. /\ DOMAIN cache' \subseteq NIFs \X Nat
      /\ errors' \subseteq {"doNotMatch", "notCreated"} \X NIFs
  <2>1. Len(outputs[n]) \in Nat BY OutputsTyped
  <2>2. \/ UNCHANGED <<cache, errors>>
        \/ processWeightVariant(n, Len(outputs[n]), mesh)
    BY DEF Placed, Merge, Drop, Add
  <2> QED BY <2>1, <2>2, WeightTyped DEF Typed
<1> QED BY <1>2, <1>3, <1>4, <1>5, <1>6, <1>7 DEF Typed

LEMMA TypedStep ==
  ASSUME Typed, [Next]_vars
  PROVE  Typed'
<1>0. \A n \in NIFs : Working(n) => next[n] + 1 \in 1..(Len(uses[n]) + 1) /\ next[n] + 1 \in Nat
  BY UsesTyped DEF Typed, Working
<1>1. ASSUME NEW n \in NIFs, IgnoreUse(n) PROVE Typed'
  <2>1. next' \in [NIFs -> Nat] /\ \A m \in NIFs : next'[m] \in 1..(Len(uses'[m]) + 1)
    BY <1>0, <1>1 DEF IgnoreUse, NextUse, Typed
  <2> QED BY <1>1, <2>1 DEF IgnoreUse, weightVars, Typed
<1>2. ASSUME NEW n \in NIFs, UseFails(n) PROVE Typed'
  BY <1>2 DEF UseFails, trackerVars, weightVars, Typed
<1>3. ASSUME NEW n \in NIFs, RepeatedUse(n) PROVE Typed'
  <2>1. next' \in [NIFs -> Nat] /\ \A m \in NIFs : next'[m] \in 1..(Len(uses'[m]) + 1)
    BY <1>0, <1>3 DEF RepeatedUse, NextUse, Typed
  <2> QED BY <1>3, <2>1 DEF RepeatedUse, trackerVars, weightVars, Typed
<1>4. ASSUME NEW n \in NIFs, commitMesh(n) PROVE Typed'
  BY <1>4, CommitOutcome, TypedCommit
<1>5. ASSUME NEW n \in NIFs, saveMeshes(n) PROVE Typed'
  <2>1. PICK v : saved' = [saved EXCEPT ![n] = v] BY <1>5 DEF saveMeshes
  <2>2. DOMAIN saved' = NIFs BY <2>1 DEF Typed
  <2> QED BY <1>5, <2>2 DEF saveMeshes, trackerVars, weightVars, Typed
<1>6. CASE validateWeightedVariants
  <2>1. /\ DOMAIN cache' \subseteq NIFs \X Nat
        /\ errors' \subseteq {"doNotMatch", "notCreated"} \X NIFs
    <3>1. DOMAIN cache' = {} BY <1>6 DEF validateWeightedVariants, NoCache
    <3>2. \A c \in DOMAIN cache : c[1] \in NIFs BY DEF Typed
    <3> QED BY <1>6, <3>1, <3>2 DEF validateWeightedVariants, Typed
  <2> QED BY <1>6, <2>1 DEF validateWeightedVariants, trackerVars, Typed
<1>7. CASE UNCHANGED vars
  BY <1>7 DEF vars, trackerVars, weightVars, Typed
<1> QED BY <1>1, <1>2, <1>3, <1>4, <1>5, <1>6, <1>7 DEF Next, patchNIF

-----------------------------------------------------------------------------
(* A use committed. *)

LEMMA UsesCommit ==
  ASSUME Typed, UsesInv, NEW n \in NIFs, NEW mesh, NEW alt,
         Committed(n, mesh, alt), Outcome(n, mesh, alt)
  PROVE  UsesInv'
<1>1. /\ next[n] \in DOMAIN uses[n] /\ DOMAIN uses[n] = 1..Len(uses[n]) /\ Len(uses[n]) \in Nat
      /\ next[n] \in Nat /\ Len(outputs[n]) \in Nat
  BY UseTyped, UsesTyped, OutputsTyped DEF Committed
<1>2. /\ UNCHANGED uses /\ ~ Use(n).ignored /\ Use(n).key \notin processed[n]
      /\ next'[n] = next[n] + 1 /\ \A m \in NIFs : m # n => next'[m] = next[m]
      /\ processed'[n] = processed[n] \cup {Use(n).key}
      /\ \A m \in NIFs : m # n => processed'[m] = processed[m]
  BY DEF Committed, Typed
<1>3. ASSUME NEW m \in NIFs, m # n
      PROVE  /\ IsFiniteSet(processed'[m]) /\ Len(outputs'[m]) <= Cardinality(processed'[m])
             /\ \A i \in 1..(next'[m] - 1) :
                  /\ uses'[m][i].ignored => ignoreBase'[m]
                  /\ ~ uses'[m][i].ignored => uses'[m][i].key \in processed'[m]
             /\ \A key \in processed'[m] :
                  ignoreBase'[m] \/ \E i \in DOMAIN outputs'[m] : HasKey(m, i, key)'
  <2>1. outputs'[m] = outputs[m] /\ ignoreBase'[m] = ignoreBase[m] BY <1>3 DEF Outcome
  <2> QED BY <1>2, <1>3, <2>1 DEF UsesInv, HasKey, Results
<1>4. IsFiniteSet(processed'[n]) /\ Len(outputs'[n]) <= Cardinality(processed'[n])
  <2>1. IsFiniteSet(processed[n]) /\ Len(outputs[n]) <= Cardinality(processed[n])
    BY DEF UsesInv
  <2>2. /\ IsFiniteSet(processed'[n])
        /\ Cardinality(processed'[n]) = Cardinality(processed[n]) + 1
    BY <1>2, <2>1, FS_AddElement
  <2>3. Cardinality(processed[n]) \in Nat BY <2>1, FS_CardinalityType
  <2> QED BY <1>1, <2>1, <2>2, <2>3 DEF Outcome
<1>5. \A i \in 1..(next'[n] - 1) :
        /\ uses'[n][i].ignored => ignoreBase'[n]
        /\ ~ uses'[n][i].ignored => uses'[n][i].key \in processed'[n]
  <2> SUFFICES ASSUME NEW i \in 1..(next'[n] - 1)
               PROVE  /\ uses'[n][i].ignored => ignoreBase'[n]
                      /\ ~ uses'[n][i].ignored => uses'[n][i].key \in processed'[n]
    OBVIOUS
  <2>1. CASE i = next[n] BY <1>2, <2>1 DEF Use
  <2>2. CASE i # next[n]
    <3>1. i \in 1..(next[n] - 1) BY <1>1, <1>2, <2>2
    <3> QED BY <1>2, <3>1 DEF UsesInv, Outcome
  <2> QED BY <2>1, <2>2
<1>6. \A key \in processed'[n] :
        ignoreBase'[n] \/ \E i \in DOMAIN outputs'[n] : HasKey(n, i, key)'
  <2> SUFFICES ASSUME NEW key \in processed'[n], ~ ignoreBase'[n]
               PROVE  \E i \in DOMAIN outputs'[n] : HasKey(n, i, key)'
    OBVIOUS
  <2>1. CASE key = Use(n).key
    <3>1. PICK i \in DOMAIN outputs'[n] : \E j \in DOMAIN Results(n, i)' :
                           Results(n, i)'[j][1] = Use(n).key
      BY DEF Outcome
    <3>2. HasKey(n, i, key)' BY <2>1, <3>1 DEF HasKey
    <3> QED BY <3>2
  <2>2. CASE key # Use(n).key
    <3>1. key \in processed[n] /\ ~ ignoreBase[n] BY <1>2, <2>2 DEF Outcome
    <3>2. PICK i \in DOMAIN outputs[n] : HasKey(n, i, key) BY <3>1 DEF UsesInv
    <3>3. PICK j \in DOMAIN Results(n, i) : Results(n, i)[j][1] = key BY <3>2 DEF HasKey
    <3>4. i \in DOMAIN outputs'[n] /\ j \in DOMAIN Results(n, i)' /\ Results(n, i)'[j][1] = key
      BY <3>3 DEF Outcome
    <3>5. HasKey(n, i, key)' BY <3>4 DEF HasKey
    <3> QED BY <3>4, <3>5
  <2> QED BY <2>1, <2>2
<1> QED BY <1>3, <1>4, <1>5, <1>6 DEF UsesInv

LEMMA TwinsCommit ==
  ASSUME Typed, NoTwinOutputs, NEW n \in NIFs, NEW mesh, NEW alt, Outcome(n, mesh, alt)
  PROVE  NoTwinOutputs'
<1> SUFFICES ASSUME NEW m \in NIFs, NEW i \in DOMAIN outputs'[m], NEW j \in DOMAIN outputs'[m],
                    outputs'[m][i].mesh = outputs'[m][j].mesh
             PROVE  i = j
  BY DEF NoTwinOutputs
<1>1. CASE m # n
  BY <1>1 DEF Outcome, NoTwinOutputs
<1>2. CASE m = n
  <2>1. /\ Len(outputs[n]) \in Nat /\ DOMAIN outputs[n] = 1..Len(outputs[n])
    BY OutputsTyped
  <2>2. /\ outputs'[n] \in Seq(Output) /\ Len(outputs'[n]) \in {Len(outputs[n]), Len(outputs[n]) + 1}
    BY DEF Outcome
  <2>3. DOMAIN outputs'[n] \subseteq 1..(Len(outputs[n]) + 1)
    BY <2>1, <2>2
  <2>4. \A a, b \in DOMAIN outputs'[n] : a \in DOMAIN outputs[n] /\ b \notin DOMAIN outputs[n]
           => outputs'[n][a].mesh # outputs'[n][b].mesh
    BY DEF Outcome
  <2>5. CASE i \in DOMAIN outputs[n] /\ j \in DOMAIN outputs[n]
    BY <1>2, <2>5 DEF Outcome, NoTwinOutputs
  <2>6. CASE i \notin DOMAIN outputs[n] /\ j \notin DOMAIN outputs[n]
    BY <1>2, <2>1, <2>3, <2>6
  <2> QED BY <1>2, <2>4, <2>5, <2>6
<1> QED BY <1>1, <1>2

LEMMA WantedCommit ==
  ASSUME Typed, WantedInv, NEW n \in NIFs, NEW mesh \in MeshesOf(n), NEW alt \in AltsOf(n),
         Committed(n, mesh, alt), Outcome(n, mesh, alt), DOMAIN alt = Use(n).alt
  PROVE  WantedInv'
<1>1. PICK v : v = [nif |-> n, key |-> Use(n).key, mesh |-> mesh, alt |-> alt] OBVIOUS
<1>2. v.nif = n /\ v.key = Use(n).key /\ v.mesh = mesh /\ v.alt = alt BY <1>1
<1>3. /\ wanted' = wanted \cup {v} /\ Use(n).key \notin processed[n]
      /\ processed'[n] = processed[n] \cup {Use(n).key}
      /\ \A m \in NIFs : m # n => processed'[m] = processed[m]
  BY <1>1 DEF Committed, Typed
<1>4. \A w \in wanted' : /\ w.nif \in NIFs /\ w.key \in processed'[w.nif]
                         /\ w.mesh \in MeshesOf(w.nif) /\ w.alt \in AltsOf(w.nif)
  BY <1>2, <1>3 DEF WantedInv
<1>5. \A w, x \in wanted' : w.nif = x.nif /\ w.key = x.key => w = x
  BY <1>2, <1>3 DEF WantedInv
<1>6. ASSUME NEW m \in NIFs, NEW i \in DOMAIN outputs'[m], NEW j \in DOMAIN Results(m, i)'
      PROVE  \E w \in wanted' : Merged(m, i, j, w)'
  <2>1. CASE m # n
    <3>1. outputs'[m] = outputs[m] BY <2>1 DEF Outcome
    <3>2. i \in DOMAIN outputs[m] /\ j \in DOMAIN Results(m, i) BY <1>6, <3>1 DEF Results
    <3>3. PICK w \in wanted : Merged(m, i, j, w) BY <3>2 DEF WantedInv
    <3>4. Merged(m, i, j, w)' BY <3>1, <3>3 DEF Merged, Results
    <3> QED BY <1>3, <3>4
  <2>2. CASE m = n /\ i \in DOMAIN outputs[n] /\ j \in DOMAIN Results(n, i)
    <3>1. PICK w \in wanted : Merged(n, i, j, w) BY <2>2 DEF WantedInv
    <3>2. /\ outputs'[n][i].mesh = outputs[n][i].mesh /\ Results(n, i)'[j] = Results(n, i)[j]
      BY <2>2 DEF Outcome
    <3>3. Merged(n, i, j, w)' BY <3>1, <3>2 DEF Merged
    <3> QED BY <1>3, <2>2, <3>3
  <2>3. CASE m = n /\ ~ (i \in DOMAIN outputs[n] /\ j \in DOMAIN Results(n, i))
    <3>1. /\ Results(n, i)'[j] = <<Use(n).key, alt>>
          /\ compareMesh(mesh, outputs'[n][i].mesh, Places(n) \ Use(n).alt)
      BY <1>6, <2>3 DEF Outcome
    <3>2. Merged(n, i, j, v)' BY <1>2, <3>1 DEF Merged
    <3> QED BY <1>3, <2>3, <3>2
  <2> QED BY <2>1, <2>2, <2>3
<1> QED BY <1>4, <1>5, <1>6 DEF WantedInv

-----------------------------------------------------------------------------
(* Weight variants. *)

LEMMA WeightQuiet ==
  ASSUME WeightInv, UNCHANGED <<cache, errors, validated, jobs>>,
         \A m \in NIFs, i \in Nat : WeightedAt(m, i)' <=> WeightedAt(m, i),
         \A m \in NIFs, i \in Nat : WeightedAt(m, i) => outputs'[m][i].mesh = outputs[m][i].mesh
  PROVE  WeightInv'
<1>1. \A m \in NIFs : OtherVariant[m] \in NIFs
  BY PermutationsAssumption DEF PermutationsAssumption
<1>2. ASSUME NEW m \in NIFs, NEW i \in Nat, WeightedAt(m, i)'
      PROVE  Cached(m, i)' \/ Paired(m, i)' \/ errors' # {}
  <2>1. WeightedAt(m, i) BY <1>2
  <2>2. Cached(m, i) \/ Paired(m, i) \/ errors # {} BY <2>1 DEF WeightInv
  <2>3. CASE Cached(m, i) BY <2>3 DEF Cached
  <2>4. CASE Paired(m, i)
    <3>1. WeightedAt(OtherVariant[m], i) BY <2>4 DEF Paired
    <3> QED BY <1>1, <2>1, <2>4, <3>1 DEF Paired
  <2> QED BY <2>2, <2>3, <2>4
<1>3. ASSUME NEW m \in NIFs, NEW i \in Nat, Cached(m, i)'
      PROVE  WeightedAt(m, i)' /\ cache'[<<m, i - 1>>] = outputs'[m][i].mesh
  BY <1>3 DEF Cached, WeightInv
<1>4. validated' => DOMAIN cache' = {} /\ \A n \in NIFs : jobs'[n] # "running"
  BY DEF WeightInv
<1> QED BY <1>2, <1>3, <1>4 DEF WeightInv

\* A new weighted output takes its counterpart out of the cache, or waits there.
LEMMA WeightAdd ==
  ASSUME Typed, WeightInv, NEW n \in NIFs, NEW mesh, NEW l \in Nat,
         l = Len(outputs[n]) + 1, ~ validated, ~ validated',
         processWeightVariant(n, Len(outputs[n]), mesh),
         \A m \in NIFs, i \in Nat : WeightedAt(m, i)' <=> WeightedAt(m, i) \/ (m = n /\ i = l),
         \A m \in NIFs, i \in Nat : WeightedAt(m, i) => outputs'[m][i].mesh = outputs[m][i].mesh,
         outputs'[n][l].mesh = mesh
  PROVE  WeightInv'
<1>1. PICK o : o = OtherVariant[n] OBVIOUS
<1>2. /\ o \in NIFs /\ OtherVariant[o] = n
      /\ \A m \in NIFs : OtherVariant[m] \in NIFs
      /\ \A m \in NIFs : OtherVariant[m] = n => m = o
  BY <1>1, PermutationsAssumption DEF PermutationsAssumption
<1>3. /\ Len(outputs[n]) = l - 1 /\ ~ WeightedAt(n, l)
  BY OutputsTyped DEF WeightedAt
<1>4. CASE Cached(o, l)
  <2>1. WeightedAt(o, l) /\ cache[<<o, l - 1>>] = outputs[o][l].mesh
    BY <1>2, <1>4 DEF WeightInv
  <2>2. /\ cache' = [c \in DOMAIN cache \ {<<o, l - 1>>} |-> cache[c]]
        /\ errors' = IF Len(mesh) = Len(cache[<<o, l - 1>>]) THEN errors
                     ELSE errors \cup {<<"doNotMatch", n>>}
    BY <1>1, <1>3, <1>4 DEF processWeightVariant, Cached
  <2>3. /\ \A m \in NIFs, i \in Nat : Cached(m, i)' <=> Cached(m, i) /\ ~ (m = o /\ i = l)
        /\ \A m \in NIFs, i \in Nat : Cached(m, i)' => cache'[<<m, i - 1>>] = cache[<<m, i - 1>>]
    BY <2>2 DEF Cached
  <2>4. (errors # {} => errors' # {}) /\ (errors' # {} \/ Len(mesh) = Len(outputs[o][l].mesh))
    BY <2>1, <2>2
  <2>5. WeightedAt(o, l)' /\ WeightedAt(n, l)' /\ outputs'[o][l].mesh = outputs[o][l].mesh
    BY <1>2, <2>1
  <2>6. ASSUME NEW m \in NIFs, NEW i \in Nat, WeightedAt(m, i)'
        PROVE  Cached(m, i)' \/ Paired(m, i)' \/ errors' # {}
    <3>1. CASE m = n /\ i = l BY <1>1, <2>4, <2>5, <3>1 DEF Paired
    <3>2. CASE m = o /\ i = l BY <1>2, <2>4, <2>5, <3>2 DEF Paired
    <3>3. CASE ~ (m = n /\ i = l) /\ ~ (m = o /\ i = l)
      <4>1. WeightedAt(m, i) BY <2>6, <3>3
      <4>2. Cached(m, i) \/ Paired(m, i) \/ errors # {} BY <4>1 DEF WeightInv
      <4>3. CASE Cached(m, i) BY <2>3, <3>3, <4>3
      <4>4. CASE Paired(m, i)
        <5>1. WeightedAt(OtherVariant[m], i) BY <4>4 DEF Paired
        <5> QED BY <1>2, <4>1, <4>4, <5>1 DEF Paired
      <4> QED BY <2>4, <4>2, <4>3, <4>4
    <3> QED BY <3>1, <3>2, <3>3
  <2>7. ASSUME NEW m \in NIFs, NEW i \in Nat, Cached(m, i)'
        PROVE  WeightedAt(m, i)' /\ cache'[<<m, i - 1>>] = outputs'[m][i].mesh
    BY <2>3, <2>7 DEF WeightInv
  <2> QED BY <2>6, <2>7 DEF WeightInv
<1>5. CASE ~ Cached(o, l)
  <2>1. /\ cache' = [c \in DOMAIN cache \cup {<<n, l - 1>>} |->
                      IF c = <<n, l - 1>> THEN mesh ELSE cache[c]]
        /\ errors' = errors
    BY <1>1, <1>3, <1>5 DEF processWeightVariant, Cached
  <2>2. /\ \A m \in NIFs, i \in Nat : Cached(m, i)' <=> Cached(m, i) \/ (m = n /\ i = l)
        /\ cache'[<<n, l - 1>>] = mesh
        /\ \A m \in NIFs, i \in Nat : Cached(m, i) /\ ~ (m = n /\ i = l)
              => cache'[<<m, i - 1>>] = cache[<<m, i - 1>>]
    BY <2>1 DEF Cached
  <2>3. ASSUME NEW m \in NIFs, NEW i \in Nat, WeightedAt(m, i)'
        PROVE  Cached(m, i)' \/ Paired(m, i)' \/ errors' # {}
    <3>1. CASE m = n /\ i = l BY <2>2, <3>1
    <3>2. CASE ~ (m = n /\ i = l)
      <4>1. WeightedAt(m, i) BY <2>3, <3>2
      <4>2. Cached(m, i) \/ Paired(m, i) \/ errors # {} BY <4>1 DEF WeightInv
      <4>3. CASE Paired(m, i)
        <5>1. WeightedAt(OtherVariant[m], i) BY <4>3 DEF Paired
        <5> QED BY <1>2, <4>1, <4>3, <5>1 DEF Paired
      <4> QED BY <2>1, <2>2, <4>2, <4>3
    <3> QED BY <3>1, <3>2
  <2>4. ASSUME NEW m \in NIFs, NEW i \in Nat, Cached(m, i)'
        PROVE  WeightedAt(m, i)' /\ cache'[<<m, i - 1>>] = outputs'[m][i].mesh
    BY <2>2, <2>4 DEF WeightInv
  <2> QED BY <2>3, <2>4 DEF WeightInv
<1> QED BY <1>4, <1>5

LEMMA WeightCommit ==
  ASSUME Typed, WeightInv, NEW n \in NIFs, NEW mesh \in MeshesOf(n), NEW alt \in AltsOf(n),
         Committed(n, mesh, alt), Placed(n, mesh, alt)
  PROVE  WeightInv'
<1>1. /\ Use(n).key \in Keys /\ Use(n).weighted \in BOOLEAN /\ alt \in Alts
      /\ jobs[n] = "running" /\ UNCHANGED <<jobs, validated>>
  BY UseTyped DEF Committed, Working, Alts
<1>2. /\ Len(outputs[n]) \in Nat /\ DOMAIN outputs[n] = 1..Len(outputs[n])
  BY OutputsTyped
<1>3. CASE Drop(n)
  <2>1. UNCHANGED <<outputs, cache, errors>> BY <1>3 DEF Drop
  <2> QED BY <1>1, <2>1, WeightQuiet DEF WeightedAt
<1>4. ASSUME NEW k, Merge(n, k, mesh, alt) PROVE WeightInv'
  <2>1. UNCHANGED <<cache, errors>> BY <1>4 DEF Merge
  <2>2. /\ \A m \in NIFs : DOMAIN outputs'[m] = DOMAIN outputs[m]
        /\ \A m \in NIFs : m # n => outputs'[m] = outputs[m]
        /\ \A i \in DOMAIN outputs[n] : /\ outputs'[n][i].mesh = outputs[n][i].mesh
                                        /\ outputs'[n][i].weighted = outputs[n][i].weighted
    BY <1>1, <1>4, MergeEffect
  <2>3. \A m \in NIFs, i \in Nat : WeightedAt(m, i)' <=> WeightedAt(m, i)
    BY <2>2 DEF WeightedAt
  <2>4. \A m \in NIFs, i \in Nat : WeightedAt(m, i) => outputs'[m][i].mesh = outputs[m][i].mesh
    BY <2>2 DEF WeightedAt
  <2> QED BY <1>1, <2>1, <2>3, <2>4, WeightQuiet
<1>5. CASE Add(n, mesh, alt)
  <2>1. PICK l \in Nat : l = Len(outputs[n]) + 1 BY <1>2
  <2>2. /\ DOMAIN outputs'[n] = 1..l
        /\ \A m \in NIFs : m # n => outputs'[m] = outputs[m]
        /\ \A i \in DOMAIN outputs[n] : outputs'[n][i] = outputs[n][i]
        /\ outputs'[n][l].mesh = mesh /\ outputs'[n][l].weighted = Use(n).weighted
    <3>1. /\ DOMAIN outputs'[n] = 1..(Len(outputs[n]) + 1)
          /\ \A m \in NIFs : m # n => outputs'[m] = outputs[m]
          /\ \A i \in DOMAIN outputs[n] : outputs'[n][i] = outputs[n][i]
          /\ outputs'[n][Len(outputs[n]) + 1] = NewOutput(n, mesh, alt)
      BY <1>1, <1>5, AddEffect
    <3> QED BY <2>1, <3>1 DEF NewOutput
  <2>3. \A m \in NIFs, i \in Nat :
          WeightedAt(m, i)' <=> WeightedAt(m, i) \/ (m = n /\ i = l /\ Use(n).weighted)
    <3>1. \A i : i \in DOMAIN outputs'[n] <=> i \in DOMAIN outputs[n] \/ i = l
      BY <1>2, <2>1, <2>2
    <3>2. l \notin DOMAIN outputs[n] BY <1>2, <2>1
    <3> QED BY <2>2, <3>1, <3>2 DEF WeightedAt
  <2>4. \A m \in NIFs, i \in Nat : WeightedAt(m, i) => outputs'[m][i].mesh = outputs[m][i].mesh
    BY <2>2 DEF WeightedAt
  <2>5. CASE Use(n).weighted
    <3>1. processWeightVariant(n, Len(outputs[n]), mesh) BY <1>5, <2>5 DEF Add
    <3>2. ~ validated BY <1>1 DEF WeightInv
    <3> QED BY <1>1, <2>1, <2>2, <2>3, <2>4, <2>5, <3>1, <3>2, WeightAdd
  <2>6. CASE ~ Use(n).weighted
    <3>1. UNCHANGED <<cache, errors>> BY <1>5, <2>6 DEF Add
    <3> QED BY <1>1, <2>3, <2>4, <2>6, <3>1, WeightQuiet
  <2> QED BY <2>5, <2>6
<1> QED BY <1>3, <1>4, <1>5 DEF Placed

-----------------------------------------------------------------------------
(* What is saved. *)

\* What is saved stays, and what it was saved from.
LEMMA SavedOther ==
  ASSUME SavedInv, UNCHANGED <<uses, saved, modelUses>>,
         \A m \in NIFs : jobs[m] = "saved" <=> jobs'[m] = "saved",
         \A m \in NIFs : jobs[m] = "saved" =>
           /\ next'[m] = next[m]
           /\ outputs'[m] = outputs[m] /\ ignoreBase'[m] = ignoreBase[m]
  PROVE  SavedInv'
<1>1. ASSUME NEW m \in NIFs, jobs'[m] # "saved" PROVE saved'[m] = <<>>
  BY <1>1 DEF SavedInv
<1>2. ASSUME NEW m \in NIFs, jobs'[m] = "saved"
      PROVE  /\ next'[m] > Len(uses'[m])
             /\ Len(saved'[m]) = Len(outputs'[m]) /\ DOMAIN saved'[m] = DOMAIN outputs'[m]
             /\ \A i \in DOMAIN outputs'[m] : SavedFrom(m, i)'
             /\ \A i \in DOMAIN outputs'[m] : \A j \in DOMAIN Results(m, i)' :
                  \E u \in modelUses' : u.nif = m /\ u.key = Results(m, i)'[j][1]
  <2>1. /\ jobs[m] = "saved" /\ next'[m] = next[m]
        /\ outputs'[m] = outputs[m] /\ ignoreBase'[m] = ignoreBase[m]
    BY <1>2
  <2>2. /\ next[m] > Len(uses[m]) /\ Len(saved[m]) = Len(outputs[m])
        /\ DOMAIN saved[m] = DOMAIN outputs[m]
        /\ \A i \in DOMAIN outputs[m] : SavedFrom(m, i)
        /\ \A i \in DOMAIN outputs[m] : \A j \in DOMAIN Results(m, i) :
              \E u \in modelUses : u.nif = m /\ u.key = Results(m, i)[j][1]
    BY <2>1 DEF SavedInv
  <2>3. \A i \in DOMAIN outputs[m] : SavedFrom(m, i)'
    BY <2>1, <2>2 DEF SavedFrom, curIndex
  <2>4. \A i \in DOMAIN outputs[m] : Results(m, i)' = Results(m, i)
    BY <2>1 DEF Results
  <2> QED BY <2>1, <2>2, <2>3, <2>4
<1>3. ASSUME NEW u \in modelUses'
      PROVE  \E m \in NIFs :
               /\ jobs'[m] = "saved"
               /\ \E i \in DOMAIN outputs'[m] : \E j \in DOMAIN Results(m, i)' :
                    Redirects(u, m, i, j)'
  <2>1. PICK m \in NIFs :
               /\ jobs[m] = "saved"
               /\ \E i \in DOMAIN outputs[m] : \E j \in DOMAIN Results(m, i) : Redirects(u, m, i, j)
    BY <1>3 DEF SavedInv
  <2>2. jobs'[m] = "saved" /\ outputs'[m] = outputs[m] BY <2>1
  <2>3. PICK i \in DOMAIN outputs[m] : \E j \in DOMAIN Results(m, i) : Redirects(u, m, i, j)
    BY <2>1
  <2>3a. PICK j \in DOMAIN Results(m, i) : Redirects(u, m, i, j) BY <2>3
  <2>4. Results(m, i)' = Results(m, i) BY <2>2 DEF Results
  <2>5. Redirects(u, m, i, j)' BY <2>2, <2>3a, <2>4 DEF Redirects
  <2> QED BY <2>2, <2>3, <2>3a, <2>4, <2>5
<1> QED BY <1>1, <1>2, <1>3 DEF SavedInv

LEMMA SetModelUses ==
  ASSUME NEW n, NEW results
  PROVE  /\ \A u \in setModelUses(n, results) :
              \E i \in DOMAIN results : \E j \in DOMAIN results[i].results :
                /\ u.nif = n /\ u.key = results[i].results[j][1] /\ u.index = results[i].index
                /\ u.alt = AltAt(results[i].idx, results[i].results[j][2])
         /\ \A i \in DOMAIN results : \A j \in DOMAIN results[i].results :
              \E u \in setModelUses(n, results) :
                u.nif = n /\ u.key = results[i].results[j][1]
<1> DEFINE F(o, r) == [nif |-> n, key |-> r[1], index |-> o.index, alt |-> AltAt(o.idx, r[2])]
<1>1. setModelUses(n, results)
        = UNION {{F(o, r) : r \in ToSet(o.results)} : o \in ToSet(results)}
  BY DEF setModelUses, AltAt
<1>2. ToSet(results) = {results[i] : i \in DOMAIN results} BY DEF ToSet
<1>3. \A o : ToSet(o.results) = {o.results[j] : j \in DOMAIN o.results} BY DEF ToSet
<1>4. \A o, r : /\ F(o, r).nif = n /\ F(o, r).key = r[1] /\ F(o, r).index = o.index
               /\ F(o, r).alt = AltAt(o.idx, r[2])
  OBVIOUS
<1> HIDE DEF F
<1>5. ASSUME NEW u \in setModelUses(n, results)
      PROVE  \E i \in DOMAIN results : \E j \in DOMAIN results[i].results :
               /\ u.nif = n /\ u.key = results[i].results[j][1] /\ u.index = results[i].index
               /\ u.alt = AltAt(results[i].idx, results[i].results[j][2])
  <2>1. PICK o \in ToSet(results) : u \in {F(o, r) : r \in ToSet(o.results)} BY <1>1, <1>5
  <2>2. PICK r \in ToSet(o.results) : u = F(o, r) BY <2>1
  <2>3. PICK i \in DOMAIN results : o = results[i] BY <1>2, <2>1
  <2>4. PICK j \in DOMAIN o.results : r = o.results[j] BY <1>3, <2>2
  <2> QED BY <1>4, <2>2, <2>3, <2>4
<1>6. ASSUME NEW i \in DOMAIN results, NEW j \in DOMAIN results[i].results
      PROVE  \E u \in setModelUses(n, results) :
               u.nif = n /\ u.key = results[i].results[j][1]
  <2>1. results[i] \in ToSet(results) /\ results[i].results[j] \in ToSet(results[i].results)
    BY <1>2, <1>3
  <2>2. F(results[i], results[i].results[j]) \in setModelUses(n, results)
    BY <1>1, <2>1
  <2> QED BY <1>4, <2>2
<1> QED BY <1>5, <1>6

LEMMA SavedSave ==
  ASSUME Typed, SavedInv, NEW n \in NIFs, saveMeshes(n)
  PROVE  SavedInv'
<1>1. PICK sorted \in [DOMAIN outputs[n] ->
                         UNION {Sortings(outputs[n][i].mesh) : i \in DOMAIN outputs[n]}] :
        /\ \A i \in DOMAIN sorted : sorted[i] \in Sortings(outputs[n][i].mesh)
        /\ saved' = [saved EXCEPT ![n] =
                       [i \in DOMAIN outputs[n] |->
                          [index |-> curIndex(n, i), mesh |-> sorted[i],
                           idx |-> idxCorrections(n, outputs[n][i].mesh, sorted[i]),
                           results |-> outputs[n][i].results]]]
  BY DEF saveMeshes
<1>2. /\ UNCHANGED <<uses, next, outputs, ignoreBase>>
      /\ jobs[n] = "running" /\ next[n] > Len(uses[n])
      /\ jobs'[n] = "saved" /\ \A m \in NIFs : m # n => jobs'[m] = jobs[m]
      /\ modelUses' = modelUses \cup setModelUses(n, saved'[n])
  BY DEF saveMeshes, trackerVars, Typed
<1> DEFINE R(i) == [index |-> curIndex(n, i), mesh |-> sorted[i],
                    idx |-> idxCorrections(n, outputs[n][i].mesh, sorted[i]),
                    results |-> outputs[n][i].results]
<1>3. /\ \A m \in NIFs : m # n => saved'[m] = saved[m]
      /\ saved'[n] = [i \in DOMAIN outputs[n] |-> R(i)]
  BY <1>1 DEF Typed
<1>4. \A i : /\ R(i).index = curIndex(n, i) /\ R(i).mesh = sorted[i]
            /\ R(i).idx = idxCorrections(n, outputs[n][i].mesh, sorted[i])
            /\ R(i).results = outputs[n][i].results
  OBVIOUS
<1> HIDE DEF R
<1>5. /\ DOMAIN saved'[n] = DOMAIN outputs[n] /\ Len(saved'[n]) = Len(outputs[n])
      /\ \A i \in DOMAIN outputs[n] : saved'[n][i] = R(i)
  <2>1. PICK k \in Nat : k = Len(outputs[n]) /\ DOMAIN outputs[n] = 1..k BY OutputsTyped
  <2>2. saved'[n] \in [1..k -> {R(i) : i \in 1..k}] BY <1>3, <2>1
  <2>3. Len(saved'[n]) = k BY <2>2
  <2> QED BY <1>3, <2>1, <2>3
<1>6. /\ \A i \in DOMAIN outputs[n] : saved'[n][i].results = Results(n, i)
      /\ \A i \in DOMAIN outputs[n] : SavedFrom(n, i)'
  <2> SUFFICES ASSUME NEW i \in DOMAIN outputs[n]
               PROVE  saved'[n][i].results = Results(n, i) /\ SavedFrom(n, i)'
    OBVIOUS
  <2>1. /\ saved'[n][i].index = curIndex(n, i) /\ saved'[n][i].mesh = sorted[i]
        /\ saved'[n][i].idx = idxCorrections(n, outputs[n][i].mesh, sorted[i])
        /\ saved'[n][i].results = Results(n, i)
    BY <1>4, <1>5 DEF Results
  <2>2. curIndex(n, i)' = curIndex(n, i) BY <1>2 DEF curIndex
  <2>3. sorted[i] \in Sortings(outputs[n][i].mesh) BY <1>1
  <2> QED BY <1>2, <2>1, <2>2, <2>3 DEF SavedFrom
<1>7. \A m \in NIFs : \A i : Results(m, i)' = Results(m, i) BY <1>2 DEF Results
<1>8. ASSUME NEW m \in NIFs, jobs'[m] # "saved" PROVE saved'[m] = <<>>
  BY <1>2, <1>3, <1>8 DEF SavedInv
<1>9. ASSUME NEW m \in NIFs, jobs'[m] = "saved"
      PROVE  /\ next'[m] > Len(uses'[m])
             /\ Len(saved'[m]) = Len(outputs'[m]) /\ DOMAIN saved'[m] = DOMAIN outputs'[m]
             /\ \A i \in DOMAIN outputs'[m] : SavedFrom(m, i)'
             /\ \A i \in DOMAIN outputs'[m] : \A j \in DOMAIN Results(m, i)' :
                  \E u \in modelUses' : u.nif = m /\ u.key = Results(m, i)'[j][1]
  <2>1. CASE m = n
    <3>1. \A i \in DOMAIN outputs[n] : \A j \in DOMAIN Results(n, i) :
            \E u \in modelUses' : u.nif = n /\ u.key = Results(n, i)[j][1]
      <4> SUFFICES ASSUME NEW i \in DOMAIN outputs[n], NEW j \in DOMAIN Results(n, i)
                   PROVE  \E u \in modelUses' : u.nif = n /\ u.key = Results(n, i)[j][1]
        OBVIOUS
      <4>1. i \in DOMAIN saved'[n] /\ saved'[n][i].results = Results(n, i)
        BY <1>5, <1>6
      <4>2. PICK u \in setModelUses(n, saved'[n]) :
              u.nif = n /\ u.key = saved'[n][i].results[j][1]
        BY <4>1, SetModelUses
      <4> QED BY <1>2, <4>1, <4>2
    <3> QED BY <1>2, <1>5, <1>6, <1>7, <2>1, <3>1
  <2>2. CASE m # n
    <3>1. jobs[m] = "saved" /\ saved'[m] = saved[m] BY <1>2, <1>3, <1>9, <2>2
    <3>2. /\ next[m] > Len(uses[m]) /\ Len(saved[m]) = Len(outputs[m])
          /\ DOMAIN saved[m] = DOMAIN outputs[m]
          /\ \A i \in DOMAIN outputs[m] : SavedFrom(m, i)
          /\ \A i \in DOMAIN outputs[m] : \A j \in DOMAIN Results(m, i) :
                \E u \in modelUses : u.nif = m /\ u.key = Results(m, i)[j][1]
      BY <3>1 DEF SavedInv
    <3>3. \A i \in DOMAIN outputs[m] : SavedFrom(m, i)'
      BY <1>2, <3>1, <3>2 DEF SavedFrom, curIndex
    <3> QED BY <1>2, <1>7, <3>1, <3>2, <3>3
  <2> QED BY <2>1, <2>2
<1>10. ASSUME NEW u \in modelUses'
       PROVE  \E m \in NIFs :
                /\ jobs'[m] = "saved"
                /\ \E i \in DOMAIN outputs'[m] : \E j \in DOMAIN Results(m, i)' :
                     Redirects(u, m, i, j)'
  <2>1. CASE u \in modelUses
    <3>1. PICK m \in NIFs :
                /\ jobs[m] = "saved"
                /\ \E i \in DOMAIN outputs[m] : \E j \in DOMAIN Results(m, i) : Redirects(u, m, i, j)
      BY <2>1 DEF SavedInv
    <3>2. m # n /\ jobs'[m] = "saved" /\ saved'[m] = saved[m] BY <1>2, <1>3, <3>1
    <3>3. PICK i \in DOMAIN outputs[m] : \E j \in DOMAIN Results(m, i) : Redirects(u, m, i, j)
      BY <3>1
    <3>3a. PICK j \in DOMAIN Results(m, i) : Redirects(u, m, i, j) BY <3>3
    <3>4. Redirects(u, m, i, j)' BY <1>7, <3>2, <3>3a DEF Redirects
    <3> QED BY <1>2, <1>7, <3>2, <3>3, <3>3a, <3>4
  <2>2. CASE u \in setModelUses(n, saved'[n])
    <3>0. PICK i \in DOMAIN saved'[n] :
            \E j \in DOMAIN saved'[n][i].results :
              /\ u.nif = n /\ u.key = saved'[n][i].results[j][1] /\ u.index = saved'[n][i].index
              /\ u.alt = AltAt(saved'[n][i].idx, saved'[n][i].results[j][2])
      BY <2>2, SetModelUses
    <3>1. PICK j \in DOMAIN saved'[n][i].results :
            /\ u.nif = n /\ u.key = saved'[n][i].results[j][1] /\ u.index = saved'[n][i].index
            /\ u.alt = AltAt(saved'[n][i].idx, saved'[n][i].results[j][2])
      BY <3>0
    <3>2. i \in DOMAIN outputs[n] /\ saved'[n][i].results = Results(n, i)
      BY <1>5, <1>6
    <3>3. Redirects(u, n, i, j)' BY <1>7, <3>1, <3>2 DEF Redirects
    <3> QED BY <1>2, <1>7, <3>1, <3>2, <3>3
  <2> QED BY <1>2, <1>10, <2>1, <2>2
<1> QED BY <1>8, <1>9, <1>10 DEF SavedInv

-----------------------------------------------------------------------------
(* The invariant holds. *)

LEMMA InvInit == Init => IInv
<1> SUFFICES ASSUME Init PROVE IInv OBVIOUS
<1>1. /\ \A n \in NIFs : /\ next[n] = 1 /\ jobs[n] = "running" /\ outputs[n] = <<>>
                         /\ processed[n] = {} /\ saved[n] = <<>>
      /\ wanted = {} /\ modelUses = {} /\ ~ validated /\ DOMAIN cache = {}
  BY DEF Init, NoCache
<1>2. Typed BY TypedInit
<1>3. UsesInv
  <2>1. IsFiniteSet({}) /\ Cardinality({}) = 0 BY FS_EmptySet
  <2>2. Len(<<>>) = 0 /\ 1..(1 - 1) = {} OBVIOUS
  <2> SUFFICES ASSUME NEW n \in NIFs
               PROVE  /\ IsFiniteSet(processed[n]) /\ Len(outputs[n]) <= Cardinality(processed[n])
                      /\ 1..(next[n] - 1) = {} /\ processed[n] = {}
    BY DEF UsesInv
  <2>3. /\ next[n] = 1 /\ outputs[n] = <<>> /\ processed[n] = {} BY <1>1
  <2>4. Len(outputs[n]) = 0 /\ Cardinality(processed[n]) = 0 BY <2>1, <2>2, <2>3
  <2> QED BY <2>1, <2>2, <2>3, <2>4
<1>4. \A n \in NIFs : DOMAIN outputs[n] = {}
  <2>1. DOMAIN <<>> = {} OBVIOUS
  <2> QED BY <1>1, <2>1
<1>5. NoTwinOutputs /\ WantedInv /\ SavedInv
  BY <1>1, <1>4 DEF NoTwinOutputs, WantedInv, SavedInv
<1>6. WeightInv
  BY <1>1, <1>4 DEF WeightInv, WeightedAt, Cached
<1> QED BY <1>2, <1>3, <1>5, <1>6 DEF IInv

\* A step that places no use.
LEMMA QuietStep ==
  ASSUME IInv, UNCHANGED <<uses, outputs, processed, wanted>>,
         \A m \in NIFs : ignoreBase[m] => ignoreBase'[m],
         \A m \in NIFs : next[m] \in Nat,
         \A m \in NIFs : \/ next'[m] = next[m]
                        \/ /\ next'[m] = next[m] + 1
                           /\ uses[m][next[m]].ignored => ignoreBase'[m]
                           /\ ~ uses[m][next[m]].ignored =>
                                uses[m][next[m]].key \in processed[m]
  PROVE  UsesInv' /\ NoTwinOutputs' /\ WantedInv'
<1>1. NoTwinOutputs' BY DEF IInv, NoTwinOutputs
<1>2. WantedInv'
  <2>1. \A n \in NIFs : \A i, j, w : Merged(n, i, j, w)' <=> Merged(n, i, j, w)
    BY DEF Merged, Results
  <2>2. \A n \in NIFs : \A i : Results(n, i)' = Results(n, i) BY DEF Results
  <2> QED BY <2>1, <2>2 DEF IInv, WantedInv
<1>3. UsesInv'
  <2>1. \A n \in NIFs : \A i, key : HasKey(n, i, key)' <=> HasKey(n, i, key)
    BY DEF HasKey, Results
  <2>2. ASSUME NEW n \in NIFs
        PROVE  \A i \in 1..(next'[n] - 1) :
                 /\ uses'[n][i].ignored => ignoreBase'[n]
                 /\ ~ uses'[n][i].ignored => uses'[n][i].key \in processed'[n]
    <3> SUFFICES ASSUME NEW i \in 1..(next'[n] - 1)
                 PROVE  /\ uses'[n][i].ignored => ignoreBase'[n]
                        /\ ~ uses'[n][i].ignored => uses'[n][i].key \in processed'[n]
      OBVIOUS
    <3>1. CASE i \in 1..(next[n] - 1) BY <3>1 DEF IInv, UsesInv
    <3>2. CASE i \notin 1..(next[n] - 1)
      <4>1. i = next[n] /\ next'[n] = next[n] + 1 BY <3>2
      <4> QED BY <4>1
    <3> QED BY <3>1, <3>2
  <2> QED BY <2>1, <2>2 DEF IInv, UsesInv
<1> QED BY <1>1, <1>2, <1>3

LEMMA InvStep ==
  ASSUME IInv, [Next]_vars
  PROVE  IInv'
<1>1. Typed' BY TypedStep DEF IInv
<1>2. \A m \in NIFs : next[m] \in Nat BY DEF IInv, Typed
<1>3. ASSUME NEW n \in NIFs, IgnoreUse(n) PROVE IInv'
  <2>1. /\ next'[n] = next[n] + 1 /\ \A m \in NIFs : m # n => next'[m] = next[m]
        /\ ignoreBase'[n] = TRUE /\ \A m \in NIFs : m # n => ignoreBase'[m] = ignoreBase[m]
        /\ uses[n][next[n]].ignored /\ jobs[n] = "running"
        /\ UNCHANGED <<uses, jobs, outputs, processed, wanted, cache, errors, validated,
                       saved, modelUses>>
    BY <1>3 DEF IgnoreUse, NextUse, weightVars, Use, Working, IInv, Typed
  <2>2. UsesInv' /\ NoTwinOutputs' /\ WantedInv' BY <1>2, <2>1, QuietStep
  <2>3. SavedInv' BY <2>1, SavedOther DEF IInv
  <2>4. WeightInv' BY <2>1, WeightQuiet DEF IInv, WeightedAt
  <2> QED BY <1>1, <2>2, <2>3, <2>4 DEF IInv
<1>4. ASSUME NEW n \in NIFs, UseFails(n) PROVE IInv'
  <2>1. /\ jobs[n] = "running" /\ jobs'[n] = "failed"
        /\ \A m \in NIFs : m # n => jobs'[m] = jobs[m]
        /\ UNCHANGED <<uses, next, outputs, processed, ignoreBase, wanted, cache, errors,
                       validated, saved, modelUses>>
    BY <1>4 DEF UseFails, trackerVars, weightVars, Working, IInv, Typed
  <2>2. UsesInv' /\ NoTwinOutputs' /\ WantedInv' BY <1>2, <2>1, QuietStep
  <2>3. SavedInv' BY <2>1, SavedOther DEF IInv
  <2>4. WeightInv'
    <3>1. \A m \in NIFs, i \in Nat : /\ WeightedAt(m, i)' <=> WeightedAt(m, i)
                                     /\ Cached(m, i)' <=> Cached(m, i)
                                     /\ Paired(m, i)' <=> Paired(m, i)
      BY <2>1 DEF WeightedAt, Cached, Paired
    <3> QED BY <2>1, <3>1 DEF IInv, WeightInv
  <2> QED BY <1>1, <2>2, <2>3, <2>4 DEF IInv
<1>5. ASSUME NEW n \in NIFs, RepeatedUse(n) PROVE IInv'
  <2>1. /\ next'[n] = next[n] + 1 /\ \A m \in NIFs : m # n => next'[m] = next[m]
        /\ ~ uses[n][next[n]].ignored /\ uses[n][next[n]].key \in processed[n]
        /\ jobs[n] = "running"
        /\ UNCHANGED <<uses, jobs, outputs, processed, ignoreBase, wanted, cache, errors,
                       validated, saved, modelUses>>
    BY <1>5 DEF RepeatedUse, NextUse, trackerVars, weightVars, Use, Working, IInv, Typed
  <2>2. UsesInv' /\ NoTwinOutputs' /\ WantedInv' BY <1>2, <2>1, QuietStep
  <2>3. SavedInv' BY <2>1, SavedOther DEF IInv
  <2>4. WeightInv' BY <2>1, WeightQuiet DEF IInv, WeightedAt
  <2> QED BY <1>1, <2>2, <2>3, <2>4 DEF IInv
<1>6. ASSUME NEW n \in NIFs, commitMesh(n) PROVE IInv'
  <2> USE DEF IInv
  <2>1. PICK mesh \in MeshesOf(n), alt \in AltsOf(n) :
           /\ Committed(n, mesh, alt) /\ Placed(n, mesh, alt) /\ Outcome(n, mesh, alt)
           /\ DOMAIN alt = Use(n).alt
    BY <1>6, CommitOutcome
  <2>2. UsesInv' BY <2>1, UsesCommit
  <2>3. NoTwinOutputs' BY <2>1, TwinsCommit
  <2>4. WantedInv' BY <2>1, WantedCommit
  <2>5. WeightInv' BY <2>1, WeightCommit
  <2>6. SavedInv'
    <3>1. /\ jobs[n] = "running" /\ UNCHANGED <<uses, jobs, saved, modelUses>>
          /\ \A m \in NIFs : m # n => next'[m] = next[m]
      BY <2>1 DEF Committed, Working, Typed
    <3>2. \A m \in NIFs : m # n => outputs'[m] = outputs[m] /\ ignoreBase'[m] = ignoreBase[m]
      BY <2>1 DEF Outcome
    <3> QED BY <3>1, <3>2, SavedOther
  <2> QED BY <1>1, <2>2, <2>3, <2>4, <2>5, <2>6
<1>7. ASSUME NEW n \in NIFs, saveMeshes(n) PROVE IInv'
  <2>1. /\ jobs[n] = "running" /\ jobs'[n] = "saved"
        /\ \A m \in NIFs : m # n => jobs'[m] = jobs[m]
        /\ UNCHANGED <<uses, next, outputs, processed, ignoreBase, wanted, cache, errors,
                       validated>>
    BY <1>7 DEF saveMeshes, trackerVars, weightVars, IInv, Typed
  <2>2. UsesInv' /\ NoTwinOutputs' /\ WantedInv' BY <1>2, <2>1, QuietStep
  <2>3. SavedInv' BY <1>7, SavedSave DEF IInv
  <2>4. WeightInv'
    <3>1. \A m \in NIFs, i \in Nat : /\ WeightedAt(m, i)' <=> WeightedAt(m, i)
                                     /\ Cached(m, i)' <=> Cached(m, i)
                                     /\ Paired(m, i)' <=> Paired(m, i)
      BY <2>1 DEF WeightedAt, Cached, Paired
    <3> QED BY <2>1, <3>1 DEF IInv, WeightInv
  <2> QED BY <1>1, <2>2, <2>3, <2>4 DEF IInv
<1>8. CASE validateWeightedVariants
  <2>1. /\ \A m \in NIFs : jobs[m] # "running"
        /\ DOMAIN cache' = {}
        /\ errors' = errors \cup {<<"notCreated", c[1]>> : c \in DOMAIN cache}
        /\ UNCHANGED <<uses, next, jobs, outputs, processed, ignoreBase, wanted, saved, modelUses>>
    BY <1>8 DEF validateWeightedVariants, trackerVars, NoCache
  <2>2. UsesInv' /\ NoTwinOutputs' /\ WantedInv' BY <1>2, <2>1, QuietStep
  <2>3. SavedInv' BY <2>1, SavedOther DEF IInv
  <2>4. WeightInv'
    <3>1. \A m \in NIFs, i \in Nat : /\ WeightedAt(m, i)' <=> WeightedAt(m, i)
                                     /\ ~ Cached(m, i)'
                                     /\ Paired(m, i)' <=> Paired(m, i)
                                     /\ Cached(m, i) => errors' # {}
      BY <2>1 DEF WeightedAt, Cached, Paired
    <3>2. errors # {} => errors' # {} BY <2>1
    <3>3. \A m \in NIFs : jobs'[m] # "running" BY <2>1
    <3>4. \A m \in NIFs, i \in Nat :
            WeightedAt(m, i) => Cached(m, i) \/ Paired(m, i) \/ errors # {}
      BY DEF IInv, WeightInv
    <3>5. \A m \in NIFs, i \in Nat :
            WeightedAt(m, i)' => Cached(m, i)' \/ Paired(m, i)' \/ errors' # {}
      BY <3>1, <3>2, <3>4
    <3> QED BY <2>1, <3>1, <3>3, <3>5 DEF WeightInv
  <2> QED BY <1>1, <2>2, <2>3, <2>4 DEF IInv
<1>9. CASE UNCHANGED vars
  <2>1. UNCHANGED <<uses, next, jobs, outputs, processed, ignoreBase, wanted, cache, errors,
                    validated, saved, modelUses>>
    BY <1>9 DEF vars, trackerVars, weightVars
  <2>2. UsesInv' /\ NoTwinOutputs' /\ WantedInv' BY <1>2, <2>1, QuietStep
  <2>3. SavedInv' BY <2>1, SavedOther DEF IInv
  <2>4. WeightInv' BY <2>1, WeightQuiet DEF IInv, WeightedAt
  <2> QED BY <1>1, <2>2, <2>3, <2>4 DEF IInv
<1> QED BY <1>3, <1>4, <1>5, <1>6, <1>7, <1>8, <1>9 DEF Next, patchNIF

LEMMA InvariantHolds == Spec => []IInv
<1>1. Init => IInv BY InvInit
<1>2. IInv /\ [Next]_vars => IInv' BY InvStep
<1> QED BY <1>1, <1>2, PTL DEF Spec

-----------------------------------------------------------------------------
(* A mesh once it is sorted and saved. *)

\* PrettySortBlocks loses no shape and doubles none.
LEMMA SortedMesh ==
  ASSUME NEW n \in NIFs, NEW mesh \in MeshesOf(n), NEW srt \in Sortings(mesh)
  PROVE  /\ Len(mesh) \in Nat /\ DOMAIN mesh = 1..Len(mesh) /\ DOMAIN srt = DOMAIN mesh
         /\ \A i \in DOMAIN srt : \E j \in DOMAIN mesh : srt[i] = mesh[j]
         /\ \A j \in DOMAIN mesh : \E i \in DOMAIN srt : srt[i] = mesh[j]
         /\ \A i, j \in DOMAIN srt : srt[i].shape = srt[j].shape => i = j
<1>1. /\ mesh \in Seq(ShapeRec) /\ \A i, j \in DOMAIN mesh : i < j => mesh[i].shape < mesh[j].shape
      /\ \A i \in DOMAIN mesh : mesh[i].shape \in Places(n)
  BY DEF MeshesOf
<1>2. Len(mesh) \in Nat /\ DOMAIN mesh = 1..Len(mesh) BY <1>1
<1>3. PICK f \in [DOMAIN mesh -> DOMAIN mesh] :
        IsInjective(f) /\ srt = [i \in DOMAIN mesh |-> mesh[f[i]]]
  BY DEF Sortings
<1>4. \A j \in DOMAIN mesh : \E i \in DOMAIN mesh : f[i] = j
  <2>1. f \in Injection(DOMAIN mesh, DOMAIN mesh) BY <1>3 DEF Injection
  <2>2. IsFiniteSet(DOMAIN mesh) BY <1>2, FS_Interval
  <2>3. f \in Surjection(DOMAIN mesh, DOMAIN mesh) BY <2>1, <2>2, FS_Injection
  <2> QED BY <2>3 DEF Surjection
<1>5. DOMAIN srt = DOMAIN mesh /\ \A i \in DOMAIN mesh : srt[i] = mesh[f[i]] BY <1>3
<1>6. \A i, j \in DOMAIN mesh : mesh[i].shape = mesh[j].shape => i = j
  <2> SUFFICES ASSUME NEW i \in DOMAIN mesh, NEW j \in DOMAIN mesh, i # j
               PROVE  mesh[i].shape # mesh[j].shape
    OBVIOUS
  <2>1. i < j \/ j < i BY <1>2
  <2>2. mesh[i].shape \in Nat /\ mesh[j].shape \in Nat
    BY <1>1, PermutationsAssumption DEF Places, PermutationsAssumption
  <2> QED BY <1>1, <2>1, <2>2
<1>7. \A i, j \in DOMAIN srt : srt[i].shape = srt[j].shape => i = j
  BY <1>3, <1>5, <1>6 DEF IsInjective
<1> QED BY <1>2, <1>3, <1>4, <1>5, <1>7

LEMMA Corrected ==
  ASSUME NEW n \in NIFs, NEW mesh \in MeshesOf(n), NEW srt \in Sortings(mesh), NEW idx,
         idx = idxCorrections(n, mesh, srt)
  PROVE  /\ DOMAIN idx = Places(n)
         /\ \A s \in Places(n) : idx[s] # Removed => idx[s] \in DOMAIN srt /\ srt[idx[s]].shape = s
         /\ \A i \in DOMAIN srt : srt[i].shape \in Places(n) /\ idx[srt[i].shape] = i
<1>1. /\ DOMAIN srt = DOMAIN mesh
      /\ \A i \in DOMAIN srt : \E j \in DOMAIN mesh : srt[i] = mesh[j]
      /\ \A j \in DOMAIN mesh : \E i \in DOMAIN srt : srt[i] = mesh[j]
      /\ \A i, j \in DOMAIN srt : srt[i].shape = srt[j].shape => i = j
  BY SortedMesh
<1>2. \A i \in DOMAIN mesh : mesh[i].shape \in Places(n) BY DEF MeshesOf
<1> DEFINE At(s) == CHOOSE i \in DOMAIN srt : srt[i].shape = s
<1>3. /\ DOMAIN idx = Places(n)
      /\ \A s \in Places(n) :
           idx[s] = IF \E i \in DOMAIN mesh : mesh[i].shape = s THEN At(s) ELSE Removed
  BY DEF idxCorrections
<1>4. \A s : (\E i \in DOMAIN srt : srt[i].shape = s) => At(s) \in DOMAIN srt /\ srt[At(s)].shape = s
  OBVIOUS
<1> HIDE DEF At
<1>5. \A s : (\E i \in DOMAIN mesh : mesh[i].shape = s) => \E i \in DOMAIN srt : srt[i].shape = s
  BY <1>1
<1>6. \A s \in Places(n) : idx[s] # Removed => idx[s] \in DOMAIN srt /\ srt[idx[s]].shape = s
  <2> SUFFICES ASSUME NEW s \in Places(n), idx[s] # Removed
               PROVE  idx[s] \in DOMAIN srt /\ srt[idx[s]].shape = s
    OBVIOUS
  <2>1. (\E i \in DOMAIN mesh : mesh[i].shape = s) /\ idx[s] = At(s) BY <1>3
  <2>2. At(s) \in DOMAIN srt /\ srt[At(s)].shape = s BY <1>4, <1>5, <2>1
  <2> QED BY <2>1, <2>2
<1>7. ASSUME NEW i \in DOMAIN srt
      PROVE  srt[i].shape \in Places(n) /\ idx[srt[i].shape] = i
  <2>1. PICK j \in DOMAIN mesh : srt[i] = mesh[j] BY <1>1
  <2>2. srt[i].shape \in Places(n) /\ idx[srt[i].shape] = At(srt[i].shape)
    BY <1>2, <1>3, <2>1
  <2>3. PICK t : t = srt[i].shape OBVIOUS
  <2>4. At(t) \in DOMAIN srt /\ srt[At(t)].shape = t BY <1>4, <2>3
  <2>5. At(t) = i BY <1>1, <2>3, <2>4
  <2> QED BY <2>2, <2>3, <2>5
<1> QED BY <1>3, <1>6, <1>7

\* Meshes of the same shapes have them in the same places.
LEMMA SameShapes ==
  ASSUME NEW n \in NIFs, NEW a \in MeshesOf(n), NEW b \in MeshesOf(n), Len(a) = Len(b),
         {a[i].shape : i \in DOMAIN a} = {b[i].shape : i \in DOMAIN b}
  PROVE  DOMAIN a = DOMAIN b /\ \A i \in DOMAIN a : a[i].shape = b[i].shape
<1>1. \A m \in MeshesOf(n) :
        /\ Len(m) \in Nat /\ DOMAIN m = 1..Len(m)
        /\ \A i \in DOMAIN m : m[i].shape \in Nat
        /\ \A i, j \in DOMAIN m : i < j => m[i].shape < m[j].shape
  BY PermutationsAssumption DEF MeshesOf, Places, PermutationsAssumption
<1>2. /\ Len(a) \in Nat /\ DOMAIN a = 1..Len(a) /\ DOMAIN b = 1..Len(a)
      /\ \A i \in 1..Len(a) : a[i].shape \in Nat /\ b[i].shape \in Nat
      /\ \A i, j \in 1..Len(a) : i < j => a[i].shape < a[j].shape /\ b[i].shape < b[j].shape
  BY <1>1
<1> SUFFICES ASSUME NEW z \in 1..Len(a), a[z].shape # b[z].shape PROVE FALSE
  BY <1>2
<1> DEFINE D == {i \in 1..Len(a) : a[i].shape # b[i].shape}
<1>3. D # {} /\ D \subseteq Nat OBVIOUS
<1>4. PICK x \in D : \A y \in D : ~ (<<y, x>> \in OpToRel(<, Nat))
  BY <1>3, WFMin, NatLessThanWellFounded
<1>5. \A y \in D : ~ (y < x) BY <1>3, <1>4 DEF OpToRel
<1>6. x \in 1..Len(a) /\ a[x].shape # b[x].shape
      /\ \A i \in 1..Len(a) : i < x => a[i].shape = b[i].shape
  BY <1>5
<1>7. PICK i \in 1..Len(a) : b[i].shape = a[x].shape
  <2>1. a[x].shape \in {a[k].shape : k \in DOMAIN a} BY <1>2, <1>6
  <2> QED BY <1>2, <2>1
<1>8. PICK j \in 1..Len(a) : a[j].shape = b[x].shape
  <2>1. b[x].shape \in {b[k].shape : k \in DOMAIN b} BY <1>2, <1>6
  <2> QED BY <1>2, <2>1
<1>9. a[x].shape < b[x].shape \/ b[x].shape < a[x].shape BY <1>2, <1>6
<1>10. CASE a[x].shape < b[x].shape
  <2>1. CASE i < x BY <1>2, <1>6, <1>7, <2>1
  <2>2. CASE i = x BY <1>6, <1>7, <2>2
  <2>3. CASE x < i BY <1>2, <1>6, <1>7, <1>10, <2>3
  <2> QED BY <1>6, <2>1, <2>2, <2>3
<1>11. CASE b[x].shape < a[x].shape
  <2>1. CASE j < x BY <1>2, <1>6, <1>8, <2>1
  <2>2. CASE j = x BY <1>6, <1>8, <2>2
  <2>3. CASE x < j BY <1>2, <1>6, <1>8, <1>11, <2>3
  <2> QED BY <1>6, <2>1, <2>2, <2>3
<1> QED BY <1>9, <1>10, <1>11

-----------------------------------------------------------------------------
(* The theorems. *)

LEMMA OutputsFromInv == IInv => OutputsSafe
<1> SUFFICES ASSUME IInv PROVE TypeOK /\ NoTwinOutputs BY DEF OutputsSafe
<1> USE DEF IInv
<1>1. ASSUME NEW n \in NIFs
      PROVE  /\ next[n] \in 1..(Len(uses[n]) + 1) /\ jobs[n] \in {"running", "saved", "failed"}
             /\ Len(outputs[n]) <= Cardinality(processed[n])
             /\ \A i \in DOMAIN saved[n] :
                  /\ saved[n][i].index \in 0..Len(saved[n])
                  /\ ToSet(saved[n][i].idx) \subseteq Places(n) \cup {Removed}
  <2>1. /\ next[n] \in 1..(Len(uses[n]) + 1) /\ jobs[n] \in {"running", "saved", "failed"}
        /\ Len(outputs[n]) <= Cardinality(processed[n])
    BY DEF Typed, UsesInv
  <2>2. ASSUME NEW i \in DOMAIN saved[n]
        PROVE  /\ saved[n][i].index \in 0..Len(saved[n])
               /\ ToSet(saved[n][i].idx) \subseteq Places(n) \cup {Removed}
    <3>1. jobs[n] = "saved"
      <4>1. DOMAIN <<>> = {} OBVIOUS
      <4> QED BY <2>2, <4>1 DEF SavedInv
    <3>2. /\ i \in DOMAIN outputs[n] /\ Len(saved[n]) = Len(outputs[n]) /\ SavedFrom(n, i)
      BY <3>1 DEF SavedInv
    <3>3. /\ i \in 1..Len(outputs[n]) /\ Len(outputs[n]) \in Nat
          /\ outputs[n][i].mesh \in MeshesOf(n)
      BY <3>2, OutputsTyped
    <3>4. saved[n][i].index \in 0..Len(saved[n])
      BY <3>2, <3>3 DEF SavedFrom, curIndex
    <3> DEFINE mesh == outputs[n][i].mesh
               srt == saved[n][i].mesh
               idx == saved[n][i].idx
    <3>5. srt \in Sortings(mesh) /\ idx = idxCorrections(n, mesh, srt)
      BY <3>2 DEF SavedFrom
    <3>6. mesh \in MeshesOf(n) /\ Len(mesh) <= Shapes[n] BY <3>3 DEF MeshesOf
    <3> HIDE DEF mesh, srt, idx
    <3>7. DOMAIN srt \subseteq Places(n)
      <4>1. DOMAIN srt = 1..Len(mesh) /\ Len(mesh) \in Nat BY <3>5, <3>6, SortedMesh
      <4>2. Shapes[n] \in Nat BY PermutationsAssumption DEF PermutationsAssumption
      <4> QED BY <3>6, <4>1, <4>2 DEF Places
    <3>8. DOMAIN idx = Places(n) /\ \A s \in Places(n) : idx[s] # Removed => idx[s] \in DOMAIN srt
      BY <3>5, <3>6, Corrected
    <3>9. ToSet(idx) \subseteq Places(n) \cup {Removed}
      BY <3>7, <3>8 DEF ToSet
    <3> QED BY <3>4, <3>9 DEF idx
  <2> QED BY <2>1, <2>2
<1>2. ASSUME NEW u \in modelUses PROVE u.key \in processed[u.nif]
  <2>1. PICK n \in NIFs :
          \E i \in DOMAIN outputs[n] : \E j \in DOMAIN Results(n, i) : Redirects(u, n, i, j)
    BY DEF SavedInv
  <2>2. PICK i \in DOMAIN outputs[n] : \E j \in DOMAIN Results(n, i) : Redirects(u, n, i, j)
    BY <2>1
  <2>3. PICK j \in DOMAIN Results(n, i) : Redirects(u, n, i, j) BY <2>2
  <2>4. PICK w \in wanted : Merged(n, i, j, w) BY DEF WantedInv
  <2> QED BY <2>3, <2>4 DEF Redirects, Merged, WantedInv
<1> QED BY <1>1, <1>2 DEF TypeOK, Typed

(* Saved indices and index corrections are of shapes the mesh has, whatever *)
(* was deleted from it and however it was sorted, and no two outputs of a   *)
(* NIF are the same mesh.                                                   *)
THEOREM OutputsCorrect == Spec => []OutputsSafe
BY InvariantHolds, OutputsFromInv, PTL

LEMMA OmittedFromInv == IInv => OmittedUsesSeeOriginal
<1> SUFFICES ASSUME IInv, NEW n \in NIFs, jobs[n] = "saved", NEW i \in DOMAIN uses[n],
                    ~ \E u \in modelUses : u.nif = n /\ u.key = uses[n][i].key,
                    NEW j \in DOMAIN saved[n]
             PROVE  saved[n][j].index # 0
  BY DEF OmittedUsesSeeOriginal
<1> USE DEF IInv
<1>1. i \in 1..(next[n] - 1)
  <2>1. i \in 1..Len(uses[n]) /\ Len(uses[n]) \in Nat BY UsesTyped
  <2>2. next[n] > Len(uses[n]) /\ next[n] \in Nat BY DEF SavedInv, Typed
  <2> QED BY <2>1, <2>2
<1>2. ignoreBase[n]
  <2> SUFFICES ASSUME ~ ignoreBase[n] PROVE FALSE OBVIOUS
  <2>1. uses[n][i].key \in processed[n] BY <1>1 DEF UsesInv
  <2>2. PICK k \in DOMAIN outputs[n] : HasKey(n, k, uses[n][i].key) BY <2>1 DEF UsesInv
  <2>3. PICK l \in DOMAIN Results(n, k) : Results(n, k)[l][1] = uses[n][i].key
    BY <2>2 DEF HasKey
  <2>4. \E u \in modelUses : u.nif = n /\ u.key = Results(n, k)[l][1] BY DEF SavedInv
  <2> QED BY <2>3, <2>4
<1>3. j \in DOMAIN outputs[n] /\ saved[n][j].index = curIndex(n, j)
  BY DEF SavedInv, SavedFrom
<1>4. j \in 1..Len(outputs[n]) /\ Len(outputs[n]) \in Nat BY <1>3, OutputsTyped
<1> QED BY <1>2, <1>3, <1>4 DEF curIndex

(* The path an unpatched, ignored or dropped record goes on loading is      *)
(* never overwritten, whichever use of the NIF came first.                  *)
THEOREM OmittedCorrect == Spec => []OmittedUsesSeeOriginal
BY InvariantHolds, OmittedFromInv, PTL

LEMMA PairsFromInv == IInv => UnreportedVariantsPair
<1> SUFFICES ASSUME IInv, validated, errors = {}, NEW n \in NIFs
             PROVE  /\ WeightedPlaces(n) = WeightedPlaces(OtherVariant[n])
                    /\ \A i \in WeightedPlaces(n) :
                         Len(outputs[n][i].mesh) = Len(outputs[OtherVariant[n]][i].mesh)
  BY DEF UnreportedVariantsPair
<1>1. OtherVariant[n] \in NIFs /\ OtherVariant[OtherVariant[n]] = n
  BY PermutationsAssumption DEF PermutationsAssumption
<1>2. \A m \in NIFs : \A i : i \in WeightedPlaces(m) <=> WeightedAt(m, i)
  BY DEF WeightedPlaces, WeightedAt
<1>3. ASSUME NEW m \in NIFs, NEW i, WeightedAt(m, i) PROVE Paired(m, i)
  <2>1. i \in Nat BY <1>3, OutputsTyped DEF WeightedAt, IInv
  <2>2. ~ Cached(m, i) BY DEF IInv, WeightInv, Cached
  <2> QED BY <1>3, <2>1, <2>2 DEF IInv, WeightInv
<1>4. \A i : WeightedAt(n, i) <=> WeightedAt(OtherVariant[n], i)
  BY <1>1, <1>3 DEF Paired
<1>5. \A i : WeightedAt(n, i) =>
        Len(outputs[n][i].mesh) = Len(outputs[OtherVariant[n]][i].mesh)
  BY <1>3 DEF Paired
<1> QED BY <1>1, <1>2, <1>4, <1>5

(* Weight variants that nothing was logged about pair up place by place,    *)
(* however the jobs interleave and fail.                                    *)
THEOREM VariantsPair == Spec => []UnreportedVariantsPair
BY InvariantHolds, PairsFromInv, PTL

\* A shape as the game shows it with the alternate textures of a record.
Shown(x, alt) ==
  [shape |-> x.shape, look |-> x.look,
   tex |-> IF x.shape \in DOMAIN alt THEN alt[x.shape] ELSE x.tex]
ShownAll(mesh, alt) == {Shown(mesh[i], alt) : i \in DOMAIN mesh}

\* The indices the alternate textures were corrected to are those of their
\* shapes in the file.
LEMMA EffectiveShown ==
  ASSUME NEW n \in NIFs, NEW mesh \in MeshesOf(n), NEW srt \in Sortings(mesh), NEW idx,
         idx = idxCorrections(n, mesh, srt), NEW alt \in AltsOf(n)
  PROVE  ToSet(Effective(srt, AltAt(idx, alt))) = ShownAll(mesh, alt)
<1>1. /\ DOMAIN idx = Places(n)
      /\ \A s \in Places(n) : idx[s] # Removed => idx[s] \in DOMAIN srt /\ srt[idx[s]].shape = s
      /\ \A i \in DOMAIN srt : srt[i].shape \in Places(n) /\ idx[srt[i].shape] = i
  BY Corrected
<1>2. /\ DOMAIN srt = DOMAIN mesh /\ DOMAIN srt = 1..Len(mesh) /\ Len(mesh) \in Nat
      /\ \A i \in DOMAIN srt : \E j \in DOMAIN mesh : srt[i] = mesh[j]
      /\ \A j \in DOMAIN mesh : \E i \in DOMAIN srt : srt[i] = mesh[j]
  BY SortedMesh
<1>3. DOMAIN alt \subseteq Places(n) BY DEF AltsOf
<1>4. ASSUME NEW i \in DOMAIN srt
      PROVE  Effective(srt, AltAt(idx, alt))[i] = Shown(srt[i], alt)
  <2>1. PICK A : A = AltAt(idx, alt) OBVIOUS
  <2>2. \A a \in A : a[1] = i => srt[i].shape \in DOMAIN alt /\ a[2] = alt[srt[i].shape]
    <3> SUFFICES ASSUME NEW a \in A, a[1] = i
                 PROVE  srt[i].shape \in DOMAIN alt /\ a[2] = alt[srt[i].shape]
      OBVIOUS
    <3>1. PICK s \in DOMAIN alt : idx[s] # Removed /\ a = <<idx[s], alt[s]>>
      BY <2>1 DEF AltAt
    <3>2. idx[s] = i /\ a[2] = alt[s] BY <3>1
    <3>3. srt[i].shape = s BY <1>1, <1>3, <3>1, <3>2
    <3> QED BY <3>2, <3>3
  <2>3. srt[i].shape \in DOMAIN alt => \E a \in A : a[1] = i
    <3> SUFFICES ASSUME srt[i].shape \in DOMAIN alt PROVE \E a \in A : a[1] = i OBVIOUS
    <3>1. PICK s : s = srt[i].shape OBVIOUS
    <3>2. s \in DOMAIN alt /\ idx[s] = i /\ i # Removed
      BY <1>1, <1>2, <3>1 DEF Removed
    <3>3. <<idx[s], alt[s]>> \in A BY <2>1, <3>2 DEF AltAt
    <3> QED BY <3>2, <3>3
  <2>4. Effective(srt, A)[i] =
          [shape |-> srt[i].shape, look |-> srt[i].look,
           tex |-> IF \E a \in A : a[1] = i THEN (CHOOSE a \in A : a[1] = i)[2]
                   ELSE srt[i].tex]
    BY DEF Effective
  <2>5. (IF \E a \in A : a[1] = i THEN (CHOOSE a \in A : a[1] = i)[2] ELSE srt[i].tex)
          = IF srt[i].shape \in DOMAIN alt THEN alt[srt[i].shape] ELSE srt[i].tex
    <3>1. CASE srt[i].shape \in DOMAIN alt
      <4>1. \E a \in A : a[1] = i BY <2>3, <3>1
      <4>2. PICK c : c = CHOOSE a \in A : a[1] = i OBVIOUS
      <4>3. c \in A /\ c[1] = i BY <4>1, <4>2
      <4>4. c[2] = alt[srt[i].shape] BY <2>2, <4>3
      <4> QED BY <3>1, <4>1, <4>2, <4>4
    <3>2. CASE srt[i].shape \notin DOMAIN alt
      BY <2>2, <3>2
    <3> QED BY <3>1, <3>2
  <2> QED BY <2>1, <2>4, <2>5, Zenon DEF Shown
<1>5. PICK e : e = Effective(srt, AltAt(idx, alt)) OBVIOUS
<1>6. DOMAIN e = DOMAIN srt /\ \A i \in DOMAIN srt : e[i] = Shown(srt[i], alt)
  BY <1>4, <1>5 DEF Effective
<1>7. ToSet(e) = {Shown(srt[i], alt) : i \in DOMAIN srt}
  BY <1>6 DEF ToSet
<1>8. {Shown(srt[i], alt) : i \in DOMAIN srt} = {Shown(mesh[i], alt) : i \in DOMAIN mesh}
  BY <1>2
<1> QED BY <1>5, <1>7, <1>8 DEF ShownAll

LEMMA ShapesShown ==
  ASSUME NEW mesh, NEW alt
  PROVE  ShapesOf(ShownAll(mesh, alt)) = {mesh[i].shape : i \in DOMAIN mesh}
<1>1. \A i \in DOMAIN mesh : Shown(mesh[i], alt).shape = mesh[i].shape BY DEF Shown
<1> QED BY <1>1 DEF ShapesOf, ShownAll

\* Meshes that compare equal and have the same shapes look the same.
LEMMA SameShown ==
  ASSUME NEW n \in NIFs, NEW a \in MeshesOf(n), NEW b \in MeshesOf(n), NEW alt \in AltsOf(n),
         compareMesh(a, b, Places(n) \ DOMAIN alt),
         {a[i].shape : i \in DOMAIN a} = {b[i].shape : i \in DOMAIN b}
  PROVE  ShownAll(a, alt) = ShownAll(b, alt)
<1>1. /\ Len(a) = Len(b)
      /\ \A i \in DOMAIN a : /\ a[i].look = b[i].look
                             /\ a[i].shape \in Places(n) \ DOMAIN alt => a[i].tex = b[i].tex
  BY DEF compareMesh
<1>2. DOMAIN a = DOMAIN b /\ \A i \in DOMAIN a : a[i].shape = b[i].shape
  BY <1>1, SameShapes
<1>3. \A i \in DOMAIN a : a[i].shape \in Places(n) BY DEF MeshesOf
<1>4. \A i \in DOMAIN a : Shown(a[i], alt) = Shown(b[i], alt)
  <2> SUFFICES ASSUME NEW i \in DOMAIN a PROVE Shown(a[i], alt) = Shown(b[i], alt) OBVIOUS
  <2>1. a[i].look = b[i].look /\ a[i].shape = b[i].shape BY <1>1, <1>2
  <2>2. a[i].shape \notin DOMAIN alt => a[i].tex = b[i].tex BY <1>1, <1>3
  <2> QED BY <2>1, <2>2 DEF Shown
<1> QED BY <1>2, <1>4 DEF ShownAll

LEMMA GameFromInv == IInv => GameSeesPatchedUse
<1> SUFFICES ASSUME IInv, NEW u \in modelUses, NEW w \in wanted, u.nif = w.nif, u.key = w.key,
                    ShapesOf(InGame(u)) = ShapesOf(Made(w))
             PROVE  InGame(u) = Made(w)
  BY DEF GameSeesPatchedUse
<1> USE DEF IInv
<1>1. PICK n \in NIFs :
        /\ jobs[n] = "saved"
        /\ \E i \in DOMAIN outputs[n] : \E j \in DOMAIN Results(n, i) : Redirects(u, n, i, j)
  BY DEF SavedInv
<1>2. PICK i \in DOMAIN outputs[n] : \E j \in DOMAIN Results(n, i) : Redirects(u, n, i, j)
  BY <1>1
<1>3. PICK j \in DOMAIN Results(n, i) : Redirects(u, n, i, j) BY <1>2
<1>4. PICK v \in wanted : Merged(n, i, j, v) BY DEF WantedInv
<1>5. v = w
  <2>1. v.nif = n /\ v.key = Results(n, i)[j][1] BY <1>4 DEF Merged
  <2>2. u.nif = n /\ u.key = Results(n, i)[j][1] BY <1>3 DEF Redirects
  <2>3. \A x, y \in wanted : x.nif = y.nif /\ x.key = y.key => x = y BY DEF WantedInv
  <2> QED BY <2>1, <2>2, <2>3
<1>6. PICK mesh : mesh = outputs[n][i].mesh OBVIOUS
<1>7. PICK srt, idx : srt = saved[n][i].mesh /\ idx = saved[n][i].idx OBVIOUS
<1>8. /\ mesh \in MeshesOf(n) /\ w.mesh \in MeshesOf(n) /\ w.alt \in AltsOf(n)
      /\ compareMesh(w.mesh, mesh, Places(n) \ DOMAIN w.alt)
  BY <1>4, <1>5, <1>6, OutputsTyped DEF WantedInv, Merged
<1>9. /\ u.nif = n /\ u.index = saved[n][i].index /\ u.alt = AltAt(idx, w.alt)
  BY <1>3, <1>4, <1>5, <1>7 DEF Redirects, Merged
<1>10. /\ i \in DOMAIN saved[n] /\ \A k \in DOMAIN saved[n] : SavedFrom(n, k)
       /\ srt \in Sortings(mesh) /\ idx = idxCorrections(n, mesh, srt)
  BY <1>1, <1>6, <1>7 DEF SavedInv, SavedFrom
<1>11. \A k \in DOMAIN saved[n] : saved[n][k].index = u.index => k = i
  <2>1. \A k \in DOMAIN saved[n] : k \in Nat /\ saved[n][k].index = curIndex(n, k)
    <3>1. DOMAIN saved[n] = DOMAIN outputs[n] BY <1>1 DEF SavedInv
    <3>2. \A k \in DOMAIN outputs[n] : k \in Nat BY OutputsTyped
    <3> QED BY <1>10, <3>1, <3>2 DEF SavedFrom
  <2> QED BY <1>9, <1>10, <2>1 DEF curIndex
<1>12. {p \in ToSet(saved[n]) : p.index = u.index} = {saved[n][i]}
  <2>1. \A p \in ToSet(saved[n]) : \E k \in DOMAIN saved[n] : p = saved[n][k] BY DEF ToSet
  <2>2. saved[n][i] \in ToSet(saved[n]) BY <1>10 DEF ToSet
  <2> QED BY <1>9, <1>11, <2>1, <2>2
<1>13. InGame(u) = ToSet(Effective(srt, u.alt))
  <2>1. InGame(u) = UNION {ToSet(Effective(o.mesh, u.alt)) : o \in {saved[n][i]}}
    BY <1>9, <1>12 DEF InGame
  <2> QED BY <1>7, <2>1
<1>14. InGame(u) = ShownAll(mesh, w.alt) BY <1>8, <1>9, <1>10, <1>13, EffectiveShown
<1>15. Made(w) = ShownAll(w.mesh, w.alt) BY DEF Made, ShownAll, Shown
<1>16. {mesh[k].shape : k \in DOMAIN mesh} = {w.mesh[k].shape : k \in DOMAIN w.mesh}
  BY <1>14, <1>15, ShapesShown
<1> QED BY <1>8, <1>14, <1>15, <1>16, SameShown

(* A redirected record shows in the game what was made for it, though its   *)
(* mesh may have been merged, its shapes deleted, sorted and saved under    *)
(* another index and its alternate textures moved to the new indices; the   *)
(* exception is a record merged into a mesh that lost other shapes.         *)
THEOREM GameCorrect == Spec => []GameSeesPatchedUse
BY InvariantHolds, GameFromInv, PTL

=============================================================================
