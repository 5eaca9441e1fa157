------------------------ MODULE ConflictViewProofs ------------------------
(***************************************************************************)
(* The properties of ConflictView, for every set of mods, every mesh, every *)
(* list of the conflict manager and every sequence of events.              *)
(*                                                                         *)
(* The proofs go up through the operators: what the first row of a sorted  *)
(* list is, on what the lists of the viewer depend, what each handler      *)
(* leaves of the viewer, and last the invariant IInv, one event at a time. *)
(***************************************************************************)
EXTENDS ConflictView, FiniteSetTheorems, WellFoundedInduction, TLAPS

-----------------------------------------------------------------------------
(* The order of the list. *)

RowSets == [mod : Mods, on : BOOLEAN]
Places(rows) == getLiveModPriorityList(rows)

LEMMA OrderTyped ==
  ASSUME NEW rows \in Orders
  PROVE  /\ rows \in Seq(RowSets)
         /\ Len(rows) \in Nat /\ DOMAIN rows = 1 .. Len(rows)
         /\ \A i \in DOMAIN rows : rows[i].mod \in Mods /\ rows[i].on \in BOOLEAN
         /\ \A i, j \in DOMAIN rows : rows[i].mod = rows[j].mod => i = j
<1>1. rows \in Seq(RowSets) /\ \A i, j \in DOMAIN rows : rows[i].mod = rows[j].mod => i = j
  BY ConflictViewAssumption DEF ConflictViewAssumption, RowSets
<1>2. Len(rows) \in Nat /\ DOMAIN rows = 1 .. Len(rows) /\ \A i \in DOMAIN rows : rows[i] \in RowSets
  BY <1>1
<1> QED BY <1>1, <1>2 DEF RowSets

(* A row before another has the lower place. *)
LEMMA PlaceOrder ==
  ASSUME NEW rows \in Orders
  PROVE  /\ \A i \in DOMAIN rows : Places(rows)[i] \in 1 .. Len(rows)
         /\ \A i, j \in DOMAIN rows :
               GoesBefore(rows, i, j) => Places(rows)[i] < Places(rows)[j]
<1> DEFINE D == DOMAIN rows
           P(i) == {j \in D : GoesBefore(rows, j, i)}
<1>1. /\ Len(rows) \in Nat /\ D = 1 .. Len(rows)
      /\ \A i \in D : rows[i].on \in BOOLEAN
  BY OrderTyped
<1>2. IsFiniteSet(D) /\ Cardinality(D) = Len(rows)
  <2>1. Len(rows) = Len(rows) - 1 + 1 BY <1>1
  <2> QED BY <1>1, FS_Interval
<1>3. \A i \in D : IsFiniteSet(P(i)) /\ Cardinality(P(i)) \in Nat
                   /\ Cardinality(P(i)) < Len(rows)
  <2> TAKE i \in D
  <2>1. P(i) \subseteq D /\ i \notin P(i) BY <1>1 DEF GoesBefore
  <2>2. IsFiniteSet(P(i)) /\ Cardinality(P(i)) <= Cardinality(D)
        /\ (Cardinality(P(i)) = Cardinality(D) => P(i) = D)
    BY <2>1, <1>2, FS_Subset
  <2>3. Cardinality(P(i)) \in Nat BY <2>2, FS_CardinalityType
  <2> QED BY <2>1, <2>2, <2>3, <1>1, <1>2
<1>4. \A i, j \in D : GoesBefore(rows, i, j) => Cardinality(P(i)) < Cardinality(P(j))
  <2> SUFFICES ASSUME NEW i \in D, NEW j \in D, GoesBefore(rows, i, j)
               PROVE  Cardinality(P(i)) < Cardinality(P(j))
    OBVIOUS
  <2>1. P(i) \subseteq P(j) /\ i \in P(j) /\ i \notin P(i)
    BY <1>1 DEF GoesBefore
  <2>2. Cardinality(P(i)) <= Cardinality(P(j))
        /\ (Cardinality(P(i)) = Cardinality(P(j)) => P(i) = P(j))
    BY <2>1, <1>3, FS_Subset
  <2>3. Cardinality(P(i)) \in Nat /\ Cardinality(P(j)) \in Nat BY <1>3
  <2>4. P(i) # P(j) BY <2>1
  <2> HIDE DEF P
  <2> QED BY <2>2, <2>3, <2>4
<1>5. \A i \in D : Places(rows)[i] = Cardinality(P(i)) + 1
  BY DEF Places, getLiveModPriorityList
<1> HIDE DEF P
<1> QED BY <1>1, <1>3, <1>4, <1>5

LEMMA RowOfMod ==
  ASSUME NEW rows \in Orders, NEW m, HasRow(rows, m)
  PROVE  RowOf(rows, m) \in DOMAIN rows /\ rows[RowOf(rows, m)].mod = m
BY DEF HasRow, RowOf

RankType == [Mods \cup {Untracked} -> Nat]

LEMMA RankTyped ==
  ASSUME NEW g, g.rows \in Orders
  PROVE  Rank(g) \in RankType
<1>1. \A m : HasRow(g.rows, m) => Places(g.rows)[RowOf(g.rows, m)] \in Nat
  BY RowOfMod, PlaceOrder, OrderTyped
<1>2. Len(g.rows) + 1 \in Nat BY OrderTyped
<1> QED BY <1>1, <1>2 DEF Rank, RankType, Places

(* PGModManager's priorities, once the list is written. *)
LEMMA WrittenTyped ==
  ASSUME NEW rows \in Orders,
         NEW mods \in [Mods -> [on : BOOLEAN, priority : 0 .. Cardinality(Mods)]]
  PROVE  Written(rows, mods) \in [Mods -> [on : BOOLEAN, priority : 0 .. Cardinality(Mods)]]
<1>1. /\ Len(rows) \in Nat /\ DOMAIN rows = 1 .. Len(rows)
      /\ \A i \in DOMAIN rows : rows[i].mod \in Mods
      /\ \A i, j \in DOMAIN rows : rows[i].mod = rows[j].mod => i = j
  BY OrderTyped
<1>2. IsFiniteSet(Mods) /\ Cardinality(Mods) \in Nat
  BY ConflictViewAssumption, FS_CardinalityType DEF ConflictViewAssumption
<1>3. Len(rows) <= Cardinality(Mods)
  <2> DEFINE f == [i \in DOMAIN rows |-> rows[i].mod]
  <2>1. f \in Injection(DOMAIN rows, Mods) BY <1>1 DEF Injection, IsInjective
  <2>2. Cardinality(DOMAIN rows) <= Cardinality(Mods) BY <2>1, <1>2, FS_Injection
  <2>3. Cardinality(1 .. Len(rows)) = Len(rows)
    <3>1. Len(rows) = Len(rows) - 1 + 1 BY <1>1
    <3> QED BY <1>1, FS_Interval
  <2> QED BY <2>2, <2>3, <1>1
<1>4. \A m \in Mods : HasRow(rows, m) => Places(rows)[RowOf(rows, m)] \in 1 .. Len(rows)
  BY RowOfMod, PlaceOrder
<1>5. \A m \in Mods : HasRow(rows, m) =>
        Len(rows) - Places(rows)[RowOf(rows, m)] + 1 \in 0 .. Cardinality(Mods)
  <2> SUFFICES ASSUME NEW m \in Mods, HasRow(rows, m), NEW k, k = Places(rows)[RowOf(rows, m)]
               PROVE  Len(rows) - k + 1 \in 0 .. Cardinality(Mods)
    OBVIOUS
  <2>1. k \in 1 .. Len(rows) BY <1>4
  <2> QED BY <2>1, <1>1, <1>2, <1>3
<1>6. \A m \in Mods : [mods[m] EXCEPT !.on = FALSE] \in [on : BOOLEAN, priority : 0 .. Cardinality(Mods)]
  OBVIOUS
<1> DEFINE W == [on : BOOLEAN, priority : 0 .. Cardinality(Mods)]
           in(m) == HasRow(rows, m) /\ rows[RowOf(rows, m)].on
           put(m) == [on |-> TRUE, priority |-> Len(rows) - Places(rows)[RowOf(rows, m)] + 1]
           out(m) == [mods[m] EXCEPT !.on = FALSE]
<1>7. \A m \in Mods : (in(m) => put(m) \in W) /\ out(m) \in W
  BY <1>5, <1>6
<1>8. Written(rows, mods) = [m \in Mods |-> IF in(m) THEN put(m) ELSE out(m)]
  BY DEF Written, Places
<1> HIDE DEF in, put, out, W
<1>9. Written(rows, mods) \in [Mods -> W]
  BY <1>7, <1>8
<1> QED BY <1>9 DEF W

LEMMA WrittenMeans ==
  ASSUME NEW rows \in Orders, NEW m \in Mods,
         NEW mods \in [Mods -> [on : BOOLEAN, priority : 0 .. Cardinality(Mods)]],
         mods = Written(rows, mods)
  PROVE  /\ mods[m].on => /\ HasRow(rows, m) /\ rows[RowOf(rows, m)].on
                          /\ mods[m].priority = Len(rows) - Places(rows)[RowOf(rows, m)] + 1
         /\ HasRow(rows, m) /\ rows[RowOf(rows, m)].on => mods[m].on
<1> DEFINE W == Written(rows, mods)
<1>1. W[m] = IF HasRow(rows, m) /\ rows[RowOf(rows, m)].on
             THEN [on |-> TRUE, priority |-> Len(rows) - Places(rows)[RowOf(rows, m)] + 1]
             ELSE [mods[m] EXCEPT !.on = FALSE]
  BY DEF Written, Places
<1>2. mods[m] = W[m] OBVIOUS
<1> HIDE DEF W
<1>3. CASE HasRow(rows, m) /\ rows[RowOf(rows, m)].on
  BY <1>1, <1>2, <1>3
<1>4. CASE ~ (HasRow(rows, m) /\ rows[RowOf(rows, m)].on)
  <2>1. mods[m] = [mods[m] EXCEPT !.on = FALSE] BY <1>1, <1>2, <1>4
  <2>2. ~ mods[m].on
    <3>1. mods[m] \in [on : BOOLEAN, priority : 0 .. Cardinality(Mods)] OBVIOUS
    <3>2. [mods[m] EXCEPT !.on = FALSE].on = FALSE BY <3>1
    <3> QED BY <2>1, <3>2
  <2> QED BY <2>2, <1>4
<1> QED BY <1>3, <1>4

(* The first of a sorted list: no other has a lower rank. *)
LEMMA FirstMatch ==
  ASSUME NEW rank \in RankType, NEW V, IsFiniteSet(V), V # {},
         \A x \in V : x.mod \in Mods \cup {Untracked} /\ x.as \in Int /\ x.path \in Int
  PROVE  LET first == CHOOSE m \in V :
                        Cardinality({x \in V : SortsBefore(rank, x, m)}) = 0
         IN first \in V /\ \A x \in V : rank[first.mod] <= rank[x.mod]
<1> DEFINE P(m) == {x \in V : SortsBefore(rank, x, m)}
           N == {Cardinality(P(m)) : m \in V}
<1>1. \A m \in V : /\ IsFiniteSet(P(m)) /\ Cardinality(P(m)) \in Nat
                   /\ \A y \in P(m) : Cardinality(P(y)) < Cardinality(P(m))
  <2> TAKE m \in V
  <2>1. \A y \in V : IsFiniteSet(P(y)) /\ Cardinality(P(y)) \in Nat
    BY FS_Subset, FS_CardinalityType
  <2>2. ASSUME NEW y \in P(m) PROVE Cardinality(P(y)) < Cardinality(P(m))
    <3>0. \A x \in V : rank[x.mod] \in Nat /\ x.as \in Int /\ x.path \in Int
      BY DEF RankType
    <3>1. y \in V /\ SortsBefore(rank, y, m) BY <2>2
    <3>2. \A x \in V : SortsBefore(rank, x, y) => SortsBefore(rank, x, m)
      BY <3>0, <3>1 DEF SortsBefore
    <3>3. ~ SortsBefore(rank, y, y) BY <3>0, <3>1 DEF SortsBefore
    <3>4. P(y) \subseteq P(m) /\ P(y) # P(m) BY <3>1, <3>2, <3>3
    <3>5. Cardinality(P(y)) <= Cardinality(P(m))
          /\ (Cardinality(P(y)) = Cardinality(P(m)) => P(y) = P(m))
      BY <3>4, <2>1, FS_Subset
    <3> QED BY <3>1, <3>4, <3>5, <2>1
  <2> QED BY <2>1, <2>2
<1>2. \E m \in V : Cardinality(P(m)) = 0
  <2>1. N \subseteq Nat /\ N # {} BY <1>1
  <2>2. PICK n \in N : \A k \in N : ~ (<<k, n>> \in OpToRel(<, Nat))
    BY <2>1, WFMin, NatLessThanWellFounded
  <2>3. \A k \in N : ~ (k < n) BY <2>1, <2>2 DEF OpToRel
  <2>4. PICK m \in V : n = Cardinality(P(m)) OBVIOUS
  <2>5. \A y \in V : y \notin P(m)
    <3> HIDE DEF P
    <3> QED BY <1>1, <2>3, <2>4
  <2>6. P(m) = {} BY <2>5
  <2> QED BY <2>6, FS_EmptySet
<1> DEFINE first == CHOOSE m \in V : Cardinality(P(m)) = 0
<1>3. first \in V /\ Cardinality(P(first)) = 0 BY <1>2
<1>4. P(first) = {} BY <1>1, <1>3, FS_EmptySet
<1>5. \A x \in V : ~ SortsBefore(rank, x, first) BY <1>4
<1>6. \A x \in V : rank[x.mod] \in Nat BY DEF RankType
<1>7. \A x \in V : rank[first.mod] <= rank[x.mod]
  <2> HIDE DEF first
  <2> QED BY <1>3, <1>5, <1>6 DEF SortsBefore
<1> QED BY <1>3, <1>7

-----------------------------------------------------------------------------
(* On what the lists of the viewer depend. *)

SameSettings(v, w) ==
  /\ v.filter = w.filter /\ v.only = w.only
  /\ v.disabled = w.disabled /\ v.search = w.search

LEMMA SameVisible ==
  ASSUME NEW g, NEW h, NEW v, NEW w, g.mods = h.mods, SameSettings(v, w)
  PROVE  \A m : isMatchVisible(g, v, m) <=> isMatchVisible(h, w, m)
BY DEF isMatchVisible, SameSettings

LEMMA SameLists ==
  ASSUME NEW g, NEW h, NEW v, NEW w, g.mods = h.mods, SameSettings(v, w)
  PROVE  /\ \A mesh : ListedShapes(g, v, mesh) = ListedShapes(h, w, mesh)
         /\ ListedMeshes(g, v) = ListedMeshes(h, w)
<1>1. \A m : isMatchVisible(g, v, m) <=> isMatchVisible(h, w, m) BY SameVisible
<1>2. ASSUME NEW shape PROVE ShapeListed(g, v, shape) <=> ShapeListed(h, w, shape)
  <2>1. {x \in AllMatches(shape) : isMatchVisible(g, v, x)}
          = {x \in AllMatches(shape) : isMatchVisible(h, w, x)}
    BY <1>1
  <2>2. shapeHasActualConflict(g, v, shape) <=> shapeHasActualConflict(h, w, shape)
    BY <2>1, Zenon DEF shapeHasActualConflict
  <2>3. shapePassesIntersectionFilter(g, v, shape) <=> shapePassesIntersectionFilter(h, w, shape)
    BY <1>1, <2>2, Zenon DEF shapePassesIntersectionFilter, SameSettings
  <2>4. shapePassesAnyModFilter(v, shape) <=> shapePassesAnyModFilter(w, shape)
    BY Zenon DEF shapePassesAnyModFilter, SameSettings
  <2> QED BY <2>3, <2>4 DEF ShapeListed, SameSettings
<1>3. \A mesh : ListedShapes(g, v, mesh) = ListedShapes(h, w, mesh)
  BY <1>2 DEF ListedShapes
<1>4. ListedMeshes(g, v) = ListedMeshes(h, w)
  BY <1>3 DEF ListedMeshes, SameSettings
<1> QED BY <1>3, <1>4

LEMMA SameRows ==
  ASSUME NEW g, NEW v, NEW w, SameSettings(v, w)
  PROVE  \A matches : VisibleRows(g, v, matches) = VisibleRows(g, w, matches)
<1> TAKE matches
<1>1. {m \in matches : isMatchVisible(g, v, m)} = {m \in matches : isMatchVisible(g, w, m)}
  BY DEF isMatchVisible, SameSettings
<1> QED BY <1>1, Zenon DEF VisibleRows

-----------------------------------------------------------------------------
(* What each handler leaves of the viewer. *)

Fields == {"open", "filter", "only", "disabled", "search", "meshes", "mesh", "shapes",
           "shape", "usesOf", "combo", "use", "rows", "win", "files", "of", "behind"}

IsView(v) == DOMAIN v = Fields /\ v = [f \in Fields |-> v[f]]

LEMMA ClosedIsView == IsView(Closed)
BY DEF Closed, IsView, Fields

(* What no handler of a selection changes. *)
Keeps(w, v) == SameSettings(v, w) /\ w.open = v.open /\ w.files = v.files

LEMMA NoRowsView ==
  ASSUME NEW v, IsView(v), NEW w, w = NoRows(v)
  PROVE  /\ IsView(w) /\ Keeps(w, v)
         /\ w.meshes = v.meshes /\ w.mesh = v.mesh /\ w.shapes = v.shapes
         /\ w.shape = v.shape /\ w.usesOf = v.usesOf /\ w.combo = v.combo
         /\ w.use = v.use /\ w.rows = <<>> /\ w.win = 0
         /\ w.behind = v.behind \ {"rows"}
BY DEF IsView, Fields, NoRows, Keeps, SameSettings

Shown(g, v, mesh, shape) ==
  IF shape = None THEN <<>>
  ELSE VisibleRows(g, v, buildDisplayMatches(Meta[mesh][shape], v.use))

Winner(g, use, rows) == IF use # 0 /\ rows # <<>> /\ IsEnabled(g, rows[1].mod) THEN 1 ELSE 0

LEMMA MatchListView ==
  ASSUME NEW g, NEW v, NEW mesh, NEW shape, NEW w,
         IsView(v), w = populateMatchList(g, v, mesh, shape)
  PROVE  /\ IsView(w) /\ Keeps(w, v)
         /\ w.meshes = v.meshes /\ w.mesh = v.mesh /\ w.shapes = v.shapes
         /\ w.shape = v.shape /\ w.usesOf = v.usesOf /\ w.combo = v.combo
         /\ w.use = v.use /\ w.rows = Shown(g, v, mesh, shape)
         /\ w.win = Winner(g, v.use, Shown(g, v, mesh, shape))
         /\ w.of[1] = mesh /\ w.of[2] = shape /\ w.of[3] = v.use
         /\ w.behind = v.behind \ {"rows"}
<1> DEFINE rows == Shown(g, v, mesh, shape)
           of == <<mesh, shape, v.use>>
<1>1. w = [v EXCEPT !.rows = rows, !.win = Winner(g, v.use, rows),
                    !.of = of, !.behind = v.behind \ {"rows"}]
  BY DEF populateMatchList, Shown, Winner
<1> HIDE DEF rows, of
<1>2. /\ IsView(w) /\ Keeps(w, v)
      /\ w.meshes = v.meshes /\ w.mesh = v.mesh /\ w.shapes = v.shapes
      /\ w.shape = v.shape /\ w.usesOf = v.usesOf /\ w.combo = v.combo
      /\ w.use = v.use /\ w.rows = rows /\ w.win = Winner(g, v.use, rows)
      /\ w.of = of /\ w.behind = v.behind \ {"rows"}
  BY <1>1 DEF IsView, Fields, Keeps, SameSettings
<1> QED BY <1>2 DEF rows, of

LEMMA MeshSelectedView ==
  ASSUME NEW g, NEW v, NEW mesh, NEW w, IsView(v), w = onMeshSelected(g, v, mesh)
  PROVE  /\ IsView(w) /\ Keeps(w, v)
         /\ w.meshes = v.meshes /\ w.mesh = mesh /\ w.shape = None
         /\ w.shapes = ListedShapes(g, w, mesh)
         /\ w.usesOf = mesh /\ w.combo = 0 /\ w.use = 0 /\ w.rows = <<>> /\ w.win = 0
         /\ w.behind = v.behind \ {"rows", "shapes"}
<1> DEFINE x == [v EXCEPT !.mesh = mesh]
           y == NoRows(x)
           listed == ListedShapes(g, x, mesh)
<1>1. /\ IsView(x) /\ Keeps(x, v) /\ x.mesh = mesh
      /\ x.meshes = v.meshes /\ x.behind = v.behind
  BY DEF IsView, Fields, Keeps, SameSettings
<1>2. w = [[y EXCEPT !.shapes = listed, !.shape = None, !.behind = y.behind \ {"shapes"}]
             EXCEPT !.usesOf = mesh, !.combo = 0, !.use = 0]
  BY DEF onMeshSelected, populatePluginUseList, populateShapeList
<1> HIDE DEF x
<1>3. /\ IsView(y) /\ Keeps(y, x) /\ y.mesh = mesh /\ y.meshes = v.meshes
      /\ y.rows = <<>> /\ y.win = 0 /\ y.behind = v.behind \ {"rows"}
  BY <1>1, NoRowsView
<1> HIDE DEF y, listed
<1>4. /\ IsView(w) /\ Keeps(w, y)
      /\ w.meshes = y.meshes /\ w.mesh = y.mesh /\ w.shapes = listed /\ w.shape = None
      /\ w.usesOf = mesh /\ w.combo = 0 /\ w.use = 0 /\ w.rows = y.rows /\ w.win = y.win
      /\ w.behind = y.behind \ {"shapes"}
  BY <1>2, <1>3 DEF IsView, Fields, Keeps, SameSettings
<1>5. Keeps(w, v) /\ SameSettings(x, w)
  BY <1>1, <1>3, <1>4 DEF Keeps, SameSettings
<1>6. listed = ListedShapes(g, w, mesh) BY <1>5, SameLists DEF listed
<1>7. w.behind = v.behind \ {"rows", "shapes"} BY <1>3, <1>4
<1> QED BY <1>3, <1>4, <1>5, <1>6, <1>7

LEMMA MeshDeselectedView ==
  ASSUME NEW v, IsView(v), NEW w, w = onMeshDeselected(v)
  PROVE  /\ IsView(w) /\ Keeps(w, v)
         /\ w.meshes = v.meshes /\ w.mesh = None /\ w.shapes = {} /\ w.shape = None
         /\ w.usesOf = None /\ w.combo = 0 /\ w.use = 0 /\ w.rows = <<>> /\ w.win = 0
         /\ w.behind = v.behind \ {"rows", "shapes"}
<1> DEFINE y == NoRows(v)
<1>1. w = [y EXCEPT !.mesh = None, !.shapes = {}, !.shape = None, !.usesOf = None,
                    !.combo = 0, !.use = 0, !.behind = y.behind \ {"shapes"}]
  BY DEF onMeshDeselected
<1>2. /\ IsView(y) /\ Keeps(y, v) /\ y.meshes = v.meshes
      /\ y.rows = <<>> /\ y.win = 0 /\ y.behind = v.behind \ {"rows"}
  BY NoRowsView
<1> HIDE DEF y
<1>3. /\ IsView(w) /\ Keeps(w, y)
      /\ w.meshes = y.meshes /\ w.mesh = None /\ w.shapes = {} /\ w.shape = None
      /\ w.usesOf = None /\ w.combo = 0 /\ w.use = 0 /\ w.rows = y.rows /\ w.win = y.win
      /\ w.behind = y.behind \ {"shapes"}
  BY <1>1, <1>2 DEF IsView, Fields, Keeps, SameSettings
<1>4. Keeps(w, v) BY <1>2, <1>3 DEF Keeps, SameSettings
<1> QED BY <1>2, <1>3, <1>4

LEMMA MeshListView ==
  ASSUME NEW g, NEW v, IsView(v), NEW w, w = rebuildMeshList(g, v)
  PROVE  /\ IsView(w) /\ Keeps(w, v)
         /\ w.meshes = ListedMeshes(g, w) /\ w.mesh = None /\ w.shapes = {} /\ w.shape = None
         /\ w.usesOf = v.usesOf /\ w.use = v.use /\ w.rows = <<>> /\ w.win = 0
         /\ w.behind = {}
<1> DEFINE y == NoRows(v)
           listed == ListedMeshes(g, v)
<1>1. w = [y EXCEPT !.meshes = listed, !.mesh = None, !.shapes = {}, !.shape = None,
                    !.behind = {}]
  BY DEF rebuildMeshList
<1>2. /\ IsView(y) /\ Keeps(y, v) /\ y.usesOf = v.usesOf /\ y.use = v.use
      /\ y.rows = <<>> /\ y.win = 0
  BY NoRowsView
<1> HIDE DEF y, listed
<1>3. /\ IsView(w) /\ Keeps(w, y)
      /\ w.meshes = listed /\ w.mesh = None /\ w.shapes = {} /\ w.shape = None
      /\ w.usesOf = y.usesOf /\ w.use = y.use /\ w.rows = y.rows /\ w.win = y.win
      /\ w.behind = {}
  BY <1>1, <1>2 DEF IsView, Fields, Keeps, SameSettings
<1>4. Keeps(w, v) BY <1>2, <1>3 DEF Keeps, SameSettings
<1>5. listed = ListedMeshes(g, w) BY <1>4, SameLists DEF listed, Keeps
<1> QED BY <1>2, <1>3, <1>4, <1>5

-----------------------------------------------------------------------------
(* A viewer whose selection is well formed, whose matches are those of the  *)
(* selection and whose lists are current.                                   *)

Selection(v) ==
  /\ v.meshes \subseteq Meshes
  /\ v.mesh \in v.meshes \cup {None}
  /\ v.shapes \subseteq (IF v.mesh = None THEN {} ELSE Shapes(v.mesh))
  /\ v.shape \in v.shapes \cup {None}
  /\ v.mesh # None => v.usesOf = v.mesh
  /\ v.usesOf \in Meshes \cup {None}
  /\ v.use \in (IF v.usesOf = None THEN {0} ELSE 0 .. UseCount[v.usesOf])
  /\ v.win \in {0} \cup DOMAIN v.rows
  /\ v.behind \subseteq Parts

RowsRight(v) ==
  v.rows # <<>> =>
    /\ v.mesh # None
    /\ v.of[1] = v.mesh /\ v.of[3] = v.use
    /\ IF v.shape = None THEN v.of[2] \notin v.shapes ELSE v.of[2] = v.shape

Current(g, v) ==
  /\ "meshes" \notin v.behind => v.meshes = ListedMeshes(g, v)
  /\ "shapes" \notin v.behind /\ v.mesh # None => v.shapes = ListedShapes(g, v, v.mesh)
  /\ "rows" \notin v.behind /\ v.shape # None =>
       v.rows = Shown(g, v, v.mesh, v.shape) /\ v.win = Winner(g, v.use, v.rows)

LEMMA MatchesTyped ==
  ASSUME NEW mesh \in Meshes, NEW shape \in Shapes(mesh), NEW use, use # 0
  PROVE  LET D == buildDisplayMatches(Meta[mesh][shape], use)
         IN /\ IsFiniteSet(D)
            /\ \A x \in D : x.mod \in Mods \cup {Untracked} /\ x.as \in Int /\ x.path \in Int
<1> DEFINE found == Meta[mesh][shape]
<1>1. \A u \in DOMAIN found :
         /\ IsFiniteSet(found[u])
         /\ \A x \in found[u] : x.mod \in Mods \cup {Untracked} /\ x.as \in Int /\ x.path \in Int
  BY ConflictViewAssumption DEF ConflictViewAssumption
<1>2. buildDisplayMatches(found, use) = IF use \in DOMAIN found THEN found[use] ELSE {}
  BY DEF buildDisplayMatches
<1> QED BY <1>1, <1>2, FS_EmptySet

Visible(g, v, matches) == {m \in matches : isMatchVisible(g, v, m)}

LEMMA SortedDomain ==
  ASSUME NEW g, NEW V, IsFiniteSet(V)
  PROVE  /\ V = {} => sortMatches(g, V) = <<>>
         /\ V # {} => sortMatches(g, V) # <<>> /\ 1 \in DOMAIN sortMatches(g, V)
<1>1. DOMAIN sortMatches(g, V) = 1 .. Cardinality(V) BY DEF sortMatches
<1>2. Cardinality(V) \in Nat /\ (Cardinality(V) = 0 <=> V = {})
  BY FS_CardinalityType, FS_EmptySet
<1>3. ASSUME V # {} PROVE 1 \in DOMAIN sortMatches(g, V)
  BY <1>1, <1>2, <1>3
<1>4. ASSUME V = {} PROVE sortMatches(g, V) = <<>>
  <2>1. 1 .. Cardinality(V) = {} BY <1>2, <1>4
  <2>2. DOMAIN sortMatches(g, V) = {} BY <1>1, <2>1
  <2> DEFINE e(i) == CHOOSE m \in V :
                 Cardinality({x \in V : SortsBefore(Rank(g), x, m)}) = i - 1
  <2>3. sortMatches(g, V) = [i \in 1 .. Cardinality(V) |-> e(i)] BY DEF sortMatches
  <2> HIDE DEF e
  <2>4. [i \in 1 .. Cardinality(V) |-> e(i)] = <<>> BY <2>1
  <2> QED BY <2>3, <2>4
<1>5. DOMAIN <<>> = {} OBVIOUS
<1> QED BY <1>3, <1>4, <1>5

LEMMA ShownFirst ==
  ASSUME NEW g, NEW v, NEW mesh \in Meshes, NEW shape \in Shapes(mesh) \cup {None},
         v.use # 0, Shown(g, v, mesh, shape) # <<>>
  PROVE  1 \in DOMAIN Shown(g, v, mesh, shape)
<1>1. shape \in Shapes(mesh) /\ shape # None BY DEF Shown
<1> DEFINE D == buildDisplayMatches(Meta[mesh][shape], v.use)
           V == Visible(g, v, D)
<1>2. Shown(g, v, mesh, shape) = sortMatches(g, V)
  BY <1>1 DEF Shown, VisibleRows, Visible
<1>3. IsFiniteSet(V)
  <2>1. IsFiniteSet(D) BY <1>1, MatchesTyped
  <2>2. V \subseteq D BY DEF Visible
  <2> QED BY <2>1, <2>2, FS_Subset
<1> HIDE DEF V
<1> QED BY <1>2, <1>3, SortedDomain

LEMMA WinnerInRows ==
  ASSUME NEW g, NEW v, NEW mesh \in Meshes, NEW shape \in Shapes(mesh) \cup {None}
  PROVE  Winner(g, v.use, Shown(g, v, mesh, shape))
           \in {0} \cup DOMAIN Shown(g, v, mesh, shape)
BY ShownFirst DEF Winner

(* Filling the rows for the selection makes them right and current. *)
LEMMA SameShown ==
  ASSUME NEW g, NEW v, NEW w, NEW mesh, NEW shape, Keeps(w, v), w.use = v.use
  PROVE  Shown(g, v, mesh, shape) = Shown(g, w, mesh, shape)
<1>1. \A matches : VisibleRows(g, v, matches) = VisibleRows(g, w, matches)
  BY SameRows DEF Keeps, SameSettings
<1> QED BY <1>1 DEF Shown

(* Every rebuild, with and without the use, with and without the matches of *)
(* a shape that is not listed any more.                                     *)
LEMMA RebuiltView ==
  ASSUME NEW g, NEW v, IsView(v), Selection(v), NEW keepsUse \in BOOLEAN,
         NEW onlyListed \in BOOLEAN, NEW w, w = Rebuilt(g, v, keepsUse, onlyListed)
  PROVE  /\ IsView(w) /\ Keeps(w, v)
         /\ Selection(w) /\ RowsRight(w) /\ Current(g, w)
<1> DEFINE empty == rebuildMeshList(g, v)
           again == onMeshSelected(g, empty, v.mesh)
           use == IF keepsUse THEN v.use ELSE 0
           restored == [again EXCEPT
                          !.use = use, !.combo = use,
                          !.shape = IF v.shape \in again.shapes THEN v.shape ELSE None]
<1>1. w = IF v.mesh \notin empty.meshes THEN empty
          ELSE IF onlyListed /\ restored.shape = None THEN restored
          ELSE populateMatchList(g, restored, v.mesh, v.shape)
  BY DEF Rebuilt
<1>2. /\ IsView(empty) /\ Keeps(empty, v)
      /\ empty.meshes = ListedMeshes(g, empty) /\ empty.mesh = None /\ empty.shapes = {}
      /\ empty.shape = None /\ empty.usesOf = v.usesOf /\ empty.use = v.use
      /\ empty.rows = <<>> /\ empty.win = 0 /\ empty.behind = {}
  BY MeshListView
<1> HIDE DEF empty
<1>3. /\ IsView(again) /\ Keeps(again, empty)
      /\ again.meshes = empty.meshes /\ again.mesh = v.mesh /\ again.shape = None
      /\ again.shapes = ListedShapes(g, again, v.mesh)
      /\ again.usesOf = v.mesh /\ again.use = 0 /\ again.rows = <<>> /\ again.win = 0
      /\ again.behind = {}
  BY <1>2, MeshSelectedView
<1> HIDE DEF again
<1>4. /\ IsView(restored) /\ Keeps(restored, again)
      /\ restored.meshes = empty.meshes /\ restored.mesh = v.mesh
      /\ restored.shapes = again.shapes
      /\ restored.shape = IF v.shape \in again.shapes THEN v.shape ELSE None
      /\ restored.usesOf = v.mesh /\ restored.use = use
      /\ restored.rows = <<>> /\ restored.win = 0 /\ restored.behind = {}
  BY <1>3 DEF IsView, Fields, Keeps, SameSettings
<1> HIDE DEF restored
<1>5. empty.meshes \subseteq Meshes
  BY <1>2 DEF ListedMeshes
<1>6. ASSUME v.mesh \notin empty.meshes
      PROVE  /\ IsView(w) /\ Keeps(w, v) /\ Selection(w) /\ RowsRight(w) /\ Current(g, w)
  <2>1. w = empty BY <1>1, <1>6
  <2> QED BY <2>1, <1>2, <1>5 DEF Selection, RowsRight, Current
<1>7. ASSUME v.mesh \in empty.meshes
      PROVE  /\ IsView(w) /\ Keeps(w, v) /\ Selection(w) /\ RowsRight(w) /\ Current(g, w)
  <2>1. v.mesh \in Meshes /\ v.mesh # None
    BY <1>5, <1>7, ConflictViewAssumption DEF ConflictViewAssumption
  <2>2. /\ v.usesOf = v.mesh /\ v.use \in 0 .. UseCount[v.mesh]
        /\ v.shapes \subseteq Shapes(v.mesh) /\ v.shape \in Shapes(v.mesh) \cup {None}
    BY <2>1 DEF Selection
  <2>3. use \in 0 .. UseCount[v.mesh] BY <2>1, <2>2, ConflictViewAssumption DEF ConflictViewAssumption
  <2>4. again.shapes \subseteq Shapes(v.mesh) BY <1>3 DEF ListedShapes
  <2>5. Keeps(restored, v) /\ Keeps(empty, restored) /\ Keeps(again, restored)
    BY <1>2, <1>3, <1>4 DEF Keeps, SameSettings
  <2>6. empty.meshes = ListedMeshes(g, restored)
    BY <1>2, <2>5, SameLists DEF Keeps
  <2>7. again.shapes = ListedShapes(g, restored, v.mesh)
    <3>1. SameSettings(restored, again) BY <2>5 DEF Keeps
    <3>2. \A mesh : ListedShapes(g, again, mesh) = ListedShapes(g, restored, mesh)
      BY <3>1, SameLists
    <3> QED BY <1>3, <3>2
  <2> HIDE DEF use
  <2>8. None \notin again.shapes
    BY <2>1, <2>4, ConflictViewAssumption DEF ConflictViewAssumption
  <2>9. CASE onlyListed /\ restored.shape = None
    <3>1. w = restored BY <1>1, <1>7, <2>9
    <3>2. Selection(restored) BY <1>4, <1>7, <1>5, <2>1, <2>3, <2>4 DEF Selection
    <3>3. RowsRight(restored) BY <1>4 DEF RowsRight
    <3>4. Current(g, restored) BY <1>4, <2>6, <2>7, <2>9 DEF Current
    <3> QED BY <3>1, <3>2, <3>3, <3>4, <1>4, <2>5
  <2>10. CASE ~ (onlyListed /\ restored.shape = None)
    <3> DEFINE rows == Shown(g, restored, v.mesh, v.shape)
    <3>1. w = populateMatchList(g, restored, v.mesh, v.shape) BY <1>1, <1>7, <2>10
    <3>2. /\ IsView(w) /\ Keeps(w, restored)
          /\ w.meshes = empty.meshes /\ w.mesh = v.mesh /\ w.shapes = again.shapes
          /\ w.shape = restored.shape /\ w.usesOf = v.mesh /\ w.use = use
          /\ w.rows = rows /\ w.win = Winner(g, use, rows)
          /\ w.of[1] = v.mesh /\ w.of[2] = v.shape /\ w.of[3] = use
          /\ w.behind = {}
      <4>1. /\ IsView(w) /\ Keeps(w, restored)
            /\ w.meshes = restored.meshes /\ w.mesh = restored.mesh
            /\ w.shapes = restored.shapes /\ w.shape = restored.shape
            /\ w.usesOf = restored.usesOf /\ w.use = restored.use
            /\ w.rows = rows /\ w.win = Winner(g, restored.use, rows)
            /\ w.of[1] = v.mesh /\ w.of[2] = v.shape /\ w.of[3] = restored.use
            /\ w.behind = restored.behind \ {"rows"}
        <5>1. IsView(restored) BY <1>4
        <5> QED BY <3>1, <5>1, MatchListView
      <4> HIDE DEF rows
      <4> QED BY <4>1, <1>4
    <3>3. w.win \in {0} \cup DOMAIN w.rows BY <3>2, <1>4, <2>1, <2>2, WinnerInRows
    <3>4. Selection(w)
      BY <3>2, <3>3, <1>4, <1>7, <1>5, <2>1, <2>3, <2>4 DEF Selection
    <3>6. v.shape = None => rows = <<>> BY DEF Shown
    <3>7. RowsRight(w)
      BY <3>2, <3>6, <1>4, <2>1, <2>8 DEF RowsRight
    <3>8. rows = Shown(g, w, v.mesh, v.shape)
      BY <3>2, <1>4, SameShown
    <3>9. ListedMeshes(g, restored) = ListedMeshes(g, w)
          /\ ListedShapes(g, restored, v.mesh) = ListedShapes(g, w, v.mesh)
      BY <3>2, SameLists DEF Keeps, SameSettings
    <3>10. w.shape # None => w.shape = v.shape BY <3>2, <1>4
    <3>11. Current(g, w)
      BY <3>2, <3>8, <3>9, <3>10, <2>6, <2>7 DEF Current
    <3>12. Keeps(w, v) BY <3>2, <2>5 DEF Keeps, SameSettings
    <3> QED BY <3>2, <3>4, <3>7, <3>11, <3>12
  <2> QED BY <2>9, <2>10
<1> QED BY <1>6, <1>7

LEMMA PopulatedView ==
  ASSUME NEW g, NEW v, IsView(v), Selection(v), v.mesh # None, v.shape # None,
         "meshes" \notin v.behind => v.meshes = ListedMeshes(g, v),
         "shapes" \notin v.behind => v.shapes = ListedShapes(g, v, v.mesh),
         NEW w, w = populateMatchList(g, v, v.mesh, v.shape)
  PROVE  /\ IsView(w) /\ Keeps(w, v) /\ w.shape = v.shape
         /\ Selection(w) /\ RowsRight(w) /\ Current(g, w)
<1> DEFINE rows == Shown(g, v, v.mesh, v.shape)
<1>1. /\ IsView(w) /\ Keeps(w, v)
      /\ w.meshes = v.meshes /\ w.mesh = v.mesh /\ w.shapes = v.shapes
      /\ w.shape = v.shape /\ w.usesOf = v.usesOf
      /\ w.use = v.use /\ w.rows = rows /\ w.win = Winner(g, v.use, rows)
      /\ w.of[1] = v.mesh /\ w.of[2] = v.shape /\ w.of[3] = v.use
      /\ w.behind = v.behind \ {"rows"}
  BY MatchListView
<1>2. v.mesh \in Meshes /\ v.shape \in Shapes(v.mesh) BY DEF Selection
<1>3. w.win \in {0} \cup DOMAIN w.rows BY <1>1, <1>2, WinnerInRows
<1>4. rows = Shown(g, w, v.mesh, v.shape) BY <1>1, SameShown
<1>5. ListedMeshes(g, v) = ListedMeshes(g, w)
      /\ ListedShapes(g, v, v.mesh) = ListedShapes(g, w, v.mesh)
  BY <1>1, SameLists DEF Keeps, SameSettings
<1> HIDE DEF rows
<1>6. Selection(w) BY <1>1, <1>3 DEF Selection
<1>7. RowsRight(w) BY <1>1 DEF RowsRight
<1>8. Current(g, w)
  <2>1. w.behind \subseteq v.behind /\ "rows" \notin w.behind BY <1>1
  <2>2. "meshes" \notin w.behind => w.meshes = ListedMeshes(g, w)
    BY <1>1, <1>5
  <2>3. "shapes" \notin w.behind => w.shapes = ListedShapes(g, w, w.mesh)
    BY <1>1, <1>5
  <2>4. w.rows = Shown(g, w, w.mesh, w.shape) /\ w.win = Winner(g, w.use, w.rows)
    BY <1>1, <1>4
  <2> QED BY <2>2, <2>3, <2>4 DEF Current
<1> QED BY <1>1, <1>6, <1>7, <1>8

-----------------------------------------------------------------------------
(* The invariant. *)

ModStates == [Mods -> [on : BOOLEAN, priority : 0 .. Cardinality(Mods)]]
Managers == [rows : Orders, mods : ModStates]

GoodView(g, v) ==
  /\ IsView(v) /\ Selection(v) /\ RowsRight(v)
  /\ v.open => Current(g, v)
  /\ ~ v.open => v.shape = None /\ v.files = {}

IInv ==
  /\ manager \in Managers
  /\ GoodView(manager, view)
  /\ temp \subseteq view.files \cup leaked

LEMMA InitOK == Init => IInv
<1> SUFFICES ASSUME Init PROVE IInv OBVIOUS
<1>1. PICK rows \in Orders :
        manager = [rows |-> rows,
                   mods |-> Written(rows, [m \in Mods |-> [on |-> TRUE, priority |-> 0]])]
  BY DEF Init
<1>2. [m \in Mods |-> [on |-> TRUE, priority |-> 0]] \in ModStates
  <2>1. 0 \in 0 .. Cardinality(Mods)
    BY ConflictViewAssumption, FS_CardinalityType DEF ConflictViewAssumption
  <2> QED BY <2>1 DEF ModStates
<1>3. Written(rows, [m \in Mods |-> [on |-> TRUE, priority |-> 0]]) \in ModStates
  BY <1>2, WrittenTyped DEF ModStates
<1>4. manager \in Managers BY <1>1, <1>3 DEF Managers
<1>5. view = Closed /\ temp = {} BY DEF Init
<1>6. Selection(Closed) /\ RowsRight(Closed) /\ ~ Closed.open /\ Closed.shape = None
      /\ Closed.files = {}
  BY DEF Closed, Selection, RowsRight
<1> QED BY <1>4, <1>5, <1>6, ClosedIsView DEF IInv, GoodView

(* A viewer rebuilt from one that differs only in a setting is good. *)
LEMMA RebuiltGood ==
  ASSUME NEW g, NEW v, IsView(v), Selection(v), v.open, NEW k \in BOOLEAN, NEW o \in BOOLEAN
  PROVE  GoodView(g, Rebuilt(g, v, k, o)) /\ Rebuilt(g, v, k, o).files = v.files
<1> DEFINE w == Rebuilt(g, v, k, o)
<1>1. IsView(w) /\ Keeps(w, v) /\ Selection(w) /\ RowsRight(w) /\ Current(g, w)
  BY RebuiltView
<1> HIDE DEF w
<1>2. GoodView(g, w) /\ w.files = v.files BY <1>1 DEF GoodView, Keeps
<1> QED BY <1>2 DEF w

BehindOf(v, parts) == [v EXCEPT !.behind = IF v.open THEN @ \cup parts ELSE @]

(* The parts that a change of the manager leaves current. *)
LEMMA BehindGood ==
  ASSUME NEW g, NEW h, NEW v, GoodView(g, v), NEW parts \in SUBSET Parts,
         \/ parts = Parts
         \/ "rows" \in parts /\ g.mods = h.mods,
         NEW w, w = BehindOf(v, parts)
  PROVE  GoodView(h, w) /\ w.files = v.files
<1> DEFINE b == IF v.open THEN v.behind \cup parts ELSE v.behind
<1>1. /\ IsView(w) /\ Keeps(w, v) /\ w.meshes = v.meshes /\ w.mesh = v.mesh
      /\ w.shapes = v.shapes /\ w.shape = v.shape /\ w.usesOf = v.usesOf
      /\ w.use = v.use /\ w.rows = v.rows /\ w.win = v.win /\ w.of = v.of
      /\ w.behind = b
  <2>1. w = [v EXCEPT !.behind = b] BY DEF BehindOf
  <2> HIDE DEF b
  <2> QED BY <2>1 DEF GoodView, IsView, Fields, Keeps, SameSettings
<1>2. Selection(w)
  <2>1. Selection(v) BY DEF GoodView
  <2>2. b \subseteq Parts BY <2>1 DEF Selection
  <2> HIDE DEF b
  <2> QED BY <1>1, <2>1, <2>2 DEF Selection
<1> HIDE DEF b
<1>3. RowsRight(w) BY <1>1 DEF GoodView, RowsRight
<1>4. ASSUME v.open PROVE Current(h, w)
  <2>1. v.behind \subseteq b /\ parts \subseteq b BY <1>4 DEF b
  <2>2. Current(g, v) BY <1>4 DEF GoodView
  <2>3. CASE parts = Parts
    BY <2>1, <2>3, <1>1 DEF Current, Parts
  <2>4. CASE "rows" \in parts /\ g.mods = h.mods
    <3>1. ListedMeshes(g, v) = ListedMeshes(h, w)
          /\ ListedShapes(g, v, v.mesh) = ListedShapes(h, w, v.mesh)
      <4>1. SameSettings(v, w) BY <1>1 DEF Keeps
      <4>2. g.mods = h.mods BY <2>4
      <4> QED BY <4>1, <4>2, SameLists
    <3>2. "rows" \in w.behind BY <1>1, <2>1, <2>4
    <3>3. "meshes" \notin w.behind => w.meshes = ListedMeshes(h, w)
      BY <1>1, <2>1, <2>2, <3>1 DEF Current
    <3>4. "shapes" \notin w.behind /\ w.mesh # None => w.shapes = ListedShapes(h, w, w.mesh)
      BY <1>1, <2>1, <2>2, <3>1 DEF Current
    <3> QED BY <3>2, <3>3, <3>4 DEF Current
  <2> QED BY <2>3, <2>4
<1>5. ~ w.open => w.shape = None /\ w.files = {} BY <1>1 DEF GoodView, Keeps
<1>6. w.open => Current(h, w) BY <1>1, <1>4 DEF Keeps
<1> QED BY <1>1, <1>2, <1>3, <1>5, <1>6 DEF GoodView, Keeps

-----------------------------------------------------------------------------
(* One event at a time. *)

LEMMA ManagerTyped ==
  ASSUME IInv
  PROVE  manager.rows \in Orders /\ manager.mods \in ModStates
BY DEF IInv, Managers

LEMMA LiveEditOK == IInv /\ LiveEdit => IInv'
<1> SUFFICES ASSUME IInv, LiveEdit PROVE IInv' OBVIOUS
<1>1. PICK rows \in Orders :
        /\ manager' = [rows |-> rows, mods |-> Written(rows, manager.mods)]
        /\ view' = IF view.open
                   THEN Rebuilt([rows |-> rows, mods |-> Written(rows, manager.mods)],
                                view, TRUE, TRUE)
                   ELSE view
        /\ temp' = temp /\ leaked' = leaked
  BY DEF LiveEdit
<1>2. manager' \in Managers
  BY <1>1, ManagerTyped, WrittenTyped DEF Managers, ModStates
<1>3. GoodView(manager', view') /\ view'.files = view.files
  <2>1. view' = IF view.open THEN Rebuilt(manager', view, TRUE, TRUE) ELSE view
    BY <1>1
  <2>2. CASE view.open
    BY <2>1, <2>2, RebuiltGood DEF IInv, GoodView
  <2>3. CASE ~ view.open
    BY <2>1, <2>3 DEF IInv, GoodView
  <2> QED BY <2>2, <2>3
<1> QED BY <1>1, <1>2, <1>3 DEF IInv

LEMMA RefillOK == IInv /\ Refill => IInv'
<1> SUFFICES ASSUME IInv, Refill PROVE IInv' OBVIOUS
<1>1. PICK rows \in Orders : manager' = [manager EXCEPT !.rows = rows]
  BY DEF Refill
<1>2. manager' \in Managers /\ manager'.mods = manager.mods
  BY <1>1 DEF IInv, Managers
<1>3. view' = BehindOf(view, {"rows"}) /\ temp' = temp /\ leaked' = leaked
  BY DEF Refill, Behind, BehindOf
<1>4. GoodView(manager', view') /\ view'.files = view.files
  <2>1. {"rows"} \in SUBSET Parts BY DEF Parts
  <2>2. GoodView(manager, view) BY DEF IInv
  <2> QED BY <1>2, <1>3, <2>1, <2>2, BehindGood
<1> QED BY <1>2, <1>3, <1>4 DEF IInv

LEMMA ApplyOK == IInv /\ Apply => IInv'
<1> SUFFICES ASSUME IInv, Apply PROVE IInv' OBVIOUS
<1>1. manager' = [manager EXCEPT !.mods = Written(manager.rows, manager.mods)]
  BY DEF Apply
<1>2. manager' \in Managers
  <2>1. Written(manager.rows, manager.mods) \in ModStates
    BY ManagerTyped, WrittenTyped DEF ModStates
  <2> QED BY <1>1, <2>1 DEF IInv, Managers
<1>3. view' = BehindOf(view, Parts) /\ temp' = temp /\ leaked' = leaked
  BY DEF Apply, Behind, BehindOf
<1>4. GoodView(manager', view') /\ view'.files = view.files
  <2>1. GoodView(manager, view) BY DEF IInv
  <2> QED BY <1>3, <2>1, BehindGood
<1> QED BY <1>2, <1>3, <1>4 DEF IInv

LEMMA OpenOK == IInv /\ openConflictView => IInv'
<1> SUFFICES ASSUME IInv, openConflictView PROVE IInv' OBVIOUS
<1>1. PICK filter \in Filters, all \in BOOLEAN :
        view' = rebuildMeshList(manager, [Closed EXCEPT !.open = TRUE, !.filter = filter,
                                               !.only = ~ all])
  BY DEF openConflictView
<1> DEFINE x == [Closed EXCEPT !.open = TRUE, !.filter = filter, !.only = ~ all]
<1>2. IsView(x) /\ x.open /\ x.usesOf = None /\ x.use = 0 /\ x.files = {}
  BY DEF Closed, IsView, Fields
<1> HIDE DEF x
<1>3. /\ IsView(view') /\ Keeps(view', x)
      /\ view'.meshes = ListedMeshes(manager, view') /\ view'.mesh = None
      /\ view'.shapes = {} /\ view'.shape = None /\ view'.usesOf = None /\ view'.use = 0
      /\ view'.rows = <<>> /\ view'.win = 0 /\ view'.behind = {}
  <2>1. view' = rebuildMeshList(manager, x) BY <1>1 DEF x
  <2> QED BY <1>2, <2>1, MeshListView
<1>4. Selection(view')
  <2>1. view'.meshes \subseteq Meshes BY <1>3 DEF ListedMeshes
  <2> QED BY <1>3, <2>1 DEF Selection
<1>5. RowsRight(view') /\ Current(manager, view')
  BY <1>3 DEF RowsRight, Current
<1>6. GoodView(manager, view') BY <1>2, <1>3, <1>4, <1>5 DEF GoodView, Keeps
<1>7. view.files = {} BY DEF openConflictView, IInv, GoodView
<1> QED BY <1>6, <1>7 DEF IInv, openConflictView

LEMMA SelectMeshOK == IInv /\ SelectMesh => IInv'
<1> SUFFICES ASSUME IInv, SelectMesh PROVE IInv' OBVIOUS
<1>0. PICK x : x = IF view.mesh = None THEN view ELSE onMeshDeselected(view)
  OBVIOUS
<1>1. PICK m \in view.meshes \ {view.mesh} : view' = onMeshSelected(manager, x, m)
  BY <1>0 DEF SelectMesh
<1>2. GoodView(manager, view) /\ view.open BY DEF IInv, SelectMesh, InView
<1>3. IsView(x) /\ Keeps(x, view) /\ x.meshes = view.meshes
      /\ x.behind \subseteq view.behind
      /\ ("meshes" \notin x.behind => "meshes" \notin view.behind)
  <2>1. CASE view.mesh = None
    BY <1>0, <1>2, <2>1 DEF GoodView, Keeps, SameSettings
  <2>2. CASE view.mesh # None
    <3>1. x = onMeshDeselected(view) BY <1>0, <2>2
    <3>2. IsView(x) /\ Keeps(x, view) /\ x.meshes = view.meshes
          /\ x.behind = view.behind \ {"rows", "shapes"}
      BY <3>1, <1>2, MeshDeselectedView DEF GoodView
    <3> QED BY <3>2
  <2> QED BY <2>1, <2>2
<1>4. /\ IsView(view') /\ Keeps(view', x) /\ view'.meshes = x.meshes /\ view'.mesh = m
      /\ view'.shape = None /\ view'.shapes = ListedShapes(manager, view', m)
      /\ view'.usesOf = m /\ view'.use = 0 /\ view'.rows = <<>> /\ view'.win = 0
      /\ view'.behind = x.behind \ {"rows", "shapes"}
  <2>1. IsView(x) BY <1>3
  <2>2. view' = onMeshSelected(manager, x, m) BY <1>1
  <2> QED BY <2>1, <2>2, MeshSelectedView
<1>5. Keeps(view', view) BY <1>3, <1>4 DEF Keeps, SameSettings
<1>6. m \in Meshes /\ m # None /\ UseCount[m] \in Nat
  BY <1>2, ConflictViewAssumption DEF GoodView, Selection, ConflictViewAssumption
<1>7. Selection(view')
  <2>1. view'.shapes \subseteq Shapes(m) BY <1>4 DEF ListedShapes
  <2>2. view'.behind \subseteq Parts BY <1>2, <1>3, <1>4 DEF GoodView, Selection
  <2>3. view.meshes \subseteq Meshes BY <1>2 DEF GoodView, Selection
  <2> QED BY <1>3, <1>4, <1>6, <2>1, <2>2, <2>3 DEF Selection
<1>8. Current(manager, view')
  <2>1. ListedMeshes(manager, view) = ListedMeshes(manager, view')
    <3>1. SameSettings(view', view) BY <1>5 DEF Keeps, SameSettings
    <3> QED BY <3>1, SameLists
  <2>2. "meshes" \notin view'.behind => view'.meshes = ListedMeshes(manager, view')
    BY <1>2, <1>3, <1>4, <2>1 DEF GoodView, Current
  <2> QED BY <1>4, <2>2 DEF Current
<1>9. RowsRight(view') BY <1>4 DEF RowsRight
<1>10. GoodView(manager, view') /\ view'.files = view.files
  BY <1>2, <1>4, <1>5, <1>7, <1>8, <1>9 DEF GoodView, Keeps
<1> QED BY <1>10 DEF IInv, SelectMesh, InView

LEMMA DeselectMeshOK == IInv /\ DeselectMesh => IInv'
<1> SUFFICES ASSUME IInv, DeselectMesh PROVE IInv' OBVIOUS
<1>1. GoodView(manager, view) /\ view.open BY DEF IInv, DeselectMesh, InView
<1>2. /\ IsView(view') /\ Keeps(view', view)
      /\ view'.meshes = view.meshes /\ view'.mesh = None /\ view'.shapes = {}
      /\ view'.shape = None /\ view'.usesOf = None /\ view'.use = 0
      /\ view'.rows = <<>> /\ view'.win = 0
      /\ view'.behind = view.behind \ {"rows", "shapes"}
  BY <1>1, MeshDeselectedView DEF DeselectMesh, GoodView
<1>3. Selection(view') BY <1>1, <1>2 DEF GoodView, Selection
<1>4. Current(manager, view')
  <2>1. ListedMeshes(manager, view) = ListedMeshes(manager, view')
    <3>1. SameSettings(view', view) BY <1>2 DEF Keeps, SameSettings
    <3> QED BY <3>1, SameLists
  <2> QED BY <1>1, <1>2, <2>1 DEF GoodView, Current
<1>5. RowsRight(view') BY <1>2 DEF RowsRight
<1>6. GoodView(manager, view') /\ view'.files = view.files
  BY <1>1, <1>2, <1>3, <1>4, <1>5 DEF GoodView, Keeps
<1> QED BY <1>6 DEF IInv, DeselectMesh, InView

LEMMA ShapeSelectedOK == IInv /\ onShapeSelected => IInv'
<1> SUFFICES ASSUME IInv, onShapeSelected PROVE IInv' OBVIOUS
<1>1. PICK s \in view.shapes \ {view.shape} :
        view' = populateMatchList(manager, [view EXCEPT !.shape = s], view.mesh, s)
  BY DEF onShapeSelected
<1>2. GoodView(manager, view) /\ view.open BY DEF IInv, onShapeSelected, InView
<1>3. Selection(view) /\ Current(manager, view) /\ IsView(view) BY <1>2 DEF GoodView
<1>4. view.mesh # None /\ view.mesh \in Meshes /\ s \in Shapes(view.mesh) /\ s # None
  BY <1>3, ConflictViewAssumption DEF Selection, ConflictViewAssumption
<1> DEFINE x == [view EXCEPT !.shape = s]
<1>5. /\ IsView(x) /\ Keeps(x, view) /\ x.shape = s /\ x.meshes = view.meshes
      /\ x.mesh = view.mesh /\ x.shapes = view.shapes /\ x.usesOf = view.usesOf
      /\ x.use = view.use /\ x.rows = view.rows /\ x.win = view.win
      /\ x.behind = view.behind
  BY <1>3 DEF IsView, Fields, Keeps, SameSettings
<1>6. view' = populateMatchList(manager, x, x.mesh, x.shape) BY <1>1, <1>5
<1> HIDE DEF x
<1>7. Selection(x) BY <1>1, <1>3, <1>5 DEF Selection
<1>8. ListedMeshes(manager, view) = ListedMeshes(manager, x)
      /\ ListedShapes(manager, view, x.mesh) = ListedShapes(manager, x, x.mesh)
  <2>1. SameSettings(x, view) BY <1>5 DEF Keeps, SameSettings
  <2> QED BY <2>1, SameLists
<1>9. /\ "meshes" \notin x.behind => x.meshes = ListedMeshes(manager, x)
      /\ "shapes" \notin x.behind => x.shapes = ListedShapes(manager, x, x.mesh)
  BY <1>3, <1>4, <1>5, <1>8 DEF Current
<1>10. /\ IsView(view') /\ Keeps(view', x)
       /\ Selection(view') /\ RowsRight(view') /\ Current(manager, view')
  BY <1>4, <1>5, <1>6, <1>7, <1>9, PopulatedView
<1>11. GoodView(manager, view') /\ view'.files = view.files
  BY <1>2, <1>5, <1>10 DEF GoodView, Keeps
<1> QED BY <1>11 DEF IInv, onShapeSelected, InView

LEMMA ShapeDeselectedOK == IInv /\ onShapeDeselected => IInv'
<1> SUFFICES ASSUME IInv, onShapeDeselected PROVE IInv' OBVIOUS
<1>1. GoodView(manager, view) /\ view.open BY DEF IInv, onShapeDeselected, InView
<1>2. Selection(view) /\ Current(manager, view) /\ IsView(view) BY <1>1 DEF GoodView
<1> DEFINE x == [view EXCEPT !.shape = None]
<1>3. /\ IsView(x) /\ Keeps(x, view) /\ x.shape = None /\ x.meshes = view.meshes
      /\ x.mesh = view.mesh /\ x.shapes = view.shapes /\ x.usesOf = view.usesOf
      /\ x.use = view.use /\ x.behind = view.behind
  BY <1>2 DEF IsView, Fields, Keeps, SameSettings
<1>4. view' = NoRows(x) BY DEF onShapeDeselected
<1> HIDE DEF x
<1>5. /\ IsView(view') /\ Keeps(view', x)
      /\ view'.meshes = x.meshes /\ view'.mesh = x.mesh /\ view'.shapes = x.shapes
      /\ view'.shape = None /\ view'.usesOf = x.usesOf /\ view'.use = x.use
      /\ view'.rows = <<>> /\ view'.win = 0 /\ view'.behind = x.behind \ {"rows"}
  BY <1>3, <1>4, NoRowsView
<1>6. Keeps(view', view) BY <1>3, <1>5 DEF Keeps, SameSettings
<1>7. Selection(view') BY <1>2, <1>3, <1>5 DEF Selection
<1>8. Current(manager, view')
  <2>1. SameSettings(view', view) BY <1>6 DEF Keeps, SameSettings
  <2>2. ListedMeshes(manager, view) = ListedMeshes(manager, view')
        /\ ListedShapes(manager, view, view.mesh) = ListedShapes(manager, view', view.mesh)
    BY <2>1, SameLists
  <2> QED BY <1>2, <1>3, <1>5, <2>2 DEF Current
<1>9. RowsRight(view') BY <1>5 DEF RowsRight
<1>10. GoodView(manager, view') /\ view'.files = view.files
  BY <1>1, <1>5, <1>6, <1>7, <1>8, <1>9 DEF GoodView, Keeps
<1> QED BY <1>10 DEF IInv, onShapeDeselected, InView

(* No list depends on the choice shown in the combo box or on the files to   *)
(* delete.                                                                  *)
LEMMA OtherFieldsGood ==
  ASSUME NEW g, NEW v, NEW w, GoodView(g, v), IsView(w), SameSettings(w, v),
         w.open = v.open, w.meshes = v.meshes, w.mesh = v.mesh,
         w.shapes = v.shapes, w.shape = v.shape, w.usesOf = v.usesOf,
         w.use = v.use, w.rows = v.rows, w.win = v.win, w.of = v.of,
         w.behind = v.behind, ~ w.open => w.files = {}
  PROVE  GoodView(g, w)
<1>1. Selection(w) BY DEF GoodView, Selection
<1>2. RowsRight(w) BY DEF GoodView, RowsRight
<1>3. ASSUME v.open PROVE Current(g, w)
  <2>1. ListedMeshes(g, v) = ListedMeshes(g, w)
        /\ ListedShapes(g, v, v.mesh) = ListedShapes(g, w, v.mesh)
    BY SameLists
  <2>2. Shown(g, v, v.mesh, v.shape) = Shown(g, w, v.mesh, v.shape)
    <3>1. \A matches : VisibleRows(g, w, matches) = VisibleRows(g, v, matches)
      BY SameRows
    <3> QED BY <3>1 DEF Shown
  <2> QED BY <1>3, <2>1, <2>2 DEF Current, GoodView
<1> QED BY <1>1, <1>2, <1>3 DEF GoodView

LEMMA PluginUseOK == IInv /\ onPluginUseSelected => IInv'
<1> SUFFICES ASSUME IInv, onPluginUseSelected PROVE IInv' OBVIOUS
<1>1. PICK use \in 0 .. UseCount[view.usesOf] :
        view' = IF view.mesh = None \/ view.shape = None THEN [view EXCEPT !.combo = use]
                ELSE populateMatchList(manager, [[view EXCEPT !.combo = use] EXCEPT !.use = use],
                                       view.mesh, view.shape)
  BY DEF onPluginUseSelected
<1> DEFINE shown == [view EXCEPT !.combo = use]
           x == [shown EXCEPT !.use = use]
<1>2. GoodView(manager, view) /\ view.open /\ view.usesOf # None
  BY DEF IInv, onPluginUseSelected, InView
<1>3. GoodView(manager, shown) /\ Keeps(shown, view) /\ shown.mesh = view.mesh
      /\ shown.shape = view.shape /\ shown.usesOf = view.usesOf
  <2>1. /\ IsView(shown) /\ Keeps(shown, view) /\ shown.meshes = view.meshes
        /\ shown.mesh = view.mesh /\ shown.shapes = view.shapes
        /\ shown.shape = view.shape /\ shown.usesOf = view.usesOf
        /\ shown.use = view.use /\ shown.rows = view.rows /\ shown.win = view.win
        /\ shown.of = view.of /\ shown.behind = view.behind
    BY <1>2 DEF GoodView, IsView, Fields, Keeps, SameSettings
  <2> HIDE DEF shown
  <2>2. SameSettings(shown, view) /\ shown.open = view.open BY <2>1 DEF Keeps, SameSettings
  <2> QED BY <1>2, <2>1, <2>2, OtherFieldsGood
<1>4. GoodView(manager, view') /\ view'.files = view.files
  <2>1. CASE view.mesh = None \/ view.shape = None
    <3>1. view' = shown BY <1>1, <2>1
    <3> QED BY <3>1, <1>3 DEF Keeps
  <2>2. CASE ~ (view.mesh = None \/ view.shape = None)
    <3> HIDE DEF shown
    <3>1. IsView(shown) /\ Selection(shown) /\ Current(manager, shown)
      BY <1>2, <1>3 DEF GoodView, Keeps
    <3>2. /\ IsView(x) /\ Keeps(x, shown) /\ x.meshes = shown.meshes /\ x.mesh = shown.mesh
          /\ x.shapes = shown.shapes /\ x.shape = shown.shape /\ x.usesOf = shown.usesOf
          /\ x.use = use /\ x.rows = shown.rows /\ x.win = shown.win
          /\ x.behind = shown.behind
      BY <3>1 DEF IsView, Fields, Keeps, SameSettings
    <3>3. view' = populateMatchList(manager, x, x.mesh, x.shape)
      BY <1>1, <1>3, <2>2, <3>2 DEF shown
    <3> HIDE DEF x
    <3>4. Selection(x) BY <1>1, <1>2, <1>3, <3>1, <3>2 DEF Selection
    <3>5. ListedMeshes(manager, shown) = ListedMeshes(manager, x)
          /\ ListedShapes(manager, shown, x.mesh) = ListedShapes(manager, x, x.mesh)
      <4>1. SameSettings(x, shown) BY <3>2 DEF Keeps, SameSettings
      <4> QED BY <4>1, SameLists
    <3>6. x.mesh # None /\ x.shape # None BY <1>3, <2>2, <3>2
    <3>7. /\ "meshes" \notin x.behind => x.meshes = ListedMeshes(manager, x)
          /\ "shapes" \notin x.behind => x.shapes = ListedShapes(manager, x, x.mesh)
      BY <3>1, <3>2, <3>5, <3>6 DEF Current
    <3>8. /\ IsView(view') /\ Keeps(view', x)
          /\ Selection(view') /\ RowsRight(view') /\ Current(manager, view')
      BY <3>2, <3>3, <3>4, <3>6, <3>7, PopulatedView
    <3> QED BY <1>2, <1>3, <3>2, <3>8 DEF GoodView, Keeps
  <2> QED BY <2>1, <2>2
<1> QED BY <1>4 DEF IInv, onPluginUseSelected, InView

(* A setting changes and everything is rebuilt. *)
LEMMA SettingTyped ==
  ASSUME NEW g, NEW v, GoodView(g, v), v.open, NEW w,
         \/ w = [v EXCEPT !.search = ~ v.search]
         \/ w = [v EXCEPT !.disabled = ~ v.disabled]
         \/ w = [v EXCEPT !.only = ~ v.only]
  PROVE  IsView(w) /\ Selection(w) /\ w.open /\ w.files = v.files
<1>1. /\ IsView(w) /\ w.open = v.open /\ w.files = v.files
      /\ w.meshes = v.meshes /\ w.mesh = v.mesh
      /\ w.shapes = v.shapes /\ w.shape = v.shape /\ w.usesOf = v.usesOf
      /\ w.use = v.use /\ w.rows = v.rows /\ w.win = v.win
      /\ w.behind = v.behind
  <2>1. CASE w = [v EXCEPT !.search = ~ v.search]
    BY <2>1 DEF GoodView, IsView, Fields
  <2>2. CASE w = [v EXCEPT !.disabled = ~ v.disabled]
    BY <2>2 DEF GoodView, IsView, Fields
  <2>3. CASE w = [v EXCEPT !.only = ~ v.only]
    BY <2>3 DEF GoodView, IsView, Fields
  <2> QED BY <2>1, <2>2, <2>3
<1> QED BY <1>1 DEF GoodView, Selection

LEMMA SettingsOK ==
  IInv /\ (onSearchChanged \/ onShowDisabledChanged \/ onShowOnlyConflictsChanged) => IInv'
<1> SUFFICES ASSUME IInv, onSearchChanged \/ onShowDisabledChanged \/ onShowOnlyConflictsChanged
             PROVE IInv'
  OBVIOUS
<1>1. GoodView(manager, view) /\ view.open /\ UNCHANGED <<manager, temp, leaked>>
  BY DEF IInv, onSearchChanged, onShowDisabledChanged, onShowOnlyConflictsChanged, InView
<1> DEFINE searched == [view EXCEPT !.search = ~ view.search]
           disabled == [view EXCEPT !.disabled = ~ view.disabled]
           only == [view EXCEPT !.only = ~ view.only]
<1>2. /\ IsView(searched) /\ Selection(searched) /\ searched.open
      /\ searched.files = view.files
  BY <1>1, SettingTyped
<1>3. /\ IsView(disabled) /\ Selection(disabled) /\ disabled.open
      /\ disabled.files = view.files
  BY <1>1, SettingTyped
<1>4. /\ IsView(only) /\ Selection(only) /\ only.open /\ only.files = view.files
  BY <1>1, SettingTyped
<1>5. GoodView(manager, view') /\ view'.files = view.files
  <2>1. CASE onSearchChanged
    <3>1. view' = Rebuilt(manager, searched, view.shape # None, FALSE)
      BY <2>1 DEF onSearchChanged
    <3> HIDE DEF searched
    <3> QED BY <3>1, <1>2, RebuiltGood, Zenon
  <2>2. CASE onShowDisabledChanged
    <3>1. view' = Rebuilt(manager, disabled, TRUE, FALSE)
      BY <2>2 DEF onShowDisabledChanged
    <3> HIDE DEF disabled
    <3> QED BY <3>1, <1>3, RebuiltGood, Zenon
  <2>3. CASE onShowOnlyConflictsChanged
    <3>1. view' = Rebuilt(manager, only, TRUE, FALSE)
      BY <2>3 DEF onShowOnlyConflictsChanged
    <3> HIDE DEF only
    <3> QED BY <3>1, <1>4, RebuiltGood, Zenon
  <2> QED BY <2>1, <2>2, <2>3
<1> QED BY <1>1, <1>5 DEF IInv

LEMMA FilesOK == IInv /\ (extractAndOpenVirtualFile \/ Close \/ DestroyedWithManager) => IInv'
<1> SUFFICES ASSUME IInv, extractAndOpenVirtualFile \/ Close \/ DestroyedWithManager PROVE IInv'
  OBVIOUS
<1>1. GoodView(manager, view) /\ temp \subseteq view.files \cup leaked BY DEF IInv
<1>2. GoodView(manager, Closed) /\ Closed.files = {}
  <2>1. Selection(Closed) /\ RowsRight(Closed) /\ ~ Closed.open /\ Closed.shape = None
        /\ Closed.files = {}
    BY DEF Closed, Selection, RowsRight
  <2> QED BY <2>1, ClosedIsView DEF GoodView
<1>3. CASE extractAndOpenVirtualFile
  <2>1. PICK f \in Unused, noted \in BOOLEAN :
          /\ temp' = temp \cup {f}
          /\ view' = IF noted THEN [view EXCEPT !.files = view.files \cup {f}] ELSE view
          /\ leaked' = IF noted THEN leaked ELSE leaked \cup {f}
    BY <1>3 DEF extractAndOpenVirtualFile
  <2>2. view.open /\ manager' = manager BY <1>3 DEF extractAndOpenVirtualFile
  <2>3. CASE ~ noted
    BY <2>1, <2>2, <2>3, <1>1 DEF IInv
  <2>4. CASE noted
    <3>1. view' = [view EXCEPT !.files = view.files \cup {f}] BY <2>1, <2>4
    <3>2. /\ IsView(view') /\ SameSettings(view', view) /\ view'.open = view.open
          /\ view'.meshes = view.meshes
          /\ view'.mesh = view.mesh /\ view'.shapes = view.shapes /\ view'.shape = view.shape
          /\ view'.usesOf = view.usesOf /\ view'.use = view.use /\ view'.rows = view.rows
          /\ view'.win = view.win /\ view'.of = view.of /\ view'.behind = view.behind
          /\ view'.files = view.files \cup {f}
      BY <3>1, <1>1 DEF GoodView, IsView, Fields, SameSettings
    <3>6. GoodView(manager, view') BY <1>1, <2>2, <3>2, OtherFieldsGood
    <3>7. temp' \subseteq view'.files \cup leaked' BY <1>1, <2>1, <2>4, <3>2
    <3> QED BY <2>2, <3>6, <3>7 DEF IInv
  <2> QED BY <2>3, <2>4
<1>4. CASE Close
  <2>1. PICK stuck \in SUBSET view.files :
          temp' = temp \ (view.files \ stuck) /\ leaked' = leaked \cup stuck
    BY <1>4 DEF Close
  <2>2. view' = Closed /\ manager' = manager BY <1>4 DEF Close
  <2>3. temp' \subseteq leaked' BY <1>1, <2>1
  <2> QED BY <1>2, <2>2, <2>3 DEF IInv
<1>5. CASE DestroyedWithManager
  <2>1. view' = Closed /\ manager' = manager /\ temp' = temp
        /\ leaked' = leaked \cup view.files
    BY <1>5 DEF DestroyedWithManager
  <2> QED BY <1>1, <1>2, <2>1 DEF IInv
<1> QED BY <1>3, <1>4, <1>5

LEMMA Inductive == IInv /\ [Next]_vars => IInv'
<1> SUFFICES ASSUME IInv, [Next]_vars PROVE IInv' OBVIOUS
<1>1. CASE UNCHANGED vars BY <1>1 DEF vars, IInv
<1>2. CASE Next
  BY <1>2, LiveEditOK, RefillOK, ApplyOK, OpenOK, SelectMeshOK, DeselectMeshOK,
     ShapeSelectedOK, ShapeDeselectedOK, PluginUseOK, SettingsOK, FilesOK DEF Next
<1> QED BY <1>1, <1>2

LEMMA InvariantHolds == Spec => []IInv
BY InitOK, Inductive, PTL DEF Spec

-----------------------------------------------------------------------------
(* The properties. *)

(* Rows that vanish under a selection, edits of the list beside the viewer  *)
(* and closing it in any way leave the viewer's state well formed and lose  *)
(* no temporary file but those whose loss is noted.                         *)
THEOREM ViewCorrect == Spec => []ViewSafe
<1>1. IInv => ViewSafe
  BY DEF IInv, Managers, ModStates, GoodView, Selection, ViewSafe, TypeOK, FilesAccounted
<1> QED BY <1>1, InvariantHolds, PTL

(* The matches shown are always those of the selection, whichever of the    *)
(* handlers filled, emptied or restored the lists.                          *)
THEOREM RowsCorrect == Spec => []RowsOfSelection
<1>1. IInv => RowsOfSelection
  BY DEF IInv, GoodView, RowsRight, RowsOfSelection
<1> QED BY <1>1, InvariantHolds, PTL

(* A list that no silent change has outdated shows what it would show if it *)
(* were filled now.                                                         *)
THEOREM ListsCorrect == Spec => []ListsCurrent
<1>1. IInv => ListsCurrent
  BY DEF IInv, GoodView, Current, ListsCurrent, Shown
<1> QED BY <1>1, InvariantHolds, PTL

(* Once the list is written, an enabled mod ranks before whatever is not,   *)
(* and a lower rank is a higher priority.                                   *)
LEMMA EnabledFirst ==
  ASSUME NEW g, g.rows \in Orders, g.mods \in ModStates, g.mods = Written(g.rows, g.mods),
         NEW x \in Mods \cup {Untracked}, NEW y \in Mods \cup {Untracked}, IsEnabled(g, x)
  PROVE  /\ ~ IsEnabled(g, y) => Rank(g)[x] < Rank(g)[y]
         /\ IsEnabled(g, y) /\ Rank(g)[x] <= Rank(g)[y] =>
              g.mods[y].priority <= g.mods[x].priority
<1> DEFINE rows == g.rows
           P(m) == Places(rows)[RowOf(rows, m)]
<1>1. \A m \in Mods \cup {Untracked} :
        Rank(g)[m] = IF HasRow(rows, m) THEN P(m) ELSE Len(rows) + 1
  BY DEF Rank, Places
<1>2. \A m \in Mods : IsEnabled(g, m) =>
        /\ HasRow(rows, m) /\ rows[RowOf(rows, m)].on
        /\ g.mods[m].priority = Len(rows) - P(m) + 1
  BY WrittenMeans DEF IsEnabled, ModStates
<1>3. \A m \in Mods : HasRow(rows, m) /\ rows[RowOf(rows, m)].on => IsEnabled(g, m)
  <2>1. Untracked \notin Mods BY ConflictViewAssumption DEF ConflictViewAssumption
  <2> QED BY <2>1, WrittenMeans DEF IsEnabled, ModStates
<1>4. ~ HasRow(rows, Untracked)
  <2>1. Untracked \notin Mods BY ConflictViewAssumption DEF ConflictViewAssumption
  <2>2. \A i \in DOMAIN rows : rows[i].mod \in Mods BY OrderTyped
  <2> QED BY <2>1, <2>2 DEF HasRow
<1>5. x \in Mods BY DEF IsEnabled
<1>6. \A m : HasRow(rows, m) => /\ RowOf(rows, m) \in DOMAIN rows
                               /\ P(m) \in 1 .. Len(rows) /\ Len(rows) \in Nat
  BY RowOfMod, PlaceOrder, OrderTyped
<1>7. HasRow(rows, x) /\ rows[RowOf(rows, x)].on BY <1>2, <1>5
<1>8. ASSUME ~ IsEnabled(g, y) PROVE Rank(g)[x] < Rank(g)[y]
  <2>1. CASE HasRow(rows, y)
    <3>1. y \in Mods /\ ~ rows[RowOf(rows, y)].on BY <1>3, <1>4, <1>8, <2>1
    <3>2. GoesBefore(rows, RowOf(rows, x), RowOf(rows, y)) BY <1>7, <3>1 DEF GoesBefore
    <3>3. P(x) < P(y) BY <1>6, <1>7, <2>1, <3>2, PlaceOrder
    <3> HIDE DEF P
    <3> QED BY <1>1, <1>7, <2>1, <3>3
  <2>2. CASE ~ HasRow(rows, y)
    <3>1. Rank(g)[y] = Len(rows) + 1 /\ Rank(g)[x] = P(x) BY <1>1, <1>7, <2>2
    <3>2. P(x) \in 1 .. Len(rows) /\ Len(rows) \in Nat BY <1>6, <1>7
    <3> HIDE DEF P
    <3> QED BY <3>1, <3>2
  <2> QED BY <2>1, <2>2
<1>9. ASSUME IsEnabled(g, y), Rank(g)[x] <= Rank(g)[y]
      PROVE  g.mods[y].priority <= g.mods[x].priority
  <2>1. y \in Mods BY <1>9 DEF IsEnabled
  <2>2. HasRow(rows, y) /\ g.mods[y].priority = Len(rows) - P(y) + 1 BY <1>2, <1>9, <2>1
  <2>3. HasRow(rows, x) /\ g.mods[x].priority = Len(rows) - P(x) + 1 BY <1>2, <1>5
  <2>4. Rank(g)[x] = P(x) /\ Rank(g)[y] = P(y) BY <1>1, <2>2, <2>3
  <2>5. P(x) \in 1 .. Len(rows) /\ P(y) \in 1 .. Len(rows) /\ Len(rows) \in Nat
    BY <1>6, <2>2, <2>3
  <2> HIDE DEF P
  <2> QED BY <1>9, <2>2, <2>3, <2>4, <2>5
<1> QED BY <1>8, <1>9

LEMMA WinnerFromRows == IInv => WinnerIsHighest
<1> SUFFICES ASSUME IInv, view.shape # None, view.use # 0, "rows" \notin view.behind, ~ Unwritten
             PROVE  LET found == Meta[view.mesh][view.shape]
                        enabled == {m \in IF view.use \in DOMAIN found THEN found[view.use]
                                          ELSE {} : IsEnabled(manager, m.mod)}
                    IN IF enabled = {} THEN view.win = 0
                       ELSE /\ view.win = 1 /\ view.rows[1] \in enabled
                            /\ \A m \in enabled : manager.mods[m.mod].priority
                                                  <= manager.mods[view.rows[1].mod].priority
  BY DEF WinnerIsHighest
<1> DEFINE found == Meta[view.mesh][view.shape]
           D == IF view.use \in DOMAIN found THEN found[view.use] ELSE {}
           enabled == {m \in D : IsEnabled(manager, m.mod)}
           V == {m \in D : isMatchVisible(manager, view, m)}
           first == CHOOSE m \in V :
                      Cardinality({x \in V : SortsBefore(Rank(manager), x, m)}) = 0
<1>1. /\ manager.rows \in Orders /\ manager.mods \in ModStates
      /\ manager.mods = Written(manager.rows, manager.mods)
  BY ManagerTyped DEF Unwritten
<1>2. view.open /\ Selection(view) /\ Current(manager, view) BY DEF IInv, GoodView
<1>3. view.mesh \in Meshes /\ view.shape \in Shapes(view.mesh) BY <1>2 DEF Selection
<1>4. D = buildDisplayMatches(found, view.use) BY DEF buildDisplayMatches
<1>5. IsFiniteSet(D)
      /\ \A x \in D : x.mod \in Mods \cup {Untracked} /\ x.as \in Int /\ x.path \in Int
  <2> DEFINE B == buildDisplayMatches(found, view.use)
  <2>1. IsFiniteSet(B)
        /\ \A x \in B : x.mod \in Mods \cup {Untracked} /\ x.as \in Int /\ x.path \in Int
    BY <1>3, MatchesTyped
  <2> HIDE DEF B
  <2>2. D = B BY <1>4 DEF B
  <2> HIDE DEF D
  <2> QED BY <2>1, <2>2
<1>6. view.rows = sortMatches(manager, V) /\ view.win = Winner(manager, view.use, view.rows)
  BY <1>2, <1>4 DEF Current, Shown, VisibleRows
<1>7. enabled \subseteq V BY DEF isMatchVisible, IsEnabled
<1>8. IsFiniteSet(V) /\ V \subseteq D BY <1>5, FS_Subset
<1> HIDE DEF D
<1>9. CASE V = {}
  <2>1. view.rows = <<>> BY <1>6, <1>8, <1>9, SortedDomain
  <2>2. view.win = 0 BY <1>6, <2>1 DEF Winner
  <2> QED BY <1>7, <1>9, <2>2 DEF D
<1>10. CASE V # {}
  <2>1. view.rows # <<>> /\ 1 \in DOMAIN view.rows BY <1>6, <1>8, <1>10, SortedDomain
  <2>2. view.rows[1] = first
    <3>1. \A i \in DOMAIN sortMatches(manager, V) : sortMatches(manager, V)[i] =
            CHOOSE m \in V : Cardinality({x \in V : SortsBefore(Rank(manager), x, m)}) = i - 1
      BY DEF sortMatches
    <3>2. 1 - 1 = 0 OBVIOUS
    <3> QED BY <1>6, <2>1, <3>1, <3>2
  <2>3. Rank(manager) \in RankType BY <1>1, RankTyped
  <2>4. first \in V /\ \A x \in V : Rank(manager)[first.mod] <= Rank(manager)[x.mod]
    BY <1>5, <1>8, <1>10, <2>3, FirstMatch
  <2> HIDE DEF first, V
  <2>5. first.mod \in Mods \cup {Untracked} /\ first \in D BY <1>5, <1>8, <2>4
  <2>6. view.win = IF IsEnabled(manager, first.mod) THEN 1 ELSE 0
    BY <1>6, <2>1, <2>2 DEF Winner
  <2>7. \A x \in enabled : /\ x \in V /\ x.mod \in Mods \cup {Untracked}
                           /\ IsEnabled(manager, x.mod)
    BY <1>5, <1>7
  <2>8. \A m \in Mods \cup {Untracked} : Rank(manager)[m] \in Nat
    BY <2>3 DEF RankType
  <2>9. CASE IsEnabled(manager, first.mod)
    <3>1. first \in enabled BY <2>5, <2>9
    <3>2. \A m \in enabled : manager.mods[m.mod].priority <= manager.mods[first.mod].priority
      BY <1>1, <2>4, <2>5, <2>7, <2>9, EnabledFirst
    <3> QED BY <2>2, <2>6, <2>9, <3>1, <3>2 DEF D
  <2>10. CASE ~ IsEnabled(manager, first.mod)
    <3>1. \A x \in enabled : Rank(manager)[x.mod] < Rank(manager)[first.mod]
      BY <1>1, <2>5, <2>7, <2>10, EnabledFirst
    <3>2. \A x \in enabled : FALSE
      <4> TAKE x \in enabled
      <4>1. /\ Rank(manager)[x.mod] < Rank(manager)[first.mod]
            /\ Rank(manager)[first.mod] <= Rank(manager)[x.mod]
        BY <2>4, <2>7, <3>1
      <4>2. Rank(manager)[x.mod] \in Nat /\ Rank(manager)[first.mod] \in Nat
        BY <2>5, <2>7, <2>8
      <4> QED BY <4>1, <4>2
    <3>3. enabled = {} BY <3>2
    <3> QED BY <2>6, <2>10, <3>3 DEF D
  <2> QED BY <2>9, <2>10
<1> QED BY <1>9, <1>10

(* The match marked is of the enabled mod with the highest of the           *)
(* priorities a run would use, and one is marked if a match of an enabled   *)
(* mod is there, for every list, enabled or disabled rows in any order.     *)
THEOREM WinnerCorrect == Spec => []WinnerIsHighest
BY InvariantHolds, WinnerFromRows, PTL
=============================================================================
