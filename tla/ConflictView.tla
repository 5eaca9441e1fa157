--------------------------- MODULE ConflictView ---------------------------
(***************************************************************************)
(* A match viewer (PGPatcher/src/GUI/DialogModConflictView.cpp) next to    *)
(* the conflict manager that opened it (ModSortDialog.cpp).                *)
(*                                                                         *)
(* The viewer shows meshes, the shapes of the selected mesh and the        *)
(* matches of the selected shape, for all plugin uses of the mesh or for   *)
(* one.  Its lists are copies: the conflict manager's list gives the order *)
(* of the matches, PGModManager says which mods are enabled, and both      *)
(* change while the viewer is open.  Some changes refresh it, some do not. *)
(*                                                                         *)
(* An action is one event with every handler it runs: selecting a row from *)
(* code (SetItemState) runs the handler of the selection at once, emptying *)
(* a list (DeleteAllItems) runs none.                                      *)
(***************************************************************************)
EXTENDS Integers, SequencesExt

CONSTANTS
  Mods,         \* mods of the conflict manager
  Untracked,    \* stands for no mod
  None,         \* nothing selected
  Meta,         \* getPatchMeta(): mesh -> shape -> use -> set of matches
  UseCount,     \* mesh -> number of its plugin uses
  Filters,      \* sets of mods a viewer may be opened for (a bound)
  Found,        \* meshes whose path holds the search term
  Orders,       \* lists of the conflict manager (a bound)
  MaxFiles      \* temporary files (a bound)

Meshes == DOMAIN Meta
Shapes(mesh) == DOMAIN Meta[mesh]
Uses(mesh) == 1 .. UseCount[mesh]
Parts == {"meshes", "shapes", "rows"}

(* A match has a mod or none; a list has each mod at most once. *)
ASSUME ConflictViewAssumption ==
  /\ IsFiniteSet(Mods) /\ Untracked \notin Mods
  /\ \A m \in Meshes : None # m /\ UseCount[m] \in Nat
  /\ \A m \in Meshes : \A s \in Shapes(m) :
       /\ None # s
       /\ DOMAIN Meta[m][s] \subseteq Uses(m)
       /\ \A u \in DOMAIN Meta[m][s] :
            /\ IsFiniteSet(Meta[m][s][u])
            /\ \A x \in Meta[m][s][u] :
                 x.mod \in Mods \cup {Untracked} /\ x.as \in Int /\ x.path \in Int
  /\ Filters \subseteq SUBSET Mods
  /\ \A rows \in Orders :
       /\ rows \in Seq([mod : Mods, on : BOOLEAN])
       /\ \A i, j \in DOMAIN rows : rows[i].mod = rows[j].mod => i = j

VARIABLES
  manager,  \* the conflict manager's rows, [mod, on], and PGModManager's
            \* mods, mod -> [on, priority]
  view,     \* the viewer
  temp,     \* temporary files on disk
  leaked    \* files no viewer will delete; history only

vars == <<manager, view, temp, leaked>>

Closed == [open |-> FALSE, filter |-> {}, only |-> FALSE, disabled |-> FALSE,
           search |-> FALSE, meshes |-> {}, mesh |-> None, shapes |-> {},
           shape |-> None, usesOf |-> None, combo |-> 0, use |-> 0,
           rows |-> <<>>, win |-> 0, files |-> {},
           of |-> <<None, None, 0>>,   \* what rows were filled for (history)
           behind |-> {}]              \* parts older than a change that did
                                       \* not refresh them (history)

-----------------------------------------------------------------------------
(* What is visible. *)

isMatchVisible(g, v, match) ==
  \/ v.disabled
  \/ match.mod # Untracked /\ g.mods[match.mod].on

AllMatches(shape) == UNION {shape[u] : u \in DOMAIN shape}

SameEntry(a, b) == a.mod = b.mod /\ a.shader = b.shader /\ a.path = b.path

(* Without a use, a match found for several uses is shown once. *)
buildDisplayMatches(shape, use) ==
  IF use # 0
  THEN IF use \in DOMAIN shape THEN shape[use] ELSE {}
  ELSE UNION {{m \in shape[u] : \A w \in DOMAIN shape :
                 w < u => \A n \in shape[w] : ~ SameEntry(m, n)} : u \in DOMAIN shape}

shapeHasActualConflict(g, v, shape) ==
  Cardinality({m.mod : m \in {x \in AllMatches(shape) : isMatchVisible(g, v, x)}}) >= 2

shapePassesIntersectionFilter(g, v, shape) ==
  /\ shapeHasActualConflict(g, v, shape)
  /\ \A f \in v.filter : \E m \in AllMatches(shape) :
        isMatchVisible(g, v, m) /\ m.mod = f

shapePassesAnyModFilter(v, shape) ==
  \/ v.filter = {}
  \/ \E m \in AllMatches(shape) : m.mod \in v.filter

ShapeListed(g, v, shape) ==
  IF v.only THEN shapePassesIntersectionFilter(g, v, shape)
  ELSE shapePassesAnyModFilter(v, shape)

ListedShapes(g, v, mesh) == {s \in Shapes(mesh) : ShapeListed(g, v, Meta[mesh][s])}

ListedMeshes(g, v) ==
  {m \in Meshes : /\ \/ ~ v.only /\ v.filter = {}
                     \/ ListedShapes(g, v, m) # {}
                  /\ v.search => m \in Found}

-----------------------------------------------------------------------------
(* Filling the lists. *)

(* Row i goes before row j: the conflict manager's rows, which a search may  *)
(* have left with disabled mods between enabled ones, the enabled first.     *)
GoesBefore(rows, i, j) ==
  \/ rows[i].on /\ ~ rows[j].on
  \/ rows[i].on = rows[j].on /\ i < j

(* Mutant: the rows as they stand. *)
RowsAsTheyStand(rows) == [i \in DOMAIN rows |-> i]

(* The place of each row in the list of mods. *)
getLiveModPriorityList(rows) ==
  [i \in DOMAIN rows |-> Cardinality({j \in DOMAIN rows : GoesBefore(rows, j, i)}) + 1]

HasRow(rows, mod) == \E i \in DOMAIN rows : rows[i].mod = mod
RowOf(rows, mod) == CHOOSE i \in DOMAIN rows : rows[i].mod = mod

(* Mods of no rank, and no mod, come last. *)
Rank(g) ==
  LET place == getLiveModPriorityList(g.rows)
  IN [m \in Mods \cup {Untracked} |->
        IF HasRow(g.rows, m) THEN place[RowOf(g.rows, m)] ELSE Len(g.rows) + 1]

SortsBefore(rank, x, y) ==
  \/ rank[x.mod] < rank[y.mod]
  \/ /\ rank[x.mod] = rank[y.mod]
     /\ \/ x.as > y.as
        \/ x.as = y.as /\ x.path < y.path

sortMatches(g, matches) ==
  LET rank == Rank(g)
  IN [i \in 1 .. Cardinality(matches) |->
        CHOOSE m \in matches :
          Cardinality({x \in matches : SortsBefore(rank, x, m)}) = i - 1]

(* The code sorts all of them and drops the hidden ones then. *)
VisibleRows(g, v, matches) == sortMatches(g, {m \in matches : isMatchVisible(g, v, m)})

IsEnabled(g, mod) == mod # Untracked /\ g.mods[mod].on

(* The first visible match is marked as the winner, if a use is selected    *)
(* and its mod is enabled.                                                  *)
populateMatchList(g, v, mesh, shape) ==
  LET rows == IF shape = None THEN <<>>
              ELSE VisibleRows(g, v, buildDisplayMatches(Meta[mesh][shape], v.use))
  IN [v EXCEPT !.rows = rows,
               !.win = IF v.use # 0 /\ rows # <<>> /\ IsEnabled(g, rows[1].mod)
                       THEN 1 ELSE 0,
               !.of = <<mesh, shape, v.use>>,
               !.behind = @ \ {"rows"}]

NoRows(v) == [v EXCEPT !.rows = <<>>, !.win = 0, !.behind = @ \ {"rows"}]

populateShapeList(g, v, mesh) ==
  [NoRows(v) EXCEPT !.shapes = ListedShapes(g, v, mesh), !.shape = None,
                    !.behind = @ \ {"shapes"}]

populatePluginUseList(v, mesh) ==
  [v EXCEPT !.usesOf = mesh, !.combo = 0, !.use = 0]

onMeshSelected(g, v, mesh) ==
  populatePluginUseList(populateShapeList(g, [v EXCEPT !.mesh = mesh], mesh), mesh)

(* Mutant: the shape of the mesh stays selected. *)
DeselectKeepingShape(v) ==
  [NoRows(v) EXCEPT !.mesh = None, !.shapes = {}, !.usesOf = None, !.combo = 0,
                    !.use = 0, !.behind = @ \ {"shapes"}]

onMeshDeselected(v) ==
  [NoRows(v) EXCEPT !.mesh = None, !.shapes = {}, !.shape = None,
                    !.usesOf = None, !.combo = 0, !.use = 0,
                    !.behind = @ \ {"shapes"}]

rebuildMeshList(g, v) ==
  [NoRows(v) EXCEPT !.meshes = ListedMeshes(g, v), !.mesh = None, !.shapes = {},
                    !.shape = None, !.behind = {}]

(* The rebuild of refreshDisplay, onSearchChanged, onShowDisabledChanged    *)
(* and onShowOnlyConflictsChanged: select again what was selected.  They    *)
(* differ in whether the use is kept and in whether the matches of a shape  *)
(* that is no longer listed are shown.                                      *)
Rebuilt(g, v, keepsUse, onlyListed) ==
  LET empty == rebuildMeshList(g, v)
      again == onMeshSelected(g, empty, v.mesh)
      use == IF keepsUse THEN v.use ELSE 0
      restored == [again EXCEPT
                     !.use = use, !.combo = use,
                     !.shape = IF v.shape \in again.shapes THEN v.shape ELSE None]
  IN IF v.mesh \notin empty.meshes THEN empty
     ELSE IF onlyListed /\ restored.shape = None THEN restored
     ELSE populateMatchList(g, restored, v.mesh, v.shape)

-----------------------------------------------------------------------------
(* The conflict manager. *)

(* updateMods and updateModStatesLive: PGModManager takes over the list;    *)
(* the priority of a disabled mod is left as it is.                         *)
Written(rows, mods) ==
  LET place == getLiveModPriorityList(rows)
  IN [m \in Mods |->
        IF HasRow(rows, m) /\ rows[RowOf(rows, m)].on
        THEN [on |-> TRUE, priority |-> Len(rows) - place[RowOf(rows, m)] + 1]
        ELSE [mods[m] EXCEPT !.on = FALSE]]

Init ==
  /\ \E rows \in Orders :
       manager = [rows |-> rows,
                  mods |-> Written(rows, [m \in Mods |-> [on |-> TRUE, priority |-> 0]])]
  /\ view = Closed /\ temp = {} /\ leaked = {}

Behind(parts) == [view EXCEPT !.behind = IF view.open THEN @ \cup parts ELSE @]

(* Mutant: the viewer is refreshed before PGModManager is written. *)
RefreshBeforeWriting ==
  /\ \E rows \in Orders \ {manager.rows} :
       /\ manager' = [rows |-> rows, mods |-> Written(rows, manager.mods)]
       /\ view' = IF view.open
                  THEN Rebuilt([manager EXCEPT !.rows = rows], view, TRUE, TRUE)
                  ELSE view
  /\ UNCHANGED <<temp, leaked>>

(* A row is dragged, moved or checked: updateModStatesLive writes           *)
(* PGModManager and refreshes the viewer (refreshDisplay).                  *)
LiveEdit ==
  /\ \E rows \in Orders \ {manager.rows} :
       LET g == [rows |-> rows, mods |-> Written(rows, manager.mods)]
       IN /\ manager' = g
          /\ view' = IF view.open THEN Rebuilt(g, view, TRUE, TRUE) ELSE view
  /\ UNCHANGED <<temp, leaked>>

(* Restore Default, Discard Changes and the MO2 order fill the list anew;   *)
(* the viewer is not told.                                                  *)
Refill ==
  /\ \E rows \in Orders \ {manager.rows} : manager' = [manager EXCEPT !.rows = rows]
  /\ view' = Behind({"rows"})
  /\ UNCHANGED <<temp, leaked>>

(* Apply writes PGModManager; the viewer is not told. *)
Apply ==
  /\ manager' = [manager EXCEPT !.mods = Written(manager.rows, @)]
  /\ manager' # manager
  /\ view' = Behind(Parts)
  /\ UNCHANGED <<temp, leaked>>

-----------------------------------------------------------------------------
(* The viewer. *)

openConflictView ==
  /\ ~ view.open
  /\ \E filter \in Filters, all \in BOOLEAN :
       view' = rebuildMeshList(manager, [Closed EXCEPT !.open = TRUE, !.filter = filter,
                                              !.only = ~ all])
  /\ UNCHANGED <<manager, temp, leaked>>

InView == view.open /\ UNCHANGED <<manager, temp, leaked>>

(* Selecting a mesh deselects the one selected before. *)
SelectMesh ==
  /\ InView
  /\ \E m \in view.meshes \ {view.mesh} :
       view' = onMeshSelected(manager, IF view.mesh = None THEN view
                              ELSE onMeshDeselected(view), m)

DeselectMesh ==
  /\ InView /\ view.mesh # None
  /\ view' = onMeshDeselected(view)

onShapeSelected ==
  /\ InView
  /\ \E s \in view.shapes \ {view.shape} :
       view' = populateMatchList(manager, [view EXCEPT !.shape = s], view.mesh, s)

(* Mutant: the matches of the shape stay. *)
DeselectKeepingRows ==
  /\ InView /\ view.shape # None
  /\ view' = [view EXCEPT !.shape = None]

onShapeDeselected ==
  /\ InView /\ view.shape # None
  /\ view' = NoRows([view EXCEPT !.shape = None])

(* The choice in the combo box is read only while a shape is selected. *)
onPluginUseSelected ==
  /\ InView /\ view.usesOf # None
  /\ \E use \in 0 .. UseCount[view.usesOf] :
       LET shown == [view EXCEPT !.combo = use]
       IN view' = IF view.mesh = None \/ view.shape = None THEN shown
                  ELSE populateMatchList(manager, [shown EXCEPT !.use = use],
                                         view.mesh, view.shape)

onSearchChanged ==
  /\ InView
  /\ view' = Rebuilt(manager, [view EXCEPT !.search = ~ @], view.shape # None, FALSE)

onShowDisabledChanged ==
  /\ InView
  /\ view' = Rebuilt(manager, [view EXCEPT !.disabled = ~ @], TRUE, FALSE)

onShowOnlyConflictsChanged ==
  /\ InView
  /\ view' = Rebuilt(manager, [view EXCEPT !.only = ~ @], TRUE, FALSE)

-----------------------------------------------------------------------------
(* Files taken out of archives to be opened. *)

Unused == 1 .. MaxFiles \ (temp \cup leaked)

(* extractAndOpenVirtualFile, for a mesh or a match that lies in no folder: *)
(* it fails before the file exists, or, as setting its permissions may      *)
(* throw, after that, or it notes the file for the viewer's end.            *)
extractAndOpenVirtualFile ==
  /\ view.open /\ view.meshes # {}
  /\ \E f \in Unused, noted \in BOOLEAN :
       /\ temp' = temp \cup {f}
       /\ view' = IF noted THEN [view EXCEPT !.files = @ \cup {f}] ELSE view
       /\ leaked' = IF noted THEN leaked ELSE leaked \cup {f}
  /\ UNCHANGED <<manager>>

(* cleanupTempFiles: a file that cannot be removed is logged and forgotten. *)
Close ==
  /\ view.open
  /\ \E stuck \in SUBSET view.files :
       /\ temp' = temp \ (view.files \ stuck)
       /\ leaked' = leaked \cup stuck
  /\ view' = Closed
  /\ UNCHANGED <<manager>>

(* The conflict manager ends and destroys its viewers, which does not run   *)
(* their close handler.                                                     *)
DestroyedWithManager ==
  /\ view.open
  /\ leaked' = leaked \cup view.files
  /\ view' = Closed
  /\ UNCHANGED <<manager, temp>>

Next ==
  \/ LiveEdit \/ Refill \/ Apply
  \/ openConflictView
  \/ SelectMesh \/ DeselectMesh
  \/ onShapeSelected \/ onShapeDeselected
  \/ onPluginUseSelected
  \/ onSearchChanged \/ onShowDisabledChanged \/ onShowOnlyConflictsChanged
  \/ extractAndOpenVirtualFile
  \/ Close \/ DestroyedWithManager

Spec == Init /\ [][Next]_vars

-----------------------------------------------------------------------------
(* Properties. *)

TypeOK ==
  /\ manager.rows \in Orders
  /\ manager.mods \in [Mods -> [on : BOOLEAN, priority : 0 .. Cardinality(Mods)]]
  /\ view.meshes \subseteq Meshes
  /\ view.mesh \in view.meshes \cup {None}
  /\ view.shapes \subseteq (IF view.mesh = None THEN {} ELSE Shapes(view.mesh))
  /\ view.shape \in view.shapes \cup {None}
  /\ view.mesh # None => view.usesOf = view.mesh
  /\ view.use \in (IF view.usesOf = None THEN {0} ELSE 0 .. UseCount[view.usesOf])
  /\ view.win \in {0} \cup DOMAIN view.rows
  /\ view.behind \subseteq Parts

(* A temporary file is one the open viewer will delete, or was lost when    *)
(* its permissions could not be set, it could not be removed, or the        *)
(* conflict manager took the viewer down with it.                           *)
FilesAccounted == temp \subseteq view.files \cup leaked

(* The state of the viewer is well formed, whatever rows vanish under a     *)
(* selection, and no file is lost but as told above.                        *)
ViewSafe == TypeOK /\ FilesAccounted

(* The matches shown are those of the selected mesh, the selected shape and *)
(* the use in force, though seven handlers fill, empty and restore the      *)
(* lists in different orders.  Only a search or a box ticked after a silent *)
(* change shows matches of a shape that has just left its list.             *)
RowsOfSelection ==
  view.rows # <<>> =>
    /\ view.mesh # None
    /\ view.of[1] = view.mesh /\ view.of[3] = view.use
    /\ IF view.shape = None THEN view.of[2] \notin view.shapes
       ELSE view.of[2] = view.shape

(* What a list shows is what it would show if it were filled now: after an  *)
(* edit in the conflict manager, in every order of events.  Not after       *)
(* Restore Default, Discard Changes, the MO2 order and Apply, until the     *)
(* list is filled for another reason.                                       *)
ListsCurrent ==
  view.open =>
    /\ "meshes" \notin view.behind => view.meshes = ListedMeshes(manager, view)
    /\ "shapes" \notin view.behind /\ view.mesh # None =>
         view.shapes = ListedShapes(manager, view, view.mesh)
    /\ "rows" \notin view.behind /\ view.shape # None =>
         view.rows = VisibleRows(manager, view,
           buildDisplayMatches(Meta[view.mesh][view.shape], view.use))

Unwritten == manager.mods # Written(manager.rows, manager.mods)

(* The match marked is one of the highest-priority enabled mod, as a run    *)
(* with PGModManager's priorities would choose, and none is marked only if  *)
(* no enabled mod has one: though the order is that of the list and not of  *)
(* PGModManager, which may differ while an edit is not written.             *)
WinnerIsHighest ==
  view.shape # None /\ view.use # 0 /\ "rows" \notin view.behind /\ ~ Unwritten =>
    LET found == Meta[view.mesh][view.shape]
        enabled == {m \in IF view.use \in DOMAIN found THEN found[view.use] ELSE {} :
                      IsEnabled(manager, m.mod)}
    IN IF enabled = {} THEN view.win = 0
       ELSE /\ view.win = 1 /\ view.rows[1] \in enabled
            /\ \A m \in enabled : manager.mods[m.mod].priority
                                  <= manager.mods[view.rows[1].mod].priority
=============================================================================
