---------------------------- MODULE ModOrder ----------------------------
(***************************************************************************)
(* The mods PGModManager knows and the order it puts them in               *)
(* (PGLib/src/PGModManager.cpp).  A mod list is a function from the names  *)
(* of the mods of the mod manager to records; modrules.json keeps a part of *)
(* each record between two sessions.                                       *)
(*                                                                         *)
(* A file has a kind, the place of its shader in the enumeration           *)
(* PGEnums::ShapeShader: MeshKind for a mesh, which adds no shader, then   *)
(* NoShader < any shader that can be patched.  Which mod a file belongs to *)
(* follows from the mod manager's list.                                    *)
(***************************************************************************)
EXTENDS Integers, Sequences, FiniteSets, SequencesExt

CONSTANTS
  Mods,        \* names of mods
  NameRank,    \* their alphabetical order
  Files,       \* files of the folders that are mapped
  Kind,        \* what each file is
  Provides,    \* the files in the folder of each mod
  Manager      \* "mo2", "vortex" or "none"

MeshKind == 0
NoShader == 1

ASSUME ModOrderAssumption ==
  /\ IsFiniteSet(Mods) /\ IsFiniteSet(Files)
  /\ NameRank \in [Mods -> Nat]
  /\ \A a, b \in Mods : a # b => NameRank[a] # NameRank[b]
  /\ Kind \in [Files -> Nat]
  /\ Provides \in [Mods -> SUBSET Files]
  /\ Manager \in {"mo2", "vortex", "none"}

SavedMod == [enabled: BOOLEAN, priority: Int, ignored: BOOLEAN]
(* best stands for the set Mod::shaders: its last element, 0 if it is empty. *)
Mod == [enabled: BOOLEAN, priority: Int, ignored: BOOLEAN, isNew: BOOLEAN,
        order: Nat, best: Nat, hasMeshes: BOOLEAN]

-----------------------------------------------------------------------------
(* loadJSON: the saved mods, none of them new. *)
LoadJSON(saved) ==
  [m \in DOMAIN saved |->
     [enabled |-> saved[m].enabled, priority |-> saved[m].priority,
      ignored |-> saved[m].ignored, isNew |-> FALSE, order |-> 0,
      best |-> 0, hasMeshes |-> FALSE]]

(* getJSON: every mod in the map, shown in the dialog or not. *)
GetJSON(mods) ==
  [m \in DOMAIN mods |-> [enabled |-> mods[m].enabled,
                          priority |-> mods[m].priority,
                          ignored |-> mods[m].ignored]]

(* The entry of a mod the mod manager lists, at this place of its list. *)
ListedMod(loaded, m, place) ==
  IF m \in DOMAIN loaded
  THEN [loaded[m] EXCEPT !.order = place]
  ELSE [enabled |-> FALSE, priority |-> -1, ignored |-> FALSE, isNew |-> TRUE,
        order |-> place, best |-> 0, hasMeshes |-> FALSE]

(* Both populate functions forget the mods that are not in the list.  The   *)
(* list is what is left of it after hidden, disabled and missing entries    *)
(* have been skipped.                                                       *)
PlaceOf(modlist, m) == Min({i \in DOMAIN modlist : modlist[i] = m}) - 1

PopulateModFileMapMO2(loaded, modlist) ==
  [m \in ToSet(modlist) |-> ListedMod(loaded, m, PlaceOf(modlist, m))]

PopulateModFileMapVortex(loaded, modlist) ==
  [m \in ToSet(modlist) |-> ListedMod(loaded, m, 0)]

Populate(loaded, modlist) ==
  CASE Manager = "mo2" -> PopulateModFileMapMO2(loaded, modlist)
    [] Manager = "vortex" -> PopulateModFileMapVortex(loaded, modlist)
    [] OTHER -> loaded

(* The file map: Mod Organizer's list starts with the mod that wins and the *)
(* first mod keeps a file; of Vortex's entries for a file the last counts.  *)
OwnsFile(modlist, m, f) ==
  /\ m \in ToSet(modlist)
  /\ f \in Provides[m]
  /\ \A n \in ToSet(modlist) \ {m} :
       f \in Provides[n] =>
         IF Manager = "mo2" THEN PlaceOf(modlist, m) < PlaceOf(modlist, n)
         ELSE PlaceOf(modlist, n) < PlaceOf(modlist, m)

FilesOf(modlist, m) == {f \in Files : OwnsFile(modlist, m, f)}

(* addShaderToModByFile for every texture and JSON file that is found, and  *)
(* hasMeshes for every mesh.                                                *)
MapFiles(mods, modlist) ==
  [m \in DOMAIN mods |->
     LET kinds == {Kind[f] : f \in FilesOf(modlist, m)}
     IN [mods[m] EXCEPT !.best = Max({0} \cup (kinds \ {MeshKind})),
                        !.hasMeshes = MeshKind \in kinds]]

(* fillListCtrl leaves out the mods that have nothing to do with patching.  *)
Relevant(mods) == {m \in DOMAIN mods : mods[m].best # 0 \/ mods[m].hasMeshes}

-----------------------------------------------------------------------------
(* compareMods: does m come before n?  A mod without shaders comes after    *)
(* one with shaders, which is what 0 does here.                             *)
CompareMods(mods, checkPriority, m, n) ==
  IF checkPriority /\ mods[m].priority # mods[n].priority
  THEN mods[m].priority > mods[n].priority
  ELSE IF mods[m].order # mods[n].order THEN mods[m].order < mods[n].order
  ELSE IF mods[m].best # mods[n].best THEN mods[m].best > mods[n].best
  ELSE NameRank[m] < NameRank[n]

SortedMods(S, mods, checkPriority) ==
  LET before == [m \in S |-> {n \in S : CompareMods(mods, checkPriority, n, m)}]
  IN [i \in 1 .. Cardinality(S) |-> CHOOSE m \in S : Cardinality(before[m]) = i - 1]

GetModsByPriority(mods) == SortedMods(DOMAIN mods, mods, TRUE)

GetModsByDefaultOrder(mods) == SortedMods(DOMAIN mods, mods, FALSE)

-----------------------------------------------------------------------------
(* updateStateFromModlist. *)

(* New mods that have something to patch are enabled ... *)
AutoEnabled(mods) == {m \in DOMAIN mods : mods[m].isNew /\ mods[m].best > NoShader}

(* Mutant: new mods are numbered from the bottom. *)
WithNewAtBottom(mods) ==
  [m \in DOMAIN mods |->
     IF m \in AutoEnabled(mods) THEN [mods[m] EXCEPT !.enabled = TRUE, !.priority = 1]
     ELSE mods[m]]

(* The place of m among the mods of S, when they are sorted. *)
PlaceIn(S, mods, checkPriority, m) ==
  Cardinality({n \in S : CompareMods(mods, checkPriority, n, m)})

(* ... and put above all others, best first. *)
WithNewOnTop(mods) ==
  LET new == AutoEnabled(mods)
      top == Max({0} \cup {mods[m].priority : m \in DOMAIN mods})
  IN [m \in DOMAIN mods |->
        IF m \in new
        THEN [mods[m] EXCEPT !.enabled = TRUE,
                             !.priority = top + Cardinality(new) - PlaceIn(new, mods, FALSE, m)]
        ELSE mods[m]]

(* Sorted and then partitioned, the enabled mods come first; they are       *)
(* numbered down from the number of ALL mods.  Those that are off keep the  *)
(* number they have.                                                        *)
Numbered(mods, checkPriority) ==
  LET on == {m \in DOMAIN mods : mods[m].enabled}
  IN [m \in DOMAIN mods |->
        IF m \in on
        THEN [mods[m] EXCEPT !.priority =
                Cardinality(DOMAIN mods) - PlaceIn(on, mods, checkPriority, m)]
        ELSE mods[m]]

UpdateStateFromModlist(mods, useDefaultOrder) ==
  Numbered(WithNewOnTop(mods), ~ (useDefaultOrder /\ Manager = "mo2"))

=============================================================================
