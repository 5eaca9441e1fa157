------------------------------ MODULE FileMap ------------------------------
(***************************************************************************)
(* BethesdaDirectory: the map from the paths of the load order to their    *)
(* sources.  populateFileMap enters the archives (BSAs) in load order and  *)
(* then the loose files, a later source overwriting an earlier one.  While *)
(* a patching run is under way, addGeneratedFile marks the paths PGPatcher *)
(* itself writes, and clearGeneratedFiles takes the marks back before the  *)
(* next run.  Each of the two holds m_fileMapMutex from beginning to end.  *)
(*                                                                         *)
(* File names are abstracted: what matters of the name of an archive is    *)
(* what follows the name of a plugin in it (NameKinds).  Paths excluded by *)
(* the extension blocklist, the folder list, the ASCII test or the hidden  *)
(* attribute are in no Held set and not in Loose.                          *)
(***************************************************************************)
EXTENDS Naturals, SequencesExt

CONSTANTS
  Paths,    \* the lowercase paths relative to the data directory
  BSAs,     \* the archives named anywhere
  Dir,      \* the archives of the data directory, in the order it lists them
  Plugins,  \* the active plugins in load order
  Broken,   \* archives that are missing or cannot be read
  Held,     \* the mappable paths in each archive
  Loose,    \* the mappable loose files
  Fields,   \* the INI fields that list archives, in the order they are read
  INIs,     \* the INI files tried for each, the last one to have it wins
  Lists,    \* the lists of archives a field may hold, <<>> if it is absent
  NoBSA     \* the null bsaFile of a loose file

ASSUME FileMapAssumption ==
  /\ Held \in [BSAs -> SUBSET Paths] /\ Loose \in SUBSET Paths
  /\ Broken \subseteq BSAs /\ NoBSA \notin BSAs
  /\ Fields \in Seq(STRING) /\ INIs \in Seq(STRING) /\ Lists \subseteq Seq(BSAs)
  /\ Plugins \in Seq(STRING) /\ Dir \in Seq(BSAs)
  /\ \A i, j \in DOMAIN Dir : Dir[i] = Dir[j] => i = j

VARIABLES
  iniValue,    \* the archives each field of each INI file names
  names,       \* what each archive's name has after each plugin's name
  mapPc,       \* where populateFileMap is
  toAdd,       \* the archives it has still to enter
  fileMap,     \* m_fileMap
  restoreMap,  \* m_generatedFileRestoreMap
  native       \* history: the map as it was populated

inputVars == <<iniValue, names>>
mapVars   == <<fileMap, restoreMap>>
vars      == <<inputVars, mapPc, toAdd, mapVars, native>>

\* exact: Plugin.bsa; suffixed: "Plugin -..." or "Plugin<digit>..."; other:
\* "Plugin x...", "Pluginx...", or no name of that plugin at all.
NameKinds == {"exact", "suffixed", "other"}

Entry(b, gen) == [bsaFile |-> b, generated |-> gen]
NoFiles == [p \in {} |-> Entry(NoBSA, FALSE)]

\* m[p] = e for every p of ps, entries there already being overwritten.
Put(m, ps, e) == [p \in ps \cup DOMAIN m |-> IF p \in ps THEN e ELSE m[p]]

-----------------------------------------------------------------------------
(* The load order of the archives.                                         *)

addUniqueElement(seq, b) == IF Contains(seq, b) THEN seq ELSE Append(seq, b)

concatenateVectorsWithoutDuplicates(s, t) == FoldLeft(addUniqueElement, s, t)

\* A field has the value of the last INI file that sets it.
IniList(field) ==
  LET inis == {i \in DOMAIN INIs : iniValue[field][INIs[i]] # <<>>}
  IN  IF inis = {} THEN <<>> ELSE iniValue[field][INIs[Max(inis)]]

getBSAFilesFromINIs ==
  FoldLeft(LAMBDA found, field : concatenateVectorsWithoutDuplicates(found, IniList(field)),
           <<>>, Fields)

\* Mutant: the archive named like the plugin is kept in directory order.
FindInDirectoryOrder(plugin) ==
  FoldLeft(LAMBDA found, b : IF names[plugin][b] = "other" THEN found ELSE Append(found, b),
           <<>>, Dir)

\* The archive with the very name of the plugin goes before the others.
FindNext(plugin, found, b) ==
  CASE names[plugin][b] = "exact"    -> <<b>> \o found
    [] names[plugin][b] = "suffixed" -> Append(found, b)
    [] names[plugin][b] = "other"    -> found

findBSAFilesFromPluginName(plugin) ==
  FoldLeft(LAMBDA found, b : FindNext(plugin, found, b), <<>>, Dir)

getBSALoadOrder ==
  FoldLeft(LAMBDA order, plugin :
             concatenateVectorsWithoutDuplicates(order, findBSAFilesFromPluginName(plugin)),
           getBSAFilesFromINIs, Plugins)

-----------------------------------------------------------------------------
(* populateFileMap.                                                        *)

\* A directory holds at most one archive with the very name of a plugin.
Init ==
  /\ iniValue \in [ToSet(Fields) -> [ToSet(INIs) -> Lists]]
  /\ names \in [ToSet(Plugins) -> [ToSet(Dir) -> NameKinds]]
  /\ \A plugin \in ToSet(Plugins), b, c \in ToSet(Dir) :
       names[plugin][b] = "exact" /\ names[plugin][c] = "exact" => b = c
  /\ mapPc = "clear" /\ toAdd = <<>>
  /\ fileMap = NoFiles /\ restoreMap = NoFiles /\ native = NoFiles

ClearMaps ==
  /\ mapPc = "clear" /\ mapPc' = "BSAs"
  /\ fileMap' = NoFiles /\ restoreMap' = NoFiles
  /\ toAdd' = getBSALoadOrder
  /\ UNCHANGED <<inputVars, native>>

addBSAToFileMap ==
  /\ mapPc = "BSAs" /\ toAdd # <<>>
  /\ toAdd' = Tail(toAdd)
  /\ IF Head(toAdd) \in Broken THEN UNCHANGED fileMap
     ELSE fileMap' = Put(fileMap, Held[Head(toAdd)], Entry(Head(toAdd), FALSE))
  /\ UNCHANGED <<inputVars, mapPc, restoreMap, native>>

addLooseFilesToMap ==
  /\ mapPc = "BSAs" /\ toAdd = <<>> /\ mapPc' = "populated"
  /\ fileMap' = Put(fileMap, Loose, Entry(NoBSA, FALSE))
  /\ native' = fileMap'
  /\ UNCHANGED <<inputVars, toAdd, restoreMap>>

-----------------------------------------------------------------------------
(* The marks of a patching run.                                            *)

\* Mutant: an entry is saved for restoration even if it is a mark itself.
SaveMarks(p) ==
  /\ restoreMap' = IF p \in DOMAIN fileMap THEN Put(restoreMap, {p}, fileMap[p])
                   ELSE restoreMap
  /\ fileMap' = Put(fileMap, {p}, Entry(NoBSA, TRUE))

\* A native entry is saved before the mark replaces it.
Mark(p) ==
  /\ restoreMap' = IF p \in DOMAIN fileMap /\ ~fileMap[p].generated
                   THEN Put(restoreMap, {p}, fileMap[p]) ELSE restoreMap
  /\ fileMap' = Put(fileMap, {p}, Entry(NoBSA, TRUE))

GeneratedIn(m) == {p \in DOMAIN m : m[p].generated}

\* A marked path gets back the entry it replaced, or leaves the map.
RestoreMarked ==
  LET marked   == GeneratedIn(fileMap)
      restored == marked \cap DOMAIN restoreMap
  IN  /\ fileMap' = [p \in DOMAIN fileMap \ (marked \ restored) |->
                       IF p \in restored THEN restoreMap[p] ELSE fileMap[p]]
      /\ restoreMap' = [p \in DOMAIN restoreMap \ restored |-> restoreMap[p]]

addGeneratedFile(p) ==
  /\ mapPc = "populated" /\ Mark(p)
  /\ UNCHANGED <<inputVars, mapPc, toAdd, native>>

clearGeneratedFiles ==
  /\ mapPc = "populated" /\ RestoreMarked
  /\ UNCHANGED <<inputVars, mapPc, toAdd, native>>

Next == \/ ClearMaps \/ addBSAToFileMap \/ addLooseFilesToMap
        \/ \E p \in Paths : addGeneratedFile(p)
        \/ clearGeneratedFiles

Spec == Init /\ [][Next]_vars

-----------------------------------------------------------------------------
(* Properties                                                              *)

Entries == [bsaFile : BSAs \cup {NoBSA}, generated : BOOLEAN]
IsMap(m) == DOMAIN m \subseteq Paths /\ \A p \in DOMAIN m : m[p] \in Entries

TypeOK ==
  /\ mapPc \in {"clear", "BSAs", "populated"}
  /\ toAdd \in Seq(BSAs)
  /\ IsMap(fileMap) /\ IsMap(restoreMap) /\ IsMap(native)

(* What an archive's place is, without computing the order: archives named *)
(* by the INI come first as listed there; the others follow with the first *)
(* plugin that loads them, the plugin's own name first, then as listed.    *)
PlacesIn(f, b) == {<<f, i>> : i \in {j \in DOMAIN IniList(Fields[f]) : IniList(Fields[f])[j] = b}}
IniPlaces(b) == UNION {PlacesIn(f, b) : f \in DOMAIN Fields}
Before(x, y) == x[1] < y[1] \/ (x[1] = y[1] /\ x[2] < y[2])
Loaders(b) == {i \in DOMAIN Plugins : Contains(Dir, b) /\ names[Plugins[i]][b] # "other"}
Loaded(b) == IniPlaces(b) # {} \/ Loaders(b) # {}
DirPlace(b) == CHOOSE i \in DOMAIN Dir : Dir[i] = b

Overrides(b, a) ==
  IF IniPlaces(a) # {}
  THEN \E x \in IniPlaces(a) : \A y \in IniPlaces(b) : Before(x, y)
  ELSE IniPlaces(b) = {} /\
       LET k == Min(Loaders(b))
           l == Min(Loaders(a))
       IN  \/ k > l
           \/ /\ k = l
              /\ \/ names[Plugins[l]][a] = "exact"
                 \/ names[Plugins[k]][b] # "exact" /\ DirPlace(b) > DirPlace(a)

Holders(p) == {b \in BSAs \ Broken : Loaded(b) /\ p \in Held[b]}
Wins(b, p) ==
  IF p \in Loose THEN b = NoBSA
  ELSE b \in Holders(p) /\ \A a \in Holders(p) \ {b} : Overrides(b, a)

(* populateFileMap gives every path the source the game would load it      *)
(* from: the loose file if there is one, else the archive that overrides   *)
(* every other loaded archive holding it, an archive loaded twice keeping  *)
(* its first and weakest place.                                            *)
WinningSource ==
  mapPc = "populated" =>
    /\ DOMAIN native =
         Loose \cup UNION {Held[b] : b \in {c \in BSAs \ Broken : Loaded(c)}}
    /\ \A p \in DOMAIN native : Wins(native[p].bsaFile, p)

(* The maps are well formed, and every path has the source the game loads. *)
SourcesRight == TypeOK /\ WinningSource

(* Nothing a patching run marks can lose a native source: an unmarked path *)
(* has its native entry and nothing to restore, a marked one that was in   *)
(* the load order has exactly its native entry in the restore map.         *)
NativeKept ==
  mapPc = "populated" =>
    /\ DOMAIN native \subseteq DOMAIN fileMap
    /\ DOMAIN restoreMap = DOMAIN native \cap GeneratedIn(fileMap)
    /\ \A p \in DOMAIN restoreMap : restoreMap[p] = native[p]
    /\ \A p \in DOMAIN fileMap \ GeneratedIn(fileMap) :
         p \in DOMAIN native /\ fileMap[p] = native[p]

(* Marks are undone, however often and in whatever order files are marked  *)
(* and cleared: no step loses a native source, and clearGeneratedFiles     *)
(* gives the populated map back, which is what the next run relies on.     *)
MarksUndone ==
  [][NativeKept' /\ (clearGeneratedFiles => fileMap' = native /\ restoreMap' = NoFiles)]_vars
=============================================================================
