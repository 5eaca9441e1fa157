--------------------------- MODULE PatchRunProofs ---------------------------
(***************************************************************************)
(* A patching run and its repetitions, for every set of meshes, textures   *)
(* and hooks and every number of runs.  What FileMapProofs shows of the    *)
(* file map is used here for the map this module's runs mark.              *)
(***************************************************************************)
EXTENDS PatchRun, TLAPS, SequenceTheorems

FMP == INSTANCE FileMapProofs WITH
         BSAs <- {}, Dir <- <<>>, Plugins <- <<>>, Broken <- {}, Held <- <<>>,
         Loose <- Native, Fields <- <<>>, INIs <- <<>>, Lists <- {}, NoBSA <- "loose",
         iniValue <- <<>>, names <- <<>>, mapPc <- "populated", toAdd <- <<>>

\* The runner patches, and the file saver may still owe files; then it
\* assembles the output.
Patching   == {"meshes", "textures", "waitSaver"}
Assembling == {"checkOutput", "plugin", "assets", "diff", "zip", "done"}

SavedPaths == {p \in MeshOutputs : p[2] \in saved[p[1]]}
HookPaths  == {HookOutput(t) : t \in processList}
Owed       == Range(pending) \cup ({hand} \ {<<>>})
Assets     == DOMAIN Output \cap {CubemapFile, DiffFile}

Typing ==
  /\ phase \in Phases /\ run \in 1..MaxRuns /\ overtaken \in BOOLEAN
  /\ params \in [zip : BOOLEAN, cubemap : BOOLEAN]
  /\ DOMAIN fileMap \subseteq Paths
  /\ jobPc \in [Meshes -> {"todo", "loaded", "saveMeshes", "done"}]
  /\ toSave \in [Meshes -> {<<>>, <<0>>, <<1>>, <<0, 1>>}]
  /\ saved \in [Meshes -> SUBSET {0, 1}]
  /\ processList \subseteq Textures /\ texDone \subseteq Mapped
  /\ modelUses \subseteq MeshOutputs /\ referred \subseteq Textures
  /\ pending \in Seq(MeshOutputs \X (1..MaxRuns))
  /\ hand \in {<<>>} \cup (MeshOutputs \X (1..MaxRuns))

\* What the jobs of a run have done so far.
JobInv ==
  /\ phase \in {"deleteOutput", "startMeshes"} => modelUses = {}
  /\ phase \in Patching \cup Assembling =>
       /\ \A m \in Meshes : jobPc[m] \in {"todo", "loaded"} =>
                              toSave[m] = <<>> /\ saved[m] = {}
       /\ \A m \in Meshes : saved[m] \cap Range(toSave[m]) = {}
       /\ modelUses = {p \in SavedPaths : jobPc[p[1]] = "done"}
       /\ phase # "meshes" => \A m \in Meshes : jobPc[m] = "done"
       /\ phase = "meshes" => texDone = {}
       /\ phase \notin {"meshes", "textures"} => texDone = Mapped
       /\ referred = processList

\* The marks are those of the saved meshes, the registered hooks and the
\* deployed assets, and there are none when a run starts.
MarkInv ==
  /\ FMP!MapInv
  /\ phase \in {"deleteOutput", "startMeshes"} => Marked = {}
  /\ phase = "startMeshes" => Assets = {}
  /\ phase \in Patching \cup Assembling => Marked = SavedPaths \cup HookPaths \cup Assets

ZipInv ==
  phase \in ({"startMeshes"} \cup Patching \cup Assembling) \ {"done"} => zip = NoFiles

\* Where the files of this run are, as long as the saver was not overtaken.
FileInv == ~overtaken =>
  /\ phase # "threw"
  /\ phase \notin Patching \cup {"critical"} => pending = <<>> /\ hand = <<>>
  /\ phase \in Patching => \A w \in Owed : w[1] \in SavedPaths /\ w[2] = run
  /\ phase = "startMeshes" => DOMAIN disk = {}
  /\ phase = "meshes" => DOMAIN disk \subseteq SavedPaths
  /\ phase \in Patching \cup Assembling =>
       /\ SavedPaths \subseteq DOMAIN Output \cup lost \cup {w[1] : w \in Owed}
       /\ \A t \in processList \cap texDone : HookOutput(t) \in DOMAIN Output \cup lost
       /\ DOMAIN Output \subseteq
            SavedPaths \cup HookPaths \cup {CubemapFile, DiffFile, PluginFile, LightFile}
       /\ \A files \in {disk, zip} : \A p \in DOMAIN files : files[p] = run
  /\ phase \in {"assets", "diff", "zip", "done"} =>
       PluginFile \in DOMAIN Output \/ modelUses = {} \/ (phase = "done" /\ modelUses \subseteq lost)

IInv == Typing /\ JobInv /\ MarkInv /\ ZipInv /\ FileInv
-----------------------------------------------------------------------------
(* The file map.                                                           *)

\* What module FileMap assumes of its constants holds of their values here.
LEMMA MapAssumption ==
  /\ <<>> \in [{} -> SUBSET Paths] /\ Native \in SUBSET Paths
  /\ {} \subseteq {} /\ "loose" \notin {}
  /\ <<>> \in Seq(STRING) /\ <<>> \in Seq(STRING) /\ {} \subseteq Seq({})
  BY PatchRunAssumption DEF Native, Paths, MeshOutputs

LEMMA MarkPath ==
  ASSUME FMP!MapInv, NEW p \in Paths, FM!Mark(p)
  PROVE  /\ FMP!MapInv' /\ Marked' = Marked \cup {p}
         /\ DOMAIN fileMap' = {p} \cup DOMAIN fileMap
<1>1. FMP!addGeneratedFile(p)
  BY DEF FMP!addGeneratedFile, FM!Mark, FMP!Mark, FM!Put, FMP!Put, FM!Entry, FMP!Entry,
         FMP!inputVars, native
<1>2. FMP!MapInv'
  BY <1>1, FMP!AddKeeps, MapAssumption
<1>3. fileMap' = [q \in {p} \cup DOMAIN fileMap |->
                    IF q \in {p} THEN [bsaFile |-> "loose", generated |-> TRUE] ELSE fileMap[q]]
  BY DEF FM!Mark, FM!Put, FM!Entry
<1> QED BY <1>2, <1>3 DEF Marked

LEMMA ClearMarks ==
  ASSUME FMP!MapInv, FM!RestoreMarked
  PROVE  FMP!MapInv' /\ Marked' = {} /\ DOMAIN fileMap' = Native
<1>1. FMP!clearGeneratedFiles
  BY DEF FMP!clearGeneratedFiles, FM!RestoreMarked, FMP!RestoreMarked,
         FM!GeneratedIn, FMP!GeneratedIn, FMP!inputVars, native
<1>2. fileMap' = native /\ restoreMap' = FMP!NoFiles
  BY <1>1, FMP!ClearGivesNative, MapAssumption
<1>3. Marked' = {} /\ DOMAIN fileMap' = Native
  BY <1>2 DEF Marked, native, loose
<1>4. FMP!MapInv'
  BY <1>2 DEF FMP!MapInv, FMP!IsFunction, FMP!Unmarked, FMP!NativeKept, FMP!NoFiles,
     FMP!GeneratedIn, native, loose
<1> QED BY <1>3, <1>4

LEMMA MapUnchanged ==
  ASSUME FMP!MapInv, UNCHANGED mapVars
  PROVE  FMP!MapInv' /\ Marked' = Marked
  BY DEF mapVars, Marked, FMP!MapInv, FMP!IsFunction, FMP!Unmarked, FMP!NativeKept,
     FMP!GeneratedIn, native

LEMMA WriteFile ==
  ASSUME NEW files, NEW p, NEW n
  PROVE  /\ DOMAIN Write(files, p, n) = {p} \cup DOMAIN files
         /\ \A q \in {p} \cup DOMAIN files :
              Write(files, p, n)[q] = IF q = p THEN n ELSE files[q]
  BY DEF Write

LEMMA NoFile == DOMAIN NoFiles = {}
  BY DEF NoFiles
-----------------------------------------------------------------------------
(* The paths.                                                              *)

LEMMA PathsApart ==
  /\ \A m \in Meshes, t \in Textures : \A i, j : MeshPath(m, i) # <<t, j>>
  /\ \A m \in Meshes : \A i : MeshPath(m, i) \notin {CubemapFile, DiffFile, PluginFile, LightFile}
  /\ \A t \in Textures : HookOutput(t) \notin {CubemapFile, DiffFile, PluginFile, LightFile}
  /\ PluginFile \notin Paths /\ LightFile \notin Paths
  /\ PluginFile # LightFile /\ CubemapFile # DiffFile
  /\ PluginFile \notin {CubemapFile, DiffFile} /\ LightFile \notin {CubemapFile, DiffFile}
<1> USE DEF MeshPath, HookOutput, Source, CubemapFile, DiffFile, PluginFile, LightFile
<1>1. /\ \A m \in Meshes : m \notin Textures /\ m \notin FileNames
      /\ \A t \in Textures : t \notin FileNames
  BY NamesDiffer
<1>2. "PGPatcher.esp" \notin Meshes \cup Textures /\ "lightplacer" \notin Meshes \cup Textures
  BY NamesDiffer DEF FileNames
<1> QED BY <1>1, <1>2 DEF FileNames, Paths, MeshOutputs

LEMMA InSavedPaths ==
  ASSUME Typing
  PROVE  /\ \A m \in Meshes, i \in {0, 1} : MeshPath(m, i) \in SavedPaths <=> i \in saved[m]
         /\ \A p \in SavedPaths : \E m \in Meshes : \E i \in saved[m] : p = MeshPath(m, i)
         /\ \A m, n \in Meshes : \A i, j : MeshPath(m, i) = MeshPath(n, j) => m = n /\ i = j
  BY DEF SavedPaths, MeshOutputs, MeshPath, Typing

\* The lists of outputs, and what is left of one after its first is saved.
LEMMA OutputLists ==
  ASSUME NEW s \in {<<>>, << 0 >>, << 1 >>, <<0, 1>>}
  PROVE  /\ s \in Seq({0, 1})
         /\ s = <<>> => Range(s) = {}
         /\ s # <<>> => /\ Head(s) \in {0, 1} /\ Head(s) \in Range(s)
                        /\ Tail(s) \in {<<>>, <<0>>, <<1>>, <<0, 1>>}
                        /\ Range(Tail(s)) \subseteq Range(s) \ {Head(s)}
<1>1. CASE s = <<>>
  BY <1>1 DEF Range
<1>2. CASE s = <<0>>
  BY <1>2 DEF Range
<1>3. CASE s = <<1>>
  BY <1>3 DEF Range
<1>4. CASE s = <<0, 1>>
  BY <1>4 DEF Range
<1> QED BY <1>1, <1>2, <1>3, <1>4

LEMMA InitInductive == Init => IInv
<1> SUFFICES ASSUME Init PROVE IInv
  OBVIOUS
<1>1. Typing
  <2>1. DOMAIN fileMap \subseteq Paths
    BY PatchRunAssumption DEF Init, native, Native, Paths, MeshOutputs
  <2>2. run \in 1..MaxRuns
    BY PatchRunAssumption DEF Init
  <2>3. pending \in Seq(MeshOutputs \X (1..MaxRuns))
    BY DEF Init
  <2> QED BY <2>1, <2>2, <2>3 DEF Init, Typing, Phases
<1>2. JobInv /\ ZipInv /\ FileInv
  BY DEF Init, JobInv, ZipInv, FileInv, Patching, Assembling
<1>3. FMP!MapInv
  BY DEF Init, FMP!MapInv, FMP!IsFunction, FMP!Unmarked, FMP!NativeKept, NoFiles,
     FMP!GeneratedIn, native, loose
<1>4. MarkInv
  BY <1>3 DEF Init, MarkInv, Patching, Assembling
<1> QED BY <1>1, <1>2, <1>4 DEF IInv

-----------------------------------------------------------------------------
(* Types.                                                                  *)

LEMMA NextTyping == Typing /\ FMP!MapInv /\ [Next]_vars => Typing'
<1> SUFFICES ASSUME Typing, FMP!MapInv, [Next]_vars PROVE Typing'
  OBVIOUS
<1> USE DEF Typing, Phases, GoTo, runVars, mapVars, saverVars, jobVars
<1>1. CASE SaverTakes
  <2>1. Head(pending) \in MeshOutputs \X (1..MaxRuns)
        /\ Tail(pending) \in Seq(MeshOutputs \X (1..MaxRuns))
    BY <1>1, HeadTailProperties DEF SaverTakes
  <2> QED BY <1>1, <2>1 DEF SaverTakes
<1>2. CASE SaverWrites \/ SaverFails
  BY <1>2 DEF SaverWrites, SaverFails
<1>3. CASE ResetState
  <2>1. DOMAIN fileMap' = Native
    BY <1>3, ClearMarks DEF ResetState
  <2> QED BY <1>3, <2>1, PatchRunAssumption DEF ResetState, Native, Paths, MeshOutputs
<1>4. CASE deleteOutputDir \/ FinishMeshes \/ FinishTextures \/ WaitForSaver
           \/ CheckOutput \/ SavePlugin \/ ZipOutput
  BY <1>4 DEF deleteOutputDir, FinishMeshes, FinishTextures, WaitForSaver, CheckOutput,
     SavePlugin, ZipOutput
<1>5. CASE StartMeshes
  BY <1>5 DEF StartMeshes
<1>6. CASE deployDynamicCubemapFile
  <2>1. CubemapFile \in Paths
    BY DEF Paths
  <2>2. DOMAIN fileMap' \subseteq DOMAIN fileMap \cup {CubemapFile}
    BY <1>6, <2>1, MarkPath DEF deployDynamicCubemapFile
  <2> QED BY <1>6, <2>1, <2>2 DEF deployDynamicCubemapFile
<1>7. CASE SaveDiff
  <2>1. DiffFile \in Paths
    BY DEF Paths
  <2>2. DOMAIN fileMap' \subseteq DOMAIN fileMap \cup {DiffFile}
    BY <1>7, <2>1, MarkPath DEF SaveDiff
  <2> QED BY <1>7, <2>1, <2>2 DEF SaveDiff
<1>8. CASE Retry
  BY <1>8, PatchRunAssumption DEF Retry
<1>9. ASSUME NEW m \in Meshes, SkipMesh(m) \/ LoadMesh(m) PROVE Typing'
  BY <1>9 DEF SkipMesh, LoadMesh
<1>10. ASSUME NEW m \in Meshes, NEW t \in Textures, addToProcessList(m, t) PROVE Typing'
  <2>1. HookOutput(t) \in Paths
    BY DEF Paths
  <2>2. DOMAIN fileMap' \subseteq DOMAIN fileMap \cup {HookOutput(t)}
    BY <1>10, <2>1, MarkPath DEF addToProcessList
  <2> QED BY <1>10, <2>1, <2>2 DEF addToProcessList
<1>11. ASSUME NEW m \in Meshes, CommitUses(m) PROVE Typing'
  BY <1>11 DEF CommitUses
<1>12. ASSUME NEW m \in Meshes, SaveMesh(m) PROVE Typing'
  <2> DEFINE p == MeshPath(m, Head(toSave[m]))
  <2>1. Head(toSave[m]) \in {0, 1} /\ Tail(toSave[m]) \in {<<>>, <<0>>, <<1>>, <<0, 1>>}
    BY <1>12, OutputLists DEF SaveMesh
  <2>2. p \in MeshOutputs /\ p \in Paths
    BY <2>1 DEF MeshOutputs, Paths
  <2>3. DOMAIN fileMap' = {p} \cup DOMAIN fileMap
    BY <1>12, <2>2, MarkPath DEF SaveMesh
  <2>4. Append(pending, <<p, run>>) \in Seq(MeshOutputs \X (1..MaxRuns))
    BY <2>2, AppendProperties
  <2> QED BY <1>12, <2>1, <2>2, <2>3, <2>4 DEF SaveMesh
<1>13. ASSUME NEW m \in Meshes, SaveMeshThrows(m) PROVE Typing'
  BY <1>13 DEF SaveMeshThrows
<1>14. ASSUME NEW m \in Meshes, SaveMeshFails(m) PROVE Typing'
  <2> DEFINE p == MeshPath(m, Head(toSave[m]))
  <2>1. Head(toSave[m]) \in {0, 1}
    BY <1>14, OutputLists DEF SaveMeshFails
  <2>2. p \in MeshOutputs
    BY <2>1 DEF MeshOutputs
  <2>3. Append(pending, <<p, run>>) \in Seq(MeshOutputs \X (1..MaxRuns))
    BY <2>2, AppendProperties
  <2> QED BY <1>14, <2>3 DEF SaveMeshFails
<1>15. ASSUME NEW m \in Meshes, FinishMesh(m) PROVE Typing'
  BY <1>15 DEF FinishMesh, MeshOutputs
<1>16. ASSUME NEW t \in Mapped, patchDDS(t) PROVE Typing'
  BY <1>16 DEF patchDDS
<1>17. CASE UNCHANGED vars
  BY <1>17 DEF vars
<1> QED BY <1>1, <1>2, <1>3, <1>4, <1>5, <1>6, <1>7, <1>8, <1>9, <1>10, <1>11, <1>12,
           <1>13, <1>14, <1>15, <1>16, <1>17 DEF Next, Saver, Runner, Job

-----------------------------------------------------------------------------
(* The jobs and the marks.                                                 *)

LEMMA NextJob == Typing /\ JobInv /\ [Next]_vars => JobInv'
<1> SUFFICES ASSUME Typing, JobInv, [Next]_vars PROVE JobInv'
  OBVIOUS
<1>a. /\ phase \in Phases /\ jobPc \in [Meshes -> {"todo", "loaded", "saveMeshes", "done"}]
      /\ toSave \in [Meshes -> {<<>>, <<0>>, <<1>>, <<0, 1>>}]
      /\ saved \in [Meshes -> SUBSET {0, 1}]
  BY DEF Typing
<1> USE DEF GoTo, runVars, mapVars, saverVars, Patching, Assembling
<1>1. ASSUME UNCHANGED <<jobVars>>, phase' = phase \/ phase' \in {"threw", "critical"}
             \/ (phase' = "reset" /\ phase = "done")
      PROVE  JobInv'
  BY <1>1 DEF JobInv, jobVars, SavedPaths
<1>2. CASE Saver
  BY <1>1, <1>2 DEF Saver, SaverTakes, SaverWrites, SaverFails
<1>3. CASE ResetState
  BY <1>3 DEF ResetState, JobInv
<1>4. CASE deleteOutputDir
  BY <1>4 DEF deleteOutputDir, JobInv, jobVars
<1>5. CASE StartMeshes
  <2>1. SavedPaths' = {}
    BY <1>5 DEF StartMeshes, SavedPaths, MeshOutputs, MeshPath
  <2> QED BY <1>5, <2>1, OutputLists DEF StartMeshes, JobInv
<1>6. CASE FinishMeshes \/ FinishTextures \/ WaitForSaver \/ CheckOutput \/ SavePlugin
           \/ deployDynamicCubemapFile \/ SaveDiff \/ ZipOutput
  <2>1. /\ UNCHANGED jobVars /\ phase \in Patching \cup Assembling
        /\ phase' \in (Patching \cup Assembling) \ {"meshes"}
        /\ phase = "meshes" => \A m \in Meshes : jobPc[m] = "done"
        /\ phase' \notin {"meshes", "textures"} => texDone = Mapped
    BY <1>6 DEF FinishMeshes, FinishTextures, WaitForSaver, CheckOutput, SavePlugin,
       deployDynamicCubemapFile, SaveDiff, ZipOutput, JobInv
  <2>2. SavedPaths' = SavedPaths
    BY <2>1 DEF jobVars, SavedPaths
  <2> QED BY <2>1, <2>2 DEF JobInv, jobVars
<1>7. CASE Retry
  BY <1>1, <1>7 DEF Retry
<1>8. ASSUME NEW m \in Meshes, SkipMesh(m) \/ LoadMesh(m) PROVE JobInv'
  <2>1. saved[m] = {} /\ jobPc[m] # "done" /\ SavedPaths' = SavedPaths /\ phase = "meshes"
        /\ phase' = phase
    BY <1>8, <1>a DEF SkipMesh, LoadMesh, JobInv, SavedPaths
  <2>2. \A p \in SavedPaths : p[1] # m /\ p[1] \in Meshes
    BY <2>1 DEF SavedPaths, MeshOutputs, MeshPath
  <2>3. {p \in SavedPaths : jobPc'[p[1]] = "done"} = {p \in SavedPaths : jobPc[p[1]] = "done"}
    BY <2>2, <1>8, <1>a DEF SkipMesh, LoadMesh
  <2> QED BY <1>8, <1>a, <2>1, <2>3 DEF SkipMesh, LoadMesh, JobInv
<1>9. ASSUME NEW m \in Meshes, NEW t \in Textures, addToProcessList(m, t) PROVE JobInv'
  BY <1>9 DEF addToProcessList, JobInv, SavedPaths
<1>10. ASSUME NEW m \in Meshes, CommitUses(m) PROVE JobInv'
  <2>1. saved[m] = {} /\ jobPc[m] # "done" /\ SavedPaths' = SavedPaths /\ phase = "meshes"
        /\ phase' = phase
    BY <1>10, <1>a DEF CommitUses, JobInv, SavedPaths
  <2>2. \A p \in SavedPaths : p[1] # m /\ p[1] \in Meshes
    BY <2>1 DEF SavedPaths, MeshOutputs, MeshPath
  <2>3. {p \in SavedPaths : jobPc'[p[1]] = "done"} = {p \in SavedPaths : jobPc[p[1]] = "done"}
    BY <2>2, <1>10, <1>a DEF CommitUses
  <2> QED BY <1>10, <1>a, <2>1, <2>3 DEF CommitUses, JobInv
<1>11. ASSUME NEW m \in Meshes, SaveMesh(m) PROVE JobInv'
  <2>1. /\ phase = "meshes" /\ phase' = phase /\ jobPc[m] = "saveMeshes"
        /\ toSave' = [toSave EXCEPT ![m] = Tail(toSave[m])]
        /\ saved' = [saved EXCEPT ![m] = saved[m] \cup {Head(toSave[m])}]
        /\ UNCHANGED <<jobPc, processList, referred, texDone, modelUses>>
    BY <1>11 DEF SaveMesh
  <2>2. saved[m] \cap Range(toSave[m]) = {}
    BY <2>1 DEF JobInv
  <2>3. /\ Range(Tail(toSave[m])) \subseteq Range(toSave[m]) \ {Head(toSave[m])}
        /\ Head(toSave[m]) \in {0, 1}
    BY <1>11, <1>a, OutputLists DEF SaveMesh
  <2>4. (saved'[m]) \cap Range(toSave'[m]) = {}
    BY <2>1, <2>2, <2>3, <1>a
  <2>5. {p \in SavedPaths' : jobPc'[p[1]] = "done"} = {p \in SavedPaths : jobPc[p[1]] = "done"}
    BY <2>1, <2>3, <1>a DEF SavedPaths, MeshOutputs, MeshPath
  <2> QED BY <2>1, <2>4, <2>5, <1>a DEF JobInv
<1>12. ASSUME NEW m \in Meshes, SaveMeshThrows(m) \/ SaveMeshFails(m) PROVE JobInv'
  BY <1>1, <1>12 DEF SaveMeshThrows, SaveMeshFails
<1>13. ASSUME NEW m \in Meshes, FinishMesh(m) PROVE JobInv'
  <2>1. /\ phase = "meshes" /\ phase' = phase
        /\ jobPc' = [jobPc EXCEPT ![m] = "done"]
        /\ modelUses' = modelUses \cup {MeshPath(m, i) : i \in saved[m]}
        /\ UNCHANGED <<toSave, saved, processList, referred, texDone>>
    BY <1>13 DEF FinishMesh
  <2>2. SavedPaths' = SavedPaths
    BY <2>1 DEF SavedPaths
  <2>3. {p \in SavedPaths : jobPc'[p[1]] = "done"}
          = {p \in SavedPaths : jobPc[p[1]] = "done"} \cup {MeshPath(m, i) : i \in saved[m]}
    BY <2>1, <1>a DEF SavedPaths, MeshOutputs, MeshPath
  <2> QED BY <2>1, <2>2, <2>3, <1>a DEF JobInv
<1>14. ASSUME NEW t \in Mapped, patchDDS(t) PROVE JobInv'
  BY <1>14 DEF patchDDS, JobInv, SavedPaths
<1>15. CASE UNCHANGED vars
  BY <1>1, <1>15 DEF vars
<1> QED BY <1>2, <1>3, <1>4, <1>5, <1>6, <1>7, <1>8, <1>9, <1>10, <1>11, <1>12, <1>13,
           <1>14, <1>15 DEF Next, Runner, Job

LEMMA AssetsKept ==
  ASSUME zip' = zip,
         \/ disk' = disk
         \/ \E p, n : p \notin {CubemapFile, DiffFile} /\ disk' = Write(disk, p, n)
  PROVE  Assets' = Assets
<1>1. CASE disk' = disk
  BY <1>1 DEF Assets, Output
<1>2. ASSUME NEW p, NEW n, p \notin {CubemapFile, DiffFile}, disk' = Write(disk, p, n)
      PROVE  Assets' = Assets
  <2>1. DOMAIN disk' = {p} \cup DOMAIN disk
    BY <1>2, WriteFile
  <2> QED BY <1>2, <2>1 DEF Assets, Output
<1> QED BY <1>1, <1>2

\* The archive takes the place of the files it is made of.
LEMMA ZipKeeps ==
  ASSUME ZipOutput, ZipInv, phase = "zip"
  PROVE  Output' = Output
  BY DEF ZipOutput, ZipInv, Output, Patching, Assembling

LEMMA NextMark == Typing /\ JobInv /\ MarkInv /\ ZipInv /\ [Next]_vars => (MarkInv /\ ZipInv)'
<1> SUFFICES ASSUME Typing, JobInv, MarkInv, ZipInv, [Next]_vars PROVE (MarkInv /\ ZipInv)'
  OBVIOUS
<1>a. /\ phase \in Phases /\ FMP!MapInv
      /\ toSave \in [Meshes -> {<<>>, <<0>>, <<1>>, <<0, 1>>}]
      /\ saved \in [Meshes -> SUBSET {0, 1}]
  BY DEF Typing, MarkInv
<1> USE DEF GoTo, runVars, saverVars, Patching, Assembling
<1>1. ASSUME UNCHANGED <<mapVars, zip, saved, processList>>, phase' = phase,
             \/ disk' = disk
             \/ \E p, n : p \notin {CubemapFile, DiffFile} /\ disk' = Write(disk, p, n)
      PROVE  (MarkInv /\ ZipInv)'
  BY <1>1, <1>a, AssetsKept, MapUnchanged DEF MarkInv, ZipInv, SavedPaths, HookPaths
<1>2. ASSUME UNCHANGED <<mapVars, zip, saved, processList>>,
             phase \in Patching \cup (Assembling \ {"done"}), phase' \in Patching \cup Assembling,
             \/ disk' = disk
             \/ \E p, n : p \notin {CubemapFile, DiffFile} /\ disk' = Write(disk, p, n)
      PROVE  (MarkInv /\ ZipInv)'
  BY <1>2, <1>a, AssetsKept, MapUnchanged DEF MarkInv, ZipInv, SavedPaths, HookPaths
<1>3. CASE SaverWrites
  <2>1. hand[1] \notin {CubemapFile, DiffFile}
    BY <1>3, PathsApart DEF SaverWrites, Typing, MeshOutputs
  <2> QED BY <1>1, <1>3, <2>1 DEF SaverWrites, jobVars
<1>4. CASE SaverTakes \/ SaverFails
  BY <1>1, <1>4 DEF SaverTakes, SaverFails, jobVars
<1>5. CASE ResetState
  BY <1>5, <1>a, ClearMarks DEF ResetState, MarkInv, ZipInv
<1>6. CASE deleteOutputDir
  <2>1. Assets' = {} /\ FMP!MapInv' /\ Marked' = Marked /\ Marked = {}
    BY <1>6, <1>a, NoFile, MapUnchanged DEF deleteOutputDir, Assets, Output, MarkInv
  <2> QED BY <1>6, <2>1 DEF deleteOutputDir, MarkInv, ZipInv
<1>7. CASE StartMeshes
  <2>1. Assets' = {} /\ FMP!MapInv' /\ Marked' = {}
    BY <1>7, <1>a, AssetsKept, MapUnchanged DEF StartMeshes, MarkInv
  <2>2. SavedPaths' = {} /\ HookPaths' = {}
    BY <1>7 DEF StartMeshes, SavedPaths, HookPaths, MeshOutputs, MeshPath
  <2> QED BY <1>7, <2>1, <2>2 DEF StartMeshes, MarkInv, ZipInv
<1>8. CASE FinishMeshes
  BY <1>2, <1>8, PathsApart DEF FinishMeshes, jobVars
<1>9. CASE FinishTextures \/ WaitForSaver \/ CheckOutput
  BY <1>2, <1>9 DEF FinishTextures, WaitForSaver, CheckOutput, jobVars
<1>10. CASE SavePlugin
  BY <1>2, <1>10, PathsApart DEF SavePlugin, jobVars
<1>11. CASE deployDynamicCubemapFile
  <2>1. zip = NoFiles /\ zip' = zip /\ SavedPaths' = SavedPaths /\ HookPaths' = HookPaths
        /\ Marked = SavedPaths \cup HookPaths \cup Assets
    BY <1>11 DEF deployDynamicCubemapFile, ZipInv, jobVars, SavedPaths, HookPaths, MarkInv
  <2>2. CASE UNCHANGED <<disk, mapVars>>
    BY <1>2, <1>11, <2>1, <2>2 DEF deployDynamicCubemapFile, jobVars
  <2>3. CASE disk' = Write(disk, CubemapFile, run) /\ FM!Mark(CubemapFile)
    <3>1. FMP!MapInv' /\ Marked' = Marked \cup {CubemapFile}
      BY <2>3, <1>a, MarkPath DEF Paths
    <3>2. DOMAIN disk' = {CubemapFile} \cup DOMAIN disk
      BY <2>3, WriteFile
    <3>3. Assets' = Assets \cup {CubemapFile}
      BY <2>1, <3>2 DEF Assets, Output
    <3> QED BY <1>11, <2>1, <3>1, <3>3 DEF deployDynamicCubemapFile, MarkInv, ZipInv
  <2> QED BY <1>11, <2>2, <2>3 DEF deployDynamicCubemapFile
<1>12. CASE SaveDiff
  <2>1. zip = NoFiles /\ zip' = zip /\ SavedPaths' = SavedPaths /\ HookPaths' = HookPaths
        /\ Marked = SavedPaths \cup HookPaths \cup Assets
    BY <1>12 DEF SaveDiff, ZipInv, jobVars, SavedPaths, HookPaths, MarkInv
  <2>2. CASE UNCHANGED <<disk, mapVars>>
    BY <1>2, <1>12, <2>1, <2>2 DEF SaveDiff, jobVars
  <2>3. CASE disk' = Write(disk, DiffFile, run) /\ FM!Mark(DiffFile)
    <3>1. FMP!MapInv' /\ Marked' = Marked \cup {DiffFile}
      BY <2>3, <1>a, MarkPath DEF Paths
    <3>2. DOMAIN disk' = {DiffFile} \cup DOMAIN disk
      BY <2>3, WriteFile
    <3>3. Assets' = Assets \cup {DiffFile}
      BY <2>1, <3>2 DEF Assets, Output
    <3> QED BY <1>12, <2>1, <3>1, <3>3 DEF SaveDiff, MarkInv, ZipInv
  <2> QED BY <1>12, <2>2, <2>3 DEF SaveDiff
<1>13. CASE ZipOutput
  <2>1. Output' = Output /\ phase = "zip" /\ phase' = "done"
    BY <1>13, ZipKeeps DEF ZipOutput
  <2>2. Assets' = Assets /\ SavedPaths' = SavedPaths /\ HookPaths' = HookPaths
    BY <1>13, <2>1 DEF ZipOutput, jobVars, Assets, SavedPaths, HookPaths
  <2>3. FMP!MapInv' /\ Marked' = Marked
    BY <1>13, <1>a, MapUnchanged DEF ZipOutput
  <2> QED BY <2>1, <2>2, <2>3 DEF MarkInv, ZipInv
<1>14. ASSUME UNCHANGED mapVars, phase' \in {"reset", "threw", "critical"}
       PROVE  (MarkInv /\ ZipInv)'
  BY <1>14, <1>a, MapUnchanged DEF MarkInv, ZipInv
<1>15. CASE Retry
  BY <1>14, <1>15 DEF Retry
<1>16. ASSUME NEW m \in Meshes,
              SkipMesh(m) \/ LoadMesh(m) \/ CommitUses(m) \/ FinishMesh(m)
       PROVE  (MarkInv /\ ZipInv)'
  BY <1>1, <1>16 DEF SkipMesh, LoadMesh, CommitUses, FinishMesh
<1>17. ASSUME NEW m \in Meshes, SaveMeshThrows(m) \/ SaveMeshFails(m)
       PROVE  (MarkInv /\ ZipInv)'
  BY <1>14, <1>17 DEF SaveMeshThrows, SaveMeshFails
<1>18. ASSUME NEW m \in Meshes, NEW t \in Textures, addToProcessList(m, t)
       PROVE  (MarkInv /\ ZipInv)'
  <2>1. /\ phase = "meshes" /\ phase' = phase /\ zip' = zip
        /\ Assets' = Assets /\ SavedPaths' = SavedPaths
        /\ HookPaths' = HookPaths \cup {HookOutput(t)}
        /\ Marked = SavedPaths \cup HookPaths \cup Assets
    BY <1>18, AssetsKept DEF addToProcessList, SavedPaths, HookPaths, MarkInv
  <2>2. FMP!MapInv' /\ Marked' = Marked \cup {HookOutput(t)}
    <3>1. CASE t \in processList
      BY <1>18, <2>1, <3>1, <1>a, MapUnchanged DEF addToProcessList, HookPaths
    <3>2. CASE t \notin processList
      BY <1>18, <3>2, <1>a, MarkPath DEF addToProcessList, Paths
    <3> QED BY <3>1, <3>2
  <2> QED BY <2>1, <2>2 DEF MarkInv, ZipInv
<1>19. ASSUME NEW m \in Meshes, SaveMesh(m) PROVE (MarkInv /\ ZipInv)'
  <2> DEFINE p == MeshPath(m, Head(toSave[m]))
  <2>1. Head(toSave[m]) \in {0, 1}
    BY <1>19, <1>a, OutputLists DEF SaveMesh
  <2>2. p \in Paths /\ p \in MeshOutputs
    BY <2>1 DEF Paths, MeshOutputs
  <2>3. /\ phase = "meshes" /\ phase' = phase /\ zip' = zip
        /\ Assets' = Assets /\ HookPaths' = HookPaths
        /\ Marked = SavedPaths \cup HookPaths \cup Assets
    BY <1>19, AssetsKept DEF SaveMesh, HookPaths, MarkInv
  <2>4. SavedPaths' = SavedPaths \cup {p}
    BY <1>19, <2>1, <1>a DEF SaveMesh, SavedPaths, MeshOutputs, MeshPath
  <2>5. FMP!MapInv' /\ Marked' = Marked \cup {p}
    BY <1>19, <2>2, <1>a, MarkPath DEF SaveMesh
  <2> QED BY <2>3, <2>4, <2>5 DEF MarkInv, ZipInv
<1>20. ASSUME NEW t \in Mapped, patchDDS(t) PROVE (MarkInv /\ ZipInv)'
  <2>1. HookOutput(t) \notin {CubemapFile, DiffFile}
    BY PathsApart, PatchRunAssumption
  <2> QED BY <1>1, <1>20, <2>1 DEF patchDDS
<1>21. CASE UNCHANGED vars
  BY <1>1, <1>21 DEF vars, jobVars
<1> QED BY <1>3, <1>4, <1>5, <1>6, <1>7, <1>8, <1>9, <1>10, <1>11, <1>12, <1>13, <1>15,
           <1>16, <1>17, <1>18, <1>19, <1>20, <1>21 DEF Next, Saver, Runner, Job

-----------------------------------------------------------------------------
(* The files.                                                              *)

LEMMA QueueRange ==
  ASSUME NEW S, NEW s \in Seq(S)
  PROVE  /\ s # <<>> => Range(s) = {Head(s)} \cup Range(Tail(s)) /\ Head(s) \in S
         /\ \A x \in S : Range(Append(s, x)) = Range(s) \cup {x}
         /\ Range(s) \subseteq S
<1>1. ASSUME s # <<>>
      PROVE  Range(s) = {Head(s)} \cup Range(Tail(s)) /\ Head(s) \in S
  <2>1. /\ Head(s) = s[1] /\ Head(s) \in S /\ Len(s) \in Nat \ {0}
        /\ DOMAIN s = 1..Len(s) /\ DOMAIN Tail(s) = 1..(Len(s) - 1)
        /\ \A i \in 1..(Len(s) - 1) : Tail(s)[i] = s[i + 1]
    BY <1>1, HeadTailProperties, LenProperties, EmptySeq
  <2>2. \A i \in 1..Len(s) : i = 1 \/ (i - 1 \in 1..(Len(s) - 1) /\ s[i] = Tail(s)[i - 1])
    BY <2>1
  <2>3. Range(s) \subseteq {Head(s)} \cup Range(Tail(s))
    <3> SUFFICES ASSUME NEW i \in 1..Len(s) PROVE s[i] \in {Head(s)} \cup Range(Tail(s))
      BY <2>1 DEF Range
    <3> QED BY <2>1, <2>2 DEF Range
  <2>4. {Head(s)} \cup Range(Tail(s)) \subseteq Range(s)
    BY <2>1 DEF Range
  <2> QED BY <2>1, <2>3, <2>4
<1>2. ASSUME NEW x \in S PROVE Range(Append(s, x)) = Range(s) \cup {x}
  <2>1. /\ DOMAIN s = 1..Len(s) /\ Len(s) \in Nat
        /\ DOMAIN Append(s, x) = 1..(Len(s) + 1)
        /\ \A i \in 1..Len(s) : Append(s, x)[i] = s[i]
        /\ Append(s, x)[Len(s) + 1] = x
    BY AppendProperties, LenProperties
  <2> QED BY <2>1 DEF Range
<1>3. Range(s) \subseteq S
  BY RangeOfSeq
<1> QED BY <1>1, <1>2, <1>3

LEMMA PairNotEmpty ==
  ASSUME NEW A, NEW B, NEW w \in A \X B
  PROVE  w # <<>>
<1>1. w = <<w[1], w[2]>>
  OBVIOUS
<1> QED BY <1>1

LEMMA OutputWritten ==
  ASSUME zip = NoFiles, zip' = zip, NEW p, disk' = Write(disk, p, run),
         \A q \in DOMAIN disk : disk[q] = run
  PROVE  /\ DOMAIN Output = DOMAIN disk /\ DOMAIN Output' = DOMAIN disk \cup {p}
         /\ DOMAIN disk' = DOMAIN disk \cup {p}
         /\ \A files \in {disk', zip'} : \A q \in DOMAIN files : files[q] = run
<1>1. /\ DOMAIN disk' = {p} \cup DOMAIN disk
      /\ \A q \in {p} \cup DOMAIN disk : disk'[q] = IF q = p THEN run ELSE disk[q]
  BY DEF Write
<1>2. Output = disk /\ Output' = disk'
  BY DEF Output
<1>3. \A q \in DOMAIN zip' : zip'[q] = run
  BY NoFile
<1> QED BY <1>1, <1>2, <1>3

LEMMA DiskGrows ==
  ASSUME NEW p, disk' = disk \/ disk' = Write(disk, p, run)
  PROVE  DOMAIN disk \subseteq DOMAIN disk'
<1>1. disk' = Write(disk, p, run) => DOMAIN disk' = {p} \cup DOMAIN disk
  BY WriteFile
<1> QED BY <1>1

LEMMA NextFile == IInv /\ [Next]_vars => FileInv'
<1> SUFFICES ASSUME IInv, [Next]_vars, ~overtaken' PROVE FileInv'
  BY DEF FileInv
<1>a. /\ Typing /\ JobInv /\ ZipInv /\ FileInv /\ phase \in Phases
      /\ toSave \in [Meshes -> {<<>>, <<0>>, <<1>>, <<0, 1>>}]
      /\ saved \in [Meshes -> SUBSET {0, 1}]
      /\ pending \in Seq(MeshOutputs \X (1..MaxRuns))
      /\ hand \in {<<>>} \cup (MeshOutputs \X (1..MaxRuns))
      /\ Mapped \subseteq Textures /\ processList \subseteq Textures
  BY PatchRunAssumption DEF IInv, Typing
<1>b. ~overtaken
  BY DEF Next, Saver, SaverTakes, SaverWrites, SaverFails, Runner, ResetState,
     deleteOutputDir, StartMeshes, FinishMeshes, FinishTextures, WaitForSaver, CheckOutput,
     SavePlugin, deployDynamicCubemapFile, SaveDiff, ZipOutput, Retry, Job, SkipMesh,
     LoadMesh, addToProcessList, CommitUses, SaveMesh, SaveMeshThrows, SaveMeshFails,
     FinishMesh, patchDDS, vars
<1> DEFINE Working == phase \in Patching \cup Assembling
           Kept == SavedPaths' = SavedPaths /\ HookPaths' = HookPaths /\ Owed' = Owed
<1>c. /\ phase # "threw"
      /\ phase \notin Patching \cup {"critical"} => pending = <<>> /\ hand = <<>> /\ Owed = {}
  BY <1>a, <1>b DEF FileInv, Owed, Range
<1>d. /\ phase \in Patching => \A w \in Owed : w[1] \in SavedPaths /\ w[2] = run
      /\ phase = "meshes" => DOMAIN disk \subseteq SavedPaths
      /\ Working =>
            /\ SavedPaths \subseteq DOMAIN Output \cup lost \cup {w[1] : w \in Owed}
            /\ \A t \in processList \cap texDone : HookOutput(t) \in DOMAIN Output \cup lost
            /\ DOMAIN Output \subseteq SavedPaths \cup HookPaths
                  \cup {CubemapFile, DiffFile, PluginFile, LightFile}
            /\ \A files \in {disk, zip} : \A p \in DOMAIN files : files[p] = run
  BY <1>a, <1>b DEF FileInv
<1>e. Working /\ phase # "done" => zip = NoFiles /\ Output = disk
  BY <1>a DEF ZipInv, Output
<1> USE <1>a, <1>b DEF GoTo, runVars, mapVars, Patching, Assembling, Phases
<1>1. ASSUME UNCHANGED <<run, disk, zip, lost, saved, processList, saverVars>>, Kept,
             phase' = phase \/ (phase = "textures" /\ phase' = "waitSaver")
               \/ phase' = "critical",
             texDone' = texDone,
             modelUses' = modelUses \/ phase = "meshes"
      PROVE  FileInv'
  BY <1>1 DEF FileInv, saverVars, Output
<1>2. CASE SaverTakes
  <2>1. pending # <<>> /\ hand = <<>> /\ hand' = Head(pending) /\ pending' = Tail(pending)
    BY <1>2 DEF SaverTakes
  <2>2. Range(pending) = {Head(pending)} \cup Range(Tail(pending))
        /\ Head(pending) \in MeshOutputs \X (1..MaxRuns)
        /\ Range(pending) \subseteq MeshOutputs \X (1..MaxRuns)
    BY <2>1, QueueRange
  <2>3. \A w \in MeshOutputs \X (1..MaxRuns) : w # <<>>
    BY PairNotEmpty
  <2>4. Owed' = Owed
    BY <2>1, <2>2, <2>3 DEF Owed
  <2>5. phase \in Patching \cup {"critical"} /\ phase' = phase
        /\ UNCHANGED <<run, disk, zip, lost, saved, processList, texDone, modelUses>>
    BY <2>1, <1>c, <1>2 DEF SaverTakes, jobVars
  <2>6. SavedPaths' = SavedPaths /\ HookPaths' = HookPaths /\ Output' = Output
    BY <2>5 DEF SavedPaths, HookPaths, Output
  <2> QED BY <2>4, <2>5, <2>6, <1>d DEF FileInv
<1>3. CASE SaverWrites
  <2>1. /\ hand # <<>> /\ hand' = <<>> /\ disk' = Write(disk, hand[1], hand[2])
        /\ phase \in Patching \cup {"critical"} /\ phase' = phase
        /\ UNCHANGED <<run, zip, lost, pending, saved, processList, texDone, modelUses>>
    BY <1>3, <1>c DEF SaverWrites, jobVars
  <2>2. SavedPaths' = SavedPaths /\ HookPaths' = HookPaths
    BY <2>1 DEF SavedPaths, HookPaths
  <2>3. Owed = Owed' \cup {hand}
    <3>1. \A w \in Range(pending) : w # <<>>
      BY QueueRange, PairNotEmpty
    <3> QED BY <2>1, <3>1 DEF Owed
  <2>4. CASE phase \in Patching
    <3>1. hand[1] \in SavedPaths /\ hand[2] = run /\ \A w \in Owed' : w \in Owed
      BY <2>3, <2>4, <1>d
    <3>2. /\ DOMAIN Output = DOMAIN disk /\ DOMAIN Output' = DOMAIN disk \cup {hand[1]}
          /\ DOMAIN disk' = DOMAIN disk \cup {hand[1]}
          /\ \A files \in {disk', zip'} : \A q \in DOMAIN files : files[q] = run
      BY <2>1, <2>4, <3>1, <1>d, <1>e, OutputWritten
    <3>3. {w[1] : w \in Owed} = {w[1] : w \in Owed'} \cup {hand[1]}
      BY <2>3
    <3> QED BY <2>1, <2>2, <2>4, <3>1, <3>2, <3>3, <1>d DEF FileInv
  <2>5. CASE phase = "critical"
    BY <2>1, <2>5 DEF FileInv
  <2> QED BY <2>1, <2>4, <2>5
<1>4. CASE SaverFails
  <2>1. /\ hand # <<>> /\ hand' = <<>> /\ lost' = lost \cup {hand[1]}
        /\ phase \in Patching \cup {"critical"} /\ phase' = phase
        /\ UNCHANGED <<run, zip, disk, pending, saved, processList, texDone, modelUses>>
    BY <1>4, <1>c DEF SaverFails, jobVars
  <2>2. SavedPaths' = SavedPaths /\ HookPaths' = HookPaths /\ Output' = Output
    BY <2>1 DEF SavedPaths, HookPaths, Output
  <2>3. Owed = Owed' \cup {hand}
    <3>1. \A w \in Range(pending) : w # <<>>
      BY QueueRange, PairNotEmpty
    <3> QED BY <2>1, <3>1 DEF Owed
  <2>4. {w[1] : w \in Owed} = {w[1] : w \in Owed'} \cup {hand[1]}
    BY <2>3
  <2> QED BY <2>1, <2>2, <2>3, <2>4, <1>d DEF FileInv
<1>5. CASE ResetState
  BY <1>5, <1>c DEF ResetState, FileInv, saverVars
<1>6. CASE deleteOutputDir
  BY <1>6, <1>c, NoFile DEF deleteOutputDir, FileInv, saverVars
<1>7. CASE StartMeshes
  <2>1. SavedPaths' = {} /\ processList' = {}
    BY <1>7 DEF StartMeshes, SavedPaths, MeshOutputs, MeshPath
  <2>2. DOMAIN disk' = {} /\ zip' = NoFiles /\ Owed' = {} /\ pending' = <<>> /\ hand' = <<>>
    BY <1>7, <1>c DEF StartMeshes, FileInv, ZipInv, saverVars, Owed
  <2>3. DOMAIN Output' = {}
    BY <2>2, NoFile DEF Output
  <2> QED BY <1>7, <2>1, <2>2, <2>3, NoFile DEF StartMeshes, FileInv
<1>8. ASSUME NEW m \in Meshes, SkipMesh(m) \/ LoadMesh(m) \/ CommitUses(m) \/ FinishMesh(m)
      PROVE  FileInv'
  <2>1. /\ UNCHANGED <<run, disk, zip, lost, saved, processList, saverVars, texDone>>
        /\ phase = "meshes" /\ phase' = phase
    BY <1>8 DEF SkipMesh, LoadMesh, CommitUses, FinishMesh
  <2>2. Kept
    BY <2>1 DEF SavedPaths, HookPaths, Owed, saverVars
  <2> QED BY <1>1, <2>1, <2>2
<1>9. ASSUME NEW m \in Meshes, NEW t \in Textures, addToProcessList(m, t) PROVE FileInv'
  <2>1. /\ UNCHANGED <<run, disk, zip, lost, saved, saverVars, texDone>>
        /\ phase = "meshes" /\ phase' = phase /\ processList' = processList \cup {t}
    BY <1>9 DEF addToProcessList
  <2>2. /\ SavedPaths' = SavedPaths /\ HookPaths \subseteq HookPaths'
        /\ Owed' = Owed /\ Output' = Output
    BY <2>1 DEF SavedPaths, HookPaths, Owed, saverVars, Output
  <2>3. texDone = {}
    BY <2>1 DEF JobInv
  <2> QED BY <2>1, <2>2, <2>3, <1>d DEF FileInv, saverVars
<1>10. ASSUME NEW m \in Meshes, SaveMesh(m) PROVE FileInv'
  <2> DEFINE p == MeshPath(m, Head(toSave[m]))
  <2>1. Head(toSave[m]) \in {0, 1} /\ p \in MeshOutputs
    BY <1>10, OutputLists DEF SaveMesh, MeshOutputs
  <2>2. /\ phase = "meshes" /\ phase' = phase /\ hand' = hand
        /\ pending' = Append(pending, <<p, run>>)
        /\ UNCHANGED <<run, disk, zip, lost, processList, texDone>>
    BY <1>10 DEF SaveMesh
  <2>3. SavedPaths' = SavedPaths \cup {p}
    BY <1>10, <2>1 DEF SaveMesh, SavedPaths, MeshOutputs, MeshPath
  <2>4. Owed' = Owed \cup {<<p, run>>}
    <3>1. <<p, run>> \in MeshOutputs \X (1..MaxRuns)
      BY <2>1 DEF Typing
    <3>2. Range(pending') = Range(pending) \cup {<<p, run>>}
      <4>1. \A x \in MeshOutputs \X (1..MaxRuns) :
              Range(Append(pending, x)) = Range(pending) \cup {x}
        BY QueueRange
      <4> QED BY <2>2, <3>1, <4>1
    <3> QED BY <2>2, <3>2 DEF Owed
  <2>5. HookPaths' = HookPaths /\ Output' = Output
    BY <2>2 DEF HookPaths, Output
  <2>6. /\ {w[1] : w \in Owed'} = {w[1] : w \in Owed} \cup {p}
        /\ \A w \in Owed' : w[1] \in SavedPaths' /\ w[2] = run
    <3>1. <<p, run>>[1] = p /\ <<p, run>>[2] = run
      OBVIOUS
    <3> HIDE DEF p
    <3>2. {w[1] : w \in Owed'} = {w[1] : w \in Owed} \cup {p}
      BY <3>1, <2>4
    <3>3. \A w \in Owed : w[1] \in SavedPaths /\ w[2] = run
      BY <2>2, <1>d
    <3> QED BY <3>1, <3>2, <3>3, <2>3, <2>4
  <2> QED BY <2>2, <2>3, <2>5, <2>6, <1>d DEF FileInv
<1>11. ASSUME NEW m \in Meshes, SaveMeshThrows(m) PROVE FALSE
  <2>1. /\ Head(toSave[m]) \in {0, 1} /\ Head(toSave[m]) \in Range(toSave[m])
        /\ phase = "meshes" /\ MeshPath(m, Head(toSave[m])) \in DOMAIN disk
    BY <1>11, OutputLists DEF SaveMeshThrows
  <2>2. Head(toSave[m]) \in saved[m]
    BY <2>1, <1>d, InSavedPaths
  <2> QED BY <2>1, <2>2 DEF JobInv
<1>12. ASSUME NEW m \in Meshes, SaveMeshFails(m) PROVE FileInv'
  BY <1>12 DEF SaveMeshFails, FileInv
<1>13. ASSUME Kept, UNCHANGED <<run, lost, saved, processList, saverVars, texDone, modelUses>>,
              phase # "done", Working, phase' \in (Patching \cup Assembling) \ {"meshes"},
              phase' \in Patching => phase \in Patching,
              zip' = zip,
              disk' = disk \/
                (\E p \in {CubemapFile, DiffFile, PluginFile, LightFile} :
                   disk' = Write(disk, p, run)),
              phase' \notin Patching => pending = <<>> /\ hand = <<>>,
              phase' \in {"assets", "diff", "zip", "done"} =>
                PluginFile \in DOMAIN disk' \/ modelUses = {}
                  \/ (phase' = "done" /\ modelUses \subseteq lost)
       PROVE  FileInv'
  <2>1. zip = NoFiles /\ zip' = NoFiles /\ Output = disk /\ Output' = disk'
    BY <1>13, <1>e DEF Output
  <2>2. /\ DOMAIN disk \subseteq DOMAIN disk'
        /\ DOMAIN disk' \subseteq DOMAIN disk \cup {CubemapFile, DiffFile, PluginFile, LightFile}
        /\ \A files \in {disk', zip'} : \A q \in DOMAIN files : files[q] = run
    <3>1. CASE disk' = disk
      BY <3>1, <2>1, <1>13, <1>d
    <3>2. ASSUME NEW p \in {CubemapFile, DiffFile, PluginFile, LightFile},
                 disk' = Write(disk, p, run)
          PROVE  /\ DOMAIN disk' = DOMAIN disk \cup {p}
                 /\ \A files \in {disk', zip'} : \A q \in DOMAIN files : files[q] = run
      <4>1. \A q \in DOMAIN disk : disk[q] = run
        BY <1>13, <1>d
      <4> QED BY <3>2, <2>1, <4>1, OutputWritten
    <3> QED BY <3>1, <3>2, <1>13
  <2>3. \A w \in Owed' : phase' \in Patching => w[1] \in SavedPaths' /\ w[2] = run'
    BY <1>13, <1>d
  <2>4. /\ SavedPaths' \subseteq DOMAIN Output' \cup lost' \cup {w[1] : w \in Owed'}
        /\ \A t \in processList' \cap texDone' : HookOutput(t) \in DOMAIN Output' \cup lost'
        /\ DOMAIN Output' \subseteq SavedPaths' \cup HookPaths'
              \cup {CubemapFile, DiffFile, PluginFile, LightFile}
        /\ \A files \in {disk', zip'} : \A p \in DOMAIN files : files[p] = run'
    BY <2>1, <2>2, <1>13, <1>d
  <2>5. phase' \in {"assets", "diff", "zip", "done"} =>
          PluginFile \in DOMAIN Output' \/ modelUses' = {}
            \/ (phase' = "done" /\ modelUses' \subseteq lost')
    BY <2>1, <1>13
  <2> QED BY <2>3, <2>4, <2>5, <1>13 DEF FileInv, saverVars
<1>f. UNCHANGED <<saved, processList, saverVars>> => Kept
  BY DEF SavedPaths, HookPaths, Owed, saverVars
<1>14. CASE FinishMeshes
  BY <1>13, <1>f, <1>14 DEF FinishMeshes, jobVars
<1>15. CASE FinishTextures
  BY <1>13, <1>f, <1>15 DEF FinishTextures, jobVars
<1>16. CASE WaitForSaver
  BY <1>13, <1>f, <1>16 DEF WaitForSaver, jobVars
<1>17. CASE CheckOutput
  <2>1. pending = <<>> /\ hand = <<>> /\ Owed = {}
    BY <1>17, <1>c DEF CheckOutput
  <2>2. DOMAIN disk = {} => modelUses \subseteq lost
    <3>1. modelUses \subseteq SavedPaths
      BY <1>17 DEF CheckOutput, JobInv
    <3>2. SavedPaths \subseteq DOMAIN disk \cup lost
      BY <1>17, <2>1, <1>d, <1>e DEF CheckOutput
    <3> QED BY <3>1, <3>2
  <2> QED BY <1>13, <1>f, <1>17, <2>1, <2>2 DEF CheckOutput, jobVars
<1>18. CASE SavePlugin
  <2>1. pending = <<>> /\ hand = <<>>
    BY <1>18, <1>c DEF SavePlugin
  <2>2. PluginFile \in DOMAIN disk' \/ modelUses = {}
    <3>1. modelUses = {} \/ disk' = Write(disk, PluginFile, run)
      BY <1>18 DEF SavePlugin
    <3>2. ASSUME disk' = Write(disk, PluginFile, run) PROVE DOMAIN disk' = {PluginFile} \cup DOMAIN disk
      BY <3>2, WriteFile
    <3> QED BY <3>1, <3>2
  <2> QED BY <1>13, <1>f, <1>18, <2>1, <2>2 DEF SavePlugin, jobVars
<1>19. CASE deployDynamicCubemapFile
  <2>1. pending = <<>> /\ hand = <<>> /\ (PluginFile \in DOMAIN disk \/ modelUses = {})
    BY <1>19, <1>c, <1>e DEF deployDynamicCubemapFile, FileInv
  <2>2. DOMAIN disk \subseteq DOMAIN disk'
    BY <1>19, DiskGrows DEF deployDynamicCubemapFile
  <2> QED BY <1>13, <1>f, <1>19, <2>1, <2>2 DEF deployDynamicCubemapFile, jobVars
<1>20. CASE SaveDiff
  <2>1. pending = <<>> /\ hand = <<>> /\ (PluginFile \in DOMAIN disk \/ modelUses = {})
    BY <1>20, <1>c, <1>e DEF SaveDiff, FileInv
  <2>2. DOMAIN disk \subseteq DOMAIN disk'
    BY <1>20, DiskGrows DEF SaveDiff
  <2> QED BY <1>13, <1>f, <1>20, <2>1, <2>2 DEF SaveDiff, jobVars
<1>21. CASE ZipOutput
  <2>1. /\ Output' = Output /\ phase = "zip" /\ phase' = "done" /\ zip = NoFiles
        /\ UNCHANGED <<run, saved, processList, saverVars, texDone, modelUses, lost>>
    BY <1>21, ZipKeeps DEF ZipOutput, jobVars, ZipInv
  <2>2. Kept /\ Owed = {} /\ pending = <<>> /\ hand = <<>>
    BY <2>1, <1>c, <1>f
  <2>3. \A files \in {disk', zip'} : \A p \in DOMAIN files : files[p] = run
    BY <1>21, <2>1, <1>d, NoFile DEF ZipOutput
  <2> QED BY <2>1, <2>2, <2>3, <1>d DEF FileInv, saverVars
<1>22. CASE Retry
  BY <1>22, <1>c DEF Retry, FileInv, saverVars
<1>23. ASSUME NEW t \in Mapped, patchDDS(t) PROVE FileInv'
  <2>1. /\ UNCHANGED <<run, zip, saved, processList, saverVars, modelUses>>
        /\ phase = "textures" /\ phase' = phase /\ texDone' = texDone \cup {t}
        /\ zip = NoFiles
    BY <1>23, <1>e DEF patchDDS
  <2>2. Kept
    BY <2>1, <1>f
  <2>3. CASE t \notin processList /\ UNCHANGED <<disk, lost>>
    BY <2>1, <2>2, <2>3, <1>d DEF FileInv, Output
  <2>4. CASE t \in processList /\ disk' = Write(disk, HookOutput(t), run) /\ UNCHANGED lost
    <3>1. /\ DOMAIN Output = DOMAIN disk /\ DOMAIN Output' = DOMAIN disk \cup {HookOutput(t)}
          /\ \A files \in {disk', zip'} : \A q \in DOMAIN files : files[q] = run
      BY <2>1, <2>4, <1>d, OutputWritten
    <3>2. HookOutput(t) \in HookPaths
      BY <2>4 DEF HookPaths
    <3> QED BY <2>1, <2>2, <2>4, <3>1, <3>2, <1>d DEF FileInv
  <2>5. CASE t \in processList /\ lost' = lost \cup {HookOutput(t)} /\ UNCHANGED disk
    BY <2>1, <2>2, <2>5, <1>d DEF FileInv, Output
  <2> QED BY <1>23, <2>3, <2>4, <2>5 DEF patchDDS
<1>24. CASE UNCHANGED vars
  <2>1. Kept
    BY <1>24, <1>f DEF vars, jobVars
  <2> QED BY <2>1, <1>24, <1>1 DEF vars, jobVars
<1> QED BY <1>2, <1>3, <1>4, <1>5, <1>6, <1>7, <1>8, <1>9, <1>10, <1>11, <1>12, <1>14,
           <1>15, <1>16, <1>17, <1>18, <1>19, <1>20, <1>21, <1>22, <1>23, <1>24
        DEF Next, Saver, Runner, Job
-----------------------------------------------------------------------------
(* The theorems.                                                           *)

LEMMA Inductive == Spec => []IInv
<1>1. IInv /\ [Next]_vars => IInv'
  BY NextTyping, NextJob, NextMark, NextFile DEF IInv, MarkInv
<1> QED BY InitInductive, <1>1, PTL DEF Spec

\* What the invariant says of a run that is done.
LEMMA AtEnd ==
  ASSUME IInv, Finished
  PROVE  /\ SavedPaths \subseteq DOMAIN Output \cup lost
         /\ HookPaths \subseteq DOMAIN Output \cup Excused
         /\ DOMAIN Output \subseteq
              SavedPaths \cup HookPaths \cup {CubemapFile, DiffFile, PluginFile, LightFile}
         /\ Marked = SavedPaths \cup HookPaths \cup Assets
         /\ modelUses \subseteq SavedPaths /\ referred = processList
         /\ PluginFile \in DOMAIN Output \/ modelUses \subseteq lost
<1>1. phase = "done" /\ ~overtaken /\ Owed = {} /\ processList \subseteq Textures
  BY DEF IInv, FileInv, Typing, Finished, Owed, Range, Patching
<1>2. texDone = Mapped /\ modelUses \subseteq SavedPaths /\ referred = processList
  BY <1>1 DEF IInv, JobInv, Patching, Assembling
<1>3. HookPaths \subseteq DOMAIN Output \cup Excused
  <2>1. \A t \in processList \cap Mapped : HookOutput(t) \in DOMAIN Output \cup lost
    BY <1>1, <1>2 DEF IInv, FileInv, Patching, Assembling
  <2> QED BY <1>1, <2>1 DEF HookPaths, Excused
<1> QED BY <1>1, <1>2, <1>3 DEF IInv, FileInv, MarkInv, Patching, Assembling

\* The state is well formed, and on every run no save finds a file in its way.
THEOREM RunCorrect == Spec => []RunSafe
<1>1. IInv => RunSafe
  <2> SUFFICES ASSUME IInv PROVE RunSafe
    OBVIOUS
  <2>1. DOMAIN restoreMap \subseteq Native
    BY DEF IInv, MarkInv, FMP!MapInv, FMP!NativeKept, native
  <2>2. \A m \in Meshes : toSave[m] \in Seq({0, 1}) /\ saved[m] \subseteq {0, 1}
    BY OutputLists DEF IInv, Typing
  <2>3. \A i \in DOMAIN pending : pending[i] \in MeshOutputs \X (1..MaxRuns)
    BY DEF IInv, Typing
  <2>4. TypeOK
    BY <2>1, <2>2, <2>3 DEF TypeOK, IInv, Typing
  <2> QED BY <2>4 DEF RunSafe, NoCollision, IInv, FileInv
<1> QED BY Inductive, <1>1, PTL

\* Unless the wait for the file saver was overtaken, marks, plugin and files
\* of a finished run agree.
THEOREM OutputCorrect == Spec => []OutputAgrees
<1>1. IInv => OutputAgrees
  <2> SUFFICES ASSUME IInv, Finished
               PROVE  /\ Marked \subseteq DOMAIN Output \cup Excused
                      /\ (DOMAIN Output) \cap Paths \subseteq Marked
                      /\ modelUses \subseteq DOMAIN Output \cup lost
                      /\ PluginFile \notin DOMAIN Output => modelUses \subseteq lost
    BY DEF OutputAgrees, MarksMatchOutput, PluginMatchesOutput, EmptyMeansEmpty
  <2>1. PluginFile \notin Paths /\ LightFile \notin Paths
    BY PathsApart
  <2>2. lost \subseteq Excused
    BY DEF Excused
  <2> QED BY <2>1, <2>2, AtEnd DEF Assets
<1> QED BY Inductive, <1>1, PTL

\* While a run's meshes are loaded, only what this run has saved is marked,
\* so a mesh still to be patched is the mod author's file.
LEMMA TodoIsNative == IInv => LoadsNative
<1> SUFFICES ASSUME IInv, phase = "meshes", NEW m \in Meshes, jobPc[m] = "todo"
             PROVE  MeshPath(m, 0) \notin Marked
  BY DEF LoadsNative
<1>1. saved[m] = {} /\ Marked = SavedPaths \cup HookPaths \cup Assets
  BY DEF IInv, JobInv, MarkInv, Patching
<1>2. MeshPath(m, 0) \notin SavedPaths
  BY <1>1, InSavedPaths DEF IInv
<1>3. MeshPath(m, 0) \notin HookPaths /\ MeshPath(m, 0) \notin Assets
  BY PathsApart DEF HookPaths, HookOutput, Assets, IInv, Typing
<1> QED BY <1>1, <1>2, <1>3

\* On every run a mesh is patched from the mod author's file, and whatever
\* is left of an earlier run or process is gone when it is done.
THEOREM NoStaleFiles == Spec => []NothingStale
<1>1. IInv => NothingShipped
  BY DEF IInv, FileInv, NothingShipped, Finished, Patching, Assembling
<1>2. IInv => NothingStale
  BY <1>1, TodoIsNative DEF NothingStale
<1> QED BY Inductive, <1>2, PTL

\* A hook's output that a mesh of this run refers to is marked at once, and
\* made in this run if it can be.
THEOREM HooksCorrect == Spec => []HooksMarked
<1>1. IInv => HooksMarked
  <2> SUFFICES ASSUME IInv PROVE HooksMarked
    OBVIOUS
  <2>1. {HookOutput(t) : t \in processList} = HookPaths
    BY DEF HookPaths
  <2>2. phase \in {"meshes", "textures"} => referred = processList /\ HookPaths \subseteq Marked
    BY DEF IInv, JobInv, MarkInv, Patching, Assembling
  <2>3. Finished => referred = processList /\ HookPaths \subseteq DOMAIN Output \cup Excused
    BY AtEnd
  <2> QED BY <2>1, <2>2, <2>3 DEF HooksMarked
<1> QED BY Inductive, <1>1, PTL

=============================================================================
