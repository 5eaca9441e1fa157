------------------------------ MODULE PatchRun ------------------------------
(***************************************************************************)
(* mainRunnerPatch and its repetition from the completion dialog.  A run   *)
(* resets what the last one left, patches the meshes and then the textures *)
(* with many jobs at once, waits for the file saver and assembles the      *)
(* output: plugin, cubemap, diff and, if asked for, the zip archive.       *)
(*                                                                         *)
(* Four pieces of state must agree in the end: the marks in the file map   *)
(* (module FileMap, instantiated), the files in the output directory, the  *)
(* writes the file saver still owes, and the model uses PGMutagen will put *)
(* into the plugin.  The file saver is a TaskQueue; of that module only    *)
(* what it proves is used here: tasks run one at a time in the order they  *)
(* were queued, and waitForCompletion leaves at most the task in hand.     *)
(***************************************************************************)
EXTENDS Naturals, Sequences

CONSTANTS
  Meshes,    \* the NIFs of the load order that are patched
  Textures,  \* the textures the meshes refer to where a hook may apply
  Mapped,    \* those of them the load order has
  Hooked,    \* the textures each mesh's patching may register for a hook
  Lit,       \* the meshes a LightPlacer JSON names
  MaxRuns    \* bound: how often the completion dialog asks for a run

ASSUME PatchRunAssumption ==
  /\ Hooked \in [Meshes -> SUBSET Textures]
  /\ Mapped \subseteq Textures /\ Lit \subseteq Meshes
  /\ MaxRuns \in Nat \ {0}

\* The files PGPatcher adds of its own.
FileNames == {"dynamic1pxcubemap_black.dds", "ParallaxGen_Diff.json", "PGPatcher.esp",
              "lightplacer"}

\* NIFs, hooked textures and PGPatcher's own files have different paths.
ASSUME NamesDiffer ==
  /\ Meshes \cap Textures = {}
  /\ FileNames \cap (Meshes \cup Textures) = {}

\* getMeshPath: index 0 replaces the mesh, index 1 is its first duplicate.
MeshPath(m, i) == <<m, i>>
Source(t)      == <<t, 0>>
HookOutput(t)  == <<t, 1>>
CubemapFile    == <<"dynamic1pxcubemap_black.dds", 0>>
DiffFile       == <<"ParallaxGen_Diff.json", 0>>
PluginFile     == <<"PGPatcher.esp", 0>>
LightFile      == <<"lightplacer", 0>>

MeshOutputs == {MeshPath(m, i) : m \in Meshes, i \in {0, 1}}
Paths  == MeshOutputs \cup {Source(t) : t \in Textures}
            \cup {HookOutput(t) : t \in Textures} \cup {CubemapFile, DiffFile}
Native == {MeshPath(m, 0) : m \in Meshes} \cup {Source(t) : t \in Mapped}

VARIABLES
  phase,        \* where mainRunnerPatch is
  params,       \* zip: params.Output.zip; cubemap: it is to be deployed
  run,          \* which run this is; every file written carries its number
  fileMap, restoreMap,
  disk,         \* the output directory: a number for each file in it
  zip,          \* the files in the zip archive, likewise
  pending,      \* the writes queued with the file saver
  hand,         \* the write its worker has taken, or none: <<>>
  jobPc,        \* where each mesh's patchNIF is
  toSave,       \* the indices each mesh's saveMeshes has still to save
  saved,        \* the indices it has saved
  processList,  \* s_texToProcess of the texture hooks
  texDone,      \* the textures patchDDS is done with
  modelUses,    \* the mesh paths handed to setModelUses since the reset
  referred,     \* history: hook textures the run's meshes refer to
  overtaken,    \* history: a wait for the saver returned with a write in hand
  lost          \* history: files that could not be written in this run

runVars   == <<params, run>>
mapVars   == <<fileMap, restoreMap>>
saverVars == <<pending, hand>>
jobVars   == <<jobPc, toSave, saved, processList, texDone, modelUses, referred>>
vars == <<phase, runVars, mapVars, disk, zip, saverVars, jobVars, overtaken, lost>>

loose == [bsaFile |-> "loose", generated |-> FALSE]
native == [p \in Native |-> loose]

FM == INSTANCE FileMap WITH
        BSAs <- {}, Dir <- <<>>, Plugins <- <<>>, Broken <- {}, Held <- <<>>,
        Loose <- Native, Fields <- <<>>, INIs <- <<>>, Lists <- {}, NoBSA <- "loose",
        iniValue <- <<>>, names <- <<>>, mapPc <- "populated", toAdd <- <<>>

Phases == {"reset", "deleteOutput", "startMeshes", "meshes", "textures", "waitSaver",
           "checkOutput", "plugin", "assets", "diff", "zip", "done", "threw", "critical"}

Write(files, p, n) == [q \in {p} \cup DOMAIN files |-> IF q = p THEN n ELSE files[q]]
NoFiles == [p \in {} |-> 0]

\* The output directory is empty or holds what an earlier process left.
Init ==
  /\ phase = "reset" /\ run = 1 /\ params \in [zip : BOOLEAN, cubemap : BOOLEAN]
  /\ fileMap = native /\ restoreMap = NoFiles
  /\ disk \in {NoFiles, [p \in MeshOutputs \cup {PluginFile, LightFile} |-> 0]}
  /\ zip = NoFiles /\ pending = <<>> /\ hand = <<>>
  /\ jobPc = [m \in Meshes |-> "todo"]
  /\ toSave = [m \in Meshes |-> <<>>] /\ saved = [m \in Meshes |-> {}]
  /\ processList = {} /\ texDone = {} /\ modelUses = {} /\ referred = {}
  /\ overtaken = FALSE /\ lost = {}

GoTo(from, to) == phase = from /\ phase' = to

-----------------------------------------------------------------------------
(* The file saver's worker.                                                *)

SaverTakes ==
  /\ hand = <<>> /\ pending # <<>>
  /\ hand' = Head(pending) /\ pending' = Tail(pending)
  /\ UNCHANGED <<phase, runVars, mapVars, disk, zip, jobVars, overtaken, lost>>

SaverWrites ==
  /\ hand # <<>> /\ hand' = <<>>
  /\ disk' = Write(disk, hand[1], hand[2])
  /\ UNCHANGED <<phase, runVars, mapVars, zip, pending, jobVars, overtaken, lost>>

\* The stream does not open: the task returns as if it had written.
SaverFails ==
  /\ hand # <<>> /\ hand' = <<>>
  /\ lost' = lost \cup {hand[1]}
  /\ UNCHANGED <<phase, runVars, mapVars, disk, zip, pending, jobVars, overtaken>>

-----------------------------------------------------------------------------
(* The reset.                                                              *)

\* PGPatcher::resetRunState, PGPlugin::resetPatchingState, clearGeneratedFiles.
ResetState ==
  /\ GoTo("reset", "deleteOutput")
  /\ modelUses' = {} /\ lost' = {}
  /\ FM!RestoreMarked
  /\ UNCHANGED <<runVars, disk, zip, saverVars, jobPc, toSave, saved, processList,
                 texDone, referred, overtaken>>

\* Mutant: the zip archive of the last run stays.
DeleteOutputButZip ==
  /\ GoTo("deleteOutput", "startMeshes")
  /\ disk' = NoFiles
  /\ UNCHANGED <<runVars, mapVars, zip, saverVars, jobVars, overtaken, lost>>

\* Mutant: duplicates are not among the folders to delete.
DeleteOutputButDuplicates ==
  /\ GoTo("deleteOutput", "startMeshes")
  /\ disk' = [p \in DOMAIN disk \cap {MeshPath(m, 1) : m \in Meshes} |-> disk[p]]
  /\ zip' = NoFiles
  /\ UNCHANGED <<runVars, mapVars, saverVars, jobVars, overtaken, lost>>

deleteOutputDir ==
  /\ GoTo("deleteOutput", "startMeshes")
  /\ disk' = NoFiles /\ zip' = NoFiles
  /\ UNCHANGED <<runVars, mapVars, saverVars, jobVars, overtaken, lost>>

-----------------------------------------------------------------------------
(* patchMeshes.                                                            *)

\* Mutant: the process lists of the hooks are not reset.
StartMeshesHooked ==
  /\ GoTo("startMeshes", "meshes")
  /\ jobPc' = [m \in Meshes |-> "todo"]
  /\ toSave' = [m \in Meshes |-> <<>>] /\ saved' = [m \in Meshes |-> {}]
  /\ texDone' = {} /\ referred' = {}
  /\ UNCHANGED <<runVars, mapVars, disk, zip, saverVars, processList, modelUses, overtaken, lost>>

StartMeshes ==
  /\ GoTo("startMeshes", "meshes")
  /\ jobPc' = [m \in Meshes |-> "todo"]
  /\ toSave' = [m \in Meshes |-> <<>>] /\ saved' = [m \in Meshes |-> {}]
  /\ processList' = {} /\ texDone' = {} /\ referred' = {}
  /\ UNCHANGED <<runVars, mapVars, disk, zip, saverVars, modelUses, overtaken, lost>>

\* patchNIF skips the mesh, or fails in processNIF after it was loaded.
SkipMesh(m) ==
  /\ phase = "meshes" /\ jobPc[m] \in {"todo", "loaded"}
  /\ jobPc' = [jobPc EXCEPT ![m] = "done"]
  /\ UNCHANGED <<phase, runVars, mapVars, disk, zip, saverVars, toSave, saved,
                 processList, texDone, modelUses, referred, overtaken, lost>>

LoadMesh(m) ==
  /\ phase = "meshes" /\ jobPc[m] = "todo"
  /\ jobPc' = [jobPc EXCEPT ![m] = "loaded"]
  /\ UNCHANGED <<phase, runVars, mapVars, disk, zip, saverVars, toSave, saved,
                 processList, texDone, modelUses, referred, overtaken, lost>>

\* Mutant: the texture is registered and its output is not marked.
RegisterUnmarked(m, t) ==
  /\ phase = "meshes" /\ jobPc[m] = "loaded" /\ t \in Hooked[m]
  /\ processList' = processList \cup {t} /\ referred' = referred \cup {t}
  /\ UNCHANGED <<phase, runVars, mapVars, disk, zip, saverVars, jobPc, toSave, saved,
                 texDone, modelUses, overtaken, lost>>

\* A shape of the mesh gets the hook's output as its texture.
addToProcessList(m, t) ==
  /\ phase = "meshes" /\ jobPc[m] = "loaded" /\ t \in Hooked[m]
  /\ IF t \in processList THEN UNCHANGED mapVars
     ELSE FM!Mark(HookOutput(t))
  /\ processList' = processList \cup {t} /\ referred' = referred \cup {t}
  /\ UNCHANGED <<phase, runVars, disk, zip, saverVars, jobPc, toSave, saved,
                 texDone, modelUses, overtaken, lost>>

\* The uses are processed: the outputs have indices 0, 1, ..., or 1, 2, ...
CommitUses(m) ==
  /\ phase = "meshes" /\ jobPc[m] = "loaded"
  /\ jobPc' = [jobPc EXCEPT ![m] = "saveMeshes"]
  /\ \E outputs \in {<<>>, <<0>>, <<1>>, <<0, 1>>} : toSave' = [toSave EXCEPT ![m] = outputs]
  /\ UNCHANGED <<phase, runVars, mapVars, disk, zip, saverVars, saved,
                 processList, texDone, modelUses, referred, overtaken, lost>>

\* saveMeshes, one output: queue the write, then mark the path.
SaveMesh(m) ==
  /\ phase = "meshes" /\ jobPc[m] = "saveMeshes" /\ toSave[m] # <<>>
  /\ LET p == MeshPath(m, Head(toSave[m]))
     IN  /\ p \notin DOMAIN disk
         /\ pending' = Append(pending, <<p, run>>)
         /\ FM!Mark(p)
  /\ toSave' = [toSave EXCEPT ![m] = Tail(@)]
  /\ saved' = [saved EXCEPT ![m] = @ \cup {Head(toSave[m])}]
  /\ UNCHANGED <<phase, runVars, disk, zip, hand, jobPc, processList, texDone,
                 modelUses, referred, overtaken, lost>>

\* "Output mesh file already exists": the exception ends the program.
SaveMeshThrows(m) ==
  /\ phase = "meshes" /\ jobPc[m] = "saveMeshes" /\ toSave[m] # <<>>
  /\ MeshPath(m, Head(toSave[m])) \in DOMAIN disk
  /\ phase' = "threw"
  /\ UNCHANGED <<runVars, mapVars, disk, zip, saverVars, jobVars, overtaken, lost>>

\* The NIF cannot be serialised: what there is of it is still queued, and
\* the critical message ends the program.
SaveMeshFails(m) ==
  /\ phase = "meshes" /\ jobPc[m] = "saveMeshes" /\ toSave[m] # <<>>
  /\ MeshPath(m, Head(toSave[m])) \notin DOMAIN disk
  /\ pending' = Append(pending, <<MeshPath(m, Head(toSave[m])), run>>)
  /\ phase' = "critical"
  /\ UNCHANGED <<runVars, mapVars, disk, zip, hand, jobVars, overtaken, lost>>

\* setModelUses runs on a queue that is drained before patchMeshes returns.
FinishMesh(m) ==
  /\ phase = "meshes" /\ jobPc[m] = "saveMeshes" /\ toSave[m] = <<>>
  /\ modelUses' = modelUses \cup {MeshPath(m, i) : i \in saved[m]}
  /\ jobPc' = [jobPc EXCEPT ![m] = "done"]
  /\ UNCHANGED <<phase, runVars, mapVars, disk, zip, saverVars, toSave, saved,
                 processList, texDone, referred, overtaken, lost>>

\* HandlerLightPlacerTracker::finalize writes the JSONs that gained a name.
FinishMeshes ==
  /\ GoTo("meshes", "textures")
  /\ \A m \in Meshes : jobPc[m] = "done"
  /\ IF \E m \in Lit : 1 \in saved[m] THEN disk' = Write(disk, LightFile, run)
     ELSE UNCHANGED disk
  /\ UNCHANGED <<runVars, mapVars, zip, saverVars, jobVars, overtaken, lost>>

-----------------------------------------------------------------------------
(* patchTextures.                                                          *)

\* Only a texture of the load order has a job; its hook writes the output at
\* once, unless the texture cannot be read, converted or written.  What the
\* hook adds to PGDirectory's map of textures is left out: the patchers look
\* in copies taken before.
patchDDS(t) ==
  /\ phase = "textures" /\ t \in Mapped \ texDone
  /\ texDone' = texDone \cup {t}
  /\ \/ t \notin processList /\ UNCHANGED <<disk, lost>>
     \/ t \in processList /\ disk' = Write(disk, HookOutput(t), run) /\ UNCHANGED lost
     \/ t \in processList /\ lost' = lost \cup {HookOutput(t)} /\ UNCHANGED disk
  /\ UNCHANGED <<phase, runVars, mapVars, zip, saverVars, jobPc, toSave, saved,
                 processList, modelUses, referred, overtaken>>

FinishTextures ==
  /\ GoTo("textures", "waitSaver") /\ texDone = Mapped
  /\ UNCHANGED <<runVars, mapVars, disk, zip, saverVars, jobVars, overtaken, lost>>

-----------------------------------------------------------------------------
(* Assembling the output.                                                  *)

\* isWorking and waitForCompletion see an empty queue and an idle worker,
\* or one between taking a task and setting m_isBusy.
WaitForSaver ==
  /\ GoTo("waitSaver", "checkOutput")
  /\ pending = <<>>
  /\ overtaken' = (overtaken \/ (hand # <<>>))
  /\ UNCHANGED <<runVars, mapVars, disk, zip, saverVars, jobVars, lost>>

\* isOutputEmpty ends the run without a plugin.
CheckOutput ==
  /\ \/ DOMAIN disk = {} /\ GoTo("checkOutput", "done")
     \/ DOMAIN disk # {} /\ GoTo("checkOutput", "plugin")
  /\ UNCHANGED <<runVars, mapVars, disk, zip, saverVars, jobVars, overtaken, lost>>

\* A plugin is written if there is anything to put into it.
SavePlugin ==
  /\ GoTo("plugin", "assets")
  /\ IF modelUses = {} THEN UNCHANGED disk ELSE disk' = Write(disk, PluginFile, run)
  /\ UNCHANGED <<runVars, mapVars, zip, saverVars, jobVars, overtaken, lost>>

deployDynamicCubemapFile ==
  /\ GoTo("assets", "diff")
  /\ IF params.cubemap THEN /\ disk' = Write(disk, CubemapFile, run)
                     /\ FM!Mark(CubemapFile)
     ELSE UNCHANGED <<disk, mapVars>>
  /\ UNCHANGED <<runVars, zip, saverVars, jobVars, overtaken, lost>>

\* The diff has an entry for every base mesh that was saved.
SaveDiff ==
  /\ GoTo("diff", "zip")
  /\ IF \E m \in Meshes : 0 \in saved[m]
     THEN disk' = Write(disk, DiffFile, run) /\ FM!Mark(DiffFile)
     ELSE UNCHANGED <<disk, mapVars>>
  /\ UNCHANGED <<runVars, zip, saverVars, jobVars, overtaken, lost>>

\* zipDirectory, then deleteOutputDir(false), which spares the archive.
ZipOutput ==
  /\ GoTo("zip", "done")
  /\ IF params.zip THEN zip' = disk /\ disk' = NoFiles ELSE UNCHANGED <<zip, disk>>
  /\ UNCHANGED <<runVars, mapVars, saverVars, jobVars, overtaken, lost>>

\* The dialog returns wxID_RETRY.
Retry ==
  /\ run < MaxRuns /\ GoTo("done", "reset")
  /\ run' = run + 1
  /\ UNCHANGED <<params, mapVars, disk, zip, saverVars, jobVars, overtaken, lost>>

Saver == SaverTakes \/ SaverWrites \/ SaverFails
Job(m) == \/ SkipMesh(m) \/ LoadMesh(m) \/ \E t \in Textures : addToProcessList(m, t)
          \/ CommitUses(m) \/ SaveMesh(m) \/ SaveMeshThrows(m) \/ SaveMeshFails(m)
          \/ FinishMesh(m)
Runner == \/ ResetState \/ deleteOutputDir \/ StartMeshes \/ FinishMeshes
          \/ FinishTextures \/ WaitForSaver \/ CheckOutput \/ SavePlugin
          \/ deployDynamicCubemapFile \/ SaveDiff \/ ZipOutput \/ Retry

Next == \/ Saver \/ Runner
        \/ \E m \in Meshes : Job(m)
        \/ \E t \in Mapped : patchDDS(t)

Spec == Init /\ [][Next]_vars

-----------------------------------------------------------------------------
(* Properties.  Those about a run that is done hold unless the wait for    *)
(* the file saver was overtaken: that race is the subject of module        *)
(* TaskQueue, and the one way here to an incomplete output.                *)

Marked   == {p \in DOMAIN fileMap : fileMap[p].generated}
\* What the user gets: the output directory, or the archive made of it.
Output   == IF zip = NoFiles THEN disk ELSE zip
Finished == phase = "done" /\ ~overtaken
\* What the run could not write, and outputs of textures that do not exist.
Excused  == lost \cup {HookOutput(t) : t \in Textures \ Mapped}

TypeOK ==
  /\ phase \in Phases /\ run \in 1..MaxRuns /\ overtaken \in BOOLEAN
  /\ DOMAIN fileMap \subseteq Paths /\ DOMAIN restoreMap \subseteq Native
  /\ jobPc \in [Meshes -> {"todo", "loaded", "saveMeshes", "done"}]
  /\ \A m \in Meshes : toSave[m] \in Seq({0, 1}) /\ saved[m] \subseteq {0, 1}
  /\ processList \subseteq Textures /\ texDone \subseteq Mapped
  /\ modelUses \subseteq MeshOutputs /\ referred \subseteq Textures
  /\ \A i \in DOMAIN pending : pending[i] \in MeshOutputs \X (1..MaxRuns)
  /\ hand = <<>> \/ hand \in MeshOutputs \X (1..MaxRuns)

(* saveMeshes never finds a file in its way, on any run: what earlier runs *)
(* and processes left is gone, and two outputs never share a path.         *)
NoCollision == ~overtaken => phase # "threw"

(* Marks and files agree when a run is done: every marked path was written *)
(* in this run, was lost, or is derived from a texture the load order does *)
(* not have (such a mark has no file behind it); and nothing else was      *)
(* written into the map's part of the output.                              *)
MarksMatchOutput ==
  Finished => /\ Marked \subseteq DOMAIN Output \cup Excused
              /\ (DOMAIN Output) \cap Paths \subseteq Marked

(* The plugin refers only to meshes this run has put beside it.            *)
PluginMatchesOutput ==
  Finished /\ PluginFile \in DOMAIN Output =>
    modelUses \subseteq DOMAIN Output \cup lost

(* The state is well formed, and no save finds a file in its way.          *)
RunSafe == TypeOK /\ NoCollision

(* A mesh is patched from the mod author's file, never from what PGPatcher *)
(* made of it in an earlier run.                                           *)
LoadsNative ==
  phase = "meshes" =>
    \A m \in Meshes : jobPc[m] = "todo" => MeshPath(m, 0) \notin Marked

(* The output holds nothing of an earlier run or process, the archive      *)
(* included.                                                               *)
NothingShipped ==
  Finished => \A files \in {disk, zip} : \A p \in DOMAIN files : files[p] = run

(* Nothing of an earlier run is patched again, or passed off as this run's. *)
NothingStale == LoadsNative /\ NothingShipped

(* A hook's output that a mesh of this run refers to is marked, so that no *)
(* later lookup takes the reference for a missing texture, and it is made  *)
(* in this run unless it failed or its source does not exist.              *)
HooksMarked ==
  /\ phase \in {"meshes", "textures"} => {HookOutput(t) : t \in referred} \subseteq Marked
  /\ Finished => {HookOutput(t) : t \in referred} \subseteq DOMAIN Output \cup Excused

(* A run that ends early as "empty" had no model use to put in a plugin,   *)
(* except for meshes whose writes were lost.                               *)
EmptyMeansEmpty ==
  Finished /\ PluginFile \notin DOMAIN Output => modelUses \subseteq lost

(* Marks, plugin and files of a finished run agree with each other.        *)
OutputAgrees == MarksMatchOutput /\ PluginMatchesOutput /\ EmptyMeansEmpty
=============================================================================
