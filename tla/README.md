# Verification of PGPatcher

PGPatcher patches the meshes and textures of a Skyrim load order. It reads the
game's data directory and archives, finds out which textures each mesh (NIF)
uses and which plugin records use each mesh, patches every mesh once per
record, merges equal results, writes the meshes and textures to an output
directory, and writes plugins that redirect records to the meshes made for
them. The user orders the mods in a conflict manager first, and can repeat the
run from the completion dialog in the same process.

The program has no unit tests (`CONTRIBUTING.md`). This directory holds TLA+
models of its control, the TLC configurations that check them, and proofs that
TLAPS checks. Paths below are relative to `src/`.

Tools: `tlc -workers 2 -config X.cfg M` checks a run, `tlapm M.tla` checks the
proofs of a module. `PROJECT.json` lists components, runs, mutants, hazards,
findings and theorems, and maps every definition to the lines it models.

## 1. Inventory

### Components, their state and operations

| Component | State | Operations | What makes it correct |
|---|---|---|---|
| `TaskQueue` (PGLib/util) | `m_taskQueue`, `m_queuedTasks`, `m_running`, `m_isBusy`, the worker thread | `queueTask`, `workerLoop`, `isWorking`, `waitForCompletion`, `shutdown` | tasks run one at a time in order; none lost; a wait means what it says; a stop ends |
| `ExceptionHandler` | first exception, flag | `setException`, `hasException` | the first exception wins; all threads stop |
| `TaskPoolRunner`, `TaskTracker` | job list, `m_completedTasks`; job results | `addTask`, `runTasks`; `completeJob` | returns when all jobs are complete, and only then |
| `PGDirectory` (mapping) | `m_meshes`, texture maps, the mesh-use and classification queues | `mapFiles`, `mapTexturesFromNIF`, `waitForMeshMapping`, `waitForCMClassification`, `addToTextureMaps` | every readable mesh is in `m_meshes` before the patching run walks it; slot and type of a texture are the majority's |
| `BethesdaDirectory` | `m_fileMap`, `m_generatedFileRestoreMap` | `populateFileMap`, `addGeneratedFile`, `clearGeneratedFiles`, lookups | a path has the source the game would load; a run can be undone |
| `PGPatcher` (library) | output path, per-mesh jobs | `patchMeshes`, `patchNIF`, `processNIF`, `patchTextures`, `patchDDS`, `resetRunState`, `deleteOutputDir`, `isOutputEmpty` | output, marks and plugin agree; a mesh is patched from its native file |
| `PGMeshPermutationTracker` | staged mesh, `m_outputMeshes`, `m_processedFormKeys`, `m_ignoreBaseMesh`, static `s_otherWeightVariants` | `stageMesh`, `ignoreBaseMesh`, `commitMesh`, `saveMeshes`, `validateWeightedVariants` | every record sees in the game the mesh made for it |
| texture hooks | static `s_texToProcess` | `addToProcessList`, `patchDDS` | what a mesh refers to is made |
| `PGPlugin`, `PGMutagen` (C#) | `OutMod`, `ModelUses`, `ModifiedRecords`, `NewTextureSets`, FormIDs, baseline, split plugins | `Initialize`, `PopulateObjs`, `ResetPatchingState`, `GetModelUses`, `SetModelUses`, `Finalize` | each record once, with what was asked for it; texture sets reused, FormIDs kept; masters within the limit |
| `processNIF`, shader and post patchers | slots and matches per shape | `getMatches`, `sortMatches`, `applyTransformIfNeeded`; `canApply`, `shouldApply`, `applyPatch` | the winning match is that of the highest-priority enabled mod that can be applied; its shader is still there at the end; nothing depends on other jobs |
| `PatcherMesh` | `s_patchedTextureSets` per mesh | `getTextureSet`, `setTextureSet`, `clearTextureSets` | shapes that share a texture set are patched each on its own |
| `PGModManager` | `m_modMap`: priority, enabled, ignored, new, default order | `loadJSON`, `getJSON`, `populateModFileMap*`, `updateStateFromModlist`, `compareMods` | a total order that respects the saved one |
| `PGCheckedDragListCtrl`, `ModSortDialog` | rows, cutoff, dragged rows, target line; cached rows, search, Apply | mouse, context menu, search, restore, discard, apply, close | rows, cache, `PGModManager` and `modrules.json` agree when it matters |
| `DialogModConflictView` | selections, three lists, temporary files | refreshes, searches, filters, selections, opening files | the lists show what is selected and current, and highlight what the patcher applies |
| `HandlerLightPlacerTracker` | static lists of JSON files | `init`, `handleNIFCreated`, `finalize` | every duplicate of a listed mesh is listed once |
| `Logger`, `WXLoggerSink` | messages seen, messages of the run | logging, `resetToRunStart` | every warning of the last run is shown |
| `LauncherWindow`, `PGConfig` | the settings four times: `settings.json`, `PGConfig::m_params`, the window's controls, the parameters of `main`; locks and enabled states | each control's handler, Save, Load, Restore Defaults, OK; `loadConfig`, `saveUserConfig`, `validateParams` | what another setting decides is shown and cannot be edited; a run patches with what is saved; what is saved is loaded again |
| other GUI, `PGTools`, file and string helpers | widgets | | layout and pure I/O |

### Interactions

`main` loads the settings and shows the launcher, whose window it reads into its
own parameters when the user starts patching. It initialises PGMutagen with the active plugins and the last output,
populates the file map and posts one mapping job per mesh with a thread pool;
each job hands its result to the mesh-use queue (a `TaskQueue`). The conflict
manager edits `PGModManager` and saves it. `patchMeshes` waits for the mesh-use
queue, shuts it down, and starts one job per mesh; each job reads the mesh
through the file map, patches it once per record, commits the results to its
tracker and, in `saveMeshes`, gives the writes to the file saver queue, marks
the paths in the file map and queues the uses for PGMutagen. Texture hooks
register textures from within mesh jobs and are run by `patchTextures`. After it
`main` waits for the file saver, tests whether the output is empty, saves
plugins and diff and zips. A retry resets the state that is static or lives in
the file map or in PGMutagen, and starts again.

### What is hard

* the wait and the shutdown of `TaskQueue` against its worker;
* exceptions, which every queue and pool consults through one global flag, and
  which PGMutagen keeps for ever;
* the order of hand-over and completion between the pool, the tracker and the queue;
* state that survives a run: marks, restore map, static lists, files, archive,
  texture sets and their FormIDs;
* per-record results merged into shared outputs whose index shifts when the
  base mesh must stay, with two weight variants meeting in a static cache, and
  then in one copy of the record;
* textures that are in the file map before they exist, which the patchers of
  other shapes and jobs may or may not see;
* lists and settings of the GUI that are copies of copies, refreshed by some
  events and not by others, where writing a text box from code runs its handler
  and setting a check box does not;
* plugins written one after the other, which refer to each other.

The hazards in `PROJECT.json` list these at their lines, each with the
properties that would catch it or the reason that none does yet. Hazards seen
that no module reaches are in section 7.

## 2. Modules

| Module | Models | State and actions |
|---|---|---|
| `SerialQueue` | what a `TaskQueue` promises | pending tasks and the one in hand; accept, begin, end, fail |
| `TaskQueue` | `TaskQueue.cpp/hpp` | one action per access to shared state: the worker's program counter runs through `workerLoop`, each producer's through `queueTask`, the controller's through `waitForCompletion` and `shutdown`. The condition variable is a wait state with `notify_one`, spurious wakeups and the gap between the test of the predicate and blocking |
| `MeshMapping` | `mapFiles`, `TaskPoolRunner`, `TaskTracker`, `waitForMeshMapping` | EXTENDS `TaskQueue`: pool threads are its producers, the main thread its controller; a worker's task enters a mesh into `m_meshes` |
| `FileMap`, `MCFileMap` | `BethesdaDirectory` | the archive load order computed from INI values and plugin names by nested folds, as the code's nested loops do, then one action per archive, the loose files, marking and clearing |
| `PatchRun`, `MCPatchRun` | `mainRunnerPatch` and its retry | instantiates `FileMap` for the marks; a phase per step of the run, a program counter per mesh job, the file saver's list and hand, the disk and archive as functions from path to the run that wrote it |
| `MeshPermutations`, `MCMeshPermutations` | `patchNIF`, `PGMeshPermutationTracker`, `setModelUses` | one action per use (ignored, failed, repeated, committed) and per `saveMeshes`; the patchers are an environment that may do anything to a shape |
| `ShapePatching`, `MCShapePatching` | `processNIF`, `processNIFShape`, the shader and post patchers, `PatcherMesh`, `sortMatches` as the conflict view uses it | a job per mesh and, per shape, the steps below; file map marks and hooks are shared by the jobs |
| `ModOrder` | `PGModManager` | operators: load and save `modrules.json`, populate from MO2 or Vortex, `compareMods`, `updateStateFromModlist` |
| `DragList` | `PGCheckedDragListCtrl` | operators on the control: what a press, a motion, a release and the context menu make of rows, cutoff, dragged rows and target line |
| `ModSortDialog`, `MCModSortDialog` | `ModSortDialog`, the sessions in `main.cpp` | EXTENDS both: an action is one event of the user with its handlers; the list, its cache, `PGModManager` and `modrules.json` are four variables |
| `ConflictView`, `MCConflictView` | `DialogModConflictView` beside the conflict manager | the viewer as a record of selections, lists and filters; an action is one event with every handler it triggers |
| `PluginOutput`, `MCPluginOutput` | `PGMutagen.cs`, its wrapper, `PGPlugin` | texture sets and FormIDs, the copies of records, the split plugins, the output directory; the loops inside a library call are steps, and the process may end between any two |
| `Launcher`, `MCLauncher` | `LauncherWindow.cpp`, `PGConfig.cpp`, the start of `main.cpp` | the four copies of the settings; an action is one event of the user with every handler it runs, in the code's order, and saving may fail |
| `*Proofs` | | the theorems about a module and the lemmas under them; those of `TaskQueue` are in `MeshMappingProofs`, those of `Launcher` and `ModSortDialog` in `DialogProofs` |

`ShapePatching` breaks `processNIFShape` where it touches what jobs share.
`Match` is `getMatches` (PGPatcher.cpp:601-664): it reads the texture set, the
alternate one if the record has one, and asks every patcher. `NoWinner` and
`ApplyWinner` are lines 666-704: the first enabled match in the order of
`sortMatches` is transformed, which marks a texture in the file map, and
applied. `Post` is lines 706-734: the post patchers in their order, and
`setTextureSet`. `clearTextureSets` ends the mesh. `done` is a history of what
was made of each shape. What a file name or pixels say of a texture and what
the TruePBR JSONs say are constants, so that the module holds the decisions and
not the string matching. Of a shader it keeps the type and the flags a patcher
tests or that mark a shader.

`PluginOutput` follows PGMutagen.cs call by call. `LoadPlugin` is one turn of
the loop of `Initialize` that finds plugins with missing masters; `PopulateObjs`
takes over the texture sets of the last PGPatcher.esp and the baseline;
`SetModelUses` receives the results of a mesh, `StartUse` ... `EndUse` is one of
its uses, one step per alternate texture. `FinalizeMain` removes the unused
texture sets and writes PGPatcher.esp, `AddRecord` is `GetModToAdd`,
`WriteSplit` writes one PG_n.esp, `Restart` ends the process anywhere. A texture
set is known by its textures, a mesh by the number of its duplicate. `asked` is
a history of the uses set. Three facts of the callers are built in:
`main.cpp:609` resets before every run, so that the link cache never sees texture
sets of the run (`Existing` reads the baseline); the queue of `setModelUses` calls is
drained before `Finalize`; and after one exception every later call throws.
Textures are compared as the code compares them, by their text, which is
abstracted to equality.

Composition: `MeshMapping` contains `TaskQueue`; `PatchRun` contains `FileMap`
and uses of `TaskQueue` exactly what is proved of it (serial execution in
order; a wait leaves at most the task in hand); in `PatchRun` a mesh job commits
arbitrary uses and indices, which `MeshPermutations` details; what that module
lets the patchers do at will to a shape, `ShapePatching` computes; the uses and
index corrections `MeshPermutations` hands on are what `PluginOutput` may be
asked. `ModSortDialog` contains `ModOrder` and `DragList`; `ConflictView` takes from it
the list and the written state, and from `ShapePatching` the order of matches.
`Launcher` stands before all of them: a run begins with the parameters it hands
on, and of the conflict manager it keeps the one setting that it writes.

Abstractions worth knowing: in `PatchRun` every file carries the number of the
run that wrote it, so that a stale file can be told from a fresh one, and files
already on disk carry 0. In `MeshPermutations` a shape is its place in the
original mesh, a look (all properties `compareMesh` compares but textures) and a
texture set. In `ConflictView` and `ModSortDialog` selecting a row from code runs its
handler at once, and emptying a list runs none, as in wxWidgets. File names,
archive contents and textures are members of small sets. `std::atomic` accesses
are single steps; sections under a mutex are single steps where nothing else
they read is written outside the mutex.

## 3. Runs

| Run | Configuration | Properties | Shows |
|---|---|---|---|
| `task_queue` | `TaskQueue.cfg` | `QueueSafe`, `NoLostWakeup`, `WaitSafe`, `SerialExecution`, `AcceptedTaskRuns`, `WaitReturns` | serial refinement, exact accounts, no lost wakeup on a push, at most one late start, what a wait and a wait followed by a stop guarantee, and that accepted tasks run |
| `task_queue_shutdown` | `TaskQueueShutdown.cfg` | `ShutdownReturns` | violation: a stop may hang |
| `mesh_mapping` | `MeshMapping.cfg` | `MappingSafe`, `MeshesAccounted`, `MeshesSettled`, `RunTasksEnds` | `runTasks` is complete when it returns, and returns unless a job threw; which meshes the patching run may miss, and that no other thread touches `m_meshes` any more |
| `file_map` | `FileMap.cfg` | `SourcesRight`, `MarksUndone` | the source of every path is the one that overrides all others; marks can be undone |
| `patch_run` | `PatchRun.cfg` | `RunSafe`, `OutputAgrees`, `NothingStale`, `HooksMarked` | two runs with all jobs interleaved: marks, output, archive and plugin agree, and nothing leaks from the first run |
| `mesh_permutations` | `MeshPermutations.cfg` | `OutputsSafe`, `OmittedUsesSeeOriginal`, `GameSeesPatchedUse`, `UnreportedVariantsPair` | for every result of the patchers, every record sees its own mesh |
| `mesh_permutations_textures` | `MeshPermutationsTextures.cfg` | `ChangedTexturesPropagate` | violation: changed alternate textures are dropped with an unchanged mesh |
| `shape_patching` | `ShapePatching.cfg` | `PatchSafe`, `AppliedCanApply`, `PatchedShaderKept`, `NoNewMissingTextures`, `SameShapeSameResult`, `ViewShowsWinner` | for every order of the mods and every set of enabled ones, what wins can be applied, survives the post patchers and shared texture sets, refers to nothing missing, does not depend on the other jobs, and is what the conflict view shows |
| `mod_sort` | `ModSortDialog.cfg` | `DialogSafe`, `RunIsSaved`, `OrderSurvives`, `AppliedIsShown` | two sessions of the program with a conflict manager in each: no mod is lost between list, cache and search, a run starts from what is saved, the user's order outlives changes of the mod list, and what the dialog writes is what it shows |
| `conflict_view` | `ConflictView.cfg` | `ViewSafe`, `RowsOfSelection`, `ListsCurrent`, `WinnerIsHighest` | what a viewer shows belongs to its selection, is current after edits, and marks the match a run would choose |
| `plugin_output` | `PluginOutput.cfg` | `PluginSafe`, `WrittenAsAsked` | two runs, in one process or two, ended anywhere: the plugins on disk are consistent, and a saved run shows for each record what was asked, records with a weight slider and records that could not be copied left out |
| `launcher` | `Launcher.cfg` | `LauncherSafe`, `StartedAsSaved`, `SettingsShown`, `SettingsSurvive` | two starts of the program from every kind of first `settings.json`: the window is consistent whatever is clicked, a run uses what is saved, Load and an inactive Save mean what they say as long as no defaults were restored and no write failed, and the settings outlive the process |

Five more configurations have one property each that TLC finds violated within
seconds; they reproduce findings 3 to 7 of section 4 and are no runs of `PROJECT.json`:

| Module, configuration | Property | Shows |
|---|---|---|
| `MCModSortDialog`, `ModSortDialogApply.cfg` | `ApplyOffMeansSaved` | Apply is off after a drag or a check that is not saved |
| `MCModSortDialog`, `ModSortDialogSearch.cfg` | `SearchShowsOrder` | a row unchecked and checked in a search is not shown where it is |
| `MCModSortDialog`, `ModSortDialogDrag.cfg` | `DragMovesRows` | rows dragged to a line between them do not go there |
| `MCPluginOutput`, `PluginOutputMasters.cfg` | `MastersBelowLimit` | a split plugin is written with one master more than was counted |
| `MCLauncher`, `LauncherLoad.cfg` | `LoadShowsFile` | Load Config does not show the file after Restore Defaults |

Several properties are conjunctions of named parts, each with a comment of its
own in its module: `QueueSafe` (types, the accounts of tasks,
`AtMostOneLateStart`), `WaitSafe` (`WaitLeavesOnlyTheTaskInHand`,
`DrainedWhenDown`), `MappingSafe` (`RunTasksCompletes`), `MeshesAccounted`
(`WaitedMappingComplete`, `MissedMeshesAreQueued`), `SourcesRight` (types,
`WinningSource`), `MarksUndone` (with `NativeKept`), `RunSafe`,
`OutputAgrees`, `NothingStale` (`LoadsNative`, `NothingShipped`), `OutputsSafe`
(`NoTwinOutputs`), `PatchSafe`, `DialogSafe` (`NoModLost`,
`LockKeepsDefaultOrder`), `ViewSafe`, `PluginSafe` (`NoTwins`, `OldIDsKept`,
`OutputResolves`, `SplitsFit`, `MastersLoaded`), `LauncherSafe` (types,
`BoxesAgree`, `LocksAgree`, `InstanceRules`) and `SettingsShown` (`LoadRestores`,
`SaveOffAgrees`).

Bounds, and why they are enough:

* `TaskQueue`: two producers and three tasks: with two tasks in the queue one is
  in hand, one is queued and one can arrive during a wait. Producers and tasks
  are interchangeable in the code, and the proofs cover every number of both.
* `MeshMapping`: two pool threads and three readable meshes, so that one is in
  the worker's hand, one is queued and one is still being read; a fourth is on the
  block list.
* `FileMap`: three archives that share a path, a missing one, two plugins (the
  order between plugins) and two INI files of two fields (the override of INI
  files and the concatenation of fields), with all lists from
  `{<<>>, <<"a">>, <<"d", "c">>}` and every relation of archive names to plugins.
  `MCINIs` and `MCFields` name two of each though the game has more; override and
  concatenation are folds that treat every element alike.
* `PatchRun` (about 1,050,000 states): two mesh jobs, a texture both may hook, one
  that the load order does not have, `MaxRuns = 2`: a third run starts from a state
  of the same kind as the second.
* `MeshPermutations` (about 877,000 states): a mesh of two shapes and its other
  variant of one; lists with an unweighted, an ignored and a repeated record; two
  looks and two texture sets, which is one that was found and one that was made.
  The lists respect the order in which `getModelUses` delivers them.
* `ShapePatching` (about 127,000 states): a mesh of two or three shapes beside
  one of a single shape: two shapes can share a texture set and get different
  results, a third tells the first result from the second, and the other mesh's
  job can mark a texture between any two steps. Two mods in both orders with every
  subset enabled, and textures of no mod. Three sets of options: all, without
  TruePBR and dynamic cubemaps, and the transform forced. The meshes are chosen so
  that every branch of the patchers is taken: missing, stretched and generated
  textures, one that is no DDS file, JSONs that set, move and delete, havok, skin, grass, single-pass
  materials.
* `ModSortDialog` (about 103,000 states): four mods, one of which takes a file from
  another in the second mod list and one of which is gone then; three events per
  dialog (`MaxEvents`, a press and a release being two) and two sessions
  (`MaxSessions`), which is a drag followed by anything, or a search, an edit and an
  end, and then the next start of the program. Either session may fail to start, and
  a save of the dialog may fail. The three configurations for findings have the same bounds.
* `ConflictView` (about 174,000 states): two meshes, two shapes, two uses with
  different matches, three mods in two lists, one of them with a mod off; one
  temporary file. The number of events is not bounded.
* `PluginOutput` (about 620,000 states): two records of two mods that do not fit
  one plugin (`MaxMasters = 3`), one with a weight slider, one that cannot be
  copied; four texture sets, FormIDs up to 4 (`MaxFormID`); requests that swap two indices, remove one,
  keep all; plugins that are missing or unreadable; `MaxRuns = 2`, the second in
  the same process or in the next, after an end anywhere. In `PluginOutputMasters.cfg`
  the records are of two mods that share a plugin (`MaxMasters = 4`).

* `Launcher` (about 2,140,000 states): two games and the program in the folder of the
  second, so that the lock by the install location comes and goes with the game; an
  instance that names game and location and one that names its game only; lists
  with a double entry and one that gets it by being read again; five first files:
  none, one without any field, two that were saved and one that was edited by hand
  into boxes that contradict each other. Two starts (`MaxLaunches`) and four events of
  the user in all (`MaxSteps`): change, change, load or restore, start. The proofs
  do not use either bound.

`CHECK_DEADLOCK FALSE` is set where the program ends: the queue after its join,
the mapping when the patching run starts, the run after the last retry or a
critical error (which exits the process), the mesh jobs when all are done, the
sessions and the dialog's events at their bounds, the viewer's manager closed,
the plugins after the last run, the program after its last start. `FileMap` has no end and checks deadlock.

### Fairness

Liveness is checked for the queue and the mapping only. Assumed: a thread that
can take a step eventually does (weak fairness of the worker, of pool threads and
of calls in progress) and a thread that competes for a mutex eventually gets it
(strong fairness of the step of `queueTask` that locks). Tasks end, as the
callers' tasks do: they insert into a map or write a file. Nobody has to submit,
wait, stop or throw, and spurious wakeups may not happen.

## 4. Findings

Seven disagreements of the code with its own comments, each with a configuration
that TLC finds violated; the first two are runs of `PROJECT.json`:

1. `TaskQueue::shutdown` (TaskQueue.hpp:110) may hang: `m_running` is cleared and
   notified without the mutex (TaskQueue.cpp:79-80).
2. `commitMesh` drops the changed alternate textures of a use whose mesh is
   otherwise unchanged if it is committed first (PGPatcher.cpp:727).
3. `hasUnsavedChanges` is to compare with "the saved state" (ModSortDialog.hpp:306).
   It compares with `PGModManager` (ModSortDialog.cpp:1194-1216), which
   `updateModStatesLive` overwrites first: after a drag or a check Apply and Discard are
   off, closing asks nothing, and `modrules.json` is not what is shown. A later run of
   this process takes the edit over and saves it; if there is none it is lost.
4. "The visible order cannot diverge from the cached order" in a search
   (ModSortDialog.cpp:1037). It does: a row that is unchecked and checked again moves to
   the end of the checked rows on the screen (PGCheckedDragListCtrl.cpp:485-504) and
   keeps its place in the cache, which numbers the mods.
5. `moveItems` (PGCheckedDragListCtrl.hpp:229) takes the direction of all rows from the
   first. Of a selection dropped at a line inside itself, rows stay behind (rows 0 and 2
   at line 2) or the last is handed to `InsertItem` at -1 and is gone (rows 0 to 2 at
   line 1). An ordinary drag of a multiple selection does this.
6. Records are put into a plugin while its masters are "still less than 254"
   (PGMutagen.cs:1204), but every split plugin is written with PGPatcher.esp as a master
   too if that has texture sets (PGMutagen.cs:714-722): with 253 counted it has 254.
   `SplitsFit` bounds those counted and says exactly which one is added.
7. Load Config asks whether to "load the config from the file" (LauncherWindow.cpp:881,
   892) and shows `PGConfig`. Restore Defaults changes that and writes nothing
   (LauncherWindow.cpp:911-916): Load then shows the defaults, and Save Config is off
   with nothing of what is shown saved. A failed write does the same. `SettingsShown`
   compares with the file, and is claimed only where neither has happened (`behind`).

Others bound what the passing properties say, as their named exceptions:

* `waitForCompletion` (TaskQueue.hpp:105) may return with a task popped and not
  begun, since `m_queuedTasks` is decremented before `m_isBusy` is set
  (TaskQueue.cpp:43-48): `WaitSafe`, and `~overtaken` in `PatchRun`, where the file
  saver is waited for without a stop (main.cpp:658-662).
* `waitForMeshMapping` (PGDirectory.hpp:117) skips the wait when `m_isBusy` is
  false, which it is between two tasks, and then discards the queued meshes
  (PGDirectory.cpp:135): `MeshesAccounted`.
* `runTasks` (TaskPoolRunner.cpp:87) polls for ever once a job has thrown:
  `RunTasksEnds`.
* `commitMesh` (PGMeshPermutationTracker.cpp:124) merges meshes that deleted
  different shapes, because `compareMesh` compares only what is left:
  `GameSeesPatchedUse`.
* In the viewer a search or a filter changed after a silent change of the list
  shows the matches of a shape that has just left it: `RowsOfSelection`; Restore
  Default, Discard Changes, the MO2 order and Apply do not refresh a viewer:
  `ListsCurrent`; temporary files stay when the conflict manager destroys its
  viewers: `ViewSafe`.
* Rows dropped after a release off the rows go where an earlier press left them, and
  a selection dropped inside itself is not moved as one (finding 5): after either, until
  the list is filled again, `NoModLost`, `LockKeepsDefaultOrder` and `AppliedIsShown`
  claim nothing (the history `stray` of `ModSortDialog`).
* In a search the order shown may not be the one used (finding 4): `AppliedIsShown`
  speaks of the order without one, and of the check boxes always.
* An exception inside PGMutagen is never cleared, so that every later call of the
  process throws: `WrittenAsAsked` speaks of runs that were saved.
* A rerun in the same process starts from the output found when the process
  began, so the FormIDs of the first run's output may change in the second:
  `OldIDsKept` speaks of the baseline.
* `SetModelUses` (PGMutagen.cs:1043) finds an alternate texture by its present index,
  also in a copy that was corrected before. A record with a weight slider is set by
  the results of both variants, so a correction that maps one corrected index onto
  another is applied twice: `WrittenAsAsked` leaves out the records with one.
* Restore Defaults replaces the lists no control shows in `PGConfig` and not in the
  copy `main` took before it showed the launcher (LauncherWindow.cpp:898), so the
  run after it uses the old ones, and `main` may even refuse them
  (main.cpp:781-783): `~ restored` in `StartedAsSaved`.
* Load Config leaves a location that was locked by an instance
  (LauncherWindow.cpp:463), also when the instance is given up by what is loaded:
  `loaded` in `LoadRestores`.
* Changing the instance of Mod Organizer does not update Save
  (LauncherWindow.cpp:820): the exception in `SaveOffAgrees`.

Seen in passing: a `settings.json` without a field gives the struct's initial value,
which is not the default. A failure to save it is ignored in the launcher; once a run has begun the
message about it is critical and ends the program, as it does for `modrules.json`
(WXLoggerSink.hpp:51-56). Two entries that differ in
their slashes only are equal when they are read again, so a saved file may be refused
at the next start. Changing the game while the location is locked does not compute
again whether the program lies in that game's folder. PatcherMeshPostRestoreDefaultShaders.hpp:52-53 says the default
shader is restored "when neither the cubemap nor the env-mask texture exists", the
code (PatcherMeshPostRestoreDefaultShaders.cpp:97-107) restores it when either is
missing, which `restoreFromComplexMaterial` follows. Apply is enabled when the
dialog first opens though nothing differs. Choosing a use in the viewer without a
selected shape shows nothing. The viewer's `computeWinningMatchIdx` is never called.

## 5. Proofs

Every safety property of the passing runs is proved for all values of the
constants, but for those listed at the end of this section. Each proof module
has an invariant `IInv` that is inductive, shown first to hold initially, then to
be kept by each action, part by part, and last to imply the properties. The
invariants were checked with TLC on the runs before they were proved.

| Module | Theorems | Property |
|---|---|---|
| `MeshMappingProofs` | `QueueCorrect`, `WakeupsKept`, `WaitCorrect`, `Serial` | of `TaskQueue`: `QueueSafe`, `NoLostWakeup`, `WaitSafe`, `SerialExecution` |
| | `QueueInContext`; `MappingCorrect`, `SettledCorrect`, `AccountedCorrect` | the queue here is that of `TaskQueue`; `MappingSafe`, `MeshesSettled`, `MeshesAccounted` |
| `FileMapProofs` | `SourcesCorrect`, `MarksCanBeUndone` | `SourcesRight`, `MarksUndone` |
| `PatchRunProofs` | `RunCorrect`, `OutputCorrect`, `NoStaleFiles`, `HooksCorrect` | `RunSafe`, `OutputAgrees`, `NothingStale`, `HooksMarked` |
| `MeshPermutationsProofs` | `OutputsCorrect`, `OmittedCorrect`, `VariantsPair`, `GameCorrect` | `OutputsSafe`, `OmittedUsesSeeOriginal`, `UnreportedVariantsPair`, `GameSeesPatchedUse` |
| `ShapePatchingProofs` | `PatchCorrect`, `ApplicableShaders`, `ShadersKept`, `WinnerShown` | `PatchSafe`, `AppliedCanApply`, `PatchedShaderKept`, `ViewShowsWinner` |
| | `SameResults`; `TexturesThere`, where `PlainEntries` | `SameShapeSameResult`; `NoNewMissingTextures` |
| `ConflictViewProofs` | `ViewCorrect`, `RowsCorrect`, `ListsCorrect`, `WinnerCorrect` | `ViewSafe`, `RowsOfSelection`, `ListsCurrent`, `WinnerIsHighest` |
| `PluginOutputProofs` | `PluginCorrect`, `AskedCorrect` | `PluginSafe`, `WrittenAsAsked` |
| `DialogProofs` | `LauncherCorrect`, `StartCorrect`, `ShownCorrect`, `SettingsKept` | of `Launcher`: `LauncherSafe`, `StartedAsSaved`, `SettingsShown`, `SettingsSurvive` |
| | `RunFromSaved`, `OrderKeptBetweenSessions` | of `ModSortDialog`: `RunIsSaved`, `OrderSurvives` |

### Assumptions

* `NoTaskAssumption`: the null task is no task. `BlockedAssumption`: only meshes
  are on the block list. `FiniteMeshes`: the data directory has finitely many.
* `FileMapAssumption`: lists and holdings are of the kinds the module says, and a
  directory lists each archive once.
* `PatchRunAssumption`, `NamesDiffer`: meshes, textures and PGPatcher's own files
  have different names, as their extensions and directories give them.
* `PermutationsAssumption`: `OtherVariant` is an involution, which is what
  `getOtherWeightVariant` does, swapping `_0.nif` and `_1.nif` and leaving other names
  (PGMeshPermutationTracker.cpp:817-833); a use names slots of its mesh.
* `ShapePatchingAssumption`: files, paths and sets are of their kinds, paths have
  an order and at most one mod. Beside that, an entry that deletes the shape is the
  last of its JSON (the code would go on with a shape that is gone); an entry writes
  or locks every slot; the transform is on only with both its shaders, from
  `PGConfig::validateParams` (PGConfig.cpp:331-336); no hook names its output by the
  empty path (PatcherTextureHookConvertToCM.cpp:45-49, PatcherTextureHookFixSSS.cpp:47-51).
* `PlainEntries`, of `TexturesThere` alone: no JSON names a texture that a hook may
  generate and the game lacks. Without it the theorem is false: `pathsExist` takes a
  texture of FixSSS for one that is there, and FixSSS marks it even when the one it
  generates it from is missing. The run's JSONs fulfil it.
* `ModOrderAssumption`: finitely many mods and files; mods have different names, which
  `compareMods` ends with. `ModlistsAssumption`: the mod manager lists mods.
* `ConflictViewAssumption`: finitely many mods; a match has one of them or none; a
  list holds a mod once, which `NoModLost` says of the conflict manager.
* `PluginAssumption`: the load order holds a plugin once, from
  BethesdaGame.cpp:306-312 and 331-337; what may be asked names the model it is for
  and indices, from `setModelUses` (PGPlugin.cpp:193-244).
* `LauncherAssumption`: locations, games and lists are of their kinds; a location
  without an instance names no game and no location; the default lists have no double
  entry, and an empty list is empty when it is read again. `FirstFilesAssumption`: a
  first file may hold anything that has the types of the settings, or not parse.

### The arguments

* **TaskQueue.** `IInv == Typing /\ ControlInv /\ CompletionInv`. `Typing` adds to
  the types which locations have a task in hand, and that accepted = begun followed
  by queued. `ControlInv` relates the worker's location to producers that still owe a
  notification, to late starts and to a failure: none of `NoLostWakeup` and
  `AtMostOneLateStart` is inductive without knowing where the worker is.
  `CompletionInv` says what has been finished at each location of the worker and how
  far a wait has come. `Serial` is the refinement of `SerialQueue`, each step of
  worker and producers a step of the abstract queue or a stutter.
* **MeshMapping.** `QueueInContext`: every step of the composed system is a step of
  the queue or stutters, so that all of the above is used here without being proved
  again. On top of it, `PoolInv` and `CountInv` count each posted mesh once and
  `MapIInv` gives `MappingSafe`; `StopInv` follows the controlling thread through
  `waitForMeshMapping` and shows the worker gone on every path, which gives
  `MeshesSettled`; `SourceInv`, `TakenInv` and `WaitedInv` say where each mesh read is, up
  to `m_meshes`, which gives `MeshesAccounted`.
* **FileMap.** What nested folds over the INI values and the plugins compute is proved
  without an induction theorem: `Induct` takes the least index at which a set of
  indices is left, which a finite interval has, and `FoldSteps` turns a fold into its
  steps. The loop invariants of the folds say that a list holds no archive twice
  (`Joined`), that it holds what was named so far and what it held before (`Listed`,
  `Found`), and that what an earlier place names comes first (`Ordered`). `AllOrdered`
  gives the load order of the archives, `SourceInv` the source of each path after the
  archives and files added so far (`Entered`), in the order of adding (`OrderOf`).
  `MapInv`: marked entries that hide a native one are exactly those with a restore
  entry, and it is its native entry.
* **PatchRun.** `JobInv` says what the jobs of the run have done, `MarkInv` that the
  marks are those of the saved meshes, the registered hooks and the deployed assets,
  `ZipInv` and `FileInv` where this run's files are as long as the saver was not
  overtaken. The file map's own invariant is used through `FMP == INSTANCE
  FileMapProofs`: what is proved there holds of the map marked here.
* **MeshPermutations.** `UsesInv`: a use that was passed is in an output, or the
  base mesh has to stay. `WantedInv`: what was made for a use is kept once, and
  compares equal to the output it is in. `SavedInv`: how what is saved, its index
  and its corrections come from the outputs. `WeightInv`: the counterpart of a
  weighted output is cached, paired, or reported. `GameSeesPatchedUse` needs them
  together, and that sorting a mesh with its corrections does not move a texture.
* **ShapePatching.** Per job: `MeshInv` (shapes and texture sets), `FoundInv` (the
  shapes to come are as found), `CacheInv` (a patched texture set is cached as it
  was found, and its results are never written again), `MatchInv` (every match is
  one its patchers can apply, as they are found or transformed), `AppliedInv` (what
  a shape with the winner's shader has, which the post patchers test). `DoneInv`
  carries them past the end of a shape. `ViewShowsWinner` rests on a lemma about
  two orders of the same matches that agree on which mod comes first.
  `SameShapeSameResult` relates two records that may be of different jobs, of any
  time. A second invariant, `FoundInv2`, makes both relate to what they were found
  with: between its steps a job holds exactly what the winner's patch makes of the
  shape as found (`WorksOnFound`), and a record is what the post patchers make of that
  (`RecordFromFound`). It is inductive because other jobs only add textures to be
  generated: for a shape and JSONs that name none of those, no `isFile` that its
  patchers ask changes its answer (`MatchesStay`, `PostStays`); the winner's own
  converted texture has been added before (`Ready`), and nothing is taken away. Two
  records of shapes found alike then have the same matches, the same first of them
  (`OneFirst`), and the same result, entry by entry (`LikeEntries`).
  `NoNewMissingTextures` follows the textures through the same steps
  (`AppliedTextures`, `PostSlots`).
* **ConflictView.** The lemmas say what each operator leaves of the viewer; the
  invariant is that the view is well formed, its rows are those of its selection,
  and each list not marked old is what it would be if it were filled now.
  `WinnerIsHighest` then follows from what the first row of a sorted list is.
* **PluginOutput.** `SetInv`: the dictionary of texture sets is the inverse of the
  plugin's, and a FormID of the baseline keeps its textures. `DiskInv`: what is in
  memory is what is in the directory. `SplitInv`: each record is placed once, with
  its masters, no plugin counts a master that none of its records needs, and a plugin
  over the limit is one record's. `OutputResolves` and
  `SplitsFit` are kept as they are, across restarts, because the old output is
  deleted before a run allocates and PGPatcher.esp is written first. `WaitingInv`,
  `AskedInv` and `CurInv` follow each request from the mesh that still has to be set to
  the copy of the record: untouched, half done, done.

* **Launcher.** The handlers are put together from four functions of the window,
  `updateDisabledElements`, `updateMO2Items`, `setGamePathBasedOnExe` and `loadWindow`.
  A lemma on each says which of the window's rules it establishes and which it
  keeps, and the handlers' steps cite only those. `LauncherInv` is the window's rules
  while the launcher is open, `StartInv` that main's parameters and `PGConfig`'s differ
  in nothing without a control, `LoadInv` and `WrittenInv` what Load Config and the last
  save left, and `FileInv` that settings.json, read again, is `PGConfig` unless `behind`;
  with it what the window shows, which the rules compare with `PGConfig`, is related to
  the file.
* **ModSortDialog.** `RunIsSaved` is inductive: of the events that lead to a run each
  saves, and no edit happens after that without leaving the phase. `OrderSurvives`
  follows the mods through the preparation of a session: a saved mod is loaded as it
  was saved and is not new (`Loaded`), files change neither (`Mapped`), new mods get
  priorities above all others (`NewOnTop`), and the last numbering keeps the order it
  is given, because what comes before has a smaller place (`Places`,
  `NumberedInOrder`). It needs that what was saved has its types, and that needs
  `RowsInv`: `modrules.json` is written from `PGModManager`, that from the rows of the
  dialog, and rows stay rows whatever the control, the search and the lock do to them.
  The lists are put together by recursive functions; `Recursion` gives their steps and
  `LastStep` what holds at the end.

### What stays with TLC

* Liveness: `AcceptedTaskRuns`, `WaitReturns`, `RunTasksEnds`.
* `DialogSafe` and `AppliedIsShown` of `ModSortDialog`: they say that list, cache and
  `PGModManager` hold the same mods in the same order, so that each handler has to be
  shown to permute its rows and to keep the order of those that it does not move. The
  types of the rows are proved (`RowsInv`), the permutations are not.
* The violated properties, by nature.

## 6. Plan

Done: all modules of section 2 and the proofs of section 5. Next, in this order:

1. `NoModLost` for any rows: what `MoveItems` and `ProcessCheckItems` do as permutations.
2. `MessageLog` (messages suppressed on a
   retry) and `TextureMapping` (slot and type votes of `addToTextureMaps`).

## 7. Not modelled

Classification on the GPU and suffix tables (`PGD3D`, `PGNIFUtil`), NIF, DDS and
plugin encoding, the text of configuration files, window layout, log texts, `PGTools`: no control
worth checking or none that a small instance would show. Hazards seen there or at
an abstraction of a module:

* `TaskPoolRunner.cpp:28`: `hardware_concurrency() - NUM_STATIC_THREADS` underflows on
  a machine with one thread. The number of threads is a constant here.
* `ContainerUtil.hpp:40`: archive names are compared with their case, so one archive
  named in two cases is loaded twice. Names have no case here.
* `PatcherTextureHookFixSSS.cpp:50`: two textures that share a base name have the same
  output file. `HookOutput` is injective here.
* `PatcherMesh.cpp:64`: the cache of texture sets is keyed by block ids, which nifly
  renumbers when a shape is deleted. Texture sets have identities here.
