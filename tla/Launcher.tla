------------------------------ MODULE Launcher ------------------------------
(***************************************************************************)
(* The launcher (PGPatcher/src/GUI/LauncherWindow.cpp) and the settings    *)
(* behind it (PGPatcher/src/PGConfig.cpp), from the start of the program   *)
(* to the parameters main patches with (PGPatcher/src/main.cpp).           *)
(*                                                                         *)
(* The settings exist four times: in settings.json, in PGConfig, in the    *)
(* controls of the window and in the parameters of main.  Two of them,     *)
(* bsas and loose, have no control.  An action is one event with every     *)
(* handler it runs: writing a text box from code (SetValue) runs its       *)
(* handler at once, setting a check box or a radio button runs none.       *)
(***************************************************************************)
EXTENDS Naturals

CONSTANTS
  Dirs, NoDir,    \* locations, and the empty one
  GameTypes, FirstGame, UnknownGame,  \* FirstGame is the game of a default
  ValidGames,     \* <<location, game>>: isGamePathValid
  SteamDir,       \* findGamePathFromSteam of a game
  ExeDir,         \* the location the program itself lies in
  Instances,      \* locations with a modorganizer.ini ...
  InstanceDir,    \* ... and the game location and the game it names
  InstanceGame,
  Backslashed,    \* a location with \ for /
  Lists,          \* states of the lists of rules, and of archives
  NoEntries, DefaultRules, DefaultBSAs,
  FaultyLists,    \* those that hold an entry twice, or an empty one
  Reread,         \* a list written to a file and read from it
  Options,        \* states of the settings no other depends on
  DefaultOptions,
  FirstFiles,     \* settings.json before the first session (a bound)
  MaxLaunches,    \* runs of the program (a bound)
  MaxSteps        \* things the user does in the window (a bound)

Managers == {"none", "vortex", "mo2"}

(* Of an instance nothing is known without its INI file.                    *)
ASSUME LauncherAssumption ==
  /\ NoDir \in Dirs /\ ExeDir \in Dirs \ {NoDir} /\ Instances \subseteq Dirs \ {NoDir}
  /\ FirstGame \in GameTypes /\ UnknownGame \notin GameTypes
  /\ ValidGames \subseteq (Dirs \ {NoDir}) \X GameTypes
  /\ SteamDir \in [GameTypes -> Dirs]
  /\ InstanceDir \in [Dirs -> Dirs] /\ InstanceGame \in [Dirs -> GameTypes \cup {UnknownGame}]
  /\ \A i \in Dirs \ Instances : InstanceDir[i] = NoDir /\ InstanceGame[i] = UnknownGame
  /\ Backslashed \in [Dirs -> Dirs] /\ Backslashed[NoDir] = NoDir
  /\ Reread \in [Lists -> Lists] /\ Reread[NoEntries] = NoEntries
  /\ {NoEntries, DefaultRules, DefaultBSAs} \subseteq Lists \ FaultyLists
  /\ DefaultOptions \in Options

VARIABLES
  stage,      \* "off", "launcher", "run", "invalid" (main has given up)
  autostart,  \* args.autostart of mainRunner
  file,       \* cfg/settings.json
  params,     \* PGConfig::m_params
  window,     \* the controls of the launcher
  run,        \* the variable params of mainRunner
  restored,   \* defaults were restored since the start; history only
  behind,     \* PGConfig was changed and the change is not in settings.json:
              \* defaults were restored or a write failed, and no write has
              \* succeeded since; history only
  loaded,     \* the last event was Load Config, while the location could be
              \* edited; history only
  written,    \* holds the params written last, if any; history only
  launches, steps  \* counted for the bounds

program == <<stage, autostart, run, launches>>
history == <<restored, behind, written>>
launcherVars == <<program, file, params, window, loaded, history, steps>>

(* PGConfig::PGParams.  rules stands for the allow and block lists, texture *)
(* rules and record types, bsas for vanillaBSAList, options for the rest.   *)
Params == [dir : Dirs, type : GameTypes, mm : Managers, inst : Dirs, loose : BOOLEAN,
           out : Dirs, rules : Lists, bsas : Lists, options : Options,
           parallax : BOOLEAN, cm : BOOLEAN, p2cm : BOOLEAN,
           debug : BOOLEAN, trace : BOOLEAN]

Fields == {"dir", "type", "mm", "inst", "loose", "out", "rules", "bsas", "options",
           "parallax", "cm", "p2cm", "debug", "trace"}

(* The initial values of the struct. *)
NewParams ==
  [dir |-> NoDir, type |-> FirstGame, mm |-> "none", inst |-> NoDir, loose |-> TRUE,
   out |-> NoDir, rules |-> NoEntries, bsas |-> NoEntries, options |-> DefaultOptions,
   parallax |-> TRUE, cm |-> TRUE, p2cm |-> FALSE, debug |-> FALSE, trace |-> FALSE]

getDefaultParams ==
  [NewParams EXCEPT !.dir = SteamDir[FirstGame], !.rules = DefaultRules, !.bsas = DefaultBSAs]

-----------------------------------------------------------------------------
(* PGConfig. *)

(* What a file holds: it may not parse, and it may lack fields (its val is  *)
(* of no account there).                                                    *)
SettingsFile == [parses : BOOLEAN, has : SUBSET Fields, val : Params]

ASSUME FirstFilesAssumption == FirstFiles \subseteq SettingsFile

(* replaceForwardSlashes and the order in which a list comes back. *)
Normal(p) ==
  [p EXCEPT !.dir = Backslashed[@], !.inst = Backslashed[@], !.out = Backslashed[@],
            !.rules = Reread[@], !.bsas = Reread[@]]

(* A field the file does not have keeps the value of the struct, which is   *)
(* not the default.                                                         *)
addConfigJSON(json) ==
  LET From(f) == IF f \in json.has THEN Normal(json.val)[f] ELSE NewParams[f]
  IN [dir |-> From("dir"), type |-> From("type"), mm |-> From("mm"), inst |-> From("inst"),
      loose |-> From("loose"), out |-> From("out"), rules |-> From("rules"),
      bsas |-> From("bsas"), options |-> From("options"), parallax |-> From("parallax"),
      cm |-> From("cm"), p2cm |-> From("p2cm"), debug |-> From("debug"), trace |-> From("trace")]

(* PGConfig::loadConfig, once at the start. *)
loadedParams == IF file.parses THEN addConfigJSON(file) ELSE getDefaultParams

validateParams(p) ==
  /\ <<p.dir, p.type>> \in ValidGames
  /\ p.mm = "mo2" => p.inst \in Instances
  /\ p.out # NoDir
  /\ p.p2cm => p.parallax /\ p.cm
  /\ {p.rules, p.bsas} \cap FaultyLists = {}

(* Mutant: the list of archives is not written. *)
JSONWithoutBSAs(p) == [parses |-> TRUE, has |-> Fields \ {"bsas"}, val |-> p]

getUserConfigJSON(p) == [parses |-> TRUE, has |-> Fields, val |-> p]

SaveSucceeds(p) ==
  file' = getUserConfigJSON(p) /\ written' = {p} /\ behind' = FALSE

(* The file cannot be opened and stays, or is left half written (also when  *)
(* the program ends).                                                       *)
SaveFails ==
  /\ behind' = TRUE
  /\ \/ UNCHANGED <<file, written>>
     \/ file' = [file EXCEPT !.parses = FALSE] /\ written' = {}

saveUserConfig(p) == SaveSucceeds(p) \/ SaveFails

-----------------------------------------------------------------------------
(* The window: the values of the controls, and                              *)
(*   locked, byInstall   m_gameLocationLocked, ...ByInstallLocation         *)
(*   typeOn, mo2On       the radio buttons of the game, the instance's box  *)
(*   shaderOn, traceOn   the boxes of parallax and cm, the box of trace     *)
(*   saveOn              the button Save Config                             *)

Window == [dir : Dirs, type : GameTypes, mm : Managers, inst : Dirs, out : Dirs,
           rules : Lists, options : Options, parallax : BOOLEAN, cm : BOOLEAN,
           p2cm : BOOLEAN, debug : BOOLEAN, trace : BOOLEAN,
           locked : BOOLEAN, byInstall : BOOLEAN, typeOn : BOOLEAN, mo2On : BOOLEAN,
           shaderOn : BOOLEAN, traceOn : BOOLEAN, saveOn : BOOLEAN]

NewWindow ==
  [dir |-> NoDir, type |-> FirstGame, mm |-> "none", inst |-> NoDir, out |-> NoDir,
   rules |-> NoEntries, options |-> DefaultOptions, parallax |-> FALSE, cm |-> FALSE,
   p2cm |-> FALSE, debug |-> FALSE, trace |-> FALSE,
   locked |-> FALSE, byInstall |-> FALSE, typeOn |-> TRUE, mo2On |-> TRUE,
   shaderOn |-> TRUE, traceOn |-> TRUE, saveOn |-> TRUE]

(* getParams: what has no control is left as p has it. *)
getParams(p, w) ==
  [dir |-> w.dir, type |-> w.type, mm |-> w.mm, inst |-> w.inst, loose |-> p.loose,
   out |-> w.out, rules |-> w.rules, bsas |-> p.bsas, options |-> w.options,
   parallax |-> w.parallax, cm |-> w.cm, p2cm |-> w.p2cm, debug |-> w.debug, trace |-> w.trace]

(* Mutant: the box of trace is only disabled, not cleared. *)
DisableOnly(p, w) ==
  [w EXCEPT !.parallax = @ \/ w.p2cm, !.cm = @ \/ w.p2cm, !.shaderOn = ~ w.p2cm,
            !.saveOn = getParams(p, w) # p, !.traceOn = w.debug]

(* The button compares what was there before boxes are checked or cleared.  *)
updateDisabledElements(p, w) ==
  [w EXCEPT !.parallax = @ \/ w.p2cm, !.cm = @ \/ w.p2cm, !.shaderOn = ~ w.p2cm,
            !.saveOn = getParams(p, w) # p,
            !.trace = @ /\ w.debug, !.traceOn = w.debug]

SetLocation(p, w, d) == updateDisabledElements(p, [w EXCEPT !.dir = d])

(* What Mod Organizer's instance knows cannot be edited. *)
updateMO2Items(p, w) ==
  LET dir == InstanceDir[w.inst]
      game == InstanceGame[w.inst]
      moved == IF dir # NoDir THEN SetLocation(p, w, dir) ELSE w
  IN IF w.mm # "mo2" THEN [w EXCEPT !.locked = w.byInstall, !.typeOn = TRUE]
     ELSE [moved EXCEPT !.locked = w.byInstall \/ dir # NoDir,
                        !.type = IF game # UnknownGame THEN game ELSE @,
                        !.typeOn = (game = UnknownGame)]

(* A program that lies in the game's folder patches that game. *)
setGamePathBasedOnExe(p, w) ==
  LET byInstall == <<ExeDir, w.type>> \in ValidGames
      v == [w EXCEPT !.byInstall = byInstall]
  IN IF w.mm = "mo2" THEN updateMO2Items(p, v)
     ELSE IF byInstall THEN [SetLocation(p, v, ExeDir) EXCEPT !.locked = TRUE]
     ELSE [v EXCEPT !.locked = FALSE]

(* LauncherWindow::loadConfig.  updateDisabledElements, which all callers   *)
(* run next, replaces what the text boxes' handlers do on the way.          *)
loadWindow(p, w) ==
  LET placed == [w EXCEPT !.dir = IF w.locked THEN @ ELSE p.dir, !.type = p.type,
                          !.mm = p.mm, !.mo2On = (p.mm = "mo2"), !.inst = p.inst]
  IN [updateMO2Items(p, placed) EXCEPT
        !.out = p.out, !.rules = p.rules, !.options = p.options,
        !.parallax = p.parallax, !.cm = p.cm, !.p2cm = p.p2cm,
        !.debug = p.debug, !.trace = p.trace]

onInitDialog(p) ==
  setGamePathBasedOnExe(p, updateDisabledElements(p, loadWindow(p, NewWindow)))

-----------------------------------------------------------------------------
(* The program. *)

LauncherInit ==
  /\ stage = "off" /\ autostart = FALSE /\ file \in FirstFiles
  /\ params = NewParams /\ run = NewParams /\ window = NewWindow
  /\ restored = FALSE /\ behind = FALSE /\ loaded = FALSE /\ written = {}
  /\ launches = 0 /\ steps = 0

(* main validates what it is given before anything else happens.            *)
Begun(p) == run' = p /\ stage' = IF validateParams(p) THEN "run" ELSE "invalid"

(* mainRunner up to showLauncher, which autostart skips. *)
StartProgram ==
  /\ stage = "off" /\ launches < MaxLaunches
  /\ launches' = launches + 1
  /\ params' = loadedParams
  /\ restored' = FALSE /\ behind' = FALSE
  /\ \/ autostart' = TRUE /\ Begun(params') /\ UNCHANGED window
     \/ /\ autostart' = FALSE /\ run' = params'
        /\ stage' = "launcher" /\ window' = onInitDialog(params')
  /\ UNCHANGED <<file, loaded, written, steps>>

InLauncher == stage = "launcher" /\ steps < MaxSteps /\ steps' = steps + 1

Show(w) ==
  /\ window' = w /\ loaded' = FALSE
  /\ UNCHANGED <<program, file, params, history>>

(* The location, typed or browsed for. *)
onGameLocationChange(d) ==
  /\ InLauncher /\ ~ window.locked
  /\ Show(SetLocation(params, window, d))

onGameTypeChange(game) ==
  /\ InLauncher /\ window.typeOn /\ game # window.type
  /\ LET w == [window EXCEPT !.type = game]
         d == IF params.type = game THEN params.dir ELSE SteamDir[game]
     IN Show(IF w.locked THEN updateDisabledElements(params, w)
             ELSE setGamePathBasedOnExe(params, SetLocation(params, w, d)))

onModManagerChange(mm) ==
  /\ InLauncher /\ mm # window.mm
  /\ LET w == updateMO2Items(params, [window EXCEPT !.mm = mm, !.mo2On = (mm = "mo2")])
     IN Show(setGamePathBasedOnExe(params, updateDisabledElements(params, w)))

(* The instance, typed or browsed for; the button Save is not updated.      *)
onMO2InstanceLocationChange(i) ==
  /\ InLauncher /\ window.mo2On
  /\ Show(updateMO2Items(params, [window EXCEPT !.inst = i]))

onOutputLocationChange(d) ==
  InLauncher /\ Show(updateDisabledElements(params, [window EXCEPT !.out = d]))

(* One of the dialogs for lists has been closed with OK. *)
onRulesBtn(rules) ==
  InLauncher /\ Show(updateDisabledElements(params, [window EXCEPT !.rules = rules]))

onOptionChange(o) ==
  InLauncher /\ Show(updateDisabledElements(params, [window EXCEPT !.options = o]))

(* A check box others depend on, or that depends on others. *)
onCheckbox(box) ==
  /\ InLauncher
  /\ box \in {"parallax", "cm"} => window.shaderOn
  /\ box = "trace" => window.traceOn
  /\ Show(updateDisabledElements(params, [window EXCEPT ![box] = ~ @]))

(* LauncherWindow::saveConfig, when it is valid what is shown; a write that  *)
(* fails goes unnoticed.                                                    *)
saveConfig ==
  /\ validateParams(getParams(params, window))
  /\ params' = getParams(params, window)
  /\ saveUserConfig(params')

onSaveConfigButtonPressed ==
  /\ InLauncher /\ window.saveOn
  /\ saveConfig
  /\ window' = updateDisabledElements(params', window) /\ loaded' = FALSE
  /\ UNCHANGED <<program, restored>>

(* Mutant: what depends on the boxes loaded is not updated. *)
LoadOnly ==
  /\ InLauncher
  /\ window' = loadWindow(params, window)
  /\ loaded' = ~ window.locked
  /\ UNCHANGED <<program, file, params, history>>

(* The button that loads, confirmed: from PGConfig, whatever the file has.  *)
onLoadConfigButtonPressed ==
  /\ InLauncher
  /\ window' = updateDisabledElements(params, loadWindow(params, window))
  /\ loaded' = ~ window.locked
  /\ UNCHANGED <<program, file, params, history>>

(* Confirmed.  Nothing is written. *)
onRestoreDefaultsButtonPressed ==
  /\ InLauncher
  /\ params' = getDefaultParams
  /\ window' = updateDisabledElements(params', loadWindow(params', window))
  /\ restored' = TRUE /\ behind' = TRUE /\ loaded' = FALSE
  /\ UNCHANGED <<program, file, written>>

(* Mutant: patching starts with what is shown, saved or not. *)
StartUnsaved ==
  /\ stage = "launcher"
  /\ Begun(getParams(run, window))
  /\ window' = NewWindow /\ loaded' = FALSE
  /\ UNCHANGED <<autostart, launches, file, params, history, steps>>

(* Start Patching; then showLauncher reads the window into main's params.   *)
onOkButtonPressed ==
  /\ stage = "launcher"
  /\ saveConfig
  /\ Begun(getParams(run, window))
  /\ window' = NewWindow /\ loaded' = FALSE
  /\ UNCHANGED <<autostart, launches, restored, steps>>

(* ModSortDialog::updateMods during a run: its box exists for MO2 only.  The *)
(* log is there now, and the message about a failed write ends the program. *)
updateMods(checked) ==
  /\ stage = "run" /\ (params.mm # "mo2" => ~ checked)
  /\ params' = [params EXCEPT !.loose = checked]
  /\ \/ SaveSucceeds(params') /\ UNCHANGED stage
     \/ SaveFails /\ stage' = "off"
  /\ UNCHANGED <<autostart, run, launches, window, restored, loaded, steps>>

(* The window is closed, or the run is over. *)
EndProgram ==
  /\ stage # "off" /\ stage' = "off"
  /\ window' = NewWindow /\ loaded' = FALSE
  /\ UNCHANGED <<autostart, run, launches, file, params, history, steps>>

UserEvent ==
  \/ \E d \in Dirs : onGameLocationChange(d) \/ onOutputLocationChange(d)
                       \/ onMO2InstanceLocationChange(d)
  \/ \E game \in GameTypes : onGameTypeChange(game)
  \/ \E mm \in Managers : onModManagerChange(mm)
  \/ \E rules \in Lists : onRulesBtn(rules)
  \/ \E o \in Options : onOptionChange(o)
  \/ \E box \in {"parallax", "cm", "p2cm", "debug", "trace"} : onCheckbox(box)
  \/ onSaveConfigButtonPressed \/ onLoadConfigButtonPressed
  \/ onRestoreDefaultsButtonPressed

LauncherNext ==
  \/ StartProgram \/ UserEvent \/ onOkButtonPressed
  \/ \E checked \in BOOLEAN : updateMods(checked)
  \/ EndProgram

LauncherSpec == LauncherInit /\ [][LauncherNext]_launcherVars

-----------------------------------------------------------------------------
(* Properties. *)

Consistent(p) == (p.p2cm => p.parallax /\ p.cm) /\ (p.trace => p.debug)

LauncherTypes ==
  /\ stage \in {"off", "launcher", "run", "invalid"}
  /\ autostart \in BOOLEAN /\ {restored, behind, loaded} \subseteq BOOLEAN
  /\ file \in SettingsFile /\ params \in Params /\ run \in Params /\ window \in Window
  /\ written \in SUBSET Params
  /\ launches \in Nat /\ steps \in Nat

(* The boxes that check, clear or disable each other do. *)
BoxesAgree ==
  /\ Consistent(window)
  /\ window.shaderOn = ~ window.p2cm /\ window.traceOn = window.debug

(* Locked is what the program's place or the instance gives. *)
LocksAgree ==
  LET mo2 == window.mm = "mo2"
  IN /\ window.mo2On = mo2
     /\ window.locked = (window.byInstall \/ (mo2 /\ InstanceDir[window.inst] # NoDir))
     /\ window.typeOn = ~ (mo2 /\ InstanceGame[window.inst] # UnknownGame)

(* With Mod Organizer chosen, the location and the game shown are those the *)
(* instance names, whatever was loaded, restored or chosen before and even  *)
(* if the program lies in another game's folder (setGamePathBasedOnExe:     *)
(* "Keep MO2 path selection behavior").                                     *)
InstanceRules ==
  window.mm = "mo2" =>
    /\ InstanceDir[window.inst] \in {NoDir, window.dir}
    /\ InstanceGame[window.inst] \in {UnknownGame, window.type}

(* Everything has its type, and through every handler, lock and load the    *)
(* window never lets the user edit what a setting elsewhere decides, and    *)
(* shows what that decides (LauncherWindow.cpp, updateDisabledElements and  *)
(* updateMO2Items).                                                         *)
LauncherSafe ==
  LauncherTypes /\ (stage = "launcher" => BoxesAgree /\ LocksAgree /\ InstanceRules)

(* A run patches with the parameters PGConfig holds and would save, the     *)
(* hidden ones too, though main copied them before the launcher was shown;  *)
(* and main refuses them only if the launcher was skipped.  Restoring the   *)
(* defaults is the exception: it replaces PGConfig's hidden ones alone.     *)
StartedAsSaved ==
  ~ restored =>
    /\ stage = "run" => run = [params EXCEPT !.loose = run.loose]
    /\ stage = "invalid" => autostart

(* p is what the next start would load from settings.json, up to slashes    *)
(* and the order of lists.                                                  *)
InFile(p) == loadedParams \in {p, Normal(p)}

(* Load Config was pressed while the location could be edited, and neither  *)
(* it nor the game is given by the instance that was loaded.                *)
JustLoaded == loaded /\ Consistent(params) /\ ~ window.locked /\ window.typeOn

(* Load Config shows what settings.json holds, the boxes that enable each   *)
(* other too, and leaves nothing to save, unless the defaults were restored *)
(* or a write failed, and nothing was written since: it asks PGConfig.      *)
LoadRestores ==
  JustLoaded /\ ~ behind => InFile(getParams(params, window)) /\ ~ window.saveOn

(* With the same exception the button Save Config is off only if all that   *)
(* is shown is what settings.json holds, except the instance and the game   *)
(* it names, whose handler does not update it.                              *)
SaveOffAgrees ==
  stage = "launcher" /\ ~ window.saveOn /\ Consistent(params) /\ ~ behind =>
    InFile([getParams(params, window) EXCEPT !.inst = params.inst, !.type = params.type])

(* What the user sees of the settings is what settings.json holds, after    *)
(* Load Config and while there is nothing to save.                          *)
SettingsShown == LoadRestores /\ SaveOffAgrees

(* What the question of Load Config and the comment beside it say: that it  *)
(* loads the file, whatever happened before.  PGConfig.hpp says of          *)
(* setParams, which Restore Defaults calls, that it saves to the file.      *)
LoadShowsFile == JustLoaded => InFile(getParams(params, window))

(* What was saved is what the next start loads, up to its slashes and the   *)
(* order of its lists, whatever happened to the settings and the window in  *)
(* between (getUserConfigJSON against addConfigJSON).                       *)
SettingsSurvive ==
  [][StartProgram => \A p \in written : params' = Normal(p)]_launcherVars

=============================================================================
