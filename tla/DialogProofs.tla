---------------------------- MODULE DialogProofs ----------------------------
(***************************************************************************)
(* The launcher for every set of locations, games, instances and lists,    *)
(* and every first settings.json.  What a handler does to the window is    *)
(* put together from four functions; for each a lemma says what it         *)
(* establishes and what it keeps, and the steps cite only those.  Then the *)
(* conflict manager, for any mods, files and lists of the mod manager: a   *)
(* run starts from what is saved, and the order of the enabled mods is     *)
(* kept from one session to the next.                                      *)
(***************************************************************************)
EXTENDS ModSortDialog, Launcher, FiniteSetTheorems, SequenceTheorems, TLAPS

(* The parts of LauncherSafe and of SettingsShown, of any window w.         *)
Boxes(w) == Consistent(w) /\ w.shaderOn = ~ w.p2cm /\ w.traceOn = w.debug

Locks(w) ==
  /\ w.locked = (w.byInstall \/ (w.mm = "mo2" /\ InstanceDir[w.inst] # NoDir))
  /\ w.typeOn = ~ (w.mm = "mo2" /\ InstanceGame[w.inst] # UnknownGame)

Rules(w) ==
  w.mm = "mo2" => /\ InstanceDir[w.inst] \in {NoDir, w.dir}
                  /\ InstanceGame[w.inst] \in {UnknownGame, w.type}

MO2Box(w) == w.mo2On = (w.mm = "mo2")

Agree(p, w) ==
  ~ w.saveOn /\ Consistent(p) =>
    getParams(p, w) = [p EXCEPT !.inst = w.inst, !.type = w.type]

(* v shows the settings w shows, but for the boxes that depend on others.   *)
SameSettings(v, w) ==
  /\ v.dir = w.dir /\ v.type = w.type /\ v.mm = w.mm /\ v.inst = w.inst
  /\ v.out = w.out /\ v.rules = w.rules /\ v.options = w.options
  /\ v.p2cm = w.p2cm /\ v.debug = w.debug

SameLocks(v, w) ==
  /\ v.locked = w.locked /\ v.byInstall = w.byInstall
  /\ v.typeOn = w.typeOn /\ v.mo2On = w.mo2On

-----------------------------------------------------------------------------
(* The functions of the window. *)

LEMMA ParamsOf ==
  ASSUME NEW p \in Params, NEW w \in Window
  PROVE  getParams(p, w) \in Params
  BY DEF Params, Window, getParams

\* Two settings are the same when their fields are.
LEMMA SameParams ==
  ASSUME NEW p \in Params, NEW q \in Params,
         p.dir = q.dir, p.type = q.type, p.mm = q.mm, p.inst = q.inst, p.loose = q.loose,
         p.out = q.out, p.rules = q.rules, p.bsas = q.bsas, p.options = q.options,
         p.parallax = q.parallax, p.cm = q.cm, p.p2cm = q.p2cm,
         p.debug = q.debug, p.trace = q.trace
  PROVE  p = q
  BY DEF Params

\* updateDisabledElements brings the boxes into agreement and the button up
\* to date, and touches nothing else.
LEMMA DisabledElements ==
  ASSUME NEW p \in Params, NEW w \in Window
  PROVE  LET v == updateDisabledElements(p, w)
         IN /\ v \in Window /\ Boxes(v) /\ SameSettings(v, w) /\ SameLocks(v, w)
            /\ v.parallax = (w.parallax \/ w.p2cm) /\ v.cm = (w.cm \/ w.p2cm)
            /\ v.trace = (w.trace /\ w.debug)
            /\ v.saveOn = (getParams(p, w) # p)
<1> DEFINE v == updateDisabledElements(p, w)
           parallax == w.parallax \/ w.p2cm
           cm == w.cm \/ w.p2cm
           shader == ~ w.p2cm
           save == getParams(p, w) # p
           trace == w.trace /\ w.debug
<1>1. /\ w.debug \in BOOLEAN /\ parallax \in BOOLEAN /\ cm \in BOOLEAN
      /\ shader \in BOOLEAN /\ save \in BOOLEAN /\ trace \in BOOLEAN
  BY DEF Window
<1>2. v = [w EXCEPT !.parallax = parallax, !.cm = cm, !.shaderOn = shader,
                    !.saveOn = save, !.trace = trace, !.traceOn = w.debug]
  BY DEF updateDisabledElements
<1>3. SameSettings(v, w) /\ SameLocks(v, w)
  BY DEF updateDisabledElements, Window, SameSettings, SameLocks
<1>4. /\ v.parallax = parallax /\ v.cm = cm /\ v.shaderOn = shader
      /\ v.saveOn = save /\ v.trace = trace /\ v.traceOn = w.debug
  BY DEF updateDisabledElements, Window
<1>5. Boxes(v)
  BY <1>1, <1>3, <1>4 DEF Boxes, Consistent, SameSettings
<1>6. v \in Window
  <2> HIDE DEF parallax, cm, shader, save, trace, v
  <2>1. [w EXCEPT !.parallax = parallax, !.cm = cm, !.shaderOn = shader,
                  !.saveOn = save, !.trace = trace, !.traceOn = w.debug] \in Window
    BY <1>1, Zenon DEF Window
  <2> QED BY <1>2, <2>1
<1> QED BY <1>3, <1>4, <1>5, <1>6

\* With the button up to date: if it is off, the settings shown are saved.
LEMMA DisabledAgree ==
  ASSUME NEW p \in Params, NEW w \in Window
  PROVE  Agree(p, updateDisabledElements(p, w))
<1> DEFINE v == updateDisabledElements(p, w)
<1> HIDE DEF v
<1> SUFFICES ASSUME ~ v.saveOn, Consistent(p)
             PROVE  getParams(p, v) = [p EXCEPT !.inst = v.inst, !.type = v.type]
  BY DEF Agree, v
<1>1. /\ SameSettings(v, w) /\ v.saveOn = (getParams(p, w) # p)
      /\ v.parallax = (w.parallax \/ w.p2cm) /\ v.cm = (w.cm \/ w.p2cm)
      /\ v.trace = (w.trace /\ w.debug)
  BY DisabledElements DEF v
<1>2. getParams(p, w) = p
  BY <1>1
<1>3. getParams(p, v) = getParams(p, w)
  BY <1>1, <1>2 DEF getParams, SameSettings, Consistent, Params, Window
<1>4. p.inst = v.inst /\ p.type = v.type
  BY <1>1, <1>2 DEF getParams, SameSettings
<1> QED BY <1>2, <1>3, <1>4 DEF Params

\* Writing the location from code, with what its handler does.
LEMMA LocationSet ==
  ASSUME NEW p \in Params, NEW w \in Window, NEW d \in Dirs
  PROVE  LET v == SetLocation(p, w, d)
         IN /\ v \in Window /\ Boxes(v) /\ SameLocks(v, w) /\ Agree(p, v)
            /\ SameSettings(v, [w EXCEPT !.dir = d])
            /\ v.dir = d /\ v.type = w.type /\ v.mm = w.mm /\ v.inst = w.inst
<1> DEFINE u == [w EXCEPT !.dir = d]
<1>1. u \in Window
  BY Zenon DEF Window
<1>2. SameLocks(u, w) /\ u.dir = d /\ u.type = w.type /\ u.mm = w.mm /\ u.inst = w.inst
  BY DEF Window, SameLocks
<1> HIDE DEF u
<1> QED BY <1>1, <1>2, DisabledElements, DisabledAgree DEF SetLocation, SameLocks, SameSettings, u

\* updateMO2Items shows what the instance names and locks it, and keeps what
\* the boxes and the button were up to.
LEMMA MO2Items ==
  ASSUME NEW p \in Params, NEW w \in Window
  PROVE  LET v == updateMO2Items(p, w)
         IN /\ v \in Window /\ Locks(v) /\ Rules(v)
            /\ v.mm = w.mm /\ v.inst = w.inst /\ v.mo2On = w.mo2On
            /\ Boxes(w) => Boxes(v)
            /\ Agree(p, w) => Agree(p, v)
            /\ ~ v.locked => v.dir = w.dir
            /\ v.typeOn => v.type = w.type
<1> DEFINE v == updateMO2Items(p, w)
           dir == InstanceDir[w.inst]
           game == InstanceGame[w.inst]
           moved == IF dir # NoDir THEN SetLocation(p, w, dir) ELSE w
           type == IF game # UnknownGame THEN game ELSE moved.type
           locked == w.byInstall \/ dir # NoDir
           known == game = UnknownGame
<1>1. /\ w.inst \in Dirs /\ w.type \in GameTypes
      /\ dir \in Dirs /\ game \in GameTypes \cup {UnknownGame}
  BY LauncherAssumption DEF Window
<1>2. CASE w.mm # "mo2"
  <2>1. v = [w EXCEPT !.locked = w.byInstall, !.typeOn = TRUE]
    BY <1>2 DEF updateMO2Items
  <2>2. v \in Window
    <3>1. w.byInstall \in BOOLEAN
      BY DEF Window
    <3> HIDE DEF v
    <3>2. [w EXCEPT !.locked = w.byInstall, !.typeOn = TRUE] \in Window
      BY <3>1, Zenon DEF Window
    <3> QED BY <2>1, <3>2
  <2>3. /\ SameSettings(v, w) /\ v.mo2On = w.mo2On /\ v.byInstall = w.byInstall
        /\ v.locked = w.byInstall /\ v.typeOn = TRUE
        /\ v.parallax = w.parallax /\ v.cm = w.cm /\ v.trace = w.trace
        /\ v.shaderOn = w.shaderOn /\ v.traceOn = w.traceOn /\ v.saveOn = w.saveOn
    BY <2>1 DEF Window, SameSettings
  <2> HIDE DEF v
  <2>4. Locks(v) /\ Rules(v)
    BY <1>2, <2>3, <2>2 DEF Locks, Rules, SameSettings, Window
  <2>5. Boxes(w) => Boxes(v)
    BY <2>3 DEF Boxes, Consistent, SameSettings
  <2>6. Agree(p, w) => Agree(p, v)
    BY <2>3 DEF Agree, SameSettings, getParams
  <2> QED BY <2>2, <2>3, <2>4, <2>5, <2>6 DEF SameSettings, v
<1>3. CASE w.mm = "mo2"
  <2>1. v = [moved EXCEPT !.locked = locked, !.type = type, !.typeOn = known]
    BY <1>3 DEF updateMO2Items
  <2>2. /\ moved \in Window /\ moved.mm = w.mm /\ moved.inst = w.inst /\ moved.type = w.type
        /\ SameLocks(moved, w) /\ (dir # NoDir => moved.dir = dir)
        /\ dir = NoDir => moved = w
        /\ Boxes(w) => Boxes(moved)
        /\ Agree(p, w) => Agree(p, moved)
    BY <1>1, LocationSet DEF SameLocks
  <2>3. locked \in BOOLEAN /\ type \in GameTypes /\ known \in BOOLEAN
    BY <1>1, <2>2 DEF Window
  <2> HIDE DEF v, moved, locked, type, known
  <2>4. v \in Window
    <3>1. [moved EXCEPT !.locked = locked, !.type = type, !.typeOn = known] \in Window
      BY <2>2, <2>3, Zenon DEF Window
    <3> QED BY <2>1, <3>1
  <2>5. /\ v.dir = moved.dir /\ v.mm = moved.mm /\ v.inst = moved.inst /\ v.out = moved.out
        /\ v.rules = moved.rules /\ v.options = moved.options /\ v.p2cm = moved.p2cm
        /\ v.debug = moved.debug /\ v.mo2On = moved.mo2On /\ v.byInstall = moved.byInstall
        /\ v.locked = locked /\ v.typeOn = known /\ v.type = type
        /\ v.parallax = moved.parallax /\ v.cm = moved.cm /\ v.trace = moved.trace
        /\ v.shaderOn = moved.shaderOn /\ v.traceOn = moved.traceOn
        /\ v.saveOn = moved.saveOn
    BY <2>1, <2>2 DEF Window
  <2>6. Locks(v) /\ Rules(v)
    BY <1>3, <2>2, <2>5, <2>4 DEF Locks, Rules, SameLocks, locked, type, known
  <2>7. Boxes(w) => Boxes(v)
    BY <2>2, <2>5 DEF Boxes, Consistent
  <2>8. Agree(p, w) => Agree(p, v)
    <3> SUFFICES ASSUME Agree(p, moved), ~ v.saveOn, Consistent(p)
                 PROVE  getParams(p, v) = [p EXCEPT !.inst = v.inst, !.type = v.type]
      BY <2>2 DEF Agree
    <3>1. getParams(p, moved) = [p EXCEPT !.inst = moved.inst, !.type = moved.type]
      BY <2>5 DEF Agree
    <3>2. getParams(p, v) = [getParams(p, moved) EXCEPT !.type = v.type]
      BY <2>5 DEF getParams
    <3> QED BY <2>5, <3>1, <3>2 DEF Params
  <2>9. (~ v.locked => v.dir = w.dir) /\ (v.typeOn => v.type = w.type)
    BY <2>2, <2>5 DEF locked, type, known
  <2> QED BY <2>2, <2>4, <2>5, <2>6, <2>7, <2>8, <2>9 DEF v, SameLocks
<1> QED BY <1>2, <1>3

\* setGamePathBasedOnExe leaves the locks right if the game could be chosen.
LEMMA GamePathBasedOnExe ==
  ASSUME NEW p \in Params, NEW w \in Window, w.mm # "mo2" => w.typeOn
  PROVE  LET v == setGamePathBasedOnExe(p, w)
         IN /\ v \in Window /\ Locks(v) /\ Rules(v)
            /\ v.mm = w.mm /\ v.inst = w.inst /\ v.mo2On = w.mo2On
            /\ Boxes(w) => Boxes(v)
            /\ Agree(p, w) => Agree(p, v)
<1> DEFINE v == setGamePathBasedOnExe(p, w)
           byInstall == <<ExeDir, w.type>> \in ValidGames
           u == [w EXCEPT !.byInstall = byInstall]
<1>1. u \in Window
  <2>1. byInstall \in BOOLEAN
    OBVIOUS
  <2> HIDE DEF byInstall
  <2> QED BY <2>1, Zenon DEF Window
<1>2. /\ SameSettings(u, w) /\ u.byInstall = byInstall
      /\ u.locked = w.locked /\ u.typeOn = w.typeOn /\ u.mo2On = w.mo2On
      /\ u.parallax = w.parallax /\ u.cm = w.cm /\ u.trace = w.trace
      /\ u.shaderOn = w.shaderOn /\ u.traceOn = w.traceOn /\ u.saveOn = w.saveOn
  BY DEF Window, SameSettings
<1>3. v = IF w.mm = "mo2" THEN updateMO2Items(p, u)
          ELSE IF byInstall THEN [SetLocation(p, u, ExeDir) EXCEPT !.locked = TRUE]
          ELSE [u EXCEPT !.locked = FALSE]
  BY DEF setGamePathBasedOnExe
<1>a. byInstall \in BOOLEAN
  OBVIOUS
<1> HIDE DEF u, v, byInstall
<1>4. (Boxes(w) => Boxes(u)) /\ (Agree(p, w) => Agree(p, u))
  BY <1>2 DEF Boxes, Consistent, Agree, getParams, SameSettings
<1>5. CASE w.mm = "mo2"
  BY <1>1, <1>2, <1>3, <1>4, <1>5, MO2Items DEF v, SameSettings
<1>6. ASSUME w.mm # "mo2", NEW x \in Window, NEW lock \in BOOLEAN, lock = byInstall,
             SameLocks(x, u), x.mm = u.mm, x.inst = u.inst,
             Boxes(u) => Boxes(x), Agree(p, u) => Agree(p, x),
             v = [x EXCEPT !.locked = lock]
      PROVE  /\ v \in Window /\ Locks(v) /\ Rules(v)
             /\ v.mm = w.mm /\ v.inst = w.inst /\ v.mo2On = w.mo2On
             /\ Boxes(w) => Boxes(v)
             /\ Agree(p, w) => Agree(p, v)
  <2>1. v \in Window
    <3>1. [x EXCEPT !.locked = lock] \in Window
      BY Zenon DEF Window
    <3> QED BY <1>6, <3>1
  <2>2. /\ SameSettings(v, x) /\ v.byInstall = x.byInstall
        /\ v.locked = lock /\ v.typeOn = x.typeOn /\ v.mo2On = x.mo2On
        /\ v.parallax = x.parallax /\ v.cm = x.cm /\ v.trace = x.trace
        /\ v.shaderOn = x.shaderOn /\ v.traceOn = x.traceOn /\ v.saveOn = x.saveOn
    BY <1>6 DEF Window, SameSettings
  <2>3. Locks(v) /\ Rules(v)
    BY <1>2, <1>6, <2>1, <2>2 DEF Locks, Rules, SameSettings, SameLocks, Window
  <2>4. (Boxes(x) => Boxes(v)) /\ (Agree(p, x) => Agree(p, v))
    BY <2>2 DEF Boxes, Consistent, Agree, getParams, SameSettings
  <2> QED BY <1>2, <1>4, <1>6, <2>1, <2>2, <2>3, <2>4 DEF SameSettings, SameLocks
<1>7. CASE w.mm # "mo2" /\ byInstall
  <2> DEFINE x == SetLocation(p, u, ExeDir)
  <2>1. ExeDir \in Dirs
    BY LauncherAssumption
  <2>2. /\ x \in Window /\ SameLocks(x, u) /\ x.mm = u.mm /\ x.inst = u.inst
        /\ Boxes(x) /\ Agree(p, x)
    BY <1>1, <2>1, LocationSet
  <2>3. v = [x EXCEPT !.locked = TRUE]
    BY <1>3, <1>7
  <2> HIDE DEF x
  <2> QED BY <1>6, <1>7, <2>2, <2>3 DEF v
<1>8. CASE w.mm # "mo2" /\ ~ byInstall
  <2>1. SameLocks(u, u) /\ v = [u EXCEPT !.locked = FALSE] /\ FALSE = byInstall
    BY <1>3, <1>8, <1>a DEF SameLocks
  <2> QED BY <1>1, <1>6, <1>8, <2>1 DEF v
<1> QED BY <1>5, <1>7, <1>8

\* loadWindow puts the settings into the window, but for what is locked.
LEMMA WindowLoaded ==
  ASSUME NEW p \in Params, NEW w \in Window
  PROVE  LET v == loadWindow(p, w)
         IN /\ v \in Window /\ Locks(v) /\ Rules(v) /\ MO2Box(v)
            /\ v.mm = p.mm /\ v.inst = p.inst /\ v.out = p.out /\ v.rules = p.rules
            /\ v.options = p.options /\ v.parallax = p.parallax /\ v.cm = p.cm
            /\ v.p2cm = p.p2cm /\ v.debug = p.debug /\ v.trace = p.trace
            /\ ~ w.locked /\ ~ v.locked => v.dir = p.dir
            /\ v.typeOn => v.type = p.type
<1> DEFINE v == loadWindow(p, w)
           dir == IF w.locked THEN w.dir ELSE p.dir
           mo2 == p.mm = "mo2"
           placed == [w EXCEPT !.dir = dir, !.type = p.type, !.mm = p.mm,
                               !.mo2On = mo2, !.inst = p.inst]
           x == updateMO2Items(p, placed)
<1>1. dir \in Dirs /\ mo2 \in BOOLEAN
  BY DEF Params, Window
<1>2. /\ p.type \in GameTypes /\ p.mm \in Managers /\ p.inst \in Dirs /\ p.out \in Dirs
      /\ p.rules \in Lists /\ p.options \in Options /\ p.parallax \in BOOLEAN
      /\ p.cm \in BOOLEAN /\ p.p2cm \in BOOLEAN /\ p.debug \in BOOLEAN /\ p.trace \in BOOLEAN
  BY DEF Params
<1>3. /\ placed.dir = dir /\ placed.type = p.type /\ placed.mm = p.mm
      /\ placed.mo2On = mo2 /\ placed.inst = p.inst
  BY DEF Window
<1>4. placed \in Window
  <2> HIDE DEF dir, mo2
  <2> QED BY <1>1, <1>2, Zenon DEF Window
<1>5. v = [x EXCEPT !.out = p.out, !.rules = p.rules, !.options = p.options,
                    !.parallax = p.parallax, !.cm = p.cm, !.p2cm = p.p2cm,
                    !.debug = p.debug, !.trace = p.trace]
  BY DEF loadWindow
<1> HIDE DEF placed, v
<1>6. /\ x \in Window /\ Locks(x) /\ Rules(x)
      /\ x.mm = placed.mm /\ x.inst = placed.inst /\ x.mo2On = placed.mo2On
      /\ ~ x.locked => x.dir = placed.dir
      /\ x.typeOn => x.type = placed.type
  BY <1>4, MO2Items
<1> HIDE DEF x
<1>7. v \in Window
  <2>1. [x EXCEPT !.out = p.out, !.rules = p.rules, !.options = p.options,
                  !.parallax = p.parallax, !.cm = p.cm, !.p2cm = p.p2cm,
                  !.debug = p.debug, !.trace = p.trace] \in Window
    BY <1>2, <1>6, Zenon DEF Window
  <2> QED BY <1>5, <2>1
<1>8. /\ v.dir = x.dir /\ v.type = x.type /\ v.mm = x.mm /\ v.inst = x.inst
      /\ v.locked = x.locked /\ v.byInstall = x.byInstall
      /\ v.typeOn = x.typeOn /\ v.mo2On = x.mo2On
      /\ v.out = p.out /\ v.rules = p.rules /\ v.options = p.options
      /\ v.parallax = p.parallax /\ v.cm = p.cm /\ v.p2cm = p.p2cm
      /\ v.debug = p.debug /\ v.trace = p.trace
  BY <1>5, <1>6 DEF Window
<1>9. Locks(v) /\ Rules(v) /\ MO2Box(v)
  BY <1>3, <1>6, <1>8 DEF Locks, Rules, MO2Box
<1> QED BY <1>3, <1>6, <1>7, <1>8, <1>9 DEF v

LEMMA NewWindowType == NewWindow \in Window
  BY LauncherAssumption DEF NewWindow, Window, Managers

\* A window that is shown for the first time.
LEMMA DialogInitialized ==
  ASSUME NEW p \in Params
  PROVE  LET v == onInitDialog(p)
         IN v \in Window /\ Boxes(v) /\ Locks(v) /\ Rules(v) /\ MO2Box(v) /\ Agree(p, v)
<1> DEFINE w == loadWindow(p, NewWindow)
           u == updateDisabledElements(p, w)
<1>1. w \in Window /\ Locks(w) /\ MO2Box(w)
  BY NewWindowType, WindowLoaded
<1> HIDE DEF w
<1>2. /\ u \in Window /\ Boxes(u) /\ Agree(p, u) /\ SameLocks(u, w) /\ SameSettings(u, w)
  BY <1>1, DisabledElements, DisabledAgree
<1> HIDE DEF u
<1>3. MO2Box(u) /\ (u.mm # "mo2" => u.typeOn)
  BY <1>1, <1>2 DEF MO2Box, Locks, SameLocks, SameSettings
<1> QED BY <1>2, <1>3, GamePathBasedOnExe DEF onInitDialog, MO2Box, u, w

-----------------------------------------------------------------------------
(* The steps of the launcher.                                              *)

(* A window that shows what it should while PGConfig holds p.               *)
Right(p, w) ==
  w \in Window /\ Boxes(w) /\ Locks(w) /\ Rules(w) /\ MO2Box(w) /\ Agree(p, w)

LauncherInv ==
  /\ LauncherTypes
  /\ stage = "launcher" => Right(params, window)

LEMMA RightAfterUpdate ==
  ASSUME NEW p \in Params, NEW w \in Window, Locks(w), Rules(w), MO2Box(w)
  PROVE  Right(p, updateDisabledElements(p, w))
<1> DEFINE v == updateDisabledElements(p, w)
<1>1. v \in Window /\ Boxes(v) /\ SameSettings(v, w) /\ SameLocks(v, w) /\ Agree(p, v)
  BY DisabledElements, DisabledAgree
<1> HIDE DEF v
<1>2. Locks(v) /\ Rules(v) /\ MO2Box(v)
  BY <1>1 DEF Locks, Rules, MO2Box, SameSettings, SameLocks
<1> QED BY <1>1, <1>2 DEF Right, v

LEMMA DefaultParams == NewParams \in Params /\ getDefaultParams \in Params
<1>1. NewParams \in Params
  BY LauncherAssumption DEF NewParams, Params, Managers
<1> QED BY <1>1, LauncherAssumption DEF getDefaultParams, Params

LEMMA SavedFile ==
  ASSUME NEW p \in Params, file \in SettingsFile, written \in SUBSET Params, saveUserConfig(p)
  PROVE  file' \in SettingsFile /\ written' \in SUBSET Params /\ behind' \in BOOLEAN
<1>1. getUserConfigJSON(p) \in SettingsFile
  BY DEF getUserConfigJSON, SettingsFile
<1>2. [file EXCEPT !.parses = FALSE] \in SettingsFile
  BY DEF SettingsFile
<1>3. behind' \in BOOLEAN
  BY Zenon DEF saveUserConfig, SaveSucceeds, SaveFails
<1> QED BY <1>1, <1>2, <1>3 DEF saveUserConfig, SaveSucceeds, SaveFails

LEMMA LoadedParams == file \in SettingsFile => loadedParams \in Params
<1> SUFFICES ASSUME file \in SettingsFile PROVE loadedParams \in Params
  OBVIOUS
<1>1. NewParams \in Params
  BY DefaultParams
<1>2. getDefaultParams \in Params
  BY DefaultParams
<1>3. file.val \in Params
  BY DEF SettingsFile
<1>4. Normal(file.val) \in Params
  <2>1. /\ Backslashed[file.val.dir] \in Dirs /\ Backslashed[file.val.inst] \in Dirs
        /\ Backslashed[file.val.out] \in Dirs
        /\ Reread[file.val.rules] \in Lists /\ Reread[file.val.bsas] \in Lists
    BY <1>3, LauncherAssumption DEF Params
  <2> QED BY <1>3, <2>1, Zenon DEF Normal, Params
<1>5. addConfigJSON(file) \in Params
  BY <1>1, <1>4 DEF addConfigJSON, Params
<1> QED BY <1>2, <1>5 DEF loadedParams

\* One step of the user in the window.
\* What the user does shows another window, or is one of three buttons.
LEMMA UserEffects ==
  UserEvent => /\ stage = "launcher" /\ steps' = steps + 1 /\ UNCHANGED program
               /\ \/ onSaveConfigButtonPressed \/ onLoadConfigButtonPressed
                  \/ onRestoreDefaultsButtonPressed \/ \E w : Show(w)
<1> SUFFICES ASSUME UserEvent
             PROVE  /\ stage = "launcher" /\ steps' = steps + 1 /\ UNCHANGED program
                    /\ \/ onSaveConfigButtonPressed \/ onLoadConfigButtonPressed
                       \/ onRestoreDefaultsButtonPressed \/ \E w : Show(w)
  OBVIOUS
<1>1. ASSUME InLauncher, \E w : Show(w)
      PROVE  /\ stage = "launcher" /\ steps' = steps + 1 /\ UNCHANGED program
             /\ \E w : Show(w)
  BY <1>1 DEF InLauncher, Show
<1>2. ASSUME NEW d, onGameLocationChange(d) PROVE InLauncher /\ \E w : Show(w)
  BY <1>2 DEF onGameLocationChange
<1>3. ASSUME NEW d, onOutputLocationChange(d) PROVE InLauncher /\ \E w : Show(w)
  BY <1>3 DEF onOutputLocationChange
<1>4. ASSUME NEW d, onMO2InstanceLocationChange(d) PROVE InLauncher /\ \E w : Show(w)
  BY <1>4 DEF onMO2InstanceLocationChange
<1>5. ASSUME NEW game, onGameTypeChange(game) PROVE InLauncher /\ \E w : Show(w)
  BY <1>5 DEF onGameTypeChange
<1>6. ASSUME NEW mm, onModManagerChange(mm) PROVE InLauncher /\ \E w : Show(w)
  BY <1>6 DEF onModManagerChange
<1>7. ASSUME NEW l, onRulesBtn(l) PROVE InLauncher /\ \E w : Show(w)
  BY <1>7 DEF onRulesBtn
<1>8. ASSUME NEW o, onOptionChange(o) PROVE InLauncher /\ \E w : Show(w)
  BY <1>8 DEF onOptionChange
<1>9. ASSUME NEW b, onCheckbox(b) PROVE InLauncher /\ \E w : Show(w)
  BY <1>9 DEF onCheckbox
<1>10. CASE onSaveConfigButtonPressed
  BY <1>10 DEF onSaveConfigButtonPressed, InLauncher
<1>11. CASE onLoadConfigButtonPressed
  BY <1>11 DEF onLoadConfigButtonPressed, InLauncher
<1>12. CASE onRestoreDefaultsButtonPressed
  BY <1>12 DEF onRestoreDefaultsButtonPressed, InLauncher
<1>13. \/ InLauncher /\ \E w : Show(w)
       \/ onSaveConfigButtonPressed \/ onLoadConfigButtonPressed
       \/ onRestoreDefaultsButtonPressed
  BY <1>2, <1>3, <1>4, <1>5, <1>6, <1>7, <1>8, <1>9, Zenon DEF UserEvent
<1> QED BY <1>1, <1>10, <1>11, <1>12, <1>13

LEMMA UserStep ==
  LauncherInv /\ UserEvent => LauncherInv'
<1> SUFFICES ASSUME LauncherInv, UserEvent PROVE LauncherInv'
  OBVIOUS
<1>1. /\ stage = "launcher" /\ steps' = steps + 1
      /\ UNCHANGED <<stage, autostart, run, launches>>
  BY UserEffects DEF program
<1>2. /\ Right(params, window) /\ LauncherTypes
      /\ params \in Params /\ window \in Window /\ file \in SettingsFile
  BY <1>1 DEF LauncherInv, LauncherTypes
<1>3. ASSUME params' \in Params, file' \in SettingsFile, written' \in SUBSET Params,
             restored' \in BOOLEAN, behind' \in BOOLEAN, loaded' \in BOOLEAN,
             Right(params', window')
      PROVE  LauncherInv'
  BY <1>1, <1>2, <1>3 DEF LauncherInv, LauncherTypes, Right
<1>4. ASSUME NEW w, Show(w), Right(params, w) PROVE LauncherInv'
  BY <1>2, <1>3, <1>4 DEF Show, history, LauncherTypes
<1>5. ASSUME NEW w, Show(updateDisabledElements(params, w)), w \in Window,
             SameLocks(w, window), w.mm = window.mm, w.inst = window.inst,
             w.dir = window.dir, w.type = window.type
      PROVE  LauncherInv'
  <2>1. Locks(w) /\ Rules(w) /\ MO2Box(w)
    BY <1>2, <1>5 DEF Right, Locks, Rules, MO2Box, SameLocks
  <2> QED BY <1>2, <1>4, <1>5, <2>1, RightAfterUpdate
<1>6. ASSUME NEW d \in Dirs, onGameLocationChange(d) PROVE LauncherInv'
  <2> DEFINE w == [window EXCEPT !.dir = d]
  <2>1. w \in Window
    BY <1>2, Zenon DEF Window
  <2>2. /\ SameLocks(w, window) /\ w.mm = window.mm /\ w.inst = window.inst
        /\ w.dir = d /\ w.type = window.type
    BY <1>2 DEF SameLocks, Window
  <2>3. Show(updateDisabledElements(params, w)) /\ ~ window.locked
    BY <1>6 DEF onGameLocationChange, SetLocation
  <2> HIDE DEF w
  <2>4. Locks(w) /\ Rules(w) /\ MO2Box(w)
    BY <1>2, <2>2, <2>3 DEF Right, Locks, Rules, MO2Box, SameLocks
  <2> QED BY <1>2, <1>4, <2>1, <2>3, <2>4, RightAfterUpdate
<1>7. ASSUME NEW game \in GameTypes, onGameTypeChange(game) PROVE LauncherInv'
  <2> DEFINE w == [window EXCEPT !.type = game]
             d == IF params.type = game THEN params.dir ELSE SteamDir[game]
             u == SetLocation(params, w, d)
  <2>1. w \in Window
    BY <1>2, Zenon DEF Window
  <2>2. /\ SameLocks(w, window) /\ w.mm = window.mm /\ w.inst = window.inst
        /\ w.dir = window.dir /\ w.type = game
    BY <1>2 DEF SameLocks, Window
  <2>3. d \in Dirs
    BY <1>2, LauncherAssumption DEF Params
  <2>4. /\ window.typeOn
        /\ Show(IF w.locked THEN updateDisabledElements(params, w)
                ELSE setGamePathBasedOnExe(params, u))
    BY <1>7 DEF onGameTypeChange
  <2> HIDE DEF w, d
  <2>5. CASE w.locked
    <3>1. Locks(w) /\ Rules(w) /\ MO2Box(w)
      BY <1>2, <2>2, <2>4 DEF Right, Locks, Rules, MO2Box, SameLocks
    <3> QED BY <1>2, <1>4, <2>1, <2>4, <2>5, <3>1, RightAfterUpdate
  <2>6. CASE ~ w.locked
    <3>1. /\ u \in Window /\ Boxes(u) /\ SameLocks(u, w) /\ Agree(params, u)
          /\ u.mm = w.mm /\ u.inst = w.inst
      BY <1>2, <2>1, <2>3, LocationSet
    <3> HIDE DEF u
    <3>2. MO2Box(u) /\ u.typeOn
      BY <1>2, <2>2, <2>4, <3>1 DEF Right, MO2Box, SameLocks
    <3>3. Right(params, setGamePathBasedOnExe(params, u))
      BY <1>2, <3>1, <3>2, GamePathBasedOnExe DEF Right, MO2Box
    <3> QED BY <1>4, <2>4, <2>6, <3>3
  <2> QED BY <2>5, <2>6
<1>8. ASSUME NEW mm \in Managers, onModManagerChange(mm) PROVE LauncherInv'
  <2> DEFINE isMO2 == mm = "mo2"
             w == [window EXCEPT !.mm = mm, !.mo2On = isMO2]
             u == updateMO2Items(params, w)
             x == updateDisabledElements(params, u)
  <2>1. w \in Window
    <3>1. isMO2 \in BOOLEAN
      OBVIOUS
    <3> HIDE DEF isMO2
    <3> QED BY <1>2, <3>1, Zenon DEF Window
  <2>2. w.mm = mm /\ w.mo2On = isMO2
    BY <1>2 DEF Window
  <2>3. Show(setGamePathBasedOnExe(params, x))
    BY <1>8 DEF onModManagerChange
  <2> HIDE DEF w
  <2>4. u \in Window /\ Locks(u) /\ Rules(u) /\ MO2Box(u)
    BY <1>2, <2>1, <2>2, MO2Items DEF MO2Box
  <2> HIDE DEF u
  <2>5. Right(params, x)
    BY <1>2, <2>4, RightAfterUpdate
  <2> HIDE DEF x
  <2>6. Right(params, setGamePathBasedOnExe(params, x))
    <3>1. x.mm # "mo2" => x.typeOn
      BY <2>5 DEF Right, Locks
    <3> QED BY <1>2, <2>5, <3>1, GamePathBasedOnExe DEF Right, MO2Box
  <2> QED BY <1>4, <2>3, <2>6
<1>9. ASSUME NEW i \in Dirs, onMO2InstanceLocationChange(i) PROVE LauncherInv'
  <2> DEFINE w == [window EXCEPT !.inst = i]
  <2>1. w \in Window
    BY <1>2, Zenon DEF Window
  <2>2. /\ w.mo2On = window.mo2On /\ w.mm = window.mm /\ Boxes(w) /\ Agree(params, w)
    <3>1. /\ w.dir = window.dir /\ w.type = window.type /\ w.mm = window.mm /\ w.inst = i
          /\ w.out = window.out /\ w.rules = window.rules /\ w.options = window.options
          /\ w.parallax = window.parallax /\ w.cm = window.cm /\ w.p2cm = window.p2cm
          /\ w.debug = window.debug /\ w.trace = window.trace /\ w.mo2On = window.mo2On
          /\ w.shaderOn = window.shaderOn /\ w.traceOn = window.traceOn
          /\ w.saveOn = window.saveOn
      BY <1>2 DEF Window
    <3> HIDE DEF w
    <3>2. Boxes(w)
      BY <1>2, <3>1 DEF Right, Boxes, Consistent
    <3>3. Agree(params, w)
      <4> SUFFICES ASSUME ~ w.saveOn, Consistent(params)
                   PROVE  getParams(params, w) = [params EXCEPT !.inst = w.inst, !.type = w.type]
        BY DEF Agree
      <4>1. getParams(params, window)
              = [params EXCEPT !.inst = window.inst, !.type = window.type]
        BY <1>2, <3>1 DEF Right, Agree
      <4>2. getParams(params, w) = [getParams(params, window) EXCEPT !.inst = w.inst]
        BY <3>1 DEF getParams
      <4> QED BY <1>2, <3>1, <4>1, <4>2 DEF Params
    <3> QED BY <3>1, <3>2, <3>3
  <2>3. Show(updateMO2Items(params, w))
    BY <1>9 DEF onMO2InstanceLocationChange
  <2> HIDE DEF w
  <2>4. Right(params, updateMO2Items(params, w))
    BY <1>2, <2>1, <2>2, MO2Items DEF Right, MO2Box
  <2> QED BY <1>4, <2>3, <2>4
<1>10. ASSUME NEW d \in Dirs, onOutputLocationChange(d) PROVE LauncherInv'
  <2> DEFINE w == [window EXCEPT !.out = d]
  <2>1. w \in Window
    BY <1>2, Zenon DEF Window
  <2>2. /\ SameLocks(w, window) /\ w.mm = window.mm /\ w.inst = window.inst
        /\ w.dir = window.dir /\ w.type = window.type
    BY <1>2 DEF SameLocks, Window
  <2> QED BY <1>5, <1>10, <2>1, <2>2 DEF onOutputLocationChange
<1>11. ASSUME NEW x \in Lists, onRulesBtn(x) PROVE LauncherInv'
  <2> DEFINE w == [window EXCEPT !.rules = x]
  <2>1. w \in Window
    BY <1>2, Zenon DEF Window
  <2>2. /\ SameLocks(w, window) /\ w.mm = window.mm /\ w.inst = window.inst
        /\ w.dir = window.dir /\ w.type = window.type
    BY <1>2 DEF SameLocks, Window
  <2> QED BY <1>5, <1>11, <2>1, <2>2 DEF onRulesBtn
<1>12. ASSUME NEW o \in Options, onOptionChange(o) PROVE LauncherInv'
  <2> DEFINE w == [window EXCEPT !.options = o]
  <2>1. w \in Window
    BY <1>2, Zenon DEF Window
  <2>2. /\ SameLocks(w, window) /\ w.mm = window.mm /\ w.inst = window.inst
        /\ w.dir = window.dir /\ w.type = window.type
    BY <1>2 DEF SameLocks, Window
  <2> QED BY <1>5, <1>12, <2>1, <2>2 DEF onOptionChange
<1>13. ASSUME NEW b \in {"parallax", "cm", "p2cm", "debug", "trace"}, onCheckbox(b)
       PROVE  LauncherInv'
  <2> DEFINE w == [window EXCEPT ![b] = ~ @]
  <2>1. /\ w \in Window
        /\ SameLocks(w, window) /\ w.mm = window.mm /\ w.inst = window.inst
        /\ w.dir = window.dir /\ w.type = window.type
    <3>1. CASE b = "parallax"
      BY <1>2, <3>1 DEF SameLocks, Window
    <3>2. CASE b = "cm"
      BY <1>2, <3>2 DEF SameLocks, Window
    <3>3. CASE b = "p2cm"
      BY <1>2, <3>3 DEF SameLocks, Window
    <3>4. CASE b = "debug"
      BY <1>2, <3>4 DEF SameLocks, Window
    <3>5. CASE b = "trace"
      BY <1>2, <3>5 DEF SameLocks, Window
    <3> QED BY <3>1, <3>2, <3>3, <3>4, <3>5
  <2> QED BY <1>5, <1>13, <2>1 DEF onCheckbox
<1>14. CASE onSaveConfigButtonPressed
  <2>1. /\ params' = getParams(params, window) /\ saveUserConfig(params')
        /\ window' = updateDisabledElements(params', window) /\ loaded' = FALSE
        /\ UNCHANGED restored
    BY <1>14 DEF onSaveConfigButtonPressed, saveConfig
  <2>2. params' \in Params
    BY <1>2, <2>1, ParamsOf
  <2>3. file' \in SettingsFile /\ written' \in SUBSET Params /\ behind' \in BOOLEAN
    BY <1>2, <2>1, <2>2, SavedFile DEF LauncherTypes
  <2>4. Right(params', window')
    BY <1>2, <2>1, <2>2, RightAfterUpdate DEF Right
  <2> QED BY <1>2, <1>3, <2>1, <2>2, <2>3, <2>4 DEF LauncherTypes
<1>15. CASE onLoadConfigButtonPressed
  <2>1. /\ window' = updateDisabledElements(params, loadWindow(params, window))
        /\ loaded' = ~ window.locked
        /\ UNCHANGED <<file, params, restored, behind, written>>
    BY <1>15 DEF onLoadConfigButtonPressed, history
  <2>2. Right(params, window')
    BY <1>2, <2>1, WindowLoaded, RightAfterUpdate
  <2> QED BY <1>2, <1>3, <2>1, <2>2 DEF LauncherTypes
<1>16. CASE onRestoreDefaultsButtonPressed
  <2>1. /\ params' = getDefaultParams
        /\ window' = updateDisabledElements(params', loadWindow(params', window))
        /\ restored' = TRUE /\ behind' = TRUE /\ loaded' = FALSE
        /\ UNCHANGED <<file, written>>
    BY <1>16 DEF onRestoreDefaultsButtonPressed
  <2>2. params' \in Params
    BY <2>1, DefaultParams
  <2>3. Right(params', window')
    BY <1>2, <2>1, <2>2, WindowLoaded, RightAfterUpdate
  <2> QED BY <1>2, <1>3, <2>1, <2>2, <2>3 DEF LauncherTypes
<1> QED BY <1>6, <1>7, <1>8, <1>9, <1>10, <1>11, <1>12, <1>13, <1>14, <1>15, <1>16
        DEF UserEvent

LEMMA InitLauncher == LauncherInit => LauncherInv
<1> SUFFICES ASSUME LauncherInit PROVE LauncherInv
  OBVIOUS
<1>1. file \in SettingsFile
  BY FirstFilesAssumption DEF LauncherInit
<1>2. params \in Params /\ run \in Params /\ window \in Window /\ written \in SUBSET Params
  BY DefaultParams, NewWindowType DEF LauncherInit
<1>3. autostart \in BOOLEAN /\ restored \in BOOLEAN /\ behind \in BOOLEAN /\ loaded \in BOOLEAN
  BY Zenon DEF LauncherInit
<1>4. stage = "off" /\ launches \in Nat /\ steps \in Nat
  BY DEF LauncherInit
<1> QED BY <1>1, <1>2, <1>3, <1>4 DEF LauncherInv, LauncherTypes

LEMMA NextLauncher == LauncherInv /\ [LauncherNext]_launcherVars => LauncherInv'
<1> SUFFICES ASSUME LauncherInv, [LauncherNext]_launcherVars PROVE LauncherInv'
  OBVIOUS
<1>a. /\ LauncherTypes /\ params \in Params /\ run \in Params
      /\ window \in Window /\ file \in SettingsFile
  BY DEF LauncherInv, LauncherTypes
<1>1. CASE StartProgram
  <2>1. params' \in Params /\ params' = loadedParams
    BY <1>1, <1>a, LoadedParams DEF StartProgram
  <2>2. launches' \in Nat /\ UNCHANGED <<file, loaded, written, steps>>
    BY <1>1 DEF StartProgram, LauncherInv, LauncherTypes
  <2>5. restored' \in BOOLEAN /\ behind' \in BOOLEAN
    BY <1>1, Zenon DEF StartProgram
  <2>3. CASE autostart' = TRUE /\ Begun(params') /\ UNCHANGED window
    <3>1. run' = params' /\ stage' \in {"run", "invalid"} /\ window' = window
      BY <2>3 DEF Begun
    <3>3. autostart' \in BOOLEAN
      BY <2>3, Zenon
    <3>2. LauncherTypes'
      BY <1>a, <2>1, <2>2, <2>5, <3>1, <3>3 DEF LauncherTypes
    <3> QED BY <3>1, <3>2 DEF LauncherInv
  <2>4. CASE /\ autostart' = FALSE /\ run' = params'
             /\ stage' = "launcher" /\ window' = onInitDialog(params')
    <3>1. Right(params', window')
      BY <2>1, <2>4, DialogInitialized DEF Right
    <3>2. autostart' \in BOOLEAN
      BY <2>4, Zenon
    <3>3. LauncherTypes'
      BY <1>a, <2>1, <2>2, <2>4, <2>5, <3>1, <3>2 DEF LauncherTypes, Right
    <3> QED BY <3>1, <3>3 DEF LauncherInv
  <2> QED BY <1>1, <2>3, <2>4 DEF StartProgram
<1>2. CASE UserEvent
  BY <1>2, UserStep
<1>3. CASE onOkButtonPressed
  <2>1. /\ params' = getParams(params, window) /\ saveUserConfig(params')
        /\ run' = getParams(run, window) /\ stage' \in {"run", "invalid"}
        /\ window' = NewWindow /\ loaded' = FALSE
        /\ UNCHANGED <<autostart, launches, restored, steps>>
    BY <1>3 DEF onOkButtonPressed, saveConfig, Begun
  <2>2. params' \in Params /\ run' \in Params
    BY <1>a, <2>1, ParamsOf
  <2>3. file' \in SettingsFile /\ written' \in SUBSET Params /\ behind' \in BOOLEAN
    BY <1>a, <2>1, <2>2, SavedFile DEF LauncherTypes
  <2> QED BY <1>a, <2>1, <2>2, <2>3, NewWindowType DEF LauncherInv, LauncherTypes
<1>4. ASSUME NEW checked \in BOOLEAN, updateMods(checked) PROVE LauncherInv'
  <2>1. /\ stage = "run" /\ params' = [params EXCEPT !.loose = checked]
        /\ saveUserConfig(params') /\ stage' \in {"run", "off"}
        /\ UNCHANGED <<autostart, run, launches, window, restored, loaded, steps>>
    BY <1>4 DEF updateMods, saveUserConfig
  <2>2. params' \in Params
    BY <1>a, <2>1 DEF Params
  <2>3. file' \in SettingsFile /\ written' \in SUBSET Params /\ behind' \in BOOLEAN
    BY <1>a, <2>1, <2>2, SavedFile DEF LauncherTypes
  <2> QED BY <1>a, <2>1, <2>2, <2>3 DEF LauncherInv, LauncherTypes
<1>5. CASE EndProgram
  BY <1>a, <1>5, NewWindowType DEF EndProgram, LauncherInv, LauncherTypes, history
<1>6. CASE UNCHANGED launcherVars
  BY <1>6 DEF launcherVars, program, history, LauncherInv, LauncherTypes
<1> QED BY <1>1, <1>2, <1>3, <1>4, <1>5, <1>6 DEF LauncherNext

LEMMA LauncherInvariant == LauncherSpec => []LauncherInv
  BY InitLauncher, NextLauncher, PTL DEF LauncherSpec

\* Whatever the user does and whatever settings.json says, the window lets
\* nobody edit what the program's place, the instance or another box decides,
\* and shows what that decides.
THEOREM LauncherCorrect == LauncherSpec => []LauncherSafe
<1>1. LauncherInv => LauncherSafe
  BY DEF LauncherInv, LauncherSafe, Right, Boxes, Locks, Rules, MO2Box,
         BoxesAgree, LocksAgree, InstanceRules
<1> QED BY LauncherInvariant, <1>1, PTL

-----------------------------------------------------------------------------
(* What a run is started with. *)

(* main's copy of the hidden settings is PGConfig's as long as the launcher *)
(* is shown, unless the defaults were restored.                             *)
StartInv ==
  /\ ~ restored /\ stage = "launcher" => run.bsas = params.bsas /\ run.loose = params.loose
  /\ StartedAsSaved

LEMMA InitStart == LauncherInit => StartInv
  BY DEF LauncherInit, StartInv, StartedAsSaved

LEMMA NextStart == LauncherInv /\ StartInv /\ [LauncherNext]_launcherVars => StartInv'
<1> SUFFICES ASSUME LauncherInv, StartInv, [LauncherNext]_launcherVars, ~ restored'
             PROVE  /\ stage' = "launcher" => run'.bsas = params'.bsas /\ run'.loose = params'.loose
                    /\ stage' = "run" => run' = [params' EXCEPT !.loose = run'.loose]
                    /\ stage' = "invalid" => autostart'
  BY DEF StartInv, StartedAsSaved
<1>a. params \in Params /\ run \in Params
  BY DEF LauncherInv, LauncherTypes
<1>1. CASE StartProgram
  <2>1. run' = params' /\ params' \in Params
    BY <1>1, LoadedParams DEF StartProgram, Begun, LauncherInv, LauncherTypes
  <2> QED BY <1>1, <2>1 DEF StartProgram, Begun, Params
<1>2. CASE UserEvent
  <2>1. stage' = "launcher" /\ stage = "launcher" /\ run' = run
    BY <1>2, UserEffects DEF program
  <2>2. CASE onSaveConfigButtonPressed
    BY <2>1, <2>2 DEF onSaveConfigButtonPressed, saveConfig, getParams, StartInv
  <2>3. CASE onLoadConfigButtonPressed
    BY <2>1, <2>3 DEF onLoadConfigButtonPressed, history, StartInv
  <2>4. CASE onRestoreDefaultsButtonPressed
    BY <2>4 DEF onRestoreDefaultsButtonPressed
  <2>5. CASE \E w : Show(w)
    BY <2>1, <2>5 DEF Show, history, StartInv
  <2> QED BY <1>2, <2>2, <2>3, <2>4, <2>5, UserEffects
<1>3. CASE onOkButtonPressed
  <2>1. /\ stage = "launcher" /\ ~ restored /\ run' = getParams(run, window)
        /\ params' = getParams(params, window) /\ validateParams(params')
        /\ stage' = IF validateParams(run') THEN "run" ELSE "invalid"
    BY <1>3 DEF onOkButtonPressed, saveConfig, Begun
  <2>2. run' = params'
    BY <2>1 DEF StartInv, getParams
  <2>3. params' \in Params
    BY <1>3, NextLauncher DEF LauncherNext, LauncherInv, LauncherTypes
  <2> QED BY <2>1, <2>2, <2>3 DEF Params
<1>4. ASSUME NEW checked \in BOOLEAN, updateMods(checked)
      PROVE  stage' \in {"run", "off"} /\ run' = [params' EXCEPT !.loose = run'.loose]
  <2>1. /\ stage' \in {"run", "off"} /\ stage = "run" /\ ~ restored /\ run' = run
        /\ params' = [params EXCEPT !.loose = checked]
    BY <1>4 DEF updateMods
  <2>2. run = [params EXCEPT !.loose = run.loose]
    BY <2>1 DEF StartInv, StartedAsSaved
  <2> QED BY <1>a, <2>1, <2>2 DEF Params
<1>5. CASE EndProgram
  BY <1>5 DEF EndProgram
<1>6. CASE UNCHANGED launcherVars
  BY <1>6 DEF launcherVars, program, history, StartInv, StartedAsSaved
<1> QED BY <1>1, <1>2, <1>3, <1>4, <1>5, <1>6 DEF LauncherNext

\* A run patches with what PGConfig holds, and main refuses only what was
\* never shown.
THEOREM StartCorrect == LauncherSpec => []StartedAsSaved
<1>1. StartInv => StartedAsSaved
  BY DEF StartInv
<1> QED BY LauncherInvariant, InitStart, NextStart, <1>1, PTL DEF LauncherSpec

-----------------------------------------------------------------------------
(* What is shown and what is saved. *)

(* After Load Config the window shows what PGConfig holds.                  *)
LoadInv ==
  /\ JustLoaded => getParams(params, window) = params /\ ~ window.saveOn
  /\ loaded => stage = "launcher"

(* PGConfig holds what settings.json does until the defaults are restored   *)
(* or a write fails, and again after the next write.                        *)
FileInv == stage = "launcher" /\ ~ behind => InFile(params)

LEMMA LoadShows ==
  ASSUME NEW p \in Params, NEW w \in Window, ~ w.locked, Consistent(p)
  PROVE  LET v == updateDisabledElements(p, loadWindow(p, w))
         IN ~ v.locked /\ v.typeOn => getParams(p, v) = p /\ ~ v.saveOn
<1> DEFINE u == loadWindow(p, w)
           v == updateDisabledElements(p, u)
<1>1. /\ u \in Window
      /\ u.mm = p.mm /\ u.inst = p.inst /\ u.out = p.out /\ u.rules = p.rules
      /\ u.options = p.options /\ u.parallax = p.parallax /\ u.cm = p.cm
      /\ u.p2cm = p.p2cm /\ u.debug = p.debug /\ u.trace = p.trace
      /\ ~ u.locked => u.dir = p.dir
      /\ u.typeOn => u.type = p.type
  BY WindowLoaded
<1> HIDE DEF u
<1>2. /\ SameSettings(v, u) /\ SameLocks(v, u)
      /\ v.parallax = (u.parallax \/ u.p2cm) /\ v.cm = (u.cm \/ u.p2cm)
      /\ v.trace = (u.trace /\ u.debug) /\ v.saveOn = (getParams(p, u) # p)
  BY <1>1, DisabledElements
<1> HIDE DEF v
<1> SUFFICES ASSUME ~ v.locked, v.typeOn PROVE getParams(p, v) = p /\ ~ v.saveOn
  BY DEF u, v
<1>3. u.dir = p.dir /\ u.type = p.type
  BY <1>1, <1>2 DEF SameLocks
<1>4. getParams(p, u) \in Params /\ getParams(p, v) \in Params
  BY <1>1, ParamsOf, DisabledElements DEF v
<1>5. getParams(p, u) = p
  BY <1>1, <1>3, <1>4, SameParams DEF getParams
<1>6. v.parallax = p.parallax /\ v.cm = p.cm /\ v.trace = p.trace
  BY <1>1, <1>2 DEF Consistent, Params
<1>7. getParams(p, v) = p
  BY <1>1, <1>2, <1>3, <1>4, <1>6, SameParams DEF getParams, SameSettings
<1> QED BY <1>2, <1>5, <1>7

LEMMA InitLoad == LauncherInit => LoadInv
  BY DEF LauncherInit, LoadInv, JustLoaded

LEMMA NextLoad == LauncherInv /\ LoadInv /\ [LauncherNext]_launcherVars => LoadInv'
<1> SUFFICES ASSUME LauncherInv, LoadInv, [LauncherNext]_launcherVars, loaded'
             PROVE  /\ stage' = "launcher"
                    /\ Consistent(params') /\ ~ window'.locked /\ window'.typeOn
                         => getParams(params', window') = params' /\ ~ window'.saveOn
  BY DEF LoadInv, JustLoaded
<1>1. CASE onLoadConfigButtonPressed
  <2>1. /\ params' = params /\ stage' = "launcher" /\ ~ window.locked
        /\ window' = updateDisabledElements(params, loadWindow(params, window))
    BY <1>1 DEF onLoadConfigButtonPressed, InLauncher, program
  <2>2. params \in Params /\ window \in Window
    BY DEF LauncherInv, LauncherTypes
  <2> QED BY <2>1, <2>2, LoadShows
<1>2. CASE UNCHANGED <<stage, params, window, loaded>>
  BY <1>2 DEF LoadInv, JustLoaded
<1>3. CASE UNCHANGED loaded /\ stage # "launcher"
  BY <1>3 DEF LoadInv
<1>4. \/ onLoadConfigButtonPressed \/ UNCHANGED <<stage, params, window, loaded>>
      \/ UNCHANGED loaded /\ stage # "launcher"
  <2>1. CASE UserEvent
    <3>1. ~ onSaveConfigButtonPressed /\ ~ onRestoreDefaultsButtonPressed /\ \A w : ~ Show(w)
      BY DEF onSaveConfigButtonPressed, onRestoreDefaultsButtonPressed, Show
    <3> QED BY <2>1, <3>1, UserEffects
  <2>2. CASE StartProgram
    BY <2>2 DEF StartProgram
  <2>3. CASE onOkButtonPressed \/ EndProgram
    BY <2>3 DEF onOkButtonPressed, EndProgram
  <2>4. CASE \E checked \in BOOLEAN : updateMods(checked)
    BY <2>4 DEF updateMods
  <2>5. CASE UNCHANGED launcherVars
    BY <2>5 DEF launcherVars, program
  <2> QED BY <2>1, <2>2, <2>3, <2>4, <2>5 DEF LauncherNext
<1> QED BY <1>1, <1>2, <1>3, <1>4

(* A file that was written and not damaged since holds what was written.    *)
WrittenInv == \A p \in written : file = getUserConfigJSON(p)

LEMMA InitWritten == LauncherInit => WrittenInv
  BY DEF LauncherInit, WrittenInv

LEMMA NextWritten == WrittenInv /\ [LauncherNext]_launcherVars => WrittenInv'
<1> SUFFICES ASSUME WrittenInv, [LauncherNext]_launcherVars PROVE WrittenInv'
  OBVIOUS
<1>1. ASSUME NEW p, saveUserConfig(p) PROVE WrittenInv'
  BY <1>1 DEF saveUserConfig, SaveSucceeds, SaveFails, WrittenInv
<1>2. CASE UNCHANGED <<file, written>>
  BY <1>2 DEF WrittenInv
<1>3. UNCHANGED <<file, written>> \/ saveUserConfig(params')
  <2>1. CASE UserEvent
    <3>1. onSaveConfigButtonPressed => saveUserConfig(params')
      BY DEF onSaveConfigButtonPressed, saveConfig
    <3>2. onLoadConfigButtonPressed \/ onRestoreDefaultsButtonPressed
            => UNCHANGED <<file, written>>
      BY DEF onLoadConfigButtonPressed, onRestoreDefaultsButtonPressed, history
    <3>3. (\E w : Show(w)) => UNCHANGED <<file, written>>
      BY DEF Show, history
    <3> QED BY <2>1, <3>1, <3>2, <3>3, UserEffects
  <2>2. CASE StartProgram
    BY <2>2 DEF StartProgram
  <2>3. CASE onOkButtonPressed
    BY <2>3 DEF onOkButtonPressed, saveConfig
  <2>4. CASE \E checked \in BOOLEAN : updateMods(checked)
    BY <2>4 DEF updateMods, saveUserConfig
  <2>5. CASE EndProgram \/ UNCHANGED launcherVars
    BY <2>5 DEF EndProgram, launcherVars, history
  <2> QED BY <2>1, <2>2, <2>3, <2>4, <2>5 DEF LauncherNext
<1> QED BY <1>1, <1>2, <1>3

\* Writing and reading loses nothing: every setting has its field.
LEMMA WrittenIsRead ==
  ASSUME NEW p \in Params
  PROVE  /\ getUserConfigJSON(p).parses
         /\ addConfigJSON(getUserConfigJSON(p)) = Normal(p)
<1> DEFINE json == getUserConfigJSON(p)
           q == Normal(p)
<1>1. json.parses /\ json.has = Fields /\ json.val = p
  BY DEF getUserConfigJSON
<1>2. q = [p EXCEPT !.dir = q.dir, !.inst = q.inst, !.out = q.out, !.rules = q.rules, !.bsas = q.bsas]
  BY DEF Normal, Params
<1>3. addConfigJSON(json)
        = [dir |-> q.dir, type |-> q.type, mm |-> q.mm, inst |-> q.inst, loose |-> q.loose,
           out |-> q.out, rules |-> q.rules, bsas |-> q.bsas, options |-> q.options,
           parallax |-> q.parallax, cm |-> q.cm, p2cm |-> q.p2cm, debug |-> q.debug,
           trace |-> q.trace]
  BY <1>1 DEF addConfigJSON, Fields
<1> QED BY <1>1, <1>2, <1>3 DEF Params

LEMMA InitFile == LauncherInit => FileInv
  BY DEF LauncherInit, FileInv

\* What the file says changes with the file only.
LEMMA SameFile == ASSUME file' = file PROVE loadedParams' = loadedParams
  BY DEF loadedParams, addConfigJSON, Normal, NewParams, getDefaultParams

LEMMA NextFile == LauncherInv /\ FileInv /\ [LauncherNext]_launcherVars => FileInv'
<1> SUFFICES ASSUME LauncherInv, FileInv, [LauncherNext]_launcherVars,
                    stage' = "launcher", ~ behind'
             PROVE  InFile(params)'
  BY DEF FileInv
<1>1. ASSUME NEW p \in Params, params' = p, saveUserConfig(p) PROVE InFile(params)'
  <2>1. file' = getUserConfigJSON(p)
    BY <1>1 DEF saveUserConfig, SaveSucceeds, SaveFails
  <2>2. file'.parses /\ addConfigJSON(file') = Normal(p)
    BY <2>1, WrittenIsRead
  <2>3. loadedParams' = IF file'.parses THEN addConfigJSON(file') ELSE getDefaultParams
    BY DEF loadedParams, addConfigJSON, Normal, NewParams, getDefaultParams
  <2>4. loadedParams' = Normal(p)
    BY <2>2, <2>3
  <2> QED BY <1>1, <2>4 DEF InFile
<1>2. ASSUME stage = "launcher", UNCHANGED <<file, params, behind>> PROVE InFile(params)'
  <2>1. InFile(params)
    BY <1>2 DEF FileInv
  <2> QED BY <1>2, <2>1, SameFile DEF InFile
<1>3. params' \in Params
  BY NextLauncher DEF LauncherInv, LauncherTypes
<1>4. CASE StartProgram
  <2>1. params' = loadedParams /\ file' = file
    BY <1>4 DEF StartProgram
  <2>2. loadedParams' = loadedParams
    BY <2>1 DEF loadedParams, addConfigJSON, Normal, NewParams, getDefaultParams
  <2> QED BY <2>1, <2>2 DEF InFile
<1>5. CASE UserEvent
  <2>1. onSaveConfigButtonPressed => saveUserConfig(params')
    BY DEF onSaveConfigButtonPressed, saveConfig
  <2>2. onLoadConfigButtonPressed \/ (\E w : Show(w)) => UNCHANGED <<file, params, behind>>
    BY DEF onLoadConfigButtonPressed, Show, history
  <2>3. ~ onRestoreDefaultsButtonPressed
    BY DEF onRestoreDefaultsButtonPressed
  <2> QED BY <1>1, <1>2, <1>3, <1>5, <2>1, <2>2, <2>3, UserEffects
<1>6. CASE onOkButtonPressed \/ EndProgram \/ \E checked \in BOOLEAN : updateMods(checked)
  BY <1>6 DEF onOkButtonPressed, EndProgram, updateMods, Begun
<1>7. CASE UNCHANGED launcherVars
  BY <1>2, <1>7 DEF launcherVars, program, history
<1> QED BY <1>4, <1>5, <1>6, <1>7 DEF LauncherNext

\* While Save Config is off all that is shown, but for the instance and its
\* game, is in PGConfig.
LEMMA SaveOffShows ==
  ASSUME LauncherInv, stage = "launcher", ~ window.saveOn, Consistent(params)
  PROVE  [getParams(params, window) EXCEPT !.inst = params.inst, !.type = params.type] = params
<1>1. params \in Params /\ window \in Window
  BY DEF LauncherInv, LauncherTypes
<1>2. getParams(params, window) = [params EXCEPT !.inst = window.inst, !.type = window.type]
  BY DEF LauncherInv, Right, Agree
<1> QED BY <1>1, <1>2 DEF Params

\* What the window shows is what settings.json holds, after Load Config and
\* while the button to save is off, unless PGConfig is known to differ from it.
THEOREM ShownCorrect == LauncherSpec => []SettingsShown
<1>1. LauncherInv /\ LoadInv /\ FileInv => SettingsShown
  <2>1. LoadInv /\ FileInv => LoadRestores
    BY DEF LoadInv, FileInv, LoadRestores, JustLoaded
  <2>2. LauncherInv /\ FileInv => SaveOffAgrees
    BY SaveOffShows DEF FileInv, SaveOffAgrees
  <2> QED BY <2>1, <2>2 DEF SettingsShown
<1> QED BY LauncherInvariant, InitLoad, NextLoad, InitFile, NextFile, <1>1, PTL DEF LauncherSpec

\* What was saved is what the next start loads, whatever came between.
THEOREM SettingsKept == LauncherSpec => SettingsSurvive
<1>1. LauncherInv /\ WrittenInv /\ [LauncherNext]_launcherVars
        => [StartProgram => \A p \in written : params' = Normal(p)]_launcherVars
  <2> SUFFICES ASSUME LauncherInv, WrittenInv, StartProgram, NEW p \in written
               PROVE  params' = Normal(p)
    OBVIOUS
  <2>1. p \in Params /\ file = getUserConfigJSON(p)
    BY DEF LauncherInv, LauncherTypes, WrittenInv
  <2> QED BY <2>1, WrittenIsRead DEF StartProgram, loadedParams
<1> QED BY LauncherInvariant, InitWritten, NextWritten, <1>1, PTL
        DEF LauncherSpec, SettingsSurvive

-----------------------------------------------------------------------------
(* The conflict manager. *)

LEMMA InitRun == Init => RunIsSaved
  BY DEF Init, RunIsSaved

LEMMA NextRun == RunIsSaved /\ [Next]_vars => RunIsSaved'
<1> SUFFICES ASSUME RunIsSaved, [Next]_vars, phase' = "patch"
             PROVE  saved' = GetJSON(mods')
  BY DEF RunIsSaved
<1>1. CASE MainRunnerPrep
  BY <1>1 DEF MainRunnerPrep
<1>2. CASE RerunPatching
  BY <1>2 DEF RerunPatching, UpdateMods
<1>3. CASE UNCHANGED <<phase, mods, saved>>
  BY <1>3 DEF RunIsSaved
<1>4. CASE phase' # "patch"
  BY <1>4
<1>5. \/ MainRunnerPrep \/ RerunPatching
      \/ UNCHANGED <<phase, mods, saved>> \/ phase' # "patch"
  <2>1. CASE \E i \in Indices(list) : ClickCheckbox(i)
    BY <2>1 DEF ClickCheckbox, InDialog, GoLive, env
  <2>2. CASE \E i \in Indices(list) : \E S \in SUBSET (0 .. list.cutoff - 1) : ClickRow(i, S)
    BY <2>2 DEF ClickRow, InDialog, env
  <2>3. CASE \E S \in Selections, b \in BOOLEAN :
               MoveSelected(S, b) \/ EnableSelected(S, b) \/ IgnoreMeshes(S, b)
    <3>1. CASE \E S \in Selections, b \in BOOLEAN : MoveSelected(S, b)
      BY <3>1 DEF MoveSelected, InDialog, GoLive, env
    <3>2. CASE \E S \in Selections, b \in BOOLEAN : EnableSelected(S, b)
      BY <3>2 DEF EnableSelected, InDialog, GoLive, env
    <3>3. CASE \E S \in Selections, b \in BOOLEAN : IgnoreMeshes(S, b)
      BY <3>3 DEF IgnoreMeshes, InDialog, GoLive, env
    <3> QED BY <2>3, <3>1, <3>2, <3>3
  <2>4. CASE SearchTextChanged \/ UseMO2LooseFileOrderChange \/ RestoreDefault
             \/ DiscardChanges \/ Apply
    BY <2>4 DEF SearchTextChanged, UseMO2LooseFileOrderChange, RestoreDefault,
                DiscardChanges, Apply, InDialog, env
  <2>5. CASE \E line \in Lines \cup {Still} :
               \E others \in IF search THEN SUBSET RowMods(list.rows) ELSE {{}} :
                 MouseUp(line, others)
    BY <2>5 DEF MouseUp, GoLive, env
  <2>6. CASE \/ \E line \in {0, Still} : MouseUpOutside(line)
             \/ Okay \/ Close \/ MainRunnerPatch \/ Exit \/ OpenDialog
    BY <2>6 DEF MouseUpOutside, Okay, Close, EndModal, MainRunnerPatch, Exit, OpenDialog, env
  <2>8. CASE UpdateModsFails \/ MainRunnerPrepFails
    BY <2>8 DEF UpdateModsFails, EndModal, MainRunnerPrepFails
  <2>7. CASE UNCHANGED vars
    BY <2>7 DEF vars
  <2> QED BY <2>1, <2>2, <2>3, <2>4, <2>5, <2>6, <2>7, <2>8
          DEF Next, Event, EndOfEvent, Program
<1> QED BY <1>1, <1>2, <1>3, <1>4, <1>5

\* However the list was edited and the dialog left, patching starts from what
\* modrules.json says.
THEOREM RunFromSaved == Spec => []RunIsSaved
  BY InitRun, NextRun, PTL DEF Spec

-----------------------------------------------------------------------------
(* Numbers and finite sets. *)

LEMMA Induct ==
  ASSUME NEW S, 0 \in S, \A n \in Nat : n \in S => n + 1 \in S,
         NEW n \in Nat
  PROVE  n \in S
<1> SUFFICES ASSUME n \notin S PROVE FALSE
  OBVIOUS
<1> DEFINE A == {k \in 0 .. n : k \in S}
           B == A \ {0}
           f == [k \in A |-> k + 1]
<1>1. IsFiniteSet(0 .. n)
  BY FS_Interval
<1>2. IsFiniteSet(A) /\ 0 \in A
  BY <1>1, FS_Subset
<1>3. IsFiniteSet(B) /\ Cardinality(B) = Cardinality(A) - 1
  BY <1>2, FS_RemoveElement
<1>4. f \in [A -> B]
  <2> SUFFICES ASSUME NEW k \in A PROVE k + 1 \in B
    OBVIOUS
  <2>1. k # n /\ k \in Nat
    OBVIOUS
  <2> QED BY <2>1
<1>5. Cardinality(B) < Cardinality(A)
  BY <1>2, <1>3, FS_CardinalityType
<1>6. PICK x \in A, y \in A : x # y /\ f[x] = f[y]
  <2> HIDE DEF f, A, B
  <2> QED BY <1>2, <1>3, <1>4, <1>5, FS_PigeonHole
<1> QED BY <1>6

LEMMA Least ==
  ASSUME NEW S, S \subseteq Nat, S # {}
  PROVE  \E x \in S : \A y \in S : x <= y
<1>0. PICK x0 \in S : TRUE
  OBVIOUS
<1> DEFINE Q == {k \in Nat : (\E x \in S : \A y \in S : x <= y) \/ (\A x \in S : x >= k)}
<1>1. 0 \in Q
  OBVIOUS
<1>2. \A k \in Nat : k \in Q => k + 1 \in Q
  OBVIOUS
<1>3. x0 + 1 \in Q
  <2> HIDE DEF Q
  <2> QED BY <1>1, <1>2, Induct
<1> QED BY <1>0, <1>3

LEMMA FewerElements ==
  ASSUME NEW T, IsFiniteSet(T), NEW S, S \subseteq T, NEW x \in T, x \notin S
  PROVE  /\ Cardinality(S) \in Nat /\ Cardinality(T) \in Nat
         /\ Cardinality(S) < Cardinality(T)
<1>1. IsFiniteSet(S) BY FS_Subset
<1>2. S \subseteq T \ {x} OBVIOUS
<1>3. IsFiniteSet(T \ {x}) /\ Cardinality(T \ {x}) = Cardinality(T) - 1
  BY FS_RemoveElement
<1>4. Cardinality(S) <= Cardinality(T \ {x}) BY <1>2, <1>3, FS_Subset
<1> QED BY <1>1, <1>3, <1>4, FS_CardinalityType

LEMMA FiniteImage ==
  ASSUME NEW S, IsFiniteSet(S), NEW f, DOMAIN f = S
  PROVE  IsFiniteSet({f[x] : x \in S})
<1> DEFINE T == {f[x] : x \in S}
           g == [x \in S |-> f[x]]
<1>1. g \in [S -> T] OBVIOUS
<1>2. \A t \in T : \E x \in S : g[x] = t OBVIOUS
<1>3. g \in Surjection(S, T)
  <2> HIDE DEF T, g
  <2> QED BY <1>1, <1>2 DEF Surjection
<1> QED BY <1>3, FS_Surjection

LEMMA MaxOfSet ==
  ASSUME NEW S, S \subseteq Int, IsFiniteSet(S), S # {}
  PROVE  Max(S) \in S /\ \A y \in S : Max(S) >= y
<1> DEFINE above(x) == {y \in S : y > x}
           counts == {Cardinality(above(x)) : x \in S}
<1>1. \A x \in S : Cardinality(above(x)) \in Nat
  BY FS_Subset, FS_CardinalityType
<1>2. PICK x \in S : \A y \in S : Cardinality(above(x)) <= Cardinality(above(y))
  <2>1. counts \subseteq Nat /\ counts # {} BY <1>1
  <2>2. PICK c \in counts : \A d \in counts : c <= d
    <3> HIDE DEF counts
    <3> QED BY <2>1, Least
  <2> QED BY <2>2
<1>3. ASSUME NEW z \in S, z > x PROVE FALSE
  <2>1. above(z) \subseteq above(x) /\ z \in above(x) /\ z \notin above(z)
    <3>1. x \in Int /\ z \in Int BY <1>2, <1>3
    <3>2. \A y \in S : y \in Int /\ (y > z => y > x) BY <1>3, <3>1
    <3>3. ~ (z > z) BY <3>1
    <3> QED BY <1>3, <3>1, <3>2, <3>3
  <2>2. IsFiniteSet(above(x)) BY FS_Subset
  <2>3. Cardinality(above(z)) < Cardinality(above(x))
    <3> HIDE DEF above
    <3> QED BY <2>1, <2>2, FewerElements
  <2> QED BY <1>1, <1>2, <2>3
<1>4. \A y \in S : x >= y BY <1>3
<1> QED BY <1>4 DEF Max

-----------------------------------------------------------------------------
(* The order of the mods. *)

ModsTyped(ms) == DOMAIN ms \subseteq Mods /\ \A m \in DOMAIN ms : ms[m] \in Mod
SavedTyped(ms) == DOMAIN ms \subseteq Mods /\ \A m \in DOMAIN ms : ms[m] \in SavedMod

LEMMA ComesBefore ==
  ASSUME NEW ms, ModsTyped(ms), NEW p \in BOOLEAN,
         NEW k \in DOMAIN ms, NEW m \in DOMAIN ms, NEW n \in DOMAIN ms
  PROVE  /\ ~ CompareMods(ms, p, m, m)
         /\ CompareMods(ms, p, k, m) /\ CompareMods(ms, p, m, n) => CompareMods(ms, p, k, n)
<1>1. \A x \in {k, m, n} : /\ ms[x].priority \in Int /\ ms[x].order \in Nat
                           /\ ms[x].best \in Nat /\ NameRank[x] \in Nat
  BY ModOrderAssumption DEF ModsTyped, Mod
<1> QED BY <1>1 DEF CompareMods

\* What each of the operators that order the mods does to an entry.
EntryFiles(r, best, has) == [r EXCEPT !.best = best, !.hasMeshes = has]
EntryRaised(r, priority) == [r EXCEPT !.enabled = TRUE, !.priority = priority]
EntryNumbered(r, priority) == [r EXCEPT !.priority = priority]

LEMMA FilesEntry ==
  ASSUME NEW r \in Mod, NEW b \in Nat, NEW h \in BOOLEAN, NEW e, e = EntryFiles(r, b, h)
  PROVE  e \in Mod /\ e.enabled = r.enabled /\ e.priority = r.priority /\ e.isNew = r.isNew
<1>1. PICK r1 : r1 = [r EXCEPT !.best = b] OBVIOUS
<1>2. r1 \in Mod /\ r1.enabled = r.enabled /\ r1.priority = r.priority /\ r1.isNew = r.isNew
  BY <1>1 DEF Mod
<1>3. e = [r1 EXCEPT !.hasMeshes = h] BY <1>1 DEF EntryFiles
<1> QED BY <1>2, <1>3 DEF Mod

LEMMA RaisedEntry ==
  ASSUME NEW r \in Mod, NEW p \in Int, NEW e, e = EntryRaised(r, p)
  PROVE  e \in Mod /\ e.enabled /\ e.priority = p
<1>1. PICK r1 : r1 = [r EXCEPT !.enabled = TRUE] OBVIOUS
<1>2. r1 \in Mod /\ r1.enabled BY <1>1 DEF Mod
<1>3. e = [r1 EXCEPT !.priority = p] BY <1>1 DEF EntryRaised
<1> QED BY <1>2, <1>3 DEF Mod

LEMMA NumberedEntry ==
  ASSUME NEW r \in Mod, NEW p \in Int, NEW e, e = EntryNumbered(r, p)
  PROVE  e \in Mod /\ e.enabled = r.enabled /\ e.priority = p
BY DEF EntryNumbered, Mod

\* What comes before has a smaller place, and no place is beyond the set.
LEMMA Places ==
  ASSUME NEW ms, ModsTyped(ms), NEW p \in BOOLEAN, NEW S, S \subseteq DOMAIN ms, NEW m \in S
  PROVE  /\ Cardinality(S) \in Nat /\ PlaceIn(S, ms, p, m) \in Nat
         /\ PlaceIn(S, ms, p, m) < Cardinality(S)
         /\ \A n \in S : CompareMods(ms, p, m, n) =>
              PlaceIn(S, ms, p, n) \in Nat /\ PlaceIn(S, ms, p, m) < PlaceIn(S, ms, p, n)
<1> DEFINE before(n) == {k \in S : CompareMods(ms, p, k, n)}
<1>0. IsFiniteSet(S) BY ModOrderAssumption, FS_Subset DEF ModsTyped
<1>1. \A n : before(n) \subseteq S OBVIOUS
<1>2. \A n \in S : n \notin before(n) BY ComesBefore
<1>3. ASSUME NEW n \in S, CompareMods(ms, p, m, n)
      PROVE  m \in before(n) /\ before(m) \subseteq before(n)
  <2>1. \A k \in before(m) : CompareMods(ms, p, k, n) BY <1>3, ComesBefore
  <2> QED BY <1>3, <2>1
<1>4. PlaceIn(S, ms, p, m) = Cardinality(before(m))
      /\ \A n : PlaceIn(S, ms, p, n) = Cardinality(before(n))
  BY DEF PlaceIn
<1>5. \A n : IsFiniteSet(before(n)) BY <1>0, <1>1, FS_Subset
<1> HIDE DEF before
<1> QED BY <1>0, <1>1, <1>2, <1>3, <1>4, <1>5, FewerElements

LEMMA PlaceInList ==
  ASSUME NEW ml \in Seq(Mods), NEW m \in ToSet(ml)
  PROVE  PlaceOf(ml, m) \in Nat
<1> DEFINE at == {i \in DOMAIN ml : ml[i] = m}
<1>1. at \subseteq Nat /\ at # {} /\ 0 \notin at BY DEF ToSet
<1>2. PICK i \in at : \A j \in at : i <= j
  <2> HIDE DEF at
  <2> QED BY <1>1, Least
<1>3. Min(at) \in at BY <1>2 DEF Min
<1> QED BY <1>1, <1>3 DEF PlaceOf

\* What a session starts from: a saved mod has what was saved of it, and a
\* mod that was not saved is new.
LEMMA Loaded ==
  ASSUME NEW old, SavedTyped(old), NEW ml \in Seq(Mods)
  PROVE  LET ms == Populate(LoadJSON(old), ml)
         IN  /\ ModsTyped(ms)
             /\ \A m \in DOMAIN ms :
                  IF m \in DOMAIN old
                  THEN /\ ms[m].enabled = old[m].enabled /\ ms[m].priority = old[m].priority
                       /\ ~ ms[m].isNew
                  ELSE ms[m].isNew /\ ~ ms[m].enabled
<1>1. PICK l : l = LoadJSON(old) OBVIOUS
<1>2. DOMAIN l = DOMAIN old /\ \A m \in DOMAIN old :
        /\ l[m] \in Mod /\ ~ l[m].isNew
        /\ l[m].enabled = old[m].enabled /\ l[m].priority = old[m].priority
  BY <1>1 DEF LoadJSON, SavedTyped, SavedMod, Mod
<1>3. ASSUME NEW m \in Mods, NEW place \in Nat
      PROVE  LET e == ListedMod(l, m, place)
             IN  /\ e \in Mod
                 /\ IF m \in DOMAIN old
                    THEN /\ e.enabled = old[m].enabled /\ e.priority = old[m].priority
                         /\ ~ e.isNew
                    ELSE e.isNew /\ ~ e.enabled
  BY <1>2 DEF ListedMod, Mod
<1>4. ToSet(ml) \subseteq Mods BY DEF ToSet
<1>5. PICK ms : ms = Populate(l, ml) OBVIOUS
<1>6. CASE Manager \in {"mo2", "vortex"}
  <2>1. PICK place \in [ToSet(ml) -> Nat] :
          /\ DOMAIN ms = ToSet(ml)
          /\ \A m \in ToSet(ml) : ms[m] = ListedMod(l, m, place[m])
    <3>1. CASE Manager = "mo2"
      <4>1. ms = [m \in ToSet(ml) |-> ListedMod(l, m, PlaceOf(ml, m))]
        BY <1>5, <3>1 DEF Populate, PopulateModFileMapMO2
      <4>2. [m \in ToSet(ml) |-> PlaceOf(ml, m)] \in [ToSet(ml) -> Nat] BY PlaceInList
      <4> WITNESS [m \in ToSet(ml) |-> PlaceOf(ml, m)] \in [ToSet(ml) -> Nat]
      <4> QED BY <4>1
    <3>2. CASE Manager = "vortex"
      <4>1. ms = [m \in ToSet(ml) |-> ListedMod(l, m, 0)]
        BY <1>5, <3>2 DEF Populate, PopulateModFileMapVortex
      <4> WITNESS [m \in ToSet(ml) |-> 0] \in [ToSet(ml) -> Nat]
      <4> QED BY <4>1
    <3> QED BY <1>6, <3>1, <3>2
  <2>2. \A m \in ToSet(ml) : m \in Mods /\ place[m] \in Nat BY <1>4
  <2>3. ASSUME NEW m \in DOMAIN ms
        PROVE  /\ ms[m] \in Mod
               /\ IF m \in DOMAIN old
                  THEN /\ ms[m].enabled = old[m].enabled /\ ms[m].priority = old[m].priority
                       /\ ~ ms[m].isNew
                  ELSE ms[m].isNew /\ ~ ms[m].enabled
    <3>1. m \in Mods /\ place[m] \in Nat BY <2>1, <2>2
    <3>2. ms[m] = ListedMod(l, m, place[m]) BY <2>1
    <3> QED BY <1>3, <3>1, <3>2
  <2> QED BY <1>1, <1>4, <1>5, <2>1, <2>3 DEF ModsTyped
<1>7. CASE Manager \notin {"mo2", "vortex"}
  <2>1. ms = l BY <1>5, <1>7 DEF Populate
  <2> QED BY <1>1, <1>2, <1>5, <2>1 DEF ModsTyped, SavedTyped
<1> QED BY <1>6, <1>7

LEMMA Mapped ==
  ASSUME NEW ms, ModsTyped(ms), NEW ml
  PROVE  LET ns == MapFiles(ms, ml)
         IN  /\ ModsTyped(ns) /\ DOMAIN ns = DOMAIN ms
             /\ \A m \in DOMAIN ms : /\ ns[m].enabled = ms[m].enabled
                                     /\ ns[m].priority = ms[m].priority
                                     /\ ns[m].isNew = ms[m].isNew
<1> DEFINE kinds(m) == {Kind[f] : f \in FilesOf(ml, m)}
           best(m) == Max({0} \cup (kinds(m) \ {MeshKind}))
<1>1. ASSUME NEW m PROVE best(m) \in Nat
  <2>1. FilesOf(ml, m) \subseteq Files BY DEF FilesOf
  <2>2. IsFiniteSet(FilesOf(ml, m)) BY <2>1, ModOrderAssumption, FS_Subset
  <2>3. IsFiniteSet(kinds(m))
    <3>1. PICK k : k = [f \in FilesOf(ml, m) |-> Kind[f]] OBVIOUS
    <3>2. kinds(m) = {k[f] : f \in FilesOf(ml, m)} BY <3>1
    <3>3. DOMAIN k = FilesOf(ml, m) BY <3>1
    <3> HIDE DEF kinds
    <3> QED BY <2>2, <3>2, <3>3, FiniteImage
  <2>4. IsFiniteSet({0} \cup (kinds(m) \ {MeshKind}))
    <3> HIDE DEF kinds
    <3> QED BY <2>3, FS_Difference, FS_Singleton, FS_Union
  <2>5. kinds(m) \subseteq Nat BY <2>1, ModOrderAssumption
  <2>6. PICK S : S = {0} \cup (kinds(m) \ {MeshKind}) OBVIOUS
  <2>7. S \subseteq Nat /\ S # {} /\ IsFiniteSet(S)
    <3> HIDE DEF kinds
    <3> QED BY <2>4, <2>5, <2>6
  <2>8. Max(S) \in S
    <3>1. S \subseteq Int BY <2>7
    <3> QED BY <2>7, <3>1, MaxOfSet
  <2> QED BY <2>6, <2>7, <2>8
<1> HIDE DEF best
<1>2. PICK has : has = [m \in DOMAIN ms |-> MeshKind \in kinds(m)] OBVIOUS
<1>3. \A m \in DOMAIN ms : has[m] \in BOOLEAN BY <1>2
<1>4. MapFiles(ms, ml) = [m \in DOMAIN ms |-> EntryFiles(ms[m], best(m), has[m])]
  BY <1>2 DEF MapFiles, best, EntryFiles
<1> HIDE DEF kinds
<1>5. PICK ns : ns = MapFiles(ms, ml) OBVIOUS
<1>6. DOMAIN ns = DOMAIN ms BY <1>4, <1>5
<1>7. ASSUME NEW m \in DOMAIN ms
      PROVE  /\ ns[m] \in Mod /\ ns[m].enabled = ms[m].enabled
             /\ ns[m].priority = ms[m].priority /\ ns[m].isNew = ms[m].isNew
  <2>1. ns[m] = EntryFiles(ms[m], best(m), has[m]) BY <1>4, <1>5
  <2>2. ms[m] \in Mod BY DEF ModsTyped
  <2>3. best(m) \in Nat /\ has[m] \in BOOLEAN BY <1>1, <1>3
  <2> QED BY <2>1, <2>2, <2>3, FilesEntry
<1> QED BY <1>5, <1>6, <1>7 DEF ModsTyped

\* The mods that are new and enabled come above the others, and those that
\* are not new stay as they are.
LEMMA NewOnTop ==
  ASSUME NEW ms, ModsTyped(ms)
  PROVE  LET ns == WithNewOnTop(ms)
         IN  /\ ModsTyped(ns) /\ DOMAIN ns = DOMAIN ms
             /\ \A m \in DOMAIN ms \ AutoEnabled(ms) : ns[m] = ms[m]
             /\ \A m \in AutoEnabled(ms) :
                  /\ ns[m].enabled
                  /\ \A n \in DOMAIN ms : ns[m].priority > ms[n].priority
<1> DEFINE new == AutoEnabled(ms)
           all == {0} \cup {ms[m].priority : m \in DOMAIN ms}
           top == Max(all)
<1>1. new \subseteq DOMAIN ms BY DEF AutoEnabled
<1>2. top \in Int /\ \A n \in DOMAIN ms : top >= ms[n].priority
  <2>1. IsFiniteSet(DOMAIN ms) BY ModOrderAssumption, FS_Subset DEF ModsTyped
  <2>2. IsFiniteSet({ms[m].priority : m \in DOMAIN ms})
    <3>1. PICK f : f = [m \in DOMAIN ms |-> ms[m].priority] OBVIOUS
    <3>2. {ms[m].priority : m \in DOMAIN ms} = {f[m] : m \in DOMAIN ms} BY <3>1
    <3>3. DOMAIN f = DOMAIN ms BY <3>1
    <3> QED BY <2>1, <3>2, <3>3, FiniteImage
  <2>3. IsFiniteSet(all) BY <2>2, FS_Singleton, FS_Union
  <2>4. all \subseteq Int /\ all # {} BY DEF ModsTyped, Mod
  <2>5. top \in all /\ \A y \in all : top >= y
    <3> HIDE DEF all
    <3> QED BY <2>3, <2>4, MaxOfSet
  <2> HIDE DEF top
  <2> QED BY <2>4, <2>5
<1>3. PICK number : number = [m \in new |-> top + Cardinality(new) - PlaceIn(new, ms, FALSE, m)]
  OBVIOUS
<1>4. \A m \in new : /\ number[m] \in Int
                     /\ \A n \in DOMAIN ms : number[m] > ms[n].priority
  <2> SUFFICES ASSUME NEW m \in new
               PROVE  /\ number[m] \in Int
                      /\ \A n \in DOMAIN ms : number[m] > ms[n].priority
    OBVIOUS
  <2>1. /\ Cardinality(new) \in Nat /\ PlaceIn(new, ms, FALSE, m) \in Nat
        /\ PlaceIn(new, ms, FALSE, m) < Cardinality(new)
    <3> HIDE DEF new
    <3> QED BY <1>1, Places
  <2>2. \A n \in DOMAIN ms : ms[n].priority \in Int BY DEF ModsTyped, Mod
  <2>3. number[m] = top + Cardinality(new) - PlaceIn(new, ms, FALSE, m) BY <1>3
  <2> HIDE DEF top, new
  <2>4. PICK x, c, k : x = top /\ c = Cardinality(new) /\ k = PlaceIn(new, ms, FALSE, m)
    OBVIOUS
  <2>5. x \in Int /\ c \in Nat /\ k \in Nat /\ k < c /\ number[m] = x + c - k
    BY <1>2, <2>1, <2>3, <2>4
  <2>6. number[m] \in Int /\ number[m] > x BY <2>5
  <2>7. ASSUME NEW n \in DOMAIN ms PROVE number[m] > ms[n].priority
    <3>1. x >= ms[n].priority BY <1>2, <2>4
    <3>2. ms[n].priority \in Int BY <2>2
    <3> QED BY <2>5, <2>6, <3>1, <3>2
  <2> QED BY <2>6, <2>7
<1>5. WithNewOnTop(ms) = [m \in DOMAIN ms |->
        IF m \in new THEN EntryRaised(ms[m], number[m]) ELSE ms[m]]
  BY <1>3 DEF WithNewOnTop, EntryRaised
<1> HIDE DEF new, top
<1>6. \A m \in DOMAIN ms : ms[m] \in Mod BY DEF ModsTyped
<1>7. PICK ns : ns = WithNewOnTop(ms) OBVIOUS
<1>8. DOMAIN ns = DOMAIN ms /\ \A m \in DOMAIN ms \ new : ns[m] = ms[m]
  BY <1>5, <1>7
<1>9. \A m \in new : ns[m] \in Mod /\ ns[m].enabled /\ ns[m].priority = number[m]
  <2> SUFFICES ASSUME NEW m \in new
               PROVE  ns[m] \in Mod /\ ns[m].enabled /\ ns[m].priority = number[m]
    OBVIOUS
  <2>1. ns[m] = EntryRaised(ms[m], number[m]) BY <1>1, <1>5, <1>7
  <2>2. ms[m] \in Mod /\ number[m] \in Int BY <1>1, <1>4, <1>6
  <2> QED BY <2>1, <2>2, RaisedEntry
<1>10. ModsTyped(ns) BY <1>6, <1>8, <1>9 DEF ModsTyped
<1> QED BY <1>4, <1>7, <1>8, <1>9, <1>10 DEF new

LEMMA NumberedInOrder ==
  ASSUME NEW ms, ModsTyped(ms), NEW p \in BOOLEAN
  PROVE  LET ns == Numbered(ms, p)
         IN  /\ ModsTyped(ns) /\ DOMAIN ns = DOMAIN ms
             /\ \A m \in DOMAIN ms : ns[m].enabled = ms[m].enabled
             /\ \A m, n \in DOMAIN ms :
                  ms[m].enabled /\ ms[n].enabled /\ CompareMods(ms, p, m, n) =>
                    ns[m].priority > ns[n].priority
<1> DEFINE on == {m \in DOMAIN ms : ms[m].enabled}
           number(m) == Cardinality(DOMAIN ms) - PlaceIn(on, ms, p, m)
<1>1. IsFiniteSet(DOMAIN ms) /\ Cardinality(DOMAIN ms) \in Nat
  BY ModOrderAssumption, FS_Subset, FS_CardinalityType DEF ModsTyped
<1>2. on \subseteq DOMAIN ms OBVIOUS
<1>3. \A m \in on : PlaceIn(on, ms, p, m) \in Nat /\ number(m) \in Int
  <2> HIDE DEF on
  <2>1. \A m \in on : PlaceIn(on, ms, p, m) \in Nat BY <1>2, Places
  <2> QED BY <1>1, <2>1
<1>4. \A m, n \in on : CompareMods(ms, p, m, n) => number(m) > number(n)
  <2> HIDE DEF on
  <2>1. \A m, n \in on : CompareMods(ms, p, m, n) =>
          PlaceIn(on, ms, p, m) < PlaceIn(on, ms, p, n)
    BY <1>2, Places
  <2> QED BY <1>1, <1>3, <2>1
<1>5. Numbered(ms, p) = [m \in DOMAIN ms |->
        IF m \in on THEN EntryNumbered(ms[m], number(m)) ELSE ms[m]]
  BY DEF Numbered, EntryNumbered
<1>6. \A m \in DOMAIN ms : ms[m] \in Mod BY DEF ModsTyped
<1> HIDE DEF number
<1>7. PICK ns : ns = Numbered(ms, p) OBVIOUS
<1>8. DOMAIN ns = DOMAIN ms /\ \A m \in DOMAIN ms : m \notin on => ns[m] = ms[m]
  BY <1>5, <1>7
<1>9. \A m \in on : ns[m] \in Mod /\ ns[m].enabled = ms[m].enabled /\ ns[m].priority = number(m)
  <2> SUFFICES ASSUME NEW m \in on
               PROVE  /\ ns[m] \in Mod /\ ns[m].enabled = ms[m].enabled
                      /\ ns[m].priority = number(m)
    OBVIOUS
  <2>1. ns[m] = EntryNumbered(ms[m], number(m)) BY <1>5, <1>7
  <2>2. ms[m] \in Mod /\ number(m) \in Int BY <1>3, <1>6
  <2> QED BY <2>1, <2>2, NumberedEntry
<1>10. ModsTyped(ns) BY <1>6, <1>8, <1>9 DEF ModsTyped
<1> QED BY <1>4, <1>7, <1>8, <1>9, <1>10

\* What OrderSurvives says of the mods of a session and what was saved.
OrderKept(old, ms) ==
  LET enabled == {m \in DOMAIN ms \cap DOMAIN old : old[m].enabled}
      new == {m \in DOMAIN ms \ DOMAIN old : ms[m].enabled}
  IN /\ \A m \in enabled : ms[m].enabled
     /\ \A m, n \in enabled : old[m].priority > old[n].priority
                                => ms[m].priority > ms[n].priority
     /\ \A m \in new, n \in enabled : ms[m].priority > ms[n].priority

LEMMA Prepared ==
  ASSUME NEW old, SavedTyped(old), NEW ml \in Seq(Mods), NEW loose \in BOOLEAN,
         NEW ms, ms = UpdateStateFromModlist(MapFiles(Populate(LoadJSON(old), ml), ml), loose)
  PROVE  ModsTyped(ms) /\ (~ loose => OrderKept(old, ms))
<1>1. PICK a : a = Populate(LoadJSON(old), ml) OBVIOUS
<1>2. PICK b : b = MapFiles(a, ml) OBVIOUS
<1>3. PICK c : c = WithNewOnTop(b) OBVIOUS
<1>4. PICK p \in BOOLEAN : p = ~ (loose /\ Manager = "mo2") OBVIOUS
<1>5. ms = Numbered(c, p) BY <1>1, <1>2, <1>3, <1>4 DEF UpdateStateFromModlist
<1>6. /\ ModsTyped(a)
      /\ \A m \in DOMAIN a :
           IF m \in DOMAIN old
           THEN /\ a[m].enabled = old[m].enabled /\ a[m].priority = old[m].priority
                /\ ~ a[m].isNew
           ELSE a[m].isNew /\ ~ a[m].enabled
  BY <1>1, Loaded
<1>7. /\ ModsTyped(b) /\ DOMAIN b = DOMAIN a
      /\ \A m \in DOMAIN a : /\ b[m].enabled = a[m].enabled
                             /\ b[m].priority = a[m].priority
                             /\ b[m].isNew = a[m].isNew
  BY <1>2, <1>6, Mapped
<1>8. /\ ModsTyped(c) /\ DOMAIN c = DOMAIN b
      /\ \A m \in DOMAIN b \ AutoEnabled(b) : c[m] = b[m]
      /\ \A m \in AutoEnabled(b) : /\ c[m].enabled
                                   /\ \A n \in DOMAIN b : c[m].priority > b[n].priority
  BY <1>3, <1>7, NewOnTop
<1>9. /\ ModsTyped(ms) /\ DOMAIN ms = DOMAIN c
      /\ \A m \in DOMAIN c : ms[m].enabled = c[m].enabled
      /\ \A m, n \in DOMAIN c :
           c[m].enabled /\ c[n].enabled /\ CompareMods(c, p, m, n) =>
             ms[m].priority > ms[n].priority
  BY <1>5, <1>8, NumberedInOrder
<1> SUFFICES ASSUME ~ loose PROVE OrderKept(old, ms)
  BY <1>9
<1> DEFINE enabled == {m \in DOMAIN ms \cap DOMAIN old : old[m].enabled}
           new == {m \in DOMAIN ms \ DOMAIN old : ms[m].enabled}
<1>10. \A m \in enabled : /\ m \in DOMAIN c /\ c[m].enabled /\ c[m] = b[m]
                          /\ c[m].priority = old[m].priority
  <2> SUFFICES ASSUME NEW m \in enabled
               PROVE  /\ m \in DOMAIN c /\ c[m].enabled /\ c[m] = b[m]
                      /\ c[m].priority = old[m].priority
    OBVIOUS
  <2>1. m \in DOMAIN a /\ m \in DOMAIN b /\ m \in DOMAIN c /\ m \in DOMAIN old BY <1>7, <1>8, <1>9
  <2>2. a[m].enabled /\ a[m].priority = old[m].priority /\ ~ a[m].isNew BY <1>6, <2>1
  <2>3. b[m].enabled /\ b[m].priority = old[m].priority /\ ~ b[m].isNew BY <1>7, <2>1, <2>2
  <2>4. m \notin AutoEnabled(b) BY <2>3 DEF AutoEnabled
  <2> QED BY <1>8, <2>1, <2>3, <2>4
<1>11. \A m \in new : m \in DOMAIN c /\ m \in AutoEnabled(b) /\ c[m].enabled
  <2> SUFFICES ASSUME NEW m \in new
               PROVE  m \in DOMAIN c /\ m \in AutoEnabled(b) /\ c[m].enabled
    OBVIOUS
  <2>1. m \in DOMAIN a /\ m \in DOMAIN b /\ m \in DOMAIN c /\ m \notin DOMAIN old
    BY <1>7, <1>8, <1>9
  <2>2. ~ b[m].enabled BY <1>6, <1>7, <2>1
  <2>3. c[m].enabled BY <1>9, <2>1
  <2>4. c[m] # b[m] BY <2>2, <2>3
  <2> QED BY <1>8, <2>1, <2>3, <2>4
<1>12. p = TRUE BY <1>4
<1>13. \A m \in DOMAIN c : c[m].priority \in Int BY <1>8 DEF ModsTyped, Mod
<1> HIDE DEF enabled, new
<1>14. \A m, n \in DOMAIN c : c[m].priority > c[n].priority => CompareMods(c, p, m, n)
  BY <1>12, <1>13 DEF CompareMods
<1>15. \A m \in enabled : ms[m].enabled BY <1>9, <1>10
<1>16. \A m, n \in enabled : old[m].priority > old[n].priority => ms[m].priority > ms[n].priority
  <2> SUFFICES ASSUME NEW m \in enabled, NEW n \in enabled, old[m].priority > old[n].priority
               PROVE  ms[m].priority > ms[n].priority
    OBVIOUS
  <2>1. CompareMods(c, p, m, n) BY <1>10, <1>14
  <2> QED BY <1>9, <1>10, <2>1
<1>17. \A m \in new, n \in enabled : ms[m].priority > ms[n].priority
  <2> SUFFICES ASSUME NEW m \in new, NEW n \in enabled PROVE ms[m].priority > ms[n].priority
    OBVIOUS
  <2>1. n \in DOMAIN b BY <1>8, <1>10
  <2>2. c[m].priority > c[n].priority BY <1>8, <1>10, <1>11, <2>1
  <2>3. CompareMods(c, p, m, n) BY <1>10, <1>11, <1>14, <2>2
  <2> QED BY <1>9, <1>10, <1>11, <2>3
<1> QED BY <1>15, <1>16, <1>17 DEF OrderKept, enabled, new

LEMMA SavedAgain ==
  ASSUME NEW ms, ModsTyped(ms)
  PROVE  SavedTyped(GetJSON(ms))
<1>1. \A m \in DOMAIN ms : ms[m] \in Mod BY DEF ModsTyped
<1> QED BY <1>1 DEF GetJSON, ModsTyped, SavedTyped, Mod, SavedMod

-----------------------------------------------------------------------------
(* The rows: whatever is done to them, they stay sequences of rows. *)

DragLists == [rows : Seq(Row), cutoff : Int, dragged : Seq(Nat), target : Int]

\* f goes from x, step by step, the way G says.
StepFunctions(X, n) == [1 .. n -> [X -> X]]
Runs(f, X, n, x, G) ==
  f \in [0 .. n -> X] /\ f[0] = x /\ \A k \in 1 .. n : f[k] = G[k][f[k - 1]]

LEMMA Recursion ==
  ASSUME NEW X, NEW n \in Nat, NEW x \in X, NEW G \in StepFunctions(X, n)
  PROVE  \E f : Runs(f, X, n, x, G)
<1> USE DEF StepFunctions, Runs
<1> DEFINE Up(f, m) == f \in [0 .. m -> X] /\ f[0] = x /\ \A k \in 1 .. m : f[k] = G[k][f[k - 1]]
           Q == {m \in Nat : m <= n => \E f : Up(f, m)}
<1>1. 0 \in Q
  <2>1. Up([k \in 0 .. 0 |-> x], 0) OBVIOUS
  <2> QED BY <2>1
<1>2. ASSUME NEW m \in Nat, m \in Q PROVE m + 1 \in Q
  <2> SUFFICES ASSUME m + 1 <= n PROVE \E f : Up(f, m + 1)
    OBVIOUS
  <2>1. PICK g : Up(g, m)
    <3> HIDE DEF Up
    <3> QED BY <1>2
  <2> DEFINE h == [k \in 0 .. m + 1 |-> IF k = m + 1 THEN G[m + 1][g[m]] ELSE g[k]]
  <2>2. m + 1 \in 1 .. n /\ m \in 0 .. m /\ g[m] \in X BY <2>1
  <2>3. G[m + 1][g[m]] \in X BY <2>2
  <2>4. h \in [0 .. m + 1 -> X] BY <2>1, <2>3
  <2>5. h[0] = x BY <2>1
  <2>6. ASSUME NEW k \in 1 .. m + 1 PROVE h[k] = G[k][h[k - 1]]
    <3>1. CASE k = m + 1 BY <3>1
    <3>2. CASE k # m + 1 BY <2>1, <3>2
    <3> QED BY <3>1, <3>2
  <2>7. Up(h, m + 1)
    <3> HIDE DEF h
    <3> QED BY <2>4, <2>5, <2>6
  <2> QED BY <2>7
<1>3. n \in Q
  <2> HIDE DEF Q
  <2> QED BY <1>1, <1>2, Induct
<1> QED BY <1>3

\* The last value of a function that is defined step by step.
LEMMA LastStep ==
  ASSUME NEW X, NEW n \in Nat, NEW f, f[0] \in X,
         \A k \in 1 .. n : f[k - 1] \in X => f[k] \in X
  PROVE  f[n] \in X
<1> DEFINE Q == {k \in Nat : k <= n => f[k] \in X}
<1>1. 0 \in Q OBVIOUS
<1>2. ASSUME NEW k \in Nat, k \in Q PROVE k + 1 \in Q
  <2> SUFFICES ASSUME k + 1 <= n PROVE f[k + 1] \in X
    OBVIOUS
  <2>1. k + 1 \in 1 .. n /\ (k + 1) - 1 = k /\ f[k] \in X BY <1>2
  <2> QED BY <2>1
<1>3. n \in Q
  <2> HIDE DEF Q
  <2> QED BY <1>1, <1>2, Induct
<1> QED BY <1>3

LEMMA KeptTyped ==
  ASSUME NEW s, Len(s) \in Nat, NEW S
  PROVE  Kept(s, S) \in Seq(S)
<1>0. PICK n \in Nat : n = Len(s) OBVIOUS
<1> DEFINE Body(f) == [k \in 0 .. n |->
                         IF k = 0 THEN <<>>
                         ELSE IF s[k] \in S THEN Append(f[k - 1], s[k]) ELSE f[k - 1]]
           G == [k \in 1 .. n |-> [x \in Seq(S) |-> IF s[k] \in S THEN Append(x, s[k]) ELSE x]]
           u == CHOOSE f : f = Body(f)
<1>1. G \in [1 .. n -> [Seq(S) -> Seq(S)]] BY AppendProperties
<1>2. <<>> \in Seq(S) BY EmptySeq
<1>3. PICK f \in [0 .. n -> Seq(S)] : f[0] = <<>> /\ \A k \in 1 .. n : f[k] = G[k][f[k - 1]]
  <2> HIDE DEF G
  <2>1. G \in StepFunctions(Seq(S), n) BY <1>1 DEF StepFunctions
  <2>2. \E f : Runs(f, Seq(S), n, <<>>, G) BY <1>2, <2>1, Recursion
  <2> QED BY <2>2 DEF Runs
<1>4. f = Body(f)
  <2>1. ASSUME NEW k \in 1 .. n
        PROVE  f[k] = IF s[k] \in S THEN Append(f[k - 1], s[k]) ELSE f[k - 1]
    <3>1. f[k - 1] \in Seq(S) BY <1>3
    <3> QED BY <1>3, <3>1
  <2>2. \A k \in 0 .. n : k # 0 => k \in 1 .. n OBVIOUS
  <2> QED BY <1>3, <2>1, <2>2
<1>5. u = Body(u)
  <2>1. \E g : g = Body(g) BY <1>4
  <2> HIDE DEF Body
  <2> QED BY <2>1
<1>6. u[n] \in Seq(S)
  <2> HIDE DEF u
  <2>1. u[0] \in Seq(S) BY <1>2, <1>5
  <2>2. ASSUME NEW k \in 1 .. n, u[k - 1] \in Seq(S) PROVE u[k] \in Seq(S)
    <3>1. k \in 0 .. n /\ k # 0 OBVIOUS
    <3>2. u[k] = IF s[k] \in S THEN Append(u[k - 1], s[k]) ELSE u[k - 1] BY <1>5, <3>1
    <3> QED BY <2>2, <3>2, AppendProperties
  <2> QED BY <2>1, <2>2, LastStep
<1>7. Kept(s, S) = u[n] BY <1>0 DEF Kept
<1> QED BY <1>6, <1>7

LEMMA KeptRows ==
  ASSUME NEW rows \in Seq(Row), NEW S, S \subseteq ToSet(rows)
  PROVE  Kept(rows, S) \in Seq(Row)
<1>1. Len(rows) \in Nat OBVIOUS
<1>2. S \subseteq Row BY DEF ToSet
<1>3. Kept(rows, S) \in Seq(S) BY <1>1, KeptTyped
<1> QED BY <1>2, <1>3, SeqMonotonic

LEMMA MinOfTwo ==
  ASSUME NEW a \in Int, NEW b \in Int
  PROVE  Min({a, b}) = IF a <= b THEN a ELSE b
BY DEF Min

LEMMA MoveItemTyped ==
  ASSUME NEW rows \in Seq(Row), NEW from \in Int, NEW to \in Int
  PROVE  MoveItem(rows, from, to).rows \in Seq(Row) /\ MoveItem(rows, from, to).at \in Int
<1>1. CASE from = to \/ from < 0 \/ from >= Len(rows)
  BY <1>1 DEF MoveItem
<1>2. CASE ~ (from = to \/ from < 0 \/ from >= Len(rows))
  <2> DEFINE item == rows[from + 1]
             without == RemoveAt(rows, from + 1)
             at == Min({IF from < to THEN to - 1 ELSE to, Len(without)})
  <2>1. /\ DOMAIN rows = 1 .. Len(rows) /\ Len(rows) \in Nat
        /\ \A i \in 1 .. Len(rows) : rows[i] \in Row
    OBVIOUS
  <2>2. item \in Row
    <3>1. from + 1 \in 1 .. Len(rows) BY <1>2, <2>1
    <3> QED BY <2>1, <3>1
  <2>3. without \in Seq(Row)
    <3>1. SubSeq(rows, 1, from) \in Seq(Row)
      <4>1. \A i \in 1 .. from : rows[i] \in Row BY <1>2, <2>1
      <4> QED BY <4>1, SubSeqProperties
    <3>2. SubSeq(rows, from + 2, Len(rows)) \in Seq(Row)
      <4>1. \A i \in from + 2 .. Len(rows) : rows[i] \in Row BY <1>2, <2>1
      <4> QED BY <2>1, <4>1, SubSeqProperties
    <3>3. (from + 1) - 1 = from /\ (from + 1) + 1 = from + 2 OBVIOUS
    <3>4. without = SubSeq(rows, 1, from) \o SubSeq(rows, from + 2, Len(rows))
      BY <3>3 DEF RemoveAt
    <3> QED BY <3>1, <3>2, <3>4, ConcatProperties
  <2> HIDE DEF without
  <2>4. Len(without) \in Nat BY <2>3
  <2>5. at \in Int /\ at <= Len(without)
    <3>1. PICK t \in Int : t = IF from < to THEN to - 1 ELSE to OBVIOUS
    <3>2. at = IF t <= Len(without) THEN t ELSE Len(without) BY <2>4, <3>1, MinOfTwo
    <3> HIDE DEF at
    <3> QED BY <2>4, <3>1, <3>2
  <2>6. MoveItem(rows, from, to) =
          IF at < 0 THEN [rows |-> without, at |-> None]
          ELSE [rows |-> InsertAt(without, at + 1, item), at |-> at]
    BY <1>2 DEF MoveItem, without
  <2> HIDE DEF at, item
  <2>7. CASE at < 0
    <3>1. MoveItem(rows, from, to) = [rows |-> without, at |-> None] BY <2>6, <2>7
    <3> QED BY <2>3, <3>1 DEF None
  <2>8. CASE ~ (at < 0)
    <3>1. SubSeq(without, 1, at) \in Seq(Row)
      <4>1. \A i \in 1 .. at : without[i] \in Row BY <2>3, <2>4, <2>5
      <4> QED BY <2>5, <4>1, SubSeqProperties
    <3>2. SubSeq(without, at + 1, Len(without)) \in Seq(Row)
      <4>1. \A i \in at + 1 .. Len(without) : without[i] \in Row BY <2>3, <2>4, <2>5, <2>8
      <4> QED BY <2>4, <2>5, <4>1, SubSeqProperties
    <3>3. <<item>> \in Seq(Row) BY <2>2
    <3>4. InsertAt(without, at + 1, item)
            = SubSeq(without, 1, at) \o <<item>> \o SubSeq(without, at + 1, Len(without))
      <4>1. (at + 1) - 1 = at BY <2>5
      <4> QED BY <4>1 DEF InsertAt
    <3>5. InsertAt(without, at + 1, item) \in Seq(Row)
      <4>1. PICK a, b, c \in Seq(Row) :
              /\ a = SubSeq(without, 1, at) /\ b = <<item>>
              /\ c = SubSeq(without, at + 1, Len(without))
        BY <3>1, <3>2, <3>3
      <4>2. InsertAt(without, at + 1, item) = a \o b \o c BY <3>4, <4>1
      <4>3. a \o b \in Seq(Row) BY <4>1, ConcatProperties
      <4>4. (a \o b) \o c \in Seq(Row) BY <4>1, <4>3, ConcatProperties
      <4> QED BY <4>2, <4>4
    <3>6. MoveItem(rows, from, to) = [rows |-> InsertAt(without, at + 1, item), at |-> at]
      BY <2>6, <2>8
    <3> QED BY <2>5, <3>5, <3>6
  <2> QED BY <2>7, <2>8
<1> QED BY <1>1, <1>2

LEMMA ReverseTyped ==
  ASSUME NEW S, NEW s \in Seq(S)
  PROVE  Reverse(s) \in Seq(S) /\ Len(Reverse(s)) = Len(s)
<1>1. Len(s) \in Nat /\ \A i \in 1 .. Len(s) : s[i] \in S OBVIOUS
<1>2. \A i \in 1 .. Len(s) : (Len(s) - i) + 1 \in 1 .. Len(s) BY <1>1
<1>3. Reverse(s) \in [1 .. Len(s) -> S] BY <1>1, <1>2 DEF Reverse
<1> QED BY <1>1, <1>3

MoveStep(order, down, to, x, k) ==
  [rows |-> MoveItem(x.rows, order[k], IF down THEN to - (k - 1) ELSE to + (k - 1)).rows,
   at |-> x.at \cup
          {MoveItem(x.rows, order[k], IF down THEN to - (k - 1) ELSE to + (k - 1)).at}]

LEMMA MoveItemsTyped ==
  ASSUME NEW rows \in Seq(Row), NEW from \in Seq(Nat), NEW to \in Int
  PROVE  MoveItems(rows, from, to).rows \in Seq(Row)
<1>1. CASE from = NoDrag \/ to < 0 \/ to > Len(rows)
  BY <1>1 DEF MoveItems
<1>2. CASE ~ (from = NoDrag \/ to < 0 \/ to > Len(rows))
  <2> DEFINE down == from[1] < to
             order == IF down THEN Reverse(from) ELSE from
             n == Len(order)
  <2>1. order \in Seq(Nat) BY ReverseTyped
  <2> HIDE DEF down, order
  <2>2. n \in Nat /\ \A k \in 1 .. n : order[k] \in Int BY <2>1
  <2> HIDE DEF n
  <2> DEFINE X == [rows : Seq(Row), at : SUBSET Int]
             x0 == [rows |-> rows, at |-> {}]
             Body(f) == [k \in 0 .. n |->
                           IF k = 0 THEN x0 ELSE MoveStep(order, down, to, f[k - 1], k)]
             G == [k \in 1 .. n |-> [x \in X |-> MoveStep(order, down, to, x, k)]]
             u == CHOOSE f : f = Body(f)
  <2>4. ASSUME NEW k \in 1 .. n, NEW x \in X
        PROVE  MoveStep(order, down, to, x, k) \in X
    <3> DEFINE t == IF down THEN to - (k - 1) ELSE to + (k - 1)
    <3>1. order[k] \in Int BY <2>2
    <3>2. t \in Int
      <4>1. k \in Int BY <2>2
      <4>2. to - (k - 1) \in Int /\ to + (k - 1) \in Int BY <4>1
      <4> QED BY <4>2
    <3>3. x.rows \in Seq(Row) /\ x.at \in SUBSET Int OBVIOUS
    <3>4. MoveItem(x.rows, order[k], t).rows \in Seq(Row) /\ MoveItem(x.rows, order[k], t).at \in Int
      BY <3>1, <3>2, <3>3, MoveItemTyped
    <3>5. MoveStep(order, down, to, x, k) =
            [rows |-> MoveItem(x.rows, order[k], t).rows,
             at |-> x.at \cup {MoveItem(x.rows, order[k], t).at}]
      BY DEF MoveStep
    <3> HIDE DEF t
    <3> QED BY <3>3, <3>4, <3>5
  <2>5. x0 \in X OBVIOUS
  <2>6. PICK f : Runs(f, X, n, x0, G)
    <3>1. G \in StepFunctions(X, n)
      <4> HIDE DEF X
      <4> QED BY <2>4 DEF StepFunctions
    <3> HIDE DEF X, x0, G
    <3> QED BY <2>2, <2>5, <3>1, Recursion
  <2> HIDE DEF X, x0
  <2>7. f = Body(f)
    <3>1. ASSUME NEW k \in 1 .. n PROVE f[k] = MoveStep(order, down, to, f[k - 1], k)
      <4>1. f[k - 1] \in X BY <2>2, <2>6 DEF Runs
      <4> QED BY <2>6, <4>1 DEF Runs
    <3>2. \A k \in 0 .. n : k # 0 => k \in 1 .. n OBVIOUS
    <3> QED BY <2>6, <3>1, <3>2 DEF Runs
  <2>8. u = Body(u)
    <3>1. \E g : g = Body(g) BY <2>7
    <3> HIDE DEF Body
    <3> QED BY <3>1
  <2>9. u[n] \in X
    <3> HIDE DEF u
    <3>1. u[0] \in X BY <2>2, <2>5, <2>8
    <3>2. ASSUME NEW k \in 1 .. n, u[k - 1] \in X PROVE u[k] \in X
      <4>1. k \in 0 .. n /\ k # 0 OBVIOUS
      <4>2. u[k] = MoveStep(order, down, to, u[k - 1], k) BY <2>8, <4>1
      <4> QED BY <2>4, <3>2, <4>2
    <3> QED BY <2>2, <3>1, <3>2, LastStep
  <2>10. MoveItems(rows, from, to) = u[n]
    BY <1>2 DEF MoveItems, MoveStep, x0, n, order, down
  <2> QED BY <2>9, <2>10 DEF X
<1> QED BY <1>1, <1>2

LEMMA AscendingTyped ==
  ASSUME NEW n \in Int, NEW S, S \subseteq 0 .. n
  PROVE  Ascending(S) \in Seq(Nat)
<1> DEFINE T == {0} \cup S
           s == [i \in 1 .. Max(T) + 1 |-> i - 1]
<1>1. IsFiniteSet(T)
  <2>1. PICK U : U = 0 .. n OBVIOUS
  <2>2. IsFiniteSet(U) BY <2>1, FS_Interval
  <2>3. S \in SUBSET U BY <2>1
  <2>4. IsFiniteSet(S) BY <2>2, <2>3, FS_Subset
  <2> QED BY <2>4, FS_Singleton, FS_Union
<1>2. T \subseteq Int /\ T \subseteq Nat /\ T # {} OBVIOUS
<1>3. Max(T) \in Nat
  <2> HIDE DEF T
  <2> QED BY <1>1, <1>2, MaxOfSet
<1>4. Len(s) \in Nat
  <2> HIDE DEF T
  <2>1. s \in [1 .. Max(T) + 1 -> Int] BY <1>3
  <2>2. Max(T) + 1 \in Nat BY <1>3
  <2>3. s \in Seq(Int) BY <2>1, <2>2
  <2> HIDE DEF s
  <2> QED BY <2>3, LenProperties
<1>5. Ascending(S) = Kept(s, S) BY DEF Ascending
<1>6. Kept(s, S) \in Seq(S)
  <2> HIDE DEF s
  <2> QED BY <1>4, KeptTyped
<1>7. S \subseteq Nat OBVIOUS
<1> QED BY <1>5, <1>6, <1>7, SeqMonotonic

LEMMA CheckedItemTyped ==
  ASSUME NEW l \in DragLists, NEW item \in Int, NEW checked \in BOOLEAN
  PROVE  ProcessCheckItem(l, item, checked) \in DragLists
<1>1. /\ l = [rows |-> l.rows, cutoff |-> l.cutoff, dragged |-> l.dragged, target |-> l.target]
      /\ l.rows \in Seq(Row) /\ l.cutoff \in Int
  BY DEF DragLists
<1>2. PICK rows \in Seq(Row) : rows = MoveItem(l.rows, item, l.cutoff).rows
  BY <1>1, MoveItemTyped
<1> DEFINE With(c) == [l EXCEPT !.rows = rows, !.cutoff = c]
<1>3. \A c \in Int : With(c) \in DragLists BY DEF DragLists
<1>4. l.cutoff + 1 \in Int /\ l.cutoff - 1 \in Int BY <1>1
<1>5. ProcessCheckItem(l, item, checked) \in {l, With(l.cutoff + 1), With(l.cutoff - 1)}
  BY <1>2 DEF ProcessCheckItem
<1> HIDE DEF With
<1> QED BY <1>3, <1>4, <1>5

LEMMA CheckedItemsTyped ==
  ASSUME NEW l \in DragLists, NEW n \in Int, NEW S, S \subseteq 0 .. n, NEW checked \in BOOLEAN
  PROVE  ProcessCheckItems(l, S, checked) \in DragLists
<1> DEFINE order == IF checked THEN Ascending(S) ELSE Reverse(Ascending(S))
           m == Len(order)
<1>1. order \in Seq(Nat) BY AscendingTyped, ReverseTyped
<1> HIDE DEF order
<1>2. m \in Nat /\ \A k \in 1 .. m : order[k] \in Int BY <1>1
<1> HIDE DEF m
<1> DEFINE Body(f) == [k \in 0 .. m |->
                         IF k = 0 THEN l ELSE ProcessCheckItem(f[k - 1], order[k], checked)]
           G == [k \in 1 .. m |-> [x \in DragLists |-> ProcessCheckItem(x, order[k], checked)]]
           u == CHOOSE f : f = Body(f)
<1>3. \A k \in 1 .. m, x \in DragLists : ProcessCheckItem(x, order[k], checked) \in DragLists
  BY <1>2, CheckedItemTyped
<1>4. PICK f : Runs(f, DragLists, m, l, G)
  <2>1. G \in StepFunctions(DragLists, m) BY <1>3 DEF StepFunctions
  <2> HIDE DEF G
  <2> QED BY <1>2, <2>1, Recursion
<1>5. f = Body(f)
  <2>1. ASSUME NEW k \in 1 .. m PROVE f[k] = ProcessCheckItem(f[k - 1], order[k], checked)
    <3>1. f[k - 1] \in DragLists BY <1>2, <1>4 DEF Runs
    <3> QED BY <1>4, <3>1 DEF Runs
  <2>2. \A k \in 0 .. m : k # 0 => k \in 1 .. m BY <1>2
  <2> QED BY <1>4, <2>1, <2>2 DEF Runs
<1>6. u = Body(u)
  <2>1. \E g : g = Body(g) BY <1>5
  <2> HIDE DEF Body
  <2> QED BY <2>1
<1>7. u[m] \in DragLists
  <2> HIDE DEF u
  <2>1. u[0] \in DragLists BY <1>2, <1>6
  <2>2. ASSUME NEW k \in 1 .. m, u[k - 1] \in DragLists PROVE u[k] \in DragLists
    <3>1. k \in 0 .. m /\ k # 0 BY <1>2
    <3>2. u[k] = ProcessCheckItem(u[k - 1], order[k], checked) BY <1>6, <3>1
    <3> QED BY <1>3, <2>2, <3>2
  <2> QED BY <1>2, <2>1, <2>2, LastStep
<1>8. ProcessCheckItems(l, S, checked) = u[m] BY DEF ProcessCheckItems, m, order
<1> QED BY <1>7, <1>8

\* Updates of one field of a row.
LEMMA RowFields ==
  ASSUME NEW r \in Row, NEW field \in {"checked", "ignored"}, NEW value \in BOOLEAN
  PROVE  [r EXCEPT ![field] = value] \in Row
<1>1. CASE field = "checked"
  <2>1. [r EXCEPT ![field] = value] = [r EXCEPT !["checked"] = value] BY <1>1
  <2>2. [r EXCEPT !["checked"] = value] = [r EXCEPT !.checked = value] OBVIOUS
  <2>3. [r EXCEPT !.checked = value] \in Row BY DEF Row
  <2> QED BY <2>1, <2>2, <2>3
<1>2. CASE field = "ignored"
  <2>1. [r EXCEPT ![field] = value] = [r EXCEPT !["ignored"] = value] BY <1>2
  <2>2. [r EXCEPT !["ignored"] = value] = [r EXCEPT !.ignored = value] OBVIOUS
  <2>3. [r EXCEPT !.ignored = value] \in Row BY DEF Row
  <2> QED BY <2>1, <2>2, <2>3
<1> QED BY <1>1, <1>2

LEMMA SetRowTyped ==
  ASSUME NEW l \in DragLists, NEW i \in Indices(l), NEW field \in {"checked", "ignored"},
         NEW value \in BOOLEAN
  PROVE  SetRow(l, i, field, value) \in DragLists
<1>1. l.rows \in Seq(Row) BY DEF DragLists
<1>2. i + 1 \in 1 .. Len(l.rows) /\ i + 1 \in DOMAIN l.rows BY <1>1 DEF Indices
<1>3. PICK r : r = [l.rows[i + 1] EXCEPT ![field] = value] OBVIOUS
<1>4. l.rows[i + 1] \in Row BY <1>1, <1>2
<1>5. r \in Row BY <1>3, <1>4, RowFields
<1>6. PICK rows : rows = [l.rows EXCEPT ![i + 1] = r] OBVIOUS
<1>7. rows \in Seq(Row) BY <1>1, <1>2, <1>5, <1>6, ExceptSeq
<1>8. SetRow(l, i, field, value) = [l EXCEPT !.rows = rows]
  BY <1>2, <1>3, <1>6 DEF SetRow, DragLists
<1> QED BY <1>7, <1>8 DEF DragLists

LEMMA SetRowsTyped ==
  ASSUME NEW l \in DragLists, NEW S, NEW field \in {"checked", "ignored"}, NEW value \in BOOLEAN
  PROVE  SetRows(l, S, field, value) \in DragLists
<1>1. l.rows \in Seq(Row) BY DEF DragLists
<1>2. PICK n \in Nat : n = Len(l.rows) /\ DOMAIN l.rows = 1 .. n
                       /\ \A i \in 1 .. n : l.rows[i] \in Row
  BY <1>1
<1>3. PICK other : other = [i \in 1 .. n |-> [l.rows[i] EXCEPT ![field] = value]] OBVIOUS
<1>4. \A i \in 1 .. n : other[i] \in Row BY <1>2, <1>3, RowFields
<1>5. PICK rows : rows = [i \in 1 .. n |-> IF i - 1 \in S THEN other[i] ELSE l.rows[i]] OBVIOUS
<1>6. rows \in Seq(Row)
  <2>1. rows \in [1 .. n -> Row] BY <1>2, <1>4, <1>5
  <2> QED BY <2>1
<1>7. SetRows(l, S, field, value) = [l EXCEPT !.rows = rows]
  BY <1>2, <1>3, <1>5 DEF SetRows
<1> QED BY <1>6, <1>7 DEF DragLists

\* The index of the row of a mod, and what a row makes of the entry of its mod.
RowIndex(rows, m) == SelectInSeq(rows, LAMBDA r : r.mod = m)
EntryOfRow(e, row, priority) ==
  [e EXCEPT !.enabled = row.checked, !.priority = IF row.checked THEN priority ELSE @,
            !.ignored = row.ignored]

LEMMA RowFound ==
  ASSUME NEW rows \in Seq(Row), NEW m
  PROVE  /\ RowIndex(rows, m) \in 0 .. Len(rows)
         /\ m \in RowMods(rows) => RowIndex(rows, m) # 0
<1> DEFINE at == {i \in 1 .. Len(rows) : rows[i].mod = m}
           i == RowIndex(rows, m)
<1>0. DOMAIN rows = 1 .. Len(rows) /\ Len(rows) \in Nat OBVIOUS
<1>1. i = IF at # {} THEN Min(at) ELSE 0 BY DEF RowIndex, SelectInSeq
<1>2. at # {} => Min(at) \in at
  <2> SUFFICES ASSUME at # {} PROVE Min(at) \in at
    OBVIOUS
  <2>1. at \subseteq Nat BY <1>0
  <2>2. \E x \in at : \A y \in at : x <= y
    <3> HIDE DEF at
    <3> QED BY <2>1, Least
  <2> QED BY <2>2 DEF Min
<1>3. m \in RowMods(rows) => at # {} BY <1>0 DEF RowMods
<1>4. at \subseteq 1 .. Len(rows) /\ 0 \notin at OBVIOUS
<1> HIDE DEF at, i
<1>5. i \in 0 .. Len(rows) /\ (m \in RowMods(rows) => i # 0)
  <2>1. CASE at # {}
    <3>1. i \in 1 .. Len(rows) BY <1>1, <1>2, <1>4, <2>1
    <3> QED BY <1>0, <3>1
  <2>2. CASE at = {} BY <1>0, <1>1, <1>3, <2>2
  <2> QED BY <2>1, <2>2
<1> QED BY <1>5 DEF i

LEMMA SplitTyped ==
  ASSUME NEW rows \in Seq(Row)
  PROVE  Split(rows) \in Seq(Row)
<1>1. On(rows) \subseteq ToSet(rows) /\ ToSet(rows) \ On(rows) \subseteq ToSet(rows) BY DEF On
<1>2. Kept(rows, On(rows)) \in Seq(Row) /\ Kept(rows, ToSet(rows) \ On(rows)) \in Seq(Row)
  BY <1>1, KeptRows
<1> QED BY <1>2, ConcatProperties DEF Split

LEMMA WithRowsTyped ==
  ASSUME NEW l \in DragLists, NEW rows \in Seq(Row)
  PROVE  WithRows(l, rows) \in DragLists
<1>1. CheckedIn(rows) \subseteq Mods
  <2>1. ToSet(rows) \subseteq Row BY DEF ToSet
  <2> QED BY <2>1 DEF CheckedIn, Row
<1>2. Cardinality(CheckedIn(rows)) \in Nat
  <2>1. CheckedIn(rows) \in SUBSET Mods BY <1>1
  <2>2. IsFiniteSet(CheckedIn(rows)) BY <2>1, ModOrderAssumption, FS_Subset
  <2> QED BY <2>2, FS_CardinalityType
<1>3. PICK c \in Int : c = Cardinality(CheckedIn(rows)) BY <1>2
<1>4. PICK s \in Seq(Row) : s = Split(rows) BY SplitTyped
<1>5. WithRows(l, rows) = [l EXCEPT !.rows = s, !.cutoff = c] BY <1>3, <1>4 DEF WithRows
<1> QED BY <1>5 DEF DragLists

LEMMA SortedLength ==
  ASSUME ModsTyped(mods), NEW p \in BOOLEAN
  PROVE  Len(SortedMods(DOMAIN mods, mods, p)) \in Nat
<1>1. DOMAIN mods \in SUBSET Mods BY DEF ModsTyped
<1>2. IsFiniteSet(DOMAIN mods) BY <1>1, ModOrderAssumption, FS_Subset
<1>3. PICK n \in Nat : n = Cardinality(DOMAIN mods) BY <1>2, FS_CardinalityType
<1>4. PICK s : s = SortedMods(DOMAIN mods, mods, p) OBVIOUS
<1>5. DOMAIN s = 1 .. n /\ s = [i \in 1 .. n |-> s[i]]
  <2> DEFINE before == [m \in DOMAIN mods |-> {k \in DOMAIN mods : CompareMods(mods, p, k, m)}]
             first(i) == CHOOSE m \in DOMAIN mods : Cardinality(before[m]) = i - 1
  <2>1. s = [i \in 1 .. Cardinality(DOMAIN mods) |-> first(i)] BY <1>4 DEF SortedMods
  <2> HIDE DEF first
  <2> QED BY <1>3, <2>1
<1> DEFINE X == {s[i] : i \in 1 .. n}
<1>6. s \in [1 .. n -> X] BY <1>5
<1>7. s \in Seq(X)
  <2> HIDE DEF X
  <2> QED BY <1>6
<1>8. Len(s) \in Nat
  <2> HIDE DEF X
  <2> QED BY <1>7, LenProperties
<1> QED BY <1>4, <1>8

LEMMA FilledTyped ==
  ASSUME ModsTyped(mods), NEW l \in DragLists, NEW c, NEW order, Len(order) \in Nat,
         NEW autoEnable \in BOOLEAN, NEW preserveChecks \in BOOLEAN
  PROVE  FillListCtrl(l, c, order, autoEnable, preserveChecks) \in DragLists
<1> DEFINE old == IF c = <<>> THEN l.rows ELSE c
           Checked(m) == IF preserveChecks THEN m \in CheckedIn(old)
                         ELSE mods[m].enabled \/ (autoEnable /\ mods[m].best > NoShader)
           Ignored(m) == IF preserveChecks THEN m \in IgnoredIn(old) ELSE mods[m].ignored
           listed == Kept(order, Shown)
           rows == [i \in DOMAIN listed |-> [mod |-> listed[i], checked |-> Checked(listed[i]),
                                             ignored |-> Ignored(listed[i])]]
<1>1. Shown \subseteq DOMAIN mods BY DEF Shown, Relevant
<1>2. listed \in Seq(Shown) BY KeptTyped
<1>3. \A m \in Shown : [mod |-> m, checked |-> Checked(m), ignored |-> Ignored(m)] \in Row
  <2> SUFFICES ASSUME NEW m \in Shown
               PROVE  /\ m \in Mods /\ Checked(m) \in BOOLEAN /\ Ignored(m) \in BOOLEAN
    BY DEF Row
  <2>1. mods[m] \in Mod /\ m \in Mods BY <1>1 DEF ModsTyped
  <2>2. mods[m].enabled \in BOOLEAN /\ mods[m].ignored \in BOOLEAN BY <2>1 DEF Mod
  <2> HIDE DEF old
  <2>3. Checked(m) \in BOOLEAN
    <3>1. CASE preserveChecks 
      <4>1. Checked(m) = (m \in CheckedIn(old)) BY <3>1, Zenon
      <4>2. (m \in CheckedIn(old)) \in BOOLEAN OBVIOUS
      <4> QED BY <4>1, <4>2, Zenon
    <3>2. CASE ~ preserveChecks BY <3>2, Zenon
    <3> QED BY <3>1, <3>2
  <2>4. Ignored(m) \in BOOLEAN
    <3>1. CASE preserveChecks 
      <4>1. Ignored(m) = (m \in IgnoredIn(old)) BY <3>1, Zenon
      <4>2. (m \in IgnoredIn(old)) \in BOOLEAN OBVIOUS
      <4> QED BY <4>1, <4>2, Zenon
    <3>2. CASE ~ preserveChecks BY <2>2, <3>2, Zenon
    <3> QED BY <3>1, <3>2
  <2> QED BY <2>1, <2>3, <2>4
<1>4. rows \in Seq(Row)
  <2> HIDE DEF listed, Checked, Ignored
  <2>1. PICK n \in Nat : DOMAIN listed = 1 .. n /\ \A i \in 1 .. n : listed[i] \in Shown
    BY <1>2
  <2>2. rows \in [1 .. n -> Row] BY <1>3, <2>1
  <2> HIDE DEF rows
  <2> QED BY <2>2
<1>5. FillListCtrl(l, c, order, autoEnable, preserveChecks) = WithRows(l, rows)
  BY DEF FillListCtrl
<1> HIDE DEF rows
<1> QED BY <1>4, <1>5, WithRowsTyped

LEMMA RelockedTyped ==
  ASSUME ModsTyped(mods), NEW l \in DragLists, NEW c
  PROVE  Relocked(l, c) \in DragLists
<1>1. Len(GetModsByDefaultOrder(mods)) \in Nat BY SortedLength DEF GetModsByDefaultOrder
<1> QED BY <1>1, FilledTyped DEF Relocked

LEMMA SyncTyped ==
  ASSUME NEW l \in DragLists, NEW c \in Seq(Row)
  PROVE  Sync(l, c) \in Seq(Row)
<1> DEFINE merged == [i \in DOMAIN c |-> IF c[i].mod \in RowMods(l.rows)
                                        THEN l.rows[RowIndex(l.rows, c[i].mod)] ELSE c[i]]
<1>1. PICK rows \in Seq(Row) : rows = l.rows BY DEF DragLists
<1>2. PICK n \in Nat : DOMAIN c = 1 .. n /\ \A i \in 1 .. n : c[i] \in Row OBVIOUS
<1>3. ASSUME NEW m \in RowMods(rows) PROVE rows[RowIndex(rows, m)] \in Row
  <2>1. RowIndex(rows, m) \in 0 .. Len(rows) /\ RowIndex(rows, m) # 0 BY RowFound
  <2>2. RowIndex(rows, m) \in 1 .. Len(rows) BY <2>1
  <2> QED BY <2>2, ElementOfSeq
<1>4. merged \in Seq(Row)
  <2>1. merged \in [1 .. n -> Row] BY <1>1, <1>2, <1>3
  <2> HIDE DEF merged
  <2> QED BY <2>1
<1>5. Sync(l, c) = IF c = <<>> \/ Len(l.rows) = Len(c) THEN l.rows ELSE merged
  BY DEF Sync, RowIndex
<1> HIDE DEF merged
<1> QED BY <1>1, <1>4, <1>5

LEMMA RebuiltTyped ==
  ASSUME NEW l \in DragLists, NEW c \in Seq(Row), NEW term \in BOOLEAN
  PROVE  Rebuild(l, c, term) \in DragLists
<1>1. {r \in ToSet(c) : r.mod \in Found} \subseteq ToSet(c) OBVIOUS
<1>2. Kept(c, {r \in ToSet(c) : r.mod \in Found}) \in Seq(Row) BY <1>1, KeptRows
<1> QED BY <1>2, WithRowsTyped DEF Rebuild

LEMMA ReorderedTyped ==
  ASSUME NEW c \in Seq(Row), NEW selected, NEW toTop \in BOOLEAN
  PROVE  ReorderFiltered(c, selected, toTop) \in Seq(Row)
<1> DEFINE moved == {r \in On(c) : r.mod \in selected}
<1>1. /\ moved \subseteq ToSet(c) /\ On(c) \ moved \subseteq ToSet(c)
      /\ ToSet(c) \ On(c) \subseteq ToSet(c)
  BY DEF On
<1>2. PICK a, b, d \in Seq(Row) : /\ a = Kept(c, moved) /\ b = Kept(c, On(c) \ moved)
                                  /\ d = Kept(c, ToSet(c) \ On(c))
  <2> HIDE DEF moved
  <2> QED BY <1>1, KeptRows
<1>3. ReorderFiltered(c, selected, toTop) = (IF toTop THEN a \o b ELSE b \o a) \o d
  BY <1>2 DEF ReorderFiltered
<1>4. a \o b \in Seq(Row) /\ b \o a \in Seq(Row) BY ConcatProperties
<1>5. PICK e \in Seq(Row) : e = IF toTop THEN a \o b ELSE b \o a BY <1>4
<1> QED BY <1>3, <1>5, ConcatProperties

LEMMA RowEntry ==
  ASSUME NEW e \in Mod, NEW row \in Row, NEW p \in Int
  PROVE  EntryOfRow(e, row, p) \in Mod
<1>1. PICK e1 : e1 = [e EXCEPT !.enabled = row.checked] OBVIOUS
<1>2. e1 \in Mod /\ e1.priority = e.priority /\ e.priority \in Int BY <1>1 DEF Mod, Row
<1>3. PICK q : q = IF row.checked THEN p ELSE e.priority OBVIOUS
<1>4. q \in Int BY <1>2, <1>3
<1>5. PICK e2 : e2 = [e1 EXCEPT !.priority = q] OBVIOUS
<1>6. e2 \in Mod BY <1>2, <1>4, <1>5 DEF Mod
<1>7. EntryOfRow(e, row, p) = [e2 EXCEPT !.ignored = row.ignored]
  BY <1>1, <1>3, <1>5 DEF EntryOfRow
<1>8. row.ignored \in BOOLEAN BY DEF Row
<1> QED BY <1>6, <1>7, <1>8 DEF Mod

LEMMA WrittenTyped ==
  ASSUME NEW ms, ModsTyped(ms), NEW c \in Seq(Row)
  PROVE  ModsTyped(Written(ms, c))
<1> DEFINE s == Split(c)
<1>1. s \in Seq(Row) BY SplitTyped
<1>2. Len(c) \in Nat OBVIOUS
<1>3. PICK w : w = Written(ms, c) OBVIOUS
<1>4. Written(ms, c) = [m \in DOMAIN ms |->
             IF RowIndex(s, m) = 0 THEN ms[m]
             ELSE EntryOfRow(ms[m], s[RowIndex(s, m)], Len(c) + 1 - RowIndex(s, m))]
  BY DEF Written, RowIndex, EntryOfRow
<1> HIDE DEF s
<1>5. DOMAIN w = DOMAIN ms BY <1>3, <1>4
<1>6. ASSUME NEW m \in DOMAIN ms PROVE w[m] \in Mod
  <2>1. RowIndex(s, m) \in 0 .. Len(s) BY <1>1, RowFound
  <2>2. ms[m] \in Mod BY DEF ModsTyped
  <2>3. CASE RowIndex(s, m) = 0 BY <1>3, <1>4, <2>2, <2>3
  <2>4. CASE RowIndex(s, m) # 0
    <3>1. RowIndex(s, m) \in 1 .. Len(s) BY <2>1, <2>4
    <3>2. s[RowIndex(s, m)] \in Row BY <1>1, <3>1, ElementOfSeq
    <3>3. Len(c) + 1 - RowIndex(s, m) \in Int BY <1>2, <3>1
    <3>4. w[m] = EntryOfRow(ms[m], s[RowIndex(s, m)], Len(c) + 1 - RowIndex(s, m))
      BY <1>3, <1>4, <2>4
    <3> QED BY <2>2, <3>2, <3>3, <3>4, RowEntry
  <2> QED BY <2>3, <2>4
<1> QED BY <1>3, <1>5, <1>6 DEF ModsTyped

\* The mouse and the context menu.
LEMMA ListFields ==
  ASSUME NEW l \in DragLists
  PROVE  /\ l.rows \in Seq(Row) /\ l.cutoff \in Int /\ l.dragged \in Seq(Nat) /\ l.target \in Int
         /\ Len(l.rows) \in Nat
         /\ \A s \in Seq(Row) : [l EXCEPT !.rows = s] \in DragLists
         /\ \A s \in Seq(Nat) : [l EXCEPT !.dragged = s] \in DragLists
         /\ \A t \in Int : [l EXCEPT !.target = t] \in DragLists
<1>1. l.rows \in Seq(Row) /\ l.cutoff \in Int /\ l.dragged \in Seq(Nat) /\ l.target \in Int
  BY DEF DragLists
<1>2. Len(l.rows) \in Nat
  <2>1. l.rows \in Seq(Row) BY <1>1
  <2> QED BY <2>1, LenProperties
<1>3. \A s \in Seq(Row) : [l EXCEPT !.rows = s] \in DragLists BY DEF DragLists
<1>4. \A s \in Seq(Nat) : [l EXCEPT !.dragged = s] \in DragLists BY DEF DragLists
<1>5. \A t \in Int : [l EXCEPT !.target = t] \in DragLists BY DEF DragLists
<1> QED BY <1>1, <1>2, <1>3, <1>4, <1>5

LEMMA PressedTyped ==
  ASSUME NEW l \in DragLists
  PROVE  /\ \A i \in Indices(l) : PressCheckbox(l, i) \in DragLists
         /\ \A i, S, b : S \subseteq 0 .. l.cutoff - 1 => PressRow(l, i, S, b) \in DragLists
<1>1. ASSUME NEW i \in Indices(l) PROVE PressCheckbox(l, i) \in DragLists
  <2>1. l.rows \in Seq(Row) /\ Len(l.rows) \in Nat BY ListFields
  <2>2. i \in Int /\ i + 1 \in 1 .. Len(l.rows) BY <2>1 DEF Indices
  <2>3. RowAt(l, i) \in Row BY <2>1, <2>2, ElementOfSeq DEF RowAt
  <2>4. PICK checked \in BOOLEAN : checked = ~ RowAt(l, i).checked BY <2>3 DEF Row
  <2>5. SetRow(l, i, "checked", checked) \in DragLists BY SetRowTyped
  <2>6. ProcessCheckItem(SetRow(l, i, "checked", checked), i, checked) \in DragLists
    BY <2>2, <2>5, CheckedItemTyped
  <2> QED BY <2>4, <2>6 DEF PressCheckbox
<1>2. ASSUME NEW i, NEW S, NEW b, S \subseteq 0 .. l.cutoff - 1
      PROVE  PressRow(l, i, S, b) \in DragLists
  <2>1. l.cutoff - 1 \in Int BY ListFields
  <2>2. {k \in S : k < l.cutoff} \subseteq 0 .. l.cutoff - 1 BY <1>2
  <2>3. Ascending({k \in S : k < l.cutoff}) \in Seq(Nat) BY <2>1, <2>2, AscendingTyped
  <2>4. [l EXCEPT !.dragged = Ascending({k \in S : k < l.cutoff})] \in DragLists BY <2>3, ListFields
  <2> QED BY <2>4 DEF PressRow
<1> QED BY <1>1, <1>2

LEMMA ReleasedTyped ==
  ASSUME NEW l \in DragLists
  PROVE  /\ \A line \in Int : Motion(l, line) \in DragLists
         /\ Release(l) \in DragLists
<1>1. ASSUME NEW line \in Int PROVE Motion(l, line) \in DragLists
  <2>1. PICK t : t = IF line > l.cutoff THEN l.cutoff ELSE line OBVIOUS
  <2>2. t \in Int BY <2>1, ListFields
  <2>3. Motion(l, line) \in {l, [l EXCEPT !.target = t]} BY <2>1 DEF Motion
  <2> QED BY <2>2, <2>3, ListFields
<1>2. Release(l) \in DragLists
  <2>1. DropLine(l) \in Int BY ListFields DEF DropLine
  <2>2. Dropped(l).rows \in Seq(Row) BY <2>1, ListFields, MoveItemsTyped DEF Dropped
  <2>3. PICK s \in Seq(Row) : s = Dropped(l).rows BY <2>2
  <2>4. PICK l1 : l1 = [l EXCEPT !.rows = s] OBVIOUS
  <2>5. l1 \in DragLists BY <2>4, ListFields
  <2>6. NoDrag \in Seq(Nat) BY EmptySeq DEF NoDrag
  <2>7. PICK l2 : l2 = [l1 EXCEPT !.dragged = NoDrag] OBVIOUS
  <2>8. l2 \in DragLists BY <2>5, <2>6, <2>7, ListFields
  <2>9. [l2 EXCEPT !.target = None] \in DragLists
    <3>1. None \in Int BY DEF None
    <3> QED BY <2>8, <3>1, ListFields
  <2>10. Release(l) \in {l, [l2 EXCEPT !.target = None]} BY <2>3, <2>4, <2>7 DEF Release
  <2> QED BY <2>9, <2>10
<1> QED BY <1>1, <1>2

LEMMA SelectedTyped ==
  ASSUME NEW l \in DragLists, NEW S, S \subseteq Indices(l), NEW b \in BOOLEAN
  PROVE  /\ [l EXCEPT !.rows = (IF b THEN MovedTop(l, S) ELSE MovedBottom(l, S)).rows] \in DragLists
         /\ CheckSelected(l, S, b) \in DragLists
         /\ IgnoreSelected(l, S, b) \in DragLists
<1>1. PICK n \in Int : n = Len(l.rows) - 1 /\ S \subseteq 0 .. n BY ListFields DEF Indices
<1>2. Ascending(S) \in Seq(Nat) BY <1>1, AscendingTyped
<1>3. MovedTop(l, S).rows \in Seq(Row) BY <1>2, ListFields, MoveItemsTyped DEF MovedTop
<1>4. MovedBottom(l, S).rows \in Seq(Row) BY <1>2, ListFields, MoveItemsTyped DEF MovedBottom
<1>5. PICK s \in Seq(Row) : s = (IF b THEN MovedTop(l, S) ELSE MovedBottom(l, S)).rows
  BY <1>3, <1>4
<1>6. [l EXCEPT !.rows = (IF b THEN MovedTop(l, S) ELSE MovedBottom(l, S)).rows] \in DragLists
  BY <1>5, ListFields
<1>7. SetRows(l, S, "checked", b) \in DragLists /\ SetRows(l, S, "ignored", b) \in DragLists
  BY SetRowsTyped
<1>8. CheckSelected(l, S, b) \in DragLists BY <1>1, <1>7, CheckedItemsTyped DEF CheckSelected
<1> QED BY <1>6, <1>7, <1>8 DEF IgnoreSelected

-----------------------------------------------------------------------------
(* The steps of the dialog keep the types OrderSurvives rests on. *)

RowsInv ==
  /\ SavedTyped(saved) /\ ModsTyped(mods)
  /\ list \in DragLists /\ cache \in Seq(Row)
  /\ looseOrder \in BOOLEAN /\ search \in BOOLEAN /\ box \in BOOLEAN

LEMMA NothingTyped ==
  /\ SavedTyped(<<>>) /\ ModsTyped(<<>>)
  /\ EmptyList \in DragLists /\ <<>> \in Seq(Row)
<1>1. DOMAIN <<>> = {} OBVIOUS
<1>2. SavedTyped(<<>>) /\ ModsTyped(<<>>) BY <1>1 DEF SavedTyped, ModsTyped
<1>3. <<>> \in Seq(Row) /\ <<>> \in Seq(Nat) BY EmptySeq
<1>4. EmptyList \in DragLists BY <1>3 DEF EmptyList, DragLists, NoDrag, None
<1> QED BY <1>2, <1>3, <1>4

LEMMA InitRows == Init => RowsInv
BY NothingTyped DEF Init, RowsInv

LEMMA GoLiveTyped ==
  ASSUME RowsInv, NEW l \in DragLists, NEW c \in Seq(Row), GoLive(l, c)
  PROVE  RowsInv'
<1>1. Sync(l, c) \in Seq(Row) BY SyncTyped
<1>2. ModsTyped(Written(mods, Sync(l, c))) BY <1>1, WrittenTyped DEF RowsInv
<1>3. /\ list' = l /\ cache' = Sync(l, c) /\ mods' = Written(mods, Sync(l, c))
      /\ saved' = saved /\ looseOrder' = looseOrder /\ search' = search /\ box' = box
  BY DEF GoLive, env
<1> QED BY <1>1, <1>2, <1>3 DEF RowsInv

LEMMA RelockedRebuilt ==
  ASSUME RowsInv, NEW l \in DragLists
  PROVE  LET c == Relocked(l, Sync(l, cache)).rows
         IN  c \in Seq(Row) /\ Rebuild(l, c, search) \in DragLists /\ Sync(l, cache) \in Seq(Row)
<1>1. Relocked(l, Sync(l, cache)) \in DragLists BY RelockedTyped DEF RowsInv
<1>2. Relocked(l, Sync(l, cache)).rows \in Seq(Row) BY <1>1, ListFields
<1>3. Sync(l, cache) \in Seq(Row) BY SyncTyped DEF RowsInv
<1> QED BY <1>2, <1>3, RebuiltTyped DEF RowsInv

LEMMA EventRows ==
  ASSUME RowsInv, Event
  PROVE  RowsInv'
<1> USE DEF RowsInv
<1>1. ASSUME NEW i \in Indices(list), ClickCheckbox(i) PROVE RowsInv'
  <2> DEFINE l == PressCheckbox(list, i)
             c == Relocked(l, Sync(l, cache)).rows
  <2>1. l \in DragLists BY PressedTyped
  <2> HIDE DEF l
  <2>2. c \in Seq(Row) /\ Rebuild(l, c, search) \in DragLists /\ Sync(l, cache) \in Seq(Row)
    BY <2>1, RelockedRebuilt
  <2>3. GoLive(Rebuild(l, c, search), c) \/ GoLive(l, Sync(l, cache))
    BY <1>1 DEF ClickCheckbox, l
  <2> HIDE DEF c, RowsInv
  <2> QED BY <2>1, <2>2, <2>3, GoLiveTyped
<1>2. ASSUME NEW i \in Indices(list), NEW S \in SUBSET (0 .. list.cutoff - 1), ClickRow(i, S)
      PROVE  RowsInv'
  <2>1. list' \in DragLists BY <1>2, PressedTyped DEF ClickRow
  <2> QED BY <1>2, <2>1 DEF ClickRow, env
<1>3. ASSUME NEW S \in Selections, NEW b \in BOOLEAN, MoveSelected(S, b) PROVE RowsInv'
  <2> DEFINE moved == IF b THEN MovedTop(list, S) ELSE MovedBottom(list, S)
             l == [list EXCEPT !.rows = moved.rows]
             c == ReorderFiltered(Sync(l, cache), ModsAt(l.rows, moved.at), b)
  <2>1. l \in DragLists BY SelectedTyped DEF Selections
  <2> HIDE DEF l, moved
  <2>2. Sync(l, cache) \in Seq(Row) BY <2>1, SyncTyped
  <2>3. c \in Seq(Row) BY <2>2, ReorderedTyped
  <2> HIDE DEF c
  <2>4. Rebuild(l, c, TRUE) \in DragLists BY <2>1, <2>3, RebuiltTyped
  <2>5. GoLive(Rebuild(l, c, TRUE), c) \/ GoLive(l, cache)
    BY <1>3 DEF MoveSelected, l, moved, c
  <2>6. cache \in Seq(Row) OBVIOUS
  <2> HIDE DEF RowsInv
  <2> QED BY <2>1, <2>3, <2>4, <2>5, <2>6, GoLiveTyped
<1>4. ASSUME NEW S \in Selections, NEW b \in BOOLEAN, EnableSelected(S, b) PROVE RowsInv'
  <2> DEFINE l == CheckSelected(list, S, b)
             c == Relocked(l, Sync(l, cache)).rows
  <2>1. l \in DragLists BY SelectedTyped DEF Selections
  <2> HIDE DEF l
  <2>2. c \in Seq(Row) /\ Rebuild(l, c, search) \in DragLists /\ Sync(l, cache) \in Seq(Row)
    BY <2>1, RelockedRebuilt
  <2>3. GoLive(Rebuild(l, c, search), c) \/ GoLive(l, Sync(l, cache))
    BY <1>4 DEF EnableSelected, l
  <2> HIDE DEF c, RowsInv
  <2> QED BY <2>1, <2>2, <2>3, GoLiveTyped
<1>5. ASSUME NEW S \in Selections, NEW b \in BOOLEAN, IgnoreMeshes(S, b) PROVE RowsInv'
  <2>1. IgnoreSelected(list, S, b) \in DragLists BY SelectedTyped DEF Selections
  <2>2. GoLive(IgnoreSelected(list, S, b), cache) BY <1>5 DEF IgnoreMeshes
  <2>3. cache \in Seq(Row) OBVIOUS
  <2> HIDE DEF RowsInv
  <2> QED BY <2>1, <2>2, <2>3, GoLiveTyped
<1>6. CASE SearchTextChanged
  <2>1. search' \in BOOLEAN /\ list' = Rebuild(list, cache, search') BY <1>6 DEF SearchTextChanged
  <2>2. list' \in DragLists BY <2>1, RebuiltTyped
  <2> QED BY <1>6, <2>1, <2>2 DEF SearchTextChanged, env
<1>7. CASE UseMO2LooseFileOrderChange
  <2> DEFINE synced == Sync(list, cache)
             c == IF box' THEN Relocked(list, synced).rows ELSE IF search THEN synced ELSE list.rows
  <2>1. synced \in Seq(Row) BY SyncTyped
  <2>2. Relocked(list, synced).rows \in Seq(Row) BY RelockedTyped, ListFields
  <2>3. c \in Seq(Row)
    <3> HIDE DEF synced
    <3> QED BY <2>1, <2>2, ListFields
  <2>4. list' = Rebuild(list, c, search) /\ cache' = Sync(list', c) /\ box' \in BOOLEAN
    BY <1>7 DEF UseMO2LooseFileOrderChange
  <2> HIDE DEF c
  <2>5. list' \in DragLists BY <2>3, <2>4, RebuiltTyped
  <2>6. cache' \in Seq(Row) BY <2>3, <2>4, <2>5, SyncTyped
  <2> QED BY <1>7, <2>4, <2>5, <2>6 DEF UseMO2LooseFileOrderChange, env
<1>8. ASSUME NEW order, Len(order) \in Nat, NEW auto \in BOOLEAN, Refill(order, auto)
      PROVE  list' \in DragLists /\ cache' \in Seq(Row)
  <2>1. PICK l \in DragLists : l = FillListCtrl(list, cache, order, auto, FALSE)
    BY <1>8, FilledTyped
  <2>2. list' = Rebuild(list, l.rows, search) /\ cache' = l.rows BY <1>8, <2>1 DEF Refill
  <2>3. l.rows \in Seq(Row) BY ListFields
  <2> QED BY <2>2, <2>3, RebuiltTyped
<1>9. Len(GetModsByDefaultOrder(mods)) \in Nat /\ Len(GetModsByPriority(mods)) \in Nat
  BY SortedLength DEF GetModsByDefaultOrder, GetModsByPriority
<1>10. CASE RestoreDefault
  <2>1. list' \in DragLists /\ cache' \in Seq(Row) BY <1>8, <1>9, <1>10 DEF RestoreDefault
  <2> QED BY <1>10, <2>1 DEF RestoreDefault, env
<1>11. CASE DiscardChanges
  <2>1. PICK order : Len(order) \in Nat /\ Refill(order, FALSE)
    BY <1>9, <1>11 DEF DiscardChanges
  <2>2. list' \in DragLists /\ cache' \in Seq(Row) BY <1>8, <2>1
  <2>3. box' \in BOOLEAN BY <1>11 DEF DiscardChanges
  <2> QED BY <1>11, <2>2, <2>3 DEF DiscardChanges, env
<1>12. CASE Apply
  <2>1. Sync(list, cache) \in Seq(Row) BY SyncTyped
  <2>2. ModsTyped(Written(mods, Sync(list, cache))) BY <2>1, WrittenTyped
  <2>3. mods' = Written(mods, Sync(list, cache)) /\ saved' = GetJSON(mods') /\ looseOrder' = box
    BY <1>12 DEF Apply, UpdateMods
  <2>4. ModsTyped(mods') BY <2>2, <2>3
  <2>5. SavedTyped(saved') BY <2>3, <2>4, SavedAgain
  <2> QED BY <1>12, <2>1, <2>3, <2>4, <2>5 DEF Apply
<1> HIDE DEF RowsInv
<1> QED BY <1>1, <1>2, <1>3, <1>4, <1>5, <1>6, <1>7, <1>10, <1>11, <1>12 DEF Event

LEMMA EndRows ==
  ASSUME RowsInv, EndOfEvent
  PROVE  RowsInv'
<1> USE DEF RowsInv
<1>1. \A line \in Lines \cup {Still} : Moved(line) \in DragLists
  <2> SUFFICES ASSUME NEW line \in Lines \cup {Still} PROVE Moved(line) \in DragLists
    OBVIOUS
  <2>1. Len(list.rows) \in Nat BY ListFields
  <2>2. line \in Int BY <2>1 DEF Lines, Indices, None, Still
  <2>3. Motion(list, line) \in DragLists BY <2>2, ReleasedTyped
  <2> QED BY <2>3 DEF Moved
<1>2. ASSUME NEW line \in Lines \cup {Still}, NEW others, MouseUp(line, others)
      PROVE  RowsInv'
  <2> DEFINE before == Moved(line)
             l == Release(before)
             selected == ModsAt(l.rows, Dropped(before).at) \cup others
             c == ReorderFiltered(Sync(l, cache), selected, DropLine(before) = 0)
  <2>1. before \in DragLists BY <1>1
  <2>2. \/ /\ list' = before
           /\ UNCHANGED <<mods, cache, apply, search, box, env, stray>>
        \/ GoLive(Rebuild(l, c, TRUE), c)
        \/ GoLive(l, cache)
    BY <1>2 DEF MouseUp
  <2> HIDE DEF before
  <2>3. l \in DragLists BY <2>1, ReleasedTyped
  <2> HIDE DEF l
  <2>4. Sync(l, cache) \in Seq(Row) BY <2>3, SyncTyped
  <2>5. (DropLine(before) = 0) \in BOOLEAN OBVIOUS
  <2>6. c \in Seq(Row)
    <3> HIDE DEF selected
    <3> QED BY <2>4, <2>5, ReorderedTyped
  <2> HIDE DEF c
  <2>7. Rebuild(l, c, TRUE) \in DragLists BY <2>3, <2>6, RebuiltTyped
  <2>8. CASE list' = before /\ UNCHANGED <<mods, cache, apply, search, box, env, stray>>
    BY <2>1, <2>8 DEF env
  <2>9. cache \in Seq(Row) OBVIOUS
  <2> HIDE DEF RowsInv
  <2> QED BY <2>2, <2>3, <2>6, <2>7, <2>8, <2>9, GoLiveTyped
<1>3. ASSUME NEW line \in {0, Still}, MouseUpOutside(line) PROVE RowsInv'
  <2>1. line \in Int BY DEF Still
  <2>2. Moved(line) \in DragLists BY <2>1, ReleasedTyped DEF Moved
  <2> QED BY <1>3, <2>2 DEF MouseUpOutside, env
<1>4. ASSUME UpdateMods PROVE SavedTyped(saved') /\ ModsTyped(mods') /\ looseOrder' \in BOOLEAN
  <2>1. Sync(list, cache) \in Seq(Row) BY SyncTyped
  <2>2. ModsTyped(Written(mods, Sync(list, cache))) BY <2>1, WrittenTyped
  <2>3. mods' = Written(mods, Sync(list, cache)) /\ saved' = GetJSON(mods') /\ looseOrder' = box
    BY <1>4 DEF UpdateMods
  <2>4. ModsTyped(mods') BY <2>2, <2>3
  <2> QED BY <2>3, <2>4, SavedAgain
<1>5. ASSUME NEW result, EndModal(result)
      PROVE  list' \in DragLists /\ cache' \in Seq(Row) /\ search' \in BOOLEAN /\ box' \in BOOLEAN
  BY <1>5, NothingTyped DEF EndModal
<1>6. CASE Okay BY <1>4, <1>5, <1>6 DEF Okay
<1>7. CASE RerunPatching BY <1>4, <1>5, <1>7 DEF RerunPatching
<1>8. CASE Close BY <1>5, <1>8 DEF Close
<1>9. CASE UpdateModsFails
  <2>1. SavedTyped(GetJSON(Written(mods, Sync(list, cache))))
    BY SyncTyped, WrittenTyped, SavedAgain
  <2>2. mods' = <<>> /\ looseOrder' = looseOrder /\ EndModal("off")
        /\ saved' \in {saved, GetJSON(Written(mods, Sync(list, cache)))}
    BY <1>9 DEF UpdateModsFails
  <2>3. SavedTyped(saved') BY <2>1, <2>2
  <2> QED BY <1>5, <2>2, <2>3, NothingTyped
<1> HIDE DEF RowsInv
<1> QED BY <1>2, <1>3, <1>6, <1>7, <1>8, <1>9 DEF EndOfEvent

LEMMA PrepRows ==
  ASSUME RowsInv, MainRunnerPrep
  PROVE  RowsInv' /\ (~ looseOrder => OrderKept(saved, mods'))
<1>1. PICK ml \in Modlists :
        mods' = UpdateStateFromModlist(MapFiles(Populate(LoadJSON(saved), ml), ml), looseOrder)
  BY DEF MainRunnerPrep
<1>2. ml \in Seq(Mods) BY ModlistsAssumption
<1>3. SavedTyped(saved) /\ looseOrder \in BOOLEAN BY DEF RowsInv
<1>4. ModsTyped(mods') /\ (~ looseOrder => OrderKept(saved, mods')) BY <1>1, <1>2, <1>3, Prepared
<1>5. SavedTyped(saved') BY <1>4, SavedAgain DEF MainRunnerPrep
<1> QED BY <1>4, <1>5 DEF MainRunnerPrep, dialog, RowsInv

LEMMA ProgramRows ==
  ASSUME RowsInv, Program
  PROVE  RowsInv'
<1>1. CASE MainRunnerPrep BY <1>1, PrepRows
<1>2. CASE MainRunnerPatch BY <1>2 DEF MainRunnerPatch, dialog, RowsInv
<1>3. CASE Exit BY <1>3, NothingTyped DEF Exit, dialog, RowsInv
<1>4. CASE OpenDialog
  <2> DEFINE first == FillListCtrl(EmptyList, <<>>, GetModsByPriority(mods), FALSE, FALSE)
             locked == Manager = "mo2" /\ looseOrder
             filled == IF locked THEN Relocked(first, first.rows) ELSE first
  <2>1. ModsTyped(mods) BY DEF RowsInv
  <2>2. Len(GetModsByPriority(mods)) \in Nat BY <2>1, SortedLength DEF GetModsByPriority
  <2>3. first \in DragLists BY <2>1, <2>2, NothingTyped, FilledTyped
  <2> HIDE DEF first
  <2>4. filled \in DragLists BY <2>1, <2>3, RelockedTyped
  <2>5. list' = filled /\ cache' = filled.rows /\ box' = locked /\ search' = FALSE
        /\ UNCHANGED <<session, mods, saved, looseOrder>>
    BY <1>4 DEF OpenDialog, first
  <2>6. box' \in BOOLEAN BY <2>5
  <2> HIDE DEF filled
  <2>7. filled.rows \in Seq(Row) BY <2>4, ListFields
  <2> QED BY <2>4, <2>5, <2>6, <2>7 DEF RowsInv
<1>5. CASE MainRunnerPrepFails BY <1>5, NothingTyped DEF MainRunnerPrepFails, dialog, RowsInv
<1> QED BY <1>1, <1>2, <1>3, <1>4, <1>5 DEF Program

LEMMA NextRows == RowsInv /\ [Next]_vars => RowsInv'
<1> SUFFICES ASSUME RowsInv, [Next]_vars PROVE RowsInv'
  OBVIOUS
<1>1. CASE Event BY <1>1, EventRows
<1>2. CASE EndOfEvent BY <1>2, EndRows
<1>3. CASE Program BY <1>3, ProgramRows
<1>4. CASE UNCHANGED vars BY <1>4 DEF vars, RowsInv
<1> QED BY <1>1, <1>2, <1>3, <1>4 DEF Next

\* Only the preparation of a session begins when the program is off.
LEMMA OnlyPrep ==
  ASSUME [Next]_vars, phase = "off"
  PROVE  MainRunnerPrep \/ MainRunnerPrepFails \/ UNCHANGED vars
<1>1. ~ Event
  BY DEF Event, InDialog, ClickCheckbox, ClickRow, MoveSelected, EnableSelected, IgnoreMeshes,
         SearchTextChanged, UseMO2LooseFileOrderChange, RestoreDefault, DiscardChanges, Apply
<1>2. ~ EndOfEvent
  BY DEF EndOfEvent, InDialog, MouseUp, MouseUpOutside, Okay, RerunPatching, Close,
         UpdateModsFails
<1> QED BY <1>1, <1>2 DEF Next, Program, MainRunnerPatch, Exit, OpenDialog

(* From one session to the next the enabled mods keep the order the user    *)
(* gave them, and the new ones are above them, whatever the mod manager and *)
(* the folders hold, and whatever was done in the dialog in between         *)
(* (updateStateFromModlist, after modrules.json was read).                  *)
THEOREM OrderKeptBetweenSessions == Spec => OrderSurvives
<1>1. ASSUME RowsInv, [Next]_vars, phase = "off", ~ looseOrder
      PROVE  OrderKept(saved, mods') \/ UNCHANGED vars
  <2>1. CASE MainRunnerPrep BY <1>1, <2>1, PrepRows
  <2>2. CASE MainRunnerPrepFails
    BY <2>2 DEF MainRunnerPrepFails, OrderKept
  <2> QED BY <1>1, <2>1, <2>2, OnlyPrep
<1>2. RowsInv /\ [Next]_vars =>
        [phase = "off" /\ ~ looseOrder =>
           LET old == {m \in DOMAIN mods' \cap DOMAIN saved : saved[m].enabled}
               new == {m \in DOMAIN mods' \ DOMAIN saved : mods'[m].enabled}
           IN /\ \A m \in old : mods'[m].enabled
              /\ \A m, n \in old : saved[m].priority > saved[n].priority
                                    => mods'[m].priority > mods'[n].priority
              /\ \A m \in new, n \in old : mods'[m].priority > mods'[n].priority]_vars
  BY <1>1 DEF OrderKept
<1> QED BY <1>2, InitRows, NextRows, PTL DEF Spec, OrderSurvives
=============================================================================
