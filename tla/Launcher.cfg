SPECIFICATION LauncherSpec
CONSTANTS
  noDir = noDir
  gameSE = gameSE
  gameVR = gameVR
  instFull = instFull
  instBare = instBare
  slashed = slashed
  se = se
  vr = vr
  unknown = unknown
  noEntries = noEntries
  rules = rules
  bsas = bsas
  twice = twice
  mixed = mixed
  opts = opts
  otherOpts = otherOpts
  Dirs <- MCDirs
  NoDir = noDir
  GameTypes = {se, vr}
  FirstGame = se
  UnknownGame = unknown
  ValidGames <- MCValidGames
  SteamDir <- MCSteamDir
  ExeDir = gameVR
  Instances <- MCInstances
  InstanceDir <- MCInstanceDir
  InstanceGame <- MCInstanceGame
  Backslashed <- MCBackslashed
  Lists <- MCLists
  NoEntries = noEntries
  DefaultRules = rules
  DefaultBSAs = bsas
  FaultyLists = {twice}
  Reread <- MCReread
  Options = {opts, otherOpts}
  DefaultOptions = opts
  FirstFiles <- MCFirstFiles
  MaxLaunches = 2
  MaxSteps = 4
CHECK_DEADLOCK FALSE
INVARIANTS
  LauncherSafe
  StartedAsSaved
  SettingsShown
PROPERTY
  SettingsSurvive
