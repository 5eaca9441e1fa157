SPECIFICATION Spec
CONSTANTS
  modA = modA
  modB = modB
  modC = modC
  modU = modU
  fa = fa
  fb = fb
  fs = fs
  fm = fm
  Mods <- MCMods
  NameRank <- MCNameRank
  Files <- MCFiles
  Kind <- MCKind
  Provides <- MCProvides
  Modlists <- MCModlists
  Found <- MCFound
  Ignorable <- MCIgnorable
  Manager = "mo2"
  MaxSessions = 2
  MaxEvents = 3
CHECK_DEADLOCK FALSE
INVARIANTS
  DialogSafe
  RunIsSaved
PROPERTIES
  OrderSurvives
  AppliedIsShown
