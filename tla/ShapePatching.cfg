SPECIFICATION Spec
CONSTANTS
  NIFs = {"a", "b"}
  Mods = {"A", "B"}
  NoMod = "none"
  None = "none"
  Files <- MCFiles
  HeightMaps <- MCHeightMaps
  CMs <- MCCMs
  FlowMaps <- MCFlowMaps
  DDS <- MCDDS
  RMAOS = {"r", "x_r"}
  Aspect <- MCAspect
  CMOutput <- MCCMOutput
  SSSOutput <- MCSSSOutput
  DynCubemap = "dyn"
  StaticCubemap = {"m2"}
  Entries <- MCEntries
  ModOf <- MCModOf
  Rank <- MCRank
  OptionSets <- MCOptionSets
  Setups <- MCSetups
INVARIANTS
  PatchSafe
  AppliedCanApply
  PatchedShaderKept
  NoNewMissingTextures
  SameShapeSameResult
  ViewShowsWinner
CHECK_DEADLOCK FALSE
