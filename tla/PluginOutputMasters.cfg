SPECIFICATION Spec
CONSTANTS
  Plugins = {"game", "modA", "modB"}
  LoadOrder <- MCLoadOrder
  PluginMasters <- MCPluginMasters
  Installs <- MCInstalls
  Records = {"stat", "arma", "bad"}
  PluginOf <- MCThreeOwners
  MastersOf <- MCMastersOf
  Models = {"st", "w", "p", "b"}
  RecordOf <- MCRecordOf
  MeshOf <- MCMeshOf
  Weighted = {"w"}
  OtherVariant <- MCVariant
  Alts = {"s0", "s1", "w0", "w1", "p0"}
  ModelOf <- MCModelOf
  SlotOf <- MCSlotOf
  SetOf <- MCSetOf
  MasterOf <- MCMasterOf
  Asks <- MCAsks
  Uncopied = {}
  TextureSets = {"old", "new", "pbr", "none"}
  NoTextures = "none"
  Slots = {0, 1}
  MaxFormID = 4
  MaxMasters = 4
  MaxRuns = 2
INVARIANTS
  MastersBelowLimit
CHECK_DEADLOCK FALSE
