\* Three archives and a missing one, two plugins, two INI files of two fields.
SPECIFICATION Spec
CONSTANTS
  Paths <- MCPaths
  BSAs <- MCBSAs
  Dir <- MCDir
  Plugins <- MCPlugins
  Broken <- MCBroken
  Held <- MCHeld
  Loose <- MCLoose
  Fields <- MCFields
  INIs <- MCINIs
  Lists <- MCLists
  NoBSA = NoBSA
INVARIANTS
  SourcesRight
PROPERTIES
  MarksUndone
