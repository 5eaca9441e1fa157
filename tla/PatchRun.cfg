\* Two meshes, a shared and a missing texture, a second run.
SPECIFICATION Spec
CONSTANTS
  m1 = m1
  m2 = m2
  t1 = t1
  t2 = t2
  Meshes <- MCMeshes
  Textures <- MCTextures
  Mapped <- MCMapped
  Hooked <- MCHooked
  Lit <- MCLit
  MaxRuns = 2
INVARIANTS
  RunSafe
  OutputAgrees
  NothingStale
  HooksMarked
\* The program ends after the last run and on a critical error.
CHECK_DEADLOCK FALSE
