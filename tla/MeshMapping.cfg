\* Two pool threads, three meshes to read and one excluded.
SPECIFICATION FairMapSpec
CONSTANTS
  Tasks = {m1, m2, m3, m4}
  Blocked = {m4}
  Producers = {th1, th2}
  NoTask = NoTask
INVARIANTS
  MappingSafe
  MeshesAccounted
PROPERTIES
  MeshesSettled
  RunTasksEnds
\* The system ends when the patching run starts.
CHECK_DEADLOCK FALSE
