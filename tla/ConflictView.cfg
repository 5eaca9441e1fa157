\* A viewer over two meshes and three mods, beside edits of the mod list.
CONSTANTS
  a = a
  b = b
  c = c
  none = none
  untracked = untracked
  m1 = m1
  m2 = m2
  s1 = s1
  s2 = s2
  Mods <- MCMods
  Untracked = untracked
  None = none
  Meta <- MCMeta
  UseCount <- MCUseCount
  Filters <- MCFilters
  Found <- MCFound
  Orders <- MCOrders
  MaxFiles = 1
SPECIFICATION Spec
INVARIANTS ViewSafe RowsOfSelection ListsCurrent WinnerIsHighest
CHECK_DEADLOCK FALSE
