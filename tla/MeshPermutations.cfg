\* Two weight variants, up to three uses; every result of the patchers.
SPECIFICATION Spec
CONSTANTS
  NIFs <- MCNIFs
  OtherVariant <- MCOtherVariant
  Shapes <- MCShapes
  UseLists <- MCUseLists
  Looks = {0, 1}
  Texs = {0, 1}
INVARIANTS
  OutputsSafe
  OmittedUsesSeeOriginal
  GameSeesPatchedUse
  UnreportedVariantsPair
\* The system ends when every job is done.
CHECK_DEADLOCK FALSE
