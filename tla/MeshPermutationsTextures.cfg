\* What PGPatcher.cpp says of the slots of a shape with alternate textures.
SPECIFICATION Spec
CONSTANTS
  NIFs <- OneNIF
  OtherVariant <- OneVariant
  Shapes <- OneShapes
  UseLists <- OneUseLists
  Looks = {0, 1}
  Texs = {0, 1}
INVARIANT ChangedTexturesPropagate
CHECK_DEADLOCK FALSE
