CONSTANTS
  RowLength = 3
  Sizes <- MCSizes
  MaxBlock = 7
  Offsets <- AnyOffset
SPECIFICATION Spec
INVARIANTS BitmapTypeOK PaddingStaysSet
PROPERTY ImplementsSet
