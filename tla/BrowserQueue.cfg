SPECIFICATION Spec
CONSTANTS
  Base = 2
  Limit = 14
  Q = 16
  Cap = 22
  Align = 2
  KeySize = 2
  IdSize = 2
  Sizes <- FrameSizes
  Tags = {a, b}
  NoTag = NoTag
SYMMETRY Symmetry
INVARIANTS TypeOK FramesIntact
