SPECIFICATION Spec
CONSTANTS
  Clients = {c1, c2}
  Strokes = {x1, x2}
  StrokeCap = 1
  Closed = Closed
  MaxPipe = 4
SYMMETRY MCSymmetry
INVARIANTS
  CapKept
  SavedIsShown
  ErasedIsHidden
