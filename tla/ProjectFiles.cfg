\* Two files, one of them below node_modules; two events in a batch are excessive.
SPECIFICATION Spec
CONSTANTS
  Files = {a, b}
  NodeModules = {b}
  Texts = {x, y}
  NoText = NoText
  Threshold = 1
  MaxOps = 4
SYMMETRY TextSymmetry
INVARIANTS NeverPanics OverlaysAreBuffers ProgramCurrent
CHECK_DEADLOCK FALSE
