\* One container and a memory of 8 cells without redzones.
SPECIFICATION Spec
CONSTANTS
  Cells = 8
  ClassSmall = 2
  MinBlock = 2
  Rz = 0
  Holders = {h1}
  Sizes = {0, 1, 2, 3}
  Alignments = {1, 2}
INVARIANTS ExtentIsUsable
