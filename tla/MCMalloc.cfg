\* A memory of 9 cells with redzones of one.
SPECIFICATION Spec
CONSTANTS
  Cells = 9
  ClassSmall = 3
  MinBlock = 2
  Rz = 1
  Holders = {h1, h2}
  Sizes <- MCSizes
  Alignments = {1, 2, 3}
  MaxDropped = 1
SYMMETRY Symmetry
INVARIANTS ChunksUsable ContentsKept RedzonesGuard StatsExact
