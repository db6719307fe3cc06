SPECIFICATION Spec
CONSTANTS
  Files = {f1, f2}
  DirNames = {a, b}
  Dirs = {d1}
  MaxOps = 3
SYMMETRY Symmetry
INVARIANTS TypeOK WatchesFollow ListingFollows
CHECK_DEADLOCK FALSE
