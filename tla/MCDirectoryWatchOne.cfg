SPECIFICATION Spec
CONSTANTS
  Files = {f1}
  DirNames = {}
  Dirs = {}
  MaxOps = 3
INVARIANT FilesMonitored
CHECK_DEADLOCK FALSE
