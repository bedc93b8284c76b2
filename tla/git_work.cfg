SPECIFICATION Spec
CONSTANTS
  Calls = {c1, c2}
  Tasks = {t1, t2}
  Names = {f, g, "main"}
  ParallelTasks = FALSE
  NoName = NoName
  NoTree = NoTree
SYMMETRY WorkSymmetry
CHECK_DEADLOCK FALSE
INVARIANTS
  FailedWorkStaysOut
  OneRunPerBranch
  
  
