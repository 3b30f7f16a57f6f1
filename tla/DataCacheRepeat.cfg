SPECIFICATION Spec
CONSTANTS
  gui = gui
  core = core
  k1 = k1
  k2 = k2
  val1 = val1
  val2 = val2
  nil = nil
  Procs = {gui, core}
  Keys = {k1, k2}
  Values = {val1, val2}
  Nil = nil
  Scenarios <- RepeatScenarios
INVARIANTS
  UpToDate
CHECK_DEADLOCK FALSE
