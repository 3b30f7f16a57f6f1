SPECIFICATION Spec
CONSTANTS
  core = core
  gui = gui
  pm = pm
  pt = pt
  pg = pg
  k1 = k1
  k2 = k2
  a = a
  b = b
  invalid = invalid
  nobody = nobody
  Procs = {core}
  Core = core
  Pages = {pm, pt}
  Home <- BatchHome
  MainPages = {pm}
  Keys = {k1, k2}
  Values = {a, b}
  Invalid = invalid
  Accepts <- BatchAccepts
  Default = a
  Nobody = nobody
  OnDisk <- BatchOnDisk
  Uses = {"save", "load"}
  MaxChanges = 2
  MaxNesting = 2
  MaxSyncs = 0
INVARIANTS
  EndToEnd
  SavedFlagExplained
CHECK_DEADLOCK FALSE
