SPECIFICATION FairSpec
CONSTANTS
  core = core
  gui = gui
  pm = pm
  pt = pt
  pg = pg
  k1 = k1
  k2 = k2
  a = a
  b = b
  invalid = invalid
  nobody = nobody
  Procs = {core, gui}
  Core = core
  Pages = {pm, pt, pg}
  Home <- SharedHome
  MainPages = {pm}
  Keys = {k1}
  Values = {a, b}
  Invalid = invalid
  Accepts <- SharedAccepts
  Default = a
  Nobody = nobody
  OnDisk <- SharedOnDisk
  Uses = {"clear"}
  MaxChanges = 3
  MaxNesting = 0
  MaxSyncs = 1
INVARIANTS
  TypeOK
  EndToEnd
PROPERTIES
  PagesImplementEchoSync
  ProcsImplementEchoSync
  ReadYourWrites
  EventuallyShown
  NobodyStaysDeaf
CHECK_DEADLOCK FALSE
