SPECIFICATION Spec
CONSTANTS
  p1 = p1
  p2 = p2
  t1 = t1
  t2 = t2
  Dead = Dead
  Procs <- MCProcs
  Tasks <- MCTasks
  Proc <- MCProc
  a = a
  b = b
  c = c
  d = d
  Keys <- MCKeys
  NoKey = NoKey
  max_entries = 1
  Faults = TRUE
  MaxKills = 1
INVARIANTS TypeOK EntriesWhole EntriesBounded NoStrayTemps
CHECK_DEADLOCK FALSE
SYMMETRY KeySymmetry
