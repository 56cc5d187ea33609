SPECIFICATION Spec
CONSTANTS
  p1 = p1
  p2 = p2
  t1 = t1
  t2 = t2
  Dead = Dead
  Procs <- MCProcs
  Tasks <- MCTasks
  Proc <- OneProcess
  a = a
  b = b
  c = c
  d = d
  Keys <- MCKeys
  NoKey = NoKey
  max_entries = 1
  Faults = FALSE
  MaxKills = 1
INVARIANT DisabledForCause
CHECK_DEADLOCK FALSE
SYMMETRY KeySymmetry
