SPECIFICATION FairSpec
CONSTANTS
  c1 = c1
  c2 = c2
  c3 = c3
  c4 = c4
  p1 = p1
  p2 = p2
  Root = Root
  Callers <- MCCallers
  Planners <- MCPlanners
  Parent <- MCParent
  Limits <- MCLimits
INVARIANTS TypeOK Conservation LiveCountExact
PROPERTIES LedgerSpec EveryNodeSettles
