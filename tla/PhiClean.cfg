SPECIFICATION Spec
CONSTANTS
  Root = Root
  x = x
  y = y
  l1 = l1
  l2 = l2
  l3 = l3
  Nothing = Nothing
  Nodes <- MCNodes
  Kids <- MCKids
  Source <- MCSource
  DeepLeaves <- MCDeepLeaves
  Setups <- MCSetups
  Permits = 1
INVARIANT CleanMeansNoFinding
