SPECIFICATION FairSpec
CONSTANTS
  Callers = {c1, c2}
  Threshold = 1
  Cooldown = 1
PROPERTY KeepsAdmitting
