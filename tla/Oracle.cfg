SPECIFICATION FairSpec
CONSTANTS
  c1 = c1
  c2 = c2
  c3 = c3
  a = a
  b = b
  None = None
  Callers <- MCCallers
  Prompts <- MCPrompts
  Setups <- MCSetups
  Permits = 2
  max_retries = 1
  MAX_TRUNCATION_CONTINUATIONS = 2
  Threshold = 1
INVARIANTS TypeOK NothingLeaks ChargedUnlessCancelled NoConcurrentDuplicate
  AnswersOwnPrompt BillingStops
PROPERTY EveryCallEnds
