\* Hop and step budgets below the longest flow, so that both bite.
CONSTANTS
  Programs <- MCPrograms
  FileCap = 3
  NodeBudget = 31
  MaxHops = 4
  LiftDepth = 8
  MaxSteps = 3
SPECIFICATION Spec
INVARIANTS FlowsExact EvidenceSound EnrichmentSound
CHECK_DEADLOCK FALSE
