\* Two calls of set_config at once, and an agent that answers everything.
SPECIFICATION Spec
CONSTANTS
  model = model  effort = effort  mode = mode  first = first  second = second
  KnobIds <- MCKnobIds
  Wanted <- NoWants
  Setters <- TwoSetters
  Sets <- TwoSets
  Withdraws <- MCWithdraws
  Apply = apply
  Helpful = TRUE
  MaxOwn = 0
INVARIANTS ListIsLatest
\* Every task is done in the end.
CHECK_DEADLOCK FALSE
