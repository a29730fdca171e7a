\* apply and then one set_config; an agent that may be terse, mute or busy.
SPECIFICATION FairSpec
CONSTANTS
  model = model  effort = effort  mode = mode  first = first  second = second
  KnobIds <- MCKnobIds
  Wanted <- MCWanted
  Setters <- OneSetter
  Sets <- OneSets
  Withdraws <- MCWithdraws
  Apply = apply
  Helpful = FALSE
  MaxOwn = 2
INVARIANTS TypeOK KnownKnobsOnly NothingSupposed ListIsLatest
PROPERTIES ListNeverGoesBack ApplyEnds
\* Every task is done in the end.
CHECK_DEADLOCK FALSE
