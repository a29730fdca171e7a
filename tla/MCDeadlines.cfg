\* Ticks that do not divide the deadlines.
SPECIFICATION Spec
CONSTANTS
  turn1 = turn1  turn2 = turn2  open = open  hello = hello
  s1 = s1  s2 = s2
  Calls <- MCCalls
  Sessions <- MCSessions
  Everything = everything
  Watching <- MCWatching
  Limited = {hello}
  Startup = 3  Idle = 3  Hard = 5  Tick = 2
  Horizon = 7
INVARIANTS TypeOK StuckIsNoticed HardBound
PROPERTIES FirstRequestPatience
\* The clock stops at the horizon.
CHECK_DEADLOCK FALSE
