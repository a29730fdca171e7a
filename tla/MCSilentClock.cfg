\* A second turn after a pause longer than the idle deadline.
SPECIFICATION Spec
CONSTANTS
  turn1 = turn1  turn2 = turn2  open = open  hello = hello
  s1 = s1  s2 = s2
  Calls <- TwoTurns
  Sessions <- MCSessions
  Everything = everything
  Watching <- TwoTurnsWatching
  Limited = {}
  Startup = 3  Idle = 2  Hard = 5  Tick = 1
  Horizon = 6
PROPERTIES EveryRequestPatience
\* The clock stops at the horizon.
CHECK_DEADLOCK FALSE
