\* Time passes, and an agent need not read what it is sent.
SPECIFICATION PassingTimeSpec
CONSTANTS
  c1 = c1  c2 = c2  c3 = c3
  s1 = s1
  Calls <- TwoCalls
  Sessions <- TheSession
  Kind <- TwoTurns
  Target <- PairTarget
  AskKinds = {}
  Policy = "ask"
  EventCap = 1
  StdinCap = 1
  MaxSaid = 1
  MayGarble = FALSE
PROPERTIES CallsEnd
\* The system may stop: every call done, the agent idle or gone.
CHECK_DEADLOCK FALSE
