\* Questions of both kinds under RefuseAll, and an agent that may die or print bytes that are not UTF-8.
SPECIFICATION WorkingAgentSpec
CONSTANTS
  c1 = c1  c2 = c2  c3 = c3
  s1 = s1
  Calls <- TwoCalls
  Sessions <- TheSession
  Kind <- TurnAndRequest
  Target <- PairTarget
  AskKinds = {"permission", "foreign"}
  Policy = "refuse"
  EventCap = 1
  StdinCap = 1
  MaxSaid = 1
  MayGarble = TRUE
INVARIANTS PendingOwned RefusedUnseen
PROPERTIES QuestionsEnd WaitsEnd DeathAnnounced
\* The system may stop: every call done, the agent idle or gone.
CHECK_DEADLOCK FALSE
