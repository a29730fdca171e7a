\* Two turns and a load of one session; the agent asks for permission.
SPECIFICATION Spec
CONSTANTS
  c1 = c1  c2 = c2  c3 = c3
  s1 = s1
  Calls <- ThreeCalls
  Sessions <- TheSession
  Kind <- TurnsAndLoad
  Target <- OneSession
  AskKinds = {"permission", "unreadable"}
  Policy = "ask"
  EventCap = 1
  StdinCap = 1
  MaxSaid = 1
  MayGarble = FALSE
INVARIANTS TypeOK NoStrandedWaiter WaitersLetGoFirst AnswerBeatsDeath ClosedIsLast
PROPERTIES NoStaleWords HistorySuppressed MutedOnlyWhileLoading ImplementsPromise
\* The system may stop: every call done, the agent idle or gone.
CHECK_DEADLOCK FALSE
