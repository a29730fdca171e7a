\* Up to three files at first, one change; an agent that says three lines.
SPECIFICATION FairSpec
CONSTANTS
  Dirs <- MCDirs
  PrefixBin = "prefix"
  Given <- MCGiven
  Answers <- MCAnswers
  Managers <- MCManagers
  Chosen <- MCSearch
  Cursors = {"given", "added"}
  CursorNamed = {"added"}
  Looks <- MCLooks
  Offered = {"claude", "cursor", "opencode"}
  MaxFiles = 3
  MaxChanges = 1
  Runnable = {"given", "added", "elsewhere"}
  PassesPath = FALSE
  DIAGNOSTIC_LINES = 2
  MaxLines = 3
  MayGarble = TRUE
INVARIANTS TypeOK GivenKeepsItsPlace SpeaksTheProtocol NothingBetterWasThere ReadyMeansLaunchable TailIsLatest ReasonTold SpawnFailsForCause
PROPERTIES HandshakeIsARequest LaunchEnds
\* An agent that is up stays up.
CHECK_DEADLOCK FALSE
