SPECIFICATION CrewSpec
CONSTANTS
  Runners = {r1, r2, r3}
  Firers = {r1, r2, r3}
  Askers = {r1, r2, r3}
  Callers = {r1, r2, r3}
  HookNames = {"h1", "h2"}
  StepIDs <- MCStepIDs
  Crews <- MCCrews
  MaxDepth = 2
  MaxNoise = 1
  Remotes = {"pinned", "stranger"}
  ExpectSigner = "pinned"
INVARIANT ThreadsVerify
INVARIANT HooksHeard
INVARIANT AcksAreEarned
PROPERTY RunsJoin
CHECK_DEADLOCK FALSE
