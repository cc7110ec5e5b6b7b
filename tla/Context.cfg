CONSTANTS
  s1 = s1
  c1 = c1
  c2 = c2
  e0 = e0
  p1 = p1
  p2 = p2
  a1 = a1
  a2 = a2
  b1 = b1
  b2 = b2
  k1 = k1
  k2 = k2
  Contents = {c1, c2, e0}
  Size <- Sizes
  NoBytes = e0
  Principals = {p1, p2}
  Sessions = {s1}
  Clients = {b1, b2}
  Keys = {k1, k2}
  Offers <- OneOffer
  Slips = {"none", "revision", "sequence", "range", "wide", "turn", "owner", "foreign"}
  CommitEvents = 3
  CommitBytes = 8
  CheckpointBytes = 1
  MaxSourceRangeEvents = 3
  MaxBuilds = 3
  MaxPuts = 2
  Agents = {a1, a2}
  Who <- OwnerOf
  ThroughLoop = {a1}
  MaxBytes = 4
  MaxGrantBytes = 4
  MaxInline = 1
  MaxPageBytes = 2
  MarkerBytes = 1
  MaxToolRuns = 4
  Budget = 4
  StubBytes = 1
  MaxPlans = 1
SPECIFICATION SpecMC
INVARIANTS SessionIsItsCommits AnswersAreTruthful PlanIsFaithful RevokedNeverPlanned PagesCoverContent
CHECK_DEADLOCK FALSE
