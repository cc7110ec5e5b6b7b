CONSTANTS
  Keys = {1, 2}
  Owners = {w1, w2}
  NoOwner = NoOwner
  NoTask = NoTask
  Evicting = FALSE
  MaxTime = 2
  NeedsOf <- NoNeeds
  Leases = {1}
  MaxSeq = 1
  MaxCalls = 100
  MaxRuns = 100
  Faults = TRUE
  Identities = {"founder", "member"}
  Founder = "founder"
  RoomID = "room"
  MaxRoomChanges = 2
  Messages = {"first", "second", "changed"}
  Mail <- MCMail
  Requests <- MCRequests
  MaxLines = 2
  IDs = 1
  MaxRequests = 2
SYMMETRY WorkerSymmetry
SPECIFICATION DispatchSpec
INVARIANT HandledOnce
CHECK_DEADLOCK FALSE
