SPECIFICATION Spec
CONSTANTS
  s1 = s1
  Sessions = {s1}
  Guests = {}
  MaxPlayerId = 1
  MaxTick = 6
  MaxWait = 1
  MaxSteps = 1
  SnapshotInterval = 1
  JoinFaults = {}
  MaxHidden = 0
  MaxFlight = 1
  MaxSent = 1
  MaxGeneration = 3
  AmbientSlots = {1}
  MinimumPlayers = 1
  RoundDuration = 6
  MaxScore = 1
  MaxHappenings = 2
CHECK_DEADLOCK FALSE
INVARIANT AcknowledgesOnlySent
