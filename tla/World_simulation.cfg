SPECIFICATION Spec
CONSTANTS
  s1 = s1
  s2 = s2
  w = w
  Sessions = {s1, s2, w}
  Guests = {w}
  MaxPlayerId = 2
  MaxTick = 4
  MaxWait = 1
  MaxSteps = 2
  SnapshotInterval = 2
  JoinFaults = {"BaselineEncoding", "OutboundFull"}
  MaxHidden = 1
  MaxFlight = 1
  MaxSent = 1
  MaxGeneration = 2
  AmbientSlots = {1}
  MinimumPlayers = 1
  RoundDuration = 2
  MaxScore = 1
  MaxHappenings = 1
SYMMETRY Symmetry
CHECK_DEADLOCK FALSE
INVARIANTS
  SessionsAreOneWorld
  EntitiesAreOneWorld
  WorldNeverStopsItself
  ClientNeverFaults
  ClientSeesItsWorld
  EveryoneHearsTheEnd
PROPERTIES
  RoundsBeginEmpty
