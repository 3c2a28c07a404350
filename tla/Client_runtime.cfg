SPECIFICATION Spec
CONSTANTS
  EventCapacity = 1
  SendCapacity = 2
  DrainBudget = 2
  MaxAttempts = 2
  MaxPostFailures = 1
INVARIANTS ChannelIsSound NoIoOnFreedConnection NothingStranded RestingAgreement TransportNeverRefused
CHECK_DEADLOCK FALSE
