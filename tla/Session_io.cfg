\* Lanes of two events, refused completions and refused input included.
\* A session that has left the registry takes no further step.
SPECIFICATION FairSpec
CONSTANTS
    MailboxCapacity = 2
    PendingSendQueueCapacity = 1
    DrainBudget = 2
    MaxSends = 4
    MaxCloseCalls = 1
    InputMayFail = TRUE
    AdmissionMayFail = TRUE
INVARIANTS ContextsAccounted WorldHearsTheEnd
PROPERTY SoundSessionIsReclaimed
CHECK_DEADLOCK FALSE
