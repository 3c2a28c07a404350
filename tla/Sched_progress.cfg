\* One actor, two producers: what must eventually happen.
CONSTANTS
    Actors = {a1}
    Producers = {p1, p2}
    w1 = w1
    Workers = {w1}
    Shard <- OneShard
    MailboxCapacity = 2
    MaxAdmittedRunnableActors = 2
    DrainBudget = 2
    MaxProducerInFlight = 2
    Mail = Mail
    MaxEnqueues = 3
SPECIFICATION MCFairSpec
PROPERTIES
    MailIsServed
    StopJoinsWorkers
