\* Two actors, one permit, three producers of which two may be in flight on an
\* actor: admission against drain, and sessions that close while others are
\* admitted.
CONSTANTS
    Actors = {a1, a2}
    Producers = {p1, p2, p3}
    w1 = w1
    Workers = {w1}
    Shard <- OneShard
    MailboxCapacity = 2
    MaxAdmittedRunnableActors = 1
    DrainBudget = 2
    MaxProducerInFlight = 2
    Mail = Mail
    MaxEnqueues = 3
SYMMETRY ProducerSymmetry
SPECIFICATION MCSpec
INVARIANTS
    TypeOK
    TicketsAndTokens
    NoStrandedMail
    PermitsSuffice
    LeasedActorNotErased
