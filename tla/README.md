# A TLA+ verification of PrivateServer

PrivateServer is a game server for Windows, written in C++: a network runtime on
I/O completion ports (with a client side), an authoritative World that ticks at a
fixed rate, a host process that owns one of each, and a game client. These modules
model the concurrent core of the runtime and of the World, down to single atomic
operations where the code is lock-free, and the game rules with the messages the
client lives on. TLC checks them on small instances and TLAPS proves some of their
properties for all instances.

Paths below are relative to `src/src/`. `NR` stands for
`PrivateServer.NetworkRuntime`, `NI` for `PrivateServer.NetworkRuntime.Internal`,
`WS` for `PrivateServer.WorldServer`, `GC` for `PrivateServer.GameClient`. `PROJECT.json` says, for every definition,
which lines it models.

## 1. Inventory

### How the parts interact

```
 kernel completions            NrGateway / NrServer calls (World threads)
        |                                   |  permit of SubmissionGate
   IoEventDispatcher                        |
        |  Enqueue(key, event)              |  Enqueue(key, event)
        +-----------------+-----------------+
                          v
            SessionActorScheduler: ActorScheduleGate per actor,
            two mailbox lanes (BoundedMpscQueue), permits, ready queues
                          |  one worker drains one actor
                          v
                    SessionIoActor  --posts--> kernel
                          |  accepted / packet / closed
                          v
                    ToWorldHandoff  (one mutex, one queue, a slot per session)
                          |  batches
                          v
   pump --> ingress double buffer --> coordinator (tick) --> outbound double
                                                             buffer --> publisher
                                                                           |
                                                              NrGateway <--+
                                                                           |
                 game client: GameClientReplica <-- NrClient <-- wire <----+
```

`NrServer` (module `ServerLifecycle`) starts these parts in order and takes them
down in the reverse order. The tick of the coordinator is the World simulation
(`WorldSimulation`): it takes the session events of a batch, runs one or more
fixed steps, and records what every session has to hear. `NrClient`
(`ClientRuntime`) is the same kind of runtime for one connection.

### Components

| Component | State | Operations | What makes it correct |
|---|---|---|---|
| Schedule gate (`NI/NrActorScheduleGate`) | one 64-bit word: phase, pending bit, reschedule bit, producers in flight | begin/complete admission, begin/complete drain | an actor with published mail is scheduled, or some thread is bound to schedule it |
| Actor scheduler (`NI/NrSessionActorScheduler`, `NrActorExecutor`) | ready queue and permits per worker, stop flag | `Enqueue`, worker loop, stop, join | one token per scheduled actor; permits conserved; mail is served; stop joins |
| Actor registry (`NI/NrSessionActorRegistry`) | entries, lifecycle, leases, closed keys | lease, mark, deregister | no entry is erased under a user; every closed entry is erased |
| MPSC queue (`NI/NrBoundedMpscQueue.h`) | ring of slots with sequence numbers, two positions | `TryPush`, `TryPop`, destructor | a FIFO; every item constructed and destroyed once |
| Submission gate (`NI/NrServerSubmissionGate`) | invalidated bit and in-flight count in one word, reference count | acquire, release, invalidate and wait | no submission enters a server being stopped; state outlives its users |
| Session I/O actor (`NI/NrSessionIoActor*`) | socket, contexts, pending-I/O counts, send queue, send channel | one handler per event, close, drain | completions match contexts; the World hears of the end; the entry is reclaimed |
| To-World handoff (`NI/NrToWorldHandoff`) | event queue, a slot per session, a ring of deferred sessions | record accepted/packet/closed, pop, wait, close | per-session order, nothing lost or doubled, no lost wake-up |
| World double buffers (`WS/WorldDoubleBufferRoleExchange`, `WorldIngressDoubleBuffer`, `WorldOutboundDoubleBuffer`) | slot roles, claims, generations, ready ring | acquire, release, swap, seal, finish, close | a slot has one user; batches keep their order |
| World workers (`WS/World*Worker*`, `WorldWorkerStartup.h`, `WorldWorkerShutdown.h`) | three threads, a plan/completion channel, request flags, a deadline | tick, pump, publish, start, shut down | events are handled once and in order; a shutdown ends, and one that reports Completed has handled every event |
| Server lifecycle (`NR/NrServer.cpp`, `NI/NrBootstrapPlan.cpp`, `NrServerGraphBuilder.cpp`) | shell state, list of components, how many are started | start with rollback, request stop, shut down, destroy | nobody runs without what it stands on; every call returns; a server that is down has let go of everything |
| I/O pump, dispatcher and listener (`NI/NrServerGraphBuilder.cpp`, `NrIoEventDispatcher`, `NrListener`) | completion port, accept slots, next session key | accept, make a session, route completions, stop | a session refused half way leaves nothing behind |
| Client runtime (`NR/NrClient.cpp`, `NI/NrClient*`) | channel atomics, four command slots, send queue, connection, event queue | connect, send, disconnect, poll, shut down; completions | no I/O on a freed connection; no command, send or shutdown is stranded while wake-ups arrive; two records of one connection agree |
| World sessions (`WS/WorldSessionRegistry`, `WorldIngressEventConsumer`) | dense array with a joined prefix, two maps, send channels | accept, join, observe, close, control, time sync | the tables are one table; a failed join leaves nothing |
| World gameplay (`WS/WorldGameplay*`, `WorldEntityRegistry`, `WorldTickProcessor`) | round phase, scores, resources, slots and generations, entities | step, death, drop, pickup, refill, respawn, reset | scores, entities, resource slots and sessions describe one world; the World never ends itself |
| Replication (`WS/WorldAoiPlanner`, `WorldGameplayReplicationPlan`, publishers) | visible sets, pending spawns and broadcasts | plan, record, publish | each client sees what the World thinks it sees, in an order it accepts |
| Game client (`GC/Gameplay`: session, replica store, control tracking) | session state, baseline, replicas, scores, sequence | apply a message, send a command | never faults on what the World sends |
| Memory pool, framing, diagnostics, logging, host artifacts, fixed-step clock | | | not modelled, see section 8 |

`PROJECT.json` lists every component, those left out included.

### What is hard here

* **Lock-free hand-over.** The schedule gate, the MPSC queue and the submission
  gate are words that several threads change with compare-and-swap. The hard
  cases are between two atomic operations: a producer that commits after the
  worker's last look, a consumer stopped by a slot that is reserved but not yet
  published, a last release that notifies after its owner has gone.
* **Lifetimes.** A session's entry may go only when the kernel, the mailboxes,
  the leases and the World are all done with it, and it must go then.
* **Refusal and failure half way.** Lanes, permits and memory run out; a drain
  may fail with mail still waiting; a tick, a start or a submission may fail
  while other threads wait without a time-out.
* **Shutdown.** Ten phases over four World threads, seven runtime components with
  two kinds of threads, and a client worker, with flags read outside locks.
* **State kept twice.** The client's connection (the worker's record and the
  channel's atomics), the World's sessions (array, index, owner map, scores,
  entities, visible sets), the game client's picture of them.

The hazards, each with its source line and the properties aimed at it, are listed
in `PROJECT.json`.

## 2. Modules

| Module | Models | Role |
|---|---|---|
| `ActorScheduleGate` | the schedule word as pure operators | used by the next |
| `SessionActorScheduler` | scheduler, executor, registry leases | specification |
| `MCSessionActorScheduler` | a bound on `Enqueue` calls, one shard, symmetry | for TLC |
| `SessionActorScheduler_proofs` | | proofs: types; leases, tickets, tokens, permits, mail |
| `BoundedMpscQueue` | the ring, one step per atomic access | specification |
| `MpscFifo` | what the ring promises | abstract specification |
| `MCBoundedMpscQueue` | a bound on pushes, symmetry | for TLC |
| `BoundedMpscQueue_proofs` | | proofs, the refinement among them |
| `SubmissionGate` | gate, gateways, server owner | specification |
| `ServerLifecycle` | `NrServer` over `SubmissionGate`, with I/O pump, listener, actor workers | specification, composition |
| `ServerLifecycle_proofs` | | proofs: the gate alone, the gate in the server, the teardown |
| `ToWorldHandoff` | handoff and its consumer | specification |
| `SessionEventChannel` | what the handoff promises | abstract specification |
| `ToWorldHandoff_proofs` | | proofs, the refinement among them |
| `SessionIoActor` | one session from accept to reclaim | specification |
| `SessionIoActor_proofs` | | proofs |
| `RoleExchange`, `OutboundBuffer` | the double buffers as pure operators | used by the next |
| `WorldWorkers` | pump, coordinator, publisher, host | specification |
| `WorldWorkers_proofs` | | proofs |
| `ClientLifecycle` | the worker's lifecycle record as pure operators | used by the next |
| `ClientRuntime` | `NrClient`: caller, I/O worker, kernel | specification |
| `ClientRuntime_invariant` | | definitions of the three inductive invariants of `ClientRuntime` |
| `ClientRuntime_proofs` | | proofs |
| `WorldTables` | maps, and sets taken in the order of a sorted vector | used by the next |
| `WorldSessionRegistry`, `WorldEntityRegistry`, `WorldGameplay` | the World's tables and rules as pure operators | used by `WorldSimulation` |
| `GameClientReplica` | what the game client does with a message | used by `WorldSimulation` |
| `WorldSimulation` | the World thread with its peers | specification, composition |
| `MCWorldSimulation` | symmetry | for TLC |
| `WorldSimulation_proofs` | | proofs: sessions, entities, rounds, and that the World never stops itself |

The modules meet at their abstractions. `BoundedMpscQueue` is proved to refine
`MpscFifo`, in which reserving and publishing a slot are separate steps; the
mailbox lanes of `SessionActorScheduler` and the queues of `ClientRuntime` are such
queues. `SessionIoActor` takes
from the scheduler that mail enqueued outside a drain schedules the actor, and
that mail enqueued during one is remembered. `ToWorldHandoff` is proved to refine
`SessionEventChannel`, the order of facts per session that `SessionIoActor`,
`WorldWorkers` and `WorldSimulation` rely on. `ServerLifecycle` extends
`SubmissionGate` and is proved to implement it. The schedule gate of the client's
command channel is `ActorScheduleGate` with one producer.

### State and actions against the code

**ActorScheduleGate / SessionActorScheduler.** `gate[a]` is the packed word with
its fields named. Each operator of the gate is one successful compare-and-swap;
a failed one changes nothing and reads again, so it needs no step. A producer's
`Enqueue` is a sequence of steps: lease (`Enqueue`), `BeginAdmission`,
`TryAcquireRunnablePermit`, `ReserveMailboxSlot`, `PublishMailboxSlot`,
`FinishAdmission`, `ProducerAppliesDirective`, `ProducerWakesWorker`,
`ProducerReleasesLease`. A worker's iteration is `TryPopReadyQueue`, the wait
(`EvaluateWaitPredicate`, `BlockOnWakeup`, separate so that a notification can
fall between them if the handshake allowed it), `LeaseReadyActor`, `BeginDrain`,
one step per drained event, `EndDrain`, `ApplyDrainReport`, `CompleteActorRun`,
`WorkerReleasesLease`, `RunRegistryCleanup`. What an event does to its actor is
left open: a drain may fail and a run may end with the session closed.

**BoundedMpscQueue.** `TryPush` is load position, test the slot's sequence,
compare-and-swap, construct, publish; `TryPop` is load and test, move out, free
the slot, advance. A reservation may fail spuriously (`compare_exchange_weak`).
`cons.empty` is the answer `QueueEmpty` of the last call; `MpscFifo` gives it only
while nothing is queued or the first place is reserved and not yet published.
Positions are unbounded naturals: `size_t` wrap-around is out of the model.

**SubmissionGate.** The invalidated bit and the count are two variables always
changed in one step, as the one word they are. `ReleasePermit` and
`NotifyOwner` are separate: between them the owner may return and destroy the
server. `WaitOnAdmissionWord` is `std::atomic::wait`, which blocks only while
the word still has the value loaded before.

**ToWorldHandoff.** Every operation runs under one mutex and is one step, except
that `Close` sets the flag and notifies in two. `PromotePending` is a recursive
function over the turns of the ring, with its early break on a full queue and
its continue on any other failure. From the step `MemoryRunsShort` on, creating an event may
fail at each place where the code allocates; a failing set chosen with `\E`
says for which sessions.

**SessionIoActor.** `actor` holds the counters, the contexts and the channel
flag. An event handler is an operator that yields the new actor state, what it
posted and whether it failed, and `TryDrainOne...Event` applies it. `FinishRun`
is everything `NrActorExecutor` and the registry do after a drain: mark, post
the requested receive, deregister. An `Enqueue` is one step here, so this module
has no leases, and its reclaim property does not see the lease race of section 5.
The kernel may go on after a completion was refused, where the pump would have
stopped: the module allows more than the code does. Received bytes are accepted or refused; refused input fails the
drain and closes the session.

**WorldWorkers.** A step is what a thread does under one mutex, or one access to
an atomic flag. `SealWrite` tests two flags before it takes the mutex and is two
steps. A bounded wait has a time-out step, enabled whenever its predicate does
not hold. The simulation of a tick is abstracted to whether it succeeded and
whether it left a record to publish; events are numbers. A refused
`BeginWriteBatch` releases the ingress slot without handling its events, as the
code does, and the worker fails; `StreamsInOrder` is about a coordinator that has
not failed. The code has paths that no caller can reach and that the model
therefore does not have: `BeginWriteBatch` searching a slot by itself, and the
coordinator's own stop request, made only by a destructor that runs after its
thread was joined.

**ServerLifecycle.** `plan` is the owner's place in `NrBootstrapPlan`: which call,
which component, and whether it waits to join that component's threads. Starting
a component may fail, except the registry's, and rolls the started ones back.
The pump's `PumpOnce` is taken apart at every place where another thread can come
in between: dequeue, complete the accept, take the socket, reserve the handoff
slot, register the actor, enqueue, and on the way back deregister and cancel; then
post the next accept. Any failure ends the pump. `NrListener::Shutdown` closes the
accept sockets before the pump is joined, and both touch a slot's socket handle
without a lock: the two steps happen in either order. That both hold the same
handle then looks like a session whose first receive fails; the second
`closesocket` is out of the model. What a session does later is reduced to a
receive that is asked for again until the session ends.

**ClientRuntime.** A step is one access to what the caller and the worker share:
an atomic of the channel, a command slot, the queue of sends or of events, the
completion port. `caller` and `worker` say where each is, with the locals it holds.
The lifecycle operators of `ClientLifecycle` are pure because the worker alone uses
them. The kernel completes what was posted, in any order; on a closed socket it can
only fail. `PostQueuedCompletionStatus` may fail `MaxPostFailures` times. Where the
size of the event queue decides, a pop is two steps: between the freed slot and the
advanced position (`AdvanceDequeuePos`) `SizeApprox` is one too large (`LooksFull`).

**WorldSimulation.** One batch is `BeginBatch`, any number of handlers, and then for
each step `Tick` and `Record`; the last `Record` also publishes and seals the batch
(`Publish`), since nobody interferes with the World's thread in between. The steps of
an ended round have no `Tick`: nothing moves, only the views lose what left. Positions, areas of interest, collisions and
physics are choices (`\E`) of what they decide: who is hit, who leaves the area, who
picks up what, who sees whom. `MaxHappenings` and `MaxHidden` bound how much happens
in a tick. A join fails at one of the stages in `JoinFaults` and is undone as in the
code. The World refuses inconsistent states itself (`stop`, `failed`), and the
clients fault on messages that break their rules; both are outcomes in the model,
not assumptions. A sealed batch reaches a client at once, while its requests may
wait for any number of batches. A boost costs one point.

## 3. Runs

| Run | Instance | Distinct states |
|---|---|---|
| `sched_two_actors` | 2 actors, 1 worker, 1 permit, 3 producers, 3 enqueues, lanes of 2, budget 2, at most 2 producers in flight | 1.70 million |
| `sched_progress` | 1 actor, 2 producers, 3 enqueues, fair | 249 thousand |
| `queue_fifo` | 3 producers, 2 slots, 2 items, 5 pushes | 210 thousand |
| `server_lifecycle` | 1 gateway, 2 accept slots, 2 connections, room for 1 session, fair | 363 thousand |
| `handoff_order` | 3 sessions, queue of 2, batches of 3, fair | 63 thousand |
| `session_io` | lanes of 2, 4 sends, 1 close, all refusals, fair | 140 thousand |
| `world_buffers` | 2 events, slots of 2, 2 ticks, 2 outbound slots, failures | 2.51 million |
| `world_workers` | the same with 1 tick, fair | 345 thousand |
| `client_runtime` | 2 attempts, 1 event place, 2 send places, 1 refused wake-up | 2.12 million |
| `client_shutdown` (violation) | 1 attempt | |
| `world_simulation` | 2 players, 1 guest, 4 ticks, rounds of 2 ticks, 1 ambient resource | 541 thousand |
| `world_stale_input` (violation) | 1 player, 6 ticks, 1 ambient resource | |

What each run checks:

* **`sched_two_actors`**: `TicketsAndTokens`: `producerInFlight` counts exactly the
  tickets in flight, a scheduled actor has one ready token and an idle one none.
  `NoStrandedMail`: an idle actor has empty lanes unless its last drain failed.
  `PermitsSuffice`: permits equal the uses of permits at every step, and a thread
  that must push a token finds room, as the code asserts. `LeasedActorNotErased`:
  an entry with a lease is not erased.
* **`sched_progress`**: published mail is drained unless the scheduler stops or
  the drain fails (`MailIsServed`); a stop joins every worker
  (`StopJoinsWorkers`).
* **`queue_fifo`**: the ring refines the FIFO (`ImplementsFifo`), the answers
  `QueueFull` and `QueueEmpty` included. `QueueIsSound`:
  items live once, and the approximate size exceeds the capacity by at most one,
  and only while a slot is being freed.
* **`server_lifecycle`**: no permit is held once the server stops
  (`NoSubmissionInStoppedServer`), the gate's state lives as long as its users
  (`StateOutlivesUsers`). `TeardownIsOrderly`: pump and listener have their port,
  the registry has its last word when no thread is left, and a server that is
  down, also after a start that failed, has let go of everything. A session has
  its handoff slot exactly as long as its actor (`SlotAndActorAgree`). Start,
  RequestStop, Shutdown and the destructor return (`CallsReturn`).
* **`handoff_order`**: the handoff refines the channel (`ImplementsChannel`), also
  when memory is short; a pump asleep has nothing to take (`NoLostWakeup`); a
  closed handoff lets the pump finish (`CloseReachesPump`). `DeferralIsSound`: slots
  and ring agree and, while memory is ample, facts are deferred only under a full
  queue and Closed is reported only when all is drained. While memory is ample,
  every end is delivered (`EndIsDelivered`). When it is short, a fact waits in its
  slot for a later pop, and a closed handoff may be left before it comes.
* **`session_io`**: `ContextsAccounted`: contexts, counters and completions agree,
  and an entry is erased only when the kernel and the mailboxes are done with it.
  The World has been told by then (`WorldHearsTheEnd`). The entry is erased, unless
  a completion was refused or a drain failed (`SoundSessionIsReclaimed`).
* **`world_buffers`**: no ingress or outbound slot is in two hands
  (`BuffersNeverShared`); events are handled and batches submitted once and in order
  (`StreamsInOrder`); Completed means that all events were handled and no worker
  failed (`CompletedMeansDrained`; it does not mean that every batch was submitted,
  see `LastBatchIsDrained` in section 5); a publisher that was told its buffer is
  finished and empty has submitted every batch (`EmptyMeansAllSubmitted`).
* **`world_workers`**: a shutdown ends (`ShutdownEnds`), and a worker that stops by
  itself ends the host (`WorkerStopEndsHost`).
* **`client_runtime`**: the channel stays in its records and no place of the send
  pipeline is lost or returned twice (`ChannelIsSound`); no operation outlives its
  connection (`NoIoOnFreedConnection`); as long as the port has refused no wake-up, a
  published command, a send the connection could post and a waiting shutdown always
  have somebody coming (`NothingStranded`; for a refused one see `ShutdownReturns` in
  section 5); at rest, and again without a refused wake-up, the worker and the channel
  agree on the connection (`RestingAgreement`, but for a lost command, section 5);
  the worker's own records accept every completion, success, disconnect and commit,
  and a failed connect unless the client is shut down and the worker's Stop is
  posted (`TransportNeverRefused`).
* **`client_shutdown`**: finding 1.
* **`world_simulation`**: the session table is one table, and it, the channels, the
  visible sets and the scores speak of the same sessions (`SessionsAreOneWorld`);
  scores, entities, their owners and resource slots describe one world
  (`EntitiesAreOneWorld`); the validations of tick, commit and plan never
  end the World (`WorldNeverStopsItself`); no client faults, but for finding 2
  (`ClientNeverFaults`); a ready client shows what the World thinks it shows
  (`ClientSeesItsWorld`); an ended round ends for every client as long as someone
  who played is there (`EveryoneHearsTheEnd`); a round begins in an empty world
  (`RoundsBeginEmpty`).
* **`world_stale_input`**: finding 2.

Every property of a passing run has a mutant: a changed definition, kept beside
the original, that stands for a plausible bug and breaks the property.

### Why the bounds are enough

* Scheduler: three producers on an actor with an in-flight limit of two give an old
  ticket, a new one and one that is refused. Three enqueues let a producer come
  back to an actor that was drained. Budget 2 against lanes of 2 covers a drain
  that ends below and at its budget. Two actors with one permit are what permits
  are for.
* Queue: five pushes into two slots go round the ring two and a half times, so a
  producer can hold a position a lap old.
* Server: two connections against room for one session make a refused reservation
  happen; two accept slots let one be posted while the other is handled. One
  gateway is enough for a submission under way when the stop comes; the count of
  several is covered by the proof.
* Handoff: three sessions against two queue places give a full queue with a
  deferred session, and a ring with two entries to rotate.
* World workers: two events through slots of two meet full, partly filled and empty
  slots; with slots of one, the last slot of a terminal drain would always be
  empty. Two ticks over two outbound slots let the coordinator meet a buffer
  without a free slot.
* Client: two attempts are needed for anything stale to meet something new; with two
  send places one send is queued behind another; one event place makes every second
  event deferred. A third attempt is needed for `LostConnect`. With it the run has
  6.78 million states and the same result, but takes minutes, so it is left to an
  occasional run (`MaxAttempts = 3`).
* Simulation: two players and a guest; a round of two ticks fits with its reset and
  the beginning of the next into four; two generations per slot let one be reused
  once and then retired; two steps per batch make a snapshot fall inside a batch;
  `MaxWait` lets the first round begin early, since a later start is the same behaviour
  shifted in time.

The bounds `MaxEnqueues`, `MaxPushes`, `MaxSends`, `MaxCloseCalls`, `MaxEvents`,
`MaxTicks`, `MaxTick`, `MaxConnections`, `MaxAttempts`, `MaxPostFailures`,
`MaxFlight`, `MaxSent`, `MaxWait`, `MaxHappenings` and `MaxHidden` limit what the environment
does, not what the code does with it.

Deadlock is checked for the scheduler, the queue and the World workers, whose end is
an explicit stuttering step. A destroyed server, an erased session, a drained
handoff, a client that was shut down and a World at its last tick have nothing
left to do.

## 4. Fairness

Only the code's own threads are fair, and weakly so; the threads are ordinary
operating-system threads that run when they can.

* `SessionActorScheduler`: producers inside `Enqueue`, workers, and the loop that
  wakes all workers. Nobody is obliged to enqueue or to stop.
* `ServerLifecycle`: the owner once it is in a call, the pump, the actor workers, and
  a submission under way. Clients, gateways outside a call and the World owe
  nothing.
* `ToWorldHandoff`: the pump keeps popping and waiting, and a `Close` under way
  notifies. Its time-out is not fair: progress must not depend on it.
* `SessionIoActor`: the worker, a send call under way, and the kernel once the
  socket is closed, since closing a socket ends its operations. An open socket
  may stay quiet for ever.
* `WorldWorkers`: the four threads, and the passing of the deadline. Bounded waits
  therefore end.

`ClientRuntime` and `WorldSimulation` state no fairness. What must not be forgotten
there is stated as an invariant on resting states (`NothingStranded`,
`RestingAgreement`, `EveryoneHearsTheEnd`).

## 5. Findings

1. **`client_shutdown`**: `HandleConnectCompletion` (`NI/NrClientTransport.cpp:372`)
   calls `RequestShutdown` when the channel is already in Shutdown; that releases
   the connection, and the handler goes on with it. A test of the repository
   states that a shutdown while connecting drains the connect; it only covers a
   shutdown command that is drained first.
2. **`world_stale_input`**: control admission compares generations only
   (`WS/WorldControlCommandAdmission.cpp:60`). The generation counts the uses of one
   slot, and a respawn may get another slot with the same generation. A command of
   the former life is then admitted and acknowledged, and the client faults. The
   protocol reference says that the generation filters input from before a respawn.

### Other deviations

These are seen by TLC on the same modules. Each has a definition or a place in the
model, and no run of its own. To see one that is named, check the
definition in place of the properties of the configuration.

* `ReadyActorIsReclaimed` (`Sched_progress.cfg`): `TryDeregisterClosedActor`
  (`NI/NrSessionActorRegistry.cpp:444`) does nothing while a lease is held, and is
  not tried again when the lease ends. A producer holds its lease until after it has
  woken the worker, so the actor's last run can end first, and the entry stays.
* `ClosedSessionIsReclaimed` (`Session_io.cfg` with lanes of 8 and no refused admission): a drain that fails on refused input
  leaves the send lane as it is (`NI/NrActorExecutor.cpp:25`). If a send completion
  waits there, no one schedules the actor again and the closed session is kept until
  the server shuts down.
* `LastBatchIsDrained` (`World_buffers.cfg`): the publisher reads the drain flag after
  a wait that timed out before the last batch was sealed
  (`WS/WorldOutboundPublisherWorker.cpp:91`), takes it for an empty buffer and leaves.
  The shutdown reports Completed with a batch never submitted.
* `ObserverFailureIsLocal` (`World_simulation.cfg`): an observer's baseline that
  cannot be made ends the World
  (`WS/WorldGameplayReplicationPlan.cpp:237`).
* If all players leave before a round's deadline, the results are not recorded and
  observers hear no end of the round; `EveryoneHearsTheEnd` says so in its premise.
* `ShutdownReturns` (`Client_runtime.cfg`), what `NothingStranded` leaves out: when the
  completion port refuses a wake-up, `RecordWakeFailure` stores the state Shutdown
  (`NI/NrClientCommandChannel.cpp:548`), and the worker hears nothing of it.
  `NrClient::Shutdown` finds the worker running, `SubmitShutdown` answers Success
  because of that state (`:245`) without a command, and the join
  (`NR/NrClient.cpp:179`) waits for a worker that nothing will end: port and kernel
  are empty. A first Shutdown whose own wake-up is refused returns the failure, and
  its repetition hangs. The wiki (`network-runtime/public-runtime-boundary.md:156`)
  says that Shutdown may be called repeatedly.
* Client: `SubmitConnect` clears the send generation after it has committed the
  command (`NI/NrClientCommandChannel.cpp:131`), so a connected client may refuse
  every send. A disconnect older than the worker's attempt is dropped, and if that
  attempt fails at once the channel stays Disconnecting (`LostDisconnect`, exempted
  in `RestingAgreement`). A stale disconnect beside a new connect, two deferred
  lifecycle events with one free place, and a command slot still occupied on a
  reconnect each end the worker; `TransportNeverRefused` leaves those exits out.
* Client: the worker decides by `SizeApprox` whether to defer a lifecycle event
  (`NR/NrClient.cpp:320`). While the caller is between the last two stores of a pop,
  with the freed place taken by a promoted event, the size reads one too large, the
  queue does not look full, the push fails and the handler with it (`:328`): the
  worker ends. `TransportNeverRefused` leaves this exit (`PushFull`) out.
* Client: a shutdown that is set while the connect is pending, and a connect that then
  fails: `RequestShutdown` (`NI/NrClientTransport.cpp:353`) has put the lifecycle
  record into Shutdown, which refuses the failure that follows (`:367`). The worker
  exits with InvalidState, having posted its Stop already, and the join returns that
  status.
* `StaleRecordChangesNothing` (`Client_runtime.cfg`): `RecordDisconnected` of the
  channel compares the generations and then moves a state that carries none
  (`NI/NrClientCommandChannel.cpp:379` and `:395`). A disconnect command left over
  from attempt 1 is handled while the caller is between the state and the
  generation of its next Connect; if the caller disconnects that attempt too before
  the compare-and-swap, attempt 2's channel goes back to Idle while its own Connect
  command still waits. A third Connect then finds the slot occupied and is refused,
  but has counted: channel and worker never agree on the generation again
  (`LostConnect`, exempted in `RestingAgreement`).
* `StaleSendIsDropped` (`Client_runtime.cfg`): a send that passed its checks before
  the worker began the disconnect is pushed after the queue was discarded
  (`NI/NrClientCommandChannel.cpp:178`). If the old connection's send is still in
  the kernel the drain leaves it (`NI/NrClientTransport.cpp:641`), and no one looks
  again: it keeps its place of the send pipeline, and its payload, until the
  client's next command. It is never sent. `NothingStranded` speaks only of sends of
  a connection that could post them.
* Server: the pump ends on any failed `PumpOnce` (`NI/NrServerGraphBuilder.cpp:223`),
  an ordinary failed accept included, while the server stays Running and accepts
  nobody. A failed Start leaves the handoff open, since the later Shutdown returns
  early. The wiki lists the slot reservation before the creation of the session and
  the code does the reverse, which is harmless.

## 6. Proofs

TLAPS checks these for every value of the constants that satisfies the named
assumptions.

**ServerLifecycle_proofs, the gate** (from `SubmissionGateAssumption`: finitely many gateways,
a positive limit). The two properties need one another's support. The inductive
invariant `SubmissionInv` conjoins

* `TypeOK`, and `CountsPermits`: the count in the word is the number of permit
  holders;
* `InvalidatedFirst`: a server that stops, or an owner that waits, has set the
  invalidated bit;
* `StoppedIsEmpty`: a server that has begun to stop holds no permit;
* `StateOutlivesUsers`: the reference count is the number of references, and the
  state is freed exactly when it is 0;
* `OwnerHasServer`: an owner inside a call has a server.

`CountsPermits` is what makes the owner's load of 0 mean that nobody is inside;
`InvalidatedFirst` is what keeps it so. The cardinality steps rest on
`MoveOne`, what one gateway's change of step does to the size of a set of
gateways, and on the library's theorems about finite sets. Results:
`StoppedServerIsQuiet` (`Spec => []NoSubmissionInStoppedServer`) and
`StateLifetime` (`Spec => []StateOutlivesUsers`).

**ServerLifecycle_proofs, the server** (from the same assumption). `ServerImplementsGate`
(`ServerSpec => Spec`): the server with all its components takes only steps of the
gate or leaves it alone (`ServerStepIsGateStep`, with one lemma for the actions
that do not touch the gate). The refinement mapping is the identity on the gate's
variables. `NoSubmissionDuringTeardown` then carries `StoppedServerIsQuiet` over to
the server for any number of gateways, slots, sessions and connections.

`TeardownNests` and `SlotAndActorComeTogether` come from a second invariant,
`ServerInv`. `TeardownIsOrderly` speaks of threads and components; what keeps it
is the owner's place in its plan, so `OwnerProgress` says how many components are
started at each place and `ComponentsNested` which of them that keeps up. A
session that is being made is known to the pump alone (`MakingInv`: its key is
fresh and its traces are those of the step reached), which is what makes every way
back out of it take both the handoff's place and the actor, or neither.
`RegistryInv` then says that nothing is left once the registry's turn has come.

**SessionActorScheduler_proofs** (from `SchedulerAssumption` and
`MaxProducerInFlightAssumption`). `TypeCorrect` (`Spec => []TypeOK`) for any
actors, producers, workers and capacities. `TypeOK` bounds the events a drain has
counted by its budget, which is not inductive; `TypeInv` adds that the count is
below the budget whenever the drain goes on. One lemma per gate operation says
that it maps words to words, so that the in-flight count never leaves its field,
and the step lemma has a case per action. The four safety properties of the scheduler
come from one invariant `SchedInv`, whose parts build on one another:

* `Shapes`: a key travels only through the queue and the locals of its own shard;
* `LeaseInv`: a registry entry's lease count is the number of its holders, counted
  over producers and the shard's worker. It gives `LeasedActorIsSafe`;
* `GateInv`: the count in the schedule word is the number of ticket holders, and
  each phase stands for what somebody is doing (Draining for a worker inside a
  drain, Admitting for one producer with a new permit);
* `TokenInv`: an actor's ready token is in exactly one place, its shard's queue, a
  worker that has taken it, or a thread that owes the push. It exists exactly
  while the gate is Scheduled. With `GateInv` it gives `TicketsAndTokensAreExact`;
* `PermitInv`: the permits of a shard are the actors and producers that use one.
  Queue places then suffice by counting (`PermitsAlwaysSuffice`), since tokens are
  distinct keys of the shard;
* `MailInv`: whatever is in a lane is promised another drain, by the Pending bit, by
  the worker's decision, or by a producer that has published or will and has not
  completed. Without the promises `NoStrandedMail` is not inductive: the drain's
  last look at a lane and its settlement of the gate are separate steps
  (`MailIsNeverStranded`).

**WorldWorkers_proofs** (from `WorldWorkersAssumption` and
`OutboundSlotsAssumption`: two or three outbound slots). `WorkersInv` was first
checked by TLC on the instance of `World_workers.cfg`, and on one with slots of
one, three events and three outbound slots. The run's properties speak of contents;
the invariant ties the four threads' program counters to the claims and flags they
share, and says of each stream where its pieces are:

* `ClaimInv`, `ContentInv`, `EventInv`: a claim on an ingress slot is a place in the
  pump's or the coordinator's code; the read slot is empty when it is given back;
  the events handed over are one sequence cut into five places. They give
  `BuffersAreNeverShared` and half of `StreamsStayInOrder`;
* `BufferInv`, `BatchInv`: an outbound slot is in one state and queued once, and
  the sealed epochs are those submitted, the one in hand and those queued;
* `TurnInv`: after gameplay has stopped there is one plan, then one completion,
  never both, and the coordinator waits while the pump works;
* `EndInv`, `PublisherInv`, `ReportInv`: the news that the source is done travels
  from the queue to the host, and at each place it still holds that nothing is left
  behind it. The pump itself never completes a plan with reason Completed, and a
  worker whose reason is Completed has ended (`CompletedHasDrained`,
  `EmptyHasSubmittedAll`);
* `FullInv`, `EpochInv`: a plan answered `SealedFull` costs a slotful of events,
  which bounds the epochs and with them the types. The first such answer is an
  exception: the pump may have found full a slot that a tick has emptied since.

**BoundedMpscQueue_proofs** (from `QueueAssumption`, where the capacity is at least
two). `QueueInv` reads the sequence numbers as a window of `Capacity` positions that
starts at `head`: at or after `enqueuePos_` a position is free, before it one is
reserved, by exactly one producer, or filled. Two positions with one slot are a lap
apart, which is arithmetic on `%` proved from division with remainder. A producer
that read a stale position either sees another sequence or is inside the window
(`SlotSeen`), the point at which a capacity of one would fail. `QueueStaysSound`
follows; `RingImplementsFifo` proves the refinement `ImplementsFifo` with one lemma
per action: the compare-and-swap that succeeds is `Reserve`, the store of the
sequence `Publish`, the consumer's store `Pop`, a sequence that is too small
`RejectFull`, one that is not the next position's `ReportEmpty` (its position is
free or reserved, by the window), and every other step is a stutter.

**SessionIoActor_proofs** (from `SessionIoActorAssumption`). A drain's turn is one
action that runs a whole handler, calls included, so every handler has one
`Outcome` lemma saying what it may have done to the actor and to the two lanes:
what it appended, whether it closed the session, which count it moved. The lemmas
per action speak of outcomes only. Lanes are counted (`Count`), and `CountAppend`
and `CountTail` say what an append and a pop change; they rest on the library's
theorems about finite sets. `IoInv`, checked by TLC on the instance of
`Session_io.cfg` first, conjoins

* `TypeOK`, and `ActorSound`: the socket is open exactly until a close is requested,
  so that a closed session posts nothing more;
* `OneCompletionPerContext`: a context that is pending has its operation in the
  kernel, its completion in the actor's lane, or a completion that was lost, and
  only one of these;
* `BirthInv`: nothing of a session precedes its Accepted;
* `EndInv`: only a closed session's entry leaves Active, and one that is ready to
  be reclaimed or has been erased has no operation pending;
* `RunInv`: a run that reports a failure has closed the session first.

`ContextsAreAccounted` and `TheEndIsHeard` follow.

**ToWorldHandoff_proofs** (from `ToWorldHandoffAssumption`). A pop runs two loops
inside one step: `PromotePending` takes a turn for every session in the ring, and
`TryPopBatch` pops and promotes up to a number of events. Both are recursive
functions, so what they do to a ring of any length needs induction. The library's
induction theorems take an operator, which the provers cannot instantiate; the
proofs use `SetInduction` instead, the same principle for a set of numbers, which
follows from the well-foundedness of `<` on `Nat` (`LeastNat`), and
`RecursionHasSolution`, which gives a recursive definition over `0 .. limit` its
defining equations. `FactsOf`, the facts of one session in the queue, is treated the
same way (`FactsAppend`, `FactsTail`). `HandoffInv`, checked by TLC on the instance of
`Handoff_order.cfg` first, conjoins

* `HandoffSound`: each slot is in the ring, once, exactly when it has a fact to
  publish, facts are committed in their order, and queue and slots respect their
  capacities. That the ring always has room for a session that must wait follows
  (`RoomInRing`), so the code's check for a full ring never drops a fact;
* `WaitsOnlyWhenFull`, while allocations succeed;
* `RecordInv`: the history of what was recorded is what the slot says;
* `ConsumerInv`: the pump sleeps beside an empty queue only, and leaves a closed
  handoff only.

`DeferralSound` and `NoWakeupLost` follow. For `HandoffImplementsChannel` the lemmas
per action also say what became of `Content`, a session's facts in the queue followed
by those in its slot: recording appends one, a promotion moves one from slot to queue
and changes nothing (`AppendMoves`), and a batch removes each session's oldest
(`Delivered`), whatever the events of other sessions between them.

**ClientRuntime_proofs** (from `ClientRuntimeAssumption`; definitions in
`ClientRuntime_invariant`). All five invariants of the run, from three inductive
invariants that stand on one another; TLC checked their conjunction on the instance of
`Client_runtime.cfg` before any was proved.

`IInv` has a part per group of variables. The run's `NoIoOnFreedConnection` speaks of
the gens of operations; what keeps it is that a connection is released only where its
flags say that nothing is pending, so the flags have to be right and the worker has to
be at a place where they mean something:

* `OpsPart`: each pending flag of the connection stands for one operation, in the
  kernel or with its completion on the port, never in both (`OpsAccounted`), and the
  port holds at most one packet of a kind;
* `TransportPart`: what the lifecycle record, the connection and the disconnect in
  progress allow one another (`ConnectionSound`), and what each place in the worker's
  code says of them (`WorkerFits`);
* `SendsPart`: the places of the send pipeline are accounted for;
* `GatePart`: the phase of the schedule gate is what the caller's admission, the
  worker's drain and the posted packet make it;
* `CallerPart`, `ChannelPart`, `SlotsPart`, `StorePart`: the records, and what each
  place of the caller says of its command.

They give `ChannelSoundness` and `OperationsHaveTheirConnection`.

`Promises` says what is still to come. A command in its slot has a drain that will
look at that slot (`CommandsPart`: pending, scheduled, or a scan that has not passed
it); a signal that a place is free in the event queue is told once
(`WakePart`); a shutdown is in its slot until the transport has it, and then a Stop is
posted when the last operation returns (`ShutdownPart`). Most steps of the worker are
turns inside a drain, and `TurnKeeps` says once what such a step owes; a lemma per
action then shows that it is one. A failed connect that the lifecycle refuses needs
one part more (`RefusedPart`): only `RequestShutdown` in the same handler brings it
about, it leaves the Stop posted, and the worker does nothing after it but exit.
`TransportNeverRefusedHolds` follows.

`Agreement` relates the two records of the connection, which two threads write at
different times: the attempts they count and the one in the Connect slot
(`AttemptsPart`, `AheadPart`), the attempts that may send (`OpenedPart`), the event the
worker is about to report (`EventPart`), the channel's state while both are of one
attempt (`StatePart`, `EndPart`), and that a queued send of the present connection is
looked at unless a disconnect, a shutdown or a new Connect comes first (`QueuedPart`).
It claims nothing once a wake-up has been refused or the worker has failed. Steps of
the worker that leave the channel alone are shown to be `Calm`, those of the caller that
leave the slots alone to be `Mild`; the rest (numbering an attempt, publishing a
command, the channel's Record operations) have a proof of their own.
`NothingIsStranded` and `RestingAgreementHolds` follow. The exceptions that
`RestingAgreement` names are needed: the two lost commands are states TLC reaches.

**WorldSimulation_proofs** (from no assumption beyond the types of the constants and
that there are finitely many resource slots). Two inductive invariants. For the first,
the session table is a dense vector that swaps entries to keep its joined prefix in front,
so the first part says, operator by operator, what a bind, a respawn or a removal does
to the set of joined sessions while the index keeps finding everybody (`Places`,
`SwapPlaces`, `RemovePlaces`). The inductive invariant `Agree` then speaks of sets. To
what `SessionsAreOneWorld` says it adds that no two sessions play the same player,
that a player id is given out once, and that drops are pending only while a round
runs. The second is what makes the rollback of a failed join safe: it takes away a
score only if it finds one under the id, which is then its own (`JoinStep`). The third
is needed for the reset, whose last leaver must not leave a drop for the next round.
`SessionsAreOneWorldHolds` and `RoundsBeginEmptyHolds` follow.

The second, `Whole`, takes the first for granted and adds entities and time. `World`
relates entities, scores, resources, slots and pending drops: every slot of the entity
registry is in use, in the free list once, or retired at its last generation; no key
is given out twice (`Issued`, the keys up to the generation of each slot), so that the
key of a dead player, of a drop or of an owner is never the key of a new entity; an
entity is a player that is alive or a resource; a slot is active exactly when one
resource stands for it. `OwnersSound` says whose entity each key is, and `Control` keeps
the time of batch and round: what waits to be recorded is for sessions that have a
channel, the area of a processed tick is known before it is needed, and a round ends
at a tick that is neither past nor too far ahead.

The proof goes up from one entity (`Created`, `EntityRemoved`) to several. The code's
loops are recursive functions over their steps; `SetInduction`, induction over a set of
numbers instead of a predicate, shows that such a function exists (`MadeForm`,
`LeftForm`) and what its last value is (`CreatedAll`, `RemovedAll`), and `InOrderLists`
that the sorted vectors the loops run over name every element once. With these each
rule of the game takes a `World` to a `World`: `JoinedWorld`, `RolledBackWorld`,
`LeftWorld`, `RespawnedWorld`, `ResetWorld` and `CommitWorld`. The last, for any outcome
of a tick, needs that a refilled slot was free or is emptied by the same tick. One lemma per
action (`JoinKeeps`, `TickKeeps`, `RecordKeeps` and so on) then shows that the checks the
code makes of itself pass: `JoinFits` for the baseline of a join and its binding,
`TickIsValid` and `TickAccepts` for the tick, the commit and the respawn,
`ViewsPlannable` and `SnapshotsBuildable` for the replication.
`EntitiesAreOneWorldHolds` and `WorldNeverStopsItselfHolds` follow.

Definitions were made precise on the way, or written so that the provers can read
them. The registry of `WorldSimulation` rebinds the respawned players in one step
(the calls touch different entries); partial functions are extended by an operator
of the project instead of TLC's `@@`; loops over several entities are recursive
functions instead of folds; and the drops of a tick are counted together, since
nothing tells whose they were. Two checks of the drop snapshots (no
player has their key, no two have the same) were missing from `Committable`.

In the other modules four definitions changed: `Queued` of `ToWorldHandoff` is
defined by recursion over the queue, no longer as a selected subsequence; `Count` of
`SessionIoActor` is a cardinality, no longer the length of a selected subsequence; the
gate of `ServerLifecycle`'s shutdown had overlapping `CASE` guards; and two of the
scheduler's place tags coincided when a worker and a producer had the same
identity.

## 7. Only model-checked

* Liveness under fairness (`MailIsServed`, `StopJoinsWorkers`, `CallsReturn`,
  `EndIsDelivered`, `CloseReachesPump`, `SoundSessionIsReclaimed`, `ShutdownEnds`,
  `WorkerStopEndsHost`): beyond the prover.
* The three invariants of `WorldSimulation` about the clients (`ClientNeverFaults`,
  `ClientSeesItsWorld`, `EveryoneHearsTheEnd`): a client applies the messages of a batch
  one after the other, a fold over a sequence that the World puts together from many
  parts in several steps. The induction used for the World's own loops applies in
  principle; an invariant of a half-told batch, and one lemma for each kind of
  message, are not written.

## 8. Not modelled, and why

* Weak memory: every module takes an atomic operation as one step in one order of
  all operations. The acquire and release annotations of the gate and the queue
  are taken to give that for the values that matter. The application logger's
  shutdown (`ApplicationLogger.cpp:261`) depends on exactly this and would need a
  store buffer; the rest of the logger is formatting and files.
* Building and configuring the component graph: allocations and validation before
  any thread exists. A server whose Create failed does not exist.
* Sockets, completion ports and other operating-system calls: what they deliver is
  an environment step. Kernel writes to an `OVERLAPPED` after the port is closed,
  and a failed `PostQueuedCompletionStatus` on the server, are not modelled.
* Memory pool: a free list under one mutex; its exhaustion is a choice in the
  modules that use it.
* Packet framing, protocol codec, C ABI: byte layouts. Payload bytes, end reasons,
  statistics and diagnostics decide nothing in the modelled parts except where a
  refusal stands for them.
* Fixed-step schedule: clock arithmetic; `WorldSimulation` takes the number of steps
  of a batch as a choice up to the cap.
* Host process: files, pipes, command lines, and one write queue under a mutex.
* Physics, movement and geometry: floating point. Chunking, prediction, time
  estimation and presentation of the game client.
* The movement command of protocol version 1, rate-limited logging and allocation
  failures of the World.
* Tests, benchmark and smoke programs, vendored libraries. Together with the byte
  and presentation code above they are most of the repository's lines, which is why
  the mapped lines are a small share of them.

## 9. Plan

Done, in order of importance: schedule gate and scheduler; the MPSC ring and its
refinement; submission gate with its proofs; handoff, channel and session actor;
World workers and double buffers; client runtime; World sessions, gameplay,
replication and game client; server lifecycle, I/O pump and listener with the proof
that it implements the gate.

Then the proofs: the scheduler's safety, the server's teardown, the World workers,
the ring with its refinement, the session's I/O actor, the handoff with its
refinement, the five invariants of the client, and the World's sessions, entities
and rounds.

Left:

1. Proofs of the three invariants of `WorldSimulation` about its clients.
2. The host's artifact write queue, the memory pool, and the logger with a store
   buffer.
