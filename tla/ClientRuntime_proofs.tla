------------------------ MODULE ClientRuntime_proofs ------------------------
(***************************************************************************)
(* Proofs about ClientRuntime, for every value of the constants.  IInv     *)
(* gives ChannelIsSound and NoIoOnFreedConnection, Promises gives          *)
(* TransportNeverRefused, Agreement gives NothingStranded and              *)
(* RestingAgreement.  ClientRuntime_invariant defines the three.           *)
(***************************************************************************)
EXTENDS ClientRuntime_invariant, SequenceTheorems, TLAPS

----------------------------------------
\* The completion port.
\* A packet of a kind the port does not hold joins the others.
LEMMA AppendPort ==
  ASSUME NEW p \in Seq(Packets), NEW e \in Packets, NEW gen,
         Distinct(p), OfAttempt(p, gen), e.kind \notin Kinds(p),
         e.kind \in IoOps => e.gen = gen
  PROVE  /\ Append(p, e) \in Seq(Packets)
         /\ Kinds(Append(p, e)) = Kinds(p) \cup {e.kind}
         /\ Distinct(Append(p, e))
         /\ OfAttempt(Append(p, e), gen)
<1> DEFINE longer == Append(p, e)
           last == Len(p) + 1
<1>1. Len(p) \in Nat /\ DOMAIN p = 1 .. Len(p) BY LenProperties
<1>2. longer \in Seq(Packets) /\ Len(longer) = last BY AppendProperties
<1>3. DOMAIN longer = 1 .. last BY <1>2, LenProperties
<1>4. (\A i \in 1 .. Len(p) : longer[i] = p[i]) /\ longer[last] = e BY AppendProperties
<1> HIDE DEF longer
<1>5. \A i \in DOMAIN longer : i \in DOMAIN p \/ i = last BY <1>1, <1>3
<1>6. DOMAIN p \subseteq DOMAIN longer /\ last \in DOMAIN longer BY <1>1, <1>3
<1>7. \A i \in DOMAIN p : longer[i] = p[i] BY <1>1, <1>4
<1> HIDE DEF last
<1>8. Kinds(longer) = Kinds(p) \cup {e.kind} BY <1>4, <1>5, <1>6, <1>7 DEF Kinds
<1>9. \A i \in DOMAIN p : p[i].kind # e.kind BY DEF Kinds
<1>10. Distinct(longer)
  <2> SUFFICES ASSUME NEW i \in DOMAIN longer, NEW j \in DOMAIN longer,
                      longer[i].kind = longer[j].kind
               PROVE  i = j
    BY DEF Distinct
  <2>1. CASE i \in DOMAIN p /\ j \in DOMAIN p BY <2>1, <1>7 DEF Distinct
  <2>2. CASE i = last /\ j = last BY <2>2
  <2>3. CASE i \in DOMAIN p /\ j = last BY <2>3, <1>4, <1>7, <1>9
  <2>4. CASE i = last /\ j \in DOMAIN p BY <2>4, <1>4, <1>7, <1>9
  <2> QED BY <1>5, <2>1, <2>2, <2>3, <2>4
<1>11. OfAttempt(longer, gen) BY <1>4, <1>5, <1>7 DEF OfAttempt
<1> QED BY <1>2, <1>8, <1>10, <1>11 DEF longer

\* Taking the first packet takes its kind.
LEMMA TailPort ==
  ASSUME NEW p \in Seq(Packets), p # <<>>, NEW gen, Distinct(p), OfAttempt(p, gen)
  PROVE  /\ Tail(p) \in Seq(Packets) /\ Head(p) \in Packets
         /\ Head(p).kind \in Kinds(p)
         /\ Kinds(Tail(p)) = Kinds(p) \ {Head(p).kind}
         /\ Distinct(Tail(p)) /\ OfAttempt(Tail(p), gen)
         /\ Head(p).kind \in IoOps => Head(p).gen = gen
<1> DEFINE rest == Tail(p)
<1>1. Len(p) \in Nat \ {0} /\ DOMAIN p = 1 .. Len(p) /\ Head(p) = p[1] BY LenProperties, EmptySeq
<1>2. rest \in Seq(Packets) /\ Len(rest) = Len(p) - 1 BY HeadTailProperties
<1>3. DOMAIN rest = 1 .. Len(p) - 1 BY <1>2, LenProperties
<1>4. \A i \in 1 .. Len(p) - 1 : rest[i] = p[i + 1] BY <1>3, HeadTailProperties
<1> HIDE DEF rest
<1>5. \A i \in DOMAIN rest : i + 1 \in DOMAIN p /\ i + 1 # 1 /\ rest[i] = p[i + 1]
  BY <1>1, <1>3, <1>4
<1>6. \A j \in DOMAIN p : j = 1 \/ (j - 1 \in DOMAIN rest /\ rest[j - 1] = p[j])
  BY <1>1, <1>3, <1>4
<1>7. 1 \in DOMAIN p /\ Head(p).kind \in Kinds(p) BY <1>1 DEF Kinds
<1>8. \A i \in DOMAIN rest : rest[i].kind # Head(p).kind BY <1>1, <1>5, <1>7 DEF Distinct
<1>9. Kinds(rest) = Kinds(p) \ {Head(p).kind}
  <2>1. ASSUME NEW x \in Kinds(rest) PROVE x \in Kinds(p) /\ x # Head(p).kind
    BY <1>5, <1>8 DEF Kinds
  <2>2. ASSUME NEW x \in Kinds(p), x # Head(p).kind PROVE x \in Kinds(rest)
    <3>1. PICK j \in DOMAIN p : x = p[j].kind BY DEF Kinds
    <3> QED BY <3>1, <2>2, <1>1, <1>6 DEF Kinds
  <2> QED BY <2>1, <2>2
<1>10. Distinct(rest)
  <2> SUFFICES ASSUME NEW i \in DOMAIN rest, NEW j \in DOMAIN rest,
                      rest[i].kind = rest[j].kind
               PROVE  i = j
    BY DEF Distinct
  <2>1. i + 1 = j + 1 BY <1>5 DEF Distinct
  <2> QED BY <2>1, <1>3
<1>11. OfAttempt(rest, gen) BY <1>5 DEF OfAttempt
<1>12. Head(p) \in Packets /\ (Head(p).kind \in IoOps => Head(p).gen = gen)
  BY <1>1, <1>7, HeadTailProperties DEF OfAttempt
<1> QED BY <1>2, <1>7, <1>9, <1>10, <1>11, <1>12 DEF rest

----------------------------------------
\* The account of the operations.
\* An operation is done: its packet is taken, its flag cleared.
LEMMA OpsDone ==
  ASSUME NEW t, NEW u, NEW k, NEW p \in Seq(Packets), p # <<>>,
         OpsAccounted(t, k, p), Head(p).kind \in IoOps,
         u.conn = t.conn, u.stopPosted = t.stopPosted,
         \A op \in IoOps : Pending(u, op) <=> Pending(t, op) /\ op # Head(p).kind
  PROVE  /\ OpsAccounted(u, k, Tail(p)) /\ Tail(p) \in Seq(Packets)
         /\ Pending(t, Head(p).kind) /\ Head(p).gen = t.conn
         /\ ~ Held(k, Head(p).kind)
         /\ Head(p).kind \notin Kinds(Tail(p))
<1>1. /\ Tail(p) \in Seq(Packets) /\ Head(p).kind \in Kinds(p)
      /\ Kinds(Tail(p)) = Kinds(p) \ {Head(p).kind}
      /\ Distinct(Tail(p)) /\ OfAttempt(Tail(p), t.conn) /\ Head(p).gen = t.conn
  BY TailPort DEF OpsAccounted
<1> QED BY <1>1 DEF OpsAccounted, IoOps

\* A control packet is taken.
LEMMA OpsControlTaken ==
  ASSUME NEW t, NEW k, NEW p \in Seq(Packets), p # <<>>,
         OpsAccounted(t, k, p), Head(p).kind \notin IoOps
  PROVE  /\ OpsAccounted(t, k, Tail(p)) /\ Tail(p) \in Seq(Packets)
         /\ Kinds(Tail(p)) = Kinds(p) \ {Head(p).kind} /\ Head(p).kind \in Kinds(p)
<1>1. /\ Tail(p) \in Seq(Packets) /\ Head(p).kind \in Kinds(p)
      /\ Kinds(Tail(p)) = Kinds(p) \ {Head(p).kind}
      /\ Distinct(Tail(p)) /\ OfAttempt(Tail(p), t.conn)
  BY TailPort DEF OpsAccounted
<1> QED BY <1>1 DEF OpsAccounted

\* A control packet is posted.
LEMMA OpsControlPosted ==
  ASSUME NEW t, NEW u, NEW k, NEW p \in Seq(Packets), NEW kind \in {"Commands", "Stop"},
         OpsAccounted(t, k, p), kind \notin Kinds(p),
         u.conn = t.conn, \A op \in IoOps : Pending(u, op) <=> Pending(t, op),
         t.stopPosted => u.stopPosted, kind = "Stop" => u.stopPosted
  PROVE  /\ OpsAccounted(u, k, Append(p, Control(kind)))
         /\ Append(p, Control(kind)) \in Seq(Packets)
         /\ Kinds(Append(p, Control(kind))) = Kinds(p) \cup {kind}
<1>1. Control(kind) \in Packets /\ Control(kind).kind = kind /\ kind \notin IoOps
  BY ClientRuntimeAssumption DEF Control, Packets, PortKinds, Generations, IoOps
<1>2. LET longer == Append(p, Control(kind)) IN
      /\ longer \in Seq(Packets) /\ Kinds(longer) = Kinds(p) \cup {kind}
      /\ Distinct(longer) /\ OfAttempt(longer, t.conn)
  BY <1>1, AppendPort DEF OpsAccounted
<1> QED BY <1>1, <1>2 DEF OpsAccounted

\* An operation is posted to the kernel.
LEMMA OpsPosted ==
  ASSUME NEW t, NEW u, NEW k, NEW p, NEW op \in IoOps,
         OpsAccounted(t, k, p), ~ Held(k, op), op \notin Kinds(p),
         u.conn = t.conn, u.stopPosted = t.stopPosted,
         \A x \in IoOps : Pending(u, x) <=> Pending(t, x) \/ x = op
  PROVE  OpsAccounted(u, k \cup {[op |-> op, gen |-> t.conn]}, p)
<1> DEFINE o == [op |-> op, gen |-> t.conn]
           more == k \cup {o}
<1>1. o.op = op /\ o.gen = t.conn OBVIOUS
<1>2. \A x : x \in more <=> x \in k \/ x = o OBVIOUS
<1> HIDE DEF o, more
<1>3. \A x \in IoOps : Held(more, x) <=> Held(k, x) \/ x = op BY <1>1, <1>2 DEF Held
<1>4. OpsAccounted(u, more, p) BY <1>1, <1>2, <1>3 DEF OpsAccounted
<1> QED BY <1>4 DEF o, more

\* The account reads the attempt, the flags and stopPosted only.
LEMMA OpsSame ==
  ASSUME NEW t, NEW u, NEW k, NEW p, OpsAccounted(t, k, p),
         u.conn = t.conn, t.stopPosted => u.stopPosted,
         \A op \in IoOps : Pending(u, op) <=> Pending(t, op)
  PROVE  OpsAccounted(u, k, p)
  BY DEF OpsAccounted

\* Without an operation pending the attempt may change.
LEMMA OpsNone ==
  ASSUME NEW t, NEW u, NEW k \in SUBSET Operations, NEW p, OpsAccounted(t, k, p),
         t.stopPosted => u.stopPosted,
         \A op \in IoOps : ~ Pending(t, op) /\ ~ Pending(u, op)
  PROVE  OpsAccounted(u, k, p)
<1>1. \A op \in IoOps : ~ Held(k, op) /\ op \notin Kinds(p) BY DEF OpsAccounted
<1>2. k = {} BY <1>1 DEF Held, Operations
<1>3. OfAttempt(p, u.conn) BY <1>1 DEF OfAttempt, Kinds
<1> QED BY <1>1, <1>2, <1>3 DEF OpsAccounted

\* The kernel completes an operation.
LEMMA OpsComplete ==
  ASSUME NEW t, NEW k \in SUBSET Operations, NEW p \in Seq(Packets),
         OpsAccounted(t, k, p), NEW o \in k, NEW e \in Packets,
         e.kind = o.op, e.gen = o.gen
  PROVE  /\ OpsAccounted(t, k \ {o}, Append(p, e))
         /\ Append(p, e) \in Seq(Packets)
         /\ Kinds(Append(p, e)) = Kinds(p) \cup {o.op}
<1> DEFINE longer == Append(p, e)
           less == k \ {o}
<1>1. o.op \in IoOps /\ Held(k, o.op) /\ o.gen = t.conn BY DEF Operations, Held, OpsAccounted
<1>2. o.op \notin Kinds(p) BY <1>1 DEF OpsAccounted
<1>3. /\ longer \in Seq(Packets) /\ Kinds(longer) = Kinds(p) \cup {o.op}
      /\ Distinct(longer) /\ OfAttempt(longer, t.conn)
  BY <1>1, <1>2, AppendPort DEF OpsAccounted
<1>4. \A x \in k : x.op = o.op => x = o BY DEF Operations, OpsAccounted
<1>5. \A x : x \in less <=> x \in k /\ x # o OBVIOUS
<1> HIDE DEF longer, less
<1>6. \A op \in IoOps : Held(less, op) <=> Held(k, op) /\ op # o.op BY <1>4, <1>5 DEF Held
<1>7. "Stop" \in Kinds(longer) => t.stopPosted BY <1>1, <1>3 DEF OpsAccounted, IoOps
<1>8. OpsAccounted(t, less, longer) BY <1>1, <1>3, <1>5, <1>6, <1>7 DEF OpsAccounted
<1> QED BY <1>3, <1>8 DEF longer, less

----------------------------------------
\* Where a handler goes on.
LEMMA IdleWorkerShape ==
    /\ IdleWorker \in WorkerStates
    /\ IdleWorker.pc = "Pump" /\ IdleWorker.inDrain = FALSE /\ IdleWorker.event = NoEvent
    /\ IdleWorker.status = "Ok"
<1>1. NoEvent \in [kind: EventKinds \cup {"None"}, gen: Generations]
  BY ClientRuntimeAssumption DEF NoEvent, Generations
<1> QED BY <1>1 DEF IdleWorker, WorkerStates, WorkerPcs, Statuses

LEMMA ReturnOkShape ==
  ASSUME NEW w \in WorkerStates
  PROVE  /\ ReturnOk(w) \in WorkerStates
         /\ ReturnOk(w).pc \in {"Pump", "Scan", "CompleteDrain"}
         /\ ReturnOk(w).event = NoEvent /\ ReturnOk(w).status = "Ok"
         /\ ReturnOk(w).pc = "Scan" => ReturnOk(w).scan = 1
         /\ ReturnOk(w).inDrain = w.inDrain
         /\ ReturnOk(w).pc = "Pump" <=> ~ w.inDrain
         /\ ReturnOk(w).pc = "CompleteDrain" => ReturnOk(w).drained = DrainBudget
<1>1. w.inDrain \in BOOLEAN /\ w.drained \in Nat BY DEF WorkerStates
<1>2. NoEvent \in [kind: EventKinds \cup {"None"}, gen: Generations]
  BY ClientRuntimeAssumption DEF NoEvent, Generations
<1>3. CASE ~ w.inDrain
  <2>1. ReturnOk(w) = IdleWorker BY <1>3 DEF ReturnOk
  <2> QED BY <1>1, <1>3, <2>1, IdleWorkerShape
<1>4. CASE w.inDrain
  <2> DEFINE v == [pc |-> IF w.drained + 1 = DrainBudget THEN "CompleteDrain" ELSE "Scan",
                   inDrain |-> TRUE, drained |-> w.drained + 1, scan |-> 1,
                   ok |-> FALSE, event |-> NoEvent, status |-> "Ok"]
  <2>1. ReturnOk(w) = v BY <1>4 DEF ReturnOk, IdleWorker
  <2>2. v \in WorkerStates BY <1>1, <1>2 DEF WorkerStates, WorkerPcs, Statuses
  <2> QED BY <1>4, <2>1, <2>2
<1> QED BY <1>1, <1>3, <1>4

LEMMA FailedShape ==
  ASSUME NEW w \in WorkerStates, NEW site \in Statuses
  PROVE  /\ ReturnFailed(w, site) \in WorkerStates
         /\ ReturnFailed(w, site).pc = IF w.inDrain THEN "CompleteDrain" ELSE "Exit"
         /\ ReturnFailed(w, site).status = site
         /\ ReturnFailed(w, site).inDrain = w.inDrain
         /\ ReturnFailed(w, site).event = w.event
<1>1. /\ w.inDrain \in BOOLEAN
      /\ w = [pc |-> w.pc, inDrain |-> w.inDrain, drained |-> w.drained,
              scan |-> w.scan, ok |-> w.ok, event |-> w.event, status |-> w.status]
  BY DEF WorkerStates
<1>2. "CompleteDrain" \in WorkerPcs /\ "Exit" \in WorkerPcs BY DEF WorkerPcs
<1> QED BY <1>1, <1>2 DEF ReturnFailed, WorkerStates

LEMMA GotoShape ==
  ASSUME NEW w \in WorkerStates, NEW pc \in WorkerPcs
  PROVE  /\ Goto(w, pc) \in WorkerStates
         /\ Goto(w, pc).pc = pc
         /\ Goto(w, pc).status = w.status /\ Goto(w, pc).ok = w.ok
         /\ Goto(w, pc).inDrain = w.inDrain /\ Goto(w, pc).drained = w.drained
         /\ Goto(w, pc).event = w.event /\ Goto(w, pc).scan = w.scan
  BY DEF Goto, WorkerStates

LEMMA ToPublishShape ==
  ASSUME NEW w \in WorkerStates, NEW kind \in EventKinds, NEW gen \in Generations
  PROVE  /\ ToPublish(w, kind, gen) \in WorkerStates
         /\ ToPublish(w, kind, gen).pc = "Publish"
         /\ ToPublish(w, kind, gen).inDrain = w.inDrain
         /\ ToPublish(w, kind, gen).event.kind = kind
         /\ ToPublish(w, kind, gen).event.gen = gen
<1> DEFINE e == Event(kind, gen)
           v == ToPublish(w, kind, gen)
<1>1. e \in [kind: EventKinds \cup {"None"}, gen: Generations]
      /\ e.kind = kind /\ e.gen = gen
  BY DEF Event
<1>2. "Publish" \in WorkerPcs BY DEF WorkerPcs, EventPcs
<1>3. v = [w EXCEPT !.pc = "Publish", !.event = e] BY DEF ToPublish
<1> HIDE DEF e, v
<1>4. /\ v \in WorkerStates /\ v.pc = "Publish" /\ v.inDrain = w.inDrain
      /\ v.event = e
  BY <1>1, <1>2, <1>3 DEF WorkerStates
<1> QED BY <1>1, <1>4 DEF v

\* An event of the lifecycle is to be published, and the lifecycle says so.
LEMMA ToPublishFits ==
  ASSUME NEW t, NEW w \in WorkerStates, NEW kind \in EventKinds, NEW gen \in Generations,
         w.pc \notin {"Exit", "Stopped", "Crashed"},
         Life!NextPendingKind(t.life) = kind, kind # "Packet",
         kind = "Connected" <=> t.conn # 0,
         t.disconnecting => kind = "Disconnected", kind = "Connected" => ~ t.connectIo
  PROVE  /\ WorkerFits(t, ToPublish(w, kind, gen))
         /\ Draining(ToPublish(w, kind, gen)) <=> Draining(w)
         /\ Publishing(ToPublish(w, kind, gen))
<1> DEFINE v == ToPublish(w, kind, gen)
<1>1. v.pc = "Publish" /\ v.inDrain = w.inDrain /\ v.event.kind = kind BY ToPublishShape
<1> HIDE DEF v
<1>2. Publishing(v) BY <1>1 DEF Publishing, EventPcs
<1>3. WorkerLocal(v) BY <1>1 DEF WorkerLocal
<1>4. DisconnectGoesOn(t, v) BY <1>1, <1>2 DEF DisconnectGoesOn
<1>5. PlaceFits(t, v) BY <1>1, <1>2 DEF PlaceFits, EventKinds
<1>6. WorkerFits(t, v) /\ (Draining(v) <=> Draining(w))
  BY <1>1, <1>3, <1>4, <1>5 DEF WorkerFits, Draining
<1> QED BY <1>2, <1>6 DEF v

LEMMA PcsTyped ==
    /\ EventPcs \subseteq WorkerPcs
    /\ {"Pump", "Scan", "ConsumeSend", "CompleteDrain", "ConnectShutdown",
        "ConnectOutcome", "PublishPacket", "StartNextSend", "Finish",
        "Promote", "RecordConnected", "OpenSends", "RecheckConnected",
        "RecordFailed", "FailedIdle", "RecordDisconnected",
        "DisconnectedIdle", "Exit", "Stopped", "Crashed"} \subseteq WorkerPcs
  BY DEF WorkerPcs

\* A handler that returns leaves a disconnect under way to the kernel.
LEMMA ReturnOkFits ==
  ASSUME NEW t, NEW w \in WorkerStates,
         t.disconnecting => t.conn # 0 /\ HasPendingIo(t)
  PROVE  WorkerFits(t, ReturnOk(w))
<1> DEFINE v == ReturnOk(w)
<1>1. /\ v.pc \in {"Pump", "Scan", "CompleteDrain"} /\ v.event = NoEvent
      /\ v.status = "Ok" /\ v.inDrain = w.inDrain
      /\ v.pc = "Scan" => v.scan = 1
      /\ v.pc = "Pump" <=> ~ w.inDrain
  BY ReturnOkShape
<1> HIDE DEF v
<1>2. WorkerLocal(v) BY <1>1 DEF WorkerLocal
<1>3. DisconnectGoesOn(t, v) BY DEF DisconnectGoesOn
<1>4. PlaceFits(t, v) BY <1>1 DEF PlaceFits, Publishing, EventPcs
<1>5. WorkerFits(t, v) BY <1>2, <1>3, <1>4 DEF WorkerFits
<1> QED BY <1>5 DEF v

\* Nothing is asked of the transport of a worker that has failed, but for the
\* operations of a connection that is being disconnected.
LEMMA ReturnFailedFits ==
  ASSUME NEW t, NEW w \in WorkerStates, NEW site \in Statuses \ {"Ok"},
         t.disconnecting /\ t.conn # 0 => HasPendingIo(t)
  PROVE  WorkerFits(t, ReturnFailed(w, site)) /\ Failing(ReturnFailed(w, site))
<1> DEFINE v == ReturnFailed(w, site)
<1>1. /\ v.pc = IF w.inDrain THEN "CompleteDrain" ELSE "Exit"
      /\ v.status # "Ok" /\ v.inDrain = w.inDrain
  BY FailedShape
<1> HIDE DEF v
<1>2. WorkerLocal(v) BY <1>1 DEF WorkerLocal
<1>3. Failing(v) BY <1>1 DEF Failing
<1>4. DisconnectGoesOn(t, v) BY <1>3 DEF DisconnectGoesOn
<1>5. PlaceFits(t, v) BY <1>1 DEF PlaceFits, Publishing, EventPcs
<1>6. WorkerFits(t, v) BY <1>2, <1>4, <1>5 DEF WorkerFits
<1> QED BY <1>3, <1>6 DEF v

LEMMA SettleSound ==
  ASSUME NEW t, NEW w, NEW v, ConnectionSound(t, w), Settled(w)
  PROVE  ConnectionSound(t, v)
  BY DEF ConnectionSound, LiveConnection, Settled

----------------------------------------
\* What the shared parts of the handlers do.
LEMMA TpFields ==
  ASSUME NEW t \in TransportState
  PROVE  /\ t.life \in Life!Lifecycle(Generations) /\ t.conn \in Generations
         /\ t.closed \in BOOLEAN /\ t.recv \in BOOLEAN /\ t.send \in BOOLEAN
         /\ t.connectIo \in BOOLEAN /\ t.disconnecting \in BOOLEAN
         /\ t.shutdown \in BOOLEAN /\ t.stopPosted \in BOOLEAN /\ t.active \in BOOLEAN
  BY DEF TransportState

LEMMA LifeFields ==
  ASSUME NEW l \in Life!Lifecycle(Generations)
  PROVE  /\ l.state \in Life!LifecycleStates /\ l.gen \in Generations
         /\ l.outcome \in Life!Outcomes /\ l.outcomeCommitted \in BOOLEAN
         /\ l.ended \in BOOLEAN /\ l.endCommitted \in BOOLEAN
  BY DEF Life!Lifecycle

LEMMA SameOpsPending ==
  ASSUME NEW t, NEW u, SameOps(t, u)
  PROVE  \A op \in IoOps : Pending(u, op) <=> Pending(t, op)
  BY DEF SameOps, Pending, IoOps

LEMMA RequestDisconnectLife ==
  ASSUME NEW l \in Life!Lifecycle(Generations),
         l.state \in {"Connecting", "Connected", "Disconnecting"}
  PROVE  LET r == Life!RequestDisconnect(l) IN
         /\ r.ok /\ r.life \in Life!Lifecycle(Generations)
         /\ r.life.state = "Disconnecting" /\ r.life.gen = l.gen
         /\ r.life.outcome = l.outcome /\ r.life.outcomeCommitted = l.outcomeCommitted
         /\ r.life.ended = l.ended /\ r.life.endCommitted = l.endCommitted
  BY DEF Life!RequestDisconnect, Life!Accept, Life!Refuse, Life!Lifecycle,
         Life!LifecycleStates, Life!Outcomes

LEMMA ClosingShape ==
  ASSUME NEW t \in TransportState,
         t.life.state \in {"Connecting", "Connected", "Disconnecting"}
  PROVE  Closing(t, Closed(t))
<1> DEFINE l == Life!RequestDisconnect(t.life).life
           u == Closed(t)
<1>1. /\ l \in Life!Lifecycle(Generations)
      /\ l.state = "Disconnecting" /\ l.gen = t.life.gen
      /\ l.outcome = t.life.outcome /\ l.outcomeCommitted = t.life.outcomeCommitted
      /\ l.ended = t.life.ended /\ l.endCommitted = t.life.endCommitted
  BY RequestDisconnectLife, TpFields
<1>2. u = [t EXCEPT !.life = l, !.disconnecting = TRUE, !.closed = TRUE] BY DEF Closed
<1> HIDE DEF l, u
<1>3. /\ u \in TransportState /\ u.life = l /\ u.disconnecting
      /\ u.shutdown = t.shutdown
      /\ u.conn = t.conn /\ u.recv = t.recv /\ u.send = t.send
      /\ u.connectIo = t.connectIo /\ u.active = t.active
      /\ u.stopPosted = t.stopPosted
  BY <1>1, <1>2 DEF TransportState
<1>4. Closing(t, u) BY <1>1, <1>3 DEF Closing, SameOps
<1> QED BY <1>4 DEF u

LEMMA ClosingSound ==
  ASSUME NEW t, NEW w, NEW u, NEW v, ConnectionSound(t, w), t.conn # 0,
         Closing(t, u),
         (t.life.outcome = "Connected" /\ ~ t.life.outcomeCommitted)
           => (Publishing(v) /\ v.event.kind = "Connected") \/ Failing(v)
  PROVE  ConnectionSound(u, v)
  BY DEF ConnectionSound, LiveConnection, Closing, SameOps

\* The worker goes on to see whether the kernel still holds an operation.
LEMMA FinishFits ==
  ASSUME NEW t, NEW w \in WorkerStates, w.pc \notin {"Stopped", "Crashed"},
         t.conn # 0, t.disconnecting
  PROVE  WorkerFits(t, Goto(w, "Finish"))
<1> DEFINE v == Goto(w, "Finish")
<1>1. v.pc = "Finish" BY GotoShape, PcsTyped
<1> HIDE DEF v
<1>2. WorkerLocal(v) BY <1>1 DEF WorkerLocal
<1>3. DisconnectGoesOn(t, v) /\ PlaceFits(t, v)
  BY <1>1 DEF DisconnectGoesOn, PlaceFits, Publishing, EventPcs
<1>4. WorkerFits(t, v) BY <1>2, <1>3 DEF WorkerFits
<1> QED BY <1>4 DEF v

\* Beginning a disconnect that is not yet under way.
LEMMA BeginDisconnectKeeps ==
  ASSUME NEW t \in TransportState, NEW w \in WorkerStates, NEW released,
         ConnectionSound(t, w), Settled(w), t.conn # 0, ~ t.disconnecting,
         w.pc \notin {"Stopped", "Crashed"},
         BeginDisconnect(t, w, released)
  PROVE  /\ TransportPart' /\ SameOps(t, tp')
         /\ Draining(worker') <=> Draining(w)
         /\ sends' = <<>> /\ depth' = depth - Len(sends) - released
<1>1. t.life.state \in {"Connecting", "Connected", "Disconnecting"}
  BY DEF ConnectionSound, LiveConnection
<1>2. Life!RequestDisconnect(t.life).ok BY <1>1, RequestDisconnectLife, TpFields
<1>3. tp' = Closed(t) BY <1>2 DEF BeginDisconnect, Closed
<1>4. Closing(t, tp') BY <1>1, <1>3, ClosingShape
<1>5. worker' = IF t.life.state = "Connecting" THEN ReturnOk(w) ELSE Goto(w, "Finish")
  BY <1>2 DEF BeginDisconnect
<1>6. sends' = <<>> /\ depth' = depth - Len(sends) - released
  BY DEF BeginDisconnect, DiscardQueuedSends
<1>7. t.life.outcome = "Connected" => t.life.outcomeCommitted
  BY DEF ConnectionSound, LiveConnection, Settled
<1>8. ConnectionSound(tp', worker') BY <1>4, <1>7, ClosingSound
<1>9. tp'.conn # 0 /\ tp'.disconnecting /\ tp' \in TransportState /\ SameOps(t, tp')
  BY <1>4 DEF Closing, SameOps
<1>10. w.pc # "Exit" BY DEF Settled, Failing
<1>11. worker' \in WorkerStates /\ WorkerFits(tp', worker')
       /\ (Draining(worker') <=> Draining(w))
  <2>1. CASE t.life.state = "Connecting"
    <3>1. t.connectIo BY <2>1 DEF ConnectionSound, LiveConnection, Settled
    <3>2. HasPendingIo(tp') BY <3>1, <1>9 DEF SameOps, HasPendingIo
    <3> QED BY <1>5, <1>9, <1>10, <2>1, <3>2, ReturnOkFits, ReturnOkShape DEF Draining
  <2>2. CASE t.life.state # "Connecting"
    <3>1. worker' = Goto(w, "Finish") /\ "Finish" \in WorkerPcs BY <1>5, <2>2, PcsTyped
    <3>2. worker' \in WorkerStates /\ worker'.pc = "Finish"
          /\ worker'.inDrain = w.inDrain
      BY <3>1, GotoShape
    <3>3. WorkerFits(tp', worker') BY <1>9, <3>1, FinishFits
    <3> QED BY <1>10, <3>2, <3>3 DEF Draining
  <2> QED BY <2>1, <2>2
<1> QED BY <1>6, <1>8, <1>9, <1>11 DEF TransportPart

\* The lifecycle ends and Stop is posted, or the port refuses it.
LEMMA CompleteShutdownKeeps ==
  ASSUME NEW t \in TransportState, NEW next \in WorkerStates,
         t.conn = 0, NoConnection([t EXCEPT !.shutdown = FALSE]), ~ t.active, t.shutdown,
         t.life.state # "Shutdown", CompleteShutdown(t, next)
  PROVE  /\ tp' \in TransportState /\ tp'.conn = 0 /\ ~ tp'.disconnecting
         /\ ~ tp'.active /\ (\A op \in IoOps : ~ Pending(tp', op))
         /\ tp'.life.state = "Shutdown" /\ tp'.life.outcome = "None"
         /\ \A w : ConnectionSound(tp', w)
         /\ \/ /\ port' = port /\ (t.stopPosted => tp'.stopPosted)
            \/ /\ port' = Append(port, Control("Stop")) /\ ~ t.stopPosted
               /\ tp'.stopPosted
         /\ worker' = next \/ worker' = ReturnFailed(worker, "Post")
         /\ refused \in 0 .. MaxPostFailures => refused' \in 0 .. MaxPostFailures
<1> DEFINE l == Life!Shutdown(t.life)
<1>1. /\ l \in Life!Lifecycle(Generations)
      /\ l.state = "Shutdown" /\ l.outcome = "None" /\ ~ l.ended
  BY TpFields
  DEF Life!Shutdown, Life!ResetAttemptPublication, Life!Lifecycle,
      Life!LifecycleStates, Life!Outcomes
<1>2. tp' = [t EXCEPT !.life = l, !.disconnecting = FALSE, !.stopPosted = TRUE]
      \/ tp' = [t EXCEPT !.life = l, !.disconnecting = FALSE]
  BY DEF CompleteShutdown
<1>3. /\ \/ /\ port' = (IF t.stopPosted THEN port ELSE Append(port, Control("Stop")))
            /\ worker' = next /\ refused' = refused
            /\ tp' = [t EXCEPT !.life = l, !.disconnecting = FALSE, !.stopPosted = TRUE]
         \/ /\ port' = port /\ worker' = ReturnFailed(worker, "Post")
            /\ ~ t.stopPosted /\ refused < MaxPostFailures /\ refused' = refused + 1
  BY DEF CompleteShutdown
<1> HIDE DEF l
<1>4. /\ tp' \in TransportState /\ tp'.life = l /\ tp'.conn = 0
      /\ ~ tp'.disconnecting /\ tp'.shutdown
      /\ tp'.closed = t.closed /\ tp'.recv = t.recv /\ tp'.send = t.send
      /\ tp'.connectIo = t.connectIo /\ tp'.active = t.active
  BY <1>1, <1>2 DEF TransportState
<1>5. ~ t.closed /\ ~ t.recv /\ ~ t.send /\ ~ t.connectIo BY DEF NoConnection, TransportState
<1>6. \A op \in IoOps : ~ Pending(tp', op) BY <1>4, <1>5 DEF Pending, IoOps
<1>7. \A w : ConnectionSound(tp', w)
  BY <1>1, <1>4, <1>5, TpFields DEF ConnectionSound, NoConnection
<1>8. \/ /\ port' = port /\ (t.stopPosted => tp'.stopPosted)
      \/ /\ port' = Append(port, Control("Stop")) /\ ~ t.stopPosted
         /\ tp'.stopPosted
  <2>1. CASE /\ port' = (IF t.stopPosted THEN port ELSE Append(port, Control("Stop")))
             /\ tp' = [t EXCEPT !.life = l, !.disconnecting = FALSE, !.stopPosted = TRUE]
    <3>1. tp'.stopPosted BY <2>1 DEF TransportState
    <3> QED BY <2>1, <3>1
  <2>2. CASE port' = port /\ ~ t.stopPosted BY <2>2
  <2> QED BY <1>3, <2>1, <2>2
<1>9. refused \in 0 .. MaxPostFailures => refused' \in 0 .. MaxPostFailures
  BY <1>3, ClientRuntimeAssumption
<1>10. worker' = next \/ worker' = ReturnFailed(worker, "Post") BY <1>3
<1> QED BY <1>1, <1>4, <1>5, <1>6, <1>7, <1>8, <1>9, <1>10

LEMMA ReleasedShape ==
  ASSUME NEW t \in TransportState
  PROVE  LET u == ReleaseConnection(t) IN
         /\ u \in TransportState /\ u.conn = 0 /\ ~ u.closed /\ ~ u.recv /\ ~ u.send
         /\ u.life = t.life /\ u.connectIo = t.connectIo
         /\ u.disconnecting = t.disconnecting /\ u.shutdown = t.shutdown
         /\ u.stopPosted = t.stopPosted /\ u.active = t.active
<1>1. 0 \in Generations BY ClientRuntimeAssumption DEF Generations
<1> QED BY <1>1 DEF ReleaseConnection, TransportState

\* An attempt that awaited its outcome has failed.
LEMMA RecordConnectFailureKeeps ==
  ASSUME NEW t \in TransportState, NEW w \in WorkerStates,
         Life!AwaitsOutcome(t.life), ~ t.life.outcomeCommitted,
         ~ t.disconnecting, ~ t.shutdown, ~ t.connectIo, ~ t.active,
         w.pc \notin {"Exit", "Stopped", "Crashed"},
         RecordConnectFailure(t, w)
  PROVE  /\ TransportPart' /\ tp'.conn = 0 /\ tp'.stopPosted = t.stopPosted
         /\ ~ tp'.active /\ (\A op \in IoOps : ~ Pending(tp', op))
         /\ Draining(worker') <=> Draining(w)
<1> DEFINE gen == t.life.gen
           l == [t.life EXCEPT !.outcome = "Failed"]
<1>0. t.life \in Life!Lifecycle(Generations) /\ gen \in Generations BY TpFields, LifeFields
<1>1. /\ l \in Life!Lifecycle(Generations) /\ l.state = "Connecting"
      /\ l.outcome = "Failed" /\ ~ l.outcomeCommitted
  BY <1>0 DEF Life!AwaitsOutcome, Life!Lifecycle, Life!Outcomes
<1>2. Life!RecordConnectFailed(t.life, t.life.gen) = [ok |-> TRUE, life |-> l]
  BY DEF Life!RecordConnectFailed, Life!IgnoresOutcome, Life!AwaitsOutcome,
         Life!Accept
<1> HIDE DEF l, gen
<1>3. /\ tp' = [ReleaseConnection(t) EXCEPT !.life = l]
      /\ worker' = ToPublish(w, "Failed", gen)
  BY <1>2 DEF RecordConnectFailure, gen, ToPublish
<1>4. /\ tp' \in TransportState /\ tp'.life = l /\ tp'.conn = 0
      /\ ~ tp'.closed /\ ~ tp'.recv /\ ~ tp'.send /\ ~ tp'.connectIo
      /\ ~ tp'.disconnecting /\ ~ tp'.shutdown /\ ~ tp'.active
      /\ tp'.stopPosted = t.stopPosted
  <2> DEFINE r == ReleaseConnection(t)
  <2>1. /\ r \in TransportState /\ r.conn = 0 /\ ~ r.closed /\ ~ r.recv /\ ~ r.send
        /\ r.connectIo = t.connectIo /\ r.active = t.active
        /\ r.disconnecting = t.disconnecting /\ r.shutdown = t.shutdown
        /\ r.stopPosted = t.stopPosted
    BY ReleasedShape
  <2>2. tp' = [r EXCEPT !.life = l] BY <1>3
  <2> HIDE DEF r
  <2> QED BY <1>1, <2>1, <2>2 DEF TransportState
<1>5. "Failed" \in EventKinds BY DEF EventKinds
<1>6. worker' \in WorkerStates BY <1>0, <1>3, <1>5, ToPublishShape
<1>7. ConnectionSound(tp', worker') BY <1>1, <1>4, TpFields DEF ConnectionSound, NoConnection
<1>8. Life!NextPendingKind(l) = "Failed" BY <1>1 DEF Life!NextPendingKind
<1>9. WorkerFits(tp', worker') /\ (Draining(worker') <=> Draining(w))
  BY <1>0, <1>3, <1>4, <1>5, <1>8, ToPublishFits
<1>10. \A op \in IoOps : ~ Pending(tp', op) BY <1>4 DEF Pending, IoOps
<1> QED BY <1>4, <1>6, <1>7, <1>9, <1>10 DEF TransportPart

----------------------------------------
\* What a step leaves alone.
LEMMA SendsSame ==
  ASSUME SendsPart, UNCHANGED <<sends, depth, caller>>, tp'.active = tp.active
  PROVE  SendsPart'
  BY DEF SendsPart, SendSlotsConserved, ReleasedSends

\* The queue is discarded; the active send's place may be given back with it.
LEMMA SendsDiscarded ==
  ASSUME SendsPart, UNCHANGED caller, sends' = <<>>, tp'.active => tp.active,
         depth' = depth - Len(sends) - (ReleasedSends(tp) - ReleasedSends(tp'))
  PROVE  SendsPart'
<1> DEFINE mine == IF caller.kind = "Send" /\ ~ caller.accepted THEN 1 ELSE 0
<1>1. PICK n \in Nat : n = Len(sends) BY LenProperties DEF SendsPart
<1>2. PICK r \in 0 .. 1 : r = ReleasedSends(tp) BY DEF ReleasedSends
<1>3. PICK q \in 0 .. 1 : q = ReleasedSends(tp') BY DEF ReleasedSends
<1>4. PICK own \in 0 .. 1 : own = mine OBVIOUS
<1>5. q <= r BY <1>2, <1>3 DEF ReleasedSends
<1>6. depth = n + r + own /\ depth <= SendCapacity /\ SendCapacity \in Nat
  BY <1>1, <1>2, <1>4, ClientRuntimeAssumption DEF SendsPart, SendSlotsConserved
<1>7. depth' = depth - n - (r - q) BY <1>1, <1>2, <1>3
<1>8. depth' = q + own /\ depth' \in Nat /\ depth' <= SendCapacity BY <1>5, <1>6, <1>7
<1>9. sends' \in Seq(Generations) /\ Len(sends') = 0 BY EmptySeq
<1>10. depth' = Len(sends') + ReleasedSends(tp') + mine BY <1>3, <1>4, <1>8, <1>9
<1> QED BY <1>8, <1>9, <1>10 DEF SendsPart, SendSlotsConserved

LEMMA GateSame ==
  ASSUME GatePart, UNCHANGED <<gate, caller>>, chan'.wakeFailure = chan.wakeFailure,
         Draining(worker') <=> Draining(worker),
         "Commands" \in Kinds(port') <=> "Commands" \in Kinds(port)
  PROVE  GatePart'
  BY DEF GatePart, GateFits

LEMMA CallerSame ==
  ASSUME CallerPart, UNCHANGED caller, chan'.gen = chan.gen
  PROVE  CallerPart'
  BY DEF CallerPart, CallerFits

LEMMA OpsUntouched ==
  ASSUME OpsPart, UNCHANGED <<port, kernel>>, SameOps(tp, tp')
  PROVE  OpsPart'
<1>1. \A op \in IoOps : Pending(tp', op) <=> Pending(tp, op) BY DEF SameOps, Pending, IoOps
<1> QED BY <1>1 DEF OpsPart, OpsAccounted, SameOps

\* A step of the worker that leaves the channel and the gate alone.
LEMMA WorkerStep ==
  ASSUME IInv, UNCHANGED <<chan, gate, caller>>, refused' \in 0 .. MaxPostFailures,
         SlotsPart', StorePart', TransportPart', OpsPart', SendsPart',
         Draining(worker') <=> Draining(worker),
         "Commands" \in Kinds(port') <=> "Commands" \in Kinds(port)
  PROVE  IInv'
<1>1. ChannelPart' /\ CallerPart' BY CallerSame DEF IInv, ChannelPart
<1>2. GatePart' BY GateSame DEF IInv
<1> QED BY <1>1, <1>2 DEF IInv

\* One that leaves the transport, the port and the kernel alone, too.
LEMMA WorkerMoves ==
  ASSUME IInv, UNCHANGED <<chan, gate, slots, sends, depth, port, kernel, tp, caller,
                           refused>>,
         StorePart', worker' \in WorkerStates, ConnectionSound(tp, worker'),
         WorkerFits(tp, worker'), Draining(worker') <=> Draining(worker)
  PROVE  IInv'
<1>1. TransportPart' /\ SlotsPart' /\ refused' \in 0 .. MaxPostFailures
  BY DEF IInv, TransportPart, SlotsPart, ChannelPart
<1>2. SameOps(tp, tp') /\ tp'.active = tp.active BY DEF SameOps
<1>3. OpsPart' /\ SendsPart' BY <1>2, OpsUntouched, SendsSame DEF IInv
<1>4. "Commands" \in Kinds(port') <=> "Commands" \in Kinds(port) OBVIOUS
<1> QED BY <1>1, <1>3, <1>4, WorkerStep

\* PostRecv after a receive, which may fail.
LEMMA RepostRecvKeeps ==
  ASSUME NEW t \in TransportState, worker \in WorkerStates,
         ConnectionSound(t, worker), Settled(worker), t.conn # 0,
         worker.pc \notin {"Stopped", "Crashed"},
         ~ t.disconnecting, ~ t.recv, ~ t.connectIo,
         kernel \in SUBSET Operations, OpsAccounted(t, kernel, port'),
         RepostRecv(t)
  PROVE  /\ TransportPart' /\ tp'.active = t.active
         /\ kernel' \in SUBSET Operations /\ OpsAccounted(tp', kernel', port')
         /\ Draining(worker') <=> Draining(worker)
         /\ \/ UNCHANGED <<sends, depth>>
            \/ sends' = <<>> /\ depth' = depth - Len(sends) - 0
<1>1. CASE /\ tp' = [t EXCEPT !.recv = TRUE]
           /\ kernel' = kernel \cup {[op |-> "Recv", gen |-> t.conn]}
           /\ worker' = ReturnOk(worker)
           /\ UNCHANGED <<sends, depth>>
  <2>1. /\ tp' \in TransportState /\ tp'.recv /\ tp'.conn = t.conn /\ tp'.life = t.life
        /\ tp'.send = t.send /\ tp'.connectIo = t.connectIo /\ tp'.closed = t.closed
        /\ tp'.active = t.active /\ tp'.disconnecting = t.disconnecting
        /\ tp'.shutdown = t.shutdown /\ tp'.stopPosted = t.stopPosted
    BY <1>1 DEF TransportState
  <2>2. ConnectionSound(tp', worker') BY <2>1 DEF ConnectionSound, LiveConnection, Settled
  <2>3. WorkerFits(tp', worker') /\ worker' \in WorkerStates
    BY <1>1, <2>1, ReturnOkFits, ReturnOkShape
  <2>4. Draining(worker') <=> Draining(worker)
    BY <1>1, ReturnOkShape DEF Draining, Settled, Failing
  <2>5. \A x \in IoOps : Pending(tp', x) <=> Pending(t, x) \/ x = "Recv"
    BY <2>1 DEF Pending, IoOps
  <2>6. ~ Held(kernel, "Recv") /\ "Recv" \notin Kinds(port') /\ "Recv" \in IoOps
    BY DEF OpsAccounted, IoOps, Pending
  <2>7. OpsAccounted(tp', kernel', port') BY <1>1, <2>1, <2>5, <2>6, OpsPosted
  <2>8. [op |-> "Recv", gen |-> t.conn] \in Operations BY <2>6, TpFields DEF Operations
  <2> QED BY <1>1, <2>1, <2>2, <2>3, <2>4, <2>7, <2>8 DEF TransportPart
<1>2. CASE BeginDisconnect(t, worker, 0) /\ UNCHANGED kernel
  <2>1. /\ TransportPart' /\ SameOps(t, tp')
        /\ Draining(worker') <=> Draining(worker)
        /\ sends' = <<>> /\ depth' = depth - Len(sends) - 0
    BY <1>2, BeginDisconnectKeeps
  <2>2. OpsAccounted(tp', kernel', port')
    <3>1. \A op \in IoOps : Pending(tp', op) <=> Pending(t, op)
      BY <2>1 DEF SameOps, Pending, IoOps
    <3> QED BY <1>2, <2>1, <3>1 DEF OpsAccounted, SameOps
  <2> QED BY <1>2, <2>1, <2>2 DEF SameOps
<1> QED BY <1>1, <1>2 DEF RepostRecv

----------------------------------------
\* The steps of the calling thread.
LEMMA ChannelFields ==
  ASSUME NEW c \in ChannelState
  PROVE  /\ c.state \in Life!LifecycleStates /\ c.gen \in Generations
         /\ c.sendGen \in Generations /\ c.wakeFailure \in BOOLEAN
  BY DEF ChannelState

LEMMA ZeroGeneration == 0 \in Generations
  BY ClientRuntimeAssumption DEF Generations

LEMMA WakeFailureShape ==
  ASSUME NEW c \in ChannelState
  PROVE  /\ RecordWakeFailure(c) \in ChannelState /\ RecordWakeFailure(c).gen = c.gen
         /\ RecordWakeFailure(c).wakeFailure
  BY ZeroGeneration DEF RecordWakeFailure, ChannelState, Life!LifecycleStates

LEMMA RefusalShape ==
  ASSUME NEW c \in ChannelState, NEW kind
  PROVE  /\ ChannelAfterRefusal(c, kind) \in ChannelState
         /\ ChannelAfterRefusal(c, kind).gen = c.gen
         /\ c.wakeFailure => ChannelAfterRefusal(c, kind).wakeFailure
<1>1. [c EXCEPT !.state = "Idle"] \in ChannelState
      /\ [c EXCEPT !.state = "Idle"].gen = c.gen
      /\ [c EXCEPT !.state = "Idle"].wakeFailure = c.wakeFailure
  BY DEF ChannelState, Life!LifecycleStates
<1>2. /\ RecordWakeFailure(c) \in ChannelState
      /\ RecordWakeFailure(c).gen = c.gen /\ RecordWakeFailure(c).wakeFailure
  BY WakeFailureShape
<1> QED BY <1>1, <1>2 DEF ChannelAfterRefusal

LEMMA UnwokenShape ==
  ASSUME chan \in ChannelState, NEW accepted, NEW kind
  PROVE  /\ Unwoken(accepted, kind) \in ChannelState
         /\ Unwoken(accepted, kind).gen = chan.gen /\ Unwoken(accepted, kind).wakeFailure
  BY WakeFailureShape, RefusalShape DEF Unwoken

LEMMA CallerIdles ==
    /\ IdleCaller \in CallerStates /\ IdleCaller.pc = "Idle"
    /\ IdleCaller.kind = "None" /\ ~ IdleCaller.accepted
    /\ \A gen : CallerFits(IdleCaller, gen)
<1>1. /\ IdleCaller \in CallerStates /\ IdleCaller.pc = "Idle"
      /\ IdleCaller.kind = "None" /\ ~ IdleCaller.accepted
  BY ZeroGeneration DEF IdleCaller, CallerStates, CallerPcs, Gate!Tickets
<1> QED BY <1>1 DEF CallerFits

LEMMA CallerFields ==
  ASSUME NEW c \in CallerStates
  PROVE  /\ c.pc \in CallerPcs /\ c.kind \in CommandKinds \cup {"None", "Send"}
         /\ c.gen \in Generations /\ c.ticket \in Gate!Tickets
         /\ c.accepted \in BOOLEAN
  BY DEF CallerStates

LEMMA KindsAre == CommandKinds = {"Connect", "Disconnect", "Shutdown", "EventSpace"}
<1>1. DOMAIN SlotOrder = 1 .. 4 BY DEF SlotOrder
<1>2. /\ SlotOrder[1] = "Connect" /\ SlotOrder[2] = "Disconnect"
      /\ SlotOrder[3] = "Shutdown" /\ SlotOrder[4] = "EventSpace"
  BY DEF SlotOrder
<1>3. \A i : i \in 1 .. 4 <=> i = 1 \/ i = 2 \/ i = 3 \/ i = 4 OBVIOUS
<1> QED BY <1>1, <1>2, <1>3 DEF CommandKinds

\* The gate as a caller finds it that is not in an admission.
LEMMA GateCaller ==
  ASSUME GatePart, UNCHANGED <<gate, worker, port>>,
         chan.wakeFailure => chan'.wakeFailure,
         caller.pc \notin {"Publish", "Commit"}, caller'.pc \notin {"Publish", "Commit"}
  PROVE  GatePart'
  BY DEF GatePart, GateFits, Draining

\* A step of the caller that leaves the port alone.
LEMMA CallerStep ==
  ASSUME IInv, UNCHANGED <<port, kernel, tp, worker, refused>>,
         chan' \in ChannelState, SlotsPart', StorePart', CallerPart', SendsPart', GatePart'
  PROVE  IInv'
<1>1. TransportPart' /\ SameOps(tp, tp') BY DEF IInv, TransportPart, SameOps
<1>2. OpsPart' BY <1>1, OpsUntouched DEF IInv
<1>3. ChannelPart' BY DEF IInv, ChannelPart
<1> QED BY <1>1, <1>2, <1>3 DEF IInv

\* One that moves no send.
LEMMA CallerMoves ==
  ASSUME IInv, UNCHANGED <<sends, depth, slots, port, kernel, tp, worker, refused>>,
         chan' \in ChannelState, chan.wakeFailure => chan'.wakeFailure, StorePart',
         CallerPart', caller.kind # "Send", caller'.kind # "Send",
         UNCHANGED gate,
         caller.pc \notin {"Publish", "Commit"}, caller'.pc \notin {"Publish", "Commit"}
  PROVE  IInv'
<1>1. SendsPart' BY DEF IInv, SendsPart, SendSlotsConserved, ReleasedSends
<1>2. GatePart' BY GateCaller DEF IInv
<1>3. SlotsPart' BY DEF IInv, SlotsPart
<1> QED BY <1>1, <1>2, <1>3, CallerStep

LEMMA SubmitConnectKeeps == ASSUME IInv, SubmitConnect PROVE IInv'
<1>1. chan \in ChannelState /\ caller \in CallerStates /\ caller.pc = "Idle"
  BY DEF IInv, ChannelPart, CallerPart, SubmitConnect, CallerAt
<1>2. caller.kind = "None" /\ ~ caller.accepted BY <1>1 DEF IInv, CallerPart, CallerFits
<1>3. chan' = [chan EXCEPT !.state = "Connecting"] /\ chan.gen < MaxAttempts BY DEF SubmitConnect
<1>4. /\ chan' \in ChannelState /\ chan'.gen = chan.gen
      /\ chan'.wakeFailure = chan.wakeFailure
  BY <1>1, <1>3 DEF ChannelState, Life!LifecycleStates
<1>5. caller' = [caller EXCEPT !.pc = "Generation", !.kind = "Connect"] BY DEF SubmitConnect
<1>6. /\ caller' \in CallerStates /\ caller'.pc = "Generation"
      /\ caller'.kind = "Connect"
  BY <1>1, <1>5, KindsAre DEF CallerStates, CallerPcs
<1>7. CallerPart' BY <1>3, <1>4, <1>6 DEF CallerPart, CallerFits
<1> QED BY <1>1, <1>2, <1>4, <1>6, <1>7, CallerMoves DEF SubmitConnect, IInv, StorePart

LEMMA SetGenerationKeeps == ASSUME IInv, SetGeneration PROVE IInv'
<1>1. chan \in ChannelState /\ caller \in CallerStates /\ caller.pc = "Generation"
  BY DEF IInv, ChannelPart, CallerPart, SetGeneration, CallerAt
<1>2. caller.kind = "Connect" /\ chan.gen < MaxAttempts BY <1>1 DEF IInv, CallerPart, CallerFits
<1>3. chan' = [chan EXCEPT !.gen = @ + 1] BY DEF SetGeneration
<1>4. chan.gen + 1 \in Generations
  BY <1>1, <1>2, ChannelFields, ClientRuntimeAssumption DEF Generations
<1>5. chan' \in ChannelState /\ chan'.wakeFailure = chan.wakeFailure
  BY <1>1, <1>3, <1>4 DEF ChannelState
<1>6. caller' = [caller EXCEPT !.pc = "Admit"] BY DEF SetGeneration
<1>7. caller' \in CallerStates /\ caller'.pc = "Admit" /\ caller'.kind = "Connect"
  BY <1>1, <1>2, <1>6 DEF CallerStates, CallerPcs
<1>8. CallerPart' BY <1>7 DEF CallerPart, CallerFits
<1> QED BY <1>1, <1>2, <1>5, <1>7, <1>8, CallerMoves DEF SetGeneration, IInv, StorePart

LEMMA SubmitDisconnectKeeps == ASSUME IInv, SubmitDisconnect PROVE IInv'
<1>1. chan \in ChannelState /\ caller \in CallerStates /\ caller.pc = "Idle"
  BY DEF IInv, ChannelPart, CallerPart, SubmitDisconnect, CallerAt
<1>2. caller.kind = "None" BY <1>1 DEF IInv, CallerPart, CallerFits
<1>3. chan' = [chan EXCEPT !.state = "Disconnecting"] BY DEF SubmitDisconnect
<1>4. chan' \in ChannelState /\ chan'.wakeFailure = chan.wakeFailure
  BY <1>1, <1>3 DEF ChannelState, Life!LifecycleStates
<1>5. caller' = [caller EXCEPT !.pc = "CloseSends", !.kind = "Disconnect"] BY DEF SubmitDisconnect
<1>6. caller' \in CallerStates /\ caller'.pc = "CloseSends" /\ caller'.kind = "Disconnect"
  BY <1>1, <1>5, KindsAre DEF CallerStates, CallerPcs
<1>7. CallerPart' BY <1>6 DEF CallerPart, CallerFits
<1> QED BY <1>1, <1>2, <1>4, <1>6, <1>7, CallerMoves DEF SubmitDisconnect, IInv, StorePart

LEMMA SubmitShutdownKeeps == ASSUME IInv, SubmitShutdown PROVE IInv'
<1>1. chan \in ChannelState /\ caller \in CallerStates /\ caller.pc = "Idle"
  BY DEF IInv, ChannelPart, CallerPart, SubmitShutdown, CallerAt
<1>2. caller.kind = "None" BY <1>1 DEF IInv, CallerPart, CallerFits
<1>3. CASE chan.state = "Shutdown"
  <2>1. caller' = [caller EXCEPT !.pc = "Join"] /\ chan' = chan BY <1>3 DEF SubmitShutdown
  <2>2. caller' \in CallerStates /\ caller'.pc = "Join" /\ caller'.kind = "None"
    BY <1>1, <1>2, <2>1 DEF CallerStates, CallerPcs
  <2>3. CallerPart' BY <2>2 DEF CallerPart, CallerFits
  <2> QED BY <1>1, <1>2, <2>1, <2>2, <2>3, CallerMoves DEF SubmitShutdown, IInv, StorePart
<1>4. CASE chan.state # "Shutdown"
  <2>1. /\ caller' = [caller EXCEPT !.pc = "CloseSends", !.kind = "Shutdown"]
        /\ chan' = [chan EXCEPT !.state = "Shutdown"]
    BY <1>4 DEF SubmitShutdown
  <2>2. caller' \in CallerStates /\ caller'.pc = "CloseSends" /\ caller'.kind = "Shutdown"
    BY <1>1, <2>1, KindsAre DEF CallerStates, CallerPcs
  <2>3. chan' \in ChannelState /\ chan'.wakeFailure = chan.wakeFailure
    BY <1>1, <2>1 DEF ChannelState, Life!LifecycleStates
  <2>4. CallerPart' BY <2>2 DEF CallerPart, CallerFits
  <2> QED BY <1>1, <1>2, <2>2, <2>3, <2>4, CallerMoves DEF SubmitShutdown, IInv, StorePart
<1> QED BY <1>3, <1>4

LEMMA CloseSendsKeeps == ASSUME IInv, CloseSends PROVE IInv'
<1>1. chan \in ChannelState /\ caller \in CallerStates /\ caller.pc = "CloseSends"
  BY DEF IInv, ChannelPart, CallerPart, CloseSends, CallerAt
<1>2. caller.kind \in {"Disconnect", "Shutdown"} BY <1>1 DEF IInv, CallerPart, CallerFits
<1>3. chan' = [chan EXCEPT !.sendGen = 0] /\ caller' = [caller EXCEPT !.pc = "Admit"]
  BY DEF CloseSends
<1>4. chan' \in ChannelState /\ chan'.wakeFailure = chan.wakeFailure
  BY <1>1, <1>3, ZeroGeneration DEF ChannelState
<1>5. caller' \in CallerStates /\ caller'.pc = "Admit" /\ caller'.kind = caller.kind
  BY <1>1, <1>3 DEF CallerStates, CallerPcs
<1>6. CallerPart' BY <1>2, <1>5 DEF CallerPart, CallerFits
<1> QED BY <1>1, <1>2, <1>4, <1>5, <1>6, CallerMoves DEF CloseSends, IInv, StorePart

LEMMA SubmitSendKeeps == ASSUME IInv, SubmitSend PROVE IInv'
<1>1. chan \in ChannelState /\ caller \in CallerStates /\ caller.pc = "Idle"
  BY DEF IInv, ChannelPart, CallerPart, SubmitSend, CallerAt
<1>2. caller.kind = "None" /\ ~ caller.accepted BY <1>1 DEF IInv, CallerPart, CallerFits
<1>3. caller' = [caller EXCEPT !.pc = "Admit", !.kind = "Send", !.gen = chan.sendGen]
      /\ depth' = depth + 1 /\ depth < SendCapacity /\ UNCHANGED <<sends, tp, chan, gate>>
  BY DEF SubmitSend
<1>4. chan.sendGen \in Generations BY <1>1, ChannelFields
<1>5. /\ caller' \in CallerStates /\ caller'.pc = "Admit" /\ caller'.kind = "Send"
      /\ ~ caller'.accepted
  BY <1>1, <1>2, <1>3, <1>4 DEF CallerStates, CallerPcs
<1>6. CallerPart' BY <1>5 DEF CallerPart, CallerFits
<1>7. SendsPart'
  <2>1. Len(sends) \in Nat /\ ReleasedSends(tp) \in Nat
    BY LenProperties DEF IInv, SendsPart, ReleasedSends
  <2>2. depth = Len(sends) + ReleasedSends(tp) + 0 BY <1>2 DEF IInv, SendsPart, SendSlotsConserved
  <2>3. depth' = Len(sends) + ReleasedSends(tp) + 1 BY <1>3, <2>1, <2>2
  <2>4. depth' \in Nat /\ depth' <= SendCapacity
    BY <1>3, ClientRuntimeAssumption DEF IInv, SendsPart
  <2> QED BY <1>3, <1>5, <2>3, <2>4 DEF IInv, SendsPart, SendSlotsConserved, ReleasedSends
<1>8. GatePart' BY <1>1, <1>5, GateCaller DEF IInv, SubmitSend
<1>9. chan' \in ChannelState /\ SlotsPart' /\ StorePart'
  BY <1>1 DEF SubmitSend, IInv, SlotsPart, StorePart
<1> QED BY <1>6, <1>7, <1>8, <1>9, CallerStep DEF SubmitSend

\* A place that was taken for a send that is not to be is given back.
LEMMA PlaceGivenBack ==
  ASSUME SendsPart, UNCHANGED <<sends, tp>>, caller'.kind # "Send",
         depth' = IF caller.kind = "Send" /\ ~ caller.accepted THEN depth - 1 ELSE depth
  PROVE  SendsPart'
<1>1. Len(sends) \in Nat /\ ReleasedSends(tp) \in Nat
  BY LenProperties DEF SendsPart, ReleasedSends
<1>2. depth' = Len(sends) + ReleasedSends(tp) + 0 BY <1>1 DEF SendsPart, SendSlotsConserved
<1>3. depth' \in Nat /\ depth' <= SendCapacity
  BY <1>1, <1>2, ClientRuntimeAssumption DEF SendsPart
<1> QED BY <1>2, <1>3 DEF SendsPart, SendSlotsConserved, ReleasedSends

LEMMA GateFields ==
  ASSUME NEW g \in Gate!GateWord
  PROVE  /\ g.phase \in Gate!Phases /\ g.pending \in BOOLEAN /\ g.resched \in BOOLEAN
         /\ g.inFlight \in 0 .. 1
  BY DEF Gate!GateWord

LEMMA ClearedShape ==
  ASSUME NEW g \in Gate!GateWord
  PROVE  /\ Gate!ClearDrainFlags(g) \in Gate!GateWord
         /\ ~ Gate!ClearDrainFlags(g).pending /\ ~ Gate!ClearDrainFlags(g).resched
         /\ Gate!ClearDrainFlags(g).phase = g.phase
         /\ Gate!ClearDrainFlags(g).inFlight = g.inFlight
  BY DEF Gate!ClearDrainFlags, Gate!GateWord

LEMMA TryBeginAdmissionKeeps == ASSUME IInv, TryBeginAdmission PROVE IInv'
<1>1. /\ chan \in ChannelState /\ caller \in CallerStates /\ caller.pc = "Admit"
      /\ gate \in Gate!GateWord /\ SendsPart
  BY DEF IInv, ChannelPart, CallerPart, TryBeginAdmission, CallerAt, GatePart
<1>2. caller.kind # "None" /\ (caller.kind = "Send" => ~ caller.accepted)
  BY <1>1 DEF IInv, CallerPart, CallerFits
<1>3. CASE Gate!CanBeginAdmission(gate)
  <2>1. /\ gate' = Gate!TryBeginAdmission(gate) /\ UNCHANGED <<chan, depth, sends, tp>>
        /\ caller' = [caller EXCEPT !.pc = "Publish",
                                    !.ticket = Gate!AdmissionDecision(gate)]
    BY <1>3 DEF TryBeginAdmission
  <2>2. Gate!AdmissionDecision(gate) \in Gate!Tickets BY DEF Gate!AdmissionDecision, Gate!Tickets
  <2>3. /\ caller' \in CallerStates /\ caller'.pc = "Publish"
        /\ caller'.kind = caller.kind /\ caller'.accepted = caller.accepted
        /\ caller'.ticket = Gate!AdmissionDecision(gate)
    BY <1>1, <2>1, <2>2 DEF CallerStates, CallerPcs
  <2>4. CallerPart' BY <1>2, <2>1, <2>3 DEF CallerPart, CallerFits
  <2>5. SendsPart' BY <1>1, <2>1, <2>3 DEF SendsPart, SendSlotsConserved, ReleasedSends
  <2>6. /\ gate' \in Gate!GateWord
        /\ gate.phase = "Idle" => gate'.phase = "Admitting"
        /\ gate.phase # "Idle" => gate'.phase = gate.phase
        /\ gate'.inFlight = 1
        /\ gate'.phase = "Admitting" => ~ gate'.resched /\ ~ gate'.pending
        /\ gate.phase # "Idle" => gate'.resched = gate.resched /\ gate'.pending = gate.pending
        /\ gate.phase # "Admitting"
    <3>1. CASE gate.phase = "Idle"
      <4>1. gate' = [Gate!ClearDrainFlags(gate) EXCEPT !.phase = "Admitting", !.inFlight = 1]
        BY <2>1, <3>1 DEF Gate!TryBeginAdmission
      <4> DEFINE cleared == Gate!ClearDrainFlags(gate)
      <4>2. cleared \in Gate!GateWord /\ ~ cleared.pending /\ ~ cleared.resched
        BY <1>1, ClearedShape
      <4>3. gate' = [cleared EXCEPT !.phase = "Admitting", !.inFlight = 1] BY <4>1
      <4> HIDE DEF cleared
      <4>4. gate' = [phase |-> "Admitting", pending |-> FALSE, resched |-> FALSE,
                     inFlight |-> 1]
        BY <4>2, <4>3 DEF Gate!GateWord
      <4>5. gate' \in Gate!GateWord BY <4>4 DEF Gate!GateWord, Gate!Phases
      <4> QED BY <3>1, <4>4, <4>5
    <3>2. CASE gate.phase # "Idle"
      <4>1. gate' = [gate EXCEPT !.inFlight = @ + 1] BY <2>1, <3>2 DEF Gate!TryBeginAdmission
      <4>2. gate.inFlight = 0 /\ gate.phase # "Admitting"
        BY <1>1, <1>3, GateFields DEF Gate!CanBeginAdmission
      <4> QED BY <1>1, <3>2, <4>1, <4>2 DEF Gate!GateWord, Gate!Phases
    <3> QED BY <3>1, <3>2
  <2>7. (caller'.ticket = "RequiresNewPermit" <=> gate.phase = "Idle")
        /\ caller'.ticket # "Rejected"
    BY <2>3 DEF Gate!AdmissionDecision
  <2>8. UNCHANGED <<worker, port, chan>> BY <2>1 DEF TryBeginAdmission
  <2>9. GateFits(gate, caller, Draining(worker), "Commands" \in Kinds(port),
                 chan.wakeFailure)
    BY DEF IInv, GatePart
  <2>10. GateFits(gate', caller', Draining(worker), "Commands" \in Kinds(port),
                  chan.wakeFailure)
    BY <1>1, <2>3, <2>6, <2>7, <2>9 DEF GateFits
  <2>11. GatePart' BY <2>6, <2>8, <2>10 DEF GatePart
  <2>12. chan' \in ChannelState /\ SlotsPart' /\ StorePart'
    BY <1>1, <2>1 DEF TryBeginAdmission, IInv, SlotsPart, StorePart
  <2> QED BY <2>4, <2>5, <2>11, <2>12, CallerStep DEF TryBeginAdmission
<1>4. CASE ~ Gate!CanBeginAdmission(gate)
  <2>1. /\ chan' = ChannelAfterRefusal(chan, caller.kind)
        /\ depth' = IF caller.kind = "Send" THEN depth - 1 ELSE depth
        /\ caller' = IF caller.kind = "EventSpace"
                     THEN [caller EXCEPT !.pc = "ForgetWake"] ELSE IdleCaller
        /\ UNCHANGED <<gate, sends, tp, worker, port>>
    BY <1>4 DEF TryBeginAdmission
  <2>2. /\ caller' \in CallerStates /\ caller'.pc \in {"ForgetWake", "Idle"}
        /\ caller'.kind # "Send" /\ CallerFits(caller', chan'.gen)
    <3>1. CASE caller.kind = "EventSpace"
      <4>1. /\ caller' \in CallerStates /\ caller'.pc = "ForgetWake"
            /\ caller'.kind = "EventSpace"
        BY <1>1, <2>1, <3>1 DEF CallerStates, CallerPcs
      <4> QED BY <4>1 DEF CallerFits
    <3>2. CASE caller.kind # "EventSpace"
      <4>1. caller' = IdleCaller BY <2>1, <3>2
      <4> QED BY <4>1, CallerIdles
    <3> QED BY <3>1, <3>2
  <2>3. CallerPart' BY <2>2 DEF CallerPart
  <2>4. SendsPart' BY <1>1, <1>2, <2>1, <2>2, PlaceGivenBack
  <2>5. chan' \in ChannelState /\ (chan.wakeFailure => chan'.wakeFailure)
    BY <1>1, <2>1, RefusalShape
  <2>6. GatePart' BY <1>1, <2>1, <2>2, <2>5, GateCaller DEF IInv
  <2> QED
    BY <2>3, <2>4, <2>5, <2>6, CallerStep
    DEF TryBeginAdmission, IInv, SlotsPart, StorePart
<1> QED BY <1>3, <1>4

LEMMA SettleShape ==
  ASSUME NEW g \in Gate!GateWord
  PROVE  Gate!Settle(g) = [phase |-> IF g.pending \/ g.resched THEN "Scheduled" ELSE "Idle",
                           pending |-> FALSE, resched |-> FALSE,
                           inFlight |-> g.inFlight]
<1> DEFINE cleared == Gate!ClearDrainFlags(g)
           next == IF g.pending \/ g.resched THEN "Scheduled" ELSE "Idle"
<1>1. cleared \in Gate!GateWord /\ cleared.inFlight = g.inFlight
      /\ ~ cleared.pending /\ ~ cleared.resched
  BY ClearedShape
<1>2. Gate!Settle(g) = [cleared EXCEPT !.phase = next] BY DEF Gate!Settle
<1> HIDE DEF cleared, next
<1>3. Gate!Settle(g) = [phase |-> next, pending |-> FALSE, resched |-> FALSE,
                        inFlight |-> g.inFlight]
  BY <1>1, <1>2 DEF Gate!GateWord
<1> QED BY <1>3 DEF next

LEMMA AdmissionDone ==
  ASSUME NEW g \in Gate!GateWord, NEW ticket, NEW accepted \in BOOLEAN,
         g.inFlight = 1, g.phase # "Idle", ticket # "Rejected",
         ticket = "RequiresNewPermit" <=> g.phase = "Admitting",
         g.phase \in {"Admitting", "Scheduled"} => ~ g.resched /\ ~ g.pending
  PROVE  LET resolution == IF accepted THEN "MailboxCommitted" ELSE "MailboxRejected"
             done == Gate!CompleteAdmission(g, ticket, resolution)
         IN  AdmissionOver(g, accepted, done.word, done.directive = "EnqueueReadyToken")
<1> DEFINE resolution == IF accepted THEN "MailboxCommitted" ELSE "MailboxRejected"
           done == Gate!CompleteAdmission(g, ticket, resolution)
<1>1. /\ g.phase \in Gate!Phases /\ g.pending \in BOOLEAN /\ g.resched \in BOOLEAN
      /\ g.inFlight \in 0 .. 1
  BY GateFields
<1>2. CASE g.phase = "Admitting"
  <2> DEFINE cleared == Gate!ClearDrainFlags(g)
             next == IF resolution = "MailboxCommitted" THEN "Scheduled" ELSE "Idle"
  <2>1. cleared \in Gate!GateWord /\ ~ cleared.pending /\ ~ cleared.resched BY ClearedShape
  <2>2. /\ done.word = [cleared EXCEPT !.inFlight = 0, !.phase = next]
        /\ done.directive = IF accepted THEN "EnqueueReadyToken" ELSE "ReleasePermit"
    BY <1>2 DEF Gate!CompleteAdmission, Gate!CompleteNewPermit
  <2>0. next = (IF accepted THEN "Scheduled" ELSE "Idle")
        /\ next \in {"Scheduled", "Idle"}
    OBVIOUS
  <2> HIDE DEF cleared, next, done
  <2>3. done.word = [phase |-> next, pending |-> FALSE, resched |-> FALSE, inFlight |-> 0]
    BY <2>1, <2>2 DEF Gate!GateWord
  <2>4. done.word \in Gate!GateWord BY <2>0, <2>3 DEF Gate!GateWord, Gate!Phases
  <2>5. /\ done.word.phase = next /\ ~ done.word.pending /\ ~ done.word.resched
        /\ done.word.inFlight = 0
    BY <2>3
  <2> QED BY <1>2, <2>0, <2>2, <2>4, <2>5 DEF done, AdmissionOver
<1>3. CASE g.phase # "Admitting"
  <2> DEFINE marks == accepted /\ g.phase \in {"Draining", "DrainCompleting"}
             d == [phase |-> g.phase, pending |-> g.pending \/ marks,
                   resched |-> g.resched, inFlight |-> 0]
  <2>1. [Gate!MarkPending(g, resolution) EXCEPT !.inFlight = @ - 1] = d
    <3>1. Gate!MarkPending(g, resolution)
            = [phase |-> g.phase, pending |-> g.pending \/ marks,
               resched |-> g.resched, inFlight |-> 1]
      BY <1>1 DEF Gate!MarkPending, Gate!GateWord
    <3> QED BY <3>1
  <2>2. d \in Gate!GateWord BY <1>1 DEF Gate!GateWord
  <2>3. done = IF g.phase = "DrainCompleting"
               THEN [word |-> Gate!Settle(d), directive |-> Gate!SettleDirective(d)]
               ELSE [word |-> d, directive |-> "NoAction"]
    BY <1>1, <1>3, <2>1 DEF Gate!CompleteAdmission, Gate!CompleteExistingPermit, Gate!Phases
  <2>4. /\ d.phase = g.phase /\ d.pending = (g.pending \/ marks)
        /\ d.resched = g.resched /\ d.inFlight = 0
    OBVIOUS
  <2> HIDE DEF done, d
  <2>5. CASE g.phase = "DrainCompleting"
    <3> DEFINE next == IF d.pending \/ d.resched THEN "Scheduled" ELSE "Idle"
    <3>1. done.word = [phase |-> next, pending |-> FALSE, resched |-> FALSE, inFlight |-> 0]
      BY <2>2, <2>3, <2>4, <2>5, SettleShape
    <3>2. done.directive = IF d.pending \/ d.resched THEN "EnqueueReadyToken"
                           ELSE "ReleasePermit"
      BY <2>3, <2>5 DEF Gate!SettleDirective
    <3>3. next \in {"Scheduled", "Idle"} /\ (next = "Scheduled" <=> d.pending \/ d.resched)
      OBVIOUS
    <3> HIDE DEF next
    <3>4. done.word \in Gate!GateWord BY <3>1, <3>3 DEF Gate!GateWord, Gate!Phases
    <3>5. /\ done.word.phase = next /\ ~ done.word.pending /\ ~ done.word.resched
          /\ done.word.inFlight = 0
      BY <3>1
    <3> QED BY <2>4, <2>5, <3>2, <3>3, <3>4, <3>5 DEF done, AdmissionOver
  <2>6. CASE g.phase # "DrainCompleting"
    <3>1. done.word = d /\ done.directive = "NoAction" BY <2>3, <2>6
    <3>2. g.phase \in {"Scheduled", "Draining"} BY <1>1, <1>3, <2>6 DEF Gate!Phases
    <3> QED BY <1>1, <2>2, <2>4, <3>1, <3>2 DEF done, AdmissionOver
  <2> QED BY <2>5, <2>6
<1> QED BY <1>2, <1>3

\* A Commands packet is posted while the port holds none.
LEMMA CommandsPosted ==
  ASSUME OpsPart, "Commands" \notin Kinds(port), UNCHANGED <<kernel, tp>>,
         port' = Append(port, Control("Commands"))
  PROVE  OpsPart' /\ "Commands" \in Kinds(port')
<1>1. /\ OpsAccounted(tp, kernel, Append(port, Control("Commands")))
      /\ Append(port, Control("Commands")) \in Seq(Packets)
      /\ Kinds(Append(port, Control("Commands"))) = Kinds(port) \cup {"Commands"}
  BY OpsControlPosted DEF OpsPart
<1> QED BY <1>1 DEF OpsPart

LEMMA AfterCommitShape ==
  ASSUME caller \in CallerStates, NEW woken \in BOOLEAN
  PROVE  LET c == AfterCommit(caller.kind, caller.accepted, woken) IN
         /\ c \in CallerStates /\ \A gen : CallerFits(c, gen)
         /\ c.kind # "Send" /\ c.pc \notin {"Publish", "Commit"}
<1> DEFINE c == AfterCommit(caller.kind, caller.accepted, woken)
<1>1. CASE c = IdleCaller BY <1>1, CallerIdles
<1>2. CASE /\ c = [caller EXCEPT !.pc = "ClearSendGen"] /\ caller.kind = "Connect"
  <2>1. c \in CallerStates /\ c.pc = "ClearSendGen" /\ c.kind = "Connect"
    BY <1>2 DEF CallerStates, CallerPcs
  <2> QED BY <2>1 DEF CallerFits
<1>3. CASE /\ c = [caller EXCEPT !.pc = "Join"] /\ caller.kind = "Shutdown"
  <2>1. c \in CallerStates /\ c.pc = "Join" /\ c.kind = "Shutdown"
    BY <1>3 DEF CallerStates, CallerPcs
  <2> QED BY <2>1 DEF CallerFits
<1>4. CASE /\ c = [caller EXCEPT !.pc = "ForgetWake"] /\ caller.kind = "EventSpace"
  <2>1. c \in CallerStates /\ c.pc = "ForgetWake" /\ c.kind = "EventSpace"
    BY <1>4 DEF CallerStates, CallerPcs
  <2> QED BY <2>1 DEF CallerFits
<1> QED BY <1>1, <1>2, <1>3, <1>4 DEF AfterCommit

LEMMA CompleteAdmissionKeeps == ASSUME IInv, CompleteAdmission PROVE IInv'
<1> DEFINE resolution == IF caller.accepted THEN "MailboxCommitted" ELSE "MailboxRejected"
           done == Gate!CompleteAdmission(gate, caller.ticket, resolution)
           wakes == done.directive = "EnqueueReadyToken"
<1>1. /\ chan \in ChannelState /\ caller \in CallerStates /\ caller.pc = "Commit"
      /\ gate \in Gate!GateWord /\ SendsPart /\ OpsPart /\ caller.accepted \in BOOLEAN
      /\ refused \in 0 .. MaxPostFailures
  BY CallerFields
  DEF IInv, ChannelPart, CallerPart, CompleteAdmission, CallerAt, GatePart
<1>2. GateFits(gate, caller, Draining(worker), "Commands" \in Kinds(port),
               chan.wakeFailure)
  BY DEF IInv, GatePart
<1>3. /\ gate.inFlight = 1 /\ gate.phase # "Idle" /\ caller.ticket # "Rejected"
      /\ caller.ticket = "RequiresNewPermit" <=> gate.phase = "Admitting"
      /\ gate.phase \in {"Admitting", "Scheduled"} => ~ gate.resched /\ ~ gate.pending
      /\ gate.phase = "Draining" => ~ gate.resched
  BY <1>1, <1>2 DEF GateFits
<1>4. AdmissionOver(gate, caller.accepted, done.word, wakes) BY <1>1, <1>3, AdmissionDone
<1>5. /\ gate' = done.word
      /\ \/ /\ port' = IF wakes THEN Append(port, Control("Commands")) ELSE port
            /\ chan' = IF caller.accepted THEN chan
                       ELSE ChannelAfterRefusal(chan, caller.kind)
            /\ caller' = AfterCommit(caller.kind, caller.accepted, TRUE)
            /\ refused' = refused
         \/ /\ wakes /\ refused < MaxPostFailures
            /\ chan' = Unwoken(caller.accepted, caller.kind)
            /\ caller' = AfterCommit(caller.kind, caller.accepted, FALSE)
            /\ refused' = refused + 1
            /\ port' = port
      /\ depth' = IF caller.kind = "Send" /\ ~caller.accepted THEN depth - 1 ELSE depth
      /\ UNCHANGED <<slots, sends, kernel, tp, store, worker>>
  BY DEF CompleteAdmission, Unwoken
<1> HIDE DEF done, resolution, wakes
<1>6. /\ chan' \in ChannelState /\ (chan.wakeFailure => chan'.wakeFailure)
  BY <1>1, <1>5, RefusalShape, UnwokenShape
<1>7. /\ caller' \in CallerStates /\ CallerFits(caller', chan'.gen)
      /\ caller'.kind # "Send" /\ caller'.pc \notin {"Publish", "Commit"}
  BY <1>1, <1>5, AfterCommitShape
<1>8. SendsPart' BY <1>1, <1>5, <1>7, PlaceGivenBack
<1>9. refused' \in 0 .. MaxPostFailures
  <2>1. refused' = refused \/ (refused < MaxPostFailures /\ refused' = refused + 1) BY <1>5
  <2> QED BY <1>1, <2>1, ClientRuntimeAssumption
<1>10. \/ ~ wakes /\ port' = port
       \/ wakes /\ port' = Append(port, Control("Commands"))
       \/ wakes /\ port' = port /\ chan'.wakeFailure
  BY <1>1, <1>5, UnwokenShape
<1>11. wakes => "Commands" \notin Kinds(port) BY <1>2, <1>4 DEF GateFits, AdmissionOver
<1>12. OpsPart'
  <2>1. CASE port' = port
    <3>1. SameOps(tp, tp') BY <1>5 DEF SameOps
    <3> QED BY <1>1, <1>5, <2>1, <3>1, OpsUntouched
  <2>2. CASE wakes /\ port' = Append(port, Control("Commands"))
    BY <1>1, <1>5, <1>11, <2>2, CommandsPosted
  <2> QED BY <1>10, <2>1, <2>2
<1>13. GatePart'
  <2>1. CASE ~ wakes /\ port' = port
    <3>1. port' = port /\ gate' = done.word /\ worker' = worker BY <1>5, <2>1
    <3>2. GateFits(gate', caller', Draining(worker), "Commands" \in Kinds(port),
                   chan'.wakeFailure)
      BY <1>2, <1>3, <1>4, <1>6, <1>7, <2>1, <3>1 DEF GateFits, AdmissionOver
    <3> QED BY <1>4, <3>1, <3>2 DEF GatePart, AdmissionOver
  <2>2. CASE wakes /\ port' = Append(port, Control("Commands"))
    <3>1. "Commands" \in Kinds(port') /\ gate' = done.word /\ worker' = worker
      BY <1>1, <1>5, <1>11, <2>2, CommandsPosted
    <3>2. GateFits(gate', caller', Draining(worker), TRUE, chan'.wakeFailure)
      BY <1>2, <1>3, <1>4, <1>7, <2>2, <3>1 DEF GateFits, AdmissionOver
    <3>3. GateFits(gate', caller', Draining(worker'), "Commands" \in Kinds(port'),
                   chan'.wakeFailure)
      BY <3>1, <3>2 DEF GateFits
    <3> QED BY <1>4, <3>1, <3>3 DEF GatePart, AdmissionOver
  <2>3. CASE wakes /\ port' = port /\ chan'.wakeFailure
    <3>1. gate' = done.word /\ worker' = worker BY <1>5
    <3>2. GateFits(gate', caller', Draining(worker), "Commands" \in Kinds(port),
                   chan'.wakeFailure)
      BY <1>2, <1>3, <1>4, <1>7, <2>3, <3>1, <1>11 DEF GateFits, AdmissionOver
    <3> QED BY <1>4, <2>3, <3>1, <3>2 DEF GatePart, AdmissionOver
  <2> QED BY <1>10, <2>1, <2>2, <2>3
<1>14. TransportPart' /\ SlotsPart' /\ StorePart'
  BY <1>5 DEF IInv, TransportPart, SlotsPart, StorePart
<1>15. ChannelPart' /\ CallerPart' BY <1>6, <1>7, <1>9 DEF ChannelPart, CallerPart
<1> QED BY <1>8, <1>12, <1>13, <1>14, <1>15 DEF IInv

LEMMA SlotFields ==
  ASSUME SlotsPart, NEW kind \in CommandKinds
  PROVE  slots[kind] \in {EmptySlot} \cup Generations
  BY DEF SlotsPart

\* Between the two ends of an admission the gate is not touched.
LEMMA GateInAdmission ==
  ASSUME GatePart, UNCHANGED <<gate, worker, port, chan>>,
         caller.pc = "Publish", caller'.pc = "Commit", caller'.ticket = caller.ticket
  PROVE  GatePart'
  BY DEF GatePart, GateFits, Draining

LEMMA TryPublishKeeps == ASSUME IInv, TryPublish PROVE IInv'
<1>1. /\ chan \in ChannelState /\ caller \in CallerStates /\ caller.pc = "Publish"
      /\ caller.kind # "Send" /\ SlotsPart /\ SendsPart
  BY DEF IInv, ChannelPart, CallerPart, TryPublish, CallerAt
<1>2. caller.kind \in CommandKinds BY <1>1, CallerFields DEF IInv, CallerPart, CallerFits
<1>3. CommandGeneration(caller.kind) \in Generations
  BY <1>1, ChannelFields, ZeroGeneration DEF CommandGeneration
<1>4. SlotsPart' BY <1>1, <1>2, <1>3 DEF TryPublish, SlotsPart
<1>5. caller' = [caller EXCEPT !.pc = "Commit",
                               !.accepted = slots[caller.kind] = EmptySlot]
  BY DEF TryPublish
<1>6. /\ caller' \in CallerStates /\ caller'.pc = "Commit"
      /\ caller'.kind = caller.kind /\ caller'.ticket = caller.ticket
  BY <1>1, <1>5 DEF CallerStates, CallerPcs
<1>7. CallerPart' BY <1>1, <1>2, <1>6, KindsAre DEF CallerPart, CallerFits
<1>8. SendsPart' BY <1>1, <1>6 DEF TryPublish, SendsPart, SendSlotsConserved, ReleasedSends
<1>9. GatePart' BY <1>1, <1>6, GateInAdmission DEF IInv, TryPublish
<1>10. StorePart' /\ chan' \in ChannelState BY <1>1 DEF IInv, StorePart, TryPublish
<1> QED BY <1>4, <1>7, <1>8, <1>9, <1>10, CallerStep DEF TryPublish

LEMMA PushSendKeeps == ASSUME IInv, PushSend PROVE IInv'
<1> DEFINE valid == chan.state = "Connected" /\ chan.sendGen = caller.gen
<1>1. /\ chan \in ChannelState /\ caller \in CallerStates /\ caller.pc = "Publish"
      /\ caller.kind = "Send" /\ SendsPart
  BY DEF IInv, ChannelPart, CallerPart, PushSend, CallerAt
<1>2. ~ caller.accepted BY <1>1 DEF IInv, CallerPart, CallerFits
<1>3. /\ sends' = IF valid THEN Append(sends, caller.gen) ELSE sends
      /\ caller' = [caller EXCEPT !.pc = "Commit", !.accepted = valid]
      /\ UNCHANGED <<depth, tp, chan, gate, worker, port>>
  BY DEF PushSend
<1>4. valid \in BOOLEAN OBVIOUS
<1> HIDE DEF valid
<1>5. /\ caller' \in CallerStates /\ caller'.pc = "Commit" /\ caller'.kind = "Send"
      /\ caller'.ticket = caller.ticket /\ caller'.accepted = valid
  BY <1>1, <1>3, <1>4 DEF CallerStates, CallerPcs
<1>6. CallerPart' BY <1>5 DEF CallerPart, CallerFits
<1>7. SendsPart'
  <2>1. depth = Len(sends) + ReleasedSends(tp) + 1 /\ depth \in Nat
        /\ depth <= SendCapacity
    BY <1>1, <1>2 DEF SendsPart, SendSlotsConserved
  <2>2. Len(sends) \in Nat /\ ReleasedSends(tp) \in Nat
    BY <1>1, LenProperties DEF SendsPart, ReleasedSends
  <2>3. CASE valid
    <3>1. sends' \in Seq(Generations) /\ Len(sends') = Len(sends) + 1
      BY <1>1, <1>3, <2>3, CallerFields, AppendProperties DEF SendsPart
    <3>2. depth' = Len(sends') + ReleasedSends(tp') + 0 BY <1>3, <2>1, <2>2, <3>1
    <3> QED BY <1>3, <1>5, <2>1, <2>3, <3>1, <3>2 DEF SendsPart, SendSlotsConserved
  <2>4. CASE ~ valid BY <1>1, <1>2, <1>3, <1>5, <2>4 DEF SendsPart, SendSlotsConserved
  <2> QED BY <2>3, <2>4
<1>8. GatePart' BY <1>1, <1>3, <1>5, GateInAdmission DEF IInv
<1>9. StorePart' /\ SlotsPart' /\ chan' \in ChannelState
  BY <1>1 DEF IInv, StorePart, SlotsPart, PushSend
<1> QED BY <1>6, <1>7, <1>8, <1>9, CallerStep DEF PushSend

LEMMA ClearSendGenerationKeeps == ASSUME IInv, ClearSendGeneration PROVE IInv'
<1>1. chan \in ChannelState /\ caller \in CallerStates /\ caller.pc = "ClearSendGen"
  BY DEF IInv, ChannelPart, CallerPart, ClearSendGeneration, CallerAt
<1>2. caller.kind # "Send" BY <1>1 DEF IInv, CallerPart, CallerFits
<1>3. chan' = [chan EXCEPT !.sendGen = 0] /\ caller' = IdleCaller BY DEF ClearSendGeneration
<1>4. chan' \in ChannelState /\ chan'.wakeFailure = chan.wakeFailure
  BY <1>1, <1>3, ZeroGeneration DEF ChannelState
<1>5. CallerPart' /\ caller'.kind # "Send" /\ caller'.pc = "Idle"
  BY <1>3, CallerIdles DEF CallerPart
<1> QED BY <1>1, <1>2, <1>4, <1>5, CallerMoves DEF ClearSendGeneration, IInv, StorePart

LEMMA StoreFields ==
  ASSUME NEW s \in EventStore
  PROVE  /\ s.queue \in Seq(Events) /\ s.outcome \in Events \cup {NoEvent}
         /\ s.ended \in Events \cup {NoEvent} /\ s.pending \in BOOLEAN
         /\ s.wake \in BOOLEAN
  BY DEF EventStore

LEMMA TryPopEventKeeps == ASSUME IInv, TryPopEvent PROVE IInv'
<1>1. /\ chan \in ChannelState /\ caller \in CallerStates /\ caller.pc = "Idle"
      /\ store \in EventStore
  BY DEF IInv, ChannelPart, CallerPart, StorePart, TryPopEvent, CallerAt
<1>2. caller.kind = "None" BY <1>1 DEF IInv, CallerPart, CallerFits
<1>3. /\ store' = [store EXCEPT !.queue = Tail(store.queue)] /\ store.queue # <<>>
      /\ caller' = [caller EXCEPT !.pc = "AdvancePos"]
  BY DEF TryPopEvent
<1>4. StorePart'
  <2>1. Tail(store.queue) \in Seq(Events) BY <1>1, <1>3, StoreFields, HeadTailProperties
  <2> QED BY <1>1, <1>3, <2>1 DEF StorePart, EventStore
<1>5. caller' \in CallerStates /\ caller'.pc = "AdvancePos" /\ caller'.kind = "None"
  BY <1>1, <1>2, <1>3 DEF CallerStates, CallerPcs
<1>6. CallerPart' BY <1>5 DEF CallerPart, CallerFits
<1> QED BY <1>1, <1>2, <1>4, <1>5, <1>6, CallerMoves DEF TryPopEvent

LEMMA AdvanceDequeuePosKeeps == ASSUME IInv, AdvanceDequeuePos PROVE IInv'
<1>1. /\ chan \in ChannelState /\ caller \in CallerStates /\ caller.pc = "AdvancePos"
      /\ caller' = [caller EXCEPT !.pc = "CheckPending"]
  BY DEF IInv, ChannelPart, CallerPart, AdvanceDequeuePos, CallerAt
<1>2. caller.kind = "None" BY <1>1 DEF IInv, CallerPart, CallerFits
<1>3. caller' \in CallerStates /\ caller'.pc = "CheckPending" /\ caller'.kind = "None"
  BY <1>1, <1>2 DEF CallerStates, CallerPcs
<1>4. CallerPart' BY <1>3 DEF CallerPart, CallerFits
<1> QED BY <1>1, <1>2, <1>3, <1>4, CallerMoves DEF AdvanceDequeuePos, IInv, StorePart

LEMMA CheckPendingKeeps == ASSUME IInv, CheckPending PROVE IInv'
<1>1. /\ chan \in ChannelState /\ caller \in CallerStates /\ caller.pc = "CheckPending"
      /\ store \in EventStore
  BY DEF IInv, ChannelPart, CallerPart, StorePart, CheckPending, CallerAt
<1>2. caller.kind = "None" BY <1>1 DEF IInv, CallerPart, CallerFits
<1>3. \/ /\ store' = [store EXCEPT !.wake = TRUE]
         /\ caller' = [caller EXCEPT !.pc = "Signal", !.kind = "EventSpace"]
      \/ caller' = IdleCaller /\ store' = store
  BY DEF CheckPending
<1>4. StorePart' BY <1>1, <1>3 DEF StorePart, EventStore
<1>5. CallerPart' /\ caller'.kind # "Send" /\ caller'.pc \in {"Idle", "Signal"}
  <2>1. CASE caller' = [caller EXCEPT !.pc = "Signal", !.kind = "EventSpace"]
    <3>1. caller' \in CallerStates /\ caller'.pc = "Signal" /\ caller'.kind = "EventSpace"
      BY <1>1, <2>1, KindsAre DEF CallerStates, CallerPcs
    <3> QED BY <3>1 DEF CallerPart, CallerFits
  <2>2. CASE caller' = IdleCaller BY <2>2, CallerIdles DEF CallerPart
  <2> QED BY <1>3, <2>1, <2>2
<1> QED BY <1>1, <1>2, <1>4, <1>5, CallerMoves DEF CheckPending

LEMMA SignalEventSpaceAvailableKeeps ==
  ASSUME IInv, SignalEventSpaceAvailable PROVE IInv'
<1>1. chan \in ChannelState /\ caller \in CallerStates /\ caller.pc = "Signal"
  BY DEF IInv, ChannelPart, CallerPart, SignalEventSpaceAvailable, CallerAt
<1>2. caller.kind = "EventSpace" BY <1>1 DEF IInv, CallerPart, CallerFits
<1>3. \/ caller' = [caller EXCEPT !.pc = "ForgetWake"]
      \/ caller' = [caller EXCEPT !.pc = "Admit"]
  BY DEF SignalEventSpaceAvailable
<1>4. /\ caller' \in CallerStates /\ caller'.pc \in {"ForgetWake", "Admit"}
      /\ caller'.kind = "EventSpace"
  BY <1>1, <1>2, <1>3 DEF CallerStates, CallerPcs
<1>5. CallerPart' BY <1>4 DEF CallerPart, CallerFits
<1> QED BY <1>1, <1>2, <1>4, <1>5, CallerMoves DEF SignalEventSpaceAvailable, IInv, StorePart

LEMMA ForgetWakeKeeps == ASSUME IInv, ForgetWake PROVE IInv'
<1>1. /\ chan \in ChannelState /\ caller.pc = "ForgetWake" /\ store \in EventStore
  BY DEF IInv, ChannelPart, CallerPart, StorePart, ForgetWake, CallerAt
<1>2. caller.kind # "Send" BY <1>1 DEF IInv, CallerPart, CallerFits
<1>3. store' = [store EXCEPT !.wake = FALSE] /\ caller' = IdleCaller BY DEF ForgetWake
<1>4. StorePart' BY <1>1, <1>3 DEF StorePart, EventStore
<1>5. CallerPart' /\ caller'.kind # "Send" /\ caller'.pc = "Idle"
  BY <1>3, CallerIdles DEF CallerPart
<1> QED BY <1>1, <1>2, <1>4, <1>5, CallerMoves DEF ForgetWake

LEMMA JoinKeeps == ASSUME IInv, Join PROVE IInv'
<1>1. /\ chan \in ChannelState /\ caller.pc \in {"Join", "Idle"}
  BY DEF IInv, ChannelPart, Join, CallerAt
<1>2. caller.kind # "Send" BY <1>1 DEF IInv, CallerPart, CallerFits
<1>3. /\ store' = [queue |-> <<>>, outcome |-> NoEvent, ended |-> NoEvent,
                   pending |-> FALSE, wake |-> FALSE]
      /\ caller' = [IdleCaller EXCEPT !.pc = "Closed"]
  BY DEF Join
<1>4. StorePart' BY <1>3, EmptySeq DEF StorePart, EventStore
<1>5. CallerPart' /\ caller'.kind # "Send" /\ caller'.pc = "Closed"
  <2>1. caller' \in CallerStates /\ caller'.pc = "Closed" /\ caller'.kind = "None"
    BY <1>3, CallerIdles DEF CallerStates, CallerPcs
  <2> QED BY <2>1 DEF CallerPart, CallerFits
<1> QED BY <1>1, <1>2, <1>4, <1>5, CallerMoves DEF Join

LEMMA CallerNextKeeps == ASSUME IInv, CallerNext PROVE IInv'
  BY SubmitConnectKeeps, SetGenerationKeeps, SubmitDisconnectKeeps, SubmitShutdownKeeps,
     CloseSendsKeeps, SubmitSendKeeps, TryBeginAdmissionKeeps, TryPublishKeeps,
     PushSendKeeps, CompleteAdmissionKeeps, ClearSendGenerationKeeps, TryPopEventKeeps,
     AdvanceDequeuePosKeeps, CheckPendingKeeps, SignalEventSpaceAvailableKeeps,
     ForgetWakeKeeps, JoinKeeps
  DEF CallerNext

----------------------------------------
\* The drain.
\* Between two handlers a disconnect under way waits for the kernel.
LEMMA AtRest ==
  ASSUME NEW t, NEW w, WorkerFits(t, w), t.disconnecting,
         w.pc \in {"Pump", "Scan", "ConsumeSend", "RecordConnected", "OpenSends",
                   "RecheckConnected", "PublishPacket", "StartNextSend"}
  PROVE  t.conn # 0 /\ HasPendingIo(t)
  BY DEF WorkerFits, DisconnectGoesOn, Publishing, EventPcs, Failing

LEMMA ExitFits ==
  ASSUME NEW t, NEW w, w.pc \in {"Exit", "Stopped"}, w.pc = "Stopped" => ~ w.inDrain,
         t.disconnecting /\ t.conn # 0 => HasPendingIo(t)
  PROVE  WorkerFits(t, w) /\ Failing(w)
<1>1. WorkerLocal(w) /\ Failing(w) BY DEF WorkerLocal, Failing
<1>2. DisconnectGoesOn(t, w) BY <1>1 DEF DisconnectGoesOn
<1>3. PlaceFits(t, w) BY DEF PlaceFits, Publishing, EventPcs
<1> QED BY <1>1, <1>2, <1>3 DEF WorkerFits

\* A packet that reports no operation is taken from the port.
LEMMA ControlTaken ==
  ASSUME OpsPart, port # <<>>, Head(port).kind \notin IoOps, port' = Tail(port),
         UNCHANGED <<kernel, tp>>
  PROVE  OpsPart' /\ Kinds(port') = Kinds(port) \ {Head(port).kind}
         /\ Head(port).kind \in Kinds(port)
<1>1. /\ OpsAccounted(tp, kernel, Tail(port)) /\ Tail(port) \in Seq(Packets)
      /\ Kinds(Tail(port)) = Kinds(port) \ {Head(port).kind}
      /\ Head(port).kind \in Kinds(port)
  BY OpsControlTaken DEF OpsPart
<1> QED BY <1>1 DEF OpsPart

LEMMA PumpStopKeeps == ASSUME IInv, PumpStop PROVE IInv'
<1>1. /\ tp \in TransportState /\ worker \in WorkerStates /\ OpsPart /\ SendsPart
      /\ ConnectionSound(tp, worker) /\ WorkerFits(tp, worker)
      /\ refused \in 0 .. MaxPostFailures
  BY DEF IInv, TransportPart, ChannelPart
<1>2. /\ worker.pc = "Pump" /\ port # <<>> /\ Head(port).kind = "Stop"
      /\ port' = Tail(port) /\ worker' = Goto(worker, "Exit")
  BY DEF PumpStop, Pump, WorkerAt, Goto
<1>3. worker' \in WorkerStates /\ worker'.pc = "Exit" BY <1>1, <1>2, GotoShape, PcsTyped
<1>4. tp.disconnecting => tp.conn # 0 /\ HasPendingIo(tp) BY <1>1, <1>2, AtRest
<1>5. WorkerFits(tp, worker') BY <1>3, <1>4, ExitFits
<1>6. ConnectionSound(tp, worker')
  BY <1>1, <1>2, SettleSound DEF Settled, Publishing, EventPcs, Failing
<1>7. TransportPart' BY <1>1, <1>3, <1>5, <1>6 DEF TransportPart, PumpStop
<1>8. OpsPart' /\ ("Commands" \in Kinds(port') <=> "Commands" \in Kinds(port))
  BY <1>1, <1>2, ControlTaken DEF PumpStop, IoOps
<1>9. SendsPart' BY <1>1, SendsSame DEF PumpStop
<1>10. Draining(worker') <=> Draining(worker)
  BY <1>1, <1>2, <1>3 DEF Draining, WorkerFits, WorkerLocal
<1>11. SlotsPart' /\ StorePart' /\ refused' \in 0 .. MaxPostFailures
  BY <1>1 DEF PumpStop, IInv, SlotsPart, StorePart
<1> QED BY <1>7, <1>8, <1>9, <1>10, <1>11, WorkerStep DEF PumpStop

LEMMA PumpCommandsKeeps == ASSUME IInv, PumpCommands PROVE IInv'
<1>1. /\ tp \in TransportState /\ worker \in WorkerStates /\ OpsPart /\ SendsPart
      /\ ConnectionSound(tp, worker) /\ WorkerFits(tp, worker)
      /\ gate \in Gate!GateWord
      /\ GateFits(gate, caller, Draining(worker), "Commands" \in Kinds(port),
                  chan.wakeFailure)
  BY DEF IInv, TransportPart, GatePart
<1>2. /\ worker.pc = "Pump" /\ port # <<>> /\ Head(port).kind = "Commands"
      /\ port' = Tail(port)
  BY DEF PumpCommands, Pump, WorkerAt
<1>3. /\ OpsPart' /\ "Commands" \in Kinds(port) /\ "Commands" \notin Kinds(port')
  BY <1>1, <1>2, ControlTaken DEF PumpCommands, IoOps
<1>4. gate.phase = "Scheduled" BY <1>1, <1>3 DEF GateFits
<1>5. /\ gate' = Gate!TryBeginDrain(gate)
      /\ worker' = [worker EXCEPT !.pc = "Scan", !.scan = 1, !.inDrain = TRUE]
  BY <1>4 DEF PumpCommands, Gate!CanBeginDrain
<1>6. /\ worker' \in WorkerStates /\ worker'.pc = "Scan" /\ worker'.scan = 1
      /\ worker'.inDrain /\ worker'.event = worker.event
      /\ worker'.status = worker.status
  <2>1. worker' = [pc |-> "Scan", inDrain |-> TRUE, drained |-> worker.drained,
                   scan |-> 1, ok |-> worker.ok, event |-> worker.event,
                   status |-> worker.status]
    BY <1>1, <1>5 DEF WorkerStates
  <2>2. /\ worker.drained \in Nat /\ worker.ok \in BOOLEAN /\ worker.status \in Statuses
        /\ worker.event \in [kind: EventKinds \cup {"None"}, gen: Generations]
    BY <1>1 DEF WorkerStates
  <2> QED BY <2>1, <2>2, PcsTyped DEF WorkerStates
<1>7. tp.disconnecting => tp.conn # 0 /\ HasPendingIo(tp) BY <1>1, <1>2, AtRest
<1>8. WorkerFits(tp, worker')
  BY <1>1, <1>2, <1>6, <1>7
  DEF WorkerFits, WorkerLocal, DisconnectGoesOn, PlaceFits, Publishing, EventPcs
<1>9. ConnectionSound(tp, worker')
  BY <1>1, <1>2, SettleSound DEF Settled, Publishing, EventPcs, Failing
<1>10. TransportPart' BY <1>1, <1>6, <1>8, <1>9 DEF TransportPart, PumpCommands
<1>11. gate' = [phase |-> "Draining", pending |-> FALSE, resched |-> FALSE,
                inFlight |-> gate.inFlight]
  <2> DEFINE cleared == Gate!ClearDrainFlags(gate)
  <2>1. cleared \in Gate!GateWord /\ ~ cleared.pending /\ ~ cleared.resched
        /\ cleared.inFlight = gate.inFlight
    BY <1>1, ClearedShape
  <2>2. gate' = [cleared EXCEPT !.phase = "Draining"] BY <1>5 DEF Gate!TryBeginDrain
  <2> HIDE DEF cleared
  <2> QED BY <2>1, <2>2 DEF Gate!GateWord
<1>12. gate' \in Gate!GateWord BY <1>1, <1>11 DEF Gate!GateWord, Gate!Phases
<1>13. caller' = caller /\ Draining(worker') BY <1>6 DEF PumpCommands, Draining
<1>14. GateFits(gate', caller, TRUE, FALSE, chan'.wakeFailure) BY <1>1, <1>4, <1>11 DEF GateFits
<1>15. GatePart' BY <1>3, <1>12, <1>13, <1>14 DEF GatePart, GateFits
<1>16. SendsPart' BY <1>1, SendsSame DEF PumpCommands
<1>17. ChannelPart' /\ SlotsPart' /\ StorePart' /\ CallerPart'
  BY DEF PumpCommands, IInv, ChannelPart, SlotsPart, StorePart, CallerPart
<1> QED BY <1>3, <1>10, <1>15, <1>16, <1>17 DEF IInv

LEMMA ScanEmptyKeeps == ASSUME IInv, ScanEmpty PROVE IInv'
<1>1. /\ tp \in TransportState /\ worker \in WorkerStates
      /\ ConnectionSound(tp, worker) /\ WorkerFits(tp, worker)
  BY DEF IInv, TransportPart
<1>2. worker.pc = "Scan" /\ worker.scan \in 1 .. 4
  BY <1>1 DEF ScanEmpty, WorkerAt, WorkerFits, WorkerLocal, WorkerStates
<1>3. Len(SlotOrder) = 4 BY DEF SlotOrder
<1>4. \/ worker' = Goto(worker, "ConsumeSend")
      \/ worker' = [worker EXCEPT !.scan = worker.scan + 1] /\ worker.scan # 4
  BY <1>3 DEF ScanEmpty
<1>5. /\ worker' \in WorkerStates /\ worker'.pc \in {"ConsumeSend", "Scan"}
      /\ worker'.inDrain = worker.inDrain /\ worker'.event = worker.event
      /\ worker'.status = worker.status
      /\ worker'.scan # 0 \/ worker'.pc # "Scan"
  <2>1. CASE worker' = Goto(worker, "ConsumeSend") BY <1>1, <2>1, GotoShape, PcsTyped, ZenonT(60)
  <2>2. CASE worker' = [worker EXCEPT !.scan = worker.scan + 1] /\ worker.scan # 4
    BY <1>1, <1>2, <2>2 DEF WorkerStates
  <2> QED BY <1>4, <2>1, <2>2
<1>6. tp.disconnecting => tp.conn # 0 /\ HasPendingIo(tp) BY <1>1, <1>2, AtRest
<1>7. WorkerFits(tp, worker')
  BY <1>1, <1>2, <1>5, <1>6
  DEF WorkerFits, WorkerLocal, DisconnectGoesOn, PlaceFits, Publishing, EventPcs
<1>8. ConnectionSound(tp, worker')
  BY <1>1, <1>2, SettleSound DEF Settled, Publishing, EventPcs, Failing
<1>9. Draining(worker') <=> Draining(worker) BY <1>2, <1>5 DEF Draining
<1>10. StorePart' BY DEF IInv, StorePart, ScanEmpty
<1> QED BY <1>5, <1>7, <1>8, <1>9, <1>10, WorkerMoves DEF ScanEmpty, shared

LEMMA DrainEmptyKeeps == ASSUME IInv, DrainEmpty PROVE IInv'
<1>1. /\ tp \in TransportState /\ worker \in WorkerStates
      /\ ConnectionSound(tp, worker) /\ WorkerFits(tp, worker)
  BY DEF IInv, TransportPart
<1>2. worker.pc = "ConsumeSend" /\ worker.inDrain \in BOOLEAN
  BY <1>1 DEF DrainEmpty, WorkerAt, WorkerStates
<1>3. worker' = IF worker.inDrain THEN Goto(worker, "CompleteDrain") ELSE IdleWorker
  BY DEF DrainEmpty
<1>4. tp.disconnecting => tp.conn # 0 /\ HasPendingIo(tp) BY <1>1, <1>2, AtRest
<1>5. worker' \in WorkerStates /\ WorkerFits(tp, worker')
      /\ (Draining(worker') <=> Draining(worker))
  <2>1. CASE worker.inDrain
    <3>1. /\ worker' \in WorkerStates /\ worker'.pc = "CompleteDrain" /\ worker'.inDrain
      BY <1>1, <1>3, <2>1, GotoShape, PcsTyped
    <3> QED
      BY <1>2, <1>4, <2>1, <3>1
      DEF WorkerFits, WorkerLocal, DisconnectGoesOn, PlaceFits, Publishing, EventPcs,
          Draining
  <2>2. CASE ~ worker.inDrain
    <3>1. /\ worker' \in WorkerStates /\ worker'.pc = "Pump" /\ ~ worker'.inDrain
          /\ worker'.event = NoEvent /\ worker'.status = "Ok"
      BY <1>3, <2>2, IdleWorkerShape
    <3> QED
      BY <1>2, <1>4, <2>2, <3>1
      DEF WorkerFits, WorkerLocal, DisconnectGoesOn, PlaceFits, Publishing, EventPcs,
          Draining
  <2> QED BY <2>1, <2>2
<1>6. ConnectionSound(tp, worker')
  BY <1>1, <1>2, SettleSound DEF Settled, Publishing, EventPcs, Failing
<1>7. StorePart' BY DEF IInv, StorePart, DrainEmpty
<1> QED BY <1>5, <1>6, <1>7, WorkerMoves DEF DrainEmpty, shared

LEMMA WorkerExitsKeeps == ASSUME IInv, WorkerExits PROVE IInv'
<1>1. /\ tp \in TransportState /\ worker \in WorkerStates
      /\ ConnectionSound(tp, worker) /\ WorkerFits(tp, worker) /\ worker.pc = "Exit"
  BY DEF IInv, TransportPart, WorkerExits, WorkerAt
<1>2. worker' = [IdleWorker EXCEPT !.pc = "Stopped", !.status = worker.status] BY DEF WorkerExits
<1>3. worker.status \in Statuses BY <1>1 DEF WorkerStates
<1>4. /\ worker' \in WorkerStates /\ worker'.pc = "Stopped" /\ ~ worker'.inDrain
  BY <1>2, <1>3, IdleWorkerShape, PcsTyped DEF WorkerStates
<1>5. tp.disconnecting /\ tp.conn # 0 => HasPendingIo(tp) BY <1>1 DEF WorkerFits, DisconnectGoesOn
<1>6. WorkerFits(tp, worker') /\ Failing(worker') BY <1>4, <1>5, ExitFits
<1>7. ConnectionSound(tp, worker') BY <1>1, <1>6 DEF ConnectionSound, LiveConnection
<1>8. StorePart' /\ (Draining(worker') <=> Draining(worker))
  BY <1>1, <1>4 DEF IInv, StorePart, WorkerExits, Draining
<1> QED BY <1>4, <1>6, <1>7, <1>8, WorkerMoves DEF WorkerExits, shared

LEMMA ConsumedSlot ==
  ASSUME SlotsPart, NEW kind \in CommandKinds, TryConsume(kind)
  PROVE  /\ SlotsPart' /\ worker.pc = "Scan"
         /\ slots[kind] \in Generations
<1>1. slots' = [slots EXCEPT ![kind] = EmptySlot] BY DEF TryConsume
<1> QED BY <1>1 DEF SlotsPart, TryConsume, Scanned, WorkerAt

\* What every handler of a command starts from.
LEMMA HandlerStart ==
  ASSUME IInv, worker.pc \in {"Scan", "ConsumeSend", "PublishPacket", "StartNextSend"}
  PROVE  /\ tp \in TransportState /\ worker \in WorkerStates
         /\ OpsPart /\ SendsPart /\ SlotsPart /\ StorePart
         /\ ConnectionSound(tp, worker) /\ WorkerFits(tp, worker) /\ Settled(worker)
         /\ refused \in 0 .. MaxPostFailures
         /\ tp.disconnecting => tp.conn # 0 /\ HasPendingIo(tp)
<1>1. /\ tp \in TransportState /\ worker \in WorkerStates /\ OpsPart /\ SendsPart
      /\ ConnectionSound(tp, worker) /\ WorkerFits(tp, worker)
      /\ SlotsPart /\ StorePart /\ refused \in 0 .. MaxPostFailures
  BY DEF IInv, TransportPart, ChannelPart
<1>2. Settled(worker) BY DEF Settled, Publishing, EventPcs, Failing
<1>3. tp.disconnecting => tp.conn # 0 /\ HasPendingIo(tp) BY <1>1, AtRest
<1> QED BY <1>1, <1>2, <1>3

\* A handler that changes nothing of the transport returns.
LEMMA HandlerReturns ==
  ASSUME IInv, worker.pc \in {"Scan", "ConsumeSend", "PublishPacket", "StartNextSend"},
         UNCHANGED <<chan, gate, sends, depth, port, kernel, tp, caller, refused>>,
         SlotsPart', StorePart',
         \/ worker' = ReturnOk(worker)
         \/ \E site \in Statuses \ {"Ok"} : worker' = ReturnFailed(worker, site)
  PROVE  IInv'
<1>1. /\ tp \in TransportState /\ worker \in WorkerStates /\ OpsPart /\ SendsPart
      /\ ConnectionSound(tp, worker) /\ Settled(worker)
      /\ refused \in 0 .. MaxPostFailures
      /\ tp.disconnecting => tp.conn # 0 /\ HasPendingIo(tp)
  BY HandlerStart
<1>2. worker.pc # "Exit" /\ ConnectionSound(tp, worker') BY <1>1, SettleSound
<1>3. worker' \in WorkerStates /\ WorkerFits(tp, worker')
      /\ (Draining(worker') <=> Draining(worker))
  <2>1. CASE worker' = ReturnOk(worker)
    BY <1>1, <1>2, <2>1, ReturnOkFits, ReturnOkShape DEF Draining
  <2>2. CASE \E site \in Statuses \ {"Ok"} : worker' = ReturnFailed(worker, site)
    <3>1. PICK site \in Statuses \ {"Ok"} : worker' = ReturnFailed(worker, site) BY <2>2
    <3> QED BY <1>1, <1>2, <3>1, ReturnFailedFits, FailedShape DEF Draining
  <2> QED BY <2>1, <2>2
<1>4. TransportPart' /\ SameOps(tp, tp') BY <1>1, <1>2, <1>3 DEF TransportPart, SameOps
<1>5. OpsPart' /\ SendsPart' BY <1>1, <1>4, OpsUntouched, SendsSame DEF SameOps
<1> QED BY <1>1, <1>3, <1>4, <1>5, WorkerStep

LEMMA BeginConnectLife ==
  ASSUME NEW l \in Life!Lifecycle(Generations), Life!BeginConnect(l).ok,
         l.gen + 1 \in Generations
  PROVE  LET b == Life!BeginConnect(l).life IN
         /\ b \in Life!Lifecycle(Generations) /\ b.gen = l.gen + 1
         /\ b.state = "Connecting" /\ b.outcome = "None" /\ ~ b.outcomeCommitted
         /\ ~ b.ended /\ ~ b.endCommitted /\ l.state = "Idle"
<1>1. l.state = "Idle" BY DEF Life!BeginConnect, Life!Refuse
<1>2. Life!BeginConnect(l).life
        = [state |-> "Connecting", gen |-> l.gen + 1, outcome |-> "None",
           outcomeCommitted |-> FALSE, ended |-> FALSE, endCommitted |-> FALSE]
  BY <1>1 DEF Life!BeginConnect, Life!Accept, Life!ResetAttemptPublication, Life!Lifecycle
<1> QED BY <1>1, <1>2 DEF Life!Lifecycle, Life!LifecycleStates, Life!Outcomes

LEMMA HandleConnectKeeps == ASSUME IInv, HandleConnect PROVE IInv'
<1> DEFINE l == Life!BeginConnect(tp.life).life
           t == [tp EXCEPT !.life = l]
<1>1. "Connect" \in CommandKinds /\ TryConsume("Connect") /\ SlotsPart
  BY KindsAre DEF HandleConnect, IInv
<1>2. SlotsPart' /\ worker.pc = "Scan" /\ slots["Connect"] \in Generations BY <1>1, ConsumedSlot
<1>3. StorePart' /\ UNCHANGED <<chan, gate, sends, depth, port, store, caller, refused>>
  BY DEF IInv, StorePart, HandleConnect
<1>4. CASE \/ slots["Connect"] # tp.life.gen + 1 \/ ~ Life!BeginConnect(tp.life).ok
           \/ tp.conn # 0
  <2>1. worker' = ReturnFailed(worker, "Connect") /\ UNCHANGED <<tp, kernel>>
    BY <1>4 DEF HandleConnect
  <2>2. "Connect" \in Statuses \ {"Ok"} BY DEF Statuses
  <2> QED BY <1>2, <1>3, <2>1, <2>2, HandlerReturns
<1>5. CASE /\ slots["Connect"] = tp.life.gen + 1 /\ Life!BeginConnect(tp.life).ok
           /\ tp.conn = 0
  <2>1. /\ tp \in TransportState /\ worker \in WorkerStates /\ OpsPart /\ SendsPart
        /\ ConnectionSound(tp, worker) /\ Settled(worker)
        /\ refused \in 0 .. MaxPostFailures
        /\ tp.disconnecting => tp.conn # 0
    BY <1>2, HandlerStart
  <2>2. /\ l \in Life!Lifecycle(Generations) /\ l.gen = tp.life.gen + 1
        /\ l.gen \in Generations /\ l.gen # 0
        /\ l.state = "Connecting" /\ l.outcome = "None" /\ ~ l.outcomeCommitted
        /\ ~ l.ended /\ ~ l.endCommitted /\ tp.life.state = "Idle"
    <3>1. tp.life \in Life!Lifecycle(Generations) /\ tp.life.gen \in Generations
      BY <2>1, TpFields, LifeFields
    <3>2. tp.life.gen + 1 \in Generations /\ tp.life.gen + 1 # 0
      BY <1>2, <1>5, <3>1 DEF Generations
    <3> QED BY <1>5, <3>1, <3>2, BeginConnectLife
  <2> HIDE DEF l
  <2>3. /\ ~ tp.disconnecting /\ ~ tp.shutdown /\ ~ tp.closed /\ ~ tp.recv
        /\ ~ tp.send /\ ~ tp.connectIo /\ ~ tp.active
    BY <1>5, <2>1, <2>2, TpFields DEF ConnectionSound, NoConnection
  <2>4. /\ t \in TransportState /\ t.life = l /\ t.conn = 0
        /\ ~ t.disconnecting /\ ~ t.shutdown /\ ~ t.closed /\ ~ t.recv
        /\ ~ t.send /\ ~ t.connectIo /\ ~ t.active /\ t.stopPosted = tp.stopPosted
    BY <1>5, <2>1, <2>2, <2>3 DEF TransportState
  <2>5. \/ /\ tp' = [t EXCEPT !.conn = t.life.gen, !.connectIo = TRUE]
           /\ kernel' = kernel \cup {[op |-> "Connect", gen |-> t.life.gen]}
           /\ worker' = ReturnOk(worker)
        \/ RecordConnectFailure(t, worker) /\ UNCHANGED kernel
    BY <1>5 DEF HandleConnect, l
  <2> HIDE DEF t
  <2>6. \A op \in IoOps : ~ Pending(tp, op) BY <2>3 DEF Pending, IoOps
  <2>7. CASE /\ tp' = [t EXCEPT !.conn = t.life.gen, !.connectIo = TRUE]
             /\ kernel' = kernel \cup {[op |-> "Connect", gen |-> t.life.gen]}
             /\ worker' = ReturnOk(worker)
    <3> DEFINE mid == [t EXCEPT !.conn = l.gen]
    <3>1. /\ mid \in TransportState /\ mid.conn = l.gen /\ ~ mid.recv /\ ~ mid.send
          /\ ~ mid.connectIo /\ mid.stopPosted = tp.stopPosted
      BY <2>2, <2>4 DEF TransportState
    <3>2. /\ tp' \in TransportState /\ tp'.life = l /\ tp'.conn = l.gen /\ tp'.connectIo
          /\ ~ tp'.disconnecting /\ ~ tp'.shutdown /\ ~ tp'.closed /\ ~ tp'.recv
          /\ ~ tp'.send /\ ~ tp'.active /\ tp'.stopPosted = tp.stopPosted
      BY <2>2, <2>4, <2>7 DEF TransportState
    <3> HIDE DEF mid
    <3>3. ConnectionSound(tp', worker')
      BY <2>2, <3>2, TpFields DEF ConnectionSound, LiveConnection
    <3>4. worker' \in WorkerStates /\ WorkerFits(tp', worker')
      BY <2>1, <2>7, <3>2, ReturnOkFits, ReturnOkShape
    <3>5. Draining(worker') <=> Draining(worker) BY <1>2, <2>1, <2>7, ReturnOkShape DEF Draining
    <3>6. OpsAccounted(mid, kernel, port)
      <4>1. \A op \in IoOps : ~ Pending(mid, op) BY <3>1 DEF Pending, IoOps
      <4> QED BY <2>1, <2>6, <3>1, <4>1, OpsNone DEF OpsPart
    <3>7. OpsAccounted(tp', kernel \cup {[op |-> "Connect", gen |-> mid.conn]}, port)
      <4>1. \A x \in IoOps : Pending(tp', x) <=> Pending(mid, x) \/ x = "Connect"
        BY <3>1, <3>2 DEF Pending, IoOps
      <4>2. "Connect" \in IoOps /\ ~ Held(kernel, "Connect") /\ "Connect" \notin Kinds(port)
        BY <2>1, <2>6 DEF OpsPart, OpsAccounted, IoOps
      <4> QED BY <3>1, <3>2, <3>6, <4>1, <4>2, OpsPosted
    <3>8. OpsPart'
      <4>1. [op |-> "Connect", gen |-> l.gen] \in Operations BY <2>2 DEF Operations, IoOps
      <4> QED BY <1>3, <2>1, <2>4, <2>7, <3>1, <3>7, <4>1 DEF OpsPart
    <3>9. SendsPart' BY <1>3, <2>1, <2>3, <3>2, TpFields, SendsSame
    <3> QED
      BY <1>2, <1>3, <2>1, <3>2, <3>3, <3>4, <3>5, <3>8, <3>9, WorkerStep
      DEF TransportPart
  <2>8. CASE RecordConnectFailure(t, worker) /\ UNCHANGED kernel
    <3>1. Life!AwaitsOutcome(t.life) BY <2>2, <2>4 DEF Life!AwaitsOutcome
    <3>2. /\ TransportPart' /\ tp'.stopPosted = tp.stopPosted /\ ~ tp'.active
          /\ \A op \in IoOps : ~ Pending(tp', op)
          /\ Draining(worker') <=> Draining(worker)
      BY <1>2, <2>1, <2>2, <2>4, <2>8, <3>1, RecordConnectFailureKeeps
    <3>3. OpsPart' BY <1>3, <2>1, <2>6, <2>8, <3>2, OpsNone DEF OpsPart
    <3>4. tp'.active = tp.active BY <2>1, <2>3, <3>2, TpFields DEF TransportPart
    <3>5. SendsPart' BY <1>3, <2>1, <3>4, SendsSame
    <3> QED BY <1>2, <1>3, <2>1, <3>2, <3>3, <3>5, WorkerStep
  <2> QED BY <2>5, <2>7, <2>8
<1> QED BY <1>4, <1>5

\* A handler that begins a disconnect.
LEMMA HandlerDisconnects ==
  ASSUME IInv, worker.pc \in {"Scan", "ConsumeSend", "PublishPacket", "StartNextSend"},
         UNCHANGED <<chan, gate, port, kernel, caller, refused>>,
         SlotsPart', StorePart', tp.conn # 0, ~ tp.disconnecting,
         BeginDisconnect(tp, worker, 0)
  PROVE  IInv'
<1>1. /\ tp \in TransportState /\ worker \in WorkerStates /\ OpsPart /\ SendsPart
      /\ ConnectionSound(tp, worker) /\ Settled(worker)
      /\ refused \in 0 .. MaxPostFailures
  BY HandlerStart
<1>2. /\ TransportPart' /\ SameOps(tp, tp')
      /\ Draining(worker') <=> Draining(worker)
      /\ sends' = <<>> /\ depth' = depth - Len(sends) - 0
  BY <1>1, BeginDisconnectKeeps
<1>3. OpsPart' BY <1>1, <1>2, OpsUntouched
<1>4. ReleasedSends(tp) - ReleasedSends(tp') = 0 /\ tp'.active = tp.active
  BY <1>2 DEF ReleasedSends, SameOps
<1>5. SendsPart' BY <1>1, <1>2, <1>4, SendsDiscarded
<1> QED BY <1>1, <1>2, <1>3, <1>5, WorkerStep

LEMMA HandleDisconnectKeeps == ASSUME IInv, HandleDisconnect PROVE IInv'
<1> DEFINE over == tp.conn = 0 /\ tp.life.state = "Idle"
<1>1. "Disconnect" \in CommandKinds /\ TryConsume("Disconnect") /\ SlotsPart
  BY KindsAre DEF HandleDisconnect, IInv
<1>2. SlotsPart' /\ worker.pc = "Scan" BY <1>1, ConsumedSlot
<1>3. StorePart' /\ UNCHANGED <<chan, gate, port, kernel, store, caller, refused>>
  BY DEF IInv, StorePart, HandleDisconnect
<1>4. CASE worker' = ReturnOk(worker) /\ UNCHANGED <<sends, depth, tp>>
  BY <1>2, <1>3, <1>4, HandlerReturns
<1>5. CASE over /\ UNCHANGED <<sends, depth, tp>>
           /\ worker' = [worker EXCEPT !.pc = "RecordDisconnected",
                                       !.event = Event("None", tp.life.gen)]
  <2>1. /\ tp \in TransportState /\ worker \in WorkerStates /\ OpsPart /\ SendsPart
        /\ ConnectionSound(tp, worker) /\ Settled(worker) /\ WorkerFits(tp, worker)
        /\ refused \in 0 .. MaxPostFailures
    BY <1>2, HandlerStart
  <2> DEFINE e == Event("None", tp.life.gen)
  <2>2. e \in [kind: EventKinds \cup {"None"}, gen: Generations]
    BY <2>1, TpFields, LifeFields DEF Event
  <2>3. worker' = [worker EXCEPT !.pc = "RecordDisconnected", !.event = e] BY <1>5
  <2> HIDE DEF e
  <2>4. /\ worker' \in WorkerStates /\ worker'.pc = "RecordDisconnected"
        /\ worker'.inDrain = worker.inDrain
    BY <2>1, <2>2, <2>3, PcsTyped DEF WorkerStates
  <2>5. WorkerFits(tp, worker')
    BY <1>5, <2>4
    DEF WorkerFits, WorkerLocal, DisconnectGoesOn, PlaceFits, Publishing, EventPcs
  <2>6. ConnectionSound(tp, worker') BY <2>1, SettleSound
  <2>7. Draining(worker') <=> Draining(worker) BY <1>2, <2>4 DEF Draining
  <2>8. TransportPart' /\ SameOps(tp, tp')
    BY <1>5, <2>1, <2>4, <2>5, <2>6 DEF TransportPart, SameOps
  <2>9. OpsPart' /\ SendsPart' BY <1>3, <1>5, <2>1, <2>8, OpsUntouched, SendsSame DEF SameOps
  <2> QED BY <1>2, <1>3, <2>1, <2>7, <2>8, <2>9, WorkerStep
<1>6. CASE worker' = ReturnFailed(worker, "DisconnectAfterShutdown")
           /\ UNCHANGED <<sends, depth, tp>>
  <2>1. "DisconnectAfterShutdown" \in Statuses \ {"Ok"} BY DEF Statuses
  <2> QED BY <1>2, <1>3, <1>6, <2>1, HandlerReturns
<1>7. CASE tp.conn # 0 /\ ~ tp.disconnecting /\ BeginDisconnect(tp, worker, 0)
  BY <1>2, <1>3, <1>7, HandlerDisconnects
<1>8. \/ worker' = ReturnOk(worker) /\ UNCHANGED <<sends, depth, tp>>
      \/ /\ over /\ UNCHANGED <<sends, depth, tp>>
         /\ worker' = [worker EXCEPT !.pc = "RecordDisconnected",
                                     !.event = Event("None", tp.life.gen)]
      \/ /\ worker' = ReturnFailed(worker, "DisconnectAfterShutdown")
         /\ UNCHANGED <<sends, depth, tp>>
      \/ tp.conn # 0 /\ ~ tp.disconnecting /\ BeginDisconnect(tp, worker, 0)
  <2> DEFINE dropped == \/ slots["Disconnect"] # tp.life.gen
                        \/ over /\ chan.state = "Idle"
                        \/ ~over /\ tp.disconnecting
             records == /\ slots["Disconnect"] = tp.life.gen /\ over
                        /\ chan.state # "Idle"
             begins == slots["Disconnect"] = tp.life.gen /\ ~over /\ ~tp.disconnecting
  <2>1. dropped \/ records \/ begins OBVIOUS
  <2>2. ~ (dropped /\ records) /\ ~ (dropped /\ begins) /\ ~ (records /\ begins) OBVIOUS
  <2>3. CASE records BY <2>2, <2>3 DEF HandleDisconnect
  <2>4. CASE begins BY <2>2, <2>4 DEF HandleDisconnect
  <2>5. CASE dropped BY <2>2, <2>5 DEF HandleDisconnect
  <2> QED BY <2>1, <2>3, <2>4, <2>5
<1> QED BY <1>4, <1>5, <1>6, <1>7, <1>8

LEMMA HandleEventSpaceAvailableKeeps ==
  ASSUME IInv, HandleEventSpaceAvailable PROVE IInv'
<1>1. "EventSpace" \in CommandKinds /\ TryConsume("EventSpace") /\ SlotsPart
  BY KindsAre DEF HandleEventSpaceAvailable, IInv
<1>2. SlotsPart' /\ worker.pc = "Scan" BY <1>1, ConsumedSlot
<1>3. /\ UNCHANGED <<chan, gate, sends, depth, port, kernel, tp, caller, refused>>
      /\ store' = [store EXCEPT !.wake = FALSE]
      /\ worker' = IF store.wake THEN Goto(worker, "Promote")
                   ELSE ReturnFailed(worker, "EventSpace")
  BY DEF HandleEventSpaceAvailable
<1>4. StorePart' BY <1>3 DEF IInv, StorePart, EventStore
<1>5. CASE worker' = ReturnFailed(worker, "EventSpace")
  <2>1. "EventSpace" \in Statuses \ {"Ok"} BY DEF Statuses
  <2> QED BY <1>2, <1>3, <1>4, <1>5, <2>1, HandlerReturns
<1>6. CASE worker' = Goto(worker, "Promote")
  <2>1. /\ tp \in TransportState /\ worker \in WorkerStates /\ OpsPart /\ SendsPart
        /\ ConnectionSound(tp, worker) /\ Settled(worker) /\ WorkerFits(tp, worker)
        /\ refused \in 0 .. MaxPostFailures
        /\ tp.disconnecting => tp.conn # 0 /\ HasPendingIo(tp)
    BY <1>2, HandlerStart
  <2>2. /\ worker' \in WorkerStates /\ worker'.pc = "Promote"
        /\ worker'.inDrain = worker.inDrain /\ worker'.event = worker.event
    BY <1>6, <2>1, GotoShape, PcsTyped, ZenonT(60)
  <2>3. worker'.event = NoEvent /\ NoEvent.kind = "None"
    BY <1>2, <2>1, <2>2 DEF WorkerFits, WorkerLocal, NoEvent
  <2>4. WorkerFits(tp, worker')
    BY <2>1, <2>2, <2>3
    DEF WorkerFits, WorkerLocal, DisconnectGoesOn, PlaceFits, Publishing, EventPcs
  <2>5. ConnectionSound(tp, worker') BY <2>1, SettleSound
  <2>6. Draining(worker') <=> Draining(worker) BY <1>2, <2>2 DEF Draining
  <2>7. TransportPart' /\ SameOps(tp, tp')
    BY <1>3, <2>1, <2>2, <2>4, <2>5 DEF TransportPart, SameOps
  <2>8. OpsPart' /\ SendsPart' BY <1>3, <2>1, <2>7, OpsUntouched, SendsSame DEF SameOps
  <2> QED BY <1>2, <1>3, <1>4, <2>1, <2>6, <2>7, <2>8, WorkerStep
<1> QED BY <1>3, <1>5, <1>6

\* CompleteShutdown as a handler of the worker calls it.
LEMMA ShutdownStep ==
  ASSUME IInv, NEW t \in TransportState, NEW next \in WorkerStates,
         UNCHANGED <<chan, gate, caller, kernel>>, SlotsPart', StorePart',
         t.conn = 0, ~ t.closed, ~ t.recv, ~ t.send, ~ t.connectIo, ~ t.active, t.shutdown,
         t.life.state # "Shutdown", t.stopPosted = tp.stopPosted,
         \A op \in IoOps : ~ Pending(tp, op),
         ~ tp.active, worker.pc # "Exit",
         \A u : u.conn = 0 /\ ~ u.disconnecting /\ (\A op \in IoOps : ~ Pending(u, op))
                /\ u.life.state = "Shutdown" /\ u.life.outcome = "None"
                => WorkerFits(u, next),
         Draining(next) <=> Draining(worker),
         \/ UNCHANGED <<sends, depth>>
         \/ sends' = <<>> /\ depth' = depth - Len(sends) - 0,
         CompleteShutdown(t, next)
  PROVE  IInv'
<1>1. /\ worker \in WorkerStates /\ OpsPart /\ SendsPart /\ tp \in TransportState
      /\ refused \in 0 .. MaxPostFailures
  BY DEF IInv, TransportPart, ChannelPart
<1>2. NoConnection([t EXCEPT !.shutdown = FALSE]) BY DEF NoConnection, TransportState
<1>3. /\ tp' \in TransportState /\ tp'.conn = 0 /\ ~ tp'.disconnecting
      /\ ~ tp'.active /\ (\A op \in IoOps : ~ Pending(tp', op))
      /\ tp'.life.state = "Shutdown" /\ tp'.life.outcome = "None"
      /\ \A w : ConnectionSound(tp', w)
      /\ \/ /\ port' = port /\ (t.stopPosted => tp'.stopPosted)
         \/ /\ port' = Append(port, Control("Stop")) /\ ~ t.stopPosted
            /\ tp'.stopPosted
      /\ worker' = next \/ worker' = ReturnFailed(worker, "Post")
      /\ refused' \in 0 .. MaxPostFailures
  BY <1>1, <1>2, CompleteShutdownKeeps
<1>4. worker' \in WorkerStates /\ WorkerFits(tp', worker')
      /\ (Draining(worker') <=> Draining(worker))
  <2>1. CASE worker' = next BY <1>3, <2>1
  <2>2. CASE worker' = ReturnFailed(worker, "Post")
    <3>1. "Post" \in Statuses \ {"Ok"} BY DEF Statuses
    <3>2. WorkerFits(tp', ReturnFailed(worker, "Post")) BY <1>1, <1>3, <3>1, ReturnFailedFits
    <3>3. /\ worker' \in WorkerStates /\ worker'.inDrain = worker.inDrain
          /\ worker'.pc = IF worker.inDrain THEN "CompleteDrain" ELSE "Exit"
      BY <1>1, <2>2, <3>1, FailedShape
    <3> QED BY <2>2, <3>2, <3>3 DEF Draining
  <2> QED BY <1>3, <2>1, <2>2
<1>5. TransportPart' BY <1>3, <1>4 DEF TransportPart
<1>6. OpsPart' /\ ("Commands" \in Kinds(port') <=> "Commands" \in Kinds(port))
  <2>1. CASE port' = port /\ (t.stopPosted => tp'.stopPosted)
    BY <1>1, <1>3, <2>1, OpsNone DEF OpsPart
  <2>2. CASE /\ port' = Append(port, Control("Stop")) /\ ~ t.stopPosted
             /\ tp'.stopPosted
    <3>1. "Stop" \notin Kinds(port) /\ "Stop" \in {"Commands", "Stop"}
      BY <1>1, <2>2 DEF OpsPart, OpsAccounted
    <3>2. OpsAccounted(tp', kernel, port) BY <1>1, <1>3, <2>2, OpsNone DEF OpsPart
    <3>3. /\ OpsAccounted(tp', kernel, Append(port, Control("Stop")))
          /\ Append(port, Control("Stop")) \in Seq(Packets)
          /\ Kinds(Append(port, Control("Stop"))) = Kinds(port) \cup {"Stop"}
      <4>1. tp'.conn = tp'.conn /\ \A op \in IoOps : Pending(tp', op) <=> Pending(tp', op) OBVIOUS
      <4>2. port \in Seq(Packets) BY <1>1 DEF OpsPart
      <4> QED BY <2>2, <3>1, <3>2, <4>1, <4>2, OpsControlPosted
    <3> QED BY <1>1, <2>2, <3>3 DEF OpsPart
  <2> QED BY <1>3, <2>1, <2>2
<1>7. SendsPart'
  <2>1. tp'.active = FALSE /\ tp.active = FALSE BY <1>1, <1>3, TpFields
  <2>2. CASE UNCHANGED <<sends, depth>> BY <1>1, <2>1, <2>2, SendsSame
  <2>3. CASE sends' = <<>> /\ depth' = depth - Len(sends) - 0
    <3>1. ReleasedSends(tp) - ReleasedSends(tp') = 0 BY <2>1 DEF ReleasedSends
    <3> QED BY <1>1, <2>1, <2>3, <3>1, SendsDiscarded
  <2> QED BY <2>2, <2>3
<1> QED BY <1>3, <1>4, <1>5, <1>6, <1>7, WorkerStep

LEMMA HandleShutdownKeeps == ASSUME IInv, HandleShutdown PROVE IInv'
<1>1. "Shutdown" \in CommandKinds /\ TryConsume("Shutdown") /\ SlotsPart
  BY KindsAre DEF HandleShutdown, IInv
<1>2. SlotsPart' /\ worker.pc = "Scan" BY <1>1, ConsumedSlot
<1>3. StorePart' /\ UNCHANGED <<chan, gate, kernel, store, caller>>
  BY DEF IInv, StorePart, HandleShutdown
<1>4. /\ tp \in TransportState /\ worker \in WorkerStates /\ OpsPart /\ SendsPart
      /\ ConnectionSound(tp, worker) /\ Settled(worker)
      /\ refused \in 0 .. MaxPostFailures
  BY <1>2, HandlerStart
<1>5. CASE tp.shutdown
  <2>1. worker' = ReturnOk(worker) /\ UNCHANGED <<sends, depth, tp, port, refused>>
    BY <1>5 DEF HandleShutdown
  <2> QED BY <1>2, <1>3, <2>1, HandlerReturns
<1>6. CASE ~ tp.shutdown /\ tp.conn = 0
  <2> DEFINE t == [tp EXCEPT !.shutdown = TRUE]
             next == ReturnOk(worker)
  <2>1. DiscardQueuedSends(0) /\ CompleteShutdown(t, next) BY <1>6 DEF HandleShutdown
  <2>2. /\ ~ tp.closed /\ ~ tp.recv /\ ~ tp.send /\ ~ tp.connectIo /\ ~ tp.active
        /\ tp.life.state # "Shutdown"
    BY <1>4, <1>6, TpFields DEF ConnectionSound, NoConnection
  <2>3. /\ t \in TransportState /\ t.conn = 0 /\ ~ t.closed /\ ~ t.recv /\ ~ t.send
        /\ ~ t.connectIo /\ ~ t.active /\ t.shutdown /\ t.life.state # "Shutdown"
        /\ t.stopPosted = tp.stopPosted
    BY <1>4, <1>6, <2>2 DEF TransportState
  <2>4. \A op \in IoOps : ~ Pending(tp, op) BY <2>2 DEF Pending, IoOps
  <2>5. next \in WorkerStates /\ (Draining(next) <=> Draining(worker))
    BY <1>2, <1>4, ReturnOkShape DEF Draining
  <2>6. \A u : ~ u.disconnecting => WorkerFits(u, next) BY <1>4, ReturnOkFits
  <2>7. sends' = <<>> /\ depth' = depth - Len(sends) - 0 BY <2>1 DEF DiscardQueuedSends
  <2> HIDE DEF t, next
  <2> QED BY <1>2, <1>3, <2>1, <2>2, <2>3, <2>4, <2>5, <2>6, <2>7, ShutdownStep
<1>7. CASE ~ tp.shutdown /\ tp.conn # 0
  <2>1. /\ sends' = <<>> /\ depth' = depth - Len(sends) - 0
        /\ tp' = [tp EXCEPT !.shutdown = TRUE, !.disconnecting = TRUE, !.closed = TRUE]
        /\ worker' = Goto(worker, "Finish") /\ UNCHANGED <<port, refused>>
    BY <1>7 DEF HandleShutdown, DiscardQueuedSends
  <2>2. /\ tp' \in TransportState /\ SameOps(tp, tp') /\ tp'.life = tp.life
        /\ tp'.shutdown /\ tp'.disconnecting
    BY <1>4, <2>1 DEF TransportState, SameOps
  <2>3. ConnectionSound(tp', worker')
    BY <1>4, <1>7, <2>2
    DEF ConnectionSound, LiveConnection, SameOps, Settled
  <2>4. worker' \in WorkerStates /\ worker'.pc = "Finish" /\ worker'.inDrain = worker.inDrain
    BY <1>4, <2>1, GotoShape, PcsTyped
  <2>5. WorkerFits(tp', worker') BY <1>2, <1>4, <1>7, <2>1, <2>2, FinishFits DEF SameOps
  <2>6. TransportPart' /\ (Draining(worker') <=> Draining(worker))
    BY <1>2, <2>2, <2>3, <2>4, <2>5 DEF TransportPart, Draining
  <2>7. OpsPart' BY <1>3, <1>4, <2>1, <2>2, OpsUntouched
  <2>8. SendsPart'
    <3>1. ReleasedSends(tp) - ReleasedSends(tp') = 0 /\ tp'.active = tp.active
      BY <2>2 DEF ReleasedSends, SameOps
    <3> QED BY <1>3, <1>4, <2>1, <3>1, SendsDiscarded
  <2> QED BY <1>2, <1>3, <1>4, <2>1, <2>6, <2>7, <2>8, WorkerStep
<1> QED BY <1>5, <1>6, <1>7

\* The worker's handler takes a send from the queue and gives its place back.
LEMMA SendDropped ==
  ASSUME SendsPart, UNCHANGED caller, sends # <<>>, sends' = Tail(sends),
         depth' = depth - 1, tp'.active = tp.active
  PROVE  SendsPart'
<1> DEFINE mine == IF caller.kind = "Send" /\ ~ caller.accepted THEN 1 ELSE 0
<1>1. PICK n \in Nat \ {0} : n = Len(sends) BY EmptySeq, LenProperties DEF SendsPart
<1>2. sends' \in Seq(Generations) /\ Len(sends') = n - 1 BY <1>1, HeadTailProperties DEF SendsPart
<1>3. PICK r \in 0 .. 1 : r = ReleasedSends(tp) /\ r = ReleasedSends(tp') BY DEF ReleasedSends
<1>4. PICK own \in 0 .. 1 : own = mine OBVIOUS
<1>5. depth = n + r + own /\ depth <= SendCapacity /\ SendCapacity \in Nat
  BY <1>1, <1>3, <1>4, ClientRuntimeAssumption DEF SendsPart, SendSlotsConserved
<1>6. depth' = (n - 1) + r + own /\ depth' \in Nat /\ depth' <= SendCapacity BY <1>5
<1>7. depth' = Len(sends') + ReleasedSends(tp') + mine BY <1>2, <1>3, <1>4, <1>6
<1> QED BY <1>2, <1>6, <1>7 DEF SendsPart, SendSlotsConserved

\* A send taken from the queue is posted: its place is the active send's now.
LEMMA SendPosted ==
  ASSUME SendsPart, UNCHANGED <<caller, depth>>, sends # <<>>, sends' = Tail(sends),
         tp'.active = TRUE, tp.active = FALSE
  PROVE  SendsPart'
<1> DEFINE mine == IF caller.kind = "Send" /\ ~ caller.accepted THEN 1 ELSE 0
<1>1. PICK n \in Nat \ {0} : n = Len(sends) BY EmptySeq, LenProperties DEF SendsPart
<1>2. sends' \in Seq(Generations) /\ Len(sends') = n - 1 BY <1>1, HeadTailProperties DEF SendsPart
<1>3. ReleasedSends(tp) = 0 /\ ReleasedSends(tp') = 1 BY DEF ReleasedSends
<1>4. PICK own \in 0 .. 1 : own = mine OBVIOUS
<1>5. depth = n + 0 + own BY <1>1, <1>3, <1>4 DEF SendsPart, SendSlotsConserved
<1>6. depth' = Len(sends') + ReleasedSends(tp') + mine BY <1>2, <1>3, <1>4, <1>5
<1> QED BY <1>2, <1>6 DEF SendsPart, SendSlotsConserved

LEMMA TryConsumeNextSendKeeps == ASSUME IInv, TryConsumeNextSend PROVE IInv'
<1>1. /\ worker.pc = "ConsumeSend" /\ ~ tp.send /\ sends # <<>>
      /\ UNCHANGED <<chan, gate, slots, port, store, caller, refused>>
  BY DEF TryConsumeNextSend, WorkerAt
<1>2. /\ tp \in TransportState /\ worker \in WorkerStates /\ OpsPart /\ SendsPart
      /\ ConnectionSound(tp, worker) /\ Settled(worker) /\ WorkerFits(tp, worker)
      /\ refused \in 0 .. MaxPostFailures
      /\ tp.disconnecting => tp.conn # 0 /\ HasPendingIo(tp)
  BY <1>1, HandlerStart
<1>3. SlotsPart' /\ StorePart' BY <1>1 DEF IInv, SlotsPart, StorePart
<1>4. CASE ~ MaySend
  <2>1. /\ sends' = Tail(sends) /\ depth' = depth - 1 /\ UNCHANGED <<tp, kernel>>
        /\ worker' = IF worker.inDrain THEN ReturnOk(worker) ELSE worker
    BY <1>4 DEF TryConsumeNextSend
  <2>2. /\ worker' \in WorkerStates /\ WorkerFits(tp, worker')
        /\ Draining(worker') <=> Draining(worker)
    <3>1. CASE worker.inDrain BY <1>1, <1>2, <2>1, <3>1, ReturnOkFits, ReturnOkShape DEF Draining
    <3>2. CASE ~ worker.inDrain BY <1>2, <2>1, <3>2
    <3> QED BY <3>1, <3>2
  <2>3. ConnectionSound(tp, worker') BY <1>2, SettleSound
  <2>4. TransportPart' /\ SameOps(tp, tp') BY <1>2, <2>1, <2>2, <2>3 DEF TransportPart, SameOps
  <2>5. OpsPart' /\ SendsPart' BY <1>1, <1>2, <2>1, <2>4, OpsUntouched, SendDropped DEF SameOps
  <2> QED BY <1>1, <1>2, <1>3, <2>2, <2>4, <2>5, WorkerStep
<1>5. CASE /\ MaySend /\ Life!CanSend(tp.life) /\ sends' = Tail(sends)
           /\ tp' = [tp EXCEPT !.send = TRUE, !.active = TRUE]
           /\ kernel' = kernel \cup {[op |-> "Send", gen |-> tp.conn]}
           /\ worker' = ReturnOk(worker) /\ UNCHANGED depth
  <2>1. /\ tp.conn # 0 /\ ~ tp.disconnecting /\ tp.life.state = "Connected"
        /\ tp.life.outcome = "Connected"
    BY <1>5 DEF MaySend, Life!CanSend
  <2>2. /\ tp' \in TransportState /\ tp'.life = tp.life /\ tp'.conn = tp.conn
        /\ tp'.recv = tp.recv /\ tp'.send = TRUE /\ tp'.active = TRUE
        /\ tp'.connectIo = tp.connectIo /\ tp'.disconnecting = tp.disconnecting
        /\ tp'.shutdown = tp.shutdown /\ tp'.stopPosted = tp.stopPosted
    BY <1>2, <1>5 DEF TransportState
  <2>3. ~ tp.connectIo /\ ~ tp.active BY <1>1, <1>2, <2>1, TpFields DEF ConnectionSound
  <2>4. ConnectionSound(tp', worker')
    BY <1>2, <2>1, <2>2, <2>3 DEF ConnectionSound, LiveConnection, Settled
  <2>5. /\ worker' \in WorkerStates /\ WorkerFits(tp', worker')
        /\ Draining(worker') <=> Draining(worker)
    BY <1>1, <1>2, <1>5, <2>1, <2>2, ReturnOkFits, ReturnOkShape DEF Draining
  <2>6. TransportPart' BY <2>2, <2>4, <2>5 DEF TransportPart
  <2>7. \A x \in IoOps : Pending(tp', x) <=> Pending(tp, x) \/ x = "Send"
    BY <2>2 DEF Pending, IoOps
  <2>8. "Send" \in IoOps /\ ~ Held(kernel, "Send") /\ "Send" \notin Kinds(port)
    BY <1>1, <1>2 DEF OpsPart, OpsAccounted, IoOps, Pending
  <2>9. OpsAccounted(tp', kernel', port) BY <1>2, <1>5, <2>2, <2>7, <2>8, OpsPosted DEF OpsPart
  <2>10. [op |-> "Send", gen |-> tp.conn] \in Operations BY <1>2, <2>8, TpFields DEF Operations
  <2>11. OpsPart' BY <1>1, <1>2, <1>5, <2>9, <2>10 DEF OpsPart
  <2>12. SendsPart' BY <1>1, <1>2, <1>5, <2>2, <2>3, TpFields, SendPosted
  <2> QED BY <1>1, <1>2, <1>3, <2>5, <2>6, <2>11, <2>12, WorkerStep
<1>6. CASE MaySend /\ BeginDisconnect(tp, worker, 0) /\ UNCHANGED kernel
  BY <1>1, <1>3, <1>6, HandlerDisconnects DEF MaySend
<1> QED BY <1>4, <1>5, <1>6 DEF TryConsumeNextSend

LEMMA TryStartNextSendKeeps == ASSUME IInv, TryStartNextSend PROVE IInv'
<1>1. /\ worker.pc = "StartNextSend"
      /\ UNCHANGED <<chan, gate, slots, port, kernel, store, caller, refused>>
  BY DEF TryStartNextSend, WorkerAt
<1>2. /\ tp \in TransportState /\ worker \in WorkerStates /\ OpsPart /\ SendsPart
      /\ ConnectionSound(tp, worker) /\ Settled(worker) /\ WorkerFits(tp, worker)
      /\ refused \in 0 .. MaxPostFailures
      /\ tp.disconnecting => tp.conn # 0 /\ HasPendingIo(tp)
  BY <1>1, HandlerStart
<1>3. SlotsPart' /\ StorePart' BY <1>1 DEF IInv, SlotsPart, StorePart
<1>4. tp.conn # 0 /\ ~ tp.disconnecting BY <1>1, <1>2 DEF WorkerFits, PlaceFits
<1>5. \/ worker' = ReturnOk(worker) /\ UNCHANGED <<tp, sends, depth>>
      \/ worker' = Goto(worker, "ConsumeSend") /\ UNCHANGED <<tp, sends, depth>>
      \/ BeginDisconnect(tp, worker, 0)
  BY DEF TryStartNextSend
<1>6. CASE worker' = ReturnOk(worker) /\ UNCHANGED <<tp, sends, depth>>
  BY <1>1, <1>3, <1>6, HandlerReturns
<1>7. CASE worker' = Goto(worker, "ConsumeSend") /\ UNCHANGED <<tp, sends, depth>>
  <2>1. /\ worker' \in WorkerStates /\ worker'.pc = "ConsumeSend"
        /\ worker'.inDrain = worker.inDrain
    BY <1>2, <1>7, GotoShape, PcsTyped
  <2>2. WorkerFits(tp, worker')
    BY <1>4, <2>1
    DEF WorkerFits, WorkerLocal, DisconnectGoesOn, PlaceFits, Publishing, EventPcs
  <2>3. ConnectionSound(tp, worker') /\ (Draining(worker') <=> Draining(worker))
    BY <1>1, <1>2, <2>1, SettleSound DEF Draining
  <2> QED BY <1>1, <1>3, <1>7, <2>1, <2>2, <2>3, WorkerMoves
<1>8. CASE BeginDisconnect(tp, worker, 0) BY <1>1, <1>3, <1>4, <1>8, HandlerDisconnects
<1> QED BY <1>5, <1>6, <1>7, <1>8

LEMMA DrainDone ==
  ASSUME NEW g \in Gate!GateWord, NEW again \in BOOLEAN, g.phase = "Draining"
  PROVE  LET done == Gate!CompleteDrain(g, again)
         IN  DrainOver(g, again, done.word, done.directive = "EnqueueReadyToken")
<1> DEFINE done == Gate!CompleteDrain(g, again)
           d == [phase |-> "Draining", pending |-> g.pending,
                 resched |-> g.resched \/ again, inFlight |-> g.inFlight]
           e == [phase |-> "DrainCompleting", pending |-> g.pending,
                 resched |-> g.resched \/ again, inFlight |-> g.inFlight]
<1>1. /\ g.phase \in Gate!Phases /\ g.pending \in BOOLEAN /\ g.resched \in BOOLEAN
      /\ g.inFlight \in 0 .. 1
  BY GateFields
<1>2. [g EXCEPT !.resched = @ \/ again] = d /\ [d EXCEPT !.phase = "DrainCompleting"] = e
  BY DEF Gate!GateWord
<1>3. done = IF g.inFlight > 0
             THEN [word |-> e, directive |-> "FinalizationDeferred"]
             ELSE [word |-> Gate!Settle(d), directive |-> Gate!SettleDirective(d)]
  BY <1>2 DEF Gate!CompleteDrain
<1>4. d \in Gate!GateWord /\ e \in Gate!GateWord BY <1>1 DEF Gate!GateWord, Gate!Phases
<1>5. /\ d.pending = g.pending /\ d.resched = (g.resched \/ again)
      /\ d.inFlight = g.inFlight
      /\ e.phase = "DrainCompleting" /\ e.pending = g.pending
      /\ e.resched = (g.resched \/ again) /\ e.inFlight = g.inFlight
  OBVIOUS
<1> HIDE DEF done, d, e
<1>6. CASE g.inFlight > 0
  <2>1. done.word = e /\ done.directive = "FinalizationDeferred" /\ g.inFlight = 1
    BY <1>1, <1>3, <1>6
  <2> QED BY <1>4, <1>5, <2>1 DEF done, DrainOver
<1>7. CASE g.inFlight = 0
  <2> DEFINE next == IF d.pending \/ d.resched THEN "Scheduled" ELSE "Idle"
  <2>1. done.word = [phase |-> next, pending |-> FALSE, resched |-> FALSE, inFlight |-> 0]
    BY <1>3, <1>4, <1>5, <1>7, SettleShape
  <2>2. done.directive = IF d.pending \/ d.resched THEN "EnqueueReadyToken"
                         ELSE "ReleasePermit"
    BY <1>3, <1>7 DEF Gate!SettleDirective
  <2>3. next \in {"Scheduled", "Idle"}
        /\ (next = "Scheduled" <=> g.pending \/ g.resched \/ again)
        /\ (done.directive = "EnqueueReadyToken" <=> next = "Scheduled")
    BY <1>1, <1>5, <2>2
  <2> HIDE DEF next
  <2>4. done.word \in Gate!GateWord BY <2>1, <2>3 DEF Gate!GateWord, Gate!Phases
  <2>5. /\ done.word.phase = next /\ ~ done.word.pending /\ ~ done.word.resched
        /\ done.word.inFlight = 0
    BY <2>1
  <2> QED BY <1>7, <2>3, <2>4, <2>5 DEF done, DrainOver
<1> QED BY <1>1, <1>6, <1>7

LEMMA CompleteDrainKeeps == ASSUME IInv, CompleteDrain PROVE IInv'
<1> DEFINE failed == worker.status # "Ok"
           again == NeedsReschedule(worker)
           done == Gate!CompleteDrain(gate, again)
           wakes == done.directive = "EnqueueReadyToken"
<1>1. /\ tp \in TransportState /\ worker \in WorkerStates /\ OpsPart /\ SendsPart
      /\ ConnectionSound(tp, worker) /\ WorkerFits(tp, worker)
      /\ refused \in 0 .. MaxPostFailures /\ chan \in ChannelState
      /\ gate \in Gate!GateWord
      /\ GateFits(gate, caller, Draining(worker), "Commands" \in Kinds(port),
                  chan.wakeFailure)
  BY DEF IInv, TransportPart, ChannelPart, GatePart
<1>2. worker.pc = "CompleteDrain" /\ worker.inDrain /\ Draining(worker)
  BY <1>1 DEF CompleteDrain, WorkerAt, WorkerFits, WorkerLocal, Draining
<1>3. gate.phase = "Draining" /\ "Commands" \notin Kinds(port) BY <1>1, <1>2 DEF GateFits
<1>4. again \in BOOLEAN BY DEF NeedsReschedule
<1>5. DrainOver(gate, again, done.word, wakes) BY <1>1, <1>3, <1>4, DrainDone
<1>6. /\ gate' = done.word
      /\ \/ /\ port' = IF wakes THEN Append(port, Control("Commands")) ELSE port
            /\ worker' = IF failed THEN Goto(worker, "Exit") ELSE IdleWorker
            /\ chan' = chan /\ refused' = refused
         \/ /\ wakes /\ refused < MaxPostFailures
            /\ chan' = RecordWakeFailure(chan)
            /\ worker' = [worker EXCEPT !.pc = "Exit",
                                        !.status = IF failed THEN @ ELSE "Post"]
            /\ refused' = refused + 1 /\ port' = port
      /\ UNCHANGED <<slots, sends, depth, kernel, tp, store, caller>>
  BY DEF CompleteDrain
<1> HIDE DEF again, done, wakes
<1>7. /\ worker' \in WorkerStates /\ ~ Draining(worker')
      /\ \/ worker'.pc = "Exit"
         \/ worker' = IdleWorker /\ ~ failed
  <2>1. CASE worker' = IF failed THEN Goto(worker, "Exit") ELSE IdleWorker
    <3>1. CASE failed BY <1>1, <2>1, <3>1, GotoShape, PcsTyped, ZenonT(60) DEF Draining
    <3>2. CASE ~ failed BY <2>1, <3>2, IdleWorkerShape DEF Draining
    <3> QED BY <3>1, <3>2
  <2>2. CASE worker' = [worker EXCEPT !.pc = "Exit",
                                      !.status = IF failed THEN @ ELSE "Post"]
    <3> DEFINE s == IF failed THEN worker.status ELSE "Post"
    <3>1. s \in Statuses BY <1>1 DEF WorkerStates, Statuses
    <3>2. worker' = [worker EXCEPT !.pc = "Exit", !.status = s] BY <2>2
    <3> HIDE DEF s
    <3>3. worker' \in WorkerStates /\ worker'.pc = "Exit"
      BY <1>1, <3>1, <3>2, PcsTyped DEF WorkerStates
    <3> QED BY <3>3 DEF Draining
  <2> QED BY <1>6, <2>1, <2>2
<1>8. /\ tp.disconnecting /\ tp.conn # 0 => HasPendingIo(tp)
      /\ ~ failed /\ tp.disconnecting => tp.conn # 0
  BY <1>1, <1>2 DEF WorkerFits, DisconnectGoesOn, Publishing, EventPcs, Failing
<1>9. WorkerFits(tp, worker') /\ ConnectionSound(tp, worker')
  <2>1. CASE worker'.pc = "Exit"
    <3>1. WorkerFits(tp, worker') /\ Failing(worker') BY <1>8, <2>1, ExitFits
    <3> QED BY <1>1, <1>2, <3>1 DEF ConnectionSound, LiveConnection
  <2>2. CASE worker' = IdleWorker /\ ~ failed
    <3>1. Settled(worker) BY <1>2, <2>2 DEF Settled, Publishing, EventPcs, Failing
    <3>2. ConnectionSound(tp, worker') BY <1>1, <3>1, SettleSound
    <3>3. WorkerFits(tp, worker')
      BY <1>8, <2>2, IdleWorkerShape
      DEF WorkerFits, WorkerLocal, DisconnectGoesOn, PlaceFits, Publishing, EventPcs
    <3> QED BY <3>2, <3>3
  <2> QED BY <1>7, <2>1, <2>2
<1>10. TransportPart' /\ SameOps(tp, tp') BY <1>1, <1>6, <1>7, <1>9 DEF TransportPart, SameOps
<1>11. SendsPart' /\ SlotsPart' /\ StorePart'
  BY <1>1, <1>6, SendsSame DEF IInv, SlotsPart, StorePart
<1>12. /\ chan' \in ChannelState /\ chan'.gen = chan.gen
       /\ refused' \in 0 .. MaxPostFailures
  <2>1. chan' = chan \/ chan' = RecordWakeFailure(chan) BY <1>6
  <2>2. refused' = refused \/ (refused < MaxPostFailures /\ refused' = refused + 1) BY <1>6
  <2> QED BY <1>1, <2>1, <2>2, WakeFailureShape, ClientRuntimeAssumption
<1>13. \/ ~ wakes /\ port' = port
       \/ wakes /\ port' = Append(port, Control("Commands"))
       \/ wakes /\ port' = port /\ chan' = RecordWakeFailure(chan)
  BY <1>6
<1>14. OpsPart' /\ ("Commands" \in Kinds(port') => wakes)
       /\ (wakes => "Commands" \in Kinds(port') \/ chan'.wakeFailure)
  <2>1. CASE port' = port
    <3>1. OpsPart' BY <1>1, <1>6, <1>10, <2>1, OpsUntouched
    <3>2. wakes => chan'.wakeFailure \/ port' = Append(port, Control("Commands"))
      BY <1>1, <1>13, WakeFailureShape
    <3>3. CASE port' = Append(port, Control("Commands"))
      BY <1>1, <1>3, <1>6, <3>3, <2>1, CommandsPosted
    <3> QED BY <1>3, <2>1, <3>1, <3>2, <3>3
  <2>2. CASE wakes /\ port' = Append(port, Control("Commands"))
    BY <1>1, <1>3, <1>6, <2>2, CommandsPosted
  <2> QED BY <1>13, <2>1, <2>2
<1>15. GatePart'
  <2>1. gate' \in Gate!GateWord /\ DrainOver(gate, again, gate', wakes)
    BY <1>5, <1>6 DEF DrainOver
  <2>2. GateFits(gate', caller, FALSE, "Commands" \in Kinds(port'), chan'.wakeFailure)
    BY <1>1, <1>3, <1>14, <2>1 DEF GateFits, DrainOver
  <2>3. caller' = caller BY <1>6
  <2> QED BY <1>7, <2>1, <2>2, <2>3 DEF GatePart, GateFits
<1>16. ChannelPart' /\ CallerPart' BY <1>6, <1>12, CallerSame DEF IInv, ChannelPart
<1> QED BY <1>10, <1>11, <1>14, <1>15, <1>16 DEF IInv

----------------------------------------
\* Completions.
\* What the handler of a completion starts from: its connection is there.
LEMMA CompletionTaken ==
  ASSUME IInv, NEW op \in IoOps, Pump(op)
  PROVE  /\ tp \in TransportState /\ worker \in WorkerStates
         /\ kernel \in SUBSET Operations /\ SendsPart
         /\ ConnectionSound(tp, worker) /\ WorkerFits(tp, worker) /\ Settled(worker)
         /\ SlotsPart /\ StorePart /\ refused \in 0 .. MaxPostFailures
         /\ worker.pc = "Pump" /\ ~ worker.inDrain
         /\ worker.event = NoEvent /\ worker.status = "Ok"
         /\ Pending(tp, op) /\ tp.conn # 0 /\ tp.life.gen = tp.conn
         /\ Routed(Head(port))
         /\ port' \in Seq(Packets)
         /\ "Commands" \in Kinds(port') <=> "Commands" \in Kinds(port)
         /\ ~ Held(kernel, op) /\ op \notin Kinds(port')
         /\ \A u : /\ u.conn = tp.conn /\ u.stopPosted = tp.stopPosted
                   /\ \A x \in IoOps : Pending(u, x) <=> Pending(tp, x) /\ x # op
                   => OpsAccounted(u, kernel, port')
<1>1. /\ tp \in TransportState /\ worker \in WorkerStates /\ OpsPart /\ SendsPart
      /\ ConnectionSound(tp, worker) /\ WorkerFits(tp, worker)
      /\ SlotsPart /\ StorePart /\ refused \in 0 .. MaxPostFailures
  BY DEF IInv, TransportPart, ChannelPart
<1>2. /\ worker.pc = "Pump" /\ port # <<>> /\ Head(port).kind = op
      /\ port' = Tail(port)
  BY DEF Pump, WorkerAt
<1>3. /\ Settled(worker) /\ ~ worker.inDrain
      /\ worker.event = NoEvent /\ worker.status = "Ok"
  BY <1>1, <1>2
  DEF Settled, Publishing, EventPcs, Failing, WorkerFits, WorkerLocal
<1>4. /\ port \in Seq(Packets) /\ kernel \in SUBSET Operations
      /\ OpsAccounted(tp, kernel, port)
      /\ Distinct(port) /\ OfAttempt(port, tp.conn)
  BY <1>1 DEF OpsPart, OpsAccounted
<1>5. /\ port' \in Seq(Packets) /\ op \in Kinds(port) /\ Kinds(port') = Kinds(port) \ {op}
      /\ Head(port).gen = tp.conn
  BY <1>2, <1>4, TailPort
<1>6. Pending(tp, op) /\ ~ Held(kernel, op) BY <1>4, <1>5 DEF OpsAccounted
<1>7. tp.conn # 0 /\ tp.life.gen = tp.conn
  BY <1>1, <1>6 DEF ConnectionSound, LiveConnection, NoConnection, Pending, IoOps
<1>8. Routed(Head(port)) BY <1>5, <1>7 DEF Routed
<1>9. "Commands" \in Kinds(port') <=> "Commands" \in Kinds(port) BY <1>5 DEF IoOps
<1>10. ASSUME NEW u, u.conn = tp.conn, u.stopPosted = tp.stopPosted,
              \A x \in IoOps : Pending(u, x) <=> Pending(tp, x) /\ x # op
       PROVE  OpsAccounted(u, kernel, port')
  BY <1>2, <1>4, <1>10, OpsDone
<1> QED BY <1>1, <1>2, <1>3, <1>4, <1>5, <1>6, <1>7, <1>8, <1>9, <1>10

\* The handler has changed the transport, and perhaps the sends.
LEMMA CompletionHandled ==
  ASSUME IInv, NEW op \in IoOps, Pump(op),
         UNCHANGED <<chan, gate, slots, store, caller, refused>>,
         TransportPart', ~ Draining(worker'),
         kernel' \in SUBSET Operations, OpsAccounted(tp', kernel', port'), SendsPart'
  PROVE  IInv'
<1>1. /\ refused \in 0 .. MaxPostFailures /\ SlotsPart /\ StorePart /\ ~ worker.inDrain
      /\ port' \in Seq(Packets)
      /\ "Commands" \in Kinds(port') <=> "Commands" \in Kinds(port)
  BY CompletionTaken
<1>2. SlotsPart' /\ StorePart' /\ OpsPart' /\ (Draining(worker') <=> Draining(worker))
  BY <1>1 DEF SlotsPart, StorePart, OpsPart, Draining
<1> QED BY <1>1, <1>2, WorkerStep

LEMMA PumpConnectKeeps == ASSUME IInv, PumpConnect PROVE IInv'
<1> DEFINE t == [tp EXCEPT !.connectIo = FALSE]
           done == Head(port).outcome = "Done"
           w == [worker EXCEPT !.pc = "ConnectShutdown", !.ok = done]
<1>1. /\ Pump("Connect") /\ "Connect" \in IoOps
      /\ UNCHANGED <<chan, gate, slots, kernel, store, caller, refused>>
  BY DEF PumpConnect, IoOps
<1>2. /\ tp \in TransportState /\ worker \in WorkerStates
      /\ kernel \in SUBSET Operations /\ SendsPart
      /\ ConnectionSound(tp, worker) /\ Settled(worker)
      /\ ~ worker.inDrain /\ worker.event = NoEvent
      /\ Pending(tp, "Connect") /\ tp.conn # 0 /\ Routed(Head(port))
      /\ \A u : /\ u.conn = tp.conn /\ u.stopPosted = tp.stopPosted
                /\ \A x \in IoOps : Pending(u, x) <=> Pending(tp, x) /\ x # "Connect"
                => OpsAccounted(u, kernel, port')
  BY <1>1, CompletionTaken
<1>3. /\ tp.connectIo /\ ~ tp.recv /\ ~ tp.send /\ tp.life.outcome = "None"
      /\ LiveConnection(tp, worker)
  BY <1>2 DEF Pending, ConnectionSound
<1>4. /\ t \in TransportState /\ ~ t.connectIo /\ t.life = tp.life /\ t.conn = tp.conn
      /\ ~ t.recv /\ ~ t.send /\ t.active = tp.active /\ t.closed = tp.closed
      /\ t.disconnecting = tp.disconnecting /\ t.shutdown = tp.shutdown
      /\ t.stopPosted = tp.stopPosted
  BY <1>2, <1>3 DEF TransportState
<1>5. done \in BOOLEAN OBVIOUS
<1> HIDE DEF done
<1>6. /\ w \in WorkerStates /\ w.pc = "ConnectShutdown" /\ ~ w.inDrain
      /\ w.event = NoEvent
  BY <1>2, <1>5, PcsTyped DEF WorkerStates
<1>7. /\ worker' = w
      /\ \/ /\ DiscardQueuedSends(0) /\ DisconnectRequested
            /\ tp' = [t EXCEPT !.life = Life!RequestDisconnect(@).life,
                               !.disconnecting = TRUE, !.closed = TRUE]
         \/ tp' = t /\ UNCHANGED <<sends, depth>>
  BY <1>2 DEF PumpConnect, done
<1> HIDE DEF t, w
<1>8. /\ tp' \in TransportState /\ tp'.conn = tp.conn /\ tp'.stopPosted = tp.stopPosted
      /\ ~ tp'.connectIo /\ ~ tp'.recv /\ ~ tp'.send /\ tp'.active = tp.active
      /\ tp'.life.outcome = "None" /\ LiveConnection(tp', w)
  <2>1. CASE tp' = t BY <1>3, <1>4, <1>6, <2>1 DEF LiveConnection
  <2>2. CASE tp' = [t EXCEPT !.life = Life!RequestDisconnect(@).life,
                             !.disconnecting = TRUE, !.closed = TRUE]
    <3>1. tp' = Closed(t) BY <2>2 DEF Closed
    <3>2. t.life.state \in {"Connecting", "Connected", "Disconnecting"}
      BY <1>3, <1>4 DEF LiveConnection
    <3>3. Closing(t, tp') BY <1>4, <3>1, <3>2, ClosingShape
    <3>4. LiveConnection(tp', w) BY <1>3, <1>4, <3>3 DEF Closing, SameOps, LiveConnection
    <3> QED BY <1>3, <1>4, <3>3, <3>4 DEF Closing, SameOps
  <2> QED BY <1>7, <2>1, <2>2
<1>9. ConnectionSound(tp', worker')
  <2>1. tp'.send = tp.send /\ tp.active = tp.send
    BY <1>2, <1>3, <1>8, TpFields DEF ConnectionSound
  <2>2. tp'.life.state # "Shutdown" BY <1>8 DEF LiveConnection
  <2> QED BY <1>2, <1>7, <1>8, <2>1, <2>2 DEF ConnectionSound
<1>10. WorkerFits(tp', worker')
  BY <1>2, <1>6, <1>7, <1>8
  DEF WorkerFits, WorkerLocal, DisconnectGoesOn, PlaceFits, Publishing, EventPcs
<1>11. TransportPart' /\ ~ Draining(worker')
  BY <1>6, <1>7, <1>8, <1>9, <1>10 DEF TransportPart, Draining
<1>12. OpsAccounted(tp', kernel, port')
  <2>1. \A x \in IoOps : Pending(tp', x) <=> Pending(tp, x) /\ x # "Connect"
    BY <1>3, <1>8 DEF Pending, IoOps
  <2> QED BY <1>2, <1>8, <2>1
<1>13. SendsPart'
  <2>1. CASE UNCHANGED <<sends, depth>> BY <1>1, <1>2, <1>8, <2>1, SendsSame
  <2>2. CASE DiscardQueuedSends(0)
    <3>1. /\ sends' = <<>> /\ depth' = depth - Len(sends) - 0
          /\ ReleasedSends(tp) - ReleasedSends(tp') = 0
      BY <1>8, <2>2 DEF DiscardQueuedSends, ReleasedSends
    <3> QED BY <1>1, <1>2, <1>8, <3>1, SendsDiscarded
  <2> QED BY <1>7, <2>1, <2>2
<1> QED BY <1>1, <1>2, <1>11, <1>12, <1>13, CompletionHandled

\* The worker goes on in the handler that made the connection.
LEMMA ConnectingFits ==
  ASSUME NEW t, NEW w, w.pc = "ConnectOutcome", ~ w.inDrain,
         ~ t.connectIo, ~ t.recv, ~ t.send, t.life.outcome = "None",
         t.conn = 0 => ~ t.disconnecting /\ t.life.state = "Shutdown"
  PROVE  WorkerFits(t, w)
<1>1. WorkerLocal(w) BY DEF WorkerLocal
<1>2. DisconnectGoesOn(t, w) BY DEF DisconnectGoesOn
<1>3. PlaceFits(t, w) BY DEF PlaceFits, Publishing, EventPcs
<1> QED BY <1>1, <1>2, <1>3 DEF WorkerFits

LEMMA ConnectShutdownKeeps == ASSUME IInv, ConnectShutdown PROVE IInv'
<1> DEFINE r == ReleaseConnection(tp)
           t == [r EXCEPT !.shutdown = TRUE]
           next == Goto(worker, "ConnectOutcome")
<1>1. /\ tp \in TransportState /\ worker \in WorkerStates /\ OpsPart /\ SendsPart
      /\ ConnectionSound(tp, worker) /\ WorkerFits(tp, worker)
      /\ refused \in 0 .. MaxPostFailures
  BY DEF IInv, TransportPart, ChannelPart
<1>2. /\ worker.pc = "ConnectShutdown" /\ ~ worker.inDrain
      /\ UNCHANGED <<chan, gate, slots, kernel, store, caller>>
  BY <1>1 DEF ConnectShutdown, WorkerAt, WorkerFits, WorkerLocal
<1>3. SlotsPart' /\ StorePart' BY <1>2 DEF IInv, SlotsPart, StorePart
<1>4. /\ ~ tp.connectIo /\ ~ tp.recv /\ ~ tp.send /\ tp.life.outcome = "None"
      /\ tp.conn # 0
  BY <1>1, <1>2 DEF WorkerFits, PlaceFits
<1>5. ~ tp.active /\ tp.life.state # "Shutdown"
  BY <1>1, <1>4, TpFields DEF ConnectionSound, LiveConnection
<1>6. /\ next \in WorkerStates /\ next.pc = "ConnectOutcome"
      /\ next.inDrain = worker.inDrain
  BY <1>1, GotoShape, PcsTyped
<1> HIDE DEF next
<1>7. ~ Draining(next) /\ ~ Draining(worker) /\ worker.pc # "Exit" BY <1>2, <1>6 DEF Draining
<1>8. CASE ~ tp.shutdown /\ chan.state = "Shutdown"
  <2>1. DiscardQueuedSends(0) /\ CompleteShutdown(t, next) BY <1>8 DEF ConnectShutdown, next
  <2>2. /\ r \in TransportState /\ r.conn = 0 /\ ~ r.closed /\ ~ r.recv /\ ~ r.send
        /\ r.life = tp.life /\ r.connectIo = tp.connectIo
        /\ r.stopPosted = tp.stopPosted /\ r.active = tp.active
    BY <1>1, ReleasedShape
  <2> HIDE DEF r
  <2>3. /\ t \in TransportState /\ t.conn = 0 /\ ~ t.closed /\ ~ t.recv /\ ~ t.send
        /\ ~ t.connectIo /\ ~ t.active /\ t.shutdown /\ t.life.state # "Shutdown"
        /\ t.stopPosted = tp.stopPosted
    BY <1>4, <1>5, <2>2 DEF TransportState
  <2> HIDE DEF t
  <2>4. \A op \in IoOps : ~ Pending(tp, op) BY <1>4 DEF Pending, IoOps
  <2>5. ASSUME NEW u, u.conn = 0, ~ u.disconnecting, \A op \in IoOps : ~ Pending(u, op),
               u.life.state = "Shutdown", u.life.outcome = "None"
        PROVE  WorkerFits(u, next)
    <3>1. ~ u.connectIo /\ ~ u.recv /\ ~ u.send BY <2>5 DEF Pending, IoOps
    <3> QED BY <1>2, <1>6, <2>5, <3>1, ConnectingFits
  <2>6. sends' = <<>> /\ depth' = depth - Len(sends) - 0 BY <2>1 DEF DiscardQueuedSends
  <2> QED BY <1>2, <1>3, <1>5, <1>6, <1>7, <2>1, <2>3, <2>4, <2>5, <2>6, ShutdownStep
<1>9. CASE ~ (~ tp.shutdown /\ chan.state = "Shutdown")
  <2>1. worker' = next /\ UNCHANGED <<tp, sends, depth, port, refused>>
    BY <1>9 DEF ConnectShutdown, next
  <2>2. WorkerFits(tp, worker') BY <1>2, <1>4, <1>6, <2>1, ConnectingFits
  <2>3. ConnectionSound(tp, worker')
    BY <1>1, <1>2, <1>4, <1>6, <2>1 DEF ConnectionSound, LiveConnection
  <2> QED BY <1>2, <1>3, <1>6, <1>7, <2>1, <2>2, <2>3, WorkerMoves
<1> QED BY <1>8, <1>9

LEMMA ConnectSucceededLife ==
  ASSUME NEW l \in Life!Lifecycle(Generations), Life!AwaitsOutcome(l)
  PROVE  LET r == Life!RecordConnectSucceeded(l, l.gen) IN
         /\ r.ok /\ r.life \in Life!Lifecycle(Generations)
         /\ r.life.state = "Connected" /\ r.life.outcome = "Connected"
         /\ r.life.gen = l.gen /\ r.life.outcomeCommitted = l.outcomeCommitted
         /\ r.life.ended = l.ended /\ r.life.endCommitted = l.endCommitted
<1> DEFINE u == [l EXCEPT !.outcome = "Connected", !.state = "Connected"]
<1>1. Life!RecordConnectSucceeded(l, l.gen) = [ok |-> TRUE, life |-> u]
  BY DEF Life!RecordConnectSucceeded, Life!IgnoresOutcome, Life!AwaitsOutcome,
         Life!Accept
<1>2. /\ u \in Life!Lifecycle(Generations)
      /\ u.state = "Connected" /\ u.outcome = "Connected"
      /\ u.gen = l.gen /\ u.outcomeCommitted = l.outcomeCommitted
      /\ u.ended = l.ended /\ u.endCommitted = l.endCommitted
  BY DEF Life!Lifecycle, Life!LifecycleStates, Life!Outcomes
<1> HIDE DEF u
<1> QED BY <1>1, <1>2

LEMMA ConnectOutcomeKeeps == ASSUME IInv, ConnectOutcome PROVE IInv'
<1>1. /\ tp \in TransportState /\ worker \in WorkerStates /\ OpsPart /\ SendsPart
      /\ ConnectionSound(tp, worker) /\ WorkerFits(tp, worker)
      /\ refused \in 0 .. MaxPostFailures
  BY DEF IInv, TransportPart, ChannelPart
<1>2. /\ worker.pc = "ConnectOutcome" /\ ~ worker.inDrain
      /\ UNCHANGED <<chan, gate, slots, sends, depth, port, store, caller, refused>>
  BY <1>1 DEF ConnectOutcome, WorkerAt, WorkerFits, WorkerLocal, shared
<1>3. SlotsPart' /\ StorePart' BY <1>2 DEF IInv, SlotsPart, StorePart
<1>4. /\ ~ tp.connectIo /\ ~ tp.recv /\ ~ tp.send /\ tp.life.outcome = "None"
      /\ tp.conn = 0 => ~ tp.disconnecting /\ tp.life.state = "Shutdown"
  BY <1>1, <1>2 DEF WorkerFits, PlaceFits
<1>5. tp.active = FALSE /\ ~ Draining(worker)
  BY <1>1, <1>2, <1>4, TpFields DEF ConnectionSound, Draining
<1>6. CASE tp.disconnecting
  <2>1. worker' = Goto(worker, "Finish") /\ UNCHANGED <<tp, kernel>> BY <1>6 DEF ConnectOutcome
  <2>2. /\ worker' \in WorkerStates /\ worker'.pc = "Finish"
        /\ worker'.inDrain = worker.inDrain
    BY <1>1, <2>1, GotoShape, PcsTyped
  <2>3. WorkerFits(tp, worker') BY <1>1, <1>2, <1>4, <1>6, <2>1, FinishFits
  <2>4. ConnectionSound(tp, worker')
    <3>1. tp.conn # 0 /\ LiveConnection(tp, worker) BY <1>1, <1>4, <1>6 DEF ConnectionSound
    <3>2. tp.life.state = "Connecting" => tp.shutdown BY <1>6, <3>1 DEF LiveConnection
    <3>3. LiveConnection(tp, worker') BY <1>4, <3>1, <3>2 DEF LiveConnection
    <3> QED BY <1>1, <3>1, <3>3 DEF ConnectionSound
  <2>5. Draining(worker') <=> Draining(worker) BY <1>2, <2>2 DEF Draining
  <2> QED BY <1>2, <1>3, <2>1, <2>2, <2>3, <2>4, <2>5, WorkerMoves
<1>7. CASE ~ tp.disconnecting /\ tp.conn # 0 /\ RecordConnectFailure(tp, worker)
           /\ UNCHANGED kernel
  <2>1. /\ Life!AwaitsOutcome(tp.life) /\ ~ tp.life.outcomeCommitted /\ ~ tp.shutdown
    BY <1>1, <1>4, <1>7 DEF ConnectionSound, LiveConnection, Life!AwaitsOutcome
  <2>2. /\ TransportPart' /\ tp'.conn = 0 /\ tp'.stopPosted = tp.stopPosted
        /\ ~ tp'.active /\ (\A op \in IoOps : ~ Pending(tp', op))
        /\ Draining(worker') <=> Draining(worker)
    BY <1>1, <1>2, <1>4, <1>5, <1>7, <2>1, RecordConnectFailureKeeps
  <2>3. \A op \in IoOps : ~ Pending(tp, op) BY <1>4 DEF Pending, IoOps
  <2>4. OpsPart' BY <1>1, <1>2, <1>7, <2>2, <2>3, OpsNone DEF OpsPart
  <2>5. tp'.active = tp.active BY <1>5, <2>2, TpFields DEF TransportPart
  <2>6. SendsPart' BY <1>1, <1>2, <2>5, SendsSame
  <2> QED BY <1>1, <1>2, <1>3, <2>2, <2>4, <2>6, WorkerStep
<1>8. CASE ~ tp.disconnecting /\ tp.conn = 0 /\ UNCHANGED <<tp, kernel>>
           /\ worker' = Goto(worker, "Crashed")
  <2>1. /\ worker' \in WorkerStates /\ worker'.pc = "Crashed"
        /\ worker'.inDrain = worker.inDrain
    BY <1>1, <1>8, GotoShape, PcsTyped
  <2>2. WorkerFits(tp, worker')
    BY <1>2, <1>8, <2>1
    DEF WorkerFits, WorkerLocal, DisconnectGoesOn, PlaceFits, Publishing, EventPcs
  <2>3. ConnectionSound(tp, worker') BY <1>1, <1>8 DEF ConnectionSound
  <2>4. Draining(worker') <=> Draining(worker) BY <1>2, <2>1 DEF Draining
  <2> QED BY <1>2, <1>3, <1>8, <2>1, <2>2, <2>3, <2>4, WorkerMoves
<1>9. CASE \* the first receive is posted
           /\ ~ tp.disconnecting /\ tp.conn # 0
           /\ LET record == Life!RecordConnectSucceeded(tp.life, tp.conn)
              IN  /\ tp' = [tp EXCEPT !.recv = TRUE, !.life = record.life]
                  /\ kernel' = kernel \cup {[op |-> "Recv", gen |-> tp.conn]}
                  /\ worker' = IF record.ok
                               THEN [worker EXCEPT !.pc = "Publish",
                                       !.event = Event("Connected", tp.conn)]
                               ELSE ReturnFailed(worker, "ConnectSuccess")
  <2> DEFINE l == Life!RecordConnectSucceeded(tp.life, tp.conn).life
  <2>1. /\ LiveConnection(tp, worker) /\ tp.life.gen = tp.conn
        /\ Life!AwaitsOutcome(tp.life) /\ ~ tp.shutdown
    BY <1>1, <1>4, <1>9 DEF ConnectionSound, LiveConnection, Life!AwaitsOutcome
  <2>2. /\ Life!RecordConnectSucceeded(tp.life, tp.conn).ok
        /\ l \in Life!Lifecycle(Generations)
        /\ l.state = "Connected" /\ l.outcome = "Connected" /\ l.gen = tp.conn
        /\ ~ l.outcomeCommitted /\ ~ l.ended /\ ~ l.endCommitted
    <3>1. tp.life \in Life!Lifecycle(Generations) BY <1>1, TpFields
    <3>2. ~ tp.life.outcomeCommitted /\ ~ tp.life.ended /\ ~ tp.life.endCommitted
      BY <1>4, <2>1 DEF LiveConnection
    <3> QED BY <2>1, <3>1, <3>2, ConnectSucceededLife
  <2>3. /\ worker' = ToPublish(worker, "Connected", tp.conn)
        /\ tp' = [tp EXCEPT !.recv = TRUE, !.life = l]
    BY <1>9, <2>2 DEF ToPublish
  <2> HIDE DEF l
  <2>4. /\ tp' \in TransportState /\ tp'.life = l /\ tp'.conn = tp.conn /\ tp'.recv
        /\ tp'.send = tp.send /\ tp'.connectIo = tp.connectIo
        /\ tp'.active = tp.active /\ tp'.disconnecting = tp.disconnecting
        /\ tp'.shutdown = tp.shutdown /\ tp'.stopPosted = tp.stopPosted
    BY <1>1, <2>2, <2>3 DEF TransportState
  <2>5. "Connected" \in EventKinds /\ tp.conn \in Generations BY <1>1, TpFields DEF EventKinds
  <2>6. /\ worker' \in WorkerStates /\ worker'.pc = "Publish"
        /\ worker'.event.kind = "Connected"
    BY <1>1, <2>3, <2>5, ToPublishShape
  <2>7. Life!NextPendingKind(l) = "Connected" BY <2>2 DEF Life!NextPendingKind
  <2>8. /\ WorkerFits(tp', worker') /\ Publishing(worker')
        /\ Draining(worker') <=> Draining(worker)
    <3>1. /\ Life!NextPendingKind(tp'.life) = "Connected" /\ tp'.conn # 0
          /\ ~ tp'.disconnecting /\ ~ tp'.connectIo
      BY <1>4, <1>9, <2>4, <2>7
    <3>2. worker.pc \notin {"Exit", "Stopped", "Crashed"} /\ "Connected" # "Packet" BY <1>2
    <3>3. /\ WorkerFits(tp', ToPublish(worker, "Connected", tp.conn))
          /\ Draining(ToPublish(worker, "Connected", tp.conn)) <=> Draining(worker)
          /\ Publishing(ToPublish(worker, "Connected", tp.conn))
      BY <1>1, <2>5, <3>1, <3>2, ToPublishFits
    <3> QED BY <2>3, <3>3
  <2>9. ConnectionSound(tp', worker')
    <3>1. LiveConnection(tp', worker') BY <1>9, <2>1, <2>2, <2>4, <2>6, <2>8 DEF LiveConnection
    <3>2. tp.active = tp.send BY <1>1 DEF ConnectionSound
    <3> QED BY <1>4, <1>9, <2>2, <2>4, <3>1, <3>2 DEF ConnectionSound
  <2>10. TransportPart' BY <2>4, <2>6, <2>8, <2>9 DEF TransportPart
  <2>11. \A x \in IoOps : Pending(tp', x) <=> Pending(tp, x) \/ x = "Recv"
    BY <2>4 DEF Pending, IoOps
  <2>12. "Recv" \in IoOps /\ ~ Held(kernel, "Recv") /\ "Recv" \notin Kinds(port)
    BY <1>1, <1>4 DEF OpsPart, OpsAccounted, IoOps, Pending
  <2>13. OpsAccounted(tp', kernel', port) BY <1>1, <1>9, <2>4, <2>11, <2>12, OpsPosted DEF OpsPart
  <2>14. [op |-> "Recv", gen |-> tp.conn] \in Operations BY <2>5, <2>12 DEF Operations
  <2>15. OpsPart' BY <1>1, <1>2, <1>9, <2>13, <2>14 DEF OpsPart
  <2>16. SendsPart' BY <1>1, <1>2, <2>4, SendsSame
  <2> QED BY <1>1, <1>2, <1>3, <2>8, <2>10, <2>15, <2>16, WorkerStep
<1>10. CASE ~ tp.disconnecting /\ tp.conn = 0 /\ RecordConnectFailure(tp, worker)
            /\ UNCHANGED kernel
  <2> DEFINE r == ReleaseConnection(tp)
  <2>1. tp.life.state = "Shutdown" BY <1>4, <1>10
  <2>2. Life!RecordConnectFailed(tp.life, tp.life.gen) = [ok |-> FALSE, life |-> tp.life]
    BY <2>1 DEF Life!RecordConnectFailed, Life!IgnoresOutcome, Life!AwaitsOutcome,
                Life!Refuse
  <2>3. /\ tp' = [r EXCEPT !.life = tp.life]
        /\ worker' = ReturnFailed(worker, "ConnectFailure")
    BY <1>10, <2>2 DEF RecordConnectFailure
  <2>4. /\ r \in TransportState /\ r.conn = 0 /\ ~ r.closed /\ ~ r.recv /\ ~ r.send
        /\ r.life = tp.life /\ r.connectIo = tp.connectIo
        /\ r.disconnecting = tp.disconnecting /\ r.shutdown = tp.shutdown
        /\ r.stopPosted = tp.stopPosted /\ r.active = tp.active
    BY <1>1, ReleasedShape
  <2> HIDE DEF r
  <2>5. /\ tp' \in TransportState /\ tp'.conn = 0 /\ ~ tp'.closed /\ ~ tp'.recv
        /\ ~ tp'.send /\ tp'.life = tp.life /\ tp'.connectIo = tp.connectIo
        /\ tp'.disconnecting = tp.disconnecting /\ tp'.shutdown = tp.shutdown
        /\ tp'.stopPosted = tp.stopPosted /\ tp'.active = tp.active
    BY <2>3, <2>4 DEF TransportState
  <2>6. ConnectionSound(tp', worker')
    BY <1>1, <1>4, <1>5, <1>10, <2>5, TpFields DEF ConnectionSound, NoConnection
  <2>7. "ConnectFailure" \in Statuses \ {"Ok"} BY DEF Statuses
  <2>8. WorkerFits(tp', worker')
    <3>1. ~ tp'.disconnecting BY <1>10, <2>5
    <3> QED BY <1>1, <2>3, <2>7, <3>1, ReturnFailedFits
  <2>9. worker' \in WorkerStates /\ (Draining(worker') <=> Draining(worker))
    BY <1>1, <1>2, <2>3, <2>7, FailedShape DEF Draining
  <2>10. (\A op \in IoOps : ~ Pending(tp, op)) /\ (\A op \in IoOps : ~ Pending(tp', op))
    BY <1>4, <2>5 DEF Pending, IoOps
  <2>11. TransportPart' BY <2>5, <2>6, <2>8, <2>9 DEF TransportPart
  <2>12. OpsPart' BY <1>1, <1>2, <1>10, <2>5, <2>10, OpsNone DEF OpsPart
  <2>13. SendsPart' BY <1>1, <1>2, <2>5, SendsSame
  <2> QED BY <1>1, <1>2, <1>3, <2>9, <2>11, <2>12, <2>13, WorkerStep
<1> QED
  <2>1. CASE tp.disconnecting BY <1>6, <2>1
  <2>2. CASE ~ tp.disconnecting /\ ~ worker.ok
    <3>1. RecordConnectFailure(tp, worker) /\ UNCHANGED kernel BY <2>2 DEF ConnectOutcome
    <3> QED BY <1>7, <1>10, <2>2, <3>1
  <2>3. CASE ~ tp.disconnecting /\ worker.ok /\ tp.conn = 0
    <3>1. worker' = Goto(worker, "Crashed") /\ UNCHANGED <<tp, kernel>> BY <2>3 DEF ConnectOutcome
    <3> QED BY <1>8, <2>3, <3>1
  <2>4. CASE ~ tp.disconnecting /\ worker.ok /\ tp.conn # 0 BY <1>7, <1>9, <2>4 DEF ConnectOutcome
  <2> QED BY <2>1, <2>2, <2>3, <2>4

LEMMA PumpRecvKeeps == ASSUME IInv, PumpRecv PROVE IInv'
<1> DEFINE t == [tp EXCEPT !.recv = FALSE]
<1>1. /\ Pump("Recv") /\ "Recv" \in IoOps
      /\ UNCHANGED <<chan, gate, slots, store, caller, refused>>
  BY DEF PumpRecv, IoOps
<1>2. /\ tp \in TransportState /\ worker \in WorkerStates
      /\ kernel \in SUBSET Operations /\ SendsPart
      /\ ConnectionSound(tp, worker) /\ Settled(worker)
      /\ worker.pc = "Pump" /\ ~ worker.inDrain /\ worker.event = NoEvent
      /\ Pending(tp, "Recv") /\ tp.conn # 0 /\ Routed(Head(port))
      /\ \A u : /\ u.conn = tp.conn /\ u.stopPosted = tp.stopPosted
                /\ \A x \in IoOps : Pending(u, x) <=> Pending(tp, x) /\ x # "Recv"
                => OpsAccounted(u, kernel, port')
  BY <1>1, CompletionTaken
<1>3. tp.recv /\ ~ tp.connectIo /\ LiveConnection(tp, worker) /\ tp.active = tp.send
  BY <1>2 DEF Pending, ConnectionSound
<1>4. /\ t \in TransportState /\ ~ t.recv /\ t.life = tp.life /\ t.conn = tp.conn
      /\ t.connectIo = tp.connectIo /\ t.send = tp.send /\ t.active = tp.active
      /\ t.disconnecting = tp.disconnecting /\ t.shutdown = tp.shutdown
      /\ t.stopPosted = tp.stopPosted
  BY <1>2 DEF TransportState
<1>5. \/ tp.disconnecting /\ tp' = t /\ worker' = Goto(worker, "Finish")
         /\ UNCHANGED <<sends, depth, kernel>>
      \/ ~ tp.disconnecting /\ BeginDisconnect(t, worker, 0) /\ UNCHANGED kernel
      \/ ~ tp.disconnecting /\ tp' = t /\ worker' = Goto(worker, "PublishPacket")
         /\ UNCHANGED <<sends, depth, kernel>>
      \/ ~ tp.disconnecting /\ RepostRecv(t)
  BY <1>2 DEF PumpRecv
<1> HIDE DEF t
<1>6. ConnectionSound(t, worker) BY <1>2, <1>3, <1>4 DEF ConnectionSound, LiveConnection
<1>7. OpsAccounted(t, kernel, port')
  <2>1. \A x \in IoOps : Pending(t, x) <=> Pending(tp, x) /\ x # "Recv" BY <1>4 DEF Pending, IoOps
  <2> QED BY <1>2, <1>4, <2>1
<1>8. ReleasedSends(t) = ReleasedSends(tp) /\ "Finish" \in WorkerPcs
      /\ "PublishPacket" \in WorkerPcs
  BY <1>4, PcsTyped DEF ReleasedSends
<1>9. CASE /\ tp' = t /\ UNCHANGED <<sends, depth, kernel>>
           /\ \/ tp.disconnecting /\ worker' = Goto(worker, "Finish")
              \/ ~ tp.disconnecting /\ worker' = Goto(worker, "PublishPacket")
  <2>1. /\ worker' \in WorkerStates /\ worker'.inDrain = worker.inDrain
        /\ \/ tp.disconnecting /\ worker'.pc = "Finish"
           \/ ~ tp.disconnecting /\ worker'.pc = "PublishPacket"
    BY <1>2, <1>8, <1>9, GotoShape
  <2>2. WorkerFits(t, worker')
    BY <1>2, <1>3, <1>4, <2>1
    DEF WorkerFits, WorkerLocal, DisconnectGoesOn, PlaceFits, Publishing, EventPcs
  <2>3. ConnectionSound(t, worker') BY <1>2, <1>6, SettleSound
  <2>4. TransportPart' /\ ~ Draining(worker')
    BY <1>2, <1>4, <1>9, <2>1, <2>2, <2>3 DEF TransportPart, Draining
  <2>5. SendsPart' BY <1>1, <1>2, <1>4, <1>9, SendsSame
  <2> QED BY <1>1, <1>2, <1>7, <1>9, <2>4, <2>5, CompletionHandled
<1>10. CASE ~ tp.disconnecting /\ BeginDisconnect(t, worker, 0) /\ UNCHANGED kernel
  <2>1. /\ TransportPart' /\ SameOps(t, tp')
        /\ Draining(worker') <=> Draining(worker)
        /\ sends' = <<>> /\ depth' = depth - Len(sends) - 0
    BY <1>2, <1>4, <1>6, <1>10, BeginDisconnectKeeps
  <2>2. OpsAccounted(tp', kernel', port')
    <3>1. \A x \in IoOps : Pending(tp', x) <=> Pending(t, x) BY <2>1, SameOpsPending
    <3> QED BY <1>7, <1>10, <2>1, <3>1, OpsSame DEF SameOps
  <2>3. SendsPart'
    <3>1. ReleasedSends(tp) - ReleasedSends(tp') = 0 /\ tp'.active = tp.active
      BY <1>4, <2>1 DEF ReleasedSends, SameOps
    <3> QED BY <1>1, <1>2, <2>1, <3>1, SendsDiscarded
  <2>4. ~ Draining(worker') /\ kernel' \in SUBSET Operations BY <1>2, <1>10, <2>1 DEF Draining
  <2> QED BY <1>1, <2>1, <2>2, <2>3, <2>4, CompletionHandled
<1>11. CASE ~ tp.disconnecting /\ RepostRecv(t)
  <2>1. /\ TransportPart' /\ tp'.active = t.active
        /\ kernel' \in SUBSET Operations /\ OpsAccounted(tp', kernel', port')
        /\ Draining(worker') <=> Draining(worker)
        /\ \/ UNCHANGED <<sends, depth>>
           \/ sends' = <<>> /\ depth' = depth - Len(sends) - 0
    BY <1>2, <1>3, <1>4, <1>6, <1>7, <1>11, RepostRecvKeeps
  <2>2. SendsPart'
    <3>1. ReleasedSends(tp) - ReleasedSends(tp') = 0 /\ tp'.active = tp.active
      BY <1>4, <2>1 DEF ReleasedSends
    <3> QED BY <1>1, <1>2, <2>1, <3>1, SendsSame, SendsDiscarded
  <2>3. ~ Draining(worker') BY <1>2, <2>1 DEF Draining
  <2> QED BY <1>1, <2>1, <2>2, <2>3, CompletionHandled
<1> QED BY <1>5, <1>9, <1>10, <1>11

LEMMA QueuePushed ==
  ASSUME NEW s \in EventStore, NEW e \in Events
  PROVE  [s EXCEPT !.queue = Append(s.queue, e)] \in EventStore
<1>1. Append(s.queue, e) \in Seq(Events) BY StoreFields, AppendProperties
<1> QED BY <1>1 DEF EventStore

LEMMA PublishPacketReceivedKeeps == ASSUME IInv, PublishPacketReceived PROVE IInv'
<1>1. /\ worker.pc = "PublishPacket"
      /\ UNCHANGED <<chan, gate, slots, port, caller, refused>>
  BY DEF PublishPacketReceived, WorkerAt
<1>2. /\ tp \in TransportState /\ worker \in WorkerStates /\ OpsPart /\ SendsPart
      /\ ConnectionSound(tp, worker) /\ Settled(worker) /\ WorkerFits(tp, worker)
      /\ refused \in 0 .. MaxPostFailures /\ StorePart
  BY <1>1, HandlerStart
<1>3. SlotsPart' BY <1>1 DEF IInv, SlotsPart
<1>4. tp.conn # 0 /\ ~ tp.disconnecting /\ ~ tp.recv /\ ~ tp.connectIo
  BY <1>1, <1>2 DEF WorkerFits, PlaceFits
<1>5. \/ BeginDisconnect(tp, worker, 0) /\ UNCHANGED <<store, kernel>>
      \/ /\ store' = [store EXCEPT !.queue = Append(store.queue, Event("Packet", tp.conn))]
         /\ RepostRecv(tp)
  BY DEF PublishPacketReceived
<1>6. CASE BeginDisconnect(tp, worker, 0) /\ UNCHANGED <<store, kernel>>
  <2>1. StorePart' BY <1>2, <1>6 DEF StorePart
  <2> QED BY <1>1, <1>3, <1>4, <1>6, <2>1, HandlerDisconnects
<1>7. CASE /\ store' = [store EXCEPT !.queue = Append(store.queue, Event("Packet", tp.conn))]
           /\ RepostRecv(tp)
  <2>1. Event("Packet", tp.conn) \in Events BY <1>2, TpFields DEF Event, Events, EventKinds
  <2>2. StorePart' BY <1>2, <1>7, <2>1, QueuePushed DEF StorePart
  <2>3. OpsAccounted(tp, kernel, port') /\ kernel \in SUBSET Operations BY <1>1, <1>2 DEF OpsPart
  <2>4. /\ TransportPart' /\ tp'.active = tp.active
        /\ kernel' \in SUBSET Operations /\ OpsAccounted(tp', kernel', port')
        /\ Draining(worker') <=> Draining(worker)
        /\ \/ UNCHANGED <<sends, depth>>
           \/ sends' = <<>> /\ depth' = depth - Len(sends) - 0
    BY <1>1, <1>2, <1>4, <1>7, <2>3, RepostRecvKeeps
  <2>5. SendsPart'
    <3>1. ReleasedSends(tp) - ReleasedSends(tp') = 0 BY <2>4 DEF ReleasedSends
    <3> QED BY <1>1, <1>2, <2>4, <3>1, SendsSame, SendsDiscarded
  <2>6. OpsPart' BY <1>1, <1>2, <2>4 DEF OpsPart
  <2> QED BY <1>1, <1>2, <1>3, <2>2, <2>4, <2>5, <2>6, WorkerStep
<1> QED BY <1>5, <1>6, <1>7

\* The active send is over and its place given back.
LEMMA SendReleased ==
  ASSUME SendsPart, UNCHANGED <<sends, caller>>, tp.active = TRUE, tp'.active = FALSE,
         depth' = depth - 1
  PROVE  SendsPart'
<1> DEFINE mine == IF caller.kind = "Send" /\ ~ caller.accepted THEN 1 ELSE 0
<1>1. PICK n \in Nat : n = Len(sends) BY LenProperties DEF SendsPart
<1>2. ReleasedSends(tp) = 1 /\ ReleasedSends(tp') = 0 BY DEF ReleasedSends
<1>3. PICK own \in 0 .. 1 : own = mine OBVIOUS
<1>4. depth = n + 1 + own /\ depth <= SendCapacity /\ SendCapacity \in Nat
  BY <1>1, <1>2, <1>3, ClientRuntimeAssumption DEF SendsPart, SendSlotsConserved
<1>5. depth' = n + own /\ depth' \in Nat /\ depth' <= SendCapacity BY <1>4
<1>6. depth' = Len(sends') + ReleasedSends(tp') + mine BY <1>1, <1>2, <1>3, <1>5
<1> QED BY <1>5, <1>6 DEF SendsPart, SendSlotsConserved

LEMMA PumpSendKeeps == ASSUME IInv, PumpSend PROVE IInv'
<1> DEFINE t == [tp EXCEPT !.send = FALSE]
           released == [t EXCEPT !.active = FALSE]
<1>1. /\ Pump("Send") /\ "Send" \in IoOps
      /\ UNCHANGED <<chan, gate, slots, store, caller, refused>>
  BY DEF PumpSend, IoOps
<1>2. /\ tp \in TransportState /\ worker \in WorkerStates
      /\ kernel \in SUBSET Operations /\ SendsPart
      /\ ConnectionSound(tp, worker) /\ Settled(worker) /\ WorkerFits(tp, worker)
      /\ worker.pc = "Pump" /\ ~ worker.inDrain /\ worker.event = NoEvent
      /\ Pending(tp, "Send") /\ tp.conn # 0 /\ Routed(Head(port))
      /\ ~ Held(kernel, "Send") /\ "Send" \notin Kinds(port')
      /\ \A u : /\ u.conn = tp.conn /\ u.stopPosted = tp.stopPosted
                /\ \A x \in IoOps : Pending(u, x) <=> Pending(tp, x) /\ x # "Send"
                => OpsAccounted(u, kernel, port')
  BY <1>1, CompletionTaken
<1>3. tp.send = TRUE /\ tp.active = TRUE /\ ~ tp.connectIo /\ LiveConnection(tp, worker)
  BY <1>2, TpFields DEF Pending, ConnectionSound
<1>4. /\ t \in TransportState /\ t.send = FALSE /\ t.life = tp.life /\ t.conn = tp.conn
      /\ t.connectIo = tp.connectIo /\ t.recv = tp.recv /\ t.active = TRUE
      /\ t.disconnecting = tp.disconnecting /\ t.shutdown = tp.shutdown
      /\ t.stopPosted = tp.stopPosted
  BY <1>2, <1>3 DEF TransportState
<1>5. \/ tp.disconnecting /\ tp' = released /\ depth' = depth - ReleasedSends(t)
         /\ worker' = Goto(worker, "Finish") /\ UNCHANGED <<sends, kernel>>
      \/ ~ tp.disconnecting /\ BeginDisconnect(released, worker, ReleasedSends(t))
         /\ UNCHANGED kernel
      \/ ~ tp.disconnecting /\ tp' = released /\ depth' = depth - ReleasedSends(t)
         /\ worker' = Goto(worker, "StartNextSend") /\ UNCHANGED <<sends, kernel>>
      \/ ~ tp.disconnecting
         /\ kernel' = kernel \cup {[op |-> "Send", gen |-> tp.conn]}
         /\ worker' = ReturnOk(worker) /\ UNCHANGED <<tp, sends, depth>>
  BY <1>2 DEF PumpSend
<1> HIDE DEF t
<1>6. /\ released \in TransportState /\ released.send = FALSE
      /\ released.active = FALSE /\ released.life = tp.life /\ released.conn = tp.conn
      /\ released.connectIo = tp.connectIo /\ released.recv = tp.recv
      /\ released.disconnecting = tp.disconnecting /\ released.shutdown = tp.shutdown
      /\ released.stopPosted = tp.stopPosted
  BY <1>4 DEF TransportState
<1>7. ReleasedSends(t) = 1 BY <1>4 DEF ReleasedSends
<1> HIDE DEF released
<1>8. ConnectionSound(released, worker) BY <1>2, <1>3, <1>6 DEF ConnectionSound, LiveConnection
<1>9. OpsAccounted(released, kernel, port')
  <2>1. \A x \in IoOps : Pending(released, x) <=> Pending(tp, x) /\ x # "Send"
    BY <1>6 DEF Pending, IoOps
  <2> QED BY <1>2, <1>6, <2>1
<1>10. CASE /\ tp' = released /\ depth' = depth - ReleasedSends(t)
            /\ UNCHANGED <<sends, kernel>>
            /\ \/ tp.disconnecting /\ worker' = Goto(worker, "Finish")
               \/ ~ tp.disconnecting /\ worker' = Goto(worker, "StartNextSend")
  <2>1. /\ worker' \in WorkerStates /\ worker'.inDrain = worker.inDrain
        /\ \/ tp.disconnecting /\ worker'.pc = "Finish"
           \/ ~ tp.disconnecting /\ worker'.pc = "StartNextSend"
    <3>1. "Finish" \in WorkerPcs /\ "StartNextSend" \in WorkerPcs BY PcsTyped
    <3> QED BY <1>2, <1>10, <3>1, GotoShape
  <2>2. WorkerFits(released, worker')
    BY <1>2, <1>3, <1>6, <2>1
    DEF WorkerFits, WorkerLocal, DisconnectGoesOn, PlaceFits, Publishing, EventPcs
  <2>3. ConnectionSound(released, worker') BY <1>2, <1>8, SettleSound
  <2>4. TransportPart' /\ ~ Draining(worker')
    BY <1>2, <1>6, <1>10, <2>1, <2>2, <2>3 DEF TransportPart, Draining
  <2>5. SendsPart' BY <1>1, <1>2, <1>3, <1>6, <1>7, <1>10, SendReleased
  <2> QED BY <1>1, <1>2, <1>9, <1>10, <2>4, <2>5, CompletionHandled
<1>11. CASE ~ tp.disconnecting /\ BeginDisconnect(released, worker, ReleasedSends(t))
            /\ UNCHANGED kernel
  <2>1. /\ TransportPart' /\ SameOps(released, tp')
        /\ Draining(worker') <=> Draining(worker)
        /\ sends' = <<>> /\ depth' = depth - Len(sends) - ReleasedSends(t)
    BY <1>2, <1>6, <1>8, <1>11, BeginDisconnectKeeps
  <2>2. OpsAccounted(tp', kernel', port')
    <3>1. \A x \in IoOps : Pending(tp', x) <=> Pending(released, x) BY <2>1, SameOpsPending
    <3> QED BY <1>9, <1>11, <2>1, <3>1, OpsSame DEF SameOps
  <2>3. SendsPart'
    <3>1. ReleasedSends(tp) - ReleasedSends(tp') = ReleasedSends(t) /\ ~ tp'.active
      BY <1>3, <1>6, <1>7, <2>1 DEF ReleasedSends, SameOps
    <3> QED BY <1>1, <1>2, <2>1, <3>1, SendsDiscarded
  <2>4. ~ Draining(worker') /\ kernel' \in SUBSET Operations BY <1>2, <1>11, <2>1 DEF Draining
  <2> QED BY <1>1, <2>1, <2>2, <2>3, <2>4, CompletionHandled
<1>12. CASE /\ ~ tp.disconnecting
            /\ kernel' = kernel \cup {[op |-> "Send", gen |-> tp.conn]}
            /\ worker' = ReturnOk(worker) /\ UNCHANGED <<tp, sends, depth>>
  <2>1. /\ worker' \in WorkerStates /\ WorkerFits(tp, worker') /\ ~ Draining(worker')
    BY <1>2, <1>12, ReturnOkFits, ReturnOkShape DEF Draining
  <2>2. ConnectionSound(tp, worker') BY <1>2, SettleSound
  <2>3. TransportPart' BY <1>2, <1>12, <2>1, <2>2 DEF TransportPart
  <2>4. SendsPart' BY <1>1, <1>2, <1>12, SendsSame
  <2>5. \A x \in IoOps : Pending(tp, x) <=> Pending(released, x) \/ x = "Send"
    BY <1>3, <1>6 DEF Pending, IoOps
  <2>6. OpsAccounted(tp, kernel \cup {[op |-> "Send", gen |-> released.conn]}, port')
    BY <1>1, <1>2, <1>6, <1>9, <2>5, OpsPosted
  <2>7. [op |-> "Send", gen |-> tp.conn] \in Operations BY <1>1, <1>2, TpFields DEF Operations
  <2>8. kernel' \in SUBSET Operations /\ OpsAccounted(tp', kernel', port')
    BY <1>2, <1>6, <1>12, <2>6, <2>7
  <2> QED BY <1>1, <2>1, <2>3, <2>4, <2>8, CompletionHandled
<1> QED BY <1>5, <1>10, <1>11, <1>12

----------------------------------------
\* The end of a disconnect, and the events of the lifecycle.
LEMMA RecordDisconnectedLife ==
  ASSUME NEW l \in Life!Lifecycle(Generations), l.state = "Disconnecting",
         l.outcome # "Failed", ~ l.ended
  PROVE  LET r == Life!RecordDisconnected(l, l.gen) IN
         /\ r.ok /\ r.life \in Life!Lifecycle(Generations)
         /\ r.life.ended /\ r.life.state = "Disconnecting"
         /\ r.life.outcome = l.outcome
         /\ r.life.outcomeCommitted = l.outcomeCommitted
         /\ r.life.endCommitted = l.endCommitted
<1> DEFINE u == [l EXCEPT !.ended = TRUE, !.state = "Disconnecting"]
<1>1. Life!RecordDisconnected(l, l.gen) = [ok |-> TRUE, life |-> u]
  BY DEF Life!RecordDisconnected, Life!Accept
<1>2. /\ u \in Life!Lifecycle(Generations)
      /\ u.ended /\ u.state = "Disconnecting"
      /\ u.outcome = l.outcome /\ u.outcomeCommitted = l.outcomeCommitted
      /\ u.endCommitted = l.endCommitted
  BY DEF Life!Lifecycle, Life!LifecycleStates
<1> HIDE DEF u
<1> QED BY <1>1, <1>2

LEMMA TryFinishDisconnectKeeps == ASSUME IInv, TryFinishDisconnect PROVE IInv'
<1>1. /\ tp \in TransportState /\ worker \in WorkerStates /\ OpsPart /\ SendsPart
      /\ ConnectionSound(tp, worker) /\ WorkerFits(tp, worker)
      /\ refused \in 0 .. MaxPostFailures
  BY DEF IInv, TransportPart, ChannelPart
<1>2. /\ worker.pc = "Finish"
      /\ UNCHANGED <<chan, gate, slots, sends, depth, kernel, store, caller>>
  BY DEF TryFinishDisconnect, WorkerAt
<1>3. SlotsPart' /\ StorePart' BY <1>2 DEF IInv, SlotsPart, StorePart
<1>4. tp.conn # 0 /\ tp.disconnecting /\ LiveConnection(tp, worker) /\ Settled(worker)
  BY <1>1, <1>2
  DEF WorkerFits, PlaceFits, ConnectionSound, Settled, Publishing, EventPcs, Failing
<1>5. CASE HasPendingIo(tp)
  <2>1. worker' = ReturnOk(worker) /\ UNCHANGED <<tp, port, refused>>
    BY <1>5 DEF TryFinishDisconnect
  <2>2. /\ worker' \in WorkerStates /\ WorkerFits(tp, worker')
        /\ Draining(worker') <=> Draining(worker)
    BY <1>1, <1>2, <1>4, <1>5, <2>1, ReturnOkFits, ReturnOkShape DEF Draining
  <2>3. ConnectionSound(tp, worker') BY <1>1, <1>4, SettleSound
  <2> QED BY <1>2, <1>3, <2>1, <2>2, <2>3, WorkerMoves
<1>6. CASE ~ HasPendingIo(tp) /\ tp.shutdown
  <2> DEFINE t == ReleaseConnection(tp)
             next == ReturnOk(worker)
  <2>1. CompleteShutdown(t, next) BY <1>6 DEF TryFinishDisconnect
  <2>2. ~ tp.connectIo /\ ~ tp.recv /\ ~ tp.send /\ tp.active = FALSE
    BY <1>1, <1>6, TpFields DEF HasPendingIo, ConnectionSound
  <2>3. /\ t \in TransportState /\ t.conn = 0 /\ ~ t.closed /\ ~ t.recv /\ ~ t.send
        /\ ~ t.connectIo /\ ~ t.active /\ t.shutdown /\ t.life = tp.life
        /\ t.stopPosted = tp.stopPosted
    BY <1>1, <1>6, <2>2, ReleasedShape
  <2>4. \A op \in IoOps : ~ Pending(tp, op) BY <2>2 DEF Pending, IoOps
  <2>5. next \in WorkerStates /\ (Draining(next) <=> Draining(worker))
    BY <1>1, <1>2, ReturnOkShape DEF Draining
  <2>6. \A u : ~ u.disconnecting => WorkerFits(u, next) BY <1>1, ReturnOkFits
  <2>7. t.life.state # "Shutdown" BY <1>4, <2>3 DEF LiveConnection
  <2> HIDE DEF t, next
  <2> QED BY <1>2, <1>3, <2>1, <2>2, <2>3, <2>4, <2>5, <2>6, <2>7, ShutdownStep
<1>7. CASE ~ HasPendingIo(tp) /\ ~ tp.shutdown
  <2> DEFINE l == Life!RecordDisconnected(tp.life, tp.conn).life
             r == ReleaseConnection(tp)
  <2>1. ~ tp.connectIo /\ ~ tp.recv /\ ~ tp.send /\ tp.active = FALSE
    BY <1>1, <1>7, TpFields DEF HasPendingIo, ConnectionSound
  <2>2. /\ Life!RecordDisconnected(tp.life, tp.conn).ok
        /\ l \in Life!Lifecycle(Generations) /\ l.ended /\ l.state = "Disconnecting"
        /\ l.outcome # "None" => l.outcomeCommitted
        /\ ~ l.endCommitted
    <3>1. /\ tp.life \in Life!Lifecycle(Generations) /\ tp.life.gen = tp.conn
          /\ tp.life.state = "Disconnecting" /\ tp.life.outcome # "Failed"
          /\ ~ tp.life.ended /\ ~ tp.life.endCommitted
      BY <1>1, <1>4, <1>7, TpFields DEF LiveConnection
    <3>2. tp.life.outcome \in Life!Outcomes BY <3>1, LifeFields
    <3>3. tp.life.outcome # "None" => tp.life.outcomeCommitted
      BY <1>4, <3>1, <3>2 DEF LiveConnection, Settled, Life!Outcomes
    <3> QED BY <3>1, <3>3, RecordDisconnectedLife
  <2>3. /\ tp' = [r EXCEPT !.life = l] /\ UNCHANGED <<port, refused>>
        /\ worker' = ToPublish(worker, "Disconnected", tp.conn)
    BY <1>7, <2>2 DEF TryFinishDisconnect, ToPublish
  <2>4. /\ r \in TransportState /\ r.conn = 0 /\ ~ r.closed /\ ~ r.recv /\ ~ r.send
        /\ r.connectIo = tp.connectIo /\ r.shutdown = tp.shutdown
        /\ r.stopPosted = tp.stopPosted /\ r.active = tp.active
    BY <1>1, ReleasedShape
  <2> HIDE DEF l, r
  <2>5. /\ tp' \in TransportState /\ tp'.life = l /\ tp'.conn = 0 /\ ~ tp'.closed
        /\ ~ tp'.recv /\ ~ tp'.send /\ ~ tp'.connectIo /\ ~ tp'.shutdown
        /\ tp'.stopPosted = tp.stopPosted /\ tp'.active = tp.active
    BY <1>7, <2>1, <2>2, <2>3, <2>4 DEF TransportState
  <2>6. Life!NextPendingKind(tp'.life) = "Disconnected" BY <2>2, <2>5 DEF Life!NextPendingKind
  <2>7. "Disconnected" \in EventKinds /\ tp.conn \in Generations BY <1>1, TpFields DEF EventKinds
  <2>8. /\ WorkerFits(tp', worker') /\ worker' \in WorkerStates
        /\ Draining(worker') <=> Draining(worker)
    <3>1. worker.pc \notin {"Exit", "Stopped", "Crashed"} /\ "Disconnected" # "Packet" BY <1>2
    <3>2. /\ WorkerFits(tp', ToPublish(worker, "Disconnected", tp.conn))
          /\ Draining(ToPublish(worker, "Disconnected", tp.conn)) <=> Draining(worker)
      BY <1>1, <2>5, <2>6, <2>7, <3>1, ToPublishFits
    <3> QED BY <1>1, <2>3, <2>7, <3>2, ToPublishShape
  <2>9. ConnectionSound(tp', worker')
    BY <2>1, <2>2, <2>5, TpFields DEF ConnectionSound, NoConnection
  <2>10. TransportPart' BY <2>5, <2>8, <2>9 DEF TransportPart
  <2>11. (\A op \in IoOps : ~ Pending(tp, op)) /\ (\A op \in IoOps : ~ Pending(tp', op))
    BY <2>1, <2>5 DEF Pending, IoOps
  <2>12. OpsPart' BY <1>1, <1>2, <2>3, <2>5, <2>11, OpsNone DEF OpsPart
  <2>13. SendsPart' BY <1>1, <1>2, <2>5, SendsSame
  <2> QED BY <1>1, <1>2, <1>3, <2>3, <2>8, <2>10, <2>12, <2>13, WorkerStep
<1> QED BY <1>5, <1>6, <1>7

\* On its way with an event to the store, the worker goes from one place to the next.
LEMMA PublishingGoesOn ==
  ASSUME NEW t, NEW w \in WorkerStates, NEW pc \in EventPcs \cup {"Promote"},
         ConnectionSound(t, w), WorkerFits(t, w), Publishing(w)
  PROVE  /\ Goto(w, pc) \in WorkerStates /\ WorkerFits(t, Goto(w, pc))
         /\ ConnectionSound(t, Goto(w, pc))
         /\ Draining(Goto(w, pc)) <=> Draining(w)
<1> DEFINE v == Goto(w, pc)
<1>1. pc \in WorkerPcs BY PcsTyped
<1>2. v \in WorkerStates /\ v.pc = pc /\ v.event = w.event /\ v.inDrain = w.inDrain
  BY <1>1, GotoShape
<1> HIDE DEF v
<1>3. w.event.kind # "None" BY DEF WorkerFits, PlaceFits
<1>4. Publishing(v) BY <1>2, <1>3 DEF Publishing
<1>5. WorkerLocal(v) BY <1>2, <1>3 DEF WorkerLocal, EventPcs
<1>6. DisconnectGoesOn(t, v) BY <1>4 DEF DisconnectGoesOn, WorkerFits, PlaceFits
<1>7. PlaceFits(t, v) BY <1>2, <1>4 DEF WorkerFits, PlaceFits, EventPcs
<1>8. ConnectionSound(t, v)
  BY <1>2, <1>4
  DEF ConnectionSound, LiveConnection, Publishing, EventPcs, Failing, WorkerFits, PlaceFits
<1>9. Draining(v) <=> Draining(w) BY <1>2 DEF Draining, Publishing, EventPcs
<1>10. WorkerFits(t, v) BY <1>5, <1>6, <1>7 DEF WorkerFits
<1> QED BY <1>2, <1>8, <1>9, <1>10 DEF v

LEMMA PublishingFails ==
  ASSUME NEW t, NEW w \in WorkerStates, NEW site \in Statuses \ {"Ok"},
         ConnectionSound(t, w), WorkerFits(t, w), Publishing(w)
  PROVE  /\ ReturnFailed(w, site) \in WorkerStates
         /\ WorkerFits(t, ReturnFailed(w, site))
         /\ ConnectionSound(t, ReturnFailed(w, site))
         /\ Draining(w) => w.inDrain
         /\ w.pc # "Exit"
<1> DEFINE v == ReturnFailed(w, site)
<1>1. t.disconnecting => t.conn = 0 BY DEF WorkerFits, PlaceFits
<1>2. v \in WorkerStates /\ WorkerFits(t, v) /\ Failing(v)
  BY <1>1, ReturnFailedFits, FailedShape
<1> HIDE DEF v
<1>3. w.pc \in EventPcs \cup {"Promote"} BY DEF Publishing
<1>4. ConnectionSound(t, v) BY <1>2, <1>3 DEF ConnectionSound, LiveConnection, EventPcs
<1> QED BY <1>2, <1>3, <1>4 DEF v, EventPcs, Draining

\* What a step of the worker with an event in hand starts from.
LEMMA PublishingStart ==
  ASSUME IInv
  PROVE  /\ tp \in TransportState /\ worker \in WorkerStates /\ store \in EventStore
         /\ ConnectionSound(tp, worker) /\ WorkerFits(tp, worker)
         /\ worker.event \in [kind: EventKinds \cup {"None"}, gen: Generations]
  BY DEF IInv, TransportPart, StorePart, WorkerStates

LEMMA EventFails ==
  ASSUME IInv, UNCHANGED <<shared, kernel, tp, store, caller, refused>>, worker.pc \in EventPcs,
         NEW site \in Statuses \ {"Ok"}, worker' = ReturnFailed(worker, site)
  PROVE  IInv'
<1>1. /\ tp \in TransportState /\ worker \in WorkerStates
      /\ ConnectionSound(tp, worker) /\ WorkerFits(tp, worker)
  BY PublishingStart
<1>2. Publishing(worker) BY DEF Publishing
<1>3. Draining(worker') <=> Draining(worker) BY <1>1, FailedShape DEF Draining, EventPcs
<1>4. StorePart' BY DEF IInv, StorePart
<1> QED BY <1>1, <1>2, <1>3, <1>4, PublishingFails, WorkerMoves DEF shared

LEMMA PublishLifecycleEventKeeps == ASSUME IInv, PublishLifecycleEvent PROVE IInv'
<1>1. worker.pc = "Publish" /\ worker.pc \in EventPcs /\ Publishing(worker)
  BY DEF PublishLifecycleEvent, WorkerAt, Publishing, EventPcs
<1>2. UNCHANGED <<shared, kernel, tp, store, caller, refused>> BY DEF PublishLifecycleEvent
<1>3. \/ worker' = ReturnFailed(worker, "PendingSlot")
      \/ \E pc \in EventPcs : worker' = Goto(worker, pc)
  BY DEF PublishLifecycleEvent, EventPcs
<1>4. CASE worker' = ReturnFailed(worker, "PendingSlot")
  <2>1. "PendingSlot" \in Statuses \ {"Ok"} BY DEF Statuses
  <2> QED BY <1>1, <1>2, <1>4, <2>1, EventFails
<1>5. CASE \E pc \in EventPcs : worker' = Goto(worker, pc)
  <2>1. PICK pc \in EventPcs : worker' = Goto(worker, pc) BY <1>5
  <2>2. /\ worker' \in WorkerStates /\ WorkerFits(tp, worker')
        /\ ConnectionSound(tp, worker') /\ (Draining(worker') <=> Draining(worker))
    BY <1>1, <2>1, PublishingStart, PublishingGoesOn
  <2>3. StorePart' BY <1>2 DEF IInv, StorePart
  <2> QED BY <1>2, <2>2, <2>3, WorkerMoves DEF shared
<1> QED BY <1>3, <1>4, <1>5

\* The worker keeps its event and only the store has changed.
LEMMA StoreStep ==
  ASSUME IInv, UNCHANGED <<chan, gate, slots, sends, depth, port, kernel, tp, caller,
                           refused>>,
         StorePart', Publishing(worker),
         NEW pc \in EventPcs \cup {"Promote"}, worker' = Goto(worker, pc)
  PROVE  IInv'
<1>1. /\ worker' \in WorkerStates /\ WorkerFits(tp, worker')
      /\ ConnectionSound(tp, worker')
      /\ Draining(worker') <=> Draining(worker)
  BY PublishingStart, PublishingGoesOn
<1> QED BY <1>1, WorkerMoves

LEMMA PushEventKeeps == ASSUME IInv, PushEvent PROVE IInv'
<1>1. /\ store \in EventStore /\ WorkerFits(tp, worker)
      /\ worker.event \in [kind: EventKinds \cup {"None"}, gen: Generations]
  BY PublishingStart
<1>2. worker.pc = "Push" /\ Publishing(worker) BY DEF PushEvent, WorkerAt, Publishing, EventPcs
<1>3. worker.event \in Events BY <1>1, <1>2 DEF WorkerFits, PlaceFits, Events
<1>4. CASE Full
  <2>1. /\ worker' = ReturnFailed(worker, "PushFull") /\ "PushFull" \in Statuses \ {"Ok"}
        /\ UNCHANGED <<shared, kernel, tp, store, caller, refused>>
        /\ worker.pc \in EventPcs
    BY <1>2, <1>4 DEF PushEvent, Statuses, EventPcs
  <2> QED BY <2>1, EventFails
<1>5. CASE ~ Full
  <2>1. /\ store' = [store EXCEPT !.queue = Append(store.queue, worker.event)]
        /\ worker' = Goto(worker, "Published") /\ "Published" \in EventPcs
    BY <1>5 DEF PushEvent, EventPcs
  <2>2. StorePart' BY <1>1, <1>3, <2>1, QueuePushed DEF StorePart
  <2> QED BY <1>2, <2>1, <2>2, StoreStep DEF PushEvent, shared
<1> QED BY <1>4, <1>5

LEMMA DeferEventKeeps == ASSUME IInv, DeferEvent PROVE IInv'
<1>1. /\ store \in EventStore /\ WorkerFits(tp, worker)
      /\ worker.event \in [kind: EventKinds \cup {"None"}, gen: Generations]
  BY PublishingStart
<1>2. worker.pc = "Defer" /\ Publishing(worker) BY DEF DeferEvent, WorkerAt, Publishing, EventPcs
<1>3. worker.event \in Events BY <1>1, <1>2 DEF WorkerFits, PlaceFits, Events
<1>4. /\ store' = [store EXCEPT ![PendingSlot(worker.event.kind)] = worker.event,
                                !.pending = TRUE]
      /\ worker' = Goto(worker, "Promote")
  BY DEF DeferEvent
<1>5. StorePart'
  <2>1. CASE PendingSlot(worker.event.kind) = "ended"
    <3>1. store' = [store EXCEPT !.ended = worker.event, !.pending = TRUE] BY <1>4, <2>1
    <3> QED BY <1>1, <1>3, <3>1 DEF StorePart, EventStore
  <2>2. CASE PendingSlot(worker.event.kind) = "outcome"
    <3>1. store' = [store EXCEPT !.outcome = worker.event, !.pending = TRUE] BY <1>4, <2>2
    <3> QED BY <1>1, <1>3, <3>1 DEF StorePart, EventStore
  <2> QED BY <2>1, <2>2 DEF PendingSlot
<1> QED BY <1>2, <1>4, <1>5, StoreStep DEF DeferEvent, shared

\* Only the store has changed.
LEMMA OnlyStore ==
  ASSUME IInv, StorePart', UNCHANGED <<shared, kernel, tp, caller, worker, refused>>
  PROVE  IInv'
<1>1. /\ worker' \in WorkerStates /\ WorkerFits(tp, worker')
      /\ ConnectionSound(tp, worker')
      /\ Draining(worker') <=> Draining(worker)
  BY PublishingStart
<1> QED BY <1>1, WorkerMoves DEF shared

LEMMA PromoteOutcomeKeeps == ASSUME IInv, PromoteOutcome PROVE IInv'
<1>1. store \in EventStore BY PublishingStart
<1>2. /\ store' = [store EXCEPT !.queue = Append(store.queue, store.outcome),
                                !.outcome = NoEvent]
      /\ store.outcome # NoEvent
  BY DEF PromoteOutcome
<1>3. Append(store.queue, store.outcome) \in Seq(Events)
  BY <1>1, <1>2, StoreFields, AppendProperties
<1>4. StorePart' BY <1>1, <1>2, <1>3 DEF StorePart, EventStore
<1> QED BY <1>4, OnlyStore DEF PromoteOutcome

LEMMA PromoteEndedKeeps == ASSUME IInv, PromoteEnded PROVE IInv'
<1>1. store \in EventStore BY PublishingStart
<1>2. /\ store' = [store EXCEPT !.queue = Append(store.queue, store.ended),
                                !.ended = NoEvent]
      /\ store.ended # NoEvent
  BY DEF PromoteEnded
<1>3. Append(store.queue, store.ended) \in Seq(Events)
  BY <1>1, <1>2, StoreFields, AppendProperties
<1>4. StorePart' BY <1>1, <1>2, <1>3 DEF StorePart, EventStore
<1> QED BY <1>4, OnlyStore DEF PromoteEnded

LEMMA PromoteReturnsKeeps ==
  ASSUME IInv, worker.pc = "Promote", NEW ok, worker' = PromoteReturns(ok), StorePart',
         UNCHANGED <<shared, kernel, tp, caller, refused>>
  PROVE  IInv'
<1>1. /\ tp \in TransportState /\ worker \in WorkerStates
      /\ ConnectionSound(tp, worker) /\ WorkerFits(tp, worker)
  BY PublishingStart
<1>2. CASE worker.event # NoEvent
  <2>1. Publishing(worker) BY <1>1, <1>2 DEF WorkerFits, WorkerLocal, Publishing
  <2>2. worker' = Goto(worker, "Published") /\ "Published" \in EventPcs
    BY <1>2 DEF PromoteReturns, EventPcs
  <2> QED BY <2>1, <2>2, StoreStep DEF shared
<1>3. CASE worker.event = NoEvent
  <2>1. Settled(worker) /\ ~ Publishing(worker)
    BY <1>3 DEF Settled, Publishing, EventPcs, Failing, NoEvent
  <2>2. tp.disconnecting => tp.conn # 0 /\ HasPendingIo(tp)
    BY <1>1, <2>1 DEF WorkerFits, DisconnectGoesOn, Settled
  <2>3. worker' = ReturnOk(worker) \/ worker' = ReturnFailed(worker, "PromoteFull")
    BY <1>3 DEF PromoteReturns
  <2>4. "PromoteFull" \in Statuses \ {"Ok"} BY DEF Statuses
  <2>5. /\ worker' \in WorkerStates /\ WorkerFits(tp, worker')
        /\ Draining(worker') <=> Draining(worker)
    <3>1. CASE worker' = ReturnOk(worker)
      BY <1>1, <2>2, <3>1, ReturnOkFits, ReturnOkShape DEF Draining
    <3>2. CASE worker' = ReturnFailed(worker, "PromoteFull")
      <4>1. WorkerFits(tp, worker') BY <1>1, <2>2, <2>4, <3>2, ReturnFailedFits
      <4>2. /\ worker' \in WorkerStates /\ worker'.inDrain = worker.inDrain
            /\ worker'.pc = IF worker.inDrain THEN "CompleteDrain" ELSE "Exit"
        BY <1>1, <2>4, <3>2, FailedShape
      <4> QED BY <4>1, <4>2 DEF Draining
    <3> QED BY <2>3, <3>1, <3>2
  <2>6. ConnectionSound(tp, worker') BY <1>1, <2>1, SettleSound
  <2> QED BY <2>5, <2>6, WorkerMoves DEF shared
<1> QED BY <1>2, <1>3

LEMMA PromoteDoneKeeps == ASSUME IInv, PromoteDone PROVE IInv'
<1>1. store' = [store EXCEPT !.pending = FALSE] /\ store \in EventStore
  BY PublishingStart DEF PromoteDone
<1>2. StorePart' BY <1>1 DEF StorePart, EventStore
<1> QED BY <1>2, PromoteReturnsKeeps DEF PromoteDone, WorkerAt

LEMMA PromoteFullKeeps == ASSUME IInv, PromoteFull PROVE IInv'
<1>1. StorePart' BY DEF IInv, StorePart, PromoteFull
<1> QED BY <1>1, PromoteReturnsKeeps DEF PromoteFull, WorkerAt

\* The event the lifecycle had to publish is published.
LEMMA CommitLife ==
  ASSUME NEW l \in Life!Lifecycle(Generations), NEW kind,
         Life!NextPendingKind(l) = kind, kind \in {"Connected", "Failed", "Disconnected"}
  PROVE  LET c == Life!CommitNextPending(l) IN
         /\ c.ok /\ c.life \in Life!Lifecycle(Generations) /\ c.life.gen = l.gen
         /\ c.life.outcome = l.outcome /\ c.life.ended = l.ended
         /\ kind = "Connected" =>
              /\ l.outcome = "Connected" /\ c.life.outcomeCommitted
              /\ c.life.state = l.state /\ c.life.endCommitted = l.endCommitted
         /\ kind = "Failed" => l.outcome = "Failed" /\ c.life.state = "Idle"
         /\ kind = "Disconnected" => l.ended /\ c.life.state = "Idle"
<1> DEFINE first == [l EXCEPT !.outcomeCommitted = TRUE]
           failed == [l EXCEPT !.outcomeCommitted = TRUE, !.state = "Idle"]
           ended == [l EXCEPT !.endCommitted = TRUE, !.state = "Idle"]
<1>1. /\ first \in Life!Lifecycle(Generations) /\ first.gen = l.gen
      /\ first.outcome = l.outcome /\ first.ended = l.ended
      /\ first.outcomeCommitted /\ first.state = l.state
      /\ first.endCommitted = l.endCommitted
  BY DEF Life!Lifecycle
<1>2. /\ failed \in Life!Lifecycle(Generations) /\ failed.gen = l.gen
      /\ failed.outcome = l.outcome /\ failed.ended = l.ended /\ failed.state = "Idle"
  BY DEF Life!Lifecycle, Life!LifecycleStates
<1>3. /\ ended \in Life!Lifecycle(Generations) /\ ended.gen = l.gen
      /\ ended.outcome = l.outcome /\ ended.ended = l.ended /\ ended.state = "Idle"
  BY DEF Life!Lifecycle, Life!LifecycleStates
<1>4. Life!CommitNextPending(l)
        = CASE kind = "Connected" -> [ok |-> TRUE, life |-> first]
            [] kind = "Failed" -> [ok |-> TRUE, life |-> failed]
            [] kind = "Disconnected" -> [ok |-> TRUE, life |-> ended]
  BY DEF Life!CommitNextPending, Life!Accept
<1>5. l.outcome \in {"None", "Connected", "Failed"} BY DEF Life!Lifecycle, Life!Outcomes
<1>6. /\ kind = "Connected" => l.outcome = "Connected"
      /\ kind = "Failed" => l.outcome = "Failed"
      /\ kind = "Disconnected" => l.ended
  BY <1>5 DEF Life!NextPendingKind
<1> HIDE DEF first, failed, ended
<1>7. CASE kind = "Connected" BY <1>1, <1>4, <1>6, <1>7
<1>8. CASE kind = "Failed" BY <1>2, <1>4, <1>6, <1>8
<1>9. CASE kind = "Disconnected" BY <1>3, <1>4, <1>6, <1>9
<1> QED BY <1>7, <1>8, <1>9

LEMMA CommitPublishedKeeps == ASSUME IInv, CommitPublished PROVE IInv'
<1> DEFINE kind == worker.event.kind
           l == Life!CommitNextPending(tp.life).life
<1>1. /\ tp \in TransportState /\ worker \in WorkerStates /\ OpsPart /\ SendsPart
      /\ ConnectionSound(tp, worker) /\ WorkerFits(tp, worker)
      /\ refused \in 0 .. MaxPostFailures
  BY DEF IInv, TransportPart, ChannelPart
<1>2. /\ worker.pc = "Published" /\ Publishing(worker)
      /\ UNCHANGED <<chan, gate, slots, sends, depth, port, kernel, store, caller, refused>>
  BY DEF CommitPublished, WorkerAt, Publishing, EventPcs, shared
<1>3. SlotsPart' /\ StorePart' BY <1>2 DEF IInv, SlotsPart, StorePart
<1>4. /\ kind \in {"Connected", "Failed", "Disconnected"}
      /\ Life!NextPendingKind(tp.life) = kind
      /\ kind = "Connected" <=> tp.conn # 0
      /\ kind \in {"Connected", "Failed"} => ~ tp.disconnecting
  BY <1>1, <1>2 DEF WorkerFits, PlaceFits
<1>5. tp.life \in Life!Lifecycle(Generations) BY <1>1, TpFields
<1>6. /\ Life!CommitNextPending(tp.life).ok /\ l \in Life!Lifecycle(Generations)
      /\ l.gen = tp.life.gen /\ l.outcome = tp.life.outcome /\ l.ended = tp.life.ended
      /\ kind = "Connected" =>
           /\ tp.life.outcome = "Connected" /\ l.outcomeCommitted
           /\ l.state = tp.life.state /\ l.endCommitted = tp.life.endCommitted
      /\ kind = "Failed" => tp.life.outcome = "Failed" /\ l.state = "Idle"
      /\ kind = "Disconnected" => tp.life.ended /\ l.state = "Idle"
  BY <1>4, <1>5, CommitLife
<1>7. /\ tp' = [tp EXCEPT !.life = l]
      /\ \/ kind = "Connected" /\ worker' = Goto(worker, "RecordConnected")
         \/ kind = "Failed" /\ worker' = Goto(worker, "RecordFailed")
         \/ kind = "Disconnected" /\ worker' = Goto(worker, "RecordDisconnected")
  BY <1>4, <1>6 DEF CommitPublished
<1> HIDE DEF l
<1>8. /\ tp' \in TransportState /\ SameOps(tp, tp') /\ tp'.life = l
      /\ tp'.disconnecting = tp.disconnecting /\ tp'.shutdown = tp.shutdown
      /\ tp'.closed = tp.closed
  BY <1>1, <1>6, <1>7 DEF TransportState, SameOps
<1>9. /\ worker' \in WorkerStates /\ worker'.inDrain = worker.inDrain
      /\ \/ kind = "Connected" /\ worker'.pc = "RecordConnected"
         \/ kind = "Failed" /\ worker'.pc = "RecordFailed"
         \/ kind = "Disconnected" /\ worker'.pc = "RecordDisconnected"
  <2>1. {"RecordConnected", "RecordFailed", "RecordDisconnected"} \subseteq WorkerPcs BY PcsTyped
  <2> QED BY <1>1, <1>7, <2>1, GotoShape, SMTT(30)
<1> HIDE DEF kind
<1>10. WorkerFits(tp', worker')
  BY <1>4, <1>8, <1>9
  DEF SameOps, WorkerFits, WorkerLocal, DisconnectGoesOn, PlaceFits, Publishing, EventPcs
<1>11. ConnectionSound(tp', worker')
  <2>1. CASE kind = "Connected"
    <3>1. LiveConnection(tp, worker) BY <1>1, <1>4, <2>1 DEF ConnectionSound
    <3>2. LiveConnection(tp', worker') BY <1>4, <1>6, <1>8, <2>1, <3>1 DEF LiveConnection, SameOps
    <3> QED
      BY <1>1, <1>4, <1>6, <1>8, <2>1, <3>1, <3>2
      DEF ConnectionSound, SameOps, LiveConnection
  <2>2. CASE kind \in {"Failed", "Disconnected"}
    <3>1. tp.conn = 0 /\ ~ tp.shutdown /\ l.state = "Idle"
      BY <1>1, <1>4, <1>6, <2>2 DEF ConnectionSound, NoConnection
    <3> QED BY <1>1, <1>8, <3>1 DEF ConnectionSound, NoConnection, SameOps
  <2> QED BY <1>4, <2>1, <2>2
<1>12. TransportPart' /\ (Draining(worker') <=> Draining(worker))
  BY <1>2, <1>8, <1>9, <1>10, <1>11 DEF TransportPart, Draining
<1>13. OpsPart' /\ SendsPart' BY <1>1, <1>2, <1>8, OpsUntouched, SendsSame DEF SameOps
<1> QED BY <1>1, <1>2, <1>3, <1>12, <1>13, WorkerStep

----------------------------------------
\* What the worker records in the channel.
\* A step of the worker that writes the channel, but for its attempt.
LEMMA ChannelStep ==
  ASSUME IInv, UNCHANGED <<gate, slots, sends, depth, port, kernel, store, caller,
                           refused>>,
         chan' \in ChannelState, chan'.gen = chan.gen,
         chan'.wakeFailure = chan.wakeFailure, TransportPart', SameOps(tp, tp'),
         Draining(worker') <=> Draining(worker)
  PROVE  IInv'
<1>1. ChannelPart' /\ CallerPart' BY CallerSame DEF IInv, ChannelPart
<1>2. SlotsPart' /\ StorePart' BY DEF IInv, SlotsPart, StorePart
<1>3. tp'.active = tp.active BY DEF SameOps
<1>4. OpsPart' /\ SendsPart' BY <1>3, OpsUntouched, SendsSame DEF IInv
<1>5. "Commands" \in Kinds(port') <=> "Commands" \in Kinds(port) OBVIOUS
<1>6. GatePart' BY <1>5, GateSame DEF IInv
<1> QED BY <1>1, <1>2, <1>4, <1>6 DEF IInv

LEMMA RecordStart ==
  ASSUME IInv, worker.pc \in RecordPcs
  PROVE  /\ tp \in TransportState /\ worker \in WorkerStates /\ chan \in ChannelState
         /\ ConnectionSound(tp, worker) /\ WorkerFits(tp, worker) /\ Settled(worker)
         /\ worker.event.gen \in Generations
         /\ worker.pc \in EndPcs => tp.conn = 0
         /\ worker.pc \notin EndPcs => (tp.disconnecting => tp.conn # 0 /\ HasPendingIo(tp))
<1>1. /\ tp \in TransportState /\ worker \in WorkerStates /\ chan \in ChannelState
      /\ ConnectionSound(tp, worker) /\ WorkerFits(tp, worker)
  BY DEF IInv, TransportPart, ChannelPart
<1>2. worker.event.gen \in Generations BY <1>1 DEF WorkerStates
<1>3. Settled(worker) BY DEF RecordPcs, Settled, Publishing, EventPcs, Failing
<1>4. worker.pc \in EndPcs => tp.conn = 0 BY <1>1 DEF EndPcs, WorkerFits, PlaceFits
<1>5. worker.pc \notin EndPcs => (tp.disconnecting => tp.conn # 0 /\ HasPendingIo(tp))
  BY <1>1, <1>3 DEF EndPcs, RecordPcs, WorkerFits, DisconnectGoesOn, Settled
<1> QED BY <1>1, <1>2, <1>3, <1>4, <1>5

\* The worker goes on with the channel, or returns.
LEMMA RecordReturns ==
  ASSUME NEW t \in TransportState, NEW w \in WorkerStates,
         ConnectionSound(t, w), Settled(w), w.pc \in RecordPcs,
         t.disconnecting => t.conn # 0 /\ HasPendingIo(t)
  PROVE  /\ ReturnOk(w) \in WorkerStates /\ WorkerFits(t, ReturnOk(w))
         /\ ConnectionSound(t, ReturnOk(w))
         /\ Draining(ReturnOk(w)) <=> Draining(w)
<1>1. /\ ReturnOk(w) \in WorkerStates /\ ReturnOk(w).inDrain = w.inDrain
      /\ ReturnOk(w).pc \in {"Pump", "Scan", "CompleteDrain"}
  BY ReturnOkShape
<1>2. WorkerFits(t, ReturnOk(w)) /\ ConnectionSound(t, ReturnOk(w)) BY ReturnOkFits, SettleSound
<1> QED BY <1>1, <1>2 DEF Draining, RecordPcs

LEMMA RecordFails ==
  ASSUME NEW t \in TransportState, NEW w \in WorkerStates, NEW site \in Statuses \ {"Ok"},
         ConnectionSound(t, w), Settled(w), w.pc \in RecordPcs,
         t.disconnecting /\ t.conn # 0 => HasPendingIo(t)
  PROVE  /\ ReturnFailed(w, site) \in WorkerStates /\ WorkerFits(t, ReturnFailed(w, site))
         /\ ConnectionSound(t, ReturnFailed(w, site))
         /\ Draining(ReturnFailed(w, site)) <=> Draining(w)
<1>1. /\ ReturnFailed(w, site) \in WorkerStates
      /\ ReturnFailed(w, site).inDrain = w.inDrain
      /\ ReturnFailed(w, site).pc = IF w.inDrain THEN "CompleteDrain" ELSE "Exit"
  BY FailedShape
<1>2. WorkerFits(t, ReturnFailed(w, site)) /\ ConnectionSound(t, ReturnFailed(w, site))
  BY ReturnFailedFits, SettleSound
<1> QED BY <1>1, <1>2 DEF Draining, RecordPcs

LEMMA RecordGoesOn ==
  ASSUME NEW t \in TransportState, NEW w \in WorkerStates, NEW pc \in RecordPcs,
         ConnectionSound(t, w), Settled(w), w.pc \in RecordPcs,
         pc \in EndPcs => t.conn = 0,
         t.disconnecting =>
           IF t.conn = 0 THEN pc \in {"RecordDisconnected", "DisconnectedIdle"}
           ELSE HasPendingIo(t)
  PROVE  /\ Goto(w, pc) \in WorkerStates /\ WorkerFits(t, Goto(w, pc))
         /\ ConnectionSound(t, Goto(w, pc))
         /\ Draining(Goto(w, pc)) <=> Draining(w)
<1> DEFINE v == Goto(w, pc)
<1>1. pc \in WorkerPcs BY PcsTyped DEF RecordPcs
<1>2. v \in WorkerStates /\ v.pc = pc /\ v.inDrain = w.inDrain BY <1>1, GotoShape
<1>3. ConnectionSound(t, v) BY SettleSound
<1> HIDE DEF v
<1>4. WorkerLocal(v) BY <1>2 DEF WorkerLocal, RecordPcs
<1>5. DisconnectGoesOn(t, v) BY <1>2 DEF DisconnectGoesOn
<1>6. PlaceFits(t, v) BY <1>2 DEF PlaceFits, RecordPcs, EndPcs, Publishing, EventPcs
<1>7. WorkerFits(t, v) /\ (Draining(v) <=> Draining(w))
  BY <1>2, <1>4, <1>5, <1>6 DEF WorkerFits, Draining, RecordPcs
<1> QED BY <1>2, <1>3, <1>7 DEF v

\* The transport is as it was.
LEMMA RecordStep ==
  ASSUME IInv, worker.pc \in RecordPcs,
         UNCHANGED <<gate, slots, sends, depth, port, kernel, tp, store, caller, refused>>,
         chan' \in ChannelState, chan'.gen = chan.gen,
         chan'.wakeFailure = chan.wakeFailure,
         worker' \in WorkerStates, WorkerFits(tp, worker'), ConnectionSound(tp, worker'),
         Draining(worker') <=> Draining(worker)
  PROVE  IInv'
<1>1. TransportPart' /\ SameOps(tp, tp') BY DEF IInv, TransportPart, SameOps
<1> QED BY <1>1, ChannelStep

LEMMA ChannelWritten ==
  ASSUME NEW c \in ChannelState, NEW state \in Life!LifecycleStates, NEW gen \in Generations
  PROVE  /\ [c EXCEPT !.state = state] \in ChannelState
         /\ [c EXCEPT !.state = state].gen = c.gen
         /\ [c EXCEPT !.state = state].wakeFailure = c.wakeFailure
         /\ [c EXCEPT !.sendGen = gen] \in ChannelState
         /\ [c EXCEPT !.sendGen = gen].gen = c.gen
         /\ [c EXCEPT !.sendGen = gen].wakeFailure = c.wakeFailure
  BY DEF ChannelState

LEMMA RecordConnectSucceededKeeps == ASSUME IInv, RecordConnectSucceeded PROVE IInv'
<1>1. worker.pc = "RecordConnected" /\ worker.pc \in RecordPcs /\ worker.pc \notin EndPcs
  BY DEF RecordConnectSucceeded, WorkerAt, RecordPcs, EndPcs
<1>2. /\ tp \in TransportState /\ worker \in WorkerStates /\ chan \in ChannelState
      /\ ConnectionSound(tp, worker) /\ Settled(worker)
      /\ tp.disconnecting => tp.conn # 0 /\ HasPendingIo(tp)
  BY <1>1, RecordStart
<1>3. \/ chan' = [chan EXCEPT !.state = "Connected"] /\ worker' = Goto(worker, "OpenSends")
      \/ chan' = chan /\ worker' = ReturnOk(worker)
      \/ chan' = chan /\ worker' = ReturnFailed(worker, "RecordConnected")
  BY DEF RecordConnectSucceeded
<1>4. "Connected" \in Life!LifecycleStates BY DEF Life!LifecycleStates
<1>5. chan' \in ChannelState /\ chan'.gen = chan.gen /\ chan'.wakeFailure = chan.wakeFailure
  BY <1>2, <1>3, <1>4, ZeroGeneration, ChannelWritten
<1>6. /\ worker' \in WorkerStates /\ WorkerFits(tp, worker')
      /\ ConnectionSound(tp, worker')
      /\ Draining(worker') <=> Draining(worker)
  <2>1. CASE worker' = Goto(worker, "OpenSends")
    <3>1. "OpenSends" \in RecordPcs /\ "OpenSends" \notin EndPcs BY DEF RecordPcs, EndPcs
    <3> QED BY <1>1, <1>2, <2>1, <3>1, RecordGoesOn
  <2>2. CASE worker' = ReturnOk(worker) BY <1>1, <1>2, <2>2, RecordReturns
  <2>3. CASE worker' = ReturnFailed(worker, "RecordConnected")
    <3>1. "RecordConnected" \in Statuses \ {"Ok"} BY DEF Statuses
    <3> QED BY <1>1, <1>2, <2>3, <3>1, RecordFails
  <2> QED BY <1>3, <2>1, <2>2, <2>3
<1> QED BY <1>1, <1>5, <1>6, RecordStep DEF RecordConnectSucceeded

LEMMA OpenSendsKeeps == ASSUME IInv, OpenSends PROVE IInv'
<1>1. worker.pc = "OpenSends" /\ worker.pc \in RecordPcs /\ worker.pc \notin EndPcs
  BY DEF OpenSends, WorkerAt, RecordPcs, EndPcs
<1>2. /\ tp \in TransportState /\ worker \in WorkerStates /\ chan \in ChannelState
      /\ ConnectionSound(tp, worker) /\ Settled(worker) /\ worker.event.gen \in Generations
      /\ tp.disconnecting => tp.conn # 0 /\ HasPendingIo(tp)
  BY <1>1, RecordStart
<1>3. /\ chan' = [chan EXCEPT !.sendGen = worker.event.gen]
      /\ worker' = Goto(worker, "RecheckConnected")
  BY DEF OpenSends
<1>4. "Idle" \in Life!LifecycleStates BY DEF Life!LifecycleStates
<1>5. chan' \in ChannelState /\ chan'.gen = chan.gen /\ chan'.wakeFailure = chan.wakeFailure
  BY <1>2, <1>3, <1>4, ChannelWritten
<1>6. "RecheckConnected" \in RecordPcs /\ "RecheckConnected" \notin EndPcs
  BY DEF RecordPcs, EndPcs
<1>7. /\ worker' \in WorkerStates /\ WorkerFits(tp, worker')
      /\ ConnectionSound(tp, worker')
      /\ Draining(worker') <=> Draining(worker)
  BY <1>1, <1>2, <1>3, <1>6, RecordGoesOn
<1> QED BY <1>1, <1>5, <1>7, RecordStep DEF OpenSends

LEMMA RecheckConnectedKeeps == ASSUME IInv, RecheckConnected PROVE IInv'
<1>1. worker.pc = "RecheckConnected" /\ worker.pc \in RecordPcs /\ worker.pc \notin EndPcs
  BY DEF RecheckConnected, WorkerAt, RecordPcs, EndPcs
<1>2. /\ tp \in TransportState /\ worker \in WorkerStates /\ chan \in ChannelState
      /\ ConnectionSound(tp, worker) /\ Settled(worker)
      /\ tp.disconnecting => tp.conn # 0 /\ HasPendingIo(tp)
  BY <1>1, RecordStart
<1>3. /\ chan' = [chan EXCEPT !.sendGen = 0] \/ chan' = chan
      /\ worker' = ReturnOk(worker)
  BY DEF RecheckConnected
<1>4. "Idle" \in Life!LifecycleStates BY DEF Life!LifecycleStates
<1>5. chan' \in ChannelState /\ chan'.gen = chan.gen /\ chan'.wakeFailure = chan.wakeFailure
  BY <1>2, <1>3, <1>4, ZeroGeneration, ChannelWritten
<1>6. /\ worker' \in WorkerStates /\ WorkerFits(tp, worker')
      /\ ConnectionSound(tp, worker')
      /\ Draining(worker') <=> Draining(worker)
  BY <1>1, <1>2, <1>3, RecordReturns
<1> QED BY <1>1, <1>5, <1>6, RecordStep DEF RecheckConnected

LEMMA OverShape ==
  ASSUME NEW t \in TransportState, NEW w, ConnectionSound(t, w), t.conn = 0
  PROVE  /\ Over(t) \in TransportState /\ SameOps(t, Over(t)) /\ ~ Over(t).disconnecting
         /\ ConnectionSound(Over(t), w)
<1> DEFINE u == Over(t)
<1>1. /\ u \in TransportState /\ ~ u.disconnecting /\ u.conn = t.conn
      /\ u.life = t.life /\ u.closed = t.closed /\ u.recv = t.recv /\ u.send = t.send
      /\ u.connectIo = t.connectIo /\ u.shutdown = t.shutdown
      /\ u.stopPosted = t.stopPosted /\ u.active = t.active
  BY DEF Over, TransportState
<1> HIDE DEF u
<1>2. ConnectionSound(u, w) /\ SameOps(t, u) BY <1>1 DEF ConnectionSound, NoConnection, SameOps
<1> QED BY <1>1, <1>2 DEF u

\* The worker returns from the end of an attempt.
LEMMA EndReturns ==
  ASSUME IInv, worker.pc \in EndPcs,
         UNCHANGED <<gate, slots, sends, depth, port, kernel, store, caller, refused>>,
         chan' \in ChannelState, chan'.gen = chan.gen,
         chan'.wakeFailure = chan.wakeFailure,
         tp' = Over(tp), worker' = ReturnOk(worker)
  PROVE  IInv'
<1>1. worker.pc \in RecordPcs BY DEF RecordPcs, EndPcs
<1>2. /\ tp \in TransportState /\ worker \in WorkerStates
      /\ ConnectionSound(tp, worker) /\ Settled(worker) /\ tp.conn = 0
  BY <1>1, RecordStart
<1>3. /\ tp' \in TransportState /\ SameOps(tp, tp') /\ ~ tp'.disconnecting
      /\ ConnectionSound(tp', worker)
  BY <1>2, OverShape
<1>4. /\ worker' \in WorkerStates /\ WorkerFits(tp', worker')
      /\ ConnectionSound(tp', worker')
      /\ Draining(worker') <=> Draining(worker)
  BY <1>1, <1>2, <1>3, RecordReturns
<1> QED BY <1>3, <1>4, ChannelStep DEF TransportPart

LEMMA RecordEndKeeps ==
  ASSUME IInv, NEW pc \in EndPcs, NEW next \in EndPcs, RecordEnd(pc, next),
         pc = "RecordDisconnected" => next = "DisconnectedIdle",
         pc \in {"RecordFailed", "RecordDisconnected"}
  PROVE  IInv'
<1>1. worker.pc = pc /\ worker.pc \in RecordPcs /\ next \in RecordPcs
  BY DEF RecordEnd, WorkerAt, RecordPcs, EndPcs
<1>2. /\ tp \in TransportState /\ worker \in WorkerStates /\ chan \in ChannelState
      /\ ConnectionSound(tp, worker) /\ Settled(worker) /\ WorkerFits(tp, worker)
      /\ tp.conn = 0
  BY <1>1, RecordStart
<1>3. CASE StillCurrent
  <2>1. /\ chan' = [chan EXCEPT !.sendGen = 0] /\ worker' = Goto(worker, next)
        /\ UNCHANGED tp
    BY <1>3 DEF RecordEnd
  <2>2. "Idle" \in Life!LifecycleStates BY DEF Life!LifecycleStates
  <2>3. chan' \in ChannelState /\ chan'.gen = chan.gen
        /\ chan'.wakeFailure = chan.wakeFailure
    BY <1>2, <2>1, <2>2, ZeroGeneration, ChannelWritten
  <2>4. tp.disconnecting => pc \in {"RecordDisconnected", "DisconnectedIdle"}
    BY <1>1, <1>2 DEF WorkerFits, DisconnectGoesOn, Settled
  <2>5. tp.disconnecting => next \in {"RecordDisconnected", "DisconnectedIdle"} BY <2>4
  <2>6. /\ worker' \in WorkerStates /\ WorkerFits(tp, worker')
        /\ ConnectionSound(tp, worker')
        /\ Draining(worker') <=> Draining(worker)
    BY <1>1, <1>2, <2>1, <2>5, RecordGoesOn
  <2> QED BY <1>1, <2>1, <2>3, <2>6, RecordStep DEF RecordEnd
<1>4. CASE ~ StillCurrent
  <2>1. worker' = ReturnOk(worker) /\ tp' = Over(tp) /\ UNCHANGED chan BY <1>4 DEF RecordEnd, Over
  <2> QED BY <1>1, <1>2, <2>1, EndReturns DEF RecordEnd
<1> QED BY <1>3, <1>4

LEMMA RecordConnectFailedKeeps == ASSUME IInv, RecordConnectFailed PROVE IInv'
<1>1. "RecordFailed" \in EndPcs /\ "FailedIdle" \in EndPcs BY DEF EndPcs
<1> QED BY <1>1, RecordEndKeeps DEF RecordConnectFailed

LEMMA RecordDisconnectedKeeps == ASSUME IInv, RecordDisconnected PROVE IInv'
<1>1. "RecordDisconnected" \in EndPcs /\ "DisconnectedIdle" \in EndPcs BY DEF EndPcs
<1> QED BY <1>1, RecordEndKeeps DEF RecordDisconnected

LEMMA BackToIdleKeeps ==
  ASSUME IInv, NEW pc \in EndPcs, NEW from, NEW tolerated, NEW site \in Statuses \ {"Ok"},
         BackToIdle(pc, from, tolerated, site)
  PROVE  IInv'
<1>1. worker.pc = pc /\ worker.pc \in RecordPcs BY DEF BackToIdle, WorkerAt, RecordPcs, EndPcs
<1>2. /\ tp \in TransportState /\ worker \in WorkerStates /\ chan \in ChannelState
      /\ ConnectionSound(tp, worker) /\ Settled(worker) /\ tp.conn = 0
  BY <1>1, RecordStart
<1>3. "Idle" \in Life!LifecycleStates BY DEF Life!LifecycleStates
<1>4. chan' = [chan EXCEPT !.state = "Idle"] \/ chan' = chan BY DEF BackToIdle
<1>5. chan' \in ChannelState /\ chan'.gen = chan.gen /\ chan'.wakeFailure = chan.wakeFailure
  <2>1. LET idle == [chan EXCEPT !.state = "Idle"] IN
        idle \in ChannelState /\ idle.gen = chan.gen
        /\ idle.wakeFailure = chan.wakeFailure
    BY <1>2, <1>3, ZeroGeneration, ChannelWritten
  <2> QED BY <1>2, <1>4, <2>1
<1>6. \/ worker' = ReturnOk(worker) /\ tp' = Over(tp)
      \/ worker' = ReturnFailed(worker, site) /\ UNCHANGED tp
  BY DEF BackToIdle, Over
<1>7. CASE worker' = ReturnOk(worker) /\ tp' = Over(tp)
  BY <1>1, <1>5, <1>7, EndReturns DEF BackToIdle
<1>8. CASE worker' = ReturnFailed(worker, site) /\ UNCHANGED tp
  <2>1. /\ worker' \in WorkerStates /\ WorkerFits(tp, worker')
        /\ ConnectionSound(tp, worker')
        /\ Draining(worker') <=> Draining(worker)
    BY <1>1, <1>2, <1>8, RecordFails
  <2> QED BY <1>1, <1>5, <1>8, <2>1, RecordStep DEF BackToIdle
<1> QED BY <1>6, <1>7, <1>8

LEMMA FailedIdleKeeps == ASSUME IInv, FailedIdle PROVE IInv'
<1>1. "FailedIdle" \in EndPcs /\ "RecordFailed" \in Statuses \ {"Ok"} BY DEF EndPcs, Statuses
<1> QED BY <1>1, BackToIdleKeeps DEF FailedIdle

LEMMA DisconnectedIdleKeeps == ASSUME IInv, DisconnectedIdle PROVE IInv'
<1>1. "DisconnectedIdle" \in EndPcs /\ "RecordDisconnected" \in Statuses \ {"Ok"}
  BY DEF EndPcs, Statuses
<1> QED BY <1>1, BackToIdleKeeps DEF DisconnectedIdle

\* The kernel ends one of its operations.
LEMMA KernelCompletesKeeps == ASSUME IInv, KernelCompletes PROVE IInv'
<1>0. PICK o \in kernel : \E outcome \in OutcomesOf(o.op) :
        /\ port' = Append(port, Completion(o.op, o.gen, outcome))
        /\ kernel' = kernel \ {o}
  BY DEF KernelCompletes
<1>1. PICK outcome \in OutcomesOf(o.op) :
        /\ port' = Append(port, Completion(o.op, o.gen, outcome))
        /\ kernel' = kernel \ {o}
  BY <1>0
<1> DEFINE e == Completion(o.op, o.gen, outcome)
<1>2. /\ UNCHANGED <<chan, gate, slots, sends, depth, tp, store, caller, worker, refused>>
  BY DEF KernelCompletes
<1>3. /\ port \in Seq(Packets) /\ kernel \in SUBSET Operations
      /\ OpsAccounted(tp, kernel, port) /\ SendsPart /\ refused \in 0 .. MaxPostFailures
  BY DEF IInv, OpsPart, ChannelPart
<1>4. o.op \in IoOps /\ o.gen \in Generations BY <1>3 DEF Operations
<1>5. outcome \in {"Done", "Failed", "Packet", "Partial", "Ended"} BY <1>4 DEF OutcomesOf, IoOps
<1>6. e \in Packets /\ e.kind = o.op /\ e.gen = o.gen
  BY <1>4, <1>5 DEF Completion, Packets, PortKinds
<1> HIDE DEF e
<1>7. /\ OpsAccounted(tp, kernel \ {o}, Append(port, e))
      /\ Append(port, e) \in Seq(Packets)
      /\ Kinds(Append(port, e)) = Kinds(port) \cup {o.op}
  <2>1. /\ kernel \in SUBSET Operations /\ port \in Seq(Packets) /\ o \in kernel
        /\ OpsAccounted(tp, kernel, port)
    BY <1>3
  <2>2. e \in Packets /\ e.kind = o.op /\ e.gen = o.gen BY <1>6
  <2> HIDE <1>0, <1>1, <1>2, <1>3, <1>4, <1>5, <1>6
  <2> QED BY ONLY <2>1, <2>2, OpsComplete, SMTT(30)
<1>8. port' = Append(port, e) /\ kernel' = kernel \ {o} /\ tp' = tp BY <1>1, <1>2 DEF e
<1>9. kernel' \in SUBSET Operations BY <1>3, <1>8
<1>10. OpsPart' BY <1>7, <1>8, <1>9 DEF OpsPart
<1>11. "Commands" \in Kinds(port') <=> "Commands" \in Kinds(port) BY <1>4, <1>7, <1>8 DEF IoOps
<1>12. SlotsPart' /\ StorePart' /\ TransportPart'
  BY <1>2 DEF IInv, SlotsPart, StorePart, TransportPart
<1>13. tp'.active = tp.active BY <1>2
<1>14. SendsPart' BY <1>2, <1>3, <1>13, SendsSame
<1>15. Draining(worker') <=> Draining(worker) BY <1>2
<1> QED BY <1>2, <1>3, <1>10, <1>11, <1>12, <1>14, <1>15, WorkerStep

----------------------------------------
\* The invariant holds.
LEMMA WorkerNextKeeps == ASSUME IInv, WorkerNext PROVE IInv'
  BY PumpStopKeeps, PumpCommandsKeeps, ScanEmptyKeeps, HandleConnectKeeps,
     HandleDisconnectKeeps, HandleShutdownKeeps, HandleEventSpaceAvailableKeeps,
     DrainEmptyKeeps, TryConsumeNextSendKeeps, CompleteDrainKeeps, PumpConnectKeeps,
     ConnectShutdownKeeps, ConnectOutcomeKeeps, PumpRecvKeeps, PublishPacketReceivedKeeps,
     PumpSendKeeps, TryStartNextSendKeeps, TryFinishDisconnectKeeps,
     PublishLifecycleEventKeeps, PushEventKeeps, DeferEventKeeps, PromoteOutcomeKeeps,
     PromoteEndedKeeps, PromoteDoneKeeps, PromoteFullKeeps, CommitPublishedKeeps,
     RecordConnectSucceededKeeps, OpenSendsKeeps, RecheckConnectedKeeps,
     RecordConnectFailedKeeps, RecordDisconnectedKeeps, FailedIdleKeeps,
     DisconnectedIdleKeeps, WorkerExitsKeeps
  DEF WorkerNext

\* A step that changes nothing.
LEMMA StutterKeeps == ASSUME IInv, UNCHANGED vars PROVE IInv'
  BY DEF IInv, ChannelPart, SlotsPart, StorePart, CallerPart, CallerFits, SendsPart,
         SendSlotsConserved, OpsPart, TransportPart, GatePart, GateFits, vars

LEMMA NextKeeps == ASSUME IInv, [Next]_vars PROVE IInv'
  BY CallerNextKeeps, WorkerNextKeeps, KernelCompletesKeeps, StutterKeeps DEF Next

LEMMA EmptyPort ==
    /\ <<>> \in Seq(Packets) /\ Kinds(<<>>) = {} /\ Distinct(<<>>)
    /\ \A gen : OfAttempt(<<>>, gen)
<1>1. DOMAIN <<>> = {} OBVIOUS
<1> QED BY <1>1, EmptySeq DEF Kinds, Distinct, OfAttempt

LEMMA InitTransport ==
  ASSUME Init
  PROVE  /\ tp \in TransportState /\ NoConnection(tp) /\ ~ tp.active /\ ~ tp.shutdown
         /\ tp.active = tp.send
         /\ tp.conn = 0 /\ ~ tp.disconnecting /\ tp.life.state = "Idle"
<1>1. Life!InitialLifecycle \in Life!Lifecycle(Generations)
      /\ Life!InitialLifecycle.state = "Idle"
  BY ZeroGeneration
  DEF Life!InitialLifecycle, Life!Lifecycle, Life!LifecycleStates, Life!Outcomes
<1> QED BY <1>1, ZeroGeneration DEF Init, TransportState, NoConnection

LEMMA InitKeeps == ASSUME Init PROVE IInv
<1>1. ChannelPart
  BY ZeroGeneration, ClientRuntimeAssumption
  DEF Init, ChannelPart, ChannelState, Life!LifecycleStates
<1>2. SlotsPart BY DEF Init, SlotsPart
<1>3. StorePart BY EmptySeq DEF Init, StorePart, EventStore
<1>4. CallerPart /\ caller.kind = "None" /\ caller.pc = "Idle"
  <2>1. caller = IdleCaller BY DEF Init
  <2> QED BY <2>1, CallerIdles DEF CallerPart, IdleCaller
<1>5. /\ tp \in TransportState /\ NoConnection(tp) /\ ~ tp.active /\ ~ tp.shutdown
      /\ tp.active = tp.send
      /\ tp.conn = 0 /\ ~ tp.disconnecting /\ tp.life.state = "Idle"
  BY InitTransport
<1>6. SendsPart
  <2>1. sends = <<>> /\ depth = 0 /\ Len(sends) = 0 BY EmptySeq DEF Init
  <2> QED
    BY <1>4, <1>5, <2>1, EmptySeq, ClientRuntimeAssumption
    DEF SendsPart, SendSlotsConserved, ReleasedSends
<1>7. OpsPart
  <2>1. port = <<>> /\ kernel = {} BY DEF Init
  <2> QED BY <1>5, <2>1, EmptyPort DEF OpsPart, OpsAccounted, Held, NoConnection, Pending, IoOps
<1>8. /\ worker \in WorkerStates /\ worker.pc = "Pump" /\ ~ worker.inDrain
      /\ worker.event = NoEvent /\ worker.status = "Ok"
  <2>1. worker = IdleWorker BY DEF Init
  <2> QED BY <2>1, IdleWorkerShape
<1>9. TransportPart
  <2>1. ConnectionSound(tp, worker) BY <1>5 DEF ConnectionSound, NoConnection
  <2>2. WorkerFits(tp, worker)
    BY <1>5, <1>8 DEF WorkerFits, WorkerLocal, DisconnectGoesOn, PlaceFits, Publishing, EventPcs
  <2> QED BY <1>5, <1>8, <2>1, <2>2 DEF TransportPart
<1>10. GatePart
  <2>1. gate = [phase |-> "Idle", pending |-> FALSE, resched |-> FALSE, inFlight |-> 0]
    BY DEF Init, Gate!InitialWord
  <2>2. gate \in Gate!GateWord BY <2>1 DEF Gate!GateWord, Gate!Phases
  <2>3. "Commands" \notin Kinds(port) BY EmptyPort DEF Init
  <2> QED BY <1>4, <1>8, <2>1, <2>2, <2>3 DEF GatePart, GateFits, Draining
<1> QED BY <1>1, <1>2, <1>3, <1>4, <1>6, <1>7, <1>9, <1>10 DEF IInv

\* The client's threads never leave the invariant.
LEMMA Invariant == Spec => []IInv
<1>1. Init => IInv BY InitKeeps
<1>2. IInv /\ [Next]_vars => IInv' BY NextKeeps
<1> QED BY <1>1, <1>2, PTL DEF Spec

LEMMA SoundFromInvariant == IInv => ChannelIsSound
<1> SUFFICES ASSUME IInv PROVE ChannelIsSound OBVIOUS
<1>1. chan \in ChannelState /\ refused \in 0 .. MaxPostFailures /\ gate \in Gate!GateWord
  BY DEF IInv, ChannelPart, GatePart
<1>2. slots \in [CommandKinds -> {EmptySlot} \cup Generations] /\ store \in EventStore
  BY DEF IInv, SlotsPart, StorePart
<1>3. /\ sends \in Seq(Generations) /\ depth \in 0 .. SendCapacity
      /\ SendSlotsConserved
  BY ClientRuntimeAssumption DEF IInv, SendsPart
<1>4. PortKinds = {"Commands", "Stop", "Connect", "Recv", "Send"} BY DEF PortKinds, IoOps
<1>5. port \in Seq([kind: {"Commands", "Stop", "Connect", "Recv", "Send"},
                    gen: Generations,
                    outcome: {"None", "Done", "Failed", "Packet", "Partial", "Ended"}])
  BY <1>4 DEF IInv, OpsPart, Packets
<1>6. kernel \subseteq [op: {"Connect", "Recv", "Send"}, gen: Generations]
  BY DEF IInv, OpsPart, Operations, IoOps
<1>7. tp \in TransportState BY DEF IInv, TransportPart
<1> QED BY <1>1, <1>2, <1>3, <1>5, <1>6, <1>7 DEF ChannelIsSound, TypeOK

LEMMA OperationsFromInvariant == IInv => NoIoOnFreedConnection
  BY DEF IInv, OpsPart, OpsAccounted, OfAttempt, IoOps, NoIoOnFreedConnection

\* The channel, the transport and the queues keep to their records, and every
\* place of the send pipeline is held by exactly one send: SubmitSend, the
\* discards of BeginDisconnect and RequestShutdown, and the release of the
\* active send never lose one or return one twice.
THEOREM ChannelSoundness == Spec => []ChannelIsSound
  BY Invariant, SoundFromInvariant, PTL

\* No operation outlives the connection whose I/O context the kernel writes:
\* TryFinishDisconnect, RecordConnectFailure and RequestShutdown release the
\* NrClientConnection only when neither the kernel nor the completion port has
\* an operation of it.
THEOREM OperationsHaveTheirConnection == Spec => []NoIoOnFreedConnection
  BY Invariant, OperationsFromInvariant, PTL

LEMMA ReturnOkOnward ==
  ASSUME NEW w \in WorkerStates
  PROVE  Onward(w, ReturnOk(w))
<1> DEFINE v == ReturnOk(w)
<1>1. /\ v.pc \in {"Pump", "Scan", "CompleteDrain"} /\ v.status = "Ok"
      /\ v.pc = "Scan" => v.scan = 1
      /\ v.inDrain = w.inDrain
      /\ v.pc = "CompleteDrain" => v.drained = DrainBudget
  BY ReturnOkShape
<1> HIDE DEF v
<1>2. Onward(w, v) BY <1>1 DEF Onward, StillToScan
<1> QED BY <1>2 DEF v

LEMMA ReturnFailedOnward ==
  ASSUME NEW w \in WorkerStates, NEW site \in Statuses \ {"Ok", "EventSpace", "ConnectFailure"}
  PROVE  Onward(w, ReturnFailed(w, site)) /\ Lost(ReturnFailed(w, site))
<1> DEFINE v == ReturnFailed(w, site)
<1>1. v.pc \in {"CompleteDrain", "Exit"} /\ v.status = site BY FailedShape
<1> HIDE DEF v
<1>2. Lost(v) BY <1>1 DEF Lost, Failing
<1>3. Onward(w, v) BY <1>1, <1>2 DEF Onward
<1> QED BY <1>2, <1>3 DEF v

LEMMA GotoOnward ==
  ASSUME NEW w, NEW v, v.inDrain = w.inDrain, v.status = w.status,
         v.pc \notin {"Scan", "ConsumeSend", "CompleteDrain", "StartNextSend"}
  PROVE  Onward(w, v)
  BY DEF Onward, StillToScan

\* Outside a drain, and once it has passed the slots, nothing is to be kept.
LEMMA OutsideOnward ==
  ASSUME NEW w, NEW v, ~ w.inDrain \/ w.pc = "ConsumeSend",
         v.status = w.status \/ v.status = "Ok", v.pc = "StartNextSend" => ~ v.inDrain
  PROVE  Onward(w, v)
  BY DEF Onward, StillToScan

LEMMA SlotsInOrder == \A i \in 1 .. 4 : SlotOrder[i] \in CommandKinds
  BY DEF CommandKinds, SlotOrder

LEMMA RoundKeeps ==
  ASSUME IInv, Promises, Round PROVE CommandsPart' /\ ShutdownPart' /\ StartPart'
<1>1. CommandsPart'
  <2> SUFFICES ASSUME ~ Lost(worker'), ~ chan'.wakeFailure, NEW i \in 1 .. 4,
                      slots'[SlotOrder[i]] # EmptySlot
               PROVE  Promised' \/ gate'.phase = "Scheduled" \/ StillToScan(worker', i)
    BY DEF CommandsPart
  <2>1. slots[SlotOrder[i]] # EmptySlot BY SlotsInOrder DEF Round
  <2>2. Promised \/ gate.phase = "Scheduled" \/ StillToScan(worker, i)
    BY <2>1 DEF Promises, CommandsPart, Round
  <2>3. StillToScan(worker, i) => StillToScan(worker', i) BY DEF Round, Onward
  <2> QED BY <2>2, <2>3 DEF Promised, Round
<1>2. ShutdownPart'
  <2>1. UNCHANGED caller /\ chan'.wakeFailure = chan.wakeFailure /\ ~ Lost(worker)
        /\ (chan'.state = "Shutdown" => chan.state = "Shutdown") /\ Settles
    BY DEF Round
  <2> QED BY <2>1 DEF Promises, ShutdownPart, Calling, Settles
<1>3. StartPart' BY DEF Promises, StartPart, Round, Onward
<1> QED BY <1>1, <1>2, <1>3

LEMMA TurnKeeps == ASSUME IInv, Promises, Turn PROVE Promises'
<1>1. CommandsPart' /\ ShutdownPart' /\ StartPart' BY RoundKeeps DEF Turn
<1>2. WakePart'
  <2>1. worker'.status # "EventSpace" BY DEF Promises, WakePart, Turn, Round, Onward
  <2>2. CASE NoDrainToCome
    <3>1. gate.phase = "Scheduled" /\ "Commands" \notin Kinds(port)
      BY <2>2 DEF NoDrainToCome, Turn, Round, Lost, Failing
    <3> QED BY <2>1, <3>1 DEF WakePart, NoDrainToCome, Turn, Round
  <2>3. CASE SpaceKnown
    <3>1. slots'["EventSpace"] \in {slots["EventSpace"], EmptySlot} BY KindsAre DEF Turn, Round
    <3>2. SpaceKnown' BY <2>3, <3>1 DEF SpaceKnown, SignalsSpace, Turn, Round
    <3> QED BY <2>1, <3>2 DEF WakePart
  <2> QED BY <2>2, <2>3 DEF Promises, WakePart
<1> QED BY <1>1, <1>2 DEF Promises

----------------------------------------
\* The steps of the worker, one after the other.
LEMMA AtWork ==
  ASSUME IInv, worker.pc \notin {"Exit", "Stopped", "Crashed", "CompleteDrain"}
  PROVE  worker \in WorkerStates /\ tp \in TransportState /\ ~ Lost(worker)
  BY DEF IInv, TransportPart, Lost, Failing

LEMMA SettlesSame ==
  ASSUME tp'.shutdown = tp.shutdown, tp'.stopPosted = tp.stopPosted,
         tp'.conn = 0 /\ tp'.shutdown => tp.conn = 0 \/ tp'.stopPosted \/ Lost(worker'),
         slots'["Shutdown"] = slots["Shutdown"],
         "Stop" \in Kinds(port) => "Stop" \in Kinds(port')
  PROVE  Settles
  BY DEF Settles

\* A step that touches only the worker's locals and the store's events.
LEMMA QuietTurn ==
  ASSUME UNCHANGED <<gate, slots, port, tp, caller>>, store'.wake = store.wake,
         chan'.wakeFailure = chan.wakeFailure,
         chan'.state = "Shutdown" => chan.state = "Shutdown",
         worker.pc # "Exit", ~ Lost(worker), Onward(worker, worker')
  PROVE  Turn
<1>1. Settles BY SettlesSame
<1> QED BY <1>1 DEF Turn, Round

LEMMA Sites == Statuses \ {"Ok", "EventSpace", "ConnectFailure"} =
    {"Connect", "PendingSlot", "PushFull", "Post", "PromoteFull", "RecordConnected", "RecordFailed",
     "RecordDisconnected", "DisconnectAfterShutdown"}
  BY DEF Statuses

LEMMA DrainEmptyTurn == ASSUME IInv, DrainEmpty PROVE Turn
<1>1. worker.pc = "ConsumeSend" BY DEF DrainEmpty, WorkerAt
<1>2. worker \in WorkerStates /\ ~ Lost(worker) BY <1>1, AtWork
<1>3. worker' = Goto(worker, "CompleteDrain") \/ worker' = IdleWorker BY DEF DrainEmpty
<1>4. worker'.pc # "StartNextSend" /\ (worker'.status = worker.status \/ worker'.status = "Ok")
  <2>1. CASE worker' = Goto(worker, "CompleteDrain") BY <1>2, <2>1, GotoShape, PcsTyped
  <2>2. CASE worker' = IdleWorker BY <2>2, IdleWorkerShape
  <2> QED BY <1>3, <2>1, <2>2
<1>5. Onward(worker, worker') BY <1>1, <1>4, OutsideOnward
<1> QED BY <1>1, <1>2, <1>5, QuietTurn DEF DrainEmpty, shared

LEMMA PublishLifecycleEventTurn == ASSUME IInv, PublishLifecycleEvent PROVE Turn
<1>1. worker.pc = "Publish" BY DEF PublishLifecycleEvent, WorkerAt
<1>2. worker \in WorkerStates /\ ~ Lost(worker) BY <1>1, AtWork
<1>3. \/ worker' = ReturnFailed(worker, "PendingSlot")
      \/ worker' = Goto(worker, "Defer") \/ worker' = Goto(worker, "Push")
  BY DEF PublishLifecycleEvent
<1>4. Onward(worker, worker')
  <2>1. CASE worker' = ReturnFailed(worker, "PendingSlot")
    BY <1>2, <2>1, ReturnFailedOnward, Sites
  <2>2. CASE worker' = Goto(worker, "Defer") \/ worker' = Goto(worker, "Push")
    <3>1. {"Defer", "Push"} \subseteq WorkerPcs BY PcsTyped DEF EventPcs
    <3>2. worker'.pc \in {"Defer", "Push"} /\ worker'.inDrain = worker.inDrain
          /\ worker'.status = worker.status
      BY <1>2, <2>2, <3>1, GotoShape
    <3> QED BY <3>2, GotoOnward
  <2> QED BY <1>3, <2>1, <2>2
<1> QED BY <1>1, <1>2, <1>4, QuietTurn DEF PublishLifecycleEvent, shared

LEMMA PushEventTurn == ASSUME IInv, PushEvent PROVE Turn
<1>1. worker.pc = "Push" BY DEF PushEvent, WorkerAt
<1>2. worker \in WorkerStates /\ ~ Lost(worker) /\ store \in EventStore
  BY <1>1, AtWork DEF IInv, StorePart
<1>3. "Published" \in WorkerPcs
      /\ (worker' = Goto(worker, "Published") \/ worker' = ReturnFailed(worker, "PushFull"))
  BY PcsTyped DEF PushEvent, EventPcs
<1>4. Onward(worker, worker') BY <1>2, <1>3, GotoShape, GotoOnward, ReturnFailedOnward, Sites
<1>5. store'.wake = store.wake BY <1>2 DEF PushEvent, EventStore
<1> QED BY <1>1, <1>2, <1>4, <1>5, QuietTurn DEF PushEvent, shared

LEMMA DeferEventTurn == ASSUME IInv, DeferEvent PROVE Turn
<1>1. worker.pc = "Defer" BY DEF DeferEvent, WorkerAt
<1>2. worker \in WorkerStates /\ ~ Lost(worker) /\ store \in EventStore
  BY <1>1, AtWork DEF IInv, StorePart
<1>3. worker' = Goto(worker, "Promote") /\ "Promote" \in WorkerPcs BY PcsTyped DEF DeferEvent
<1>4. Onward(worker, worker') BY <1>2, <1>3, GotoShape, GotoOnward
<1>5. store'.wake = store.wake BY <1>2 DEF DeferEvent, EventStore, PendingSlot
<1> QED BY <1>1, <1>2, <1>4, <1>5, QuietTurn DEF DeferEvent, shared

LEMMA PromoteOutcomeTurn == ASSUME IInv, PromoteOutcome PROVE Turn
<1>1. worker.pc = "Promote" /\ worker' = worker BY DEF PromoteOutcome, WorkerAt
<1>2. ~ Lost(worker) /\ store \in EventStore /\ Onward(worker, worker')
  BY <1>1, AtWork DEF IInv, StorePart, Onward
<1>3. store'.wake = store.wake BY <1>2 DEF PromoteOutcome, EventStore
<1> QED BY <1>1, <1>2, <1>3, QuietTurn DEF PromoteOutcome, shared

LEMMA PromoteEndedTurn == ASSUME IInv, PromoteEnded PROVE Turn
<1>1. worker.pc = "Promote" /\ worker' = worker BY DEF PromoteEnded, WorkerAt
<1>2. ~ Lost(worker) /\ store \in EventStore /\ Onward(worker, worker')
  BY <1>1, AtWork DEF IInv, StorePart, Onward
<1>3. store'.wake = store.wake BY <1>2 DEF PromoteEnded, EventStore
<1> QED BY <1>1, <1>2, <1>3, QuietTurn DEF PromoteEnded, shared

LEMMA PromoteReturnsOnward ==
  ASSUME NEW w \in WorkerStates, w = worker, NEW ok
  PROVE  Onward(worker, PromoteReturns(ok))
<1>1. \/ PromoteReturns(ok) = Goto(w, "Published") \/ PromoteReturns(ok) = ReturnOk(w)
      \/ PromoteReturns(ok) = ReturnFailed(w, "PromoteFull")
  BY DEF PromoteReturns
<1>2. "Published" \in WorkerPcs BY PcsTyped DEF EventPcs
<1>3. Onward(w, Goto(w, "Published")) BY <1>2, GotoShape, GotoOnward
<1> QED BY <1>1, <1>3, ReturnOkOnward, ReturnFailedOnward, Sites

LEMMA PromoteDoneTurn == ASSUME IInv, PromoteDone PROVE Turn
<1>1. worker.pc = "Promote" /\ worker' = PromoteReturns(TRUE) BY DEF PromoteDone, WorkerAt
<1>2. worker \in WorkerStates /\ ~ Lost(worker) /\ store \in EventStore
  BY <1>1, AtWork DEF IInv, StorePart
<1>3. store'.wake = store.wake BY <1>2 DEF PromoteDone, EventStore
<1>4. Onward(worker, worker') BY <1>1, <1>2, PromoteReturnsOnward
<1> QED BY <1>1, <1>2, <1>3, <1>4, QuietTurn DEF PromoteDone, shared

LEMMA PromoteFullTurn == ASSUME IInv, PromoteFull PROVE Turn
<1>1. worker.pc = "Promote" /\ worker' = PromoteReturns(FALSE) BY DEF PromoteFull, WorkerAt
<1>2. worker \in WorkerStates /\ ~ Lost(worker) BY <1>1, AtWork
<1>3. Onward(worker, worker') BY <1>1, <1>2, PromoteReturnsOnward
<1> QED BY <1>1, <1>2, <1>3, QuietTurn DEF PromoteFull, shared

\* A step that records in the channel: the transport keeps what counts here.
LEMMA RecordTurn ==
  ASSUME IInv, worker.pc \notin {"Exit", "Stopped", "Crashed", "CompleteDrain"},
         UNCHANGED <<gate, slots, port, store, caller>>,
         chan'.wakeFailure = chan.wakeFailure,
         chan'.state = "Shutdown" => chan.state = "Shutdown",
         tp'.shutdown = tp.shutdown, tp'.stopPosted = tp.stopPosted, tp'.conn = tp.conn,
         \/ worker' = ReturnOk(worker)
         \/ \E site \in Statuses \ {"Ok", "EventSpace", "ConnectFailure"} :
               worker' = ReturnFailed(worker, site)
         \/ \E pc \in RecordPcs : worker' = Goto(worker, pc)
  PROVE  Turn
<1>1. worker \in WorkerStates /\ ~ Lost(worker) BY AtWork
<1>2. Onward(worker, worker')
  <2>1. CASE worker' = ReturnOk(worker) BY <1>1, <2>1, ReturnOkOnward
  <2>2. CASE \E site \in Statuses \ {"Ok", "EventSpace", "ConnectFailure"} :
               worker' = ReturnFailed(worker, site)
    BY <1>1, <2>2, ReturnFailedOnward
  <2>3. CASE \E pc \in RecordPcs : worker' = Goto(worker, pc)
    <3>1. PICK pc \in RecordPcs : worker' = Goto(worker, pc) BY <2>3
    <3>2. pc \in WorkerPcs BY PcsTyped DEF RecordPcs
    <3>3. worker'.pc = pc /\ worker'.inDrain = worker.inDrain
          /\ worker'.status = worker.status
      BY <1>1, <3>1, <3>2, GotoShape
    <3> QED BY <3>3, GotoOnward DEF RecordPcs
  <2> QED BY <2>1, <2>2, <2>3
<1>3. Settles BY SettlesSame
<1> QED BY <1>1, <1>2, <1>3 DEF Turn, Round

LEMMA CommitPublishedTurn == ASSUME IInv, CommitPublished PROVE Turn
<1>1. worker.pc = "Published" /\ tp \in TransportState BY AtWork DEF CommitPublished, WorkerAt
<1>2. tp'.shutdown = tp.shutdown /\ tp'.stopPosted = tp.stopPosted /\ tp'.conn = tp.conn
  BY <1>1 DEF CommitPublished, TransportState
<1>3. Life!CommitNextPending(tp.life).ok
  <2>1. WorkerFits(tp, worker) /\ Publishing(worker)
    BY <1>1 DEF IInv, TransportPart, Publishing, EventPcs
  <2>2. /\ worker.event.kind \in {"Connected", "Failed", "Disconnected"}
        /\ Life!NextPendingKind(tp.life) = worker.event.kind
    BY <2>1 DEF WorkerFits, PlaceFits
  <2> QED BY <2>2 DEF Life!CommitNextPending, Life!Accept
<1>4. \E pc \in RecordPcs : worker' = Goto(worker, pc) BY <1>3 DEF CommitPublished, RecordPcs
<1> QED BY <1>1, <1>2, <1>4, RecordTurn DEF CommitPublished, shared

LEMMA RecordConnectSucceededTurn == ASSUME IInv, RecordConnectSucceeded PROVE Turn
<1>1. worker.pc = "RecordConnected" /\ chan \in ChannelState
  BY DEF RecordConnectSucceeded, WorkerAt, IInv, ChannelPart
<1>2. chan' = chan \/ chan' = [chan EXCEPT !.state = "Connected"] BY DEF RecordConnectSucceeded
<1>3. /\ chan'.wakeFailure = chan.wakeFailure
      /\ chan'.state = "Shutdown" => chan.state = "Shutdown"
  BY <1>1, <1>2 DEF ChannelState
<1>4. /\ "RecordConnected" \in Statuses \ {"Ok", "EventSpace", "ConnectFailure"}
      /\ "OpenSends" \in RecordPcs
  BY Sites DEF RecordPcs
<1>5. \/ worker' = ReturnOk(worker)
      \/ \E site \in Statuses \ {"Ok", "EventSpace", "ConnectFailure"} :
            worker' = ReturnFailed(worker, site)
      \/ \E pc \in RecordPcs : worker' = Goto(worker, pc)
  BY <1>4 DEF RecordConnectSucceeded
<1> QED BY <1>1, <1>3, <1>5, RecordTurn DEF RecordConnectSucceeded

LEMMA OpenSendsTurn == ASSUME IInv, OpenSends PROVE Turn
<1>1. worker.pc = "OpenSends" /\ chan \in ChannelState
  BY DEF OpenSends, WorkerAt, IInv, ChannelPart
<1>2. chan'.wakeFailure = chan.wakeFailure /\ chan'.state = chan.state
  BY <1>1 DEF OpenSends, ChannelState
<1>3. \E pc \in RecordPcs : worker' = Goto(worker, pc) BY DEF OpenSends, RecordPcs
<1> QED BY <1>1, <1>2, <1>3, RecordTurn DEF OpenSends

LEMMA RecheckConnectedTurn == ASSUME IInv, RecheckConnected PROVE Turn
<1>1. worker.pc = "RecheckConnected" /\ chan \in ChannelState
  BY DEF RecheckConnected, WorkerAt, IInv, ChannelPart
<1>2. chan'.wakeFailure = chan.wakeFailure /\ chan'.state = chan.state
  BY <1>1 DEF RecheckConnected, ChannelState
<1> QED BY <1>1, <1>2, RecordTurn DEF RecheckConnected

LEMMA RecordEndTurn ==
  ASSUME IInv, NEW pc, NEW next \in RecordPcs, RecordEnd(pc, next),
         pc \notin {"Exit", "Stopped", "Crashed", "CompleteDrain"}
  PROVE  Turn
<1>1. worker.pc = pc /\ chan \in ChannelState /\ tp \in TransportState
  BY DEF RecordEnd, WorkerAt, IInv, ChannelPart, TransportPart
<1>2. chan'.wakeFailure = chan.wakeFailure /\ chan'.state = chan.state
  BY <1>1 DEF RecordEnd, ChannelState
<1>3. tp'.shutdown = tp.shutdown /\ tp'.stopPosted = tp.stopPosted /\ tp'.conn = tp.conn
  BY <1>1 DEF RecordEnd, TransportState
<1>4. worker' = ReturnOk(worker) \/ worker' = Goto(worker, next) BY DEF RecordEnd
<1> QED BY <1>1, <1>2, <1>3, <1>4, RecordTurn DEF RecordEnd

LEMMA RecordConnectFailedTurn == ASSUME IInv, RecordConnectFailed PROVE Turn
<1>1. "FailedIdle" \in RecordPcs BY DEF RecordPcs
<1> QED BY <1>1, RecordEndTurn DEF RecordConnectFailed

LEMMA RecordDisconnectedTurn == ASSUME IInv, RecordDisconnected PROVE Turn
<1>1. "DisconnectedIdle" \in RecordPcs BY DEF RecordPcs
<1> QED BY <1>1, RecordEndTurn DEF RecordDisconnected

LEMMA BackToIdleTurn ==
  ASSUME IInv, NEW pc, NEW from, NEW tolerated,
         NEW site \in Statuses \ {"Ok", "EventSpace", "ConnectFailure"},
         BackToIdle(pc, from, tolerated, site),
         pc \notin {"Exit", "Stopped", "Crashed", "CompleteDrain"}
  PROVE  Turn
<1>1. worker.pc = pc /\ chan \in ChannelState /\ tp \in TransportState
  BY DEF BackToIdle, WorkerAt, IInv, ChannelPart, TransportPart
<1>2. chan' = chan \/ chan' = [chan EXCEPT !.state = "Idle"] BY DEF BackToIdle
<1>3. /\ chan'.wakeFailure = chan.wakeFailure
      /\ chan'.state = "Shutdown" => chan.state = "Shutdown"
  BY <1>1, <1>2 DEF ChannelState
<1>4. tp'.shutdown = tp.shutdown /\ tp'.stopPosted = tp.stopPosted /\ tp'.conn = tp.conn
  BY <1>1 DEF BackToIdle, TransportState
<1>5. worker' = ReturnOk(worker) \/ worker' = ReturnFailed(worker, site) BY DEF BackToIdle
<1> QED BY <1>1, <1>3, <1>4, <1>5, RecordTurn DEF BackToIdle

LEMMA FailedIdleTurn == ASSUME IInv, FailedIdle PROVE Turn
<1>1. "RecordFailed" \in Statuses \ {"Ok", "EventSpace", "ConnectFailure"} BY Sites
<1> QED BY <1>1, BackToIdleTurn DEF FailedIdle

LEMMA DisconnectedIdleTurn == ASSUME IInv, DisconnectedIdle PROVE Turn
<1>1. "RecordDisconnected" \in Statuses \ {"Ok", "EventSpace", "ConnectFailure"} BY Sites
<1> QED BY <1>1, BackToIdleTurn DEF DisconnectedIdle

LEMMA LiveState ==
  ASSUME NEW t, NEW w, ConnectionSound(t, w), t.conn # 0
  PROVE  t.life.state \in {"Connecting", "Connected", "Disconnecting"}
  BY DEF ConnectionSound, LiveConnection

LEMMA BeginDisconnectEnds ==
  ASSUME NEW t \in TransportState, NEW w \in WorkerStates, NEW released,
         t.life.state \in {"Connecting", "Connected", "Disconnecting"},
         BeginDisconnect(t, w, released)
  PROVE  SameEnd(t, tp') /\ Onward(w, worker')
<1>2. Life!RequestDisconnect(t.life).ok BY RequestDisconnectLife, TpFields
<1>3. tp' = Closed(t) BY <1>2 DEF BeginDisconnect, Closed
<1>4. SameEnd(t, tp') BY <1>3, ClosingShape DEF Closing, SameOps, SameEnd
<1>5. worker' = ReturnOk(w) \/ worker' = Goto(w, "Finish") BY <1>2 DEF BeginDisconnect
<1>6. Onward(w, worker')
  <2>1. CASE worker' = Goto(w, "Finish")
    <3>1. "Finish" \in WorkerPcs BY PcsTyped
    <3>2. worker'.pc = "Finish" /\ worker'.inDrain = w.inDrain /\ worker'.status = w.status
      BY <2>1, <3>1, GotoShape
    <3> QED BY <3>2, GotoOnward
  <2> QED BY <1>5, <2>1, ReturnOkOnward
<1> QED BY <1>4, <1>6

LEMMA RepostRecvEnds ==
  ASSUME NEW t \in TransportState, NEW w \in WorkerStates, w = worker,
         t.life.state \in {"Connecting", "Connected", "Disconnecting"}, RepostRecv(t)
  PROVE  SameEnd(t, tp') /\ Onward(worker, worker')
<1>1. CASE tp' = [t EXCEPT !.recv = TRUE] /\ worker' = ReturnOk(worker)
  BY <1>1, ReturnOkOnward DEF TransportState, SameEnd
<1>2. CASE BeginDisconnect(t, worker, 0) BY <1>2, BeginDisconnectEnds
<1> QED BY <1>1, <1>2 DEF RepostRecv

LEMMA RecordConnectFailureEnds ==
  ASSUME NEW t \in TransportState, NEW w \in WorkerStates, RecordConnectFailure(t, w),
         \/ Life!AwaitsOutcome(t.life)
         \/ t.life.state = "Shutdown" /\ t.shutdown /\ t.stopPosted
  PROVE  /\ tp'.conn = 0 /\ tp'.shutdown = t.shutdown /\ tp'.stopPosted = t.stopPosted
         /\ Onward(w, worker')
<1>1. tp'.conn = 0 /\ tp'.shutdown = t.shutdown /\ tp'.stopPosted = t.stopPosted
      /\ tp'.life = Life!RecordConnectFailed(t.life, t.life.gen).life
  BY DEF RecordConnectFailure, ReleaseConnection, TransportState
<1>2. \/ worker' = [w EXCEPT !.pc = "Publish", !.event = Event("Failed", t.life.gen)]
      \/ /\ worker' = ReturnFailed(w, "ConnectFailure") /\ ~ Life!AwaitsOutcome(t.life)
         /\ tp'.life = t.life
  BY <1>1
  DEF RecordConnectFailure, Life!RecordConnectFailed, Life!Accept, Life!Refuse
<1>3. Onward(w, worker')
  <2>1. CASE worker' = [w EXCEPT !.pc = "Publish", !.event = Event("Failed", t.life.gen)]
    <3>1. worker'.pc = "Publish" /\ worker'.inDrain = w.inDrain /\ worker'.status = w.status
      BY <2>1 DEF WorkerStates
    <3> QED BY <3>1, GotoOnward
  <2>2. CASE /\ worker' = ReturnFailed(w, "ConnectFailure") /\ ~ Life!AwaitsOutcome(t.life)
             /\ tp'.life = t.life
    <3>1. worker'.pc \in {"CompleteDrain", "Exit"} /\ worker'.status = "ConnectFailure"
      BY <2>2, FailedShape DEF Statuses
    <3>2. RefusedConnect(worker', tp') BY <1>1, <2>2, <3>1 DEF RefusedConnect, Failing
    <3> QED BY <3>1, <3>2 DEF Onward, RefusedConnect, Lost
  <2> QED BY <1>2, <2>1, <2>2
<1> QED BY <1>1, <1>3

LEMMA CompleteShutdownEnds ==
  ASSUME NEW t \in TransportState, NEW next, NEW w \in WorkerStates, w = worker,
         Onward(worker, next), port \in Seq(Packets), OpsAccounted(tp, kernel, port),
         CompleteShutdown(t, next)
  PROVE  /\ tp'.conn = t.conn /\ tp'.shutdown = t.shutdown
         /\ t.stopPosted => tp'.stopPosted
         /\ Onward(worker, worker')
         /\ Kinds(port) \subseteq Kinds(port') /\ Kinds(port') \subseteq Kinds(port) \cup {"Stop"}
         /\ \/ Lost(worker')
            \/ tp'.stopPosted /\ (t.stopPosted \/ "Stop" \in Kinds(port'))
<1>1. /\ tp'.conn = t.conn /\ tp'.shutdown = t.shutdown
      /\ t.stopPosted => tp'.stopPosted
  BY DEF CompleteShutdown, TransportState
<1>2. CASE /\ tp'.stopPosted /\ worker' = next
           /\ port' = IF t.stopPosted THEN port ELSE Append(port, Control("Stop"))
  <2>1. CASE t.stopPosted BY <1>1, <1>2, <2>1
  <2>2. CASE ~ t.stopPosted
    <3>1. port' = Append(port, Control("Stop")) BY <1>2, <2>2
    <3>2. Kinds(port') = Kinds(port) \cup {"Stop"}
      BY <3>1, LenProperties, AppendProperties DEF Kinds, Control
    <3> QED BY <1>1, <1>2, <3>2
  <2> QED BY <2>1, <2>2
<1>3. CASE worker' = ReturnFailed(worker, "Post") /\ port' = port
  BY <1>1, <1>3, ReturnFailedOnward, Sites
<1>4. \/ /\ worker' = next
         /\ port' = IF t.stopPosted THEN port ELSE Append(port, Control("Stop"))
         /\ tp' = [t EXCEPT !.life = Life!Shutdown(t.life), !.disconnecting = FALSE,
                            !.stopPosted = TRUE]
      \/ worker' = ReturnFailed(worker, "Post") /\ port' = port
  BY DEF CompleteShutdown, TransportState
<1> QED BY <1>2, <1>3, <1>4 DEF TransportState

\* A step of the worker within a handler.
LEMMA HandlerTurn ==
  ASSUME UNCHANGED <<gate, caller>>, chan' = chan, store'.wake = store.wake,
         slots' = slots, worker.pc # "Exit", ~ Lost(worker), Onward(worker, worker'),
         SameEnd(tp, tp'),
         "Stop" \in Kinds(port) => "Stop" \in Kinds(port'),
         "Commands" \in Kinds(port') => "Commands" \in Kinds(port)
  PROVE  Turn
<1>1. Settles BY SettlesSame DEF SameEnd
<1> QED BY <1>1 DEF Turn, Round

LEMMA PublishPacketReceivedTurn == ASSUME IInv, PublishPacketReceived PROVE Turn
<1>1. worker.pc = "PublishPacket" BY DEF PublishPacketReceived, WorkerAt
<1>2. /\ worker \in WorkerStates /\ tp \in TransportState /\ ~ Lost(worker)
      /\ ConnectionSound(tp, worker) /\ tp.conn # 0 /\ store \in EventStore
  BY <1>1, AtWork DEF IInv, TransportPart, WorkerFits, PlaceFits, StorePart
<1>3. BeginDisconnect(tp, worker, 0) \/ RepostRecv(tp) BY DEF PublishPacketReceived
<1>4. SameEnd(tp, tp') /\ Onward(worker, worker')
  BY <1>2, <1>3, LiveState, BeginDisconnectEnds, RepostRecvEnds
<1>5. store'.wake = store.wake BY <1>2 DEF PublishPacketReceived, EventStore
<1> QED BY <1>1, <1>2, <1>4, <1>5, HandlerTurn DEF PublishPacketReceived

LEMMA TryStartNextSendTurn == ASSUME IInv, Promises, TryStartNextSend PROVE Turn
<1>1. worker.pc = "StartNextSend" /\ ~ worker.inDrain
  BY DEF TryStartNextSend, WorkerAt, Promises, StartPart
<1>2. /\ worker \in WorkerStates /\ tp \in TransportState /\ ~ Lost(worker)
      /\ ConnectionSound(tp, worker) /\ tp.conn # 0
  BY <1>1, AtWork DEF IInv, TransportPart, WorkerFits, PlaceFits
<1>3. CASE /\ worker' = ReturnOk(worker) \/ worker' = Goto(worker, "ConsumeSend")
           /\ tp' = tp
  <2>1. Onward(worker, ReturnOk(worker)) BY <1>2, ReturnOkOnward
  <2>2. CASE worker' = Goto(worker, "ConsumeSend")
    <3>1. "ConsumeSend" \in WorkerPcs BY PcsTyped
    <3>2. worker'.pc = "ConsumeSend" /\ worker'.status = worker.status
      BY <1>2, <2>2, <3>1, GotoShape
    <3>3. Onward(worker, worker') BY <1>1, <3>2, OutsideOnward
    <3> QED BY <1>1, <1>2, <1>3, <3>3, HandlerTurn DEF TryStartNextSend, SameEnd
  <2> QED BY <1>1, <1>2, <1>3, <2>1, <2>2, HandlerTurn DEF TryStartNextSend, SameEnd
<1>4. CASE BeginDisconnect(tp, worker, 0)
  <2>1. SameEnd(tp, tp') /\ Onward(worker, worker') BY <1>2, <1>4, LiveState, BeginDisconnectEnds
  <2> QED BY <1>1, <1>2, <2>1, HandlerTurn DEF TryStartNextSend
<1> QED BY <1>3, <1>4 DEF TryStartNextSend

LEMMA TryConsumeNextSendTurn == ASSUME IInv, TryConsumeNextSend PROVE Turn
<1>1. worker.pc = "ConsumeSend" BY DEF TryConsumeNextSend, WorkerAt
<1>2. /\ worker \in WorkerStates /\ tp \in TransportState /\ ~ Lost(worker)
      /\ ConnectionSound(tp, worker)
  BY <1>1, AtWork DEF IInv, TransportPart
<1>3. \/ (worker' = worker \/ worker' = ReturnOk(worker)) /\ tp' = tp
      \/ worker' = ReturnOk(worker) /\ tp' = [tp EXCEPT !.send = TRUE, !.active = TRUE]
      \/ tp.conn # 0 /\ BeginDisconnect(tp, worker, 0)
  BY DEF TryConsumeNextSend, MaySend
<1>4. SameEnd(tp, tp') /\ Onward(worker, worker')
  <2>1. CASE (worker' = worker \/ worker' = ReturnOk(worker)) /\ tp' = tp
    BY <1>2, <2>1, ReturnOkOnward DEF SameEnd, Onward
  <2>2. CASE worker' = ReturnOk(worker) /\ tp' = [tp EXCEPT !.send = TRUE, !.active = TRUE]
    BY <1>2, <2>2, ReturnOkOnward DEF SameEnd, TransportState
  <2>3. CASE tp.conn # 0 /\ BeginDisconnect(tp, worker, 0)
    BY <1>2, <2>3, LiveState, BeginDisconnectEnds
  <2> QED BY <1>3, <2>1, <2>2, <2>3
<1> QED BY <1>1, <1>2, <1>4, HandlerTurn DEF TryConsumeNextSend

----------------------------------------
\* A packet is taken from the port.
LEMMA PumpTakes ==
  ASSUME IInv, NEW kind, Pump(kind)
  PROVE  /\ worker.pc = "Pump" /\ worker \in WorkerStates /\ tp \in TransportState
         /\ ~ worker.inDrain /\ worker.status = "Ok" /\ ~ Lost(worker)
         /\ ConnectionSound(tp, worker)
         /\ Kinds(port') = Kinds(port) \ {kind} /\ kind \in Kinds(port)
<1>1. worker.pc = "Pump" BY DEF Pump, WorkerAt
<1>2. worker \in WorkerStates /\ tp \in TransportState /\ ~ Lost(worker) BY <1>1, AtWork
<1>3. ~ worker.inDrain /\ worker.status = "Ok" /\ ConnectionSound(tp, worker)
  BY <1>1 DEF IInv, TransportPart, WorkerFits, WorkerLocal
<1>4. port \in Seq(Packets) /\ port # <<>> /\ Distinct(port) /\ OfAttempt(port, tp.conn)
  BY DEF IInv, OpsPart, OpsAccounted, Pump
<1>5. Kinds(port') = Kinds(port) \ {kind} /\ kind \in Kinds(port) BY <1>4, TailPort DEF Pump
<1> QED BY <1>1, <1>2, <1>3, <1>5

LEMMA PumpStopTurn == ASSUME IInv, PumpStop PROVE Turn
<1>1. /\ worker.pc = "Pump" /\ worker \in WorkerStates /\ ~ Lost(worker)
      /\ Kinds(port') = Kinds(port) \ {"Stop"}
  BY PumpTakes DEF PumpStop
<1>2. worker'.pc = "Exit" /\ worker'.status = worker.status /\ worker'.inDrain = worker.inDrain
  BY <1>1 DEF PumpStop, WorkerStates
<1>3. Onward(worker, worker') /\ Lost(worker') BY <1>2, GotoOnward DEF Lost, Failing
<1>4. Settles BY <1>3 DEF Settles, PumpStop
<1> QED BY <1>1, <1>3, <1>4 DEF Turn, Round, PumpStop

\* The handler of a completion.
LEMMA CompletionTurn ==
  ASSUME IInv, NEW op \in IoOps, Pump(op), UNCHANGED <<chan, gate, slots, store, caller>>,
         Onward(worker, worker'), SameEnd(tp, tp')
  PROVE  Turn
<1>1. /\ worker.pc = "Pump" /\ ~ Lost(worker) /\ Kinds(port') = Kinds(port) \ {op} BY PumpTakes
<1>2. op \notin {"Stop", "Commands"} BY DEF IoOps
<1> QED BY <1>1, <1>2, HandlerTurn

LEMMA PumpRecvTurn == ASSUME IInv, PumpRecv PROVE Turn
<1> DEFINE t == [tp EXCEPT !.recv = FALSE]
<1>1. Pump("Recv") /\ "Recv" \in IoOps BY DEF PumpRecv, IoOps
<1>2. /\ worker \in WorkerStates /\ tp \in TransportState /\ worker.pc = "Pump"
      /\ tp.conn # 0 /\ Routed(Head(port)) /\ ConnectionSound(tp, worker)
  BY <1>1, CompletionTaken
<1>3. t \in TransportState /\ SameEnd(tp, t) /\ t.life = tp.life
  BY <1>2 DEF TransportState, SameEnd
<1>4. t.life.state \in {"Connecting", "Connected", "Disconnecting"} BY <1>2, <1>3, LiveState
<1>5. \/ tp' = t /\ (worker' = Goto(worker, "Finish") \/ worker' = Goto(worker, "PublishPacket"))
      \/ BeginDisconnect(t, worker, 0)
      \/ RepostRecv(t)
  BY <1>2 DEF PumpRecv
<1> HIDE DEF t
<1>6. SameEnd(tp, tp') /\ Onward(worker, worker')
  <2>1. CASE tp' = t /\ (worker' = Goto(worker, "Finish") \/ worker' = Goto(worker, "PublishPacket"))
    <3>1. {"Finish", "PublishPacket"} \subseteq WorkerPcs BY PcsTyped
    <3>2. /\ worker'.pc \in {"Finish", "PublishPacket"} /\ worker'.inDrain = worker.inDrain
          /\ worker'.status = worker.status
      BY <1>2, <2>1, <3>1, GotoShape
    <3> QED BY <1>3, <2>1, <3>2, GotoOnward
  <2>2. CASE BeginDisconnect(t, worker, 0)
    BY <1>2, <1>3, <1>4, <2>2, BeginDisconnectEnds DEF SameEnd
  <2>3. CASE RepostRecv(t) BY <1>2, <1>3, <1>4, <2>3, RepostRecvEnds DEF SameEnd
  <2> QED BY <1>5, <2>1, <2>2, <2>3
<1> QED BY <1>1, <1>6, CompletionTurn DEF PumpRecv

LEMMA PumpSendTurn == ASSUME IInv, PumpSend PROVE Turn
<1> DEFINE t == [tp EXCEPT !.send = FALSE]
           r == [t EXCEPT !.active = FALSE]
<1>1. Pump("Send") /\ "Send" \in IoOps BY DEF PumpSend, IoOps
<1>2. /\ worker \in WorkerStates /\ tp \in TransportState /\ worker.pc = "Pump"
      /\ ~ worker.inDrain
      /\ tp.conn # 0 /\ Routed(Head(port)) /\ ConnectionSound(tp, worker)
  BY <1>1, CompletionTaken
<1>3. t \in TransportState /\ SameEnd(tp, t) /\ t.life = tp.life
  BY <1>2 DEF TransportState, SameEnd
<1> HIDE DEF t
<1>4. r \in TransportState /\ SameEnd(tp, r) /\ r.life = tp.life
  BY <1>3 DEF TransportState, SameEnd
<1>5. r.life.state \in {"Connecting", "Connected", "Disconnecting"} BY <1>2, <1>4, LiveState
<1>6. \/ tp' = r /\ (worker' = Goto(worker, "Finish") \/ worker' = Goto(worker, "StartNextSend"))
      \/ tp' = tp /\ worker' = ReturnOk(worker)
      \/ BeginDisconnect(r, worker, ReleasedSends(t))
  BY <1>2 DEF PumpSend, t
<1> HIDE DEF r
<1>7. SameEnd(tp, tp') /\ Onward(worker, worker')
  <2>1. CASE tp' = r /\ (worker' = Goto(worker, "Finish") \/ worker' = Goto(worker, "StartNextSend"))
    <3>1. {"Finish", "StartNextSend"} \subseteq WorkerPcs BY PcsTyped
    <3>2. worker'.inDrain = worker.inDrain /\ worker'.status = worker.status
      BY <1>2, <2>1, <3>1, GotoShape
    <3> QED BY <1>2, <1>4, <2>1, <3>2, OutsideOnward
  <2>2. CASE tp' = tp /\ worker' = ReturnOk(worker) BY <1>2, <2>2, ReturnOkOnward DEF SameEnd
  <2>3. CASE BeginDisconnect(r, worker, ReleasedSends(t))
    BY <1>2, <1>4, <1>5, <2>3, BeginDisconnectEnds DEF SameEnd
  <2> QED BY <1>6, <2>1, <2>2, <2>3
<1> QED BY <1>1, <1>7, CompletionTurn DEF PumpSend

LEMMA PumpConnectTurn == ASSUME IInv, PumpConnect PROVE Turn
<1>1. Pump("Connect") /\ "Connect" \in IoOps BY DEF PumpConnect, IoOps
<1>2. /\ worker \in WorkerStates /\ tp \in TransportState
      /\ tp.conn # 0 /\ Routed(Head(port))
  BY <1>1, CompletionTaken
<1>3. /\ worker' = [worker EXCEPT !.pc = "ConnectShutdown", !.ok = Head(port).outcome = "Done"]
      /\ \/ tp' = [tp EXCEPT !.connectIo = FALSE]
         \/ tp' = [[tp EXCEPT !.connectIo = FALSE] EXCEPT
                      !.life = Life!RequestDisconnect(@).life, !.disconnecting = TRUE,
                      !.closed = TRUE]
  BY <1>2 DEF PumpConnect
<1>4. SameEnd(tp, tp') BY <1>2, <1>3 DEF SameEnd, TransportState
<1>5. /\ worker'.pc = "ConnectShutdown" /\ worker'.inDrain = worker.inDrain
      /\ worker'.status = worker.status
  BY <1>2, <1>3 DEF WorkerStates
<1>6. Onward(worker, worker') BY <1>5, GotoOnward
<1> QED BY <1>1, <1>4, <1>6, CompletionTurn DEF PumpConnect

----------------------------------------
\* A handler that may complete the shutdown of the connection t.
LEMMA ShutdownTurn ==
  ASSUME IInv, worker.pc \notin {"Exit", "Stopped", "Crashed", "CompleteDrain"},
         UNCHANGED <<chan, gate, store, caller>>,
         \A k \in CommandKinds : slots'[k] \in {slots[k], EmptySlot},
         NEW t \in TransportState, t.shutdown, tp.stopPosted => t.stopPosted,
         NEW next, Onward(worker, next), CompleteShutdown(t, next),
         t.stopPosted => tp.stopPosted
  PROVE  Turn
<1>1. worker \in WorkerStates /\ ~ Lost(worker) BY AtWork
<1>2. port \in Seq(Packets) /\ OpsAccounted(tp, kernel, port) BY DEF IInv, OpsPart
<1>3. /\ tp'.conn = t.conn /\ tp'.shutdown = t.shutdown
      /\ t.stopPosted => tp'.stopPosted
      /\ Onward(worker, worker')
      /\ Kinds(port) \subseteq Kinds(port') /\ Kinds(port') \subseteq Kinds(port) \cup {"Stop"}
      /\ \/ Lost(worker')
         \/ tp'.stopPosted /\ (t.stopPosted \/ "Stop" \in Kinds(port'))
  BY <1>1, <1>2, CompleteShutdownEnds
<1>4. Settles BY <1>3 DEF Settles
<1> QED BY <1>1, <1>3, <1>4 DEF Turn, Round

LEMMA ConnectShutdownTurn == ASSUME IInv, ConnectShutdown PROVE Turn
<1> DEFINE t == [ReleaseConnection(tp) EXCEPT !.shutdown = TRUE]
           next == Goto(worker, "ConnectOutcome")
<1>1. worker.pc = "ConnectShutdown" BY DEF ConnectShutdown, WorkerAt
<1>2. worker \in WorkerStates /\ tp \in TransportState /\ ~ Lost(worker) BY <1>1, AtWork
<1>3. Onward(worker, next)
  <2>1. "ConnectOutcome" \in WorkerPcs BY PcsTyped
  <2>2. next.pc = "ConnectOutcome" /\ next.inDrain = worker.inDrain
        /\ next.status = worker.status
    BY <1>2, <2>1, GotoShape
  <2> HIDE DEF next
  <2> QED BY <2>2, GotoOnward
<1>4. t \in TransportState /\ t.shutdown /\ t.stopPosted = tp.stopPosted
  <2> DEFINE r == ReleaseConnection(tp)
  <2>1. r \in TransportState /\ r.stopPosted = tp.stopPosted BY <1>2, ReleasedShape
  <2>2. t = [r EXCEPT !.shutdown = TRUE] OBVIOUS
  <2> HIDE DEF r, t
  <2> QED BY <2>1, <2>2 DEF TransportState
<1>5. CASE CompleteShutdown(t, next) BY <1>1, <1>3, <1>4, <1>5, ShutdownTurn DEF ConnectShutdown
<1>6. CASE worker' = next /\ UNCHANGED <<tp, port>>
  BY <1>1, <1>2, <1>3, <1>6, HandlerTurn DEF ConnectShutdown, SameEnd
<1> QED BY <1>5, <1>6 DEF ConnectShutdown

LEMMA TryFinishDisconnectTurn == ASSUME IInv, TryFinishDisconnect PROVE Turn
<1> DEFINE t == ReleaseConnection(tp)
<1>1. worker.pc = "Finish" BY DEF TryFinishDisconnect, WorkerAt
<1>2. worker \in WorkerStates /\ tp \in TransportState /\ ~ Lost(worker) BY <1>1, AtWork
<1>3. /\ t \in TransportState /\ t.stopPosted = tp.stopPosted /\ t.shutdown = tp.shutdown
      /\ t.conn = 0
  BY <1>2, ReleasedShape
<1>4. Onward(worker, ReturnOk(worker)) BY <1>2, ReturnOkOnward
<1>5. CASE worker' = ReturnOk(worker) /\ UNCHANGED <<tp, port>>
  BY <1>1, <1>2, <1>4, <1>5, HandlerTurn DEF TryFinishDisconnect, SameEnd
<1>6. CASE tp.shutdown /\ CompleteShutdown(t, ReturnOk(worker))
  BY <1>1, <1>3, <1>4, <1>6, ShutdownTurn DEF TryFinishDisconnect
<1>7. CASE ~ HasPendingIo(tp) /\ ~ tp.shutdown
  <2> DEFINE l == Life!RecordDisconnected(tp.life, tp.conn).life
  <2>1. /\ tp.conn # 0 /\ tp.disconnecting /\ LiveConnection(tp, worker)
        /\ tp.life \in Life!Lifecycle(Generations) /\ tp.conn \in Generations
    BY <1>1, <1>2, TpFields
    DEF IInv, TransportPart, WorkerFits, PlaceFits, ConnectionSound
  <2>2. Life!RecordDisconnected(tp.life, tp.conn).ok
    BY <1>7, <2>1, RecordDisconnectedLife DEF LiveConnection
  <2>3. /\ tp' = [t EXCEPT !.life = l] /\ UNCHANGED port
        /\ worker' = ToPublish(worker, "Disconnected", tp.conn)
    BY <1>7, <2>2 DEF TryFinishDisconnect, ToPublish
  <2> HIDE DEF t, l
  <2>4. tp'.shutdown = FALSE /\ tp'.stopPosted = tp.stopPosted
    BY <1>3, <1>7, <2>3 DEF TransportState
  <2>5. worker'.pc = "Publish" /\ worker'.inDrain = worker.inDrain
        /\ worker'.status = worker.status
    BY <1>2, <2>3 DEF ToPublish, WorkerStates
  <2>6. Onward(worker, worker') BY <2>5, GotoOnward
  <2>7. Settles BY <1>7, <2>3, <2>4, SettlesSame, TpFields, <1>2 DEF TryFinishDisconnect
  <2> QED BY <1>1, <1>2, <2>3, <2>6, <2>7 DEF Turn, Round, TryFinishDisconnect
<1> QED BY <1>5, <1>6, <1>7 DEF TryFinishDisconnect

LEMMA ConnectOutcomeTurn == ASSUME IInv, Promises, ConnectOutcome PROVE Turn
<1>1. /\ worker.pc = "ConnectOutcome"
      /\ UNCHANGED <<chan, gate, slots, port, store, caller>>
  BY DEF ConnectOutcome, WorkerAt, shared
<1>2. /\ worker \in WorkerStates /\ tp \in TransportState /\ ~ Lost(worker)
      /\ ConnectionSound(tp, worker)
  BY <1>1, AtWork DEF IInv, TransportPart
<1>3. tp.life.outcome = "None" /\ (tp.conn = 0 => ~ tp.disconnecting)
  BY <1>1 DEF IInv, TransportPart, WorkerFits, PlaceFits
<1>4. CASE tp' = tp /\ (worker' = Goto(worker, "Finish") \/ worker' = Goto(worker, "Crashed"))
  <2>1. {"Finish", "Crashed"} \subseteq WorkerPcs BY PcsTyped
  <2>2. worker'.pc \in {"Finish", "Crashed"} /\ worker'.inDrain = worker.inDrain
        /\ worker'.status = worker.status
    BY <1>2, <1>4, <2>1, GotoShape
  <2>3. Onward(worker, worker') BY <2>2, GotoOnward
  <2> QED BY <1>1, <1>2, <1>4, <2>3, HandlerTurn DEF SameEnd
<1>5. CASE ~ tp.disconnecting /\ RecordConnectFailure(tp, worker)
  <2>1. /\ tp'.conn = 0 /\ tp'.shutdown = tp.shutdown /\ tp'.stopPosted = tp.stopPosted
        /\ Onward(worker, worker')
    <3>1. tp.conn # 0 => Life!AwaitsOutcome(tp.life)
      BY <1>2, <1>3, <1>5, TpFields, LifeFields
      DEF ConnectionSound, LiveConnection, Life!AwaitsOutcome
    <3>2. tp.conn = 0 => tp.life.state = "Shutdown" /\ tp.shutdown /\ tp.stopPosted
      BY <1>1, <1>2 DEF IInv, TransportPart, WorkerFits, PlaceFits, ConnectionSound,
                        Promises, ShutdownPart
    <3> QED BY <1>2, <1>5, <3>1, <3>2, RecordConnectFailureEnds
  <2>2. tp.shutdown => tp.conn = 0 BY <1>2, <1>5 DEF ConnectionSound, LiveConnection
  <2>3. Settles BY <1>1, <2>1, <2>2, SettlesSame
  <2> QED BY <1>1, <1>2, <2>1, <2>3 DEF Turn, Round
<1>6. CASE ~ tp.disconnecting /\ tp.conn # 0 /\ worker.ok /\ ~ RecordConnectFailure(tp, worker)
  <2> DEFINE l == Life!RecordConnectSucceeded(tp.life, tp.conn).life
  <2>1. /\ tp.life \in Life!Lifecycle(Generations) /\ tp.conn \in Generations
        /\ tp.life.gen = tp.conn /\ Life!AwaitsOutcome(tp.life)
    BY <1>2, <1>3, <1>6, TpFields
    DEF ConnectionSound, LiveConnection, Life!AwaitsOutcome
  <2>2. Life!RecordConnectSucceeded(tp.life, tp.conn).ok BY <2>1, ConnectSucceededLife
  <2>3. /\ tp' = [tp EXCEPT !.recv = TRUE, !.life = l]
        /\ worker' = ToPublish(worker, "Connected", tp.conn)
    BY <1>6, <2>2 DEF ConnectOutcome, ToPublish
  <2> HIDE DEF l
  <2>4. SameEnd(tp, tp') BY <1>2, <2>3 DEF SameEnd, TransportState
  <2>5. worker'.pc = "Publish" /\ worker'.inDrain = worker.inDrain
        /\ worker'.status = worker.status
    BY <1>2, <2>3 DEF ToPublish, WorkerStates
  <2>6. Onward(worker, worker') BY <2>5, GotoOnward
  <2> QED BY <1>1, <1>2, <2>4, <2>6, HandlerTurn
<1>7. \/ tp.disconnecting \/ (~ tp.disconnecting /\ ~ worker.ok)
      \/ (~ tp.disconnecting /\ worker.ok /\ tp.conn = 0)
      \/ (~ tp.disconnecting /\ worker.ok /\ tp.conn # 0)
  OBVIOUS
<1> QED BY <1>4, <1>5, <1>6, <1>7 DEF ConnectOutcome

----------------------------------------
\* A command is taken from its slot.
LEMMA CommandTaken ==
  ASSUME IInv, NEW kind \in CommandKinds, TryConsume(kind)
  PROVE  /\ worker.pc = "Scan" /\ worker \in WorkerStates /\ tp \in TransportState
         /\ ~ Lost(worker) /\ ConnectionSound(tp, worker)
         /\ \A k \in CommandKinds : slots'[k] \in {slots[k], EmptySlot}
         /\ \A k \in CommandKinds : k # kind => slots'[k] = slots[k]
         /\ slots'[kind] = EmptySlot
         /\ tp.disconnecting => tp.conn # 0
<1>1. worker.pc = "Scan" BY DEF TryConsume, Scanned, WorkerAt
<1>2. /\ worker \in WorkerStates /\ tp \in TransportState /\ ~ Lost(worker)
      /\ ConnectionSound(tp, worker) /\ SlotsPart
      /\ tp.disconnecting => tp.conn # 0
  BY <1>1, AtWork, HandlerStart
<1>3. slots' = [slots EXCEPT ![kind] = EmptySlot] BY DEF TryConsume
<1> QED BY <1>1, <1>2, <1>3 DEF SlotsPart

LEMMA HandleConnectTurn == ASSUME IInv, HandleConnect PROVE Turn
<1> DEFINE l == Life!BeginConnect(tp.life).life
           t == [tp EXCEPT !.life = l]
<1>1. TryConsume("Connect") /\ "Connect" \in CommandKinds /\ "Shutdown" \in CommandKinds
  BY KindsAre DEF HandleConnect
<1>2. /\ worker.pc = "Scan" /\ worker \in WorkerStates /\ tp \in TransportState
      /\ ~ Lost(worker) /\ ConnectionSound(tp, worker)
      /\ \A k \in CommandKinds : slots'[k] \in {slots[k], EmptySlot}
      /\ slots'["Shutdown"] = slots["Shutdown"]
  BY <1>1, CommandTaken
<1>3. UNCHANGED <<chan, gate, port, store, caller>> BY DEF HandleConnect
<1>4. CASE \/ slots["Connect"] # tp.life.gen + 1 \/ ~ Life!BeginConnect(tp.life).ok
           \/ tp.conn # 0
  <2>1. worker' = ReturnFailed(worker, "Connect") /\ tp' = tp BY <1>4 DEF HandleConnect
  <2>2. Onward(worker, worker') BY <1>2, <2>1, ReturnFailedOnward, Sites
  <2>3. Settles BY <1>2, <1>3, <2>1, SettlesSame
  <2> QED BY <1>2, <1>3, <2>2, <2>3 DEF Turn, Round
<1>5. CASE /\ slots["Connect"] = tp.life.gen + 1 /\ Life!BeginConnect(tp.life).ok
           /\ tp.conn = 0
  <2>1. /\ l \in Life!Lifecycle(Generations) /\ l.gen \in Generations /\ l.gen # 0
        /\ Life!AwaitsOutcome(l)
    <3>1. tp.life \in Life!Lifecycle(Generations) /\ tp.life.gen \in Generations
          /\ slots["Connect"] \in Generations
      BY <1>1, <1>2, TpFields, LifeFields, ConsumedSlot DEF IInv
    <3>2. tp.life.gen + 1 \in Generations /\ tp.life.gen + 1 # 0 BY <1>5, <3>1 DEF Generations
    <3> QED BY <1>5, <3>1, <3>2, BeginConnectLife DEF Life!AwaitsOutcome
  <2>2. \/ /\ tp' = [t EXCEPT !.conn = t.life.gen, !.connectIo = TRUE]
           /\ worker' = ReturnOk(worker)
        \/ RecordConnectFailure(t, worker)
    BY <1>5 DEF HandleConnect
  <2> HIDE DEF l
  <2>3. /\ t \in TransportState /\ t.life = l /\ t.conn = 0
        /\ t.shutdown = tp.shutdown /\ t.stopPosted = tp.stopPosted
    BY <1>2, <1>5, <2>1 DEF TransportState
  <2> HIDE DEF t
  <2>4. CASE /\ tp' = [t EXCEPT !.conn = t.life.gen, !.connectIo = TRUE]
             /\ worker' = ReturnOk(worker)
    <3>1. /\ tp'.conn # 0 /\ tp'.shutdown = tp.shutdown /\ tp'.stopPosted = tp.stopPosted
      BY <2>1, <2>3, <2>4 DEF TransportState
    <3>2. Onward(worker, worker') BY <1>2, <2>4, ReturnOkOnward
    <3>3. Settles BY <1>2, <1>3, <3>1, SettlesSame
    <3> QED BY <1>2, <1>3, <3>2, <3>3 DEF Turn, Round
  <2>5. CASE RecordConnectFailure(t, worker)
    <3>1. /\ tp'.conn = 0 /\ tp'.shutdown = t.shutdown /\ tp'.stopPosted = t.stopPosted
          /\ Onward(worker, worker')
      BY <1>2, <2>1, <2>3, <2>5, RecordConnectFailureEnds
    <3>2. Settles BY <1>2, <1>3, <1>5, <2>3, <3>1, SettlesSame
    <3> QED BY <1>2, <1>3, <3>1, <3>2 DEF Turn, Round
  <2> QED BY <2>2, <2>4, <2>5
<1> QED BY <1>4, <1>5

LEMMA HandleDisconnectTurn == ASSUME IInv, HandleDisconnect PROVE Turn
<1> DEFINE over == tp.conn = 0 /\ tp.life.state = "Idle"
<1>1. TryConsume("Disconnect") /\ "Disconnect" \in CommandKinds /\ "Shutdown" \in CommandKinds
  BY KindsAre DEF HandleDisconnect
<1>2. /\ worker.pc = "Scan" /\ worker \in WorkerStates /\ tp \in TransportState
      /\ ~ Lost(worker) /\ ConnectionSound(tp, worker)
      /\ \A k \in CommandKinds : slots'[k] \in {slots[k], EmptySlot}
      /\ slots'["Shutdown"] = slots["Shutdown"]
  BY <1>1, CommandTaken
<1>3. UNCHANGED <<chan, gate, port, store, caller>> BY DEF HandleDisconnect
<1>4. \/ worker' = ReturnOk(worker) /\ tp' = tp
      \/ /\ tp' = tp
         /\ worker' = [worker EXCEPT !.pc = "RecordDisconnected",
                                     !.event = Event("None", tp.life.gen)]
      \/ worker' = ReturnFailed(worker, "DisconnectAfterShutdown") /\ tp' = tp
      \/ tp.conn # 0 /\ BeginDisconnect(tp, worker, 0)
  <2> DEFINE dropped == \/ slots["Disconnect"] # tp.life.gen
                        \/ over /\ chan.state = "Idle"
                        \/ ~over /\ tp.disconnecting
             records == /\ slots["Disconnect"] = tp.life.gen /\ over
                        /\ chan.state # "Idle"
             begins == slots["Disconnect"] = tp.life.gen /\ ~over /\ ~tp.disconnecting
  <2>1. dropped \/ records \/ begins OBVIOUS
  <2>2. ~ (dropped /\ records) /\ ~ (dropped /\ begins) /\ ~ (records /\ begins) OBVIOUS
  <2>3. CASE records BY <2>2, <2>3 DEF HandleDisconnect
  <2>4. CASE begins BY <2>2, <2>4 DEF HandleDisconnect
  <2>5. CASE dropped BY <2>2, <2>5 DEF HandleDisconnect
  <2> QED BY <2>1, <2>3, <2>4, <2>5
<1>5. SameEnd(tp, tp') /\ Onward(worker, worker')
  <2>1. CASE worker' = ReturnOk(worker) /\ tp' = tp BY <1>2, <2>1, ReturnOkOnward DEF SameEnd
  <2>2. CASE /\ tp' = tp
             /\ worker' = [worker EXCEPT !.pc = "RecordDisconnected",
                                         !.event = Event("None", tp.life.gen)]
    <3> DEFINE e == Event("None", tp.life.gen)
    <3>1. worker' = [worker EXCEPT !.pc = "RecordDisconnected", !.event = e] BY <2>2
    <3> HIDE DEF e
    <3>2. /\ worker'.pc = "RecordDisconnected" /\ worker'.inDrain = worker.inDrain
          /\ worker'.status = worker.status
      BY <1>2, <3>1 DEF WorkerStates
    <3> QED BY <2>2, <3>2, GotoOnward DEF SameEnd
  <2>3. CASE worker' = ReturnFailed(worker, "DisconnectAfterShutdown") /\ tp' = tp
    BY <1>2, <2>3, ReturnFailedOnward, Sites DEF SameEnd
  <2>4. CASE tp.conn # 0 /\ BeginDisconnect(tp, worker, 0)
    BY <1>2, <2>4, LiveState, BeginDisconnectEnds
  <2> QED BY <1>4, <2>1, <2>2, <2>3, <2>4
<1>6. Settles BY <1>2, <1>3, <1>5, SettlesSame DEF SameEnd
<1> QED BY <1>2, <1>3, <1>5, <1>6 DEF Turn, Round

LEMMA HandleShutdownTurn == ASSUME IInv, HandleShutdown PROVE Turn
<1>1. TryConsume("Shutdown") /\ "Shutdown" \in CommandKinds BY KindsAre DEF HandleShutdown
<1>2. /\ worker.pc = "Scan" /\ worker \in WorkerStates /\ tp \in TransportState
      /\ ~ Lost(worker) /\ ConnectionSound(tp, worker)
      /\ \A k \in CommandKinds : slots'[k] \in {slots[k], EmptySlot}
  BY <1>1, CommandTaken
<1>3. UNCHANGED <<chan, gate, store, caller>> BY DEF HandleShutdown
<1>4. Onward(worker, ReturnOk(worker)) BY <1>2, ReturnOkOnward
<1>5. CASE tp.shutdown
  <2>1. worker' = ReturnOk(worker) /\ UNCHANGED <<tp, port>> BY <1>5 DEF HandleShutdown
  <2>2. Settles BY <1>5, <2>1 DEF Settles
  <2> QED BY <1>2, <1>3, <1>4, <2>1, <2>2 DEF Turn, Round
<1>6. CASE ~ tp.shutdown /\ tp.conn = 0
  <2> DEFINE t == [tp EXCEPT !.shutdown = TRUE]
             next == ReturnOk(worker)
  <2>1. CompleteShutdown(t, next) BY <1>6 DEF HandleShutdown
  <2>2. t \in TransportState /\ t.shutdown /\ t.stopPosted = tp.stopPosted
    BY <1>2 DEF TransportState
  <2>3. Onward(worker, next) BY <1>4
  <2> HIDE DEF t, next
  <2> QED BY <1>2, <1>3, <2>1, <2>2, <2>3, ShutdownTurn
<1>7. CASE ~ tp.shutdown /\ tp.conn # 0
  <2>1. /\ tp' = [tp EXCEPT !.shutdown = TRUE, !.disconnecting = TRUE, !.closed = TRUE]
        /\ worker' = Goto(worker, "Finish") /\ UNCHANGED port
    BY <1>7 DEF HandleShutdown
  <2>2. tp'.shutdown /\ tp'.conn # 0 /\ tp'.stopPosted = tp.stopPosted
    BY <1>2, <1>7, <2>1 DEF TransportState
  <2>3. "Finish" \in WorkerPcs BY PcsTyped
  <2>4. worker'.pc = "Finish" /\ worker'.inDrain = worker.inDrain
        /\ worker'.status = worker.status
    BY <1>2, <2>1, <2>3, GotoShape
  <2>5. Onward(worker, worker') BY <2>4, GotoOnward
  <2>6. Settles BY <2>1, <2>2 DEF Settles
  <2> QED BY <1>2, <1>3, <2>1, <2>5, <2>6 DEF Turn, Round
<1> QED BY <1>5, <1>6, <1>7

----------------------------------------
\* The steps of the worker that are no turn.
\* In a drain, or before it, the gate says that one is under way or to come.
LEMMA DrainUnderWay ==
  ASSUME IInv, Draining(worker)
  PROVE  gate.phase = "Draining" /\ "Commands" \notin Kinds(port)
  BY DEF IInv, GatePart, GateFits

\* The signal that a place is free is always expected.
LEMMA HandleEventSpaceAvailablePromises ==
  ASSUME IInv, Promises, HandleEventSpaceAvailable PROVE Promises'
<1>1. TryConsume("EventSpace") /\ {"EventSpace", "Shutdown"} \subseteq CommandKinds
  BY KindsAre DEF HandleEventSpaceAvailable
<1>2. /\ worker.pc = "Scan" /\ worker \in WorkerStates /\ ~ Lost(worker) /\ Draining(worker)
      /\ \A k \in CommandKinds : slots'[k] \in {slots[k], EmptySlot}
      /\ slots'["Shutdown"] = slots["Shutdown"] /\ slots'["EventSpace"] = EmptySlot
      /\ slots["EventSpace"] # EmptySlot
  BY <1>1, CommandTaken
  DEF TryConsume, Draining, IInv, TransportPart, WorkerFits, WorkerLocal
<1>3. ~ NoDrainToCome BY <1>2, DrainUnderWay DEF NoDrainToCome
<1>4. SpaceKnown /\ store.wake BY <1>2, <1>3 DEF Promises, WakePart, SpaceKnown
<1>5. /\ worker' = Goto(worker, "Promote")
      /\ UNCHANGED <<chan, gate, port, tp, caller>>
  BY <1>4 DEF HandleEventSpaceAvailable
<1>6. "Promote" \in WorkerPcs BY PcsTyped
<1>7. worker'.pc = "Promote" /\ worker'.inDrain = worker.inDrain
      /\ worker'.status = worker.status
  BY <1>2, <1>5, <1>6, GotoShape
<1>8. Onward(worker, worker') BY <1>7, GotoOnward
<1>9. Settles BY <1>2, <1>5, SettlesSame
<1>10. CommandsPart' /\ ShutdownPart' /\ StartPart'
  BY <1>2, <1>5, <1>8, <1>9, RoundKeeps DEF Round
<1>11. SpaceKnown' BY <1>2, <1>4, <1>5 DEF SpaceKnown, SignalsSpace
<1>12. WakePart' BY <1>7, <1>11 DEF Promises, WakePart
<1> QED BY <1>10, <1>12 DEF Promises

LEMMA ScanEmptyPromises == ASSUME IInv, Promises, ScanEmpty PROVE Promises'
<1>1. /\ worker.pc = "Scan" /\ slots[SlotOrder[worker.scan]] = EmptySlot
      /\ UNCHANGED <<chan, gate, slots, port, tp, store, caller>>
  BY DEF ScanEmpty, WorkerAt, shared
<1>2. worker \in WorkerStates /\ ~ Lost(worker) /\ worker.scan \in 1 .. 4
  BY <1>1, AtWork DEF IInv, TransportPart, WorkerFits, WorkerLocal, WorkerStates
<1>3. Len(SlotOrder) = 4 BY DEF SlotOrder
<1>4. \/ worker' = Goto(worker, "ConsumeSend") /\ worker.scan = 4
      \/ worker' = [worker EXCEPT !.scan = worker.scan + 1]
  BY <1>3 DEF ScanEmpty
<1>5. /\ worker'.inDrain = worker.inDrain /\ worker'.status = worker.status
      /\ \/ worker'.pc = "ConsumeSend" /\ worker.scan = 4
         \/ worker'.pc = "Scan" /\ worker'.scan = worker.scan + 1
  <2>1. CASE worker' = Goto(worker, "ConsumeSend") /\ worker.scan = 4
    <3>1. "ConsumeSend" \in WorkerPcs BY PcsTyped
    <3> QED BY <1>2, <2>1, <3>1, GotoShape
  <2>2. CASE worker' = [worker EXCEPT !.scan = worker.scan + 1]
    BY <1>1, <1>2, <2>2 DEF WorkerStates
  <2> QED BY <1>4, <2>1, <2>2
<1>6. CommandsPart'
  <2> SUFFICES ASSUME ~ Lost(worker'), ~ chan'.wakeFailure, NEW i \in 1 .. 4,
                      slots'[SlotOrder[i]] # EmptySlot
               PROVE  Promised' \/ gate'.phase = "Scheduled" \/ StillToScan(worker', i)
    BY DEF CommandsPart
  <2>1. slots[SlotOrder[i]] # EmptySlot /\ i # worker.scan BY <1>1
  <2>2. Promised \/ gate.phase = "Scheduled" \/ StillToScan(worker, i)
    BY <1>1, <1>2, <2>1 DEF Promises, CommandsPart
  <2>3. CASE StillToScan(worker, i)
    <3>1. worker.inDrain /\ worker.scan <= i BY <1>1, <2>3 DEF StillToScan
    <3>2. worker'.pc = "Scan" /\ worker'.scan <= i BY <1>2, <1>5, <2>1, <3>1
    <3> QED BY <1>5, <3>1, <3>2 DEF StillToScan
  <2> QED BY <1>1, <2>2, <2>3 DEF Promised
<1>7. WakePart' BY <1>1, <1>5 DEF Promises, WakePart, NoDrainToCome, SpaceKnown, SignalsSpace
<1>8. ShutdownPart' BY <1>1, <1>2 DEF Promises, ShutdownPart, Calling
<1>9. StartPart' BY <1>5 DEF StartPart
<1> QED BY <1>6, <1>7, <1>8, <1>9 DEF Promises

\* A drain looks at every slot.
LEMMA PumpCommandsPromises == ASSUME IInv, Promises, PumpCommands PROVE Promises'
<1>1. Pump("Commands") /\ UNCHANGED <<chan, slots, tp, store, caller>> BY DEF PumpCommands
<1>2. /\ worker.pc = "Pump" /\ worker \in WorkerStates /\ ~ Lost(worker)
      /\ worker.status = "Ok"
      /\ Kinds(port') = Kinds(port) \ {"Commands"} /\ "Commands" \in Kinds(port)
  BY <1>1, PumpTakes
<1>3. gate.phase = "Scheduled" BY <1>2 DEF IInv, GatePart, GateFits
<1>4. worker' = [worker EXCEPT !.pc = "Scan", !.scan = 1, !.inDrain = TRUE]
  BY <1>3 DEF PumpCommands, Gate!CanBeginDrain
<1>5. /\ worker'.pc = "Scan" /\ worker'.scan = 1 /\ worker'.inDrain
      /\ worker'.status = worker.status
  BY <1>2, <1>4 DEF WorkerStates
<1>6. CommandsPart' BY <1>5 DEF CommandsPart, StillToScan
<1>7. SpaceKnown BY <1>2 DEF Promises, WakePart, NoDrainToCome
<1>8. WakePart' BY <1>1, <1>2, <1>5, <1>7 DEF WakePart, SpaceKnown, SignalsSpace
<1>9. ShutdownPart' BY <1>1, <1>2 DEF Promises, ShutdownPart, Calling
<1>10. StartPart' BY <1>5 DEF StartPart
<1> QED BY <1>6, <1>8, <1>9, <1>10 DEF Promises

LEMMA WorkerExitsPromises == ASSUME IInv, Promises, WorkerExits PROVE Promises'
<1>1. /\ worker.pc = "Exit"
      /\ UNCHANGED <<chan, gate, slots, port, tp, store, caller>>
      /\ worker' = [IdleWorker EXCEPT !.pc = "Stopped", !.status = worker.status]
  BY DEF WorkerExits, WorkerAt, shared
<1>2. worker'.pc = "Stopped" /\ worker'.status = worker.status BY <1>1 DEF IdleWorker
<1>3. Lost(worker') BY <1>2 DEF Lost, Failing
<1>4. CommandsPart' BY <1>3 DEF CommandsPart
<1>5. WakePart' BY <1>2 DEF Promises, WakePart, NoDrainToCome
<1>6. ShutdownPart' BY <1>1, <1>3 DEF Promises, ShutdownPart, Calling
<1>7. StartPart' BY <1>2 DEF StartPart
<1> QED BY <1>4, <1>5, <1>6, <1>7 DEF Promises

LEMMA KernelCompletesPromises == ASSUME IInv, Promises, KernelCompletes PROVE Promises'
<1>1. UNCHANGED <<chan, gate, slots, tp, store, caller, worker>> BY DEF KernelCompletes
<1>2. PICK o \in kernel : \E outcome \in OutcomesOf(o.op) :
        port' = Append(port, Completion(o.op, o.gen, outcome))
  BY DEF KernelCompletes
<1>3. port \in Seq(Packets) /\ o.op \in IoOps BY DEF IInv, OpsPart, Operations
<1>4. Kinds(port') = Kinds(port) \cup {o.op}
  <2>1. PICK outcome \in OutcomesOf(o.op) :
          port' = Append(port, Completion(o.op, o.gen, outcome))
    BY <1>2
  <2> DEFINE e == Completion(o.op, o.gen, outcome)
  <2>2. e.kind = o.op BY DEF Completion
  <2>3. port' = Append(port, e) BY <2>1
  <2> HIDE DEF e
  <2> QED BY <1>3, <2>2, <2>3, LenProperties, AppendProperties DEF Kinds
<1>5. \A kind \in {"Stop", "Commands"} : kind \in Kinds(port') <=> kind \in Kinds(port)
  BY <1>3, <1>4 DEF IoOps
<1>6. CommandsPart' BY <1>1 DEF Promises, CommandsPart, Promised
<1>7. WakePart' BY <1>1, <1>5 DEF Promises, WakePart, NoDrainToCome, SpaceKnown, SignalsSpace
<1>8. ShutdownPart' /\ StartPart' BY <1>1, <1>5 DEF Promises, ShutdownPart, Calling, StartPart
<1> QED BY <1>6, <1>7, <1>8 DEF Promises

LEMMA StutterPromises == ASSUME Promises, UNCHANGED vars PROVE Promises'
<1>1. UNCHANGED <<chan, gate, slots, port, tp, store, caller, worker>> BY DEF vars
<1> QED
  BY <1>1 DEF Promises, CommandsPart, Promised, WakePart, NoDrainToCome, SpaceKnown,
              SignalsSpace, ShutdownPart, Calling, StartPart

\* A drain that ends early has the actor drained again.
LEMMA CompleteDrainPromises == ASSUME IInv, Promises, CompleteDrain PROVE Promises'
<1> DEFINE failed == worker.status # "Ok"
           again == NeedsReschedule(worker)
           done == Gate!CompleteDrain(gate, again)
           wakes == done.directive = "EnqueueReadyToken"
<1>1. /\ worker.pc = "CompleteDrain" /\ worker \in WorkerStates /\ worker.inDrain
      /\ gate \in Gate!GateWord /\ chan \in ChannelState /\ port \in Seq(Packets)
  BY DEF CompleteDrain, WorkerAt, IInv, TransportPart, WorkerFits, WorkerLocal, GatePart,
         ChannelPart, OpsPart
<1>2. gate.phase = "Draining" /\ "Commands" \notin Kinds(port) BY <1>1, DrainUnderWay DEF Draining
<1>3. again \in BOOLEAN BY DEF NeedsReschedule
<1>4. DrainOver(gate, again, done.word, wakes) BY <1>1, <1>2, <1>3, DrainDone
<1>5. /\ gate' = done.word
      /\ \/ /\ port' = IF wakes THEN Append(port, Control("Commands")) ELSE port
            /\ worker' = IF failed THEN Goto(worker, "Exit") ELSE IdleWorker
            /\ chan' = chan
         \/ /\ chan' = RecordWakeFailure(chan)
            /\ worker' = [worker EXCEPT !.pc = "Exit",
                                        !.status = IF failed THEN @ ELSE "Post"]
            /\ port' = port
      /\ UNCHANGED <<slots, tp, store, caller>>
  BY DEF CompleteDrain
<1>6. again <=> ~ failed /\ worker.drained = DrainBudget BY DEF NeedsReschedule
<1>7. failed <=> Lost(worker) BY <1>1 DEF Lost, Failing
<1> HIDE DEF again, done, wakes, failed
<1>8. /\ worker'.pc \in {"Exit", "Pump"}
      /\ worker'.pc = "Pump" => ~ failed /\ chan' = chan
      /\ worker'.status \in {worker.status, "Ok", "Post"}
  <2>1. CASE worker' = IF failed THEN Goto(worker, "Exit") ELSE IdleWorker
    <3>1. "Exit" \in WorkerPcs BY PcsTyped
    <3>2. CASE failed
      <4>1. worker' = Goto(worker, "Exit") BY <2>1, <3>2
      <4> QED BY <1>1, <3>1, <4>1, GotoShape
    <3>3. CASE ~ failed
      <4>1. worker' = IdleWorker BY <2>1, <3>3
      <4>2. worker'.pc = "Pump" /\ worker'.status = "Ok" BY <4>1, IdleWorkerShape
      <4>3. chan' = chan
        <5>1. CASE chan' = RecordWakeFailure(chan) /\ worker'.pc = "Exit" BY <4>2, <5>1
        <5>2. worker' = [worker EXCEPT !.pc = "Exit",
                                        !.status = IF failed THEN @ ELSE "Post"]
              => worker'.pc = "Exit"
          BY <1>1 DEF WorkerStates
        <5> QED BY <1>5, <5>1, <5>2
      <4> QED BY <3>3, <4>2, <4>3
    <3> QED BY <3>2, <3>3
  <2>2. CASE worker' = [worker EXCEPT !.pc = "Exit",
                                      !.status = IF failed THEN @ ELSE "Post"]
    BY <1>1, <2>2 DEF WorkerStates
  <2> QED BY <1>5, <2>1, <2>2
<1>9. /\ chan' = chan \/ chan'.wakeFailure
      /\ chan.wakeFailure => chan'.wakeFailure
  BY <1>1, <1>5, WakeFailureShape
<1>10. "Stop" \in Kinds(port) => "Stop" \in Kinds(port')
  <2>1. CASE port' = Append(port, Control("Commands"))
    BY <1>1, <2>1, LenProperties, AppendProperties DEF Kinds
  <2>2. port' = port \/ port' = Append(port, Control("Commands")) BY <1>5
  <2> QED BY <2>1, <2>2
<1>11. CommandsPart'
  <2> SUFFICES ASSUME ~ Lost(worker'), ~ chan'.wakeFailure, NEW i \in 1 .. 4,
                      slots'[SlotOrder[i]] # EmptySlot
               PROVE  Promised' \/ gate'.phase = "Scheduled" \/ StillToScan(worker', i)
    BY DEF CommandsPart
  <2>1. ~ failed /\ chan' = chan /\ ~ Lost(worker) BY <1>7, <1>8 DEF Lost, Failing
  <2>2. Promised \/ StillToScan(worker, i) BY <1>2, <1>5, <2>1 DEF Promises, CommandsPart
  <2>3. gate.pending \/ gate.resched \/ again \/ (caller.pc = "Commit" /\ caller.accepted)
    BY <1>1, <1>6, <2>1, <2>2 DEF Promised, StillToScan
  <2>4. gate.pending \/ gate.resched \/ again
        => gate'.pending \/ gate'.resched \/ gate'.phase = "Scheduled"
    BY <1>4, <1>5 DEF DrainOver
  <2> QED BY <1>5, <2>3, <2>4 DEF Promised
<1>12. WakePart'
  <2>1. SpaceKnown BY <1>1, <1>2 DEF Promises, WakePart, NoDrainToCome
  <2>2. SpaceKnown' BY <1>5, <2>1 DEF SpaceKnown, SignalsSpace
  <2> QED BY <1>8, <2>2 DEF Promises, WakePart
<1>13. ShutdownPart'
  <2>1. Lost(worker) => Lost(worker') BY <1>7, <1>8 DEF Lost, Failing
  <2> QED BY <1>5, <1>9, <1>10, <2>1 DEF Promises, ShutdownPart, Calling
<1>14. StartPart' BY <1>8 DEF StartPart
<1> QED BY <1>11, <1>12, <1>13, <1>14 DEF Promises

LEMMA WorkerTurns ==
  ASSUME IInv, Promises, WorkerNext
  PROVE  Turn \/ PumpCommands \/ ScanEmpty \/ HandleEventSpaceAvailable \/ CompleteDrain
         \/ WorkerExits
<1>1. CASE PumpStop \/ HandleConnect \/ HandleDisconnect \/ HandleShutdown \/ DrainEmpty
           \/ TryConsumeNextSend \/ PumpConnect \/ ConnectShutdown \/ ConnectOutcome
  BY <1>1, PumpStopTurn, HandleConnectTurn, HandleDisconnectTurn,
     HandleShutdownTurn, DrainEmptyTurn, TryConsumeNextSendTurn, PumpConnectTurn,
     ConnectShutdownTurn, ConnectOutcomeTurn
<1>2. CASE PumpRecv \/ PublishPacketReceived \/ PumpSend \/ TryStartNextSend
           \/ TryFinishDisconnect \/ PublishLifecycleEvent \/ PushEvent \/ DeferEvent
  BY <1>2, PumpRecvTurn, PublishPacketReceivedTurn, PumpSendTurn,
     TryStartNextSendTurn, TryFinishDisconnectTurn, PublishLifecycleEventTurn,
     PushEventTurn, DeferEventTurn
<1>3. CASE PromoteOutcome \/ PromoteEnded \/ PromoteDone \/ PromoteFull
           \/ CommitPublished \/ RecordConnectSucceeded \/ OpenSends \/ RecheckConnected
           \/ RecordConnectFailed \/ RecordDisconnected \/ FailedIdle \/ DisconnectedIdle
  BY <1>3, PromoteOutcomeTurn, PromoteEndedTurn, PromoteDoneTurn,
     PromoteFullTurn, CommitPublishedTurn, RecordConnectSucceededTurn, OpenSendsTurn,
     RecheckConnectedTurn, RecordConnectFailedTurn, RecordDisconnectedTurn,
     FailedIdleTurn, DisconnectedIdleTurn
<1> QED BY <1>1, <1>2, <1>3 DEF WorkerNext

LEMMA WorkerNextPromises == ASSUME IInv, Promises, WorkerNext PROVE Promises'
  BY WorkerTurns, TurnKeeps, PumpCommandsPromises, ScanEmptyPromises,
     HandleEventSpaceAvailablePromises, CompleteDrainPromises, WorkerExitsPromises

----------------------------------------
\* The steps of the calling thread.
\* What a caller's step that leaves the gate, the slots and the port alone owes.
LEMMA QuietCall ==
  ASSUME IInv, Promises, UNCHANGED <<gate, slots, port, tp, worker>>, caller.pc # "Commit",
         chan'.wakeFailure = chan.wakeFailure,
         SpaceKnown => SpaceKnown' \/ NoDrainToCome,
         chan'.state = "Shutdown" =>
            chan'.wakeFailure \/ Calling("Shutdown")' \/ caller'.pc \in {"Join", "Closed"},
         caller'.pc = "Join" => chan.wakeFailure \/ caller.pc = "Join",
         caller'.pc # "Commit"
  PROVE  Promises'
<1>1. CommandsPart' BY DEF Promises, CommandsPart, Promised
<1>2. NoDrainToCome => NoDrainToCome' BY DEF NoDrainToCome
<1>3. WakePart' BY <1>2 DEF Promises, WakePart
<1>4. ShutdownPart' BY DEF Promises, ShutdownPart
<1>5. StartPart' BY DEF Promises, StartPart
<1> QED BY <1>1, <1>3, <1>4, <1>5 DEF Promises

\* A shutdown that is recorded in the channel is the caller's, or a failed wake.
LEMMA WhoseShutdown ==
  ASSUME Promises, caller.pc \notin {"Join", "Closed"}, chan.state = "Shutdown",
         caller.kind # "Shutdown" \/ caller.pc \notin {"CloseSends", "Admit", "Publish", "Commit"}
  PROVE  chan.wakeFailure
  BY DEF Promises, ShutdownPart, Calling

LEMMA CallerTyped ==
  ASSUME IInv
  PROVE  /\ chan \in ChannelState /\ caller \in CallerStates /\ store \in EventStore
         /\ CallerFits(caller, chan.gen)
  BY DEF IInv, ChannelPart, CallerPart, StorePart

LEMMA SubmitConnectPromises == ASSUME IInv, Promises, SubmitConnect PROVE Promises'
<1>1. /\ caller.pc = "Idle" /\ chan' = [chan EXCEPT !.state = "Connecting"]
      /\ caller' = [caller EXCEPT !.pc = "Generation", !.kind = "Connect"]
      /\ UNCHANGED <<gate, slots, port, tp, store, worker>>
  BY DEF SubmitConnect, CallerAt
<1>2. /\ caller'.pc = "Generation" /\ chan'.state = "Connecting"
      /\ chan'.wakeFailure = chan.wakeFailure
  BY <1>1, CallerTyped DEF CallerStates, ChannelState
<1>3. SpaceKnown => SpaceKnown' BY <1>1, <1>2 DEF SpaceKnown, SignalsSpace
<1> QED BY <1>1, <1>2, <1>3, QuietCall

LEMMA SetGenerationPromises == ASSUME IInv, Promises, SetGeneration PROVE Promises'
<1>1. /\ caller.pc = "Generation" /\ chan' = [chan EXCEPT !.gen = @ + 1]
      /\ caller' = [caller EXCEPT !.pc = "Admit"]
      /\ UNCHANGED <<gate, slots, port, tp, store, worker>>
  BY DEF SetGeneration, CallerAt
<1>2. /\ caller'.pc = "Admit" /\ caller'.kind = "Connect"
      /\ chan'.wakeFailure = chan.wakeFailure /\ chan'.state = chan.state
  BY <1>1, CallerTyped DEF CallerStates, ChannelState, CallerFits
<1>3. SpaceKnown => SpaceKnown' BY <1>1, <1>2 DEF SpaceKnown, SignalsSpace
<1>4. chan'.state = "Shutdown" => chan'.wakeFailure BY <1>1, <1>2, WhoseShutdown
<1> QED BY <1>1, <1>2, <1>3, <1>4, QuietCall

LEMMA SubmitDisconnectPromises == ASSUME IInv, Promises, SubmitDisconnect PROVE Promises'
<1>1. /\ caller.pc = "Idle" /\ chan' = [chan EXCEPT !.state = "Disconnecting"]
      /\ caller' = [caller EXCEPT !.pc = "CloseSends", !.kind = "Disconnect"]
      /\ UNCHANGED <<gate, slots, port, tp, store, worker>>
  BY DEF SubmitDisconnect, CallerAt
<1>2. /\ caller'.pc = "CloseSends" /\ chan'.state = "Disconnecting"
      /\ chan'.wakeFailure = chan.wakeFailure
  BY <1>1, CallerTyped DEF CallerStates, ChannelState
<1>3. SpaceKnown => SpaceKnown' BY <1>1, <1>2 DEF SpaceKnown, SignalsSpace
<1> QED BY <1>1, <1>2, <1>3, QuietCall

LEMMA SubmitShutdownPromises == ASSUME IInv, Promises, SubmitShutdown PROVE Promises'
<1>1. /\ caller.pc = "Idle" /\ UNCHANGED <<gate, slots, port, tp, store, worker>>
      /\ \/ /\ chan.state = "Shutdown" /\ chan' = chan
            /\ caller' = [caller EXCEPT !.pc = "Join"]
         \/ /\ chan' = [chan EXCEPT !.state = "Shutdown"]
            /\ caller' = [caller EXCEPT !.pc = "CloseSends", !.kind = "Shutdown"]
  BY DEF SubmitShutdown, CallerAt
<1>2. /\ chan'.wakeFailure = chan.wakeFailure
      /\ \/ caller'.pc = "Join" /\ chan.wakeFailure
         \/ caller'.pc = "CloseSends" /\ caller'.kind = "Shutdown"
  BY <1>1, CallerTyped, WhoseShutdown DEF CallerStates, ChannelState
<1>3. SpaceKnown => SpaceKnown' BY <1>1, <1>2 DEF SpaceKnown, SignalsSpace
<1>4. caller'.pc # "Commit" /\ (Calling("Shutdown")' \/ caller'.pc = "Join") BY <1>2 DEF Calling
<1> QED BY <1>1, <1>2, <1>3, <1>4, QuietCall

LEMMA CloseSendsPromises == ASSUME IInv, Promises, CloseSends PROVE Promises'
<1>1. /\ caller.pc = "CloseSends" /\ chan' = [chan EXCEPT !.sendGen = 0]
      /\ caller' = [caller EXCEPT !.pc = "Admit"]
      /\ UNCHANGED <<gate, slots, port, tp, store, worker>>
  BY DEF CloseSends, CallerAt
<1>2. /\ caller'.pc = "Admit" /\ caller'.kind = caller.kind
      /\ caller.kind \in {"Disconnect", "Shutdown"}
      /\ chan'.wakeFailure = chan.wakeFailure /\ chan'.state = chan.state
  BY <1>1, CallerTyped DEF CallerStates, ChannelState, CallerFits
<1>3. SpaceKnown => SpaceKnown' BY <1>1, <1>2 DEF SpaceKnown, SignalsSpace
<1>4. chan'.state = "Shutdown" => chan'.wakeFailure \/ Calling("Shutdown")'
  BY <1>1, <1>2, WhoseShutdown DEF Calling
<1> QED BY <1>1, <1>2, <1>3, <1>4, QuietCall

LEMMA SubmitSendPromises == ASSUME IInv, Promises, SubmitSend PROVE Promises'
<1>1. /\ caller.pc = "Idle" /\ chan' = chan /\ chan.state = "Connected"
      /\ caller' = [caller EXCEPT !.pc = "Admit", !.kind = "Send", !.gen = chan.sendGen]
      /\ UNCHANGED <<gate, slots, port, tp, store, worker>>
  BY DEF SubmitSend, CallerAt
<1>2. caller'.pc = "Admit" /\ caller'.kind = "Send" BY <1>1, CallerTyped DEF CallerStates
<1>3. SpaceKnown => SpaceKnown' BY <1>1, <1>2 DEF SpaceKnown, SignalsSpace
<1> QED BY <1>1, <1>2, <1>3, QuietCall

LEMMA ClearSendGenerationPromises ==
  ASSUME IInv, Promises, ClearSendGeneration PROVE Promises'
<1>1. /\ caller.pc = "ClearSendGen" /\ chan' = [chan EXCEPT !.sendGen = 0]
      /\ caller' = IdleCaller /\ UNCHANGED <<gate, slots, port, tp, store, worker>>
  BY DEF ClearSendGeneration, CallerAt
<1>2. /\ caller'.pc = "Idle" /\ chan'.wakeFailure = chan.wakeFailure
      /\ chan'.state = chan.state
  BY <1>1, CallerTyped, CallerIdles DEF ChannelState
<1>3. SpaceKnown => SpaceKnown' BY <1>1, <1>2 DEF SpaceKnown, SignalsSpace
<1>4. chan'.state = "Shutdown" => chan'.wakeFailure BY <1>1, <1>2, WhoseShutdown
<1> QED BY <1>1, <1>2, <1>3, <1>4, QuietCall

LEMMA TryPopEventPromises == ASSUME IInv, Promises, TryPopEvent PROVE Promises'
<1>1. /\ caller.pc = "Idle" /\ chan' = chan /\ chan.state # "Shutdown"
      /\ caller' = [caller EXCEPT !.pc = "AdvancePos"]
      /\ store' = [store EXCEPT !.queue = Tail(@)]
      /\ UNCHANGED <<gate, slots, port, tp, worker>>
  BY DEF TryPopEvent, CallerAt
<1>2. caller'.pc = "AdvancePos" /\ store'.wake = store.wake
  BY <1>1, CallerTyped DEF CallerStates, EventStore
<1>3. SpaceKnown => SpaceKnown' BY <1>1, <1>2 DEF SpaceKnown, SignalsSpace
<1> QED BY <1>1, <1>2, <1>3, QuietCall

LEMMA AdvanceDequeuePosPromises == ASSUME IInv, Promises, AdvanceDequeuePos PROVE Promises'
<1>1. /\ caller.pc = "AdvancePos" /\ caller' = [caller EXCEPT !.pc = "CheckPending"]
      /\ UNCHANGED <<chan, gate, slots, port, tp, store, worker>>
  BY DEF AdvanceDequeuePos, CallerAt
<1>2. caller'.pc = "CheckPending" BY <1>1, CallerTyped DEF CallerStates
<1>3. SpaceKnown => SpaceKnown' BY <1>1, <1>2 DEF SpaceKnown, SignalsSpace
<1>4. chan'.state = "Shutdown" => chan'.wakeFailure BY <1>1, WhoseShutdown
<1> QED BY <1>1, <1>2, <1>3, <1>4, QuietCall

LEMMA CheckPendingPromises == ASSUME IInv, Promises, CheckPending PROVE Promises'
<1>1. /\ caller.pc = "CheckPending" /\ chan' = chan
      /\ UNCHANGED <<gate, slots, port, tp, worker>>
      /\ \/ /\ ~ store.wake /\ store' = [store EXCEPT !.wake = TRUE]
            /\ caller' = [caller EXCEPT !.pc = "Signal", !.kind = "EventSpace"]
         \/ caller' = IdleCaller /\ store' = store
  BY DEF CheckPending, CallerAt
<1>2. \/ ~ store.wake /\ store'.wake /\ caller'.pc = "Signal"
      \/ caller'.pc = "Idle" /\ store'.wake = store.wake
  BY <1>1, CallerTyped, CallerIdles DEF CallerStates, EventStore
<1>3. SpaceKnown => SpaceKnown' BY <1>1, <1>2 DEF SpaceKnown, SignalsSpace
<1>4. chan'.state = "Shutdown" => chan'.wakeFailure BY <1>1, WhoseShutdown
<1> QED BY <1>1, <1>2, <1>3, <1>4, QuietCall

LEMMA SignalEventSpaceAvailablePromises ==
  ASSUME IInv, Promises, SignalEventSpaceAvailable PROVE Promises'
<1>1. /\ caller.pc = "Signal" /\ chan' = chan
      /\ caller' = [caller EXCEPT !.pc = "ForgetWake"] \/ caller' = [caller EXCEPT !.pc = "Admit"]
      /\ UNCHANGED <<gate, slots, port, tp, store, worker>>
  BY DEF SignalEventSpaceAvailable, CallerAt
<1>2. /\ caller'.pc \in {"ForgetWake", "Admit"} BY <1>1, CallerTyped DEF CallerStates
<1>3. SpaceKnown => SpaceKnown' BY <1>1, <1>2 DEF SpaceKnown, SignalsSpace
<1>4. chan'.state = "Shutdown" => chan'.wakeFailure BY <1>1, WhoseShutdown
<1> QED BY <1>1, <1>2, <1>3, <1>4, QuietCall

\* The caller takes the signal back only when it left no command.
LEMMA ForgetWakePromises == ASSUME IInv, Promises, ForgetWake PROVE Promises'
<1>1. /\ caller.pc = "ForgetWake" /\ chan' = chan /\ caller' = IdleCaller
      /\ UNCHANGED <<gate, slots, port, tp, worker>>
  BY DEF ForgetWake, CallerAt
<1>2. caller'.pc = "Idle" /\ caller'.kind = "None" BY <1>1, CallerIdles
<1>3. SpaceKnown => SpaceKnown' BY <1>1, <1>2 DEF SpaceKnown, SignalsSpace
<1>4. chan'.state = "Shutdown" => chan'.wakeFailure BY <1>1, WhoseShutdown
<1> QED BY <1>1, <1>2, <1>3, <1>4, QuietCall

LEMMA JoinPromises == ASSUME IInv, Promises, Join PROVE Promises'
<1>1. /\ caller.pc \in {"Idle", "Join"} /\ chan' = chan
      /\ worker.pc \in {"Stopped", "Crashed"}
      /\ caller' = [IdleCaller EXCEPT !.pc = "Closed"]
      /\ UNCHANGED <<gate, slots, port, tp, worker>>
  BY DEF Join, CallerAt, IsRunning
<1>2. caller'.pc = "Closed" BY <1>1 DEF IdleCaller
<1>3. NoDrainToCome BY <1>1 DEF NoDrainToCome
<1> QED BY <1>1, <1>2, <1>3, QuietCall

\* An admission is never refused: the one caller has no other under way.
LEMMA TryBeginAdmissionPromises == ASSUME IInv, Promises, TryBeginAdmission PROVE Promises'
<1>1. /\ caller.pc = "Admit" /\ gate \in Gate!GateWord
      /\ GateFits(gate, caller, Draining(worker), "Commands" \in Kinds(port),
                  chan.wakeFailure)
      /\ UNCHANGED <<slots, port, tp, store, worker>>
  BY DEF TryBeginAdmission, CallerAt, IInv, GatePart
<1>2. gate.phase # "Admitting" /\ gate.inFlight = 0 BY <1>1, GateFields DEF GateFits
<1>3. /\ gate' = Gate!TryBeginAdmission(gate) /\ chan' = chan
      /\ caller' = [caller EXCEPT !.pc = "Publish",
                                  !.ticket = Gate!AdmissionDecision(gate)]
  BY <1>2 DEF TryBeginAdmission, Gate!CanBeginAdmission
<1>4. caller'.pc = "Publish" /\ caller'.kind = caller.kind BY <1>3, CallerTyped DEF CallerStates
<1>5. /\ gate.phase # "Idle" => /\ gate'.phase = gate.phase /\ gate'.pending = gate.pending
                                /\ gate'.resched = gate.resched
      /\ gate.phase = "Idle" => ~ gate.pending /\ ~ gate.resched
  BY <1>1, <1>3 DEF Gate!TryBeginAdmission, Gate!GateWord, GateFits
<1>6. CommandsPart'
  <2>1. Promised => Promised' BY <1>1, <1>5 DEF Promised
  <2>2. gate.phase = "Scheduled" => gate'.phase = "Scheduled" BY <1>5
  <2> QED BY <1>1, <1>3, <2>1, <2>2 DEF Promises, CommandsPart
<1>7. WakePart'
  <2>1. NoDrainToCome => NoDrainToCome' BY <1>1, <1>5 DEF NoDrainToCome
  <2>2. SpaceKnown => SpaceKnown' BY <1>1, <1>4 DEF SpaceKnown, SignalsSpace
  <2> QED BY <1>1, <2>1, <2>2 DEF Promises, WakePart
<1>8. ShutdownPart' BY <1>1, <1>3, <1>4 DEF Promises, ShutdownPart, Calling
<1>9. StartPart' BY <1>1 DEF Promises, StartPart
<1> QED BY <1>6, <1>7, <1>8, <1>9 DEF Promises

LEMMA TryPublishPromises == ASSUME IInv, Promises, TryPublish PROVE Promises'
<1> DEFINE free == slots[caller.kind] = EmptySlot
<1>1. /\ caller.pc = "Publish" /\ caller.kind # "Send" /\ SlotsPart
      /\ slots' = IF ~ free THEN slots
                  ELSE [slots EXCEPT ![caller.kind] = CommandGeneration(caller.kind)]
      /\ caller' = [caller EXCEPT !.pc = "Commit", !.accepted = free]
      /\ UNCHANGED <<chan, gate, port, tp, store, worker>>
  BY DEF TryPublish, CallerAt, IInv
<1>2. caller.kind \in CommandKinds /\ caller.kind # "None"
  BY <1>1, CallerTyped DEF CallerStates, CallerFits
<1>3. CommandGeneration(caller.kind) # EmptySlot
  <2>1. CommandGeneration(caller.kind) \in Generations
    BY CallerTyped, ChannelFields, ZeroGeneration DEF CommandGeneration
  <2> QED BY <2>1 DEF Generations, EmptySlot
<1> HIDE DEF free
<1>4. /\ caller'.pc = "Commit" /\ caller'.kind = caller.kind /\ caller'.accepted = free
  BY <1>1, CallerTyped DEF CallerStates
<1>5. /\ \A k \in CommandKinds : k # caller.kind => slots'[k] = slots[k]
      /\ slots'[caller.kind] # EmptySlot
      /\ ~ free => slots' = slots
      /\ free => slots[caller.kind] = EmptySlot
  <2>1. CASE free BY <1>1, <1>2, <1>3, <2>1 DEF SlotsPart, free
  <2>2. CASE ~ free BY <1>1, <2>2 DEF free
  <2> QED BY <2>1, <2>2
<1>6. CommandsPart'
  <2> SUFFICES ASSUME ~ Lost(worker'), ~ chan'.wakeFailure, NEW i \in 1 .. 4,
                      slots'[SlotOrder[i]] # EmptySlot
               PROVE  Promised' \/ gate'.phase = "Scheduled" \/ StillToScan(worker', i)
    BY DEF CommandsPart
  <2>1. CASE free BY <1>4, <2>1 DEF Promised
  <2>2. CASE ~ free
    <3>1. Promised \/ gate.phase = "Scheduled" \/ StillToScan(worker, i)
      BY <1>1, <1>5, <2>2 DEF Promises, CommandsPart
    <3> QED BY <1>1, <3>1 DEF Promised
  <2> QED BY <2>1, <2>2
<1>7. WakePart'
  <2>1. NoDrainToCome => NoDrainToCome' BY <1>1 DEF NoDrainToCome
  <2>2. SpaceKnown => SpaceKnown' BY <1>1, <1>2, <1>4, <1>5, KindsAre DEF SpaceKnown, SignalsSpace
  <2> QED BY <1>1, <2>1, <2>2 DEF Promises, WakePart
<1>8. ShutdownPart'
  <2>1. slots["Shutdown"] # EmptySlot => slots'["Shutdown"] # EmptySlot BY <1>2, <1>5, KindsAre
  <2> QED BY <1>1, <1>4, <1>5, <2>1 DEF Promises, ShutdownPart, Calling
<1>9. StartPart' BY <1>1 DEF Promises, StartPart
<1> QED BY <1>6, <1>7, <1>8, <1>9 DEF Promises

LEMMA PushSendPromises == ASSUME IInv, Promises, PushSend PROVE Promises'
<1> DEFINE valid == chan.state = "Connected" /\ chan.sendGen = caller.gen
<1>1. /\ caller.pc = "Publish" /\ caller.kind = "Send"
      /\ caller' = [caller EXCEPT !.pc = "Commit", !.accepted = valid]
      /\ UNCHANGED <<chan, gate, slots, port, tp, store, worker>>
  BY DEF PushSend, CallerAt
<1> HIDE DEF valid
<1>2. caller'.pc = "Commit" /\ caller'.kind = "Send" BY <1>1, CallerTyped DEF CallerStates
<1>3. CommandsPart' BY <1>1 DEF Promises, CommandsPart, Promised
<1>4. WakePart' BY <1>1, <1>2 DEF Promises, WakePart, NoDrainToCome, SpaceKnown, SignalsSpace
<1>5. ShutdownPart' /\ StartPart' BY <1>1, <1>2 DEF Promises, ShutdownPart, Calling, StartPart
<1> QED BY <1>3, <1>4, <1>5 DEF Promises

\* Where the caller goes once its command is committed, or was not.
LEMMA AfterCommitPlace ==
  ASSUME caller \in CallerStates, NEW woken \in BOOLEAN
  PROVE  LET c == AfterCommit(caller.kind, caller.accepted, woken) IN
         /\ c.pc \in {"ClearSendGen", "Join", "ForgetWake", "Idle"}
         /\ c.pc = "Join" => caller.kind = "Shutdown" /\ caller.accepted /\ woken
         /\ caller.kind = "Shutdown" /\ caller.accepted /\ woken => c.pc = "Join"
         /\ c.pc = "ForgetWake" => ~ woken
<1> DEFINE c == AfterCommit(caller.kind, caller.accepted, woken)
<1>1. CASE caller.kind = "Connect" /\ caller.accepted /\ woken
  <2>1. c = [caller EXCEPT !.pc = "ClearSendGen"] BY <1>1 DEF AfterCommit
  <2>2. c.pc = "ClearSendGen" BY <2>1 DEF CallerStates
  <2> HIDE DEF c
  <2>3. c.pc \in {"ClearSendGen", "Join", "ForgetWake", "Idle"} /\ c.pc # "Join"
        /\ c.pc # "ForgetWake" /\ caller.kind # "Shutdown"
    BY <1>1, <2>2
  <2> QED BY <2>3 DEF c
<1>2. CASE caller.kind = "Shutdown" /\ caller.accepted /\ woken
  <2>1. c = [caller EXCEPT !.pc = "Join"] BY <1>2 DEF AfterCommit
  <2>2. c.pc = "Join" BY <2>1 DEF CallerStates
  <2> HIDE DEF c
  <2>3. c.pc \in {"ClearSendGen", "Join", "ForgetWake", "Idle"} /\ c.pc # "ForgetWake" BY <2>2
  <2> QED BY <1>2, <2>2, <2>3 DEF c
<1>3. CASE caller.kind = "EventSpace" /\ caller.accepted /\ ~ woken
  <2>1. c = [caller EXCEPT !.pc = "ForgetWake"] BY <1>3 DEF AfterCommit
  <2>2. c.pc = "ForgetWake" BY <2>1 DEF CallerStates
  <2> HIDE DEF c
  <2>3. c.pc \in {"ClearSendGen", "Join", "ForgetWake", "Idle"} /\ c.pc # "Join"
        /\ caller.kind # "Shutdown"
    BY <1>3, <2>2
  <2> QED BY <1>3, <2>3 DEF c
<1>4. CASE /\ ~ (caller.kind = "Connect" /\ caller.accepted /\ woken)
           /\ ~ (caller.kind = "Shutdown" /\ caller.accepted /\ woken)
           /\ ~ (caller.kind = "EventSpace" /\ caller.accepted /\ ~ woken)
  <2>1. c = IdleCaller BY <1>4 DEF AfterCommit
  <2>2. c.pc = "Idle" BY <2>1, CallerIdles
  <2> HIDE DEF c
  <2>3. c.pc \in {"ClearSendGen", "Join", "ForgetWake", "Idle"} /\ c.pc # "Join"
        /\ c.pc # "ForgetWake"
    BY <2>2
  <2> QED BY <1>4, <2>3 DEF c
<1> QED BY <1>1, <1>2, <1>3, <1>4

\* The gate keeps every promise of a drain when the producer leaves it.
LEMMA CompleteAdmissionPromises == ASSUME IInv, Promises, CompleteAdmission PROVE Promises'
<1> DEFINE resolution == IF caller.accepted THEN "MailboxCommitted" ELSE "MailboxRejected"
           done == Gate!CompleteAdmission(gate, caller.ticket, resolution)
           wakes == done.directive = "EnqueueReadyToken"
<1>1. /\ caller.pc = "Commit" /\ caller \in CallerStates /\ chan \in ChannelState
      /\ gate \in Gate!GateWord /\ port \in Seq(Packets) /\ caller.accepted \in BOOLEAN
      /\ GateFits(gate, caller, Draining(worker), "Commands" \in Kinds(port),
                  chan.wakeFailure)
  BY CallerTyped, CallerFields DEF CompleteAdmission, CallerAt, IInv, GatePart, OpsPart
<1>2. /\ gate.inFlight = 1 /\ gate.phase # "Idle" /\ caller.ticket # "Rejected"
      /\ caller.ticket = "RequiresNewPermit" <=> gate.phase = "Admitting"
      /\ gate.phase \in {"Admitting", "Scheduled"} => ~ gate.resched /\ ~ gate.pending
      /\ gate.phase \in {"Admitting", "Scheduled", "Draining", "DrainCompleting"}
  BY <1>1, GateFields DEF GateFits, Gate!Phases
<1>3. AdmissionOver(gate, caller.accepted, done.word, wakes) BY <1>1, <1>2, AdmissionDone
<1>4. /\ gate' = done.word
      /\ \/ /\ port' = IF wakes THEN Append(port, Control("Commands")) ELSE port
            /\ chan' = IF caller.accepted THEN chan
                       ELSE ChannelAfterRefusal(chan, caller.kind)
            /\ caller' = AfterCommit(caller.kind, caller.accepted, TRUE)
         \/ /\ wakes
            /\ chan' = Unwoken(caller.accepted, caller.kind)
            /\ caller' = AfterCommit(caller.kind, caller.accepted, FALSE)
            /\ port' = port
      /\ UNCHANGED <<slots, tp, store, worker>>
  BY DEF CompleteAdmission, Unwoken
<1> HIDE DEF done, resolution, wakes
<1>5. /\ caller'.pc \in {"ClearSendGen", "Join", "ForgetWake", "Idle"}
      /\ caller'.pc = "Join" => caller.kind = "Shutdown" /\ caller.accepted
  BY <1>1, <1>4, AfterCommitPlace
<1>6. chan.wakeFailure => chan'.wakeFailure BY <1>1, <1>4, RefusalShape, UnwokenShape
<1>7. "Stop" \in Kinds(port) => "Stop" \in Kinds(port')
  <2>1. CASE port' = Append(port, Control("Commands"))
    BY <1>1, <2>1, LenProperties, AppendProperties DEF Kinds
  <2>2. port' = port \/ port' = Append(port, Control("Commands")) BY <1>4
  <2> QED BY <2>1, <2>2
<1>8. CommandsPart'
  <2> SUFFICES ASSUME ~ Lost(worker'), ~ chan'.wakeFailure, NEW i \in 1 .. 4,
                      slots'[SlotOrder[i]] # EmptySlot
               PROVE  Promised' \/ gate'.phase = "Scheduled" \/ StillToScan(worker', i)
    BY DEF CommandsPart
  <2>1. Promised \/ gate.phase = "Scheduled" \/ StillToScan(worker, i)
    BY <1>4, <1>6 DEF Promises, CommandsPart
  <2>2. gate.phase = "Scheduled" => gate'.phase = "Scheduled" BY <1>3, <1>4 DEF AdmissionOver
  <2>3. Promised => gate'.pending \/ gate'.resched \/ gate'.phase = "Scheduled"
    BY <1>1, <1>2, <1>3, <1>4 DEF AdmissionOver, Promised
  <2> QED BY <1>4, <2>1, <2>2, <2>3 DEF Promised
<1>9. WakePart'
  <2>1. CASE NoDrainToCome
    <3>1. CASE worker.pc \in {"Exit", "Stopped", "Crashed"}
      BY <1>4, <3>1 DEF Promises, WakePart, NoDrainToCome
    <3>2. CASE gate.phase = "Scheduled" /\ "Commands" \notin Kinds(port)
      <4>1. ~ wakes /\ gate'.phase = "Scheduled" BY <1>3, <1>4, <3>2 DEF AdmissionOver
      <4>2. port' = port BY <1>4, <4>1
      <4> QED BY <1>4, <3>2, <4>1, <4>2 DEF Promises, WakePart, NoDrainToCome
    <3> QED BY <2>1, <3>1, <3>2 DEF NoDrainToCome
  <2>2. CASE SpaceKnown /\ caller'.pc # "ForgetWake"
    <3>1. SpaceKnown' BY <1>4, <1>5, <2>2 DEF SpaceKnown, SignalsSpace
    <3> QED BY <1>4, <3>1 DEF Promises, WakePart
  <2>3. CASE caller'.pc = "ForgetWake"
    <3>1. wakes /\ port' = port BY <1>1, <1>4, <2>3, AfterCommitPlace
    <3>2. gate'.phase = "Scheduled" /\ "Commands" \notin Kinds(port)
      BY <1>1, <1>3, <1>4, <3>1 DEF AdmissionOver, GateFits
    <3> QED BY <1>4, <3>1, <3>2 DEF Promises, WakePart, NoDrainToCome
  <2> QED BY <2>1, <2>2, <2>3 DEF Promises, WakePart
<1>10. chan'.state = "Shutdown" => chan'.wakeFailure \/ caller'.pc = "Join"
  <2>1. CASE chan' = Unwoken(caller.accepted, caller.kind) BY <1>1, <2>1, UnwokenShape
  <2>2. CASE caller.accepted /\ chan' = chan
             /\ caller' = AfterCommit(caller.kind, caller.accepted, TRUE)
    <3>1. caller.kind = "Shutdown" => caller'.pc = "Join" BY <1>1, <2>2, AfterCommitPlace
    <3> QED BY <1>1, <2>2, <3>1, WhoseShutdown
  <2>3. CASE ~ caller.accepted /\ chan' = ChannelAfterRefusal(chan, caller.kind)
    <3>1. CASE caller.kind = "Connect"
      <4>1. chan' = [chan EXCEPT !.state = "Idle"] BY <2>3, <3>1 DEF ChannelAfterRefusal
      <4> QED BY <1>1, <4>1 DEF ChannelState
    <3>2. CASE caller.kind \in {"Disconnect", "Shutdown"}
      <4>1. chan' = RecordWakeFailure(chan) BY <2>3, <3>2 DEF ChannelAfterRefusal
      <4> QED BY <1>1, <4>1, WakeFailureShape
    <3>3. CASE caller.kind \notin {"Connect", "Disconnect", "Shutdown"}
      <4>1. chan' = chan BY <2>3, <3>3 DEF ChannelAfterRefusal
      <4> QED BY <1>1, <3>3, <4>1, WhoseShutdown
    <3> QED BY <3>1, <3>2, <3>3
  <2> QED BY <1>4, <2>1, <2>2, <2>3
<1>11. ShutdownPart'
  <2>1. /\ caller'.pc = "Join"
        => chan.wakeFailure \/ Lost(worker) \/ slots["Shutdown"] # EmptySlot \/ tp.shutdown
    BY <1>1, <1>5 DEF Promises, ShutdownPart
  <2> QED BY <1>4, <1>5, <1>6, <1>7, <1>10, <2>1 DEF Promises, ShutdownPart
<1>12. StartPart' BY <1>4 DEF Promises, StartPart
<1> QED BY <1>8, <1>9, <1>11, <1>12 DEF Promises

LEMMA CallerNextPromises == ASSUME IInv, Promises, CallerNext PROVE Promises'
<1>1. CASE SubmitConnect \/ SetGeneration \/ SubmitDisconnect \/ SubmitShutdown
           \/ CloseSends \/ SubmitSend \/ TryBeginAdmission \/ TryPublish
  BY <1>1, SubmitConnectPromises, SetGenerationPromises, SubmitDisconnectPromises,
     SubmitShutdownPromises, CloseSendsPromises, SubmitSendPromises,
     TryBeginAdmissionPromises, TryPublishPromises
<1>2. CASE PushSend \/ CompleteAdmission \/ ClearSendGeneration \/ TryPopEvent
           \/ AdvanceDequeuePos \/ CheckPending \/ SignalEventSpaceAvailable \/ ForgetWake
           \/ Join
  BY <1>2, PushSendPromises, CompleteAdmissionPromises, ClearSendGenerationPromises,
     TryPopEventPromises, AdvanceDequeuePosPromises, CheckPendingPromises,
     SignalEventSpaceAvailablePromises, ForgetWakePromises, JoinPromises
<1> QED BY <1>1, <1>2 DEF CallerNext

LEMMA NextPromises == ASSUME IInv, Promises, [Next]_vars PROVE Promises'
  BY CallerNextPromises, WorkerNextPromises, KernelCompletesPromises, StutterPromises DEF Next

LEMMA InitPromises == ASSUME Init PROVE Promises
<1>1. /\ worker = IdleWorker /\ caller = IdleCaller /\ port = <<>> /\ chan.state = "Idle"
      /\ slots = [k \in CommandKinds |-> EmptySlot] /\ gate = Gate!InitialWord
      /\ ~ tp.shutdown /\ ~ tp.stopPosted
  BY DEF Init
<1>2. /\ caller.pc = "Idle" /\ caller.kind = "None"
      /\ worker.pc = "Pump" /\ worker.status = "Ok"
  BY <1>1, CallerIdles, IdleWorkerShape
<1>3. \A k \in CommandKinds : slots[k] = EmptySlot BY <1>1
<1>4. CommandsPart BY <1>3, SlotsInOrder DEF CommandsPart
<1>5. WakePart BY <1>2, <1>3, KindsAre DEF WakePart, SpaceKnown, SignalsSpace
<1>6. ShutdownPart /\ StartPart BY <1>1, <1>2 DEF ShutdownPart, StartPart
<1> QED BY <1>4, <1>5, <1>6 DEF Promises

\* The second inductive invariant, on top of the first.
LEMMA PromisesInvariant == Spec => [](IInv /\ Promises)
<1>1. Init => IInv /\ Promises BY InitKeeps, InitPromises
<1>2. IInv /\ Promises /\ [Next]_vars => (IInv /\ Promises)' BY NextKeeps, NextPromises
<1> QED BY <1>1, <1>2, PTL DEF Spec

----------------------------------------
\* What the promises give.
LEMMA CallerLeaves == ASSUME CallerNext PROVE UNCHANGED <<tp, worker>>
  BY DEF CallerNext, SubmitConnect, SetGeneration, SubmitDisconnect, SubmitShutdown, CloseSends,
         SubmitSend, TryBeginAdmission, TryPublish, PushSend, CompleteAdmission,
         ClearSendGeneration, TryPopEvent, AdvanceDequeuePos, CheckPending,
         SignalEventSpaceAvailable, ForgetWake, Join

\* The failed connect that the lifecycle refused is the last thing the worker does.
LEMMA RefusedStep == ASSUME IInv, Promises, RefusedPart, [Next]_vars PROVE RefusedPart'
<1>1. CASE UNCHANGED <<tp, worker>> BY <1>1 DEF RefusedPart
<1>2. CASE Turn BY <1>2 DEF RefusedPart, RefusedConnect, Turn, Round, Onward, Lost
<1>3. CASE PumpCommands \/ ScanEmpty \/ HandleEventSpaceAvailable
  <2>1. tp' = tp /\ worker \in WorkerStates /\ worker.pc \in {"Pump", "Scan"}
    BY <1>3 DEF PumpCommands, ScanEmpty, HandleEventSpaceAvailable, Pump, TryConsume, Scanned,
                WorkerAt, shared, IInv, TransportPart
  <2>2. worker'.status \in {worker.status, "EventSpace"}
    BY <1>3, <2>1
    DEF PumpCommands, ScanEmpty, HandleEventSpaceAvailable, Goto, ReturnFailed, WorkerStates
  <2> QED BY <2>1, <2>2 DEF RefusedPart, RefusedConnect, Failing
<1>4. CASE CompleteDrain \/ WorkerExits
  <2>1. worker \in WorkerStates /\ tp' = tp
    BY <1>4 DEF IInv, TransportPart, CompleteDrain, WorkerExits
  <2>2. \/ worker' = IdleWorker
        \/ worker' = Goto(worker, "Exit")
        \/ worker' = [worker EXCEPT !.pc = "Exit", !.status = worker.status]
        \/ worker' = [worker EXCEPT !.pc = "Exit", !.status = "Post"]
        \/ worker' = [IdleWorker EXCEPT !.pc = "Stopped", !.status = worker.status]
    BY <1>4 DEF CompleteDrain, WorkerExits
  <2>3. worker'.status = "ConnectFailure" =>
          worker.status = "ConnectFailure" /\ worker'.pc \in {"Exit", "Stopped"}
    <3>1. CASE worker' = IdleWorker BY <3>1 DEF IdleWorker
    <3>2. CASE worker' = Goto(worker, "Exit") BY <2>1, <3>2 DEF Goto, WorkerStates
    <3>3. CASE worker' = [worker EXCEPT !.pc = "Exit", !.status = worker.status]
      BY <2>1, <3>3 DEF WorkerStates
    <3>4. CASE worker' = [worker EXCEPT !.pc = "Exit", !.status = "Post"]
      BY <2>1, <3>4 DEF WorkerStates
    <3>5. CASE worker' = [IdleWorker EXCEPT !.pc = "Stopped", !.status = worker.status]
      BY <3>5 DEF IdleWorker
    <3> QED BY <2>2, <3>1, <3>2, <3>3, <3>4, <3>5
  <2> QED BY <2>1, <2>3 DEF RefusedPart, RefusedConnect, Failing
<1>5. WorkerNext => Turn \/ PumpCommands \/ ScanEmpty \/ HandleEventSpaceAvailable
                    \/ CompleteDrain \/ WorkerExits
  BY WorkerTurns
<1>6. CallerNext \/ KernelCompletes \/ UNCHANGED vars => UNCHANGED <<tp, worker>>
  BY CallerLeaves DEF KernelCompletes, vars
<1> QED BY <1>1, <1>2, <1>3, <1>4, <1>5, <1>6 DEF Next

\* TransportNeverRefused for every value of the constants: whatever the caller
\* and the kernel do, a routed completion finds its connection, the lifecycle
\* accepts every success, disconnect and commit the transport reports to it, and
\* the signal for a free place is never unexpected; a failed connect is refused
\* only when RequestShutdown has shut the client down and posted Stop.
THEOREM TransportNeverRefusedHolds == Spec => []TransportNeverRefused
<1>1. ASSUME IInv, Promises, RefusedPart PROVE TransportNeverRefused
  <2>1. worker.status \in Statuses /\ worker.status # "EventSpace"
    BY <1>1 DEF IInv, TransportPart, WorkerStates, Promises, WakePart
  <2> QED BY <1>1, <2>1 DEF Statuses, TransportNeverRefused, RefusedPart, RefusedConnect
<1>2. Init => RefusedPart BY IdleWorkerShape DEF Init, RefusedPart
<1>3. IInv /\ Promises /\ RefusedPart /\ [Next]_vars => RefusedPart' BY RefusedStep
<1> QED BY <1>1, <1>2, <1>3, PromisesInvariant, PTL DEF Spec

LEMMA InKinds == ASSUME NEW kind PROVE kind \in Kinds(port) <=> \E i \in DOMAIN port : port[i].kind = kind
  BY DEF Kinds

\* What is promised, or scheduled, wakes the worker.
LEMMA PromisedWakes ==
  ASSUME IInv, ~ chan.wakeFailure, Promised \/ gate.phase = "Scheduled"
  PROVE  WakeComing
<1>1. GateFits(gate, caller, Draining(worker), "Commands" \in Kinds(port), chan.wakeFailure)
      /\ gate \in Gate!GateWord
  BY DEF IInv, GatePart
<1>2. CASE gate.phase = "Scheduled"
  <2>1. "Commands" \in Kinds(port) BY <1>1, <1>2 DEF GateFits
  <2> QED BY <2>1, InKinds DEF WakeComing
<1>3. CASE gate.pending \/ gate.resched
  <2>1. gate.phase \in {"Scheduled", "Draining", "DrainCompleting"}
    BY <1>1, <1>3, GateFields DEF GateFits, Gate!Phases
  <2>2. gate.phase = "Draining" => worker.inDrain BY <1>1 DEF GateFits, Draining
  <2>3. gate.phase = "DrainCompleting" => caller.pc \in {"Publish", "Commit"} BY <1>1 DEF GateFits
  <2> QED BY <1>2, <2>1, <2>2, <2>3 DEF WakeComing
<1> QED BY <1>2, <1>3 DEF Promised, WakeComing

\* Unless the worker is in a drain, a published command has a Commands packet, or
\* its producer is about to post one.
LEMMA CommandsWake ==
  ASSUME IInv, Promises, ~ Lost(worker), ~ chan.wakeFailure,
         NEW k \in CommandKinds, slots[k] # EmptySlot
  PROVE  WakeComing
<1>1. PICK i \in 1 .. 4 : SlotOrder[i] = k BY DEF CommandKinds, SlotOrder
<1>2. Promised \/ gate.phase = "Scheduled" \/ StillToScan(worker, i)
  BY <1>1 DEF Promises, CommandsPart
<1>3. CASE StillToScan(worker, i) BY <1>3 DEF StillToScan, WakeComing
<1> QED BY <1>2, <1>3, PromisedWakes

\* At rest no command is in its slot, Stop has not been posted, and the caller
\* that waits for the worker waits for operations of the kernel.
LEMMA AtRestNothingWaits ==
  ASSUME IInv, Promises, Resting
  PROVE  /\ \A k \in CommandKinds : slots[k] = EmptySlot
         /\ ~ tp.stopPosted
         /\ tp.shutdown => tp.conn # 0 /\ tp.disconnecting
         /\ caller.pc = "Join" => tp.shutdown
<1>1. worker.pc = "Pump" /\ port = <<>> /\ ~ chan.wakeFailure
      /\ caller.pc \notin {"Publish", "Commit"}
  BY DEF Resting
<1>2. ~ Lost(worker) /\ ~ worker.inDrain /\ Kinds(port) = {}
  BY <1>1, EmptyPort DEF Lost, Failing, IInv, TransportPart, WorkerFits, WorkerLocal
<1>3. ~ WakeComing BY <1>1, <1>2, InKinds DEF WakeComing
<1>4. \A k \in CommandKinds : slots[k] = EmptySlot BY <1>1, <1>2, <1>3, CommandsWake
<1>5. ~ tp.stopPosted BY <1>2 DEF Promises, ShutdownPart
<1>6. tp.shutdown => tp.conn # 0 BY <1>2, <1>5 DEF Promises, ShutdownPart
<1>7. tp.shutdown => tp.disconnecting
  BY <1>6 DEF IInv, TransportPart, ConnectionSound, LiveConnection
<1>8. caller.pc = "Join" => tp.shutdown BY <1>1, <1>2, <1>4, KindsAre DEF Promises, ShutdownPart
<1> QED BY <1>4, <1>5, <1>6, <1>7, <1>8

\* ShutdownNotStranded: as long as no wake-up was refused, the join of
\* NrClient::Shutdown waits for operations the kernel still holds, never for a
\* worker that has nothing left to do.
LEMMA JoinWaitsForTheKernel ==
  ASSUME IInv, Promises PROVE ShutdownNotStranded
<1> SUFFICES ASSUME caller.pc = "Join", Resting PROVE kernel # {}
  BY DEF ShutdownNotStranded, JoinsSleepingWorker, Resting
<1>1. tp.shutdown /\ tp.disconnecting BY AtRestNothingWaits
<1>2. HasPendingIo(tp)
  <2>1. worker.pc = "Pump" /\ WorkerFits(tp, worker) BY DEF Resting, IInv, TransportPart
  <2> QED BY <1>1, <2>1, AtRest
<1>3. PICK op \in IoOps : Pending(tp, op) BY <1>2 DEF HasPendingIo, IoOps, Pending
<1>4. Kinds(port) = {} BY EmptyPort DEF Resting
<1>5. Held(kernel, op) BY <1>3, <1>4 DEF IInv, OpsPart, OpsAccounted
<1> QED BY <1>5 DEF Held

LEMMA CalmKeeps == ASSUME Agreement, Calm PROVE Agreement'
<1> SUFFICES ASSUME ~ Lost(worker'), ~ chan'.wakeFailure
             PROVE  (/\ AttemptsPart /\ AheadPart /\ EventPart /\ OpenedPart
                     /\ StatePart /\ EndPart /\ QueuedPart)'
  BY DEF Agreement
<1>1. /\ chan' = chan /\ caller' = caller /\ slots'["Connect"] = slots["Connect"]
      /\ tp'.life.gen = tp.life.gen /\ EventPart' /\ SendsLeft /\ LiveOn /\ EndOn
  BY DEF Calm
<1>2. /\ AttemptsPart /\ AheadPart /\ OpenedPart /\ StatePart /\ EndPart /\ QueuedPart
  BY <1>1 DEF Agreement, Calm
<1>3. AttemptsPart' /\ AheadPart' BY <1>1, <1>2 DEF AttemptsPart, AheadPart
<1>4. OpenedPart'
  <2>1. \A gen : Opened(tp, gen) => Opened(tp', gen) BY <1>1 DEF Opened, LiveOn, Live
  <2> QED BY <1>1, <1>2, <2>1 DEF OpenedPart, SendsLeft
<1>5. StatePart'
  <2> SUFFICES ASSUME chan.gen = tp.life.gen
               PROVE  (/\ Live(tp) /\ tp.life.state = "Connected" /\ ~ Reporting(worker)
                            => chan.state \in {"Connected", "Disconnecting", "Shutdown"}
                       /\ Live(tp) /\ ~ tp.connectIo /\ chan.state = "Disconnecting"
                            => DisconnectAsked
                       /\ tp.conn = 0 /\ tp.life.state = "Idle" /\ worker.pc \notin EndingPcs
                            => \/ chan.state \in {"Idle", "Shutdown"}
                               \/ caller.pc = "Generation"
                               \/ chan.state = "Disconnecting" /\ tp.life.outcome = "Failed")'
    BY <1>1 DEF StatePart
  <2>1. Live(tp') /\ tp'.life.state = "Connected" /\ ~ Reporting(worker')
        => chan'.state \in {"Connected", "Disconnecting", "Shutdown"}
    BY <1>1, <1>2 DEF StatePart, LiveOn
  <2>2. Live(tp') /\ ~ tp'.connectIo /\ chan'.state = "Disconnecting" => DisconnectAsked'
    BY <1>1, <1>2 DEF StatePart, LiveOn, DisconnectAsked
  <2>3. tp'.conn = 0 /\ tp'.life.state = "Idle" /\ worker'.pc \notin EndingPcs
        => \/ chan'.state \in {"Idle", "Shutdown"} \/ caller'.pc = "Generation"
           \/ chan'.state = "Disconnecting" /\ tp'.life.outcome = "Failed"
    <3> SUFFICES ASSUME tp'.conn = 0, tp'.life.state = "Idle", worker'.pc \notin EndingPcs
                 PROVE  \/ chan.state \in {"Idle", "Shutdown"} \/ caller.pc = "Generation"
                        \/ chan.state = "Disconnecting" /\ tp'.life.outcome = "Failed"
      BY <1>1
    <3>1. tp.conn = 0 /\ tp'.life = tp.life /\ worker.pc \notin EndingPcs BY <1>1 DEF EndOn
    <3> QED BY <1>2, <3>1 DEF StatePart
  <2> QED BY <2>1, <2>2, <2>3
<1>6. EndPart' BY <1>1, <1>2 DEF EndPart, EndOn
<1>7. QueuedPart'
  <2> SUFFICES ASSUME Queued' PROVE (QueuedPart)' BY DEF QueuedPart
  <2>1. Queued BY <1>1 DEF Queued, SendsLeft, LiveOn
  <2>2. /\ \/ slots'["Connect"] # EmptySlot
           \/ /\ chan'.gen = tp'.life.gen /\ caller'.kind # "Connect"
              /\ chan'.state \in {"Connected", "Disconnecting", "Shutdown"}
    BY <1>1, <1>2, <2>1 DEF QueuedPart
  <2>3. ~ tp'.send /\ chan'.gen = tp'.life.gen /\ chan'.state = "Connected" => Looked'
    BY <1>1, <1>2, <2>1 DEF QueuedPart, LiveOn, Queued
  <2> QED BY <2>2, <2>3 DEF QueuedPart
<1> QED BY <1>1, <1>3, <1>4, <1>5, <1>6, <1>7

LEMMA PlainEvents == ASSUME NEW w, Plain(w), w = worker' PROVE EventPart'
  BY DEF EventPart, Plain, EndingPcs

LEMMA PlainStill == ASSUME NEW w, NEW v, Plain(w) PROVE Still(w, v)
<1>1. ~ Reporting(w) /\ ~ Publishing(w) /\ w.pc \notin EndingPcs
  BY DEF Plain, Reporting, OpeningPcs
<1> QED BY <1>1 DEF Still

LEMMA PlainPlace ==
  ASSUME NEW w,
         w.pc \in {"Pump", "Scan", "ConsumeSend", "CompleteDrain", "ConnectShutdown",
                   "ConnectOutcome", "PublishPacket", "StartNextSend", "Finish", "Exit",
                   "Crashed"}
         \/ (w.pc = "Promote" /\ w.event = NoEvent)
  PROVE  Plain(w)
  BY DEF Plain, Publishing, EventPcs, OpeningPcs, EndingPcs, NoEvent

\* A worker on its way to an event of its own.
LEMMA PublishPlace ==
  ASSUME NEW w, w.pc \in EventPcs PROVE Publishing(w) /\ Reporting(w)
  BY DEF Publishing, Reporting

LEMMA PublishingEvents ==
  ASSUME Publishing(worker'), worker'.event.gen = tp'.life.gen PROVE EventPart'
<1>1. worker'.pc \notin OpeningPcs \cup {"RecordFailed", "FailedIdle"}
  BY DEF Publishing, EventPcs, OpeningPcs
<1> QED BY <1>1 DEF EventPart

LEMMA ReturnOkPlain ==
  ASSUME NEW w \in WorkerStates
  PROVE  /\ Plain(ReturnOk(w))
         /\ w.inDrain => StillToSend(ReturnOk(w))
<1> DEFINE v == ReturnOk(w)
<1>1. /\ v.pc \in {"Pump", "Scan", "CompleteDrain"} /\ v.inDrain = w.inDrain
      /\ v.pc = "CompleteDrain" => v.drained = DrainBudget
  BY ReturnOkShape
<1> HIDE DEF v
<1>2. Plain(v) BY <1>1, PlainPlace
<1>3. w.inDrain => StillToSend(v) BY <1>1 DEF StillToSend
<1> QED BY <1>2, <1>3 DEF v

LEMMA ReturnFailedLost ==
  ASSUME NEW w \in WorkerStates, NEW site \in Statuses \ {"Ok"}
  PROVE  Lost(ReturnFailed(w, site))
<1>1. ReturnFailed(w, site).pc \in {"CompleteDrain", "Exit"} /\ ReturnFailed(w, site).status = site
  BY FailedShape
<1> QED BY <1>1 DEF Lost, Failing

\* A drain that goes on will look at the sends.
LEMMA StillInDrain ==
  ASSUME NEW w, NEW v, v.inDrain = w.inDrain, v.pc # "CompleteDrain",
         w.pc \notin {"StartNextSend", "ConsumeSend"}
  PROVE  StillToSend(w) => StillToSend(v)
  BY DEF StillToSend

LEMMA LookedStill ==
  ASSUME UNCHANGED <<gate, caller>>, StillToSend(worker) => StillToSend(worker')
  PROVE  Looked => Looked'
  BY DEF Looked, Promised

\* A step that leaves the transport alone.
LEMMA StillCalm ==
  ASSUME UNCHANGED <<chan, caller, tp>>, ~ Lost(worker),
         slots'["Connect"] = slots["Connect"],
         slots["Disconnect"] = tp.life.gen => slots'["Disconnect"] = tp.life.gen \/ ~ Live(tp),
         SendsLeft, Lost(worker') \/ (EventPart' /\ Still(worker, worker')),
         Lost(worker')
         \/ (Queued' /\ ~ tp.send /\ chan.state = "Connected" => (Looked => Looked'))
  PROVE  Calm
<1> SUFFICES ASSUME ~ Lost(worker') PROVE LiveOn /\ EndOn BY DEF Calm
<1>1. LiveOn BY DEF LiveOn, Still
<1>2. EndOn BY DEF EndOn, Still
<1> QED BY <1>1, <1>2

\* A step that ends the worker's way on.
LEMMA LostCalm ==
  ASSUME UNCHANGED <<chan, caller>>, ~ Lost(worker), Lost(worker'),
         slots'["Connect"] = slots["Connect"]
  PROVE  Calm
  BY DEF Calm

LEMMA SendsKept == ASSUME sends' = sends PROVE SendsLeft
  BY DEF SendsLeft

LEMMA NoSends == ASSUME sends' = <<>> PROVE SendsLeft /\ ~ Queued'
<1>1. DOMAIN sends' = {} OBVIOUS
<1> QED BY <1>1 DEF SendsLeft, Queued

\* A step of a worker that is at an event of its own and stays there.
LEMMA StaysPublishing ==
  ASSUME NEW w, NEW v, Publishing(w), Publishing(v), NEW gen, w.event.gen = gen,
         v.event = w.event, v.pc # "RecordConnected"
  PROVE  Still(w, v) /\ v.event.gen = gen
<1>1. w.pc \notin EndingPcs BY DEF Publishing, EventPcs, EndingPcs
<1> QED BY <1>1 DEF Still, Reporting

\* A step of a worker that reports an event, and of the store.
LEMMA StoreCalm ==
  ASSUME IInv, Agreement, ~ Lost(worker), ~ chan.wakeFailure, Publishing(worker),
         UNCHANGED <<chan, gate, slots, sends, tp, caller>>,
         \/ Lost(worker')
         \/ /\ Publishing(worker') /\ worker'.event = worker.event
            /\ worker'.inDrain = worker.inDrain
  PROVE  Calm
<1>1. CASE Lost(worker') BY <1>1, LostCalm
<1>2. CASE ~ Lost(worker')
  <2>1. /\ Publishing(worker') /\ worker'.event = worker.event
        /\ worker'.inDrain = worker.inDrain
    BY <1>2
  <2>2. worker.event.gen = tp.life.gen BY DEF Agreement, EventPart
  <2>3. worker'.pc # "RecordConnected" /\ worker'.pc # "CompleteDrain"
        /\ worker.pc \notin {"StartNextSend", "ConsumeSend"}
    BY <2>1 DEF Publishing, EventPcs
  <2>4. Still(worker, worker') /\ worker'.event.gen = tp.life.gen
    BY <2>1, <2>2, <2>3, StaysPublishing
  <2>5. EventPart' BY <2>1, <2>4, PublishingEvents
  <2>6. Looked => Looked' BY <2>1, <2>3, StillInDrain, LookedStill
  <2>7. SendsLeft BY SendsKept
  <2> QED BY <2>4, <2>5, <2>6, <2>7, StillCalm
<1> QED BY <1>1, <1>2

LEMMA PublishLifecycleEventCalm ==
  ASSUME IInv, Agreement, ~ chan.wakeFailure, PublishLifecycleEvent PROVE Calm
<1>1. worker.pc = "Publish" /\ UNCHANGED <<chan, gate, slots, sends, tp, caller>>
  BY DEF PublishLifecycleEvent, WorkerAt, shared
<1>2. worker \in WorkerStates /\ ~ Lost(worker) /\ Publishing(worker)
  BY <1>1, AtWork DEF Publishing, EventPcs
<1>3. \/ worker' = ReturnFailed(worker, "PendingSlot")
      \/ worker' = Goto(worker, "Defer") \/ worker' = Goto(worker, "Push")
  BY DEF PublishLifecycleEvent
<1>4. \/ Lost(worker')
      \/ /\ Publishing(worker') /\ worker'.event = worker.event
         /\ worker'.inDrain = worker.inDrain
  <2>1. CASE worker' = ReturnFailed(worker, "PendingSlot") BY <1>2, <2>1, ReturnFailedLost, Sites
  <2>2. CASE worker' = Goto(worker, "Defer") \/ worker' = Goto(worker, "Push")
    <3>1. "Defer" \in WorkerPcs /\ "Push" \in WorkerPcs BY PcsTyped DEF EventPcs
    <3>2. worker'.pc \in {"Defer", "Push"} /\ worker'.event = worker.event
          /\ worker'.inDrain = worker.inDrain
      BY <1>2, <2>2, <3>1, GotoShape
    <3> QED BY <3>2 DEF Publishing, EventPcs
  <2> QED BY <1>3, <2>1, <2>2
<1> QED BY <1>1, <1>2, <1>4, StoreCalm

LEMMA PushEventCalm == ASSUME IInv, Agreement, ~ chan.wakeFailure, PushEvent PROVE Calm
<1>1. /\ worker.pc = "Push"
      /\ worker' = Goto(worker, "Published") \/ worker' = ReturnFailed(worker, "PushFull")
      /\ UNCHANGED <<chan, gate, slots, sends, tp, caller>>
  BY DEF PushEvent, WorkerAt, shared
<1>2. worker \in WorkerStates /\ ~ Lost(worker) /\ Publishing(worker)
      /\ "Published" \in WorkerPcs
  BY <1>1, AtWork, PcsTyped DEF Publishing, EventPcs
<1>3. \/ Lost(worker')
      \/ /\ worker'.pc = "Published" /\ worker'.event = worker.event
         /\ worker'.inDrain = worker.inDrain
  BY <1>1, <1>2, GotoShape, ReturnFailedLost, Sites
<1>4. worker'.pc = "Published" => Publishing(worker') BY DEF Publishing, EventPcs
<1> QED BY <1>1, <1>2, <1>3, <1>4, StoreCalm

LEMMA DeferEventCalm == ASSUME IInv, Agreement, ~ chan.wakeFailure, DeferEvent PROVE Calm
<1>1. /\ worker.pc = "Defer" /\ worker' = Goto(worker, "Promote")
      /\ UNCHANGED <<chan, gate, slots, sends, tp, caller>>
  BY DEF DeferEvent, WorkerAt, shared
<1>2. worker \in WorkerStates /\ ~ Lost(worker) /\ Publishing(worker)
      /\ "Promote" \in WorkerPcs
  BY <1>1, AtWork, PcsTyped DEF Publishing, EventPcs
<1>3. worker.event.kind # "None" BY <1>2 DEF IInv, TransportPart, WorkerFits, PlaceFits
<1>4. worker'.pc = "Promote" /\ worker'.event = worker.event
      /\ worker'.inDrain = worker.inDrain
  BY <1>1, <1>2, GotoShape
<1>5. Publishing(worker') BY <1>3, <1>4 DEF Publishing
<1> QED BY <1>1, <1>2, <1>4, <1>5, StoreCalm

LEMMA PromoteStays ==
  ASSUME IInv, Agreement, ~ chan.wakeFailure, worker.pc = "Promote", worker' = worker,
         UNCHANGED <<chan, gate, slots, sends, tp, caller>>
  PROVE  Calm
<1>1. ~ Lost(worker) /\ EventPart BY AtWork DEF Agreement
<1>2. EventPart' /\ Still(worker, worker') BY <1>1 DEF EventPart, Publishing, Still, Reporting
<1>3. Looked => Looked' BY LookedStill
<1> QED BY <1>1, <1>2, <1>3, SendsKept, StillCalm

LEMMA PromoteOutcomeCalm == ASSUME IInv, Agreement, ~ chan.wakeFailure, PromoteOutcome PROVE Calm
  BY PromoteStays DEF PromoteOutcome, WorkerAt, shared

LEMMA PromoteEndedCalm == ASSUME IInv, Agreement, ~ chan.wakeFailure, PromoteEnded PROVE Calm
  BY PromoteStays DEF PromoteEnded, WorkerAt, shared

LEMMA PromoteReturnsCalm ==
  ASSUME IInv, Agreement, ~ chan.wakeFailure, worker.pc = "Promote",
         NEW ok \in BOOLEAN, worker' = PromoteReturns(ok),
         UNCHANGED <<chan, gate, slots, sends, tp, caller>>
  PROVE  Calm
<1>1. worker \in WorkerStates /\ ~ Lost(worker)
      /\ (worker.event = NoEvent \/ worker.event.kind # "None")
  BY AtWork DEF IInv, TransportPart, WorkerFits, WorkerLocal
<1>2. CASE worker.event # NoEvent
  <2>1. worker' = Goto(worker, "Published") /\ "Published" \in WorkerPcs
    BY <1>2, PcsTyped DEF PromoteReturns, EventPcs
  <2>2. worker'.pc = "Published" /\ worker'.event = worker.event
        /\ worker'.inDrain = worker.inDrain
    BY <1>1, <2>1, GotoShape
  <2>3. Publishing(worker) /\ Publishing(worker') BY <1>1, <1>2, <2>2 DEF Publishing, EventPcs
  <2> QED BY <1>1, <2>2, <2>3, StoreCalm
<1>3. CASE worker.event = NoEvent /\ ~ ok
  <2>1. worker' = ReturnFailed(worker, "PromoteFull") BY <1>3 DEF PromoteReturns
  <2> QED BY <1>1, <2>1, ReturnFailedLost, Sites, LostCalm
<1>4. CASE worker.event = NoEvent /\ ok
  <2>1. worker' = ReturnOk(worker) BY <1>4 DEF PromoteReturns
  <2>2. Plain(worker) /\ Plain(worker') /\ (worker.inDrain => StillToSend(worker'))
    BY <1>1, <1>4, <2>1, PlainPlace, ReturnOkPlain
  <2>3. Looked => Looked' BY <2>2, LookedStill DEF StillToSend
  <2>4. EventPart' /\ Still(worker, worker') BY <2>2, PlainEvents, PlainStill
  <2> QED BY <1>1, <2>3, <2>4, SendsKept, StillCalm
<1> QED BY <1>2, <1>3, <1>4

LEMMA PromoteDoneCalm == ASSUME IInv, Agreement, ~ chan.wakeFailure, PromoteDone PROVE Calm
  BY PromoteReturnsCalm DEF PromoteDone, WorkerAt, shared

LEMMA PromoteFullCalm == ASSUME IInv, Agreement, ~ chan.wakeFailure, PromoteFull PROVE Calm
  BY PromoteReturnsCalm DEF PromoteFull, WorkerAt, shared

\* A step from one plain place to another that leaves the transport alone.
LEMMA PlainCalm ==
  ASSUME UNCHANGED <<chan, caller, tp>>, ~ Lost(worker), Plain(worker), Plain(worker'),
         slots'["Connect"] = slots["Connect"], slots'["Disconnect"] = slots["Disconnect"],
         SendsLeft,
         Queued' /\ ~ tp.send /\ chan.state = "Connected" => (Looked => Looked')
  PROVE  Calm
<1>1. EventPart' /\ Still(worker, worker') BY PlainEvents, PlainStill
<1> QED BY <1>1, StillCalm

LEMMA ScanEmptyCalm == ASSUME IInv, Agreement, ScanEmpty PROVE Calm
<1>1. /\ worker.pc = "Scan" /\ UNCHANGED <<chan, gate, slots, sends, tp, caller>>
  BY DEF ScanEmpty, WorkerAt, shared
<1>2. worker \in WorkerStates /\ ~ Lost(worker) /\ Plain(worker) /\ "ConsumeSend" \in WorkerPcs
  BY <1>1, AtWork, PlainPlace, PcsTyped
<1>3. \/ worker' = Goto(worker, "ConsumeSend")
      \/ worker' = [worker EXCEPT !.scan = worker.scan + 1]
  BY DEF ScanEmpty
<1>4. worker'.pc \in {"Scan", "ConsumeSend"} /\ worker'.inDrain = worker.inDrain
  <2>1. CASE worker' = Goto(worker, "ConsumeSend") BY <1>2, <2>1, GotoShape
  <2>2. CASE worker' = [worker EXCEPT !.scan = worker.scan + 1]
    BY <1>1, <1>2, <2>2 DEF WorkerStates
  <2> QED BY <1>3, <2>1, <2>2
<1>5. Plain(worker') BY <1>4, PlainPlace
<1>6. Looked => Looked' BY <1>1, <1>4, StillInDrain, LookedStill
<1> QED BY <1>1, <1>2, <1>5, <1>6, SendsKept, PlainCalm

LEMMA HandleEventSpaceAvailableCalm ==
  ASSUME IInv, Agreement, HandleEventSpaceAvailable PROVE Calm
<1>1. TryConsume("EventSpace") /\ CommandKinds = {"Connect", "Disconnect", "Shutdown", "EventSpace"}
      /\ UNCHANGED <<chan, gate, sends, tp, caller>>
  BY KindsAre DEF HandleEventSpaceAvailable
<1>2. /\ worker.pc = "Scan" /\ worker \in WorkerStates /\ ~ Lost(worker)
      /\ slots'["Connect"] = slots["Connect"] /\ slots'["Disconnect"] = slots["Disconnect"]
      /\ worker.event = NoEvent
  BY <1>1, CommandTaken DEF IInv, TransportPart, WorkerFits, WorkerLocal
<1>3. \/ worker' = Goto(worker, "Promote")
      \/ worker' = ReturnFailed(worker, "EventSpace")
  BY DEF HandleEventSpaceAvailable
<1>4. CASE worker' = ReturnFailed(worker, "EventSpace")
  <2>1. "EventSpace" \in Statuses BY DEF Statuses
  <2>2. worker'.pc \in {"CompleteDrain", "Exit"} /\ worker'.status = "EventSpace"
    BY <1>2, <1>4, <2>1, FailedShape
  <2> QED BY <1>1, <1>2, <2>2, LostCalm DEF Lost, Failing
<1>5. CASE worker' = Goto(worker, "Promote")
  <2>1. "Promote" \in WorkerPcs BY PcsTyped
  <2>2. worker'.pc = "Promote" /\ worker'.event = NoEvent /\ worker'.inDrain = worker.inDrain
    BY <1>2, <1>5, <2>1, GotoShape
  <2>3. Plain(worker) /\ Plain(worker') BY <1>2, <2>2, PlainPlace
  <2>4. Looked => Looked' BY <1>1, <1>2, <2>2, StillInDrain, LookedStill
  <2> QED BY <1>1, <1>2, <2>3, <2>4, SendsKept, PlainCalm
<1> QED BY <1>3, <1>4, <1>5

LEMMA PumpCommandsCalm == ASSUME IInv, Agreement, PumpCommands PROVE Calm
<1>1. Pump("Commands") /\ UNCHANGED <<chan, slots, sends, tp, caller>> BY DEF PumpCommands
<1>2. /\ worker.pc = "Pump" /\ worker \in WorkerStates /\ ~ Lost(worker)
      /\ "Commands" \in Kinds(port)
  BY <1>1, PumpTakes
<1>3. gate.phase = "Scheduled" BY <1>2 DEF IInv, GatePart, GateFits
<1>4. worker' = [worker EXCEPT !.pc = "Scan", !.scan = 1, !.inDrain = TRUE]
  BY <1>3 DEF PumpCommands, Gate!CanBeginDrain
<1>5. worker'.pc = "Scan" /\ worker'.inDrain BY <1>2, <1>4 DEF WorkerStates
<1>6. Plain(worker) /\ Plain(worker') /\ Looked' BY <1>2, <1>5, PlainPlace DEF Looked, StillToSend
<1> QED BY <1>1, <1>2, <1>6, SendsKept, PlainCalm

\* The drain leaves no send it could take.
LEMMA DrainEmptyCalm == ASSUME IInv, Agreement, DrainEmpty PROVE Calm
<1>1. /\ worker.pc = "ConsumeSend" /\ UNCHANGED <<chan, gate, slots, sends, tp, caller>>
      /\ tp.send \/ sends = <<>>
  BY DEF DrainEmpty, WorkerAt, shared
<1>2. worker \in WorkerStates /\ ~ Lost(worker) /\ Plain(worker) BY <1>1, AtWork, PlainPlace
<1>3. worker' = Goto(worker, "CompleteDrain") \/ worker' = IdleWorker BY DEF DrainEmpty
<1>4. worker'.pc \in {"CompleteDrain", "Pump"}
  <2>1. CASE worker' = Goto(worker, "CompleteDrain") BY <1>2, <2>1, GotoShape, PcsTyped
  <2>2. CASE worker' = IdleWorker BY <2>2, IdleWorkerShape
  <2> QED BY <1>3, <2>1, <2>2
<1>5. Plain(worker') BY <1>4, PlainPlace
<1>6. ~ (Queued' /\ ~ tp.send) BY <1>1, NoSends
<1> QED BY <1>1, <1>2, <1>5, <1>6, SendsKept, PlainCalm

LEMMA SteadyCalm ==
  ASSUME UNCHANGED <<chan, caller>>, SameLink(tp, tp'), ~ Lost(worker),
         Plain(worker), Plain(worker'),
         slots'["Connect"] = slots["Connect"], slots'["Disconnect"] = slots["Disconnect"],
         SendsLeft,
         Queued' /\ ~ tp.send /\ chan.state = "Connected" => (Looked => Looked')
  PROVE  Calm
<1>1. EventPart' /\ Still(worker, worker') BY PlainEvents, PlainStill
<1>2. /\ tp'.conn = tp.conn /\ tp'.life = tp.life /\ tp'.connectIo = tp.connectIo
      /\ tp'.disconnecting = tp.disconnecting /\ tp'.send = tp.send
  BY DEF SameLink
<1>3. LiveOn BY <1>1, <1>2 DEF LiveOn, Live, Still
<1>4. EndOn BY <1>1, <1>2 DEF EndOn, Still
<1> QED BY <1>1, <1>2, <1>3, <1>4 DEF Calm

LEMMA DroppedCalm ==
  ASSUME UNCHANGED <<chan, caller>>, ~ Lost(worker), Dropped,
         slots'["Connect"] = slots["Connect"]
  PROVE  Calm
<1>1. EventPart' BY PlainEvents DEF Dropped
<1>2. LiveOn /\ EndOn BY DEF Dropped, LiveOn, EndOn, Live
<1> QED BY <1>1, <1>2 DEF Calm, Dropped

LEMMA BeginDisconnectDrops ==
  ASSUME NEW t \in TransportState, NEW w \in WorkerStates, NEW released,
         t.life.state \in {"Connecting", "Connected", "Disconnecting"},
         t.conn # 0, t.life.gen = tp.life.gen, BeginDisconnect(t, w, released)
  PROVE  Dropped
<1>1. Life!RequestDisconnect(t.life).ok BY RequestDisconnectLife, TpFields
<1>2. tp' = Closed(t) BY <1>1 DEF BeginDisconnect, Closed
<1>3. tp'.conn = t.conn /\ tp'.disconnecting /\ tp'.life.gen = t.life.gen
  BY <1>2, ClosingShape DEF Closing, SameOps
<1>4. worker' = ReturnOk(w) \/ worker' = Goto(w, "Finish") BY <1>1 DEF BeginDisconnect
<1>5. Plain(worker')
  <2>1. CASE worker' = Goto(w, "Finish")
    <3>1. "Finish" \in WorkerPcs BY PcsTyped
    <3>2. worker'.pc = "Finish" BY <2>1, <3>1, GotoShape
    <3> QED BY <3>2, PlainPlace
  <2> QED BY <1>4, <2>1, ReturnOkPlain
<1>6. SendsLeft BY NoSends DEF BeginDisconnect, DiscardQueuedSends
<1> QED BY <1>3, <1>5, <1>6 DEF Dropped

LEMMA ReturnOkLooks ==
  ASSUME UNCHANGED <<gate, caller>>, worker \in WorkerStates,
         worker.pc \notin {"StartNextSend", "ConsumeSend"}, worker' = ReturnOk(worker)
  PROVE  Looked => Looked'
<1>1. StillToSend(worker) => StillToSend(worker') BY ReturnOkPlain DEF StillToSend
<1> QED BY <1>1, LookedStill

LEMMA RepostRecvCalm ==
  ASSUME NEW t \in TransportState, worker \in WorkerStates, ~ Lost(worker),
         Plain(worker), worker.pc \notin {"StartNextSend", "ConsumeSend"},
         tp.life.state \in {"Connecting", "Connected", "Disconnecting"}, tp.conn # 0,
         SameLink(tp, t), UNCHANGED <<chan, gate, slots, caller>>, RepostRecv(t)
  PROVE  Calm
<1>1. t.conn = tp.conn /\ t.life = tp.life BY DEF SameLink
<1>2. CASE tp' = [t EXCEPT !.recv = TRUE] /\ worker' = ReturnOk(worker) /\ sends' = sends
  <2>1. SameLink(tp, tp') BY <1>2 DEF SameLink, TransportState
  <2>2. Plain(worker') /\ (Looked => Looked') BY <1>2, ReturnOkPlain, ReturnOkLooks
  <2> QED BY <1>2, <2>1, <2>2, SendsKept, SteadyCalm
<1>3. CASE BeginDisconnect(t, worker, 0)
  <2>1. Dropped BY <1>1, <1>3, BeginDisconnectDrops
  <2> QED BY <2>1, DroppedCalm
<1> QED BY <1>2, <1>3 DEF RepostRecv

\* The shutdown is complete.
LEMMA CompleteShutdownCalm ==
  ASSUME NEW t \in TransportState, worker \in WorkerStates, ~ Lost(worker),
         t.conn = 0, t.life = tp.life, NEW next, Plain(next),
         UNCHANGED <<chan, caller>>, slots'["Connect"] = slots["Connect"], SendsLeft,
         CompleteShutdown(t, next)
  PROVE  Calm
<1> DEFINE l == Life!Shutdown(t.life)
           done == [t EXCEPT !.life = l, !.disconnecting = FALSE]
<1>1. \/ tp' = [done EXCEPT !.stopPosted = TRUE] /\ worker' = next
      \/ tp' = done /\ worker' = ReturnFailed(worker, "Post")
  BY DEF CompleteShutdown
<1>2. l.state = "Shutdown" /\ l.gen = tp.life.gen
  <2>1. tp.life \in Life!Lifecycle(Generations) BY TpFields
  <2> QED BY <2>1 DEF Life!Shutdown, Life!ResetAttemptPublication, Life!Lifecycle
<1> HIDE DEF l
<1>3. done.conn = 0 /\ done.life = l BY DEF TransportState
<1>4. tp'.conn = 0 /\ tp'.life = l
  <2>1. CASE tp' = done BY <1>3, <2>1
  <2>2. CASE tp' = [done EXCEPT !.stopPosted = TRUE] BY <2>2 DEF TransportState
  <2> QED BY <1>1, <2>1, <2>2
<1>5. CASE worker' = next
  <2>1. EventPart' BY <1>5, PlainEvents
  <2>2. LiveOn /\ EndOn BY <1>2, <1>4 DEF LiveOn, EndOn, Live
  <2> QED BY <1>2, <1>4, <2>1, <2>2 DEF Calm
<1>6. CASE worker' = ReturnFailed(worker, "Post") BY <1>6, ReturnFailedLost, Sites, LostCalm
<1> QED BY <1>1, <1>5, <1>6

LEMMA RecordFailedLife ==
  ASSUME NEW l \in Life!Lifecycle(Generations), Life!RecordConnectFailed(l, l.gen).ok
  PROVE  LET u == Life!RecordConnectFailed(l, l.gen).life IN
         u.gen = l.gen /\ u.state \in {"Connecting", "Disconnecting"}
<1>1. CASE Life!IgnoresOutcome(l, l.gen)
  BY <1>1 DEF Life!RecordConnectFailed, Life!IgnoresOutcome, Life!Accept
<1>2. CASE ~ Life!IgnoresOutcome(l, l.gen) /\ Life!AwaitsOutcome(l)
  <2>1. Life!RecordConnectFailed(l, l.gen) = Life!Accept([l EXCEPT !.outcome = "Failed"])
    BY <1>2 DEF Life!RecordConnectFailed
  <2>2. Life!RecordConnectFailed(l, l.gen).life = [l EXCEPT !.outcome = "Failed"]
    BY <2>1 DEF Life!Accept
  <2> QED BY <1>2, <2>2 DEF Life!AwaitsOutcome, Life!Lifecycle
<1>3. CASE ~ Life!IgnoresOutcome(l, l.gen) /\ ~ Life!AwaitsOutcome(l)
  <2>1. Life!RecordConnectFailed(l, l.gen) = Life!Refuse(l) BY <1>3 DEF Life!RecordConnectFailed
  <2> QED BY <2>1 DEF Life!Refuse
<1> QED BY <1>1, <1>2, <1>3

\* The connection goes and its failure is to be published.
LEMMA RecordConnectFailureGoes ==
  ASSUME NEW t \in TransportState, NEW w \in WorkerStates, RecordConnectFailure(t, w)
  PROVE  \/ Lost(worker')
         \/ /\ tp'.conn = 0 /\ tp'.life.gen = t.life.gen /\ tp'.life.state # "Idle"
            /\ worker'.pc = "Publish" /\ worker'.event.gen = t.life.gen
<1> DEFINE record == Life!RecordConnectFailed(t.life, t.life.gen)
           l == record.life
           r == ReleaseConnection(t)
<1>1. CASE ~ record.ok
  <2>1. worker' = ReturnFailed(w, "ConnectFailure") BY <1>1 DEF RecordConnectFailure
  <2> QED BY <2>1, ReturnFailedLost DEF Statuses
<1>2. CASE record.ok
  <2>1. t.life \in Life!Lifecycle(Generations) /\ t.life.gen \in Generations
    BY TpFields, LifeFields
  <2>2. l.gen = t.life.gen /\ l.state \in {"Connecting", "Disconnecting"}
    BY <1>2, <2>1, RecordFailedLife
  <2>3. /\ tp' = [r EXCEPT !.life = l]
        /\ worker' = ToPublish(w, "Failed", t.life.gen)
    BY <1>2 DEF RecordConnectFailure, ToPublish
  <2>4. r \in TransportState /\ r.conn = 0 BY ReleasedShape
  <2> HIDE DEF l, r, record
  <2>5. tp'.conn = 0 /\ tp'.life = l BY <2>3, <2>4 DEF TransportState
  <2>6. worker'.pc = "Publish" /\ worker'.event.gen = t.life.gen
    <3>1. "Failed" \in EventKinds BY DEF EventKinds
    <3> QED BY <2>1, <2>3, <3>1, ToPublishShape
  <2> QED BY <2>2, <2>5, <2>6
<1> QED BY <1>1, <1>2

\* A step that ends the connection with an event about it.
LEMMA GoneCalm ==
  ASSUME UNCHANGED <<chan, caller>>, ~ Lost(worker),
         slots'["Connect"] = slots["Connect"], SendsLeft,
         \/ Lost(worker')
         \/ /\ tp'.conn = 0 /\ tp'.life.gen = tp.life.gen /\ tp'.life.state # "Idle"
            /\ worker'.pc = "Publish" /\ worker'.event.gen = tp.life.gen
  PROVE  Calm
<1> SUFFICES ASSUME ~ Lost(worker') PROVE EventPart' /\ LiveOn /\ EndOn /\ tp'.life.gen = tp.life.gen
  BY DEF Calm
<1>1. /\ tp'.conn = 0 /\ tp'.life.gen = tp.life.gen /\ tp'.life.state # "Idle"
      /\ worker'.pc = "Publish" /\ worker'.event.gen = tp.life.gen
  OBVIOUS
<1>2. Publishing(worker') BY <1>1 DEF Publishing, EventPcs
<1>3. EventPart' BY <1>1, <1>2, PublishingEvents
<1>4. LiveOn /\ EndOn BY <1>1, <1>2 DEF LiveOn, EndOn, Live
<1> QED BY <1>1, <1>3, <1>4

LEMMA TryStartNextSendCalm == ASSUME IInv, Agreement, TryStartNextSend PROVE Calm
<1>1. worker.pc = "StartNextSend" /\ UNCHANGED <<chan, gate, slots, caller>>
  BY DEF TryStartNextSend, WorkerAt
<1>2. /\ worker \in WorkerStates /\ tp \in TransportState /\ ~ Lost(worker)
      /\ ConnectionSound(tp, worker) /\ tp.conn # 0 /\ Plain(worker)
  BY <1>1, AtWork, PlainPlace DEF IInv, TransportPart, WorkerFits, PlaceFits
<1>3. \/ chan.state # "Connected" /\ worker' = ReturnOk(worker) /\ UNCHANGED <<tp, sends>>
      \/ worker' = Goto(worker, "ConsumeSend") /\ UNCHANGED <<tp, sends>>
      \/ BeginDisconnect(tp, worker, 0)
  BY DEF TryStartNextSend
<1>4. CASE worker' = Goto(worker, "ConsumeSend") /\ UNCHANGED <<tp, sends>>
  <2>1. "ConsumeSend" \in WorkerPcs BY PcsTyped
  <2>2. worker'.pc = "ConsumeSend" BY <1>2, <1>4, <2>1, GotoShape
  <2>3. Plain(worker') /\ Looked' BY <2>2, PlainPlace DEF Looked, StillToSend
  <2> QED BY <1>1, <1>2, <1>4, <2>3, SendsKept, PlainCalm
<1>5. CASE BeginDisconnect(tp, worker, 0)
  <2>1. Dropped BY <1>2, <1>5, LiveState, BeginDisconnectDrops
  <2> QED BY <1>1, <1>2, <2>1, DroppedCalm
<1>6. CASE chan.state # "Connected" /\ worker' = ReturnOk(worker) /\ UNCHANGED <<tp, sends>>
  <2>1. Plain(worker') BY <1>2, <1>6, ReturnOkPlain
  <2> QED BY <1>1, <1>2, <1>6, <2>1, SendsKept, PlainCalm
<1> QED BY <1>3, <1>4, <1>5, <1>6

\* The sends after the first.
LEMMA RestOfSends ==
  ASSUME sends \in Seq(Generations), sends # <<>>, sends' = Tail(sends) PROVE SendsLeft
<1> DEFINE rest == Tail(sends)
<1>1. Len(sends) \in Nat \ {0} /\ DOMAIN sends = 1 .. Len(sends) BY LenProperties, EmptySeq
<1>2. rest \in Seq(Generations) /\ Len(rest) = Len(sends) - 1 BY HeadTailProperties
<1>3. DOMAIN rest = 1 .. Len(sends) - 1 BY <1>2, LenProperties
<1>4. \A j \in 1 .. Len(sends) - 1 : rest[j] = sends[j + 1] BY <1>3, HeadTailProperties
<1> HIDE DEF rest
<1>5. \A j \in DOMAIN rest : rest[j] = sends[j + 1] /\ j + 1 \in DOMAIN sends BY <1>1, <1>3, <1>4
<1> QED BY <1>5 DEF SendsLeft, rest

LEMMA TryConsumeNextSendCalm == ASSUME IInv, Agreement, TryConsumeNextSend PROVE Calm
<1>1. /\ worker.pc = "ConsumeSend" /\ ~ tp.send /\ sends # <<>>
      /\ UNCHANGED <<chan, gate, slots, caller>>
  BY DEF TryConsumeNextSend, WorkerAt
<1>2. /\ worker \in WorkerStates /\ tp \in TransportState /\ ~ Lost(worker)
      /\ ConnectionSound(tp, worker) /\ Plain(worker) /\ sends \in Seq(Generations)
  BY <1>1, AtWork, PlainPlace DEF IInv, TransportPart, SendsPart
<1>3. \/ /\ worker' = (IF worker.inDrain THEN ReturnOk(worker) ELSE worker)
         /\ tp' = tp /\ sends' = Tail(sends)
      \/ /\ worker' = ReturnOk(worker) /\ sends' = Tail(sends)
         /\ tp' = [tp EXCEPT !.send = TRUE, !.active = TRUE]
      \/ tp.conn # 0 /\ BeginDisconnect(tp, worker, 0)
  BY DEF TryConsumeNextSend, MaySend
<1>4. CASE /\ worker' = (IF worker.inDrain THEN ReturnOk(worker) ELSE worker)
           /\ tp' = tp /\ sends' = Tail(sends)
  <2>1. Plain(worker') /\ StillToSend(worker')
    <3>1. CASE worker.inDrain BY <1>2, <1>4, <3>1, ReturnOkPlain
    <3>2. CASE ~ worker.inDrain
      <4>1. worker' = worker BY <1>4, <3>2
      <4> QED BY <1>1, <1>2, <4>1 DEF StillToSend
    <3> QED BY <3>1, <3>2
  <2>2. SendsLeft /\ Looked' BY <1>1, <1>2, <1>4, <2>1, RestOfSends DEF Looked
  <2> QED BY <1>1, <1>2, <1>4, <2>1, <2>2, PlainCalm
<1>5. CASE /\ worker' = ReturnOk(worker) /\ sends' = Tail(sends)
           /\ tp' = [tp EXCEPT !.send = TRUE, !.active = TRUE]
  <2>1. /\ tp'.conn = tp.conn /\ tp'.life = tp.life /\ tp'.connectIo = tp.connectIo
        /\ tp'.disconnecting = tp.disconnecting /\ tp'.send
    BY <1>2, <1>5 DEF TransportState
  <2>2. Plain(worker') /\ SendsLeft BY <1>1, <1>2, <1>5, ReturnOkPlain, RestOfSends
  <2>3. EventPart' /\ Still(worker, worker') BY <1>2, <2>2, PlainEvents, PlainStill
  <2>4. LiveOn BY <1>1, <2>1, <2>3 DEF LiveOn, Live, Still
  <2>5. EndOn BY <2>1, <2>3 DEF EndOn, Still
  <2> QED BY <1>1, <1>2, <2>1, <2>2, <2>3, <2>4, <2>5 DEF Calm
<1>6. CASE tp.conn # 0 /\ BeginDisconnect(tp, worker, 0)
  <2>1. Dropped BY <1>2, <1>6, LiveState, BeginDisconnectDrops
  <2> QED BY <1>1, <1>2, <2>1, DroppedCalm
<1> QED BY <1>3, <1>4, <1>5, <1>6

LEMMA PublishPacketReceivedCalm == ASSUME IInv, Agreement, PublishPacketReceived PROVE Calm
<1>1. worker.pc = "PublishPacket" /\ UNCHANGED <<chan, gate, slots, caller>>
  BY DEF PublishPacketReceived, WorkerAt
<1>2. /\ worker \in WorkerStates /\ tp \in TransportState /\ ~ Lost(worker)
      /\ ConnectionSound(tp, worker) /\ tp.conn # 0 /\ Plain(worker)
  BY <1>1, AtWork, PlainPlace DEF IInv, TransportPart, WorkerFits, PlaceFits
<1>3. tp.life.state \in {"Connecting", "Connected", "Disconnecting"} /\ SameLink(tp, tp)
  BY <1>2, LiveState DEF SameLink
<1>4. CASE BeginDisconnect(tp, worker, 0)
  <2>1. Dropped BY <1>2, <1>3, <1>4, BeginDisconnectDrops
  <2> QED BY <1>1, <1>2, <2>1, DroppedCalm
<1>5. CASE RepostRecv(tp) BY <1>1, <1>2, <1>3, <1>5, RepostRecvCalm
<1> QED BY <1>4, <1>5 DEF PublishPacketReceived

LEMMA PumpRecvCalm == ASSUME IInv, Agreement, PumpRecv PROVE Calm
<1> DEFINE t == [tp EXCEPT !.recv = FALSE]
<1>1. Pump("Recv") /\ "Recv" \in IoOps /\ UNCHANGED <<chan, gate, slots, caller>>
  BY DEF PumpRecv, IoOps
<1>2. /\ worker \in WorkerStates /\ tp \in TransportState /\ worker.pc = "Pump"
      /\ tp.conn # 0 /\ Routed(Head(port)) /\ ConnectionSound(tp, worker)
  BY <1>1, CompletionTaken
<1>3. t \in TransportState /\ SameLink(tp, t) BY <1>2 DEF TransportState, SameLink
<1>4. t.conn = tp.conn /\ t.life = tp.life
      /\ tp.life.state \in {"Connecting", "Connected", "Disconnecting"}
  BY <1>2, <1>3, LiveState DEF SameLink
<1>5. ~ Lost(worker) /\ Plain(worker) BY <1>2, AtWork, PlainPlace
<1>6. \/ /\ tp' = t /\ sends' = sends
         /\ worker' = Goto(worker, "Finish") \/ worker' = Goto(worker, "PublishPacket")
      \/ BeginDisconnect(t, worker, 0)
      \/ RepostRecv(t)
  BY <1>2 DEF PumpRecv
<1> HIDE DEF t
<1>7. CASE /\ tp' = t /\ sends' = sends
           /\ worker' = Goto(worker, "Finish") \/ worker' = Goto(worker, "PublishPacket")
  <2>1. {"Finish", "PublishPacket"} \subseteq WorkerPcs BY PcsTyped
  <2>2. worker'.pc \in {"Finish", "PublishPacket"} /\ worker'.inDrain = worker.inDrain
    BY <1>2, <1>7, <2>1, GotoShape
  <2>3. Plain(worker') /\ (Looked => Looked')
    BY <1>1, <1>2, <2>2, PlainPlace, StillInDrain, LookedStill
  <2> QED BY <1>1, <1>3, <1>5, <1>7, <2>3, SendsKept, SteadyCalm
<1>8. CASE BeginDisconnect(t, worker, 0)
  <2>1. Dropped BY <1>2, <1>3, <1>4, <1>8, BeginDisconnectDrops
  <2> QED BY <1>1, <1>5, <2>1, DroppedCalm
<1>9. CASE RepostRecv(t) BY <1>1, <1>2, <1>3, <1>4, <1>5, <1>9, RepostRecvCalm
<1> QED BY <1>6, <1>7, <1>8, <1>9

LEMMA PumpSendCalm == ASSUME IInv, Agreement, PumpSend PROVE Calm
<1> DEFINE t == [tp EXCEPT !.send = FALSE]
           r == [t EXCEPT !.active = FALSE]
<1>1. Pump("Send") /\ "Send" \in IoOps /\ UNCHANGED <<chan, gate, slots, caller>>
  BY DEF PumpSend, IoOps
<1>2. /\ worker \in WorkerStates /\ tp \in TransportState /\ worker.pc = "Pump"
      /\ tp.conn # 0 /\ Routed(Head(port)) /\ ConnectionSound(tp, worker)
  BY <1>1, CompletionTaken
<1>3. /\ r \in TransportState /\ r.conn = tp.conn /\ r.life = tp.life
      /\ r.connectIo = tp.connectIo /\ r.disconnecting = tp.disconnecting
  BY <1>2 DEF TransportState
<1>4. tp.life.state \in {"Connecting", "Connected", "Disconnecting"} BY <1>2, LiveState
<1>5. ~ Lost(worker) /\ Plain(worker) BY <1>2, AtWork, PlainPlace
<1>6. \/ tp.disconnecting /\ tp' = r /\ sends' = sends /\ worker' = Goto(worker, "Finish")
      \/ tp' = r /\ sends' = sends /\ worker' = Goto(worker, "StartNextSend")
      \/ tp' = tp /\ sends' = sends /\ worker' = ReturnOk(worker)
      \/ BeginDisconnect(r, worker, ReleasedSends(t))
  BY <1>2 DEF PumpSend
<1> HIDE DEF r
<1>7. CASE tp.disconnecting /\ tp' = r /\ sends' = sends /\ worker' = Goto(worker, "Finish")
  <2>1. "Finish" \in WorkerPcs BY PcsTyped
  <2>2. worker'.pc = "Finish" BY <1>2, <1>7, <2>1, GotoShape
  <2>3. Plain(worker') /\ SendsLeft BY <1>7, <2>2, PlainPlace, SendsKept
  <2>4. Dropped BY <1>2, <1>3, <1>7, <2>3 DEF Dropped
  <2> QED BY <1>1, <1>5, <2>4, DroppedCalm
<1>8. CASE tp' = r /\ sends' = sends /\ worker' = Goto(worker, "StartNextSend")
  <2>1. "StartNextSend" \in WorkerPcs BY PcsTyped
  <2>2. worker'.pc = "StartNextSend" BY <1>2, <1>8, <2>1, GotoShape
  <2>3. Plain(worker') /\ SendsLeft /\ Looked'
    BY <1>8, <2>2, PlainPlace, SendsKept DEF Looked, StillToSend
  <2>4. EventPart' /\ Still(worker, worker') BY <1>5, <2>3, PlainEvents, PlainStill
  <2>5. LiveOn BY <1>1, <1>3, <1>8, <2>3, <2>4 DEF LiveOn, Live, Still
  <2>6. EndOn BY <1>3, <1>8, <2>4 DEF EndOn, Still
  <2> QED BY <1>1, <1>3, <1>5, <1>8, <2>3, <2>4, <2>5, <2>6 DEF Calm
<1>9. CASE tp' = tp /\ sends' = sends /\ worker' = ReturnOk(worker)
  <2>1. Plain(worker') /\ (Looked => Looked') BY <1>1, <1>2, <1>9, ReturnOkPlain, ReturnOkLooks
  <2> QED BY <1>1, <1>5, <1>9, <2>1, SendsKept, PlainCalm
<1>10. CASE BeginDisconnect(r, worker, ReleasedSends(t))
  <2>1. Dropped BY <1>2, <1>3, <1>4, <1>10, BeginDisconnectDrops
  <2> QED BY <1>1, <1>5, <2>1, DroppedCalm
<1> QED BY <1>6, <1>7, <1>8, <1>9, <1>10

LEMMA PumpConnectCalm == ASSUME IInv, Agreement, PumpConnect PROVE Calm
<1> DEFINE t == [tp EXCEPT !.connectIo = FALSE]
<1>1. Pump("Connect") /\ "Connect" \in IoOps /\ UNCHANGED <<chan, gate, slots, caller>>
  BY DEF PumpConnect, IoOps
<1>2. /\ worker \in WorkerStates /\ tp \in TransportState /\ worker.pc = "Pump"
      /\ tp.conn # 0 /\ Routed(Head(port)) /\ ConnectionSound(tp, worker)
  BY <1>1, CompletionTaken
<1>3. /\ t \in TransportState /\ t.conn = tp.conn /\ t.life = tp.life
      /\ t.disconnecting = tp.disconnecting /\ t.send = tp.send
  BY <1>2 DEF TransportState
<1>4. tp.life.state \in {"Connecting", "Connected", "Disconnecting"} BY <1>2, LiveState
<1>5. ~ Lost(worker) /\ Plain(worker) BY <1>2, AtWork, PlainPlace
<1>6. worker' = [worker EXCEPT !.pc = "ConnectShutdown", !.ok = Head(port).outcome = "Done"]
  BY <1>2 DEF PumpConnect
<1>7. worker'.pc = "ConnectShutdown" /\ worker'.inDrain = worker.inDrain
  BY <1>2, <1>6 DEF WorkerStates
<1>8. Plain(worker') /\ (Looked => Looked')
  BY <1>1, <1>2, <1>7, PlainPlace, StillInDrain, LookedStill
<1>9. \/ tp' = Closed(t) /\ sends' = <<>>
      \/ tp' = t /\ sends' = sends /\ (chan.state = "Disconnecting" => tp.disconnecting)
  BY <1>2 DEF PumpConnect, DiscardQueuedSends, Closed, DisconnectRequested
<1> HIDE DEF t
<1>10. CASE tp' = Closed(t) /\ sends' = <<>>
  <2>1. Closing(t, tp') BY <1>3, <1>4, <1>10, ClosingShape
  <2>2. tp'.conn = tp.conn /\ tp'.disconnecting /\ tp'.life.gen = tp.life.gen
    BY <1>3, <2>1 DEF Closing, SameOps
  <2>3. Dropped BY <1>2, <1>8, <1>10, <2>2, NoSends DEF Dropped
  <2> QED BY <1>1, <1>5, <2>3, DroppedCalm
<1>11. CASE tp' = t /\ sends' = sends /\ (chan.state = "Disconnecting" => tp.disconnecting)
  <2>1. EventPart' /\ Still(worker, worker') /\ SendsLeft
    BY <1>5, <1>8, <1>11, PlainEvents, PlainStill, SendsKept
  <2>2. LiveOn BY <1>1, <1>3, <1>8, <1>11, <2>1 DEF LiveOn, Live, Still
  <2>3. EndOn BY <1>2, <1>3, <1>11 DEF EndOn
  <2> QED BY <1>1, <1>3, <1>5, <1>11, <2>1, <2>2, <2>3 DEF Calm
<1> QED BY <1>9, <1>10, <1>11

LEMMA ConnectShutdownCalm == ASSUME IInv, Agreement, ConnectShutdown PROVE Calm
<1> DEFINE t == [ReleaseConnection(tp) EXCEPT !.shutdown = TRUE]
           next == Goto(worker, "ConnectOutcome")
<1>1. worker.pc = "ConnectShutdown" /\ UNCHANGED <<chan, gate, slots, caller>>
  BY DEF ConnectShutdown, WorkerAt
<1>2. worker \in WorkerStates /\ tp \in TransportState /\ ~ Lost(worker) /\ Plain(worker)
  BY <1>1, AtWork, PlainPlace
<1>3. next.pc = "ConnectOutcome" /\ next.inDrain = worker.inDrain BY <1>2, GotoShape, PcsTyped
<1>4. Plain(next)
  <2> HIDE DEF next
  <2> QED BY <1>3, PlainPlace
<1>5. t \in TransportState /\ t.conn = 0 /\ t.life = tp.life
  <2> DEFINE r == ReleaseConnection(tp)
  <2>1. r \in TransportState /\ r.conn = 0 /\ r.life = tp.life BY <1>2, ReleasedShape
  <2>2. t = [r EXCEPT !.shutdown = TRUE] OBVIOUS
  <2> HIDE DEF r, t
  <2> QED BY <2>1, <2>2 DEF TransportState
<1>6. \/ CompleteShutdown(t, next) /\ sends' = <<>>
      \/ worker' = next /\ UNCHANGED <<tp, sends>>
  BY DEF ConnectShutdown, DiscardQueuedSends
<1> HIDE DEF t, next
<1>7. CASE CompleteShutdown(t, next) /\ sends' = <<>>
  BY <1>1, <1>2, <1>4, <1>5, <1>7, NoSends, CompleteShutdownCalm
<1>8. CASE worker' = next /\ UNCHANGED <<tp, sends>>
  <2>1. Looked => Looked' BY <1>1, <1>3, <1>8, StillInDrain, LookedStill
  <2> QED BY <1>1, <1>2, <1>4, <1>8, <2>1, SendsKept, PlainCalm
<1> QED BY <1>6, <1>7, <1>8

LEMMA ConnectOutcomeCalm == ASSUME IInv, Agreement, ConnectOutcome PROVE Calm
<1>1. /\ worker.pc = "ConnectOutcome"
      /\ UNCHANGED <<chan, gate, slots, sends, caller>>
  BY DEF ConnectOutcome, WorkerAt, shared
<1>2. /\ worker \in WorkerStates /\ tp \in TransportState /\ ~ Lost(worker)
      /\ ConnectionSound(tp, worker) /\ Plain(worker) /\ SendsLeft
  BY <1>1, AtWork, PlainPlace, SendsKept DEF IInv, TransportPart
<1>3. tp.life.outcome = "None" /\ ~ tp.connectIo
  BY <1>1 DEF IInv, TransportPart, WorkerFits, PlaceFits
<1>4. CASE tp' = tp /\ worker' = Goto(worker, "Finish")
  <2>1. "Finish" \in WorkerPcs BY PcsTyped
  <2>2. worker'.pc = "Finish" /\ worker'.inDrain = worker.inDrain BY <1>2, <1>4, <2>1, GotoShape
  <2>3. Plain(worker') /\ (Looked => Looked') BY <1>1, <2>2, PlainPlace, StillInDrain, LookedStill
  <2> QED BY <1>1, <1>2, <1>4, <2>3, PlainCalm
<1>5. CASE worker' = Goto(worker, "Crashed")
  <2>1. worker'.pc = "Crashed" BY <1>2, <1>5, PcsTyped, GotoShape
  <2> QED BY <1>1, <1>2, <2>1, LostCalm DEF Lost
<1>6. CASE RecordConnectFailure(tp, worker)
  BY <1>1, <1>2, <1>6, RecordConnectFailureGoes, GoneCalm
<1>7. CASE ~ tp.disconnecting /\ tp.conn # 0 /\ worker.ok /\ ~ RecordConnectFailure(tp, worker)
  <2> DEFINE l == Life!RecordConnectSucceeded(tp.life, tp.conn).life
  <2>1. /\ tp.life \in Life!Lifecycle(Generations) /\ tp.conn \in Generations
        /\ tp.life.gen = tp.conn /\ Life!AwaitsOutcome(tp.life)
        /\ tp.life.state = "Connecting"
    BY <1>2, <1>3, <1>7, TpFields
    DEF ConnectionSound, LiveConnection, Life!AwaitsOutcome
  <2>2. Life!RecordConnectSucceeded(tp.life, tp.conn).ok /\ l.gen = tp.life.gen
        /\ l.state = "Connected"
    BY <2>1, ConnectSucceededLife
  <2>3. /\ tp' = [tp EXCEPT !.recv = TRUE, !.life = l]
        /\ worker' = ToPublish(worker, "Connected", tp.conn)
    BY <1>7, <2>2 DEF ConnectOutcome, ToPublish
  <2> HIDE DEF l
  <2>4. /\ tp'.conn = tp.conn /\ tp'.life = l /\ tp'.send = tp.send
        /\ tp'.disconnecting = tp.disconnecting
    BY <1>2, <2>3 DEF TransportState
  <2>5. worker'.pc = "Publish" /\ worker'.inDrain = worker.inDrain
        /\ worker'.event.gen = tp.life.gen
    <3>1. "Connected" \in EventKinds BY DEF EventKinds
    <3> QED BY <1>2, <2>1, <2>3, <3>1, ToPublishShape
  <2>6. Publishing(worker') /\ Reporting(worker') BY <2>5, PublishPlace DEF EventPcs
  <2>7. EventPart' BY <2>2, <2>4, <2>5, <2>6, PublishingEvents
  <2>8. Looked => Looked' BY <1>1, <2>5, StillInDrain, LookedStill
  <2>9. LiveOn BY <1>1, <1>3, <2>2, <2>4, <2>6, <2>8 DEF LiveOn, Live
  <2>10. EndOn BY <1>7, <2>4 DEF EndOn
  <2> QED BY <1>1, <1>2, <2>2, <2>4, <2>7, <2>9, <2>10 DEF Calm
<1>8. \/ tp.disconnecting \/ (~ tp.disconnecting /\ ~ worker.ok)
      \/ (~ tp.disconnecting /\ worker.ok /\ tp.conn = 0)
      \/ (~ tp.disconnecting /\ worker.ok /\ tp.conn # 0)
  OBVIOUS
<1> QED BY <1>4, <1>5, <1>6, <1>7, <1>8 DEF ConnectOutcome

LEMMA HandleShutdownCalm == ASSUME IInv, Agreement, HandleShutdown PROVE Calm
<1>1. TryConsume("Shutdown") /\ "Shutdown" \in CommandKinds
      /\ "Connect" \in CommandKinds /\ "Disconnect" \in CommandKinds
  BY KindsAre DEF HandleShutdown
<1>2. /\ worker.pc = "Scan" /\ worker \in WorkerStates /\ tp \in TransportState
      /\ ~ Lost(worker) /\ ConnectionSound(tp, worker)
      /\ slots'["Connect"] = slots["Connect"] /\ slots'["Disconnect"] = slots["Disconnect"]
  BY <1>1, CommandTaken
<1>3. UNCHANGED <<chan, gate, caller>> /\ Plain(worker) BY <1>2, PlainPlace DEF HandleShutdown
<1>4. Plain(ReturnOk(worker)) BY <1>2, ReturnOkPlain
<1>5. CASE tp.shutdown
  <2>1. worker' = ReturnOk(worker) /\ UNCHANGED <<tp, sends>> BY <1>5 DEF HandleShutdown
  <2>2. Looked => Looked' BY <1>2, <1>3, <2>1, ReturnOkLooks
  <2> QED BY <1>2, <1>3, <1>4, <2>1, <2>2, SendsKept, PlainCalm
<1>6. CASE ~ tp.shutdown /\ tp.conn = 0
  <2> DEFINE t == [tp EXCEPT !.shutdown = TRUE]
             next == ReturnOk(worker)
  <2>1. CompleteShutdown(t, next) /\ sends' = <<>> BY <1>6 DEF HandleShutdown, DiscardQueuedSends
  <2>2. t \in TransportState /\ t.conn = 0 /\ t.life = tp.life BY <1>2, <1>6 DEF TransportState
  <2> HIDE DEF t, next
  <2> QED BY <1>2, <1>3, <1>4, <2>1, <2>2, NoSends, CompleteShutdownCalm DEF next
<1>7. CASE ~ tp.shutdown /\ tp.conn # 0
  <2>1. /\ tp' = [tp EXCEPT !.shutdown = TRUE, !.disconnecting = TRUE, !.closed = TRUE]
        /\ worker' = Goto(worker, "Finish") /\ sends' = <<>>
    BY <1>7 DEF HandleShutdown, DiscardQueuedSends
  <2>2. tp'.conn # 0 /\ tp'.disconnecting /\ tp'.life.gen = tp.life.gen
    BY <1>2, <1>7, <2>1 DEF TransportState
  <2>3. "Finish" \in WorkerPcs BY PcsTyped
  <2>4. worker'.pc = "Finish" BY <1>2, <2>1, <2>3, GotoShape
  <2>5. Dropped BY <2>1, <2>2, <2>4, PlainPlace, NoSends DEF Dropped
  <2> QED BY <1>2, <1>3, <2>5, DroppedCalm
<1> QED BY <1>5, <1>6, <1>7

LEMMA TryFinishDisconnectCalm == ASSUME IInv, Agreement, TryFinishDisconnect PROVE Calm
<1> DEFINE t == ReleaseConnection(tp)
<1>1. worker.pc = "Finish" /\ UNCHANGED <<chan, gate, slots, sends, caller>>
  BY DEF TryFinishDisconnect, WorkerAt
<1>2. /\ worker \in WorkerStates /\ tp \in TransportState /\ ~ Lost(worker)
      /\ Plain(worker) /\ SendsLeft
      /\ tp.conn # 0 /\ tp.disconnecting /\ LiveConnection(tp, worker)
  BY <1>1, AtWork, PlainPlace, SendsKept
  DEF IInv, TransportPart, WorkerFits, PlaceFits, ConnectionSound
<1>3. t \in TransportState /\ t.conn = 0 /\ t.life = tp.life BY <1>2, ReleasedShape
<1>4. Plain(ReturnOk(worker)) BY <1>2, ReturnOkPlain
<1>5. CASE worker' = ReturnOk(worker) /\ UNCHANGED tp
  <2>1. ~ Queued' BY <1>2, <1>5 DEF Queued, Live
  <2> QED BY <1>1, <1>2, <1>4, <1>5, <2>1, PlainCalm
<1>6. CASE CompleteShutdown(t, ReturnOk(worker))
  <2> DEFINE next == ReturnOk(worker)
  <2>1. CompleteShutdown(t, next) /\ Plain(next) BY <1>4, <1>6
  <2> HIDE DEF t, next
  <2> QED BY <1>1, <1>2, <1>3, <2>1, CompleteShutdownCalm
<1>7. CASE ~ HasPendingIo(tp) /\ ~ tp.shutdown
  <2> DEFINE l == Life!RecordDisconnected(tp.life, tp.conn).life
  <2>1. tp.life \in Life!Lifecycle(Generations) /\ tp.conn \in Generations
        /\ tp.life.gen = tp.conn
    BY <1>2, TpFields DEF LiveConnection
  <2>2. Life!RecordDisconnected(tp.life, tp.conn).ok /\ l.state = "Disconnecting"
    BY <1>2, <1>7, <2>1, RecordDisconnectedLife DEF LiveConnection
  <2>3. l.gen = tp.life.gen
    BY <2>1 DEF Life!RecordDisconnected, Life!Accept, Life!Refuse, Life!Lifecycle
  <2>4. /\ tp' = [t EXCEPT !.life = l]
        /\ worker' = ToPublish(worker, "Disconnected", tp.conn)
    BY <1>7, <2>2 DEF TryFinishDisconnect, ToPublish
  <2> HIDE DEF t, l
  <2>5. tp'.conn = 0 /\ tp'.life = l BY <1>3, <2>4 DEF TransportState
  <2>6. worker'.pc = "Publish" /\ worker'.event.gen = tp.life.gen
    <3>1. "Disconnected" \in EventKinds BY DEF EventKinds
    <3> QED BY <1>2, <2>1, <2>4, <3>1, ToPublishShape
  <2> QED BY <1>1, <1>2, <2>2, <2>3, <2>5, <2>6, GoneCalm
<1> QED BY <1>5, <1>6, <1>7 DEF TryFinishDisconnect

LEMMA HandleDisconnectCalm == ASSUME IInv, Agreement, HandleDisconnect PROVE Calm
<1> DEFINE over == tp.conn = 0 /\ tp.life.state = "Idle"
<1>1. TryConsume("Disconnect") /\ "Disconnect" \in CommandKinds /\ "Connect" \in CommandKinds
  BY KindsAre DEF HandleDisconnect
<1>2. /\ worker.pc = "Scan" /\ worker \in WorkerStates /\ tp \in TransportState
      /\ ~ Lost(worker) /\ ConnectionSound(tp, worker) /\ Plain(worker)
      /\ slots'["Connect"] = slots["Connect"]
  BY <1>1, CommandTaken, PlainPlace
<1>3. UNCHANGED <<chan, gate, caller>> BY DEF HandleDisconnect
<1>4. \/ /\ worker' = ReturnOk(worker) /\ UNCHANGED <<tp, sends>>
         /\ slots["Disconnect"] # tp.life.gen \/ ~ Live(tp)
      \/ /\ UNCHANGED <<tp, sends>> /\ ~ Live(tp)
         /\ worker' = [worker EXCEPT !.pc = "RecordDisconnected",
                                     !.event = Event("None", tp.life.gen)]
      \/ worker' = ReturnFailed(worker, "DisconnectAfterShutdown")
      \/ tp.conn # 0 /\ BeginDisconnect(tp, worker, 0)
  <2> DEFINE dropped == \/ slots["Disconnect"] # tp.life.gen
                        \/ over /\ chan.state = "Idle"
                        \/ ~over /\ tp.disconnecting
             records == /\ slots["Disconnect"] = tp.life.gen /\ over
                        /\ chan.state # "Idle"
             begins == slots["Disconnect"] = tp.life.gen /\ ~over /\ ~tp.disconnecting
  <2>1. dropped \/ records \/ begins OBVIOUS
  <2>2. ~ (dropped /\ records) /\ ~ (dropped /\ begins) /\ ~ (records /\ begins) OBVIOUS
  <2>3. CASE records BY <2>2, <2>3 DEF HandleDisconnect, Live
  <2>4. CASE begins BY <2>2, <2>4 DEF HandleDisconnect
  <2>5. CASE dropped BY <2>2, <2>5 DEF HandleDisconnect, Live
  <2> QED BY <2>1, <2>3, <2>4, <2>5
<1>5. CASE /\ worker' = ReturnOk(worker) /\ UNCHANGED <<tp, sends>>
           /\ slots["Disconnect"] # tp.life.gen \/ ~ Live(tp)
  <2>1. Plain(worker') /\ (Looked => Looked') /\ SendsLeft
    BY <1>2, <1>3, <1>5, ReturnOkPlain, ReturnOkLooks, SendsKept
  <2>2. EventPart' /\ Still(worker, worker') BY <1>2, <2>1, PlainEvents, PlainStill
  <2> QED BY <1>2, <1>3, <1>5, <2>1, <2>2, StillCalm
<1>6. CASE /\ UNCHANGED <<tp, sends>> /\ ~ Live(tp)
           /\ worker' = [worker EXCEPT !.pc = "RecordDisconnected",
                                       !.event = Event("None", tp.life.gen)]
  <2> DEFINE e == Event("None", tp.life.gen)
  <2>1. worker' = [worker EXCEPT !.pc = "RecordDisconnected", !.event = e]
        /\ e.gen = tp.life.gen
    BY <1>6 DEF Event
  <2> HIDE DEF e
  <2>2. worker'.pc = "RecordDisconnected" /\ worker'.event = e BY <1>2, <2>1 DEF WorkerStates
  <2>3. EventPart' BY <1>6, <2>1, <2>2 DEF EventPart, OpeningPcs
  <2>4. Still(worker, worker') /\ SendsLeft BY <1>2, <1>6, PlainStill, SendsKept
  <2>5. ~ Queued' BY <1>6 DEF Queued, Live
  <2> QED BY <1>2, <1>3, <1>6, <2>3, <2>4, <2>5, StillCalm
<1>7. CASE worker' = ReturnFailed(worker, "DisconnectAfterShutdown")
  BY <1>2, <1>3, <1>7, ReturnFailedLost, Sites, LostCalm
<1>8. CASE tp.conn # 0 /\ BeginDisconnect(tp, worker, 0)
  <2>1. Dropped BY <1>2, <1>8, LiveState, BeginDisconnectDrops
  <2> QED BY <1>2, <1>3, <2>1, DroppedCalm
<1> QED BY <1>4, <1>5, <1>6, <1>7, <1>8

LEMMA CommitPublishedCalm == ASSUME IInv, Agreement, ~ chan.wakeFailure, CommitPublished PROVE Calm
<1> DEFINE kind == worker.event.kind
           l == Life!CommitNextPending(tp.life).life
<1>1. worker.pc = "Published" /\ UNCHANGED <<chan, gate, slots, sends, caller>>
  BY DEF CommitPublished, WorkerAt, shared
<1>2. /\ worker \in WorkerStates /\ tp \in TransportState /\ ~ Lost(worker)
      /\ ConnectionSound(tp, worker) /\ WorkerFits(tp, worker)
      /\ Publishing(worker) /\ Reporting(worker) /\ SendsLeft
  BY <1>1, AtWork, PublishPlace, SendsKept DEF IInv, TransportPart, EventPcs
<1>3. worker.event.gen = tp.life.gen BY <1>2 DEF Agreement, EventPart
<1>4. /\ kind \in {"Connected", "Failed", "Disconnected"}
      /\ Life!NextPendingKind(tp.life) = kind
      /\ kind = "Connected" <=> tp.conn # 0
      /\ kind = "Connected" => ~ tp.disconnecting
  BY <1>2 DEF WorkerFits, PlaceFits
<1>5. /\ Life!CommitNextPending(tp.life).ok /\ l.gen = tp.life.gen
      /\ kind = "Failed" => l.outcome = "Failed"
      /\ kind = "Connected" => tp.life.outcome = "Connected" /\ l.state = tp.life.state
      /\ kind \in {"Failed", "Disconnected"} => l.state = "Idle"
  BY <1>2, <1>4, CommitLife, TpFields
<1>6. kind = "Connected" => tp.life.state = "Connected"
  BY <1>2, <1>4, <1>5 DEF ConnectionSound, LiveConnection
<1>7. /\ tp' = [tp EXCEPT !.life = l]
      /\ \/ kind = "Connected" /\ worker' = Goto(worker, "RecordConnected")
         \/ kind = "Failed" /\ worker' = Goto(worker, "RecordFailed")
         \/ kind = "Disconnected" /\ worker' = Goto(worker, "RecordDisconnected")
  BY <1>4, <1>5 DEF CommitPublished
<1> HIDE DEF l
<1>8. /\ tp'.life = l /\ tp'.conn = tp.conn /\ tp'.disconnecting = tp.disconnecting
      /\ tp'.connectIo = tp.connectIo /\ tp'.send = tp.send
  BY <1>2, <1>7 DEF TransportState
<1>9. /\ worker'.inDrain = worker.inDrain /\ worker'.event = worker.event
      /\ \/ kind = "Connected" /\ worker'.pc = "RecordConnected"
         \/ kind = "Failed" /\ worker'.pc = "RecordFailed"
         \/ kind = "Disconnected" /\ worker'.pc = "RecordDisconnected"
  <2>1. {"RecordConnected", "RecordFailed", "RecordDisconnected"} \subseteq WorkerPcs BY PcsTyped
  <2> QED BY <1>2, <1>7, <2>1, GotoShape, SMTT(30)
<1> HIDE DEF kind
<1>10. Looked => Looked' BY <1>1, <1>9, StillInDrain, LookedStill
<1>11. EventPart' BY <1>3, <1>4, <1>5, <1>6, <1>8, <1>9 DEF EventPart, OpeningPcs
<1>12. LiveOn
  <2> SUFFICES ASSUME Live(tp') PROVE LiveOn BY DEF LiveOn
  <2>1. kind = "Connected" /\ Live(tp) /\ worker'.pc = "RecordConnected"
    BY <1>4, <1>8, <1>9 DEF Live
  <2> QED BY <1>1, <1>2, <1>5, <1>6, <1>8, <1>10, <2>1 DEF LiveOn, Reporting
<1>13. EndOn BY <1>4, <1>5, <1>8, <1>9 DEF EndOn, EndingPcs
<1> QED BY <1>1, <1>2, <1>5, <1>8, <1>11, <1>12, <1>13 DEF Calm

----------------------------------------
\* The steps of the worker that are not calm.
LEMMA OverAgreement ==
  ASSUME Lost(worker') \/ chan'.wakeFailure PROVE Agreement'
  BY DEF Agreement

LEMMA PumpStopAgreement == ASSUME IInv, PumpStop PROVE Agreement'
<1>1. worker \in WorkerStates /\ worker' = [worker EXCEPT !.pc = "Exit"]
  BY DEF PumpStop, IInv, TransportPart
<1>2. worker'.pc = "Exit" BY <1>1 DEF WorkerStates
<1> QED BY <1>2, OverAgreement DEF Lost, Failing

LEMMA WorkerExitsAgreement == ASSUME WorkerExits PROVE Agreement'
<1>1. worker'.pc = "Stopped" BY DEF WorkerExits, IdleWorker
<1> QED BY <1>1, OverAgreement DEF Lost, Failing

\* A drain that ends with a send still to be looked at is followed by another.
LEMMA CompleteDrainAgreement ==
  ASSUME IInv, Agreement, ~ chan.wakeFailure, CompleteDrain PROVE Agreement'
<1> DEFINE failed == worker.status # "Ok"
           again == NeedsReschedule(worker)
           done == Gate!CompleteDrain(gate, again)
           wakes == done.directive = "EnqueueReadyToken"
<1>1. /\ worker.pc = "CompleteDrain" /\ worker \in WorkerStates /\ worker.inDrain
      /\ gate \in Gate!GateWord /\ chan \in ChannelState
  BY DEF CompleteDrain, WorkerAt, IInv, TransportPart, WorkerFits, WorkerLocal, GatePart,
         ChannelPart
<1>2. gate.phase = "Draining" BY <1>1, DrainUnderWay DEF Draining
<1>3. again \in BOOLEAN BY DEF NeedsReschedule
<1>4. DrainOver(gate, again, done.word, wakes) BY <1>1, <1>2, <1>3, DrainDone
<1>5. /\ gate' = done.word
      /\ \/ worker' = (IF failed THEN Goto(worker, "Exit") ELSE IdleWorker) /\ chan' = chan
         \/ chan' = RecordWakeFailure(chan)
      /\ UNCHANGED <<slots, sends, tp, caller>>
  BY DEF CompleteDrain
<1>6. again <=> ~ failed /\ worker.drained = DrainBudget BY DEF NeedsReschedule
<1>7. failed <=> Lost(worker) BY <1>1 DEF Lost, Failing
<1> HIDE DEF again, done, wakes, failed
<1>8. CASE chan' = RecordWakeFailure(chan) BY <1>1, <1>8, WakeFailureShape, OverAgreement
<1>9. CASE failed /\ worker' = Goto(worker, "Exit")
  <2>1. "Exit" \in WorkerPcs BY PcsTyped
  <2>2. worker'.pc = "Exit" BY <1>1, <1>9, <2>1, GotoShape
  <2> QED BY <2>2, OverAgreement DEF Lost, Failing
<1>10. CASE ~ failed /\ worker' = IdleWorker /\ chan' = chan
  <2>1. worker'.pc = "Pump" BY <1>10, IdleWorkerShape
  <2>2. Plain(worker) /\ Plain(worker') /\ SendsLeft BY <1>1, <1>5, <2>1, PlainPlace, SendsKept
  <2>3. Looked => gate.pending \/ gate.resched \/ again \/ (caller.pc = "Commit" /\ caller.accepted)
    BY <1>1, <1>2, <1>6, <1>10 DEF Looked, Promised, StillToSend
  <2>4. gate.pending \/ gate.resched \/ again
        => gate'.pending \/ gate'.resched \/ gate'.phase = "Scheduled"
    BY <1>4, <1>5 DEF DrainOver
  <2>5. Looked => Looked' BY <1>5, <2>3, <2>4 DEF Looked, Promised
  <2> QED BY <1>5, <1>7, <1>10, <2>2, <2>5, PlainCalm, CalmKeeps
<1> QED BY <1>5, <1>8, <1>9, <1>10

\* The attempts are numbers, and so are those of the sends and the slots.
LEMMA Numbers ==
  ASSUME IInv
  PROVE  /\ tp.life.gen \in Nat /\ chan.gen \in Nat /\ chan.sendGen \in Nat
         /\ caller.gen \in Nat /\ slots["Connect"] \in {EmptySlot} \cup Nat
         /\ tp.conn \in Nat /\ \A i \in DOMAIN sends : sends[i] \in Nat
<1>1. Generations \subseteq Nat BY DEF Generations
<1>2. tp.life.gen \in Generations /\ tp.conn \in Generations
  BY TpFields, LifeFields DEF IInv, TransportPart
<1>3. chan.gen \in Generations /\ chan.sendGen \in Generations /\ caller.gen \in Generations
  BY ChannelFields, CallerFields DEF IInv, ChannelPart, CallerPart
<1>4. slots["Connect"] \in {EmptySlot} \cup Generations BY KindsAre DEF IInv, SlotsPart
<1>5. \A i \in DOMAIN sends : sends[i] \in Generations
  BY ElementOfSeq, LenProperties DEF IInv, SendsPart
<1> QED BY <1>1, <1>2, <1>3, <1>4, <1>5

\* A new attempt begins: its number is the one of the Connect that was in the slot.
LEMMA NewAttempt ==
  ASSUME IInv, Agreement, ~ Lost(worker), ~ chan.wakeFailure, UNCHANGED <<chan, sends, caller>>,
         slots["Connect"] # EmptySlot, slots'["Connect"] = EmptySlot,
         tp'.life.gen = slots["Connect"], tp'.conn \in {0, tp'.life.gen},
         EventPart', tp'.life.state # "Idle",
         tp'.conn # 0 => tp'.connectIo /\ tp'.life.state = "Connecting",
         tp'.conn = 0 => Publishing(worker')
  PROVE  Agreement'
<1>1. /\ AttemptsPart /\ AheadPart /\ OpenedPart BY DEF Agreement
<1>2. /\ tp.life.gen \in Nat /\ chan.gen \in Nat /\ chan.sendGen \in Nat
      /\ caller.gen \in Nat /\ slots["Connect"] \in {EmptySlot} \cup Nat
      /\ \A i \in DOMAIN sends : sends[i] \in Nat
  BY Numbers
<1>3. tp.life.gen < tp'.life.gen /\ tp'.life.gen <= chan.gen /\ tp'.life.gen \in Nat
  BY <1>1, <1>2 DEF AttemptsPart
<1>4. AttemptsPart' BY <1>1, <1>3 DEF AttemptsPart
<1>5. AheadPart' BY <1>1, <1>3 DEF AheadPart
<1>6. \A gen \in Nat : gen <= tp.life.gen => gen < tp'.life.gen BY <1>2, <1>3
<1>7. \A gen \in Nat : Opened(tp, gen) => gen < tp'.life.gen BY <1>6 DEF Opened
<1>8. \A gen \in Nat : gen < tp'.life.gen => Opened(tp', gen) BY <1>3 DEF Opened
<1>9. OpenedPart' BY <1>1, <1>2, <1>7, <1>8 DEF OpenedPart
<1>10. StatePart' BY DEF StatePart, Live
<1>11. EndPart' BY DEF EndPart
<1>12. ~ Queued'
  <2>1. \A i \in DOMAIN sends : sends[i] < tp'.life.gen BY <1>1, <1>2, <1>7 DEF OpenedPart
  <2> QED BY <1>2, <1>3, <2>1 DEF Queued, Live
<1> QED BY <1>4, <1>5, <1>9, <1>10, <1>11, <1>12 DEF Agreement, QueuedPart

LEMMA HandleConnectAgreement ==
  ASSUME IInv, Agreement, ~ chan.wakeFailure, HandleConnect PROVE Agreement'
<1> DEFINE l == Life!BeginConnect(tp.life).life
           t == [tp EXCEPT !.life = l]
<1>1. TryConsume("Connect") /\ "Connect" \in CommandKinds BY KindsAre DEF HandleConnect
<1>2. /\ worker.pc = "Scan" /\ worker \in WorkerStates /\ tp \in TransportState
      /\ ~ Lost(worker) /\ slots'["Connect"] = EmptySlot /\ slots["Connect"] # EmptySlot
  BY <1>1, CommandTaken DEF TryConsume
<1>3. UNCHANGED <<chan, sends, caller>> BY DEF HandleConnect
<1>4. CASE \/ slots["Connect"] # tp.life.gen + 1 \/ ~ Life!BeginConnect(tp.life).ok
           \/ tp.conn # 0
  <2>1. worker' = ReturnFailed(worker, "Connect") BY <1>4 DEF HandleConnect
  <2> QED BY <1>2, <2>1, ReturnFailedLost, Sites, OverAgreement
<1>5. CASE /\ slots["Connect"] = tp.life.gen + 1 /\ Life!BeginConnect(tp.life).ok
           /\ tp.conn = 0
  <2>1. /\ l \in Life!Lifecycle(Generations) /\ l.gen = slots["Connect"]
        /\ l.state = "Connecting" /\ l.gen \in Generations
    <3>1. tp.life \in Life!Lifecycle(Generations) /\ tp.life.gen \in Generations
          /\ slots["Connect"] \in Generations
      BY <1>1, <1>2, TpFields, LifeFields, ConsumedSlot DEF IInv
    <3>2. tp.life.gen + 1 \in Generations BY <1>5, <3>1
    <3> QED BY <1>5, <3>1, <3>2, BeginConnectLife
  <2>2. \/ /\ tp' = [t EXCEPT !.conn = t.life.gen, !.connectIo = TRUE]
           /\ worker' = ReturnOk(worker)
        \/ RecordConnectFailure(t, worker)
    BY <1>5 DEF HandleConnect
  <2> HIDE DEF l
  <2>3. t \in TransportState /\ t.life = l BY <1>2, <2>1 DEF TransportState
  <2> HIDE DEF t
  <2>4. CASE /\ tp' = [t EXCEPT !.conn = t.life.gen, !.connectIo = TRUE]
             /\ worker' = ReturnOk(worker)
    <3>1. tp'.life = l /\ tp'.conn = l.gen /\ tp'.connectIo BY <2>3, <2>4 DEF TransportState
    <3>2. EventPart' BY <1>2, <2>4, ReturnOkPlain, PlainEvents
    <3>3. l.gen # 0
      <4>1. tp.life.gen \in Nat BY Numbers
      <4> QED BY <1>5, <2>1, <4>1
    <3> QED BY <1>2, <1>3, <2>1, <3>1, <3>2, <3>3, NewAttempt
  <2>5. CASE RecordConnectFailure(t, worker)
    <3>1. \/ Lost(worker')
          \/ /\ tp'.conn = 0 /\ tp'.life.gen = l.gen /\ tp'.life.state # "Idle"
             /\ worker'.pc = "Publish" /\ worker'.event.gen = l.gen
      BY <1>2, <2>3, <2>5, RecordConnectFailureGoes
    <3>2. CASE Lost(worker') BY <3>2, OverAgreement
    <3>3. CASE /\ tp'.conn = 0 /\ tp'.life.gen = l.gen /\ tp'.life.state # "Idle"
               /\ worker'.pc = "Publish" /\ worker'.event.gen = l.gen
      <4>1. Publishing(worker') BY <3>3 DEF Publishing, EventPcs
      <4>2. EventPart' BY <3>3, <4>1, PublishingEvents
      <4> QED BY <1>2, <1>3, <2>1, <3>3, <4>1, <4>2, NewAttempt
    <3> QED BY <3>1, <3>2, <3>3
  <2> QED BY <2>2, <2>4, <2>5
<1> QED BY <1>4, <1>5

\* A step of the worker that writes no more than the channel's send generation.
LEMMA SendsOpened ==
  ASSUME Agreement, ~ Lost(worker), ~ chan.wakeFailure,
         UNCHANGED <<slots, sends, tp, caller>>,
         chan'.gen = chan.gen, chan'.state = chan.state, chan'.wakeFailure = chan.wakeFailure,
         Opened(tp, chan'.sendGen), EventPart',
         Publishing(worker) => Publishing(worker'),
         worker.pc \in EndingPcs => worker'.pc \in EndingPcs,
         Reporting(worker) /\ chan.gen = tp.life.gen /\ ~ Reporting(worker')
           => chan.state \in {"Connected", "Disconnecting", "Shutdown"},
         Queued => (Looked => Looked')
  PROVE  Agreement'
<1>1. /\ AttemptsPart /\ AheadPart /\ OpenedPart /\ StatePart /\ EndPart /\ QueuedPart
  BY DEF Agreement
<1>2. AttemptsPart' /\ AheadPart' BY <1>1 DEF AttemptsPart, AheadPart
<1>3. OpenedPart' BY <1>1 DEF OpenedPart
<1>4. StatePart' BY <1>1 DEF StatePart, DisconnectAsked
<1>5. EndPart' BY <1>1 DEF EndPart
<1>6. QueuedPart' BY <1>1 DEF QueuedPart, Queued
<1> QED BY <1>2, <1>3, <1>4, <1>5, <1>6 DEF Agreement

\* Where the worker is while it records an event, and what it then knows.
LEMMA RecordPlace ==
  ASSUME IInv, Agreement, ~ chan.wakeFailure, worker.pc \in RecordPcs
  PROVE  /\ tp \in TransportState /\ worker \in WorkerStates /\ chan \in ChannelState
         /\ ~ Lost(worker) /\ ~ Publishing(worker)
         /\ worker.event.gen = tp.life.gen
         /\ worker.pc \in OpeningPcs =>
              tp.conn # 0 /\ ~ tp.disconnecting /\ tp.life.state = "Connected"
         /\ worker.pc \in EndingPcs =>
              tp.conn = 0 /\ tp.life.state \in {"Idle", "Shutdown"}
         /\ worker.pc \in {"RecordFailed", "FailedIdle"} => tp.life.outcome = "Failed"
<1>1. /\ tp \in TransportState /\ worker \in WorkerStates /\ chan \in ChannelState
      /\ worker.pc \in EndingPcs => tp.conn = 0
  BY RecordStart DEF EndPcs, EndingPcs
<1>2. ~ Lost(worker) /\ ~ Publishing(worker) BY DEF Lost, Failing, Publishing, EventPcs, RecordPcs
<1>3. EventPart /\ EndPart BY <1>2 DEF Agreement
<1> QED BY <1>1, <1>2, <1>3 DEF EventPart, EndPart, RecordPcs, OpeningPcs, EndingPcs

LEMMA OpenSendsAgreement ==
  ASSUME IInv, Agreement, ~ chan.wakeFailure, OpenSends PROVE Agreement'
<1>1. /\ worker.pc = "OpenSends" /\ worker' = Goto(worker, "RecheckConnected")
      /\ chan' = [chan EXCEPT !.sendGen = worker.event.gen]
      /\ UNCHANGED <<gate, slots, sends, tp, caller>>
  BY DEF OpenSends, WorkerAt
<1>2. /\ tp \in TransportState /\ worker \in WorkerStates /\ chan \in ChannelState
      /\ ~ Lost(worker) /\ ~ Publishing(worker) /\ worker.event.gen = tp.life.gen
      /\ tp.conn # 0 /\ ~ tp.disconnecting /\ tp.life.state = "Connected"
  BY <1>1, RecordPlace DEF RecordPcs, OpeningPcs
<1>3. /\ chan'.gen = chan.gen /\ chan'.state = chan.state
      /\ chan'.wakeFailure = chan.wakeFailure /\ chan'.sendGen = worker.event.gen
  BY <1>1, <1>2 DEF ChannelState
<1>4. "RecheckConnected" \in WorkerPcs BY PcsTyped
<1>5. worker'.pc = "RecheckConnected" /\ worker'.event = worker.event
      /\ worker'.inDrain = worker.inDrain
  BY <1>1, <1>2, <1>4, GotoShape
<1>6. Opened(tp, chan'.sendGen)
  <2>1. tp.life.gen <= tp.life.gen BY Numbers
  <2> QED BY <1>2, <1>3, <2>1 DEF Opened
<1>7. EventPart' BY <1>1, <1>2, <1>5 DEF EventPart, EndingPcs
<1>8. Looked => Looked' BY <1>1, <1>5, StillInDrain, LookedStill
<1>9. ~ Reporting(worker) /\ worker.pc \notin EndingPcs BY <1>1, <1>2 DEF Reporting, EndingPcs
<1> QED BY <1>1, <1>2, <1>3, <1>6, <1>7, <1>8, <1>9, SendsOpened

LEMMA NoAttemptOpened == ASSUME IInv PROVE Opened(tp, 0)
<1>1. tp.life.gen \in Nat BY Numbers
<1> QED BY <1>1 DEF Opened

LEMMA RecheckConnectedAgreement ==
  ASSUME IInv, Agreement, ~ chan.wakeFailure, RecheckConnected PROVE Agreement'
<1>1. /\ worker.pc = "RecheckConnected" /\ worker' = ReturnOk(worker)
      /\ chan' = chan \/ chan' = [chan EXCEPT !.sendGen = 0]
      /\ UNCHANGED <<gate, slots, sends, tp, caller>>
  BY DEF RecheckConnected, WorkerAt
<1>2. /\ worker \in WorkerStates /\ chan \in ChannelState /\ OpenedPart
      /\ ~ Lost(worker) /\ ~ Publishing(worker)
  BY <1>1, RecordPlace DEF RecordPcs, Agreement
<1>3. /\ chan'.gen = chan.gen /\ chan'.state = chan.state
      /\ chan'.wakeFailure = chan.wakeFailure /\ chan'.sendGen \in {chan.sendGen, 0}
  BY <1>1, <1>2 DEF ChannelState
<1>4. Opened(tp, chan'.sendGen) BY <1>2, <1>3, NoAttemptOpened DEF OpenedPart
<1>5. Plain(worker') /\ (Looked => Looked') BY <1>1, <1>2, ReturnOkPlain, ReturnOkLooks
<1>6. EventPart' BY <1>5, PlainEvents
<1>7. ~ Reporting(worker) /\ worker.pc \notin EndingPcs BY <1>1, <1>2 DEF Reporting, EndingPcs
<1> QED BY <1>1, <1>2, <1>3, <1>4, <1>5, <1>6, <1>7, SendsOpened

\* The channel is connected from Connecting, unless a disconnect or a shutdown came first.
LEMMA RecordConnectSucceededAgreement ==
  ASSUME IInv, Agreement, ~ chan.wakeFailure, RecordConnectSucceeded PROVE Agreement'
<1>1. /\ worker.pc = "RecordConnected" /\ UNCHANGED <<gate, slots, sends, tp, caller>>
  BY DEF RecordConnectSucceeded, WorkerAt
<1>2. /\ tp \in TransportState /\ worker \in WorkerStates /\ chan \in ChannelState
      /\ ~ Lost(worker) /\ ~ Publishing(worker) /\ worker.event.gen = tp.life.gen
      /\ tp.conn # 0 /\ ~ tp.disconnecting /\ tp.life.state = "Connected"
  BY <1>1, RecordPlace DEF RecordPcs, OpeningPcs
<1>3. /\ AttemptsPart /\ AheadPart /\ OpenedPart /\ StatePart /\ EndPart /\ QueuedPart
  BY <1>2 DEF Agreement
<1>4. CASE /\ StillCurrent /\ chan.state = "Connecting"
           /\ chan' = [chan EXCEPT !.state = "Connected"]
           /\ worker' = Goto(worker, "OpenSends")
  <2>1. /\ chan'.gen = chan.gen /\ chan'.state = "Connected" /\ chan'.sendGen = chan.sendGen
        /\ chan.gen = tp.life.gen
    BY <1>2, <1>4 DEF ChannelState, StillCurrent
  <2>2. "OpenSends" \in WorkerPcs BY PcsTyped
  <2>3. worker'.pc = "OpenSends" /\ worker'.event = worker.event BY <1>2, <1>4, <2>2, GotoShape
  <2>4. slots["Connect"] = EmptySlot BY <1>3, <2>1, Numbers DEF AttemptsPart
  <2>5. AttemptsPart' BY <1>1, <1>3, <2>1 DEF AttemptsPart
  <2>6. AheadPart' BY <1>1, <2>1, <2>4, Numbers DEF AheadPart
  <2>7. EventPart' BY <1>1, <1>2, <2>3 DEF EventPart, EndingPcs
  <2>8. OpenedPart' BY <1>1, <1>3, <2>1 DEF OpenedPart
  <2>9. StatePart' BY <1>1, <1>2, <2>1 DEF StatePart
  <2>10. EndPart' BY <1>1, <1>2 DEF EndPart
  <2>11. ~ Queued BY <1>3, <1>4, <2>4 DEF QueuedPart
  <2>12. QueuedPart' BY <1>1, <2>11 DEF QueuedPart, Queued
  <2> QED BY <2>5, <2>6, <2>7, <2>8, <2>9, <2>10, <2>12 DEF Agreement
<1>5. CASE /\ worker' = ReturnOk(worker) /\ chan' = chan
           /\ ~ StillCurrent \/ chan.state \in {"Disconnecting", "Shutdown"}
  <2>1. Plain(worker') /\ (Looked => Looked') BY <1>1, <1>2, <1>5, ReturnOkPlain, ReturnOkLooks
  <2>2. EventPart' BY <2>1, PlainEvents
  <2>3. chan.gen = tp.life.gen => chan.state \in {"Disconnecting", "Shutdown"}
    BY <1>2, <1>5 DEF StillCurrent
  <2>4. worker.pc \notin EndingPcs /\ Opened(tp, chan'.sendGen)
    BY <1>1, <1>3, <1>5 DEF EndingPcs, OpenedPart
  <2> QED BY <1>1, <1>2, <1>5, <2>1, <2>2, <2>3, <2>4, SendsOpened
<1>6. CASE worker' = ReturnFailed(worker, "RecordConnected")
  BY <1>2, <1>6, ReturnFailedLost, Sites, OverAgreement
<1> QED BY <1>4, <1>5, <1>6 DEF RecordConnectSucceeded

\* The connection is gone and its end recorded; the channel may have become idle.
LEMMA EndRecorded ==
  ASSUME IInv, Agreement, ~ chan.wakeFailure, worker.pc \in EndPcs,
         UNCHANGED <<slots, sends, caller>>, tp' = Over(tp), worker' = ReturnOk(worker),
         chan'.gen = chan.gen, chan'.sendGen = chan.sendGen,
         chan'.state \in {chan.state, "Idle"},
         \/ chan.gen # tp.life.gen
         \/ chan'.state \in {"Idle", "Shutdown"}
         \/ chan'.state = "Disconnecting" /\ tp.life.outcome = "Failed"
  PROVE  Agreement'
<1>1. /\ tp \in TransportState /\ worker \in WorkerStates /\ ~ Lost(worker)
      /\ tp.conn = 0 /\ tp.life.state \in {"Idle", "Shutdown"}
  BY RecordPlace DEF EndPcs, RecordPcs, EndingPcs
<1>2. tp'.conn = 0 /\ tp'.life = tp.life BY <1>1 DEF Over, TransportState
<1>3. AttemptsPart /\ AheadPart /\ OpenedPart BY <1>1 DEF Agreement
<1>4. Plain(worker') BY <1>1, ReturnOkPlain
<1>5. AttemptsPart' BY <1>2, <1>3 DEF AttemptsPart
<1>6. AheadPart' BY <1>2, <1>3 DEF AheadPart
<1>7. EventPart' BY <1>4, PlainEvents
<1>8. OpenedPart' BY <1>2, <1>3 DEF OpenedPart, Opened
<1>9. StatePart' BY <1>2 DEF StatePart, Live
<1>10. EndPart' /\ QueuedPart' BY <1>1, <1>2 DEF EndPart, QueuedPart, Queued, Live
<1> QED BY <1>5, <1>6, <1>7, <1>8, <1>9, <1>10 DEF Agreement

LEMMA RecordEndAgreement ==
  ASSUME IInv, Agreement, ~ chan.wakeFailure, NEW pc \in EndPcs, NEW next \in EndPcs,
         RecordEnd(pc, next), next = "FailedIdle" => pc = "RecordFailed",
         next # "RecordFailed"
  PROVE  Agreement'
<1>1. worker.pc = pc /\ UNCHANGED <<gate, slots, sends, caller>> BY DEF RecordEnd, WorkerAt
<1>2. /\ tp \in TransportState /\ worker \in WorkerStates /\ chan \in ChannelState
      /\ ~ Lost(worker) /\ ~ Publishing(worker) /\ worker.event.gen = tp.life.gen
      /\ tp.conn = 0
      /\ pc = "RecordFailed" => tp.life.outcome = "Failed"
  BY <1>1, RecordPlace DEF EndPcs, RecordPcs, EndingPcs
<1>3. CASE StillCurrent
  <2>1. /\ chan' = [chan EXCEPT !.sendGen = 0] /\ worker' = Goto(worker, next) /\ tp' = tp
    BY <1>3 DEF RecordEnd
  <2>2. /\ chan'.gen = chan.gen /\ chan'.state = chan.state
        /\ chan'.wakeFailure = chan.wakeFailure /\ chan'.sendGen = 0
    BY <1>2, <2>1 DEF ChannelState
  <2>3. next \in WorkerPcs /\ next \in EndingPcs BY PcsTyped DEF EndPcs, EndingPcs
  <2>4. worker'.pc = next /\ worker'.event = worker.event BY <1>2, <2>1, <2>3, GotoShape
  <2>5. EventPart' BY <1>2, <2>1, <2>3, <2>4 DEF EventPart, EndingPcs, OpeningPcs
  <2>6. ~ Reporting(worker) /\ ~ Queued /\ Opened(tp, chan'.sendGen)
    <3>1. worker.pc # "RecordConnected" BY <1>1 DEF EndPcs
    <3> QED BY <1>2, <2>2, <3>1, NoAttemptOpened DEF Reporting, Queued, Live
  <2> QED BY <1>1, <1>2, <2>1, <2>2, <2>3, <2>4, <2>5, <2>6, SendsOpened
<1>4. CASE ~ StillCurrent
  <2>1. /\ worker' = ReturnOk(worker) /\ chan' = chan
        /\ tp' = [tp EXCEPT !.disconnecting = FALSE]
    BY <1>4 DEF RecordEnd
  <2>2. tp' = Over(tp) /\ chan.gen # tp.life.gen BY <1>2, <1>4, <2>1 DEF Over, StillCurrent
  <2> QED BY <1>1, <2>1, <2>2, EndRecorded
<1> QED BY <1>3, <1>4

LEMMA RecordConnectFailedAgreement ==
  ASSUME IInv, Agreement, ~ chan.wakeFailure, RecordConnectFailed PROVE Agreement'
<1>1. "RecordFailed" \in EndPcs /\ "FailedIdle" \in EndPcs BY DEF EndPcs
<1> QED BY <1>1, RecordEndAgreement DEF RecordConnectFailed

LEMMA RecordDisconnectedAgreement ==
  ASSUME IInv, Agreement, ~ chan.wakeFailure, RecordDisconnected PROVE Agreement'
<1>1. "RecordDisconnected" \in EndPcs /\ "DisconnectedIdle" \in EndPcs BY DEF EndPcs
<1> QED BY <1>1, RecordEndAgreement DEF RecordDisconnected

LEMMA BackToIdleAgreement ==
  ASSUME IInv, Agreement, ~ chan.wakeFailure, NEW pc \in EndPcs, NEW from, NEW tolerated,
         NEW site \in Statuses \ {"Ok", "EventSpace"}, BackToIdle(pc, from, tolerated, site),
         tolerated \ {"Shutdown"} \subseteq {"Disconnecting"},
         tolerated # {"Shutdown"} => pc = "FailedIdle"
  PROVE  Agreement'
<1>1. worker.pc = pc /\ UNCHANGED <<gate, slots, sends, caller>> BY DEF BackToIdle, WorkerAt
<1>2. /\ worker \in WorkerStates /\ chan \in ChannelState
      /\ pc = "FailedIdle" => tp.life.outcome = "Failed"
  BY <1>1, RecordPlace DEF EndPcs, RecordPcs
<1>3. CASE chan.state \in from \cup tolerated
  <2>1. /\ worker' = ReturnOk(worker) /\ tp' = Over(tp)
        /\ chan' = IF chan.state \in from THEN [chan EXCEPT !.state = "Idle"] ELSE chan
    BY <1>3 DEF BackToIdle, Over
  <2>2. /\ chan'.gen = chan.gen /\ chan'.sendGen = chan.sendGen
        /\ chan'.state = IF chan.state \in from THEN "Idle" ELSE chan.state
    BY <1>2, <2>1 DEF ChannelState
  <2>3. \/ chan'.state \in {"Idle", "Shutdown"}
        \/ chan'.state = "Disconnecting" /\ tp.life.outcome = "Failed"
    BY <1>2, <1>3, <2>2
  <2> QED BY <1>1, <2>1, <2>2, <2>3, EndRecorded
<1>4. CASE chan.state \notin from \cup tolerated
  <2>1. worker' = ReturnFailed(worker, site) BY <1>4 DEF BackToIdle
  <2> QED BY <1>2, <2>1, ReturnFailedLost, OverAgreement
<1> QED BY <1>3, <1>4

LEMMA FailedIdleAgreement ==
  ASSUME IInv, Agreement, ~ chan.wakeFailure, FailedIdle PROVE Agreement'
<1>1. "FailedIdle" \in EndPcs /\ "RecordFailed" \in Statuses \ {"Ok", "EventSpace"}
  BY Sites DEF EndPcs
<1> QED BY <1>1, BackToIdleAgreement DEF FailedIdle

LEMMA DisconnectedIdleAgreement ==
  ASSUME IInv, Agreement, ~ chan.wakeFailure, DisconnectedIdle PROVE Agreement'
<1>1. "DisconnectedIdle" \in EndPcs /\ "RecordDisconnected" \in Statuses \ {"Ok", "EventSpace"}
  BY Sites DEF EndPcs
<1> QED BY <1>1, BackToIdleAgreement DEF DisconnectedIdle

LEMMA MildKeeps ==
  ASSUME Agreement, ~ Lost(worker), ~ chan.wakeFailure, Mild PROVE Agreement'
<1>1. /\ AttemptsPart /\ AheadPart /\ EventPart /\ OpenedPart
      /\ StatePart /\ EndPart /\ QueuedPart
  BY DEF Agreement
<1>2. UNCHANGED <<slots, sends, tp, worker>> /\ chan'.gen = chan.gen BY DEF Mild
<1>3. AttemptsPart' BY <1>1, <1>2 DEF AttemptsPart, Mild
<1>4. AheadPart' BY <1>1, <1>2 DEF AheadPart, Mild, ConnectKnown
<1>5. EventPart' /\ EndPart' BY <1>1, <1>2 DEF EventPart, EndPart
<1>6. OpenedPart' BY <1>1, <1>2 DEF OpenedPart, Mild
<1>7. StatePart'
  <2> SUFFICES ASSUME chan.gen = tp.life.gen
               PROVE  (/\ Live(tp) /\ tp.life.state = "Connected" /\ ~ Reporting(worker)
                            => chan.state \in {"Connected", "Disconnecting", "Shutdown"}
                       /\ Live(tp) /\ ~ tp.connectIo /\ chan.state = "Disconnecting"
                            => DisconnectAsked
                       /\ tp.conn = 0 /\ tp.life.state = "Idle" /\ worker.pc \notin EndingPcs
                            => \/ chan.state \in {"Idle", "Shutdown"}
                               \/ caller.pc = "Generation"
                               \/ chan.state = "Disconnecting" /\ tp.life.outcome = "Failed")'
    BY <1>2 DEF StatePart
  <2>1. Live(tp) /\ tp.life.state = "Connected" /\ ~ Reporting(worker)
        => chan'.state \in {"Connected", "Disconnecting", "Shutdown"}
    BY <1>1 DEF StatePart, Mild
  <2>2. Live(tp) /\ ~ tp.connectIo /\ chan'.state = "Disconnecting" => DisconnectAsked'
    BY <1>1 DEF StatePart, Mild
  <2>3. tp.conn = 0 /\ tp.life.state = "Idle" /\ worker.pc \notin EndingPcs
        => \/ chan'.state \in {"Idle", "Shutdown"}
           \/ chan'.state = "Disconnecting" /\ tp.life.outcome = "Failed"
    BY <1>1 DEF StatePart, Mild
  <2> QED BY <1>2, <2>1, <2>2, <2>3
<1>8. QueuedPart'
  <2> SUFFICES ASSUME Queued PROVE (QueuedPart)' BY <1>2 DEF QueuedPart, Queued
  <2>1. \/ slots'["Connect"] # EmptySlot
        \/ /\ chan'.gen = tp'.life.gen /\ caller'.kind # "Connect"
           /\ chan'.state \in {"Connected", "Disconnecting", "Shutdown"}
    BY <1>1, <1>2 DEF QueuedPart, Mild
  <2>2. ~ tp'.send /\ chan'.gen = tp'.life.gen /\ chan'.state = "Connected" => Looked'
    BY <1>1, <1>2 DEF QueuedPart, Mild
  <2> QED BY <2>1, <2>2 DEF QueuedPart
<1> QED BY <1>3, <1>4, <1>5, <1>6, <1>7, <1>8 DEF Agreement

\* A step that leaves the channel alone, of a caller that publishes nothing.
LEMMA QuietMild ==
  ASSUME UNCHANGED <<chan, gate, slots, sends, tp, worker>>,
         caller.kind \notin {"Connect", "Disconnect", "Send"},
         caller.pc \notin {"Generation", "Commit"},
         caller'.kind \notin {"Connect", "Disconnect", "Send"}
  PROVE  Mild
<1>1. ~ ConnectUnderWay(caller) /\ ~ ConnectAhead(caller') /\ ~ ConnectUnderWay(caller')
  BY DEF ConnectUnderWay, ConnectAhead
<1>2. Looked => Looked' BY DEF Looked, Promised
<1>3. DisconnectAsked => DisconnectAsked' BY DEF DisconnectAsked
<1> QED BY <1>1, <1>2, <1>3 DEF Mild, ConnectKnown

LEMMA TryPopEventMild == ASSUME IInv, TryPopEvent PROVE Mild
<1>1. /\ caller.pc = "Idle" /\ caller' = [caller EXCEPT !.pc = "AdvancePos"]
      /\ UNCHANGED <<chan, gate, slots, sends, tp, worker>>
  BY DEF TryPopEvent, CallerAt
<1>2. caller.kind = "None" /\ caller'.kind = "None"
  BY <1>1, CallerTyped DEF CallerStates, CallerFits
<1> QED BY <1>1, <1>2, QuietMild

LEMMA AdvanceDequeuePosMild == ASSUME IInv, AdvanceDequeuePos PROVE Mild
<1>1. /\ caller.pc = "AdvancePos" /\ caller' = [caller EXCEPT !.pc = "CheckPending"]
      /\ UNCHANGED <<chan, gate, slots, sends, tp, worker>>
  BY DEF AdvanceDequeuePos, CallerAt
<1>2. caller.kind = "None" /\ caller'.kind = "None"
  BY <1>1, CallerTyped DEF CallerStates, CallerFits
<1> QED BY <1>1, <1>2, QuietMild

LEMMA CheckPendingMild == ASSUME IInv, CheckPending PROVE Mild
<1>1. /\ caller.pc = "CheckPending"
      /\ caller' \in {IdleCaller, [caller EXCEPT !.pc = "Signal", !.kind = "EventSpace"]}
      /\ UNCHANGED <<chan, gate, slots, sends, tp, worker>>
  BY DEF CheckPending, CallerAt
<1>2. caller.kind = "None" /\ caller'.kind \in {"None", "EventSpace"}
  BY <1>1, CallerTyped, CallerIdles DEF CallerStates, CallerFits
<1> QED BY <1>1, <1>2, QuietMild

LEMMA SignalEventSpaceAvailableMild ==
  ASSUME IInv, SignalEventSpaceAvailable PROVE Mild
<1>1. /\ caller.pc = "Signal"
      /\ UNCHANGED <<chan, gate, slots, sends, tp, worker>>
  BY DEF SignalEventSpaceAvailable, CallerAt
<1>2. caller.kind = "EventSpace" /\ caller'.kind = caller.kind
  BY <1>1, CallerTyped DEF CallerStates, CallerFits, SignalEventSpaceAvailable
<1> QED BY <1>1, <1>2, QuietMild

LEMMA ForgetWakeMild == ASSUME IInv, ForgetWake PROVE Mild
<1>1. /\ caller.pc = "ForgetWake" /\ caller' = IdleCaller
      /\ UNCHANGED <<chan, gate, slots, sends, tp, worker>>
  BY DEF ForgetWake, CallerAt
<1>2. caller.kind = "EventSpace" /\ caller'.kind = "None"
  BY <1>1, CallerTyped, CallerIdles DEF CallerFits
<1> QED BY <1>1, <1>2, QuietMild

\* The channel as one of its operations leaves it.
LEMMA ChannelSet ==
  ASSUME NEW c \in ChannelState, NEW state, NEW gen
  PROVE  /\ [c EXCEPT !.state = state].state = state
         /\ [c EXCEPT !.state = state].gen = c.gen
         /\ [c EXCEPT !.state = state].sendGen = c.sendGen
         /\ [c EXCEPT !.sendGen = gen].sendGen = gen
         /\ [c EXCEPT !.sendGen = gen].gen = c.gen
         /\ [c EXCEPT !.sendGen = gen].state = c.state
  BY DEF ChannelState

LEMMA SubmitDisconnectMild == ASSUME IInv, SubmitDisconnect PROVE Mild
<1>1. /\ caller.pc = "Idle" /\ chan.state \in {"Connecting", "Connected"}
      /\ chan' = [chan EXCEPT !.state = "Disconnecting"]
      /\ caller' = [caller EXCEPT !.pc = "CloseSends", !.kind = "Disconnect"]
      /\ UNCHANGED <<slots, sends, tp, worker>>
  BY DEF SubmitDisconnect, CallerAt
<1>2. caller.kind = "None" /\ caller'.kind = "Disconnect" /\ caller'.pc = "CloseSends"
  BY <1>1, CallerTyped DEF CallerStates, CallerFits
<1>3. chan'.gen = chan.gen /\ chan'.sendGen = chan.sendGen /\ chan'.state = "Disconnecting"
  BY <1>1, CallerTyped, ChannelSet
<1>4. ~ ConnectKnown /\ ~ ConnectAhead(caller')
  BY <1>1, <1>2 DEF ConnectKnown, ConnectUnderWay, ConnectAhead
<1>5. DisconnectAsked' BY <1>2 DEF DisconnectAsked
<1> QED BY <1>1, <1>2, <1>3, <1>4, <1>5 DEF Mild

LEMMA SubmitShutdownMild == ASSUME IInv, SubmitShutdown PROVE Mild
<1>1. /\ caller.pc = "Idle"
      /\ UNCHANGED <<gate, slots, sends, tp, worker>>
  BY DEF SubmitShutdown, CallerAt
<1>2. caller.kind = "None" BY <1>1, CallerTyped DEF CallerFits
<1>3. CASE chan.state = "Shutdown"
  <2>1. chan' = chan /\ caller'.kind = "None"
    BY <1>2, <1>3, CallerTyped DEF SubmitShutdown, CallerStates
  <2> QED BY <1>1, <1>2, <2>1, QuietMild
<1>4. CASE chan.state # "Shutdown"
  <2>1. /\ chan' = [chan EXCEPT !.state = "Shutdown"]
        /\ caller'.kind = "Shutdown" /\ caller'.pc = "CloseSends"
    BY <1>4, CallerTyped DEF SubmitShutdown, CallerStates
  <2>2. chan'.gen = chan.gen /\ chan'.sendGen = chan.sendGen /\ chan'.state = "Shutdown"
    BY <2>1, CallerTyped, ChannelSet
  <2>3. ConnectKnown' /\ ~ ConnectAhead(caller') BY <2>1, <2>2 DEF ConnectKnown, ConnectAhead
  <2> QED BY <1>1, <1>2, <2>1, <2>2, <2>3 DEF Mild
<1> QED BY <1>3, <1>4

LEMMA CloseSendsMild == ASSUME IInv, CloseSends PROVE Mild
<1>1. /\ caller.pc = "CloseSends" /\ chan' = [chan EXCEPT !.sendGen = 0]
      /\ caller' = [caller EXCEPT !.pc = "Admit"]
      /\ UNCHANGED <<gate, slots, sends, tp, worker>>
  BY DEF CloseSends, CallerAt
<1>2. /\ caller.kind \in {"Disconnect", "Shutdown"} /\ caller'.kind = caller.kind
      /\ caller'.pc = "Admit"
  BY <1>1, CallerTyped DEF CallerStates, CallerFits
<1>3. chan'.gen = chan.gen /\ chan'.sendGen = 0 /\ chan'.state = chan.state
  BY <1>1, CallerTyped, ChannelSet
<1>4. Opened(tp, 0) BY NoAttemptOpened
<1>5. /\ ~ ConnectAhead(caller')
      /\ ConnectKnown => ConnectKnown'
      /\ DisconnectAsked => DisconnectAsked'
      /\ Looked => Looked'
  BY <1>1, <1>2, <1>3
     DEF ConnectAhead, ConnectKnown, ConnectUnderWay, DisconnectAsked, Looked, Promised
<1> QED BY <1>1, <1>2, <1>3, <1>4, <1>5 DEF Mild

LEMMA SubmitSendMild == ASSUME IInv, SubmitSend PROVE Mild
<1>1. /\ caller.pc = "Idle"
      /\ caller' = [caller EXCEPT !.pc = "Admit", !.kind = "Send", !.gen = chan.sendGen]
      /\ UNCHANGED <<chan, gate, slots, sends, tp, worker>>
  BY DEF SubmitSend, CallerAt
<1>2. /\ caller.kind = "None" /\ caller'.kind = "Send" /\ caller'.gen = chan.sendGen
      /\ caller'.pc = "Admit"
  BY <1>1, CallerTyped DEF CallerStates, CallerFits
<1>3. /\ ~ ConnectAhead(caller')
      /\ ConnectKnown => ConnectKnown'
      /\ DisconnectAsked => DisconnectAsked'
      /\ Looked => Looked'
  BY <1>1, <1>2
     DEF ConnectAhead, ConnectKnown, ConnectUnderWay, DisconnectAsked, Looked, Promised
<1> QED BY <1>1, <1>2, <1>3 DEF Mild

LEMMA ClearSendGenerationMild == ASSUME IInv, ClearSendGeneration PROVE Mild
<1>1. /\ caller.pc = "ClearSendGen" /\ chan' = [chan EXCEPT !.sendGen = 0]
      /\ caller' = IdleCaller
      /\ UNCHANGED <<gate, slots, sends, tp, worker>>
  BY DEF ClearSendGeneration, CallerAt
<1>2. caller'.kind = "None" /\ caller'.pc = "Idle" BY <1>1, CallerIdles
<1>3. chan'.gen = chan.gen /\ chan'.sendGen = 0 /\ chan'.state = chan.state
  BY <1>1, CallerTyped, ChannelSet
<1>4. Opened(tp, 0) BY NoAttemptOpened
<1>5. /\ ~ ConnectAhead(caller')
      /\ ConnectKnown => ConnectKnown'
      /\ DisconnectAsked => DisconnectAsked'
      /\ Looked => Looked'
  BY <1>1, <1>2, <1>3
     DEF ConnectAhead, ConnectKnown, ConnectUnderWay, DisconnectAsked, Looked, Promised
<1> QED BY <1>1, <1>2, <1>3, <1>4, <1>5 DEF Mild

LEMMA TryBeginAdmissionMild == ASSUME IInv, TryBeginAdmission PROVE Mild
<1>1. /\ caller.pc = "Admit" /\ gate \in Gate!GateWord
      /\ GateFits(gate, caller, Draining(worker), "Commands" \in Kinds(port),
                  chan.wakeFailure)
      /\ UNCHANGED <<slots, sends, tp, worker>>
  BY DEF TryBeginAdmission, CallerAt, IInv, GatePart
<1>2. gate.phase # "Admitting" /\ gate.inFlight = 0 BY <1>1, GateFields DEF GateFits
<1>3. /\ gate' = Gate!TryBeginAdmission(gate) /\ chan' = chan
      /\ caller' = [caller EXCEPT !.pc = "Publish",
                                  !.ticket = Gate!AdmissionDecision(gate)]
  BY <1>2 DEF TryBeginAdmission, Gate!CanBeginAdmission
<1>4. caller'.pc = "Publish" /\ caller'.kind = caller.kind /\ caller'.gen = caller.gen
  BY <1>3, CallerTyped DEF CallerStates
<1>5. /\ gate.phase # "Idle" => /\ gate'.phase = gate.phase /\ gate'.pending = gate.pending
                                /\ gate'.resched = gate.resched
      /\ gate.phase = "Idle" => ~ gate.pending /\ ~ gate.resched
  BY <1>1, <1>3 DEF Gate!TryBeginAdmission, Gate!GateWord, GateFits
<1>6. Looked => Looked' BY <1>1, <1>5 DEF Looked, Promised
<1>7. /\ ConnectAhead(caller') => ConnectAhead(caller)
      /\ ConnectKnown => ConnectKnown'
      /\ DisconnectAsked => DisconnectAsked'
  BY <1>1, <1>3, <1>4 DEF ConnectAhead, ConnectKnown, ConnectUnderWay, DisconnectAsked
<1> QED BY <1>1, <1>3, <1>4, <1>6, <1>7 DEF Mild

\* The steps of the caller that number an attempt, or publish.
LEMMA SubmitConnectAgreement ==
  ASSUME IInv, Agreement, ~ Lost(worker), ~ chan.wakeFailure, SubmitConnect
  PROVE  Agreement'
<1>1. /\ AttemptsPart /\ AheadPart /\ EventPart /\ OpenedPart
      /\ StatePart /\ EndPart /\ QueuedPart
  BY DEF Agreement
<1>2. /\ caller.pc = "Idle" /\ chan.state = "Idle"
      /\ chan' = [chan EXCEPT !.state = "Connecting"]
      /\ caller' = [caller EXCEPT !.pc = "Generation", !.kind = "Connect"]
      /\ UNCHANGED <<slots, sends, tp, worker>>
  BY DEF SubmitConnect, CallerAt
<1>3. chan'.state = "Connecting" /\ chan'.gen = chan.gen /\ chan'.sendGen = chan.sendGen
  BY <1>2, CallerTyped, ChannelSet
<1>4. caller'.pc = "Generation" /\ caller'.kind = "Connect" BY <1>2, CallerTyped DEF CallerStates
<1>5. AttemptsPart' BY <1>1, <1>2, <1>3, <1>4 DEF AttemptsPart, ConnectAhead
<1>6. AheadPart' BY <1>4 DEF AheadPart, ConnectUnderWay
<1>7. EventPart' /\ EndPart' BY <1>1, <1>2 DEF EventPart, EndPart
<1>8. OpenedPart' BY <1>1, <1>2, <1>3, <1>4 DEF OpenedPart
<1>9. StatePart' BY <1>1, <1>2, <1>3, <1>4 DEF StatePart
<1>10. QueuedPart' BY <1>1, <1>2, <1>3 DEF QueuedPart, Queued
<1> QED BY <1>5, <1>6, <1>7, <1>8, <1>9, <1>10 DEF Agreement

LEMMA SetGenerationAgreement ==
  ASSUME IInv, Agreement, ~ Lost(worker), ~ chan.wakeFailure, SetGeneration
  PROVE  Agreement'
<1>1. /\ AttemptsPart /\ AheadPart /\ EventPart /\ OpenedPart
      /\ StatePart /\ EndPart /\ QueuedPart
  BY DEF Agreement
<1>2. /\ caller.pc = "Generation"
      /\ chan' = [chan EXCEPT !.gen = @ + 1]
      /\ caller' = [caller EXCEPT !.pc = "Admit"]
      /\ UNCHANGED <<slots, sends, tp, worker>>
  BY DEF SetGeneration, CallerAt
<1>3. chan'.state = chan.state /\ chan'.gen = chan.gen + 1 /\ chan'.sendGen = chan.sendGen
  BY <1>2, CallerTyped DEF ChannelState
<1>4. caller'.pc = "Admit" /\ caller.kind = "Connect" /\ caller'.kind = "Connect"
  BY <1>2, CallerTyped DEF CallerStates, CallerFits
<1>5. /\ tp.life.gen \in Nat /\ chan.gen \in Nat /\ slots["Connect"] \in {EmptySlot} \cup Nat
  BY Numbers
<1>6. tp.life.gen < chan'.gen BY <1>1, <1>3, <1>5 DEF AttemptsPart
<1>7. slots["Connect"] # EmptySlot =>
        tp.life.gen < slots["Connect"] /\ slots["Connect"] < chan'.gen
  BY <1>1, <1>3, <1>5 DEF AttemptsPart
<1>8. AttemptsPart' BY <1>2, <1>3, <1>5, <1>6, <1>7 DEF AttemptsPart
<1>9. AheadPart' BY <1>4 DEF AheadPart, ConnectUnderWay, ConnectAhead
<1>10. EventPart' /\ EndPart' BY <1>1, <1>2 DEF EventPart, EndPart
<1>11. OpenedPart' BY <1>1, <1>2, <1>3, <1>4 DEF OpenedPart
<1>12. chan'.gen # tp'.life.gen BY <1>2, <1>3, <1>5, <1>6
<1>13. StatePart' BY <1>12 DEF StatePart
<1>14. QueuedPart' BY <1>1, <1>2, <1>4, <1>12 DEF QueuedPart, Queued
<1> QED BY <1>8, <1>9, <1>10, <1>11, <1>13, <1>14 DEF Agreement

LEMMA TryPublishAgreement ==
  ASSUME IInv, Agreement, ~ Lost(worker), ~ chan.wakeFailure, TryPublish
  PROVE  Agreement'
<1> DEFINE free == slots[caller.kind] = EmptySlot
<1>1. /\ AttemptsPart /\ AheadPart /\ EventPart /\ OpenedPart
      /\ StatePart /\ EndPart /\ QueuedPart
  BY DEF Agreement
<1>2. /\ caller.pc = "Publish" /\ caller.kind # "Send" /\ SlotsPart
      /\ slots' = IF ~ free THEN slots
                  ELSE [slots EXCEPT ![caller.kind] = CommandGeneration(caller.kind)]
      /\ caller' = [caller EXCEPT !.pc = "Commit", !.accepted = free]
      /\ UNCHANGED <<chan, gate, sends, tp, worker>>
  BY DEF TryPublish, CallerAt, IInv
<1>3. caller.kind \in CommandKinds BY <1>2, CallerTyped DEF CallerStates, CallerFits
<1>4. /\ caller'.pc = "Commit" /\ caller'.kind = caller.kind /\ caller'.accepted = free
  BY <1>2, CallerTyped DEF CallerStates
<1>5. /\ \A k \in CommandKinds : k # caller.kind => slots'[k] = slots[k]
      /\ ~ free => slots' = slots
      /\ free => slots'[caller.kind] = CommandGeneration(caller.kind)
  BY <1>2, <1>3 DEF SlotsPart
<1>6. /\ tp.life.gen \in Nat /\ chan.gen \in Nat /\ slots["Connect"] \in {EmptySlot} \cup Nat
  BY Numbers
<1>7. EventPart' /\ EndPart' BY <1>1, <1>2 DEF EventPart, EndPart
<1>8. OpenedPart' BY <1>1, <1>2, <1>4 DEF OpenedPart
<1> HIDE DEF free
<1>9. CASE caller.kind = "Connect"
  <2>1. /\ tp.life.gen < chan.gen
        /\ slots["Connect"] # EmptySlot => slots["Connect"] < chan.gen
    BY <1>1, <1>2, <1>9 DEF AttemptsPart, ConnectAhead
  <2>2. free => slots'["Connect"] = chan.gen BY <1>5, <1>9 DEF CommandGeneration
  <2>3. ~ free => slots'["Connect"] = slots["Connect"] BY <1>5
  <2>4. free <=> ~ ConnectAhead(caller') BY <1>4, <1>9 DEF ConnectAhead
  <2>5. chan.gen # EmptySlot BY <1>6 DEF EmptySlot
  <2>6. AttemptsPart'
    <3>1. CASE free BY <1>2, <1>6, <2>1, <2>2, <2>4, <3>1 DEF AttemptsPart
    <3>2. CASE ~ free BY <1>1, <1>2, <2>1, <2>3, <3>2 DEF AttemptsPart
    <3> QED BY <3>1, <3>2
  <2>7. AheadPart'
    <3>1. CASE free BY <1>2, <2>2, <2>5, <3>1 DEF AheadPart
    <3>2. CASE ~ free BY <2>4, <3>2 DEF AheadPart, ConnectUnderWay
    <3> QED BY <3>1, <3>2
  <2>8. chan'.gen # tp'.life.gen BY <1>2, <1>6, <2>1
  <2>9. StatePart' BY <2>8 DEF StatePart
  <2>10. QueuedPart'
    <3>1. Queued => slots["Connect"] # EmptySlot BY <1>1, <1>9 DEF QueuedPart
    <3>2. Queued' => slots'["Connect"] # EmptySlot BY <1>2, <2>2, <2>3, <2>5, <3>1 DEF Queued
    <3> QED BY <2>8, <3>2 DEF QueuedPart
  <2> QED BY <1>7, <1>8, <2>6, <2>7, <2>9, <2>10 DEF Agreement
<1>10. CASE caller.kind # "Connect"
  <2>1. slots'["Connect"] = slots["Connect"] BY <1>5, <1>10, KindsAre
  <2>2. ~ ConnectUnderWay(caller) /\ ~ ConnectUnderWay(caller') /\ ~ ConnectAhead(caller')
    BY <1>4, <1>10 DEF ConnectUnderWay, ConnectAhead
  <2>3. AttemptsPart' /\ AheadPart' BY <1>1, <1>2, <2>1, <2>2 DEF AttemptsPart, AheadPart
  <2>4. chan.gen = tp.life.gen /\ DisconnectAsked => DisconnectAsked'
    <3>1. CASE caller.kind = "Disconnect"
      BY <1>2, <1>4, <1>5, <3>1 DEF DisconnectAsked, CommandGeneration
    <3>2. CASE caller.kind # "Disconnect" BY <1>2, <1>5, <3>2, KindsAre DEF DisconnectAsked
    <3> QED BY <3>1, <3>2
  <2>5. StatePart'
    <3>1. chan'.gen = tp'.life.gen => chan.gen = tp.life.gen BY <1>2
    <3> QED BY <1>1, <1>2, <2>4, <3>1 DEF StatePart
  <2>6. Looked => Looked' BY <1>2 DEF Looked, Promised
  <2>7. QueuedPart' BY <1>1, <1>2, <1>4, <1>10, <2>1, <2>6 DEF QueuedPart, Queued
  <2> QED BY <1>7, <1>8, <2>3, <2>5, <2>7 DEF Agreement
<1> QED BY <1>9, <1>10

LEMMA PushSendAgreement ==
  ASSUME IInv, Agreement, ~ Lost(worker), ~ chan.wakeFailure, PushSend
  PROVE  Agreement'
<1> DEFINE valid == chan.state = "Connected" /\ chan.sendGen = caller.gen
<1>1. /\ AttemptsPart /\ AheadPart /\ EventPart /\ OpenedPart
      /\ StatePart /\ EndPart /\ QueuedPart
  BY DEF Agreement
<1>2. /\ caller.pc = "Publish" /\ caller.kind = "Send"
      /\ sends' = IF valid THEN Append(sends, caller.gen) ELSE sends
      /\ caller' = [caller EXCEPT !.pc = "Commit", !.accepted = valid]
      /\ UNCHANGED <<chan, gate, slots, tp, worker>>
  BY DEF PushSend, CallerAt
<1>3. valid => chan.state = "Connected" OBVIOUS
<1> HIDE DEF valid
<1>4. /\ caller'.pc = "Commit" /\ caller'.kind = "Send" /\ caller'.accepted = valid
      /\ caller'.gen = caller.gen
  BY <1>2, CallerTyped DEF CallerStates
<1>5. AttemptsPart' /\ AheadPart'
  BY <1>1, <1>2, <1>4 DEF AttemptsPart, AheadPart, ConnectUnderWay, ConnectAhead
<1>6. EventPart' /\ EndPart' BY <1>1, <1>2 DEF EventPart, EndPart
<1>7. \A i \in DOMAIN sends' : sends'[i] = caller.gen \/ \E j \in DOMAIN sends : sends'[i] = sends[j]
  <2>1. sends \in Seq(Generations) /\ caller.gen \in Generations
    BY CallerTyped, CallerFields DEF IInv, SendsPart
  <2>2. CASE valid BY <1>2, <2>1, <2>2, AppendProperties, LenProperties
  <2>3. CASE ~ valid BY <1>2, <2>3
  <2> QED BY <2>2, <2>3
<1>8. OpenedPart' BY <1>1, <1>2, <1>4, <1>7 DEF OpenedPart
<1>9. StatePart'
  <2>1. DisconnectAsked => DisconnectAsked' BY <1>2 DEF DisconnectAsked
  <2> QED BY <1>1, <1>2, <2>1 DEF StatePart
<1>10. QueuedPart'
  <2>1. CASE valid
    <3>1. Looked' BY <1>4, <2>1 DEF Looked, Promised
    <3>2. ~ ConnectUnderWay(caller) BY <1>2 DEF ConnectUnderWay, ConnectAhead
    <3>3. slots["Connect"] # EmptySlot \/ chan.gen = tp.life.gen
      BY <1>1, <1>3, <2>1, <3>2, Numbers DEF AttemptsPart, AheadPart
    <3> QED BY <1>2, <1>3, <1>4, <2>1, <3>1, <3>3 DEF QueuedPart
  <2>2. CASE ~ valid
    <3>1. sends' = sends BY <1>2, <2>2
    <3>2. Looked => Looked' BY <1>2 DEF Looked, Promised
    <3> QED BY <1>1, <1>2, <1>4, <3>1, <3>2 DEF QueuedPart, Queued
  <2> QED BY <2>1, <2>2
<1> QED BY <1>5, <1>6, <1>8, <1>9, <1>10 DEF Agreement

LEMMA AfterCommitKind ==
  ASSUME caller \in CallerStates, NEW woken \in BOOLEAN
  PROVE  AfterCommit(caller.kind, caller.accepted, woken).kind \in {"None", caller.kind}
  BY CallerIdles DEF AfterCommit, CallerStates

LEMMA CompleteAdmissionAgreement ==
  ASSUME IInv, Agreement, ~ Lost(worker), ~ chan.wakeFailure, CompleteAdmission
  PROVE  Agreement'
<1> DEFINE resolution == IF caller.accepted THEN "MailboxCommitted" ELSE "MailboxRejected"
           done == Gate!CompleteAdmission(gate, caller.ticket, resolution)
           wakes == done.directive = "EnqueueReadyToken"
<1>1. /\ caller.pc = "Commit" /\ caller \in CallerStates /\ chan \in ChannelState
      /\ gate \in Gate!GateWord /\ caller.accepted \in BOOLEAN
      /\ GateFits(gate, caller, Draining(worker), "Commands" \in Kinds(port),
                  chan.wakeFailure)
  BY CallerTyped, CallerFields DEF CompleteAdmission, CallerAt, IInv, GatePart
<1>2. /\ gate.inFlight = 1 /\ gate.phase # "Idle" /\ caller.ticket # "Rejected"
      /\ caller.ticket = "RequiresNewPermit" <=> gate.phase = "Admitting"
      /\ gate.phase \in {"Admitting", "Scheduled"} => ~ gate.resched /\ ~ gate.pending
      /\ gate.phase \in {"Admitting", "Scheduled", "Draining", "DrainCompleting"}
  BY <1>1, GateFields DEF GateFits, Gate!Phases
<1>3. AdmissionOver(gate, caller.accepted, done.word, wakes) BY <1>1, <1>2, AdmissionDone
<1>4. /\ gate' = done.word
      /\ \/ /\ chan' = IF caller.accepted THEN chan
                       ELSE ChannelAfterRefusal(chan, caller.kind)
            /\ caller' = AfterCommit(caller.kind, caller.accepted, TRUE)
         \/ chan' = Unwoken(caller.accepted, caller.kind)
      /\ UNCHANGED <<slots, sends, tp, worker>>
  BY DEF CompleteAdmission, Unwoken
<1> HIDE DEF done, resolution, wakes
<1>5. CASE chan'.wakeFailure BY <1>5, OverAgreement
<1>6. ASSUME caller' = AfterCommit(caller.kind, caller.accepted, TRUE)
      PROVE  /\ caller'.pc \in {"ClearSendGen", "Join", "ForgetWake", "Idle"}
             /\ caller'.kind \in {"None", caller.kind} /\ caller'.kind # "Send"
  BY <1>1, <1>6, AfterCommitPlace, AfterCommitKind, AfterCommitShape
<1>7. CASE /\ chan' = chan /\ caller' = AfterCommit(caller.kind, caller.accepted, TRUE)
           /\ caller.accepted \/ caller.kind \notin {"Connect", "Disconnect"}
  <2>1. Looked => Looked'
    <3>1. gate.phase = "Scheduled" => gate'.phase = "Scheduled" BY <1>3, <1>4 DEF AdmissionOver
    <3>2. Promised => gate'.pending \/ gate'.resched \/ gate'.phase = "Scheduled"
      BY <1>1, <1>2, <1>3, <1>4 DEF AdmissionOver, Promised
    <3> QED BY <1>4, <3>1, <3>2 DEF Looked, Promised
  <2>2. ~ ConnectUnderWay(caller) /\ ~ ConnectAhead(caller')
    BY <1>1, <1>6, <1>7 DEF ConnectUnderWay, ConnectAhead
  <2>3. DisconnectAsked => DisconnectAsked' BY <1>1, <1>4, <1>7 DEF DisconnectAsked
  <2>4. Mild BY <1>1, <1>4, <1>6, <1>7, <2>1, <2>2, <2>3 DEF Mild, ConnectKnown
  <2> QED BY <2>4, MildKeeps
<1>8. CASE /\ ~ caller.accepted /\ chan' = ChannelAfterRefusal(chan, caller.kind)
           /\ caller' = AfterCommit(caller.kind, caller.accepted, TRUE)
  <2>1. CASE caller.kind = "Connect"
    <3>1. chan' = [chan EXCEPT !.state = "Idle"] BY <1>8, <2>1 DEF ChannelAfterRefusal
    <3>2. chan'.state = "Idle" /\ chan'.gen = chan.gen /\ chan'.sendGen = chan.sendGen
      BY <1>1, <3>1, ChannelSet
    <3>3. ConnectAhead(caller) /\ ~ ConnectAhead(caller')
      BY <1>1, <1>6, <1>8, <2>1 DEF ConnectAhead
    <3>4. /\ AttemptsPart /\ EventPart /\ OpenedPart /\ EndPart /\ QueuedPart BY DEF Agreement
    <3>5. tp.life.gen < chan.gen /\ tp.life.gen \in Nat /\ chan.gen \in Nat
      BY <3>3, <3>4, Numbers DEF AttemptsPart
    <3>6. AttemptsPart' /\ AheadPart' BY <1>4, <3>2, <3>3, <3>4 DEF AttemptsPart, AheadPart
    <3>7. EventPart' /\ EndPart' BY <1>4, <3>4 DEF EventPart, EndPart
    <3>8. OpenedPart' BY <1>4, <1>6, <1>8, <3>2, <3>4 DEF OpenedPart
    <3>9. chan'.gen # tp'.life.gen BY <1>4, <3>2, <3>5
    <3>10. StatePart' BY <3>9 DEF StatePart
    <3>11. QueuedPart' BY <1>4, <2>1, <3>4, <3>9 DEF QueuedPart, Queued
    <3> QED BY <3>6, <3>7, <3>8, <3>10, <3>11 DEF Agreement
  <2>2. CASE caller.kind \in {"Disconnect", "Shutdown"}
    <3>1. chan' = RecordWakeFailure(chan) BY <1>8, <2>2 DEF ChannelAfterRefusal
    <3> QED BY <1>1, <1>5, <3>1, WakeFailureShape
  <2>3. CASE caller.kind \notin {"Connect", "Disconnect", "Shutdown"}
    <3>1. chan' = chan BY <1>8, <2>3 DEF ChannelAfterRefusal
    <3> QED BY <1>7, <1>8, <2>3, <3>1
  <2> QED BY <2>1, <2>2, <2>3
<1>9. CASE /\ caller.accepted /\ chan' = chan
           /\ caller' = AfterCommit(caller.kind, caller.accepted, TRUE)
  BY <1>7, <1>9
<1> QED BY <1>1, <1>4, <1>5, <1>8, <1>9, UnwokenShape

LEMMA SameAgreement ==
  ASSUME Agreement, UNCHANGED <<chan, gate, slots, sends, tp, caller, worker>>
  PROVE  Agreement'
<1>1. ~ Lost(worker') /\ ~ chan'.wakeFailure =>
        /\ AttemptsPart /\ AheadPart /\ EventPart /\ OpenedPart
        /\ StatePart /\ EndPart /\ QueuedPart
  BY DEF Agreement
<1>2. /\ AttemptsPart' = AttemptsPart /\ AheadPart' = AheadPart /\ EventPart' = EventPart
  BY DEF AttemptsPart, AheadPart, EventPart
<1>3. OpenedPart' = OpenedPart /\ EndPart' = EndPart BY DEF OpenedPart, EndPart
<1>4. StatePart' = StatePart BY DEF StatePart, DisconnectAsked
<1>5. QueuedPart' = QueuedPart BY DEF QueuedPart, Queued, Looked, Promised
<1> QED BY <1>1, <1>2, <1>3, <1>4, <1>5 DEF Agreement

----------------------------------------
\* A failed wake is never taken back.
LEMMA FailureStays ==
  ASSUME IInv, [Next]_vars, chan.wakeFailure PROVE chan'.wakeFailure
<1>1. chan \in ChannelState BY DEF IInv, ChannelPart
<1>2. /\ \A state : [chan EXCEPT !.state = state].wakeFailure
      /\ \A gen : [chan EXCEPT !.sendGen = gen].wakeFailure
      /\ \A gen : [chan EXCEPT !.gen = gen].wakeFailure
      /\ RecordWakeFailure(chan).wakeFailure
      /\ \A kind : ChannelAfterRefusal(chan, kind).wakeFailure
      /\ \A accepted, kind : Unwoken(accepted, kind).wakeFailure
  BY <1>1, RefusalShape, WakeFailureShape, UnwokenShape DEF ChannelState
<1>3. CASE CallerNext
  <2>1. CASE SubmitConnect \/ SetGeneration \/ SubmitDisconnect \/ SubmitShutdown
             \/ CloseSends \/ ClearSendGeneration
    BY <1>2, <2>1
       DEF SubmitConnect, SetGeneration, SubmitDisconnect, SubmitShutdown, CloseSends,
           ClearSendGeneration
  <2>2. CASE TryBeginAdmission BY <1>2, <2>2 DEF TryBeginAdmission
  <2>3. CASE CompleteAdmission BY <1>2, <2>3 DEF CompleteAdmission, Unwoken
  <2>4. CASE SubmitSend \/ TryPublish \/ PushSend \/ TryPopEvent \/ AdvanceDequeuePos
             \/ CheckPending \/ SignalEventSpaceAvailable \/ ForgetWake \/ Join
    BY <2>4 DEF SubmitSend, TryPublish, PushSend, TryPopEvent, AdvanceDequeuePos,
                CheckPending, SignalEventSpaceAvailable, ForgetWake, Join
  <2> QED BY <1>3, <2>1, <2>2, <2>3, <2>4 DEF CallerNext
<1>4. CASE WorkerNext
  <2>1. CASE PumpStop \/ PumpCommands \/ ScanEmpty \/ HandleConnect \/ HandleDisconnect
             \/ HandleShutdown \/ HandleEventSpaceAvailable \/ DrainEmpty
             \/ TryConsumeNextSend
    BY <2>1 DEF PumpStop, PumpCommands, ScanEmpty, HandleConnect, HandleDisconnect,
                HandleShutdown, HandleEventSpaceAvailable, DrainEmpty, TryConsumeNextSend,
                shared
  <2>2. CASE PumpConnect \/ ConnectShutdown \/ ConnectOutcome \/ PumpRecv
             \/ PublishPacketReceived \/ PumpSend \/ TryStartNextSend \/ TryFinishDisconnect
    BY <2>2 DEF PumpConnect, ConnectShutdown, ConnectOutcome, PumpRecv,
                PublishPacketReceived, PumpSend, TryStartNextSend, TryFinishDisconnect, shared
  <2>3. CASE PublishLifecycleEvent \/ PushEvent \/ DeferEvent \/ PromoteOutcome
             \/ PromoteEnded \/ PromoteDone \/ PromoteFull \/ CommitPublished \/ WorkerExits
    BY <2>3 DEF PublishLifecycleEvent, PushEvent, DeferEvent, PromoteOutcome,
                PromoteEnded, PromoteDone, PromoteFull, CommitPublished, WorkerExits, shared
  <2>4. CASE RecordConnectSucceeded \/ OpenSends \/ RecheckConnected
             \/ RecordConnectFailed \/ RecordDisconnected
    BY <1>2, <2>4 DEF RecordConnectSucceeded, OpenSends, RecheckConnected,
                RecordConnectFailed, RecordDisconnected, RecordEnd
  <2>5. CASE FailedIdle \/ DisconnectedIdle
    BY <1>2, <2>5 DEF FailedIdle, DisconnectedIdle, BackToIdle
  <2>6. CASE CompleteDrain BY <1>2, <2>6 DEF CompleteDrain
  <2> QED BY <1>4, <2>1, <2>2, <2>3, <2>4, <2>5, <2>6 DEF WorkerNext
<1>5. CASE KernelCompletes \/ UNCHANGED vars BY <1>5 DEF KernelCompletes, vars
<1> QED BY <1>3, <1>4, <1>5 DEF Next

LEMMA CallerNextAgreement ==
  ASSUME IInv, Agreement, ~ chan.wakeFailure, CallerNext PROVE Agreement'
<1>1. CASE Lost(worker) BY <1>1, CallerLeaves, OverAgreement
<1>2. CASE Join
  <2>1. worker.pc \in {"Stopped", "Crashed"} BY <1>2 DEF Join, IsRunning
  <2> QED BY <1>1, <2>1 DEF Lost, Failing
<1>3. CASE ~ Lost(worker) /\ ~ Join
  <2>1. CASE SubmitConnect \/ SetGeneration \/ TryPublish \/ PushSend \/ CompleteAdmission
    BY <1>3, <2>1, SubmitConnectAgreement, SetGenerationAgreement, TryPublishAgreement,
       PushSendAgreement, CompleteAdmissionAgreement
  <2>2. CASE SubmitDisconnect \/ SubmitShutdown \/ CloseSends \/ SubmitSend
             \/ TryBeginAdmission \/ ClearSendGeneration
    BY <1>3, <2>2, MildKeeps, SubmitDisconnectMild, SubmitShutdownMild, CloseSendsMild,
       SubmitSendMild, TryBeginAdmissionMild, ClearSendGenerationMild
  <2>3. CASE TryPopEvent \/ AdvanceDequeuePos \/ CheckPending
             \/ SignalEventSpaceAvailable \/ ForgetWake
    BY <1>3, <2>3, MildKeeps, TryPopEventMild, AdvanceDequeuePosMild, CheckPendingMild,
       SignalEventSpaceAvailableMild, ForgetWakeMild
  <2> QED BY <1>3, <2>1, <2>2, <2>3 DEF CallerNext
<1> QED BY <1>1, <1>2, <1>3

LEMMA WorkerNextAgreement ==
  ASSUME IInv, Agreement, ~ chan.wakeFailure, WorkerNext PROVE Agreement'
<1>1. CASE PumpStop \/ HandleConnect \/ CompleteDrain \/ WorkerExits
           \/ RecordConnectSucceeded \/ OpenSends \/ RecheckConnected
           \/ RecordConnectFailed \/ RecordDisconnected \/ FailedIdle \/ DisconnectedIdle
  BY <1>1, PumpStopAgreement, HandleConnectAgreement, CompleteDrainAgreement,
     WorkerExitsAgreement, RecordConnectSucceededAgreement, OpenSendsAgreement,
     RecheckConnectedAgreement, RecordConnectFailedAgreement,
     RecordDisconnectedAgreement, FailedIdleAgreement, DisconnectedIdleAgreement
<1>2. CASE PumpCommands \/ ScanEmpty \/ HandleDisconnect \/ HandleShutdown
           \/ HandleEventSpaceAvailable \/ DrainEmpty \/ TryConsumeNextSend
           \/ PumpConnect \/ ConnectShutdown \/ ConnectOutcome
  BY <1>2, CalmKeeps, PumpCommandsCalm, ScanEmptyCalm, HandleDisconnectCalm,
     HandleShutdownCalm, HandleEventSpaceAvailableCalm, DrainEmptyCalm,
     TryConsumeNextSendCalm, PumpConnectCalm, ConnectShutdownCalm, ConnectOutcomeCalm
<1>3. CASE PumpRecv \/ PublishPacketReceived \/ PumpSend \/ TryStartNextSend
           \/ TryFinishDisconnect
  BY <1>3, CalmKeeps, PumpRecvCalm, PublishPacketReceivedCalm, PumpSendCalm,
     TryStartNextSendCalm, TryFinishDisconnectCalm
<1>4. CASE PublishLifecycleEvent \/ PushEvent \/ DeferEvent \/ PromoteOutcome
           \/ PromoteEnded \/ PromoteDone \/ PromoteFull \/ CommitPublished
  BY <1>4, CalmKeeps, PublishLifecycleEventCalm, PushEventCalm, DeferEventCalm,
     PromoteOutcomeCalm, PromoteEndedCalm, PromoteDoneCalm, PromoteFullCalm,
     CommitPublishedCalm
<1> QED BY <1>1, <1>2, <1>3, <1>4 DEF WorkerNext

LEMMA NextAgreement == ASSUME IInv, Agreement, [Next]_vars PROVE Agreement'
<1>1. CASE chan.wakeFailure BY <1>1, FailureStays, OverAgreement
<1>2. CASE KernelCompletes \/ UNCHANGED vars
  <2>1. UNCHANGED <<chan, gate, slots, sends, tp, caller, worker>>
    BY <1>2 DEF KernelCompletes, vars
  <2> QED BY <2>1, SameAgreement
<1>3. CASE ~ chan.wakeFailure /\ (CallerNext \/ WorkerNext)
  BY <1>3, CallerNextAgreement, WorkerNextAgreement
<1> QED BY <1>1, <1>2, <1>3 DEF Next

LEMMA InitAgreement == ASSUME Init PROVE Agreement
<1>1. /\ worker = IdleWorker /\ caller = IdleCaller /\ sends = <<>>
      /\ chan = [state |-> "Idle", gen |-> 0, sendGen |-> 0, wakeFailure |-> FALSE]
      /\ slots = [k \in CommandKinds |-> EmptySlot]
      /\ tp.life = Life!InitialLifecycle /\ tp.conn = 0
  BY DEF Init
<1>2. /\ caller.pc = "Idle" /\ caller.kind = "None" /\ worker.pc = "Pump"
      /\ worker.event = NoEvent
  BY <1>1, CallerIdles, IdleWorkerShape
<1>3. /\ slots["Connect"] = EmptySlot /\ chan.gen = 0 /\ chan.sendGen = 0
      /\ chan.state = "Idle" /\ tp.life.gen = 0 /\ tp.life.state = "Idle"
  BY <1>1, KindsAre DEF Life!InitialLifecycle
<1>4. ~ ConnectUnderWay(caller) /\ ~ ConnectAhead(caller)
  BY <1>2 DEF ConnectUnderWay, ConnectAhead
<1>5. ~ Publishing(worker) /\ worker.pc \notin OpeningPcs \cup EndingPcs
  BY <1>2 DEF Publishing, EventPcs, OpeningPcs, EndingPcs
<1>6. AttemptsPart /\ AheadPart BY <1>3, <1>4 DEF AttemptsPart, AheadPart
<1>7. EventPart /\ EndPart BY <1>3, <1>5 DEF EventPart, EndPart, OpeningPcs, EndingPcs
<1>8. OpenedPart BY <1>1, <1>2, <1>3 DEF OpenedPart, Opened
<1>9. StatePart /\ QueuedPart BY <1>1, <1>3 DEF StatePart, QueuedPart, Queued, Live
<1> QED BY <1>6, <1>7, <1>8, <1>9 DEF Agreement

\* The third inductive invariant, on top of the others.
LEMMA AgreementInvariant == Spec => [](IInv /\ Promises /\ Agreement)
<1>1. Init => IInv /\ Agreement BY InitKeeps, InitAgreement
<1>2. IInv /\ Agreement /\ [Next]_vars => (IInv /\ Agreement)' BY NextKeeps, NextAgreement
<1> QED BY <1>1, <1>2, PromisesInvariant, PTL DEF Spec

----------------------------------------
\* What the agreement gives.
\* A send that waits while the worker rests is of an attempt the channel has as
\* connected, and has a drain to come, or of one that is being ended.
LEMMA SendsWake ==
  ASSUME IInv, Promises, Agreement, worker.pc = "Pump", ~ chan.wakeFailure, SendWaits
  PROVE  WakeComing \/ DiscardComing
<1>1. /\ ConnectionSound(tp, worker) /\ ~ worker.inDrain /\ ~ Lost(worker)
      /\ worker.status = "Ok"
  BY DEF IInv, TransportPart, WorkerFits, WorkerLocal, Lost, Failing
<1>2. Queued /\ Live(tp) /\ tp.conn # 0 /\ ~ tp.send BY DEF SendWaits, Queued, Live
<1>3. OpenedPart /\ StatePart /\ QueuedPart BY <1>1 DEF Agreement
<1>4. CASE slots["Connect"] # EmptySlot BY <1>1, <1>4, CommandsWake, KindsAre
<1>5. CASE /\ slots["Connect"] = EmptySlot /\ chan.gen = tp.life.gen
           /\ chan.state = "Connected"
  <2>1. Looked BY <1>2, <1>3, <1>5 DEF QueuedPart
  <2>2. Promised \/ gate.phase = "Scheduled" BY <1>1, <2>1 DEF Looked, StillToSend
  <2> QED BY <2>2, PromisedWakes
<1>6. CASE chan.gen = tp.life.gen /\ chan.state = "Disconnecting"
  <2>1. tp.life.state = "Connected" BY <1>2, <1>3 DEF OpenedPart, Opened, SendWaits
  <2>2. ~ tp.connectIo BY <1>1, <1>2, <2>1 DEF ConnectionSound, LiveConnection
  <2>3. DisconnectAsked BY <1>2, <1>3, <1>6, <2>2 DEF StatePart
  <2>4. CASE slots["Disconnect"] = tp.life.gen
    <3>1. slots["Disconnect"] # EmptySlot BY <2>4, Numbers DEF EmptySlot
    <3> QED BY <1>1, <3>1, CommandsWake, KindsAre
  <2>5. CASE caller.kind = "Disconnect" /\ caller.pc \in {"CloseSends", "Admit"}
    BY <2>5 DEF DiscardComing
  <2>6. CASE caller.pc \in {"Publish", "Commit"} BY <2>6 DEF WakeComing
  <2> QED BY <2>3, <2>4, <2>5, <2>6 DEF DisconnectAsked
<1>7. CASE chan.state = "Shutdown"
  <2>1. Calling("Shutdown") \/ caller.pc \in {"Join", "Closed"} BY <1>7 DEF Promises, ShutdownPart
  <2>2. CASE Calling("Shutdown") BY <2>2 DEF Calling, DiscardComing, WakeComing
  <2>3. CASE caller.pc = "Join"
    <3>1. slots["Shutdown"] # EmptySlot \/ tp.shutdown BY <1>1, <2>3 DEF Promises, ShutdownPart
    <3>2. ~ tp.shutdown BY <1>1, <1>2 DEF ConnectionSound, LiveConnection, Live
    <3> QED BY <1>1, <3>1, <3>2, CommandsWake, KindsAre
  <2>4. caller.pc # "Closed"
    <3>1. CASE gate.phase = "Scheduled" /\ "Commands" \notin Kinds(port)
      BY <3>1 DEF IInv, GatePart, GateFits
    <3>2. CASE ~ NoDrainToCome BY <3>2 DEF Promises, WakePart, SpaceKnown
    <3> QED BY <3>1, <3>2 DEF NoDrainToCome
  <2> QED BY <2>1, <2>2, <2>3, <2>4
<1> QED BY <1>2, <1>3, <1>4, <1>5, <1>6, <1>7 DEF QueuedPart

\* NothingStranded for every value of the constants: as long as the port has refused
\* no wake-up, a command the caller of NrClient left in its slot is looked at, a send
\* that could be posted is posted or discarded, and Shutdown's join waits for what
\* the kernel holds, however the caller's admissions interleave with the drains.
THEOREM NothingIsStranded == Spec => []NothingStranded
<1>1. ASSUME IInv, Promises, Agreement PROVE NoStrandedCommand
  <2> SUFFICES ASSUME IsRunning, worker.pc # "Exit", ~ chan.wakeFailure, ~ tp.stopPosted
               PROVE  /\ (\E k \in CommandKinds : slots[k] # EmptySlot) => WakeComing
                      /\ SendWaits => WakeComing \/ DiscardComing \/ worker.pc # "Pump"
    BY DEF NoStrandedCommand
  <2>1. CASE Lost(worker)
    <3>1. worker.pc = "CompleteDrain" BY <2>1 DEF Lost, Failing, IsRunning
    <3>2. worker.inDrain BY <1>1, <3>1 DEF IInv, TransportPart, WorkerFits, WorkerLocal
    <3> QED BY <3>2 DEF WakeComing
  <2>2. CASE ~ Lost(worker) BY <1>1, <2>2, CommandsWake, SendsWake
  <2> QED BY <2>1, <2>2
<1>2. IInv /\ Promises /\ Agreement => NothingStranded
  BY <1>1, JoinWaitsForTheKernel DEF NothingStranded
<1> QED BY <1>2, AgreementInvariant, PTL

\* RestingAgreement for every value of the constants: when the caller and the
\* worker rest, the channel's atomics and the transport's lifecycle record, which
\* both threads write at different times, tell of the same connection, but for
\* the two kinds of lost command the property names.
THEOREM RestingAgreementHolds == Spec => []RestingAgreement
<1>1. ASSUME IInv, Promises, Agreement PROVE RestingAgreement
  <2> SUFFICES ASSUME Resting, ~ tp.disconnecting, ~ tp.connectIo
               PROVE  \/ chan.gen = tp.life.gen /\ chan.state = tp.life.state
                      \/ chan.gen = tp.life.gen /\ LostDisconnect
                      \/ LostConnect
    BY DEF RestingAgreement
  <2>1. /\ \A k \in CommandKinds : slots[k] = EmptySlot
        /\ ~ tp.shutdown /\ caller.pc # "Join"
    BY <1>1, AtRestNothingWaits
  <2>2. worker.pc = "Pump" /\ ~ chan.wakeFailure /\ caller.pc = "Idle" BY <2>1 DEF Resting
  <2>3. ConnectionSound(tp, worker) /\ ~ Lost(worker) /\ ~ Publishing(worker)
    BY <1>1, <2>2 DEF IInv, TransportPart, WorkerFits, WorkerLocal, Lost, Failing,
                      Publishing, EventPcs
  <2>4. AttemptsPart /\ AheadPart /\ StatePart /\ EndPart BY <1>1, <2>2, <2>3 DEF Agreement
  <2>5. caller.kind = "None" /\ chan.state \in Life!LifecycleStates
    BY <1>1, <2>2, CallerTyped, ChannelFields DEF CallerFits
  <2>6. slots["Connect"] = EmptySlot /\ slots["Disconnect"] = EmptySlot BY <2>1, KindsAre
  <2>7. chan.state # "Shutdown" BY <1>1, <2>2 DEF Promises, ShutdownPart, Calling
  <2>8. ~ ConnectUnderWay(caller) /\ ~ DisconnectAsked
    <3>1. slots["Disconnect"] # tp.life.gen BY <1>1, <2>6, Numbers DEF EmptySlot
    <3> QED BY <2>5, <3>1 DEF ConnectUnderWay, ConnectAhead, DisconnectAsked
  <2>9. CASE chan.gen # tp.life.gen
    <3>1. tp.life.gen < chan.gen BY <1>1, <2>4, <2>9, Numbers DEF AttemptsPart
    <3>2. chan.state = "Idle" BY <2>4, <2>6, <2>7, <2>8, <3>1 DEF AheadPart
    <3> QED BY <1>1, <3>1, <3>2, Numbers DEF LostConnect
  <2>10. CASE chan.gen = tp.life.gen /\ tp.conn # 0
    <3>1. tp.life.state = "Connected"
      BY <2>1, <2>2, <2>3, <2>10 DEF ConnectionSound, LiveConnection
    <3>2. chan.state \in {"Connected", "Disconnecting"}
      BY <2>2, <2>3, <2>4, <2>7, <2>10, <3>1 DEF StatePart, Live, Reporting
    <3>3. chan.state # "Disconnecting" BY <2>4, <2>8, <2>10 DEF StatePart, Live
    <3> QED BY <2>10, <3>1, <3>2, <3>3
  <2>11. CASE chan.gen = tp.life.gen /\ tp.conn = 0
    <3>1. tp.life.state = "Idle" BY <2>1, <2>3, <2>4, <2>11 DEF EndPart, ConnectionSound
    <3>2. chan.state = "Idle" \/ (chan.state = "Disconnecting" /\ tp.life.outcome = "Failed")
      BY <2>2, <2>4, <2>7, <2>11, <3>1 DEF StatePart, EndingPcs
    <3> QED BY <2>11, <3>1, <3>2 DEF LostDisconnect
  <2> QED BY <2>9, <2>10, <2>11
<1> QED BY <1>1, AgreementInvariant, PTL
=============================================================================
