-------------------------- MODULE ClientLifecycle --------------------------
(***************************************************************************)
(* NrClientLifecycleStateMachine: the state of the client's connection as  *)
(* its I/O worker sees it, the number of the current attempt, and which of *)
(* the attempt's two notifications (its outcome, its end) are recorded and *)
(* which have been handed to the event store.  Only the worker uses it, so *)
(* each method is an operator from the old record to the new one and the   *)
(* status it returns.                                                      *)
(***************************************************************************)
EXTENDS Naturals

LifecycleStates == {"Idle", "Connecting", "Connected", "Disconnecting",
                    "Shutdown"}

Outcomes == {"None", "Connected", "Failed"}

Lifecycle(Generations) ==
    [state: LifecycleStates, gen: Generations, outcome: Outcomes,
     outcomeCommitted: BOOLEAN, ended: BOOLEAN, endCommitted: BOOLEAN]

InitialLifecycle ==
    [state |-> "Idle", gen |-> 0, outcome |-> "None",
     outcomeCommitted |-> FALSE, ended |-> FALSE, endCommitted |-> FALSE]

Accept(l) == [ok |-> TRUE, life |-> l]
Refuse(l) == [ok |-> FALSE, life |-> l]

ResetAttemptPublication_KeepsEnd(l) ==
    [l EXCEPT !.outcome = "None", !.outcomeCommitted = FALSE, !.endCommitted = FALSE]

ResetAttemptPublication(l) ==
    [l EXCEPT !.outcome = "None", !.outcomeCommitted = FALSE,
              !.ended = FALSE, !.endCommitted = FALSE]

BeginConnect(l) ==
    IF l.state # "Idle" THEN Refuse(l)
    ELSE Accept([ResetAttemptPublication(l) EXCEPT !.gen = @ + 1,
                                                   !.state = "Connecting"])

\* A completion of an older attempt, or one that finds a disconnect accepted
\* before it, is ignored.
IgnoresOutcome(l, gen) ==
    gen # l.gen \/ (l.state = "Disconnecting" /\ l.outcome = "None")

AwaitsOutcome(l) ==
    l.state = "Connecting" /\ l.outcome = "None" /\ ~l.ended

RecordConnectSucceeded(l, gen) ==
    CASE IgnoresOutcome(l, gen) -> Accept(l)
      [] ~IgnoresOutcome(l, gen) /\ ~AwaitsOutcome(l) -> Refuse(l)
      [] OTHER -> Accept([l EXCEPT !.outcome = "Connected", !.state = "Connected"])

RecordConnectFailed(l, gen) ==
    CASE IgnoresOutcome(l, gen) -> Accept(l)
      [] ~IgnoresOutcome(l, gen) /\ ~AwaitsOutcome(l) -> Refuse(l)
      [] OTHER -> Accept([l EXCEPT !.outcome = "Failed"])

RequestDisconnect(l) ==
    IF l.state \in {"Connecting", "Connected", "Disconnecting"}
    THEN Accept([l EXCEPT !.state = "Disconnecting"])
    ELSE Refuse(l)

RecordDisconnected(l, gen) ==
    CASE gen # l.gen -> Accept(l)
      [] gen = l.gen /\ (\/ l.state \notin {"Connected", "Disconnecting"}
                         \/ l.outcome = "Failed" \/ l.ended) -> Refuse(l)
      [] OTHER -> Accept([l EXCEPT !.ended = TRUE, !.state = "Disconnecting"])

Shutdown(l) ==
    IF l.state = "Shutdown" THEN l
    ELSE [ResetAttemptPublication(l) EXCEPT !.state = "Shutdown"]

\* The outcome of an attempt is handed over before its end.
NextPendingKind(l) ==
    CASE l.outcome # "None" /\ ~l.outcomeCommitted -> l.outcome
      [] ~(l.outcome # "None" /\ ~l.outcomeCommitted) /\ l.ended /\ ~l.endCommitted ->
           "Disconnected"
      [] OTHER -> "None"

CommitNextPending(l) ==
    CASE NextPendingKind(l) = "Connected" ->
           Accept([l EXCEPT !.outcomeCommitted = TRUE])
      [] NextPendingKind(l) = "Failed" ->
           Accept([l EXCEPT !.outcomeCommitted = TRUE, !.state = "Idle"])
      [] NextPendingKind(l) = "Disconnected" ->
           Accept([l EXCEPT !.endCommitted = TRUE, !.state = "Idle"])
      [] OTHER -> Refuse(l)

CanSend(l) ==
    l.state = "Connected" /\ l.outcome = "Connected" /\ l.outcomeCommitted /\ ~l.ended

=============================================================================
