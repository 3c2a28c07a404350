------------------------ MODULE SessionEventChannel ------------------------
(***************************************************************************)
(* What the Runtime promises the World about each session: an unbounded    *)
(* FIFO of facts, which starts with one Accepted, goes on with packets and *)
(* ends with one Closed.  Nothing recorded is lost, repeated or overtaken  *)
(* by a later fact of the same session.  NrToWorldHandoff implements this  *)
(* with one bounded queue and a slot per session.                          *)
(***************************************************************************)
EXTENDS Naturals, Sequences

CONSTANT Sessions

VARIABLES phase,     \* how far the recording of each session has come
          channel    \* the facts recorded and not yet delivered

vars == <<phase, channel>>

Init ==
    /\ phase = [k \in Sessions |-> "Unknown"]
    /\ channel = [k \in Sessions |-> <<>>]

Record(k, fact) == channel' = [channel EXCEPT ![k] = Append(@, fact)]

Accept(k) ==
    /\ phase[k] = "Unknown"
    /\ phase' = [phase EXCEPT ![k] = "Open"]
    /\ Record(k, "Accepted")

Packet(k) ==
    /\ phase[k] = "Open"
    /\ Record(k, "Packet")
    /\ UNCHANGED phase

Close(k) ==
    /\ phase[k] = "Open"
    /\ phase' = [phase EXCEPT ![k] = "Ended"]
    /\ Record(k, "Closed")

\* One call delivers some facts of some sessions, each session's oldest first.
Deliver ==
    /\ \A k \in Sessions : \E n \in 0 .. Len(channel[k]) :
          channel'[k] = SubSeq(channel[k], n + 1, Len(channel[k]))
    /\ UNCHANGED phase

Next == \/ \E k \in Sessions : Accept(k) \/ Packet(k) \/ Close(k)
        \/ Deliver

Spec == Init /\ [][Next]_vars

=============================================================================
