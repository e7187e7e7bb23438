----------------------------- MODULE AuditTrail -----------------------------
(***************************************************************************)
(* What a registered sink promises, without goroutines, selects or         *)
(* shutdown protocol (internal/sinks/sink.go, the comments of Sink, Add    *)
(* and Close): a bounded FIFO of events that are recorded in the order     *)
(* they were accepted, each at most once, an event that is not recorded    *)
(* being counted as lost; a sink stops when nothing is left to record and  *)
(* its trail never changes after that.                                     *)
(***************************************************************************)
EXTENDS Naturals, Sequences, Functions

CONSTANTS Sinks, Events, Capacity

VARIABLES pending, trail, lost, stopped
vars == <<pending, trail, lost, stopped>>

Seen(s) == Range(pending[s]) \union Range(trail[s]) \union lost[s]

Init ==
    /\ pending = [s \in Sinks |-> <<>>]
    /\ trail = [s \in Sinks |-> <<>>]
    /\ lost = [s \in Sinks |-> {}]
    /\ stopped = {}

(* An event is accepted once. Nothing keeps a stopped sink from accepting. *)
Accept(s, e) ==
    /\ e \notin Seen(s) /\ Len(pending[s]) < Capacity
    /\ pending' = [pending EXCEPT ![s] = Append(@, e)]
    /\ UNCHANGED <<trail, lost, stopped>>

(* An event is turned away, and counted, only when the queue is full. *)
Refuse(s, e) ==
    /\ e \notin Seen(s) /\ Len(pending[s]) >= Capacity - 1
    /\ lost' = [lost EXCEPT ![s] = @ \union {e}]
    /\ UNCHANGED <<pending, trail, stopped>>

Record(s) ==
    /\ s \notin stopped /\ pending[s] # <<>>
    /\ trail' = [trail EXCEPT ![s] = Append(@, Head(pending[s]))]
    /\ pending' = [pending EXCEPT ![s] = Tail(@)]
    /\ UNCHANGED <<lost, stopped>>

Fail(s) ==
    /\ s \notin stopped /\ pending[s] # <<>>
    /\ lost' = [lost EXCEPT ![s] = @ \union {Head(pending[s])}]
    /\ pending' = [pending EXCEPT ![s] = Tail(@)]
    /\ UNCHANGED <<trail, stopped>>

Stop(s) ==
    /\ s \notin stopped /\ pending[s] = <<>>
    /\ stopped' = stopped \union {s}
    /\ UNCHANGED <<pending, trail, lost>>

Next ==
    \E s \in Sinks :
        \/ \E e \in Events : Accept(s, e) \/ Refuse(s, e)
        \/ Record(s) \/ Fail(s) \/ Stop(s)

Spec == Init /\ [][Next]_vars
=============================================================================
