------------------------- MODULE Dispatcher_proofs -------------------------
(***************************************************************************)
(* Proofs about module Dispatcher, for every number of goroutines, sinks,  *)
(* calls and every capacity of the queues: the invariants, the order of    *)
(* the events, and that it implements the audit trail of module AuditTrail *)
(* sink by sink.                                                           *)
(***************************************************************************)
EXTENDS Dispatcher, SequenceTheorems, TLAPS

(* Every next sink is a sink or 0, the end of Dispatch's loop. *)
LEMMA AfterSinkType ==
    \A s \in Sinks : AfterSink(s) \in 0..NumSinks
BY DispatcherAssumption DEF AfterSink, Sinks

(* The type invariant: in particular no queue outgrows its capacity,       *)
(* however Dispatch, the workers and Close interleave (sink.go, Dispatch). *)
THEOREM TypeCorrect == Spec => []TypeOK
<1>1. Init => TypeOK
  BY DispatcherAssumption DEF Init, TypeOK, Phases, Sinks, Events
<1>2. TypeOK /\ [Next]_vars => TypeOK'
  <2> SUFFICES ASSUME TypeOK, [Next]_vars PROVE TypeOK'
    OBVIOUS
  <2> USE DispatcherAssumption DEF TypeOK
  <2>1. ASSUME NEW t \in Threads, DispatchRefused(t) PROVE TypeOK'
    BY <2>1 DEF DispatchRefused, workerVars, closeVars, Phases
  <2>2. ASSUME NEW t \in Threads, DispatchBegin(t) PROVE TypeOK'
    BY <2>2 DEF DispatchBegin, workerVars, closeVars, Phases
  <2>3. ASSUME NEW t \in Threads, Enqueue(t) PROVE TypeOK'
    <3>1. at[t] \in Sinks /\ CurrentEvent(t) \in Events
      BY <2>3 DEF Enqueue, CurrentEvent, Events, Sinks
    <3>2. queue' \in [Sinks -> Seq(Events)]
      BY <2>3, <3>1 DEF Enqueue
    <3>3. \A s \in Sinks : Len(queue'[s]) <= QueueSize
      <4> TAKE s \in Sinks
      <4>1. CASE s = at[t]
        BY <2>3, <3>1, <4>1 DEF Enqueue, HasRoom
      <4>2. CASE s # at[t]
        BY <2>3, <3>1, <4>2 DEF Enqueue
      <4> QED BY <4>1, <4>2
    <3>4. at' \in [Threads -> 0..NumSinks] /\ \A u \in Threads : at'[u] # 0 => sent'[u] # 0
      BY <2>3, <3>1, AfterSinkType DEF Enqueue
    <3> QED BY <2>3, <3>2, <3>3, <3>4 DEF Enqueue, workerVars, closeVars
  <2>4. ASSUME NEW t \in Threads, GiveUp(t) PROVE TypeOK'
    BY <2>4 DEF GiveUp, workerVars, closeVars
  <2>5. ASSUME NEW t \in Threads, Drop(t) PROVE TypeOK'
    <3>1. at[t] \in Sinks /\ CurrentEvent(t) \in Events
      BY <2>5 DEF Drop, CurrentEvent, Events, Sinks
    <3>2. at' \in [Threads -> 0..NumSinks] /\ \A u \in Threads : at'[u] # 0 => sent'[u] # 0
      BY <2>5, <3>1, AfterSinkType DEF Drop, Sinks
    <3> QED BY <2>5, <3>1, <3>2 DEF Drop, workerVars, closeVars
  <2>6. ASSUME NEW s \in Sinks, Take(s) PROVE TypeOK'
    <3>1. queue[s] \in Seq(Events) /\ queue[s] # <<>>
      BY <2>6 DEF Take
    <3>2. Head(queue[s]) \in Events /\ Tail(queue[s]) \in Seq(Events)
          /\ Len(Tail(queue[s])) <= QueueSize
      BY <3>1
    <3>3. queue' \in [Sinks -> Seq(Events)] /\ \A u \in Sinks : Len(queue'[u]) <= QueueSize
      BY <2>6, <3>2 DEF Take
    <3>4. busy' \in [Sinks -> {<<>>} \union {<<e>> : e \in Events}]
      BY <2>6, <3>2 DEF Take
    <3>5. UNCHANGED <<at, sent, worker, dropped, failed, written, closeVars>>
      BY <2>6 DEF Take, dispatchVars
    <3> QED BY <3>3, <3>4, <3>5 DEF closeVars
  <2>7. ASSUME NEW s \in Sinks, SeeDone(s) \/ WorkerExit(s) PROVE TypeOK'
    BY <2>7 DEF SeeDone, WorkerExit, dispatchVars, closeVars
  <2>8. ASSUME NEW s \in Sinks, deliver(s) PROVE TypeOK'
    <3>1. Head(busy[s]) \in Events
      BY <2>8 DEF deliver, WriteSucceeds, WriteFails
    <3>2. busy' \in [Sinks -> {<<>>} \union {<<e>> : e \in Events}]
      <4>1. busy' = [busy EXCEPT ![s] = <<>>]
        BY <2>8 DEF deliver, WriteSucceeds, WriteFails
      <4> DEFINE Slot == {<<>>} \union {<<e>> : e \in Events}
      <4>2. <<>> \in Slot /\ busy \in [Sinks -> Slot]
        OBVIOUS
      <4> HIDE DEF Slot
      <4>3. busy' \in [Sinks -> Slot]
        BY <4>1, <4>2
      <4> QED BY <4>3 DEF Slot
    <3>3. written' \in [Sinks -> Seq(Events)] /\ failed' \in [Sinks -> SUBSET Events]
      <4>1. CASE WriteSucceeds(s)
        BY <3>1, <4>1 DEF WriteSucceeds
      <4>2. CASE WriteFails(s)
        BY <3>1, <4>2 DEF WriteFails
      <4> QED BY <2>8, <4>1, <4>2 DEF deliver
    <3>4. UNCHANGED <<at, sent, queue, dropped, worker, closeVars>>
      BY <2>8 DEF deliver, WriteSucceeds, WriteFails, dispatchVars
    <3> QED BY <3>2, <3>3, <3>4 DEF closeVars
  <2>9. ASSUME NEW c \in Closers, CallClose(c) \/ CloseReturn(c) PROVE TypeOK'
    BY <2>9 DEF CallClose, CloseReturn, dispatchVars, workerVars
  <2>10. ASSUME CloseBody PROVE TypeOK'
    <3>1. CASE BeginClose
      <4>1. \A s \in Sinks : Undelivered(s) \in SUBSET Events
        <5> TAKE s \in Sinks
        <5>1. Range(queue[s]) \in SUBSET Events
          BY DEF Range
        <5>2. Range(busy[s]) \in SUBSET Events
          <6>1. busy[s] = <<>> \/ \E e \in Events : busy[s] = <<e>>
            OBVIOUS
          <6>2. ASSUME NEW e \in Events, busy[s] = <<e>> PROVE Range(busy[s]) = {e}
            BY <6>2 DEF Range
          <6>3. busy[s] = <<>> => Range(busy[s]) = {}
            BY DEF Range
          <6> QED BY <6>1, <6>2, <6>3
        <5> QED BY <5>1, <5>2 DEF Undelivered
      <4> QED BY <3>1, <4>1 DEF BeginClose, dispatchVars, workerVars, Phases
    <3>2. CASE CloseNextSink
      BY <3>2 DEF CloseNextSink, dispatchVars, workerVars, Sinks
    <3>3. CASE GraceExpires \/ Drained \/ CloseEnds
      BY <3>3 DEF GraceExpires, Drained, CloseEnds, dispatchVars, workerVars, Phases
    <3> QED BY <2>10, <3>1, <3>2, <3>3 DEF CloseBody
  <2>11. CASE UNCHANGED vars
    BY <2>11 DEF vars, dispatchVars, workerVars, closeVars
  <2> QED
    BY <2>1, <2>2, <2>3, <2>4, <2>5, <2>6, <2>7, <2>8, <2>9, <2>10, <2>11
    DEF Next, Dispatch, Offer, run
<1> QED BY <1>1, <1>2, PTL DEF Spec

-----------------------------------------------------------------------------
(* Shutdown. ClosedSinksAreQuiet is not inductive: that a closed sink has  *)
(* no worker left follows from where Close is, so CloseInv ties the phase  *)
(* of Close to the workers and to the sinks it has closed.                 *)
CloseInv ==
    /\ TypeOK
    /\ \A s \in Sinks : worker[s] = "exited" => busy[s] = <<>>
    /\ phase \in {"reporting", "closed"} => AllExited
    /\ nextClose # 1 => phase \in {"reporting", "closed"}
    /\ closed = Closable \intersect (1..(nextClose - 1))
    /\ phase = "closed" => nextClose = NumSinks + 1
    /\ \A c \in Closers : closer[c] = "returned" => phase = "closed"

LEMMA CloseInvariant == Spec => []CloseInv
<1>1. Init => CloseInv
  <2> SUFFICES ASSUME Init PROVE CloseInv
    OBVIOUS
  <2>1. TypeOK
    BY DispatcherAssumption DEF Init, TypeOK, Phases, Sinks, Events
  <2> QED BY <2>1, DispatcherAssumption DEF Init, CloseInv
<1>2. TypeOK /\ TypeOK' /\ CloseInv /\ [Next]_vars => CloseInv'
  <2> SUFFICES ASSUME TypeOK, TypeOK', CloseInv, [Next]_vars PROVE CloseInv'
    OBVIOUS
  <2> USE DispatcherAssumption DEF CloseInv, AllExited
  <2>1. ASSUME NEW t \in Threads, Dispatch(t) PROVE CloseInv'
    BY <2>1 DEF Dispatch, DispatchRefused, DispatchBegin, Offer, Enqueue, GiveUp, Drop,
                workerVars, closeVars
  <2>2. ASSUME NEW s \in Sinks, Take(s) PROVE CloseInv'
    BY <2>2 DEF Take, TypeOK, closeVars
  <2>3. ASSUME NEW s \in Sinks, SeeDone(s) PROVE CloseInv'
    BY <2>3 DEF SeeDone, TypeOK, closeVars
  <2>4. ASSUME NEW s \in Sinks, WorkerExit(s) PROVE CloseInv'
    BY <2>4 DEF WorkerExit, TypeOK, closeVars
  <2>5. ASSUME NEW s \in Sinks, deliver(s) PROVE CloseInv'
    <3>1. worker' = worker /\ busy' = [busy EXCEPT ![s] = <<>>] /\ UNCHANGED closeVars
      BY <2>5 DEF deliver, WriteSucceeds, WriteFails
    <3> QED BY <3>1 DEF TypeOK, closeVars
  <2>6. ASSUME NEW c \in Closers, CallClose(c) \/ CloseReturn(c) PROVE CloseInv'
    BY <2>6 DEF CallClose, CloseReturn, TypeOK, workerVars
  <2>7. ASSUME CloseBody PROVE CloseInv'
    <3>1. CASE CloseNextSink
      <4>1. nextClose \in Sinks /\ nextClose' = nextClose + 1 /\ closed' = closed \union ({nextClose} \intersect Closable)
        BY <3>1 DEF CloseNextSink
      <4>2. 1..(nextClose' - 1) = (1..(nextClose - 1)) \union {nextClose}
        BY <4>1 DEF Sinks
      <4>3. closed' = Closable \intersect (1..(nextClose' - 1))
        BY <4>1, <4>2
      <4> QED BY <3>1, <4>3 DEF CloseNextSink, workerVars
    <3>2. CASE BeginClose \/ GraceExpires \/ Drained
      BY <3>2 DEF BeginClose, GraceExpires, Drained, workerVars
    <3>3. CASE CloseEnds
      BY <3>3 DEF CloseEnds, workerVars, TypeOK, Sinks
    <3> QED BY <2>7, <3>1, <3>2, <3>3 DEF CloseBody
  <2>8. CASE UNCHANGED vars
    BY <2>8 DEF vars, workerVars, closeVars
  <2> QED
    BY <2>1, <2>2, <2>3, <2>4, <2>5, <2>6, <2>7, <2>8 DEF Next, run
<1> QED BY <1>1, <1>2, TypeCorrect, PTL DEF Spec

(* Close closes a sink only when its worker has returned, and none of its  *)
(* callers returns before every sink is closed: no Write finds its file    *)
(* closed, and nothing is written after pipeline.close (sink.go, Close).   *)
THEOREM ShutdownIsQuiet == Spec => []ClosedSinksAreQuiet
<1>1. CloseInv => ClosedSinksAreQuiet
  <2> SUFFICES ASSUME CloseInv PROVE ClosedSinksAreQuiet
    OBVIOUS
  <2>1. ASSUME NEW s \in closed PROVE worker[s] = "exited" /\ busy[s] = <<>>
    <3>1. s \in Sinks /\ nextClose # 1
      BY <2>1, DispatcherAssumption DEF CloseInv, TypeOK
    <3> QED BY <3>1 DEF CloseInv, AllExited
  <2>2. ASSUME NEW c \in Closers, closer[c] = "returned" PROVE closed = Closable
    <3>1. phase = "closed"
      BY <2>2 DEF CloseInv
    <3>2. nextClose = NumSinks + 1
      BY <3>1 DEF CloseInv
    <3>3. closed = Closable \intersect (1..(nextClose - 1))
      BY DEF CloseInv
    <3>4. 1..(nextClose - 1) = Sinks
      BY <3>2, DispatcherAssumption DEF Sinks
    <3> QED BY <3>3, <3>4, DispatcherAssumption
  <2> QED BY <2>1, <2>2 DEF ClosedSinksAreQuiet
<1> QED BY <1>1, CloseInvariant, PTL

-----------------------------------------------------------------------------
(* How the steps move events between the places of a sink. *)

LEMMA RangeAppend ==
    ASSUME NEW S, NEW q \in Seq(S), NEW e \in S
    PROVE  Range(Append(q, e)) = Range(q) \union {e}
<1>1. Len(q) \in Nat /\ DOMAIN q = 1..Len(q) /\ DOMAIN Append(q, e) = 1..(Len(q) + 1)
  OBVIOUS
<1>2. Append(q, e)[Len(q) + 1] = e /\ \A i \in 1..Len(q) : Append(q, e)[i] = q[i]
  OBVIOUS
<1>3. 1..(Len(q) + 1) = (1..Len(q)) \union {Len(q) + 1}
  BY <1>1
<1> QED BY <1>1, <1>2, <1>3 DEF Range

LEMMA RangeHeadTail ==
    ASSUME NEW S, NEW q \in Seq(S), q # <<>>
    PROVE  Range(q) = {Head(q)} \union Range(Tail(q))
<1>1. Len(q) \in Nat \ {0} /\ DOMAIN q = 1..Len(q) /\ Head(q) = q[1]
  OBVIOUS
<1>2. DOMAIN Tail(q) = 1..(Len(q) - 1) /\ \A i \in 1..(Len(q) - 1) : Tail(q)[i] = q[i + 1]
  BY <1>1
<1>3. Range(q) \subseteq {Head(q)} \union Range(Tail(q))
  <2> SUFFICES ASSUME NEW i \in 1..Len(q) PROVE q[i] \in {Head(q)} \union Range(Tail(q))
    BY <1>1 DEF Range
  <2>1. CASE i = 1
    BY <2>1, <1>1
  <2>2. CASE i # 1
    <3>1. i - 1 \in 1..(Len(q) - 1) /\ q[i] = Tail(q)[i - 1]
      BY <2>2, <1>1, <1>2
    <3> QED BY <3>1, <1>2 DEF Range
  <2> QED BY <2>1, <2>2
<1>4. {Head(q)} \union Range(Tail(q)) \subseteq Range(q)
  BY <1>1, <1>2 DEF Range
<1> QED BY <1>3, <1>4

LEMMA RangeSlot == \A e : Range(<<>>) = {} /\ Range(<<e>>) = {e}
BY DEF Range

LEMMA SeenTake ==
    ASSUME TypeOK, NEW s \in Sinks, Take(s)
    PROVE  \A u \in Sinks : Seen(u)' = Seen(u) /\ Settled(u)' = Settled(u)
<1>1. Range(queue[s]) = {Head(queue[s])} \union Range(Tail(queue[s]))
  BY RangeHeadTail DEF TypeOK, Take
<1>2. \A u \in Sinks : Range(busy'[u]) \union Range(queue'[u]) = Range(busy[u]) \union Range(queue[u])
  <2> TAKE u \in Sinks
  <2>1. CASE u = s
    <3>1. busy[s] = <<>> /\ busy'[s] = <<Head(queue[s])>> /\ queue'[s] = Tail(queue[s])
      BY DEF TypeOK, Take
    <3> QED BY <1>1, <2>1, <3>1, RangeSlot
  <2>2. CASE u # s
    BY <2>2 DEF TypeOK, Take
  <2> QED BY <2>1, <2>2
<1> QED BY <1>2 DEF Seen, Undelivered, Settled, Take

LEMMA SeenDeliver ==
    ASSUME TypeOK, NEW s \in Sinks, deliver(s)
    PROVE  \A u \in Sinks : Seen(u)' = Seen(u) /\ Settled(u) \subseteq Settled(u)'
<1>1. PICK e \in Events : busy[s] = <<e>>
  BY DEF TypeOK, deliver, WriteSucceeds, WriteFails
<1>2. Head(busy[s]) = e /\ busy' = [busy EXCEPT ![s] = <<>>]
      /\ UNCHANGED <<queue, dropped>>
  BY <1>1 DEF deliver, WriteSucceeds, WriteFails
<1>3. \A u \in Sinks : Range(written'[u]) \union failed'[u]
                       = Range(written[u]) \union failed[u] \union (IF u = s THEN {e} ELSE {})
  <2> TAKE u \in Sinks
  <2>1. CASE u # s
    BY <2>1 DEF TypeOK, deliver, WriteSucceeds, WriteFails
  <2>2. CASE u = s /\ WriteSucceeds(s)
    <3>1. written'[s] = Append(written[s], e) /\ failed' = failed
      BY <1>2, <2>2 DEF TypeOK, WriteSucceeds
    <3>2. Range(written'[s]) = Range(written[s]) \union {e}
      BY <3>1, RangeAppend DEF TypeOK
    <3> QED BY <2>2, <3>1, <3>2
  <2>3. CASE u = s /\ WriteFails(s)
    BY <1>2, <2>3 DEF TypeOK, WriteFails
  <2> QED BY <2>1, <2>2, <2>3 DEF deliver
<1>4. \A u \in Sinks : Range(busy[u]) = Range(busy'[u]) \union (IF u = s THEN {e} ELSE {})
  <2> TAKE u \in Sinks
  <2>1. CASE u = s
    <3>1. busy'[u] = <<>>
      BY <1>2, <2>1 DEF TypeOK
    <3> QED BY <1>1, <2>1, <3>1, RangeSlot
  <2>2. CASE u # s
    BY <1>2, <2>2 DEF TypeOK
  <2> QED BY <2>1, <2>2
<1> QED BY <1>2, <1>3, <1>4 DEF Seen, Undelivered, Settled

LEMMA SeenOffer ==
    ASSUME TypeOK, NEW t \in Threads, Enqueue(t) \/ Drop(t)
    PROVE  /\ at[t] \in Sinks
           /\ \A u \in Sinks :
                 /\ Seen(u)' = Seen(u) \union (IF u = at[t] THEN {CurrentEvent(t)} ELSE {})
                 /\ Settled(u) \subseteq Settled(u)'
           /\ at' = [at EXCEPT ![t] = AfterSink(@)] /\ UNCHANGED <<sent, worker, closeVars>>
<1>1. at[t] \in Sinks /\ CurrentEvent(t) \in Events
  <2>1. at[t] \in 0..NumSinks /\ at[t] # 0
    BY DispatcherAssumption DEF Enqueue, Drop, TypeOK, Sinks
  <2>2. sent[t] \in 1..MaxCalls[t]
    BY <2>1, DispatcherAssumption DEF TypeOK
  <2> QED BY <2>1, <2>2, DispatcherAssumption DEF CurrentEvent, Events, Sinks
<1>2. at' = [at EXCEPT ![t] = AfterSink(@)] /\ UNCHANGED <<sent, busy, worker, failed, written, closeVars>>
  BY DEF Enqueue, Drop, workerVars
<1>3. CASE Enqueue(t)
  <2>1. \A u \in Sinks : Range(queue'[u]) = Range(queue[u]) \union (IF u = at[t] THEN {CurrentEvent(t)} ELSE {})
    <3> TAKE u \in Sinks
    <3>1. CASE u = at[t]
      <4>1. queue'[u] = Append(queue[u], CurrentEvent(t)) /\ queue[u] \in Seq(Events)
        BY <1>3, <3>1 DEF Enqueue, TypeOK
      <4> QED BY <1>1, <3>1, <4>1, RangeAppend
    <3>2. CASE u # at[t]
      BY <1>3, <3>2 DEF Enqueue, TypeOK
    <3> QED BY <3>1, <3>2
  <2>2. UNCHANGED dropped
    BY <1>3 DEF Enqueue
  <2>3. \A u \in Sinks : Settled(u)' = Settled(u)
    BY <1>2, <2>2 DEF Settled
  <2>4. \A u \in Sinks : Undelivered(u)' = Undelivered(u) \union (IF u = at[t] THEN {CurrentEvent(t)} ELSE {})
    BY <1>2, <2>1 DEF Undelivered
  <2>5. \A u \in Sinks : Seen(u)' = Seen(u) \union (IF u = at[t] THEN {CurrentEvent(t)} ELSE {})
    BY <2>3, <2>4 DEF Seen
  <2>6. \A u \in Sinks : Settled(u) \subseteq Settled(u)'
    BY <2>3
  <2> QED BY <1>1, <1>2, <2>5, <2>6
<1>4. CASE Drop(t)
  <2>1. \A u \in Sinks : dropped'[u] = dropped[u] \union (IF u = at[t] THEN {CurrentEvent(t)} ELSE {})
    BY <1>1, <1>4 DEF Drop, TypeOK
  <2>2. UNCHANGED queue
    BY <1>4 DEF Drop
  <2>3. \A u \in Sinks : Undelivered(u)' = Undelivered(u)
    BY <1>2, <2>2 DEF Undelivered
  <2>4. \A u \in Sinks : Settled(u)' = Settled(u) \union (IF u = at[t] THEN {CurrentEvent(t)} ELSE {})
    BY <1>2, <2>1 DEF Settled
  <2>5. \A u \in Sinks : Seen(u)' = Seen(u) \union (IF u = at[t] THEN {CurrentEvent(t)} ELSE {})
    BY <2>3, <2>4 DEF Seen
  <2>6. \A u \in Sinks : Settled(u) \subseteq Settled(u)'
    BY <2>4
  <2> QED BY <1>1, <1>2, <2>5, <2>6
<1> QED BY <1>3, <1>4

LEMMA SeenOther ==
    ASSUME UNCHANGED <<queue, busy, written, failed, dropped>>
    PROVE  \A u \in Sinks : Seen(u)' = Seen(u) /\ Settled(u)' = Settled(u)
BY DEF Seen, Undelivered, Settled

(* Only Dispatch brings new events to a sink. *)
LEMMA SeenKept ==
    ASSUME TypeOK, [Next]_vars, \A t \in Threads : ~Enqueue(t) /\ ~Drop(t)
    PROVE  \A u \in Sinks : Seen(u)' = Seen(u) /\ Settled(u) \subseteq Settled(u)'
<1>1. ASSUME NEW t \in Threads, Dispatch(t) PROVE UNCHANGED <<queue, busy, written, failed, dropped>>
  BY <1>1 DEF Dispatch, DispatchRefused, DispatchBegin, Offer, GiveUp, workerVars
<1>2. ASSUME NEW s \in Sinks, SeeDone(s) \/ WorkerExit(s)
      PROVE  UNCHANGED <<queue, busy, written, failed, dropped>>
  BY <1>2 DEF SeeDone, WorkerExit
<1>3. ASSUME NEW c \in Closers, CallClose(c) \/ CloseReturn(c)
      PROVE  UNCHANGED <<queue, busy, written, failed, dropped>>
  BY <1>3 DEF CallClose, CloseReturn, workerVars
<1>4. ASSUME CloseBody PROVE UNCHANGED <<queue, busy, written, failed, dropped>>
  BY <1>4 DEF CloseBody, BeginClose, GraceExpires, Drained, CloseNextSink, CloseEnds, workerVars
<1>5. CASE UNCHANGED vars
  BY <1>5, SeenOther DEF vars, workerVars
<1>6. CASE UNCHANGED <<queue, busy, written, failed, dropped>>
  BY <1>6, SeenOther
<1>7. CASE \E s \in Sinks : Take(s)
  BY <1>7, SeenTake
<1>8. CASE \E s \in Sinks : deliver(s)
  BY <1>8, SeenDeliver
<1> QED BY <1>1, <1>2, <1>3, <1>4, <1>5, <1>6, <1>7, <1>8 DEF Next, run

LEMMA SeenGrows ==
    ASSUME TypeOK, [Next]_vars
    PROVE  \A u \in Sinks : Seen(u) \subseteq Seen(u)' /\ Settled(u) \subseteq Settled(u)'
<1>1. CASE \E t \in Threads : Enqueue(t) \/ Drop(t)
  BY <1>1, SeenOffer
<1>2. CASE \A t \in Threads : ~Enqueue(t) /\ ~Drop(t)
  BY <1>2, SeenKept
<1> QED BY <1>1, <1>2

(* The steps that move the traffic, and all others. *)
LEMMA DispatchSteps ==
    ASSUME [Next]_vars, \A t \in Threads : ~Dispatch(t)
    PROVE  UNCHANGED <<at, sent>> /\ (phase' = "open" => phase = "open")
BY DEF Next, vars, dispatchVars, closeVars, run, Take, SeeDone, WorkerExit, deliver, WriteSucceeds,
       WriteFails, CallClose, CloseReturn, CloseBody, BeginClose, GraceExpires, Drained,
       CloseNextSink, CloseEnds

-----------------------------------------------------------------------------
LEMMA InitSeesNothing == Init => \A u \in Sinks : Seen(u) = {}
BY RangeSlot DEF Init, Seen, Undelivered, Settled

(* No event goes missing while the dispatcher is open: whatever a Dispatch *)
(* has passed is waiting, being written, written or counted (sink.go,      *)
(* Dispatch, run and deliver). The invariant is inductive as it stands.    *)
THEOREM NothingGoesMissing == Spec => []Accounted
<1>1. Init => Accounted
  BY InitSeesNothing, DispatcherAssumption DEF Init, Accounted, PastSink
<1>2. TypeOK /\ Accounted /\ [Next]_vars => Accounted'
  <2> SUFFICES ASSUME TypeOK, Accounted, [Next]_vars,
                      NEW s \in Sinks, NEW t \in Threads, NEW n \in 1..MaxCalls[t]
               PROVE  /\ phase' = "open" /\ PastSink(t, n, s)' => <<t, n>> \in Seen(s)'
                      /\ <<t, n>> \in Seen(s)' => PastSink(t, n, s)'
    BY DEF Accounted
  <2>0. /\ phase = "open" /\ PastSink(t, n, s) => <<t, n>> \in Seen(s)
        /\ <<t, n>> \in Seen(s) => PastSink(t, n, s)
    BY DEF Accounted
  <2>1. ASSUME NEW u \in Threads, Enqueue(u) \/ Drop(u)
        PROVE  /\ phase' = "open" /\ PastSink(t, n, s)' => <<t, n>> \in Seen(s)'
               /\ <<t, n>> \in Seen(s)' => PastSink(t, n, s)'
    <3>1. /\ at[u] \in Sinks /\ at' = [at EXCEPT ![u] = AfterSink(@)] /\ sent' = sent /\ phase' = phase
          /\ Seen(s)' = Seen(s) \union (IF s = at[u] THEN {CurrentEvent(u)} ELSE {})
      BY <2>1, SeenOffer DEF closeVars
    <3>2. CASE u = t /\ n = sent[t]
      <4>1. at'[t] = AfterSink(at[t]) /\ sent'[t] = n
        BY <3>1, <3>2 DEF TypeOK
      <4>2. PastSink(t, n, s)' <=> at[t] >= s
        BY <3>1, <3>2, <4>1, DispatcherAssumption DEF PastSink, AfterSink, Sinks
      <4>3. PastSink(t, n, s) <=> at[t] > s
        BY <3>1, <3>2, DispatcherAssumption DEF PastSink, Sinks
      <4>4. <<t, n>> \in Seen(s)' <=> <<t, n>> \in Seen(s) \/ s = at[t]
        BY <3>1, <3>2 DEF CurrentEvent
      <4>5. at[t] >= s <=> at[t] > s \/ s = at[t]
        BY <3>1, <3>2, DispatcherAssumption DEF Sinks
      <4> QED BY <2>0, <3>1, <4>2, <4>3, <4>4, <4>5
    <3>3. CASE ~(u = t /\ n = sent[t])
      <4>1. <<t, n>> # CurrentEvent(u)
        BY <3>3 DEF CurrentEvent
      <4>2. PastSink(t, n, s)' <=> PastSink(t, n, s)
        BY <3>1, <3>3 DEF PastSink, TypeOK
      <4> QED BY <2>0, <3>1, <4>1, <4>2
    <3> QED BY <3>2, <3>3
  <2>2. CASE \A u \in Threads : ~Enqueue(u) /\ ~Drop(u)
    <3>1. Seen(s)' = Seen(s)
      BY <2>2, SeenKept
    <3>2. PastSink(t, n, s) => PastSink(t, n, s)'
      <4>1. ASSUME NEW u \in Threads, Dispatch(u) PROVE PastSink(t, n, s) => PastSink(t, n, s)'
        <5>1. n \in Nat /\ sent[t] \in Nat
          BY DispatcherAssumption DEF TypeOK
        <5>2. CASE u # t
          BY <2>2, <4>1, <5>2 DEF Dispatch, DispatchRefused, DispatchBegin, Offer, GiveUp, PastSink, TypeOK
        <5>3. CASE u = t /\ (DispatchRefused(t) \/ DispatchBegin(t))
          <6>1. sent'[t] = sent[t] + 1
            BY <5>3 DEF DispatchRefused, DispatchBegin, TypeOK
          <6> QED BY <5>1, <6>1 DEF PastSink
        <5>4. CASE u = t /\ GiveUp(t)
          BY <5>4 DEF GiveUp, PastSink, TypeOK
        <5> QED BY <2>2, <4>1, <5>2, <5>3, <5>4 DEF Dispatch, Offer
      <4>2. CASE \A u \in Threads : ~Dispatch(u)
        BY <4>2, DispatchSteps DEF PastSink
      <4> QED BY <4>1, <4>2
    <3>3. phase' = "open" /\ PastSink(t, n, s)' => phase = "open" /\ PastSink(t, n, s)
      <4>1. ASSUME NEW u \in Threads, Dispatch(u), phase' = "open", PastSink(t, n, s)'
            PROVE  phase = "open" /\ PastSink(t, n, s)
        <5>1. DispatchBegin(u) /\ phase = "open"
          BY <2>2, <4>1 DEF Dispatch, DispatchRefused, Offer, GiveUp, DispatchBegin, closeVars, done
        <5>2. CASE u # t
          BY <4>1, <5>1, <5>2 DEF DispatchBegin, PastSink, TypeOK
        <5>3. CASE u = t
          <6>1. at'[t] = 1 /\ sent'[t] = sent[t] + 1 /\ at[t] = 0
            BY <5>1, <5>3 DEF DispatchBegin, TypeOK
          <6>2. ~(at'[t] = 0 \/ at'[t] > s)
            BY <6>1, DispatcherAssumption DEF Sinks
          <6>3. n < sent'[t]
            BY <4>1, <6>2 DEF PastSink
          <6>4. n \in Nat /\ sent[t] \in Nat
            BY DispatcherAssumption DEF TypeOK
          <6>5. n < sent[t] \/ n = sent[t]
            BY <6>1, <6>3, <6>4
          <6> QED BY <5>1, <6>1, <6>5 DEF PastSink
        <5> QED BY <5>2, <5>3
      <4>2. CASE \A u \in Threads : ~Dispatch(u)
        BY <4>2, DispatchSteps DEF PastSink
      <4> QED BY <4>1, <4>2
    <3> QED BY <2>0, <3>1, <3>2, <3>3
  <2> QED BY <2>1, <2>2
<1> QED BY <1>1, <1>2, TypeCorrect, PTL DEF Spec

-----------------------------------------------------------------------------
(* The required log against the sinks after it: a Dispatch that has passed *)
(* a required sink has left its event there.                               *)
CoverInv ==
    /\ RequiredLogCoversLaterSinks
    /\ \A r \in Required : \A t \in Threads : at[t] > r => CurrentEvent(t) \in Seen(r)

LEMMA CoverInit == Init => CoverInv
BY InitSeesNothing, DispatcherAssumption DEF Init, CoverInv, RequiredLogCoversLaterSinks, Sinks

LEMMA CoverOffer ==
    ASSUME TypeOK, CoverInv, NEW u \in Threads, Enqueue(u) \/ Drop(u)
    PROVE  CoverInv'
<1>0. /\ at[u] \in Sinks /\ at' = [at EXCEPT ![u] = AfterSink(@)] /\ sent' = sent
      /\ \A s \in Sinks : Seen(s)' = Seen(s) \union (IF s = at[u] THEN {CurrentEvent(u)} ELSE {})
  BY SeenOffer
<1>1. RequiredLogCoversLaterSinks'
  <2> SUFFICES ASSUME NEW r \in Required, NEW s \in Sinks, r < s PROVE Seen(s)' \subseteq Seen(r)'
    BY DEF RequiredLogCoversLaterSinks
  <2>1. r \in Sinks /\ Seen(s) \subseteq Seen(r) /\ Seen(r) \subseteq Seen(r)'
    BY <1>0, DispatcherAssumption DEF CoverInv, RequiredLogCoversLaterSinks
  <2>2. CASE s = at[u]
    <3>1. CurrentEvent(u) \in Seen(r)
      BY <2>2 DEF CoverInv
    <3> QED BY <1>0, <2>1, <3>1
  <2>3. CASE s # at[u]
    BY <1>0, <2>1, <2>3
  <2> QED BY <2>2, <2>3
<1>2. ASSUME NEW r \in Required, NEW t \in Threads, at'[t] > r PROVE CurrentEvent(t)' \in Seen(r)'
  <2>1. r \in Sinks /\ CurrentEvent(t)' = CurrentEvent(t) /\ Seen(r) \subseteq Seen(r)'
    BY <1>0, DispatcherAssumption DEF CurrentEvent
  <2>2. CASE at[t] > r
    BY <2>1, <2>2 DEF CoverInv
  <2>3. CASE ~(at[t] > r)
    <3>1. u = t /\ at'[t] = AfterSink(at[t])
      BY <1>0, <1>2, <2>3 DEF TypeOK
    <3>2. r = at[t]
      BY <1>0, <1>2, <2>1, <2>3, <3>1, DispatcherAssumption DEF AfterSink, Sinks
    <3> QED BY <1>0, <2>1, <3>1, <3>2
  <2> QED BY <2>2, <2>3
<1> QED BY <1>1, <1>2 DEF CoverInv

LEMMA CoverOther ==
    ASSUME TypeOK, CoverInv, [Next]_vars, \A t \in Threads : ~Enqueue(t) /\ ~Drop(t)
    PROVE  CoverInv'
<1>1. \A s \in Sinks : Seen(s)' = Seen(s)
  BY SeenKept
<1>2. ASSUME NEW r \in Required, NEW t \in Threads, at'[t] > r
      PROVE  at[t] > r /\ CurrentEvent(t)' = CurrentEvent(t)
  <2>1. r \in Nat \ {0}
    BY DispatcherAssumption DEF Sinks
  <2>2. ASSUME NEW u \in Threads, Dispatch(u) PROVE at[t] > r /\ CurrentEvent(t)' = CurrentEvent(t)
    <3>1. CASE u # t
      BY <1>2, <2>2, <3>1 DEF Dispatch, DispatchRefused, DispatchBegin, Offer, GiveUp, TypeOK, CurrentEvent
    <3>2. CASE u = t
      <4>1. at'[t] \in {0, 1}
        BY <2>2, <3>2 DEF Dispatch, DispatchRefused, DispatchBegin, Offer, GiveUp, TypeOK
      <4> QED BY <1>2, <2>1, <4>1
    <3> QED BY <3>1, <3>2
  <2>3. CASE \A u \in Threads : ~Dispatch(u)
    BY <1>2, <2>3, DispatchSteps DEF CurrentEvent
  <2> QED BY <2>2, <2>3
<1>3. RequiredLogCoversLaterSinks'
  BY <1>1, DispatcherAssumption DEF CoverInv, RequiredLogCoversLaterSinks
<1>4. \A r \in Required : \A t \in Threads : at'[t] > r => CurrentEvent(t)' \in Seen(r)'
  BY <1>1, <1>2, DispatcherAssumption DEF CoverInv
<1> QED BY <1>3, <1>4 DEF CoverInv

(* No webhook is given an event that the log before it was not given, even *)
(* when Close interrupts a Dispatch between the two: what the return in    *)
(* the done case of a required sink buys (sink.go, Dispatch).              *)
THEOREM LogCoversLaterSinks == Spec => []RequiredLogCoversLaterSinks
<1>1. TypeOK /\ CoverInv /\ [Next]_vars => CoverInv'
  BY CoverOffer, CoverOther
<1>2. CoverInv => RequiredLogCoversLaterSinks
  BY DEF CoverInv
<1> QED BY <1>1, <1>2, CoverInit, TypeCorrect, PTL DEF Spec

-----------------------------------------------------------------------------
(* What a sink had to write when Close began: still among its events, and  *)
(* settled once the worker has found the queue empty and returned.         *)
BacklogInv ==
    \A s \in Sinks :
        /\ worker[s] # "select" => phase # "open"
        /\ backlog[s] \subseteq Seen(s)
        /\ worker[s] = "exited" => backlog[s] \subseteq Settled(s)

(* Shutdown abandons nothing that was queued before it began, whichever    *)
(* way the select of run chooses and however late a Write returns (sink.go,*)
(* run: "take what is left, then stop").                                   *)
THEOREM BacklogIsDrained == Spec => []BacklogDealtWith
<1>1. Init => BacklogInv
  BY DEF Init, BacklogInv, Seen, Settled
<1>2. TypeOK /\ BacklogInv /\ [Next]_vars => BacklogInv'
  <2> SUFFICES ASSUME TypeOK, BacklogInv, [Next]_vars, NEW s \in Sinks
               PROVE  /\ worker'[s] # "select" => phase' # "open"
                      /\ backlog'[s] \subseteq Seen(s)'
                      /\ worker'[s] = "exited" => backlog'[s] \subseteq Settled(s)'
    BY DEF BacklogInv
  <2>0. /\ worker[s] # "select" => phase # "open"
        /\ backlog[s] \subseteq Seen(s)
        /\ worker[s] = "exited" => backlog[s] \subseteq Settled(s)
    BY DEF BacklogInv
  <2>1. Seen(s) \subseteq Seen(s)' /\ Settled(s) \subseteq Settled(s)'
    BY SeenGrows
  <2>2. CASE BeginClose
    <3>1. backlog'[s] = Undelivered(s) /\ worker' = worker /\ phase = "open" /\ phase' = "draining"
      BY <2>2 DEF BeginClose, workerVars
    <3> QED BY <2>0, <2>1, <3>1 DEF Seen
  <2>3. CASE WorkerExit(s)
    <3>1. busy[s] = <<>> /\ queue[s] = <<>> /\ worker[s] = "drain" /\ backlog' = backlog /\ phase' = phase
      BY <2>3 DEF WorkerExit, closeVars
    <3>2. Seen(s) = Settled(s)
      BY <3>1, RangeSlot DEF Seen, Undelivered
    <3> QED BY <2>0, <2>1, <3>1, <3>2
  <2>4. CASE SeeDone(s)
    BY <2>0, <2>1, <2>4 DEF SeeDone, TypeOK, closeVars, done
  <2>5. CASE ~BeginClose /\ ~WorkerExit(s) /\ ~SeeDone(s)
    <3>1. backlog' = backlog /\ worker'[s] = worker[s] /\ (phase # "open" => phase' # "open")
      <4>1. ASSUME NEW t \in Threads, Dispatch(t) PROVE UNCHANGED <<worker, phase, backlog>>
        BY <4>1 DEF Dispatch, DispatchRefused, DispatchBegin, Offer, Enqueue, GiveUp, Drop, workerVars, closeVars
      <4>2. ASSUME NEW u \in Sinks, Take(u) \/ deliver(u) PROVE UNCHANGED <<worker, phase, backlog>>
        BY <4>2 DEF Take, deliver, WriteSucceeds, WriteFails, closeVars
      <4>3. ASSUME NEW u \in Sinks, u # s, SeeDone(u) \/ WorkerExit(u)
            PROVE  worker'[s] = worker[s] /\ UNCHANGED <<phase, backlog>>
        BY <4>3 DEF SeeDone, WorkerExit, closeVars, TypeOK
      <4>4. ASSUME NEW c \in Closers, CallClose(c) \/ CloseReturn(c) PROVE UNCHANGED <<worker, phase, backlog>>
        BY <4>4 DEF CallClose, CloseReturn, workerVars
      <4>5. ASSUME GraceExpires \/ Drained \/ CloseNextSink \/ CloseEnds
            PROVE  UNCHANGED <<worker, backlog>> /\ (phase # "open" => phase' # "open")
        BY <4>5 DEF GraceExpires, Drained, CloseNextSink, CloseEnds, workerVars
      <4>6. CASE UNCHANGED vars
        BY <4>6 DEF vars, workerVars, closeVars
      <4> QED BY <2>5, <4>1, <4>2, <4>3, <4>4, <4>5, <4>6 DEF Next, run, CloseBody
    <3> QED BY <2>0, <2>1, <3>1
  <2> QED BY <2>2, <2>3, <2>4, <2>5
<1>3. BacklogInv => BacklogDealtWith
  BY DEF BacklogInv, BacklogDealtWith
<1> QED BY <1>1, <1>2, <1>3, TypeCorrect, PTL DEF Spec

-----------------------------------------------------------------------------
(* The pipe of a sink: what it has written, is writing and has queued. *)

LEMMA RangeConcat ==
    ASSUME NEW S, NEW p \in Seq(S), NEW q \in Seq(S)
    PROVE  Range(p \o q) = Range(p) \union Range(q)
<1>1. /\ DOMAIN p = 1..Len(p) /\ DOMAIN q = 1..Len(q) /\ Len(p) \in Nat /\ Len(q) \in Nat
      /\ DOMAIN (p \o q) = 1..(Len(p) + Len(q))
  BY ConcatProperties, LenProperties
<1>2. \A i \in 1..(Len(p) + Len(q)) : (p \o q)[i] = IF i <= Len(p) THEN p[i] ELSE q[i - Len(p)]
  BY ConcatProperties
<1>3. Range(p \o q) \subseteq Range(p) \union Range(q)
  <2> SUFFICES ASSUME NEW i \in 1..(Len(p) + Len(q))
               PROVE  (p \o q)[i] \in Range(p) \union Range(q)
    BY <1>1 DEF Range
  <2>1. CASE i <= Len(p)
    BY <1>1, <1>2, <2>1 DEF Range
  <2>2. CASE ~(i <= Len(p))
    <3>1. i - Len(p) \in 1..Len(q) /\ (p \o q)[i] = q[i - Len(p)]
      BY <1>1, <1>2, <2>2
    <3> QED BY <1>1, <3>1 DEF Range
  <2> QED BY <2>1, <2>2
<1>4. Range(p) \subseteq Range(p \o q)
  <2> SUFFICES ASSUME NEW i \in 1..Len(p) PROVE p[i] \in Range(p \o q)
    BY <1>1 DEF Range
  <2>1. i \in 1..(Len(p) + Len(q)) /\ (p \o q)[i] = p[i]
    BY <1>1, <1>2
  <2> QED BY <1>1, <2>1 DEF Range
<1>5. Range(q) \subseteq Range(p \o q)
  <2> SUFFICES ASSUME NEW i \in 1..Len(q) PROVE q[i] \in Range(p \o q)
    BY <1>1 DEF Range
  <2>1. Len(p) + i \in 1..(Len(p) + Len(q)) /\ (p \o q)[Len(p) + i] = q[i]
    BY <1>1, <1>2
  <2> QED BY <1>1, <2>1 DEF Range
<1> QED BY <1>3, <1>4, <1>5

LEMMA SlotIsASeq ==
    ASSUME TypeOK, NEW s \in Sinks
    PROVE  busy[s] \in Seq(Events) /\ queue[s] \in Seq(Events) /\ written[s] \in Seq(Events)
<1>1. busy[s] = <<>> \/ \E e \in Events : busy[s] = <<e>>
  BY DEF TypeOK
<1>2. ASSUME NEW e \in Events PROVE <<e>> \in Seq(Events)
  OBVIOUS
<1>3. <<>> \in Seq(Events)
  BY EmptySeq
<1>4. busy[s] \in Seq(Events)
  <2>1. CASE busy[s] = <<>>
    BY <1>3, <2>1
  <2>2. ASSUME NEW e \in Events, busy[s] = <<e>> PROVE busy[s] \in Seq(Events)
    BY <1>2, <2>2
  <2> QED BY <1>1, <2>1, <2>2
<1>5. queue[s] \in Seq(Events) /\ written[s] \in Seq(Events)
  BY DEF TypeOK
<1> QED BY <1>4, <1>5

LEMMA PipeType ==
    ASSUME TypeOK, NEW s \in Sinks
    PROVE  /\ Pipe(s) \in Seq(Events)
           /\ Range(Pipe(s)) = Range(written[s]) \union Undelivered(s)
<1>1. busy[s] \in Seq(Events) /\ queue[s] \in Seq(Events) /\ written[s] \in Seq(Events)
  BY SlotIsASeq
<1> DEFINE w == written[s] \o busy[s]
<1>2. w \in Seq(Events) /\ Range(w) = Range(written[s]) \union Range(busy[s])
  BY <1>1, ConcatProperties, RangeConcat
<1> HIDE DEF w
<1>3. w \o queue[s] \in Seq(Events) /\ Range(w \o queue[s]) = Range(w) \union Range(queue[s])
  BY <1>1, <1>2, ConcatProperties, RangeConcat
<1>4. Pipe(s) = w \o queue[s]
  BY DEF Pipe, w
<1> QED BY <1>2, <1>3, <1>4 DEF Undelivered

(* A send lengthens the pipe at its end; the worker's receive and a Write  *)
(* that succeeds leave it as it is; a Write that fails takes one event     *)
(* out of it.                                                              *)
LEMMA ConcatAppend ==
    ASSUME NEW S, NEW p \in Seq(S), NEW q \in Seq(S), NEW e \in S
    PROVE  p \o Append(q, e) = Append(p \o q, e)
<1>1. Append(q, e) = q \o <<e>> /\ <<e>> \in Seq(S)
  BY AppendIsConcat
<1>2. p \o (q \o <<e>>) = (p \o q) \o <<e>>
  BY <1>1, ConcatAssociative
<1>3. p \o q \in Seq(S)
  BY ConcatProperties
<1> QED BY <1>1, <1>2, <1>3, AppendIsConcat

LEMMA HeadThenTail ==
    ASSUME NEW S, NEW q \in Seq(S), q # <<>>
    PROVE  q = <<Head(q)>> \o Tail(q)
<1>1. Len(q) \in Nat \ {0} /\ Head(q) = q[1] /\ Head(q) \in S /\ Tail(q) \in Seq(S)
      /\ Len(Tail(q)) = Len(q) - 1 /\ \A i \in 1..Len(Tail(q)) : Tail(q)[i] = q[i + 1]
  BY EmptySeq, HeadTailProperties
<1>2. <<Head(q)>> \in Seq(S) /\ Len(<<Head(q)>>) = 1 /\ <<Head(q)>>[1] = Head(q)
  BY <1>1
<1> DEFINE r == <<Head(q)>> \o Tail(q)
<1>3. r \in Seq(S) /\ Len(r) = 1 + Len(Tail(q))
      /\ \A i \in 1..(1 + Len(Tail(q))) : r[i] = IF i <= 1 THEN <<Head(q)>>[i] ELSE Tail(q)[i - 1]
  BY <1>1, <1>2, ConcatProperties
<1> HIDE DEF r
<1>4. ASSUME NEW i \in 1..Len(q) PROVE r[i] = q[i]
  <2>1. CASE i = 1
    BY <1>1, <1>2, <1>3, <2>1
  <2>2. CASE i # 1
    <3>1. i - 1 \in 1..Len(Tail(q)) /\ r[i] = Tail(q)[i - 1]
      BY <1>1, <1>3, <2>2
    <3> QED BY <1>1, <3>1
  <2> QED BY <2>1, <2>2
<1>5. r = q
  BY <1>1, <1>3, <1>4, SeqEqual
<1> QED BY <1>5 DEF r

LEMMA PipeEnqueue ==
    ASSUME TypeOK, NEW t \in Threads, Enqueue(t), NEW s \in Sinks
    PROVE  /\ CurrentEvent(t) \in Events
           /\ Pipe(s)' = IF s = at[t] THEN Append(Pipe(s), CurrentEvent(t)) ELSE Pipe(s)
<1>1. at[t] \in Sinks
  BY SeenOffer
<1>2. CurrentEvent(t) \in Events
  <2>1. sent[t] \in 1..MaxCalls[t]
    BY <1>1, DispatcherAssumption DEF TypeOK, Sinks
  <2> QED BY <2>1 DEF CurrentEvent, Events
<1>3. /\ queue'[s] = IF s = at[t] THEN Append(queue[s], CurrentEvent(t)) ELSE queue[s]
      /\ UNCHANGED <<busy, written>>
  BY <1>1 DEF Enqueue, TypeOK, workerVars
<1> DEFINE w == written[s] \o busy[s]
<1>4. w \in Seq(Events) /\ queue[s] \in Seq(Events)
  BY SlotIsASeq, ConcatProperties
<1>5. Pipe(s) = w \o queue[s] /\ Pipe(s)' = w \o queue'[s]
  BY <1>3 DEF Pipe
<1> HIDE DEF w
<1>6. w \o Append(queue[s], CurrentEvent(t)) = Append(w \o queue[s], CurrentEvent(t))
  BY <1>2, <1>4, ConcatAppend
<1> QED BY <1>2, <1>3, <1>5, <1>6

LEMMA PipeTake ==
    ASSUME TypeOK, NEW u \in Sinks, Take(u), NEW s \in Sinks
    PROVE  Pipe(s)' = Pipe(s)
<1>1. CASE s # u
  BY <1>1 DEF Take, TypeOK, Pipe
<1>2. CASE s = u
  <2> DEFINE w == written[s]
             q == queue[s]
  <2>1. /\ busy[s] = <<>> /\ busy'[s] = <<Head(q)>> /\ queue'[s] = Tail(q) /\ written' = written
        /\ q # <<>> /\ w \in Seq(Events) /\ q \in Seq(Events)
    BY <1>2, SlotIsASeq DEF Take, TypeOK
  <2>2. Pipe(s) = w \o <<>> \o q
    BY <2>1 DEF Pipe
  <2>3. Pipe(s)' = w \o <<Head(q)>> \o Tail(q)
    BY <2>1 DEF Pipe
  <2> HIDE DEF w, q
  <2>4. w \o <<>> = w
    BY <2>1, ConcatEmptySeq
  <2>5. <<Head(q)>> \in Seq(Events) /\ Tail(q) \in Seq(Events) /\ q = <<Head(q)>> \o Tail(q)
    BY <2>1, HeadTailProperties, HeadThenTail
  <2>6. w \o <<Head(q)>> \o Tail(q) = w \o (<<Head(q)>> \o Tail(q))
    BY <2>1, <2>5, ConcatAssociative
  <2> QED BY <2>2, <2>3, <2>4, <2>5, <2>6
<1> QED BY <1>1, <1>2

LEMMA PipeWriteSucceeds ==
    ASSUME TypeOK, NEW u \in Sinks, WriteSucceeds(u), NEW s \in Sinks
    PROVE  Pipe(s)' = Pipe(s)
<1>1. CASE s # u
  BY <1>1 DEF WriteSucceeds, TypeOK, Pipe
<1>2. CASE s = u
  <2> DEFINE w == written[s]
             q == queue[s]
  <2>1. PICK e \in Events : busy[s] = <<e>>
    BY <1>2 DEF WriteSucceeds, TypeOK
  <2>2. Head(busy[s]) = e
    BY <2>1
  <2>3. /\ busy'[s] = <<>> /\ queue' = queue /\ written'[s] = Append(w, e)
        /\ w \in Seq(Events) /\ q \in Seq(Events)
    BY <1>2, <2>2, SlotIsASeq DEF WriteSucceeds, TypeOK
  <2>4. Pipe(s) = w \o <<e>> \o q
    BY <2>1 DEF Pipe
  <2>5. Pipe(s)' = Append(w, e) \o <<>> \o q
    BY <2>3 DEF Pipe
  <2> HIDE DEF w, q
  <2>6. Append(w, e) \in Seq(Events) /\ Append(w, e) = w \o <<e>>
    BY <2>3, AppendProperties, AppendIsConcat
  <2>7. Append(w, e) \o <<>> = Append(w, e)
    BY <2>6, ConcatEmptySeq
  <2> QED BY <2>4, <2>5, <2>6, <2>7
<1> QED BY <1>1, <1>2

LEMMA ConcatWithout ==
    ASSUME NEW S, NEW p \in Seq(S), NEW q \in Seq(S), NEW e \in S
    PROVE  /\ Len(p \o <<e>> \o q) = Len(p \o q) + 1
           /\ Len(p) + 1 \in 1..Len(p \o <<e>> \o q)
           /\ (p \o <<e>> \o q)[Len(p) + 1] = e
           /\ \A i \in 1..Len(p \o q) :
                 (p \o q)[i] = IF i <= Len(p) THEN (p \o <<e>> \o q)[i] ELSE (p \o <<e>> \o q)[i + 1]
<1> DEFINE pe == p \o <<e>>
<1>1. Len(p) \in Nat /\ Len(q) \in Nat /\ <<e>> \in Seq(S) /\ Len(<<e>>) = 1 /\ <<e>>[1] = e
  OBVIOUS
<1>2. /\ pe \in Seq(S) /\ Len(pe) = Len(p) + 1
      /\ \A i \in 1..(Len(p) + 1) : pe[i] = IF i <= Len(p) THEN p[i] ELSE e
  <2>1. pe \in Seq(S) /\ Len(pe) = Len(p) + 1
        /\ \A i \in 1..(Len(p) + 1) : pe[i] = IF i <= Len(p) THEN p[i] ELSE <<e>>[i - Len(p)]
    BY <1>1, ConcatProperties
  <2>2. \A i \in 1..(Len(p) + 1) : ~(i <= Len(p)) => i - Len(p) = 1
    BY <1>1
  <2> QED BY <1>1, <2>1, <2>2
<1> HIDE DEF pe
<1> DEFINE all == pe \o q
           rest == p \o q
<1>3. Len(all) = Len(p) + 1 + Len(q)
      /\ \A i \in 1..(Len(p) + 1 + Len(q)) : all[i] = IF i <= Len(p) + 1 THEN pe[i] ELSE q[i - (Len(p) + 1)]
  <2>1. Len(all) = Len(pe) + Len(q)
        /\ \A i \in 1..(Len(pe) + Len(q)) : all[i] = IF i <= Len(pe) THEN pe[i] ELSE q[i - Len(pe)]
    BY <1>2, ConcatProperties
  <2> HIDE DEF all
  <2> QED BY <1>2, <2>1
<1>4. Len(rest) = Len(p) + Len(q)
      /\ \A i \in 1..(Len(p) + Len(q)) : rest[i] = IF i <= Len(p) THEN p[i] ELSE q[i - Len(p)]
  BY <1>1, ConcatProperties
<1> HIDE DEF all, rest
<1>5. Len(all) = Len(rest) + 1 /\ Len(p) + 1 \in 1..Len(all) /\ all[Len(p) + 1] = e
  BY <1>1, <1>2, <1>3, <1>4
<1>6. ASSUME NEW i \in 1..Len(rest) PROVE rest[i] = IF i <= Len(p) THEN all[i] ELSE all[i + 1]
  <2>1. CASE i <= Len(p)
    BY <1>1, <1>2, <1>3, <1>4, <2>1
  <2>2. CASE ~(i <= Len(p))
    <3>1. i + 1 \in 1..(Len(p) + 1 + Len(q)) /\ ~(i + 1 <= Len(p) + 1) /\ (i + 1) - (Len(p) + 1) = i - Len(p)
      BY <1>1, <1>4, <2>2
    <3> QED BY <1>3, <1>4, <2>2, <3>1
  <2> QED BY <2>1, <2>2
<1> QED BY <1>5, <1>6 DEF all, rest, pe

LEMMA PipeWriteFails ==
    ASSUME TypeOK, NEW s \in Sinks, WriteFails(s)
    PROVE  /\ \E k \in 1..Len(Pipe(s)) :
                 /\ Pipe(s)[k] = Head(busy[s])
                 /\ \A i \in 1..Len(Pipe(s)') :
                       Pipe(s)'[i] = IF i < k THEN Pipe(s)[i] ELSE Pipe(s)[i + 1]
           /\ Len(Pipe(s)) = Len(Pipe(s)') + 1 /\ Pipe(s)' \in Seq(Events)
           /\ Head(busy[s]) \in Events
           /\ \A u \in Sinks \ {s} : Pipe(u)' = Pipe(u)
<1> DEFINE w == written[s]
           q == queue[s]
<1>1. PICK e \in Events : busy[s] = <<e>>
  BY DEF WriteFails, TypeOK
<1>2. Head(busy[s]) = e
  BY <1>1
<1>3. /\ busy'[s] = <<>> /\ queue' = queue /\ written' = written
      /\ w \in Seq(Events) /\ q \in Seq(Events)
  BY SlotIsASeq DEF WriteFails, TypeOK
<1>4. \A u \in Sinks \ {s} : Pipe(u)' = Pipe(u)
  BY DEF WriteFails, TypeOK, Pipe
<1>5. Pipe(s) = w \o <<e>> \o q
  BY <1>1 DEF Pipe
<1>6. Pipe(s)' = w \o <<>> \o q
  BY <1>3 DEF Pipe
<1> HIDE DEF w, q
<1>7. w \o <<>> = w
  BY <1>3, ConcatEmptySeq
<1>8. Pipe(s)' = w \o q
  BY <1>6, <1>7
<1> DEFINE pipe == w \o <<e>> \o q
           rest == w \o q
<1>9. /\ Len(pipe) = Len(rest) + 1 /\ Len(w) + 1 \in 1..Len(pipe) /\ pipe[Len(w) + 1] = e
      /\ \A i \in 1..Len(rest) : rest[i] = IF i <= Len(w) THEN pipe[i] ELSE pipe[i + 1]
  BY <1>3, ConcatWithout
<1>10. Len(w) \in Nat /\ rest \in Seq(Events)
  BY <1>3, ConcatProperties
<1> HIDE DEF pipe, rest
<1>11. \E k \in 1..Len(pipe) :
         pipe[k] = e /\ \A i \in 1..Len(rest) : rest[i] = IF i < k THEN pipe[i] ELSE pipe[i + 1]
  BY <1>9, <1>10
<1>12. Pipe(s) = pipe /\ Pipe(s)' = rest
  BY <1>5, <1>8 DEF pipe, rest
<1> QED BY <1>2, <1>4, <1>9, <1>10, <1>11, <1>12

-----------------------------------------------------------------------------
(* Sequences that hold the events of each goroutine in the order of its    *)
(* calls.                                                                  *)
InOrder(q) ==
    \A i, j \in DOMAIN q : i < j /\ q[i][1] = q[j][1] => q[i][2] < q[j][2]

LEMMA EventFields ==
    \A e \in Events : e[1] \in Threads /\ e[2] \in 1..MaxCalls[e[1]] /\ e[2] \in Nat /\ e = <<e[1], e[2]>>
BY DispatcherAssumption DEF Events

LEMMA OrderAppend ==
    ASSUME NEW q \in Seq(Events), NEW e \in Events, InOrder(q),
           \A d \in Range(q) : d[1] = e[1] => d[2] < e[2]
    PROVE  InOrder(Append(q, e))
<1> DEFINE r == Append(q, e)
<1>1. /\ r \in Seq(Events) /\ Len(r) = Len(q) + 1 /\ r[Len(q) + 1] = e
      /\ \A i \in 1..Len(q) : r[i] = q[i]
  BY AppendProperties
<1>2. DOMAIN q = 1..Len(q) /\ DOMAIN r = 1..Len(r) /\ Len(q) \in Nat
  BY <1>1, LenProperties
<1> HIDE DEF r
<1> SUFFICES ASSUME NEW i \in DOMAIN r, NEW j \in DOMAIN r, i < j, r[i][1] = r[j][1]
             PROVE  r[i][2] < r[j][2]
  BY DEF InOrder, r
<1>3. i \in 1..Len(q) /\ r[i] = q[i]
  BY <1>1, <1>2
<1>4. CASE j = Len(q) + 1
  <2>1. q[i] \in Range(q)
    BY <1>2, <1>3 DEF Range
  <2> QED BY <1>1, <1>3, <1>4, <2>1
<1>5. CASE j # Len(q) + 1
  BY <1>1, <1>2, <1>3, <1>5 DEF InOrder
<1> QED BY <1>4, <1>5

LEMMA OrderWithout ==
    ASSUME NEW q \in Seq(Events), NEW r \in Seq(Events), NEW k \in 1..Len(q),
           InOrder(q), Len(q) = Len(r) + 1,
           \A i \in 1..Len(r) : r[i] = IF i < k THEN q[i] ELSE q[i + 1]
    PROVE  InOrder(r) /\ Range(r) \subseteq Range(q) /\ q[k] \in Range(q) /\ q[k] \notin Range(r)
<1>1. DOMAIN q = 1..Len(q) /\ DOMAIN r = 1..Len(r) /\ Len(r) \in Nat
  BY LenProperties
<1> DEFINE in(i) == IF i < k THEN i ELSE i + 1
<1>2. \A i \in 1..Len(r) : in(i) \in 1..Len(q) /\ in(i) # k /\ r[i] = q[in(i)]
  BY <1>1
<1>3. \A i, j \in 1..Len(r) : i < j => in(i) < in(j)
  BY <1>1
<1> HIDE DEF in
<1>4. InOrder(r)
  BY <1>1, <1>2, <1>3 DEF InOrder
<1>5. Range(r) \subseteq Range(q) /\ q[k] \in Range(q)
  BY <1>1, <1>2 DEF Range
<1>6. ASSUME NEW i \in 1..Len(q), i # k PROVE q[i] # q[k]
  <2>1. q[i] \in Events /\ q[k] \in Events
    BY ElementOfSeq
  <2>2. q[i][2] \in Nat /\ q[k][2] \in Nat
    BY <2>1, EventFields
  <2>3. i < k \/ k < i
    BY <1>1, <1>6
  <2> QED BY <1>1, <2>2, <2>3 DEF InOrder
<1>7. q[k] \notin Range(r)
  BY <1>1, <1>2, <1>6 DEF Range
<1> QED BY <1>4, <1>5, <1>7

LEMMA SeenAreEvents ==
    ASSUME TypeOK, NEW s \in Sinks
    PROVE  Seen(s) \in SUBSET Events /\ Seen(s) = Range(Pipe(s)) \union failed[s] \union dropped[s]
<1>1. Range(Pipe(s)) \in SUBSET Events /\ Range(Pipe(s)) = Range(written[s]) \union Undelivered(s)
  BY PipeType, RangeOfSeq
<1>2. failed[s] \in SUBSET Events /\ dropped[s] \in SUBSET Events
  BY DEF TypeOK
<1> QED BY <1>1, <1>2 DEF Seen, Settled

(* The event a Dispatch offers to a sink is later than everything of its   *)
(* goroutine that the sink has seen.                                       *)
LEMMA OfferIsNew ==
    ASSUME TypeOK, Accounted, NEW t \in Threads, at[t] \in Sinks
    PROVE  /\ \A d \in Seen(at[t]) : d[1] = t => d[2] < sent[t]
           /\ CurrentEvent(t) \notin Seen(at[t])
<1>1. ASSUME NEW d \in Seen(at[t]), d[1] = t PROVE d[2] < sent[t]
  <2>1. d \in Events
    BY SeenAreEvents
  <2>2. d[2] \in 1..MaxCalls[t] /\ <<t, d[2]>> \in Seen(at[t])
    BY <1>1, <2>1, EventFields
  <2>3. PastSink(t, d[2], at[t])
    BY <2>2 DEF Accounted
  <2>4. at[t] \in Nat \ {0}
    BY DispatcherAssumption DEF Sinks
  <2> QED BY <2>3, <2>4 DEF PastSink
<1>2. ~(sent[t] < sent[t])
  BY DEF TypeOK
<1> QED BY <1>1, <1>2 DEF CurrentEvent

LEMMA OrderStep ==
    ASSUME TypeOK, Accounted, CountedOnceInOrder, [Next]_vars
    PROVE  CountedOnceInOrder'
<1> SUFFICES ASSUME NEW s \in Sinks
             PROVE  /\ InOrder(Pipe(s)')
                    /\ Range(Pipe(s)') \intersect (failed'[s] \union dropped'[s]) = {}
                    /\ failed'[s] \intersect dropped'[s] = {}
  BY DEF CountedOnceInOrder, InOrder
<1>0. /\ InOrder(Pipe(s))
      /\ Range(Pipe(s)) \intersect (failed[s] \union dropped[s]) = {}
      /\ failed[s] \intersect dropped[s] = {}
      /\ Pipe(s) \in Seq(Events)
  BY PipeType DEF CountedOnceInOrder, InOrder
<1>1. ASSUME Pipe(s)' = Pipe(s), failed'[s] = failed[s], dropped'[s] = dropped[s]
      PROVE  /\ InOrder(Pipe(s)')
             /\ Range(Pipe(s)') \intersect (failed'[s] \union dropped'[s]) = {}
             /\ failed'[s] \intersect dropped'[s] = {}
  BY <1>0, <1>1
<1>2. ASSUME NEW t \in Threads, Enqueue(t)
      PROVE  /\ InOrder(Pipe(s)')
             /\ Range(Pipe(s)') \intersect (failed'[s] \union dropped'[s]) = {}
             /\ failed'[s] \intersect dropped'[s] = {}
  <2>1. /\ at[t] \in Sinks /\ CurrentEvent(t) \in Events /\ UNCHANGED <<failed, dropped>>
        /\ Pipe(s)' = IF s = at[t] THEN Append(Pipe(s), CurrentEvent(t)) ELSE Pipe(s)
    BY <1>2, SeenOffer, PipeEnqueue DEF Enqueue, workerVars
  <2>2. CASE s = at[t]
    <3>1. /\ \A d \in Range(Pipe(s)) : d[1] = CurrentEvent(t)[1] => d[2] < CurrentEvent(t)[2]
          /\ CurrentEvent(t) \notin failed[s] \union dropped[s]
      BY <2>1, <2>2, OfferIsNew, SeenAreEvents DEF CurrentEvent
    <3>2. InOrder(Pipe(s)') /\ Range(Pipe(s)') = Range(Pipe(s)) \union {CurrentEvent(t)}
      BY <1>0, <2>1, <2>2, <3>1, OrderAppend, RangeAppend
    <3> QED BY <1>0, <2>1, <3>1, <3>2
  <2> QED BY <1>1, <2>1, <2>2
<1>3. ASSUME NEW t \in Threads, Drop(t)
      PROVE  /\ InOrder(Pipe(s)')
             /\ Range(Pipe(s)') \intersect (failed'[s] \union dropped'[s]) = {}
             /\ failed'[s] \intersect dropped'[s] = {}
  <2>1. /\ at[t] \in Sinks /\ Pipe(s)' = Pipe(s) /\ failed' = failed
        /\ dropped'[s] = dropped[s] \union (IF s = at[t] THEN {CurrentEvent(t)} ELSE {})
    BY <1>3, SeenOffer DEF Drop, Pipe, TypeOK, workerVars
  <2>2. s = at[t] => CurrentEvent(t) \notin Range(Pipe(s)) \union failed[s]
    BY OfferIsNew, SeenAreEvents
  <2> QED BY <1>0, <2>1, <2>2
<1>4. ASSUME NEW u \in Sinks, Take(u) \/ WriteSucceeds(u)
      PROVE  Pipe(s)' = Pipe(s) /\ failed'[s] = failed[s] /\ dropped'[s] = dropped[s]
  BY <1>4, PipeTake, PipeWriteSucceeds DEF Take, WriteSucceeds
<1>5. ASSUME NEW u \in Sinks, WriteFails(u)
      PROVE  /\ InOrder(Pipe(s)')
             /\ Range(Pipe(s)') \intersect (failed'[s] \union dropped'[s]) = {}
             /\ failed'[s] \intersect dropped'[s] = {}
  <2>1. CASE s # u
    BY <1>1, <1>5, <2>1, PipeWriteFails DEF WriteFails, TypeOK
  <2>2. CASE s = u
    <3>1. failed'[s] = failed[s] \union {Head(busy[s])} /\ dropped' = dropped
      BY <1>5, <2>2 DEF WriteFails, TypeOK
    <3>2. Pipe(s)' \in Seq(Events)
      BY <1>5, <2>2, PipeWriteFails
    <3>3. PICK k \in 1..Len(Pipe(s)) :
             /\ Pipe(s)[k] = Head(busy[s])
             /\ Len(Pipe(s)) = Len(Pipe(s)') + 1
             /\ \A i \in 1..Len(Pipe(s)') : Pipe(s)'[i] = IF i < k THEN Pipe(s)[i] ELSE Pipe(s)[i + 1]
      BY <1>5, <2>2, PipeWriteFails
    <3>4. /\ InOrder(Pipe(s)') /\ Range(Pipe(s)') \subseteq Range(Pipe(s))
          /\ Head(busy[s]) \in Range(Pipe(s)) /\ Head(busy[s]) \notin Range(Pipe(s)')
      BY <1>0, <3>2, <3>3, OrderWithout
    <3> QED BY <1>0, <3>1, <3>4
  <2> QED BY <2>1, <2>2
<1>6. CASE UNCHANGED <<queue, busy, written, failed, dropped>>
  BY <1>1, <1>6 DEF Pipe
<1>7. ASSUME NEW t \in Threads, DispatchRefused(t) \/ DispatchBegin(t) \/ GiveUp(t)
      PROVE  UNCHANGED <<queue, busy, written, failed, dropped>>
  BY <1>7 DEF DispatchRefused, DispatchBegin, GiveUp, workerVars
<1>8. ASSUME NEW u \in Sinks, SeeDone(u) \/ WorkerExit(u)
      PROVE  UNCHANGED <<queue, busy, written, failed, dropped>>
  BY <1>8 DEF SeeDone, WorkerExit
<1>9. ASSUME NEW c \in Closers, CallClose(c) \/ CloseReturn(c)
      PROVE  UNCHANGED <<queue, busy, written, failed, dropped>>
  BY <1>9 DEF CallClose, CloseReturn, workerVars
<1>10. ASSUME CloseBody PROVE UNCHANGED <<queue, busy, written, failed, dropped>>
  BY <1>10 DEF CloseBody, BeginClose, GraceExpires, Drained, CloseNextSink, CloseEnds, workerVars
<1>11. UNCHANGED vars => UNCHANGED <<queue, busy, written, failed, dropped>>
  BY DEF vars, workerVars
<1> QED
  BY <1>1, <1>2, <1>3, <1>4, <1>5, <1>6, <1>7, <1>8, <1>9, <1>10, <1>11
  DEF Next, Dispatch, Offer, run, deliver

(* The log keeps each goroutine's events in the order of its calls, has    *)
(* none twice, and Stats counts every event it has not at most once,       *)
(* however Dispatch, a worker's Write and the shutdown interleave          *)
(* (sink.go, Dispatch, run and deliver). Accounted is what makes a new     *)
(* event later than all its goroutine's events at that sink.               *)
THEOREM EventsStayInOrder == Spec => []CountedOnceInOrder
<1>1. Init => CountedOnceInOrder
  BY ConcatEmptySeq, RangeSlot DEF Init, CountedOnceInOrder, Pipe
<1>2. TypeOK /\ Accounted /\ CountedOnceInOrder /\ [Next]_vars => CountedOnceInOrder'
  BY OrderStep
<1> QED BY <1>1, <1>2, TypeCorrect, NothingGoesMissing, PTL DEF Spec

-----------------------------------------------------------------------------
(* What a Dispatch racing with Close strands. Once its worker has returned *)
(* a queue is only ever extended, and by calls that began before Close: a  *)
(* goroutine with an event there has got past the sink with the one call   *)
(* it was in, and no later call of its gets that far.                      *)
StrandedInv ==
    \A s \in Sinks :
        /\ worker[s] # "select" => phase # "open"
        /\ worker[s] = "exited" =>
              /\ \A e \in Range(queue[s]) : at[e[1]] = 0 \/ at[e[1]] > s
              /\ \A i, j \in DOMAIN queue[s] : i # j => queue[s][i][1] # queue[s][j][1]

LEMMA StrandedStep ==
    ASSUME TypeOK, StrandedInv, [Next]_vars
    PROVE  StrandedInv'
<1> SUFFICES ASSUME NEW s \in Sinks
             PROVE  /\ worker'[s] # "select" => phase' # "open"
                    /\ worker'[s] = "exited" =>
                          /\ \A e \in Range(queue'[s]) : at'[e[1]] = 0 \/ at'[e[1]] > s
                          /\ \A i, j \in DOMAIN queue'[s] : i # j => queue'[s][i][1] # queue'[s][j][1]
  BY DEF StrandedInv
<1> DEFINE Goal == /\ worker'[s] # "select" => phase' # "open"
                   /\ worker'[s] = "exited" =>
                          /\ \A e \in Range(queue'[s]) : at'[e[1]] = 0 \/ at'[e[1]] > s
                          /\ \A i, j \in DOMAIN queue'[s] : i # j => queue'[s][i][1] # queue'[s][j][1]
<1>0. /\ worker[s] # "select" => phase # "open"
      /\ worker[s] = "exited" =>
            /\ \A e \in Range(queue[s]) : at[e[1]] = 0 \/ at[e[1]] > s
            /\ \A i, j \in DOMAIN queue[s] : i # j => queue[s][i][1] # queue[s][j][1]
      /\ queue[s] \in Seq(Events) /\ Range(queue[s]) \subseteq Events /\ s \in Nat \ {0}
  BY RangeOfSeq, DispatcherAssumption DEF StrandedInv, TypeOK, Sinks
<1>1. ASSUME NEW t \in Threads, DispatchRefused(t) PROVE Goal
  BY <1>0, <1>1 DEF DispatchRefused, workerVars, closeVars
<1>2. ASSUME NEW t \in Threads, DispatchBegin(t) PROVE Goal
  BY <1>0, <1>2 DEF DispatchBegin, done, workerVars, closeVars
<1>3. ASSUME NEW t \in Threads, GiveUp(t) PROVE Goal
  <2>1. \A u \in Threads : at'[u] = at[u] \/ at'[u] = 0
    BY <1>3 DEF GiveUp, TypeOK
  <2> QED BY <1>0, <1>3, <2>1, EventFields DEF GiveUp, workerVars, closeVars
<1>4. ASSUME NEW t \in Threads, Enqueue(t) \/ Drop(t) PROVE Goal
  <2>1. /\ at[t] \in Sinks /\ at' = [at EXCEPT ![t] = AfterSink(@)] /\ UNCHANGED <<worker, phase>>
        /\ CurrentEvent(t) = <<t, sent[t]>>
    BY <1>4, SeenOffer DEF closeVars, CurrentEvent
  <2>2. at[t] \in Nat \ {0} /\ (AfterSink(at[t]) = 0 \/ AfterSink(at[t]) = at[t] + 1)
    BY <2>1, DispatcherAssumption DEF AfterSink, Sinks
  <2>3. \A u \in Threads : at[u] = 0 \/ at[u] > s => at'[u] = 0 \/ at'[u] > s
    BY <1>0, <2>1, <2>2 DEF TypeOK
  <2>4. CASE queue'[s] = queue[s]
    BY <1>0, <2>1, <2>3, <2>4, EventFields
  <2>5. CASE queue'[s] # queue[s] /\ worker[s] = "exited"
    <3>1. /\ at[t] = s /\ queue'[s] = Append(queue[s], CurrentEvent(t)) /\ CurrentEvent(t) \in Events
      <4>1. Enqueue(t)
        BY <1>4, <2>5 DEF Drop
      <4>2. CurrentEvent(t) \in Events
        BY <4>1, PipeEnqueue
      <4> QED BY <2>1, <2>5, <4>1, <4>2 DEF Enqueue, TypeOK
    <3>2. Range(queue'[s]) = Range(queue[s]) \union {CurrentEvent(t)}
      BY <1>0, <3>1, RangeAppend
    <3>3. at'[t] = 0 \/ at'[t] > s
      BY <2>1, <2>2, <3>1 DEF TypeOK
    <3>4. \A e \in Range(queue'[s]) : at'[e[1]] = 0 \/ at'[e[1]] > s
      BY <1>0, <2>1, <2>3, <2>5, <3>2, <3>3, EventFields
    <3>5. \A e \in Range(queue[s]) : e[1] # t
      BY <1>0, <2>5, <3>1
    <3>6. /\ DOMAIN queue[s] = 1..Len(queue[s]) /\ Len(queue[s]) \in Nat
          /\ DOMAIN queue'[s] = 1..(Len(queue[s]) + 1)
          /\ queue'[s][Len(queue[s]) + 1] = CurrentEvent(t)
          /\ \A i \in 1..Len(queue[s]) : queue'[s][i] = queue[s][i] /\ queue[s][i] \in Range(queue[s])
      BY <1>0, <3>1, AppendProperties, LenProperties DEF Range
    <3>7. ASSUME NEW i \in DOMAIN queue'[s], NEW j \in DOMAIN queue'[s], i # j
          PROVE  queue'[s][i][1] # queue'[s][j][1]
      <4> DEFINE n == Len(queue[s])
      <4>1. queue'[s][n + 1][1] = t
        BY <2>1, <3>6
      <4>2. CASE i = n + 1
        BY <3>5, <3>6, <3>7, <4>1, <4>2
      <4>3. CASE j = n + 1
        BY <3>5, <3>6, <3>7, <4>1, <4>3
      <4>4. CASE i # n + 1 /\ j # n + 1
        <5>1. i \in DOMAIN queue[s] /\ j \in DOMAIN queue[s]
          BY <3>6, <4>4
        <5> QED BY <1>0, <2>5, <3>6, <3>7, <5>1
      <4> QED BY <4>2, <4>3, <4>4
    <3> QED BY <1>0, <2>1, <3>4, <3>7
  <2> QED BY <1>0, <2>1, <2>4, <2>5
<1>5. ASSUME NEW u \in Sinks, Take(u) PROVE Goal
  BY <1>0, <1>5 DEF Take, TypeOK, dispatchVars, closeVars
<1>6. ASSUME NEW u \in Sinks, SeeDone(u) PROVE Goal
  BY <1>0, <1>6 DEF SeeDone, done, TypeOK, dispatchVars, closeVars
<1>7. ASSUME NEW u \in Sinks, WorkerExit(u) PROVE Goal
  <2>1. CASE u = s
    <3>1. queue'[s] = <<>> /\ worker[s] = "drain" /\ phase' = phase
      BY <1>7, <2>1 DEF WorkerExit, closeVars
    <3>2. DOMAIN queue'[s] = {}
      BY <3>1
    <3> QED BY <1>0, <3>1, <3>2 DEF Range
  <2>2. CASE u # s
    BY <1>0, <1>7, <2>2 DEF WorkerExit, TypeOK, dispatchVars, closeVars
  <2> QED BY <2>1, <2>2
<1>8. ASSUME NEW u \in Sinks, deliver(u) PROVE Goal
  BY <1>0, <1>8 DEF deliver, WriteSucceeds, WriteFails, dispatchVars, closeVars
<1>9. ASSUME NEW c \in Closers, CallClose(c) \/ CloseReturn(c) PROVE Goal
  BY <1>0, <1>9 DEF CallClose, CloseReturn, dispatchVars, workerVars
<1>10. ASSUME CloseBody PROVE Goal
  BY <1>0, <1>10
  DEF CloseBody, BeginClose, GraceExpires, Drained, CloseNextSink, CloseEnds, dispatchVars, workerVars
<1>11. CASE UNCHANGED vars
  BY <1>0, <1>11 DEF vars, dispatchVars, workerVars, closeVars
<1> QED
  BY <1>1, <1>2, <1>3, <1>4, <1>5, <1>6, <1>7, <1>8, <1>9, <1>10, <1>11
  DEF Next, Dispatch, Offer, run

(* The doc of Dispatch says a racing Dispatch may leave an event behind:   *)
(* it is at most one of each goroutine (sink.go, Dispatch and run).        *)
THEOREM AtMostOneIsStranded == Spec => []StrandedAtMostOnePerThread
<1>1. Init => StrandedInv
  BY DEF Init, StrandedInv
<1>2. TypeOK /\ StrandedInv /\ [Next]_vars => StrandedInv'
  BY StrandedStep
<1>3. StrandedInv => StrandedAtMostOnePerThread
  BY DEF StrandedInv, StrandedAtMostOnePerThread
<1> QED BY <1>1, <1>2, <1>3, TypeCorrect, PTL DEF Spec

-----------------------------------------------------------------------------
(* Every sink is an audit trail: the refinement mapping of Trail.          *)
pendingBar == [s \in Sinks |-> busy[s] \o queue[s]]
lostBar == [s \in Sinks |-> failed[s] \union dropped[s]]
stoppedBar == {s \in Sinks : worker[s] = "exited"}

LEMMA PendingType ==
    ASSUME TypeOK, NEW s \in Sinks
    PROVE  /\ pendingBar[s] \in Seq(Events)
           /\ Range(pendingBar[s]) = Undelivered(s)
           /\ Len(pendingBar[s]) \in {Len(queue[s]), Len(queue[s]) + 1} /\ Len(queue[s]) \in Nat
<1>1. busy[s] \in Seq(Events) /\ queue[s] \in Seq(Events)
  BY SlotIsASeq
<1>2. pendingBar[s] = busy[s] \o queue[s]
  BY DEF pendingBar
<1>3. Len(busy[s]) \in {0, 1}
  <2>1. CASE busy[s] = <<>>
    BY <2>1
  <2>2. ASSUME NEW e \in Events, busy[s] = <<e>> PROVE Len(busy[s]) = 1
    BY <2>2
  <2> QED BY <2>1, <2>2 DEF TypeOK
<1>4. /\ pendingBar[s] \in Seq(Events) /\ Range(pendingBar[s]) = Undelivered(s)
      /\ Len(pendingBar[s]) = Len(busy[s]) + Len(queue[s])
  BY <1>1, <1>2, ConcatProperties, RangeConcat DEF Undelivered
<1>5. Len(queue[s]) \in Nat
  BY <1>1, LenProperties
<1>6. ASSUME NEW n \in Nat PROVE 0 + n = n /\ 1 + n = n + 1
  OBVIOUS
<1>7. Len(pendingBar[s]) \in {Len(queue[s]), Len(queue[s]) + 1}
  <2>1. CASE Len(busy[s]) = 0
    BY <1>4, <1>5, <1>6, <2>1, Zenon
  <2>2. CASE Len(busy[s]) = 1
    BY <1>4, <1>5, <1>6, <2>2, Zenon
  <2> QED BY <1>3, <2>1, <2>2
<1> QED BY <1>4, <1>5, <1>7

LEMMA TrailSeen ==
    ASSUME TypeOK, NEW s \in Sinks
    PROVE  Trail!Seen(s) = Seen(s)
<1>1. \A f : Trail!Range(f) = Range(f)
  BY DEF Trail!Range, Range
<1>2. Trail!Seen(s) = Range(pendingBar[s]) \union Range(written[s]) \union lostBar[s]
  BY <1>1 DEF Trail!Seen, pendingBar, lostBar
<1> QED BY <1>2, PendingType DEF lostBar, Seen, Settled

LEMMA TrailInit == Init => Trail!Init
<1> SUFFICES ASSUME Init PROVE Trail!Init
  OBVIOUS
<1>1. pendingBar = [s \in Sinks |-> <<>>]
  <2>1. \A s \in Sinks : busy[s] = <<>> /\ queue[s] = <<>>
    BY DEF Init
  <2>2. <<>> \o <<>> = <<>>
    BY EmptySeq, ConcatEmptySeq
  <2> QED BY <2>1, <2>2 DEF pendingBar
<1>2. lostBar = [s \in Sinks |-> {}] /\ stoppedBar = {}
  BY DEF Init, lostBar, stoppedBar
<1>3. written = [s \in Sinks |-> <<>>]
  BY DEF Init
<1> QED BY <1>1, <1>2, <1>3 DEF Trail!Init, pendingBar, lostBar, stoppedBar

(* The steps of the dispatcher, each the step of the trail it stands for.  *)

LEMMA EnqueueAccepts ==
    ASSUME TypeOK, Accounted, NEW t \in Threads, Enqueue(t),
           NEW s \in Sinks, NEW e \in Events, s = at[t], e = CurrentEvent(t)
    PROVE  Trail!Accept(s, e)
<1>1. /\ e \notin Seen(s)
      /\ queue' = [queue EXCEPT ![s] = Append(@, e)] /\ HasRoom(s)
      /\ UNCHANGED <<busy, worker, written, failed, dropped>>
  BY OfferIsNew DEF Enqueue, workerVars
<1>2. e \notin Trail!Seen(s)
  BY <1>1, TrailSeen
<1>3. Len(pendingBar[s]) < QueueSize + 1
  <2>1. Len(pendingBar[s]) \in {Len(queue[s]), Len(queue[s]) + 1} /\ Len(queue[s]) \in Nat
    BY <1>1, PendingType
  <2>2. Len(queue[s]) < QueueSize /\ QueueSize \in Nat
    BY <1>1, DispatcherAssumption DEF HasRoom
  <2> QED BY <2>1, <2>2
<1>4. pendingBar' = [pendingBar EXCEPT ![s] = Append(@, e)]
  <2>1. ASSUME NEW u \in Sinks
        PROVE  busy[u] \o queue'[u] = IF u = s THEN Append(busy[s] \o queue[s], e) ELSE busy[u] \o queue[u]
    <3>1. CASE u = s
      <4>1. queue'[u] = Append(queue[s], e) /\ busy[s] \in Seq(Events) /\ queue[s] \in Seq(Events)
        BY <1>1, <3>1, SlotIsASeq DEF TypeOK
      <4> DEFINE b == busy[s]
                 q == queue[s]
      <4>2. b \in Seq(Events) /\ q \in Seq(Events) /\ e \in Events
        BY <1>1, <4>1
      <4> HIDE DEF b, q
      <4>3. b \o Append(q, e) = Append(b \o q, e)
        BY <4>2, ConcatAppend
      <4> QED BY <3>1, <4>1, <4>3 DEF b, q
    <3>2. CASE u # s
      BY <1>1, <3>2 DEF TypeOK
    <3> QED BY <3>1, <3>2
  <2>2. pendingBar' = [u \in Sinks |-> busy[u] \o queue'[u]]
    BY <1>1 DEF pendingBar
  <2> QED BY <1>1, <2>1, <2>2 DEF pendingBar
<1>5. UNCHANGED <<written, lostBar, stoppedBar>>
  BY <1>1 DEF lostBar, stoppedBar
<1> QED BY <1>1, <1>2, <1>3, <1>4, <1>5 DEF Trail!Accept, pendingBar, lostBar, stoppedBar

LEMMA DropRefuses ==
    ASSUME TypeOK, Accounted, NEW t \in Threads, Drop(t),
           NEW s \in Sinks, NEW e \in Events, s = at[t], e = CurrentEvent(t)
    PROVE  Trail!Refuse(s, e)
<1>1. /\ e \notin Seen(s)
      /\ dropped' = [dropped EXCEPT ![s] = @ \union {e}] /\ ~HasRoom(s)
      /\ UNCHANGED <<queue, busy, worker, written, failed>>
  BY OfferIsNew DEF Drop, workerVars
<1>2. e \notin Trail!Seen(s)
  BY <1>1, TrailSeen
<1>3. Len(pendingBar[s]) >= (QueueSize + 1) - 1
  <2>1. Len(pendingBar[s]) \in {Len(queue[s]), Len(queue[s]) + 1} /\ Len(queue[s]) \in Nat
    BY <1>1, PendingType
  <2>2. ~(Len(queue[s]) < QueueSize) /\ QueueSize \in Nat
    BY <1>1, DispatcherAssumption DEF HasRoom
  <2> QED BY <2>1, <2>2
<1>4. lostBar' = [lostBar EXCEPT ![s] = @ \union {e}]
  <2>1. \A u \in Sinks : dropped'[u] = IF u = s THEN dropped[u] \union {e} ELSE dropped[u]
    BY <1>1 DEF TypeOK
  <2>2. lostBar' = [u \in Sinks |-> failed[u] \union dropped'[u]]
    BY <1>1 DEF lostBar
  <2>3. \A u \in Sinks : failed[u] \union dropped'[u] = IF u = s THEN lostBar[u] \union {e} ELSE lostBar[u]
    BY <2>1 DEF lostBar
  <2>4. lostBar = [u \in Sinks |-> lostBar[u]]
    BY DEF lostBar
  <2> HIDE DEF lostBar
  <2> QED BY <2>2, <2>3, <2>4
<1>5. UNCHANGED <<written, pendingBar, stoppedBar>>
  BY <1>1 DEF pendingBar, stoppedBar
<1> QED BY <1>1, <1>2, <1>3, <1>4, <1>5 DEF Trail!Refuse, pendingBar, lostBar, stoppedBar

LEMMA TakeStutters ==
    ASSUME TypeOK, NEW s \in Sinks, Take(s)
    PROVE  UNCHANGED Trail!vars
<1>1. /\ busy' = [busy EXCEPT ![s] = <<Head(queue[s])>>] /\ queue' = [queue EXCEPT ![s] = Tail(@)]
      /\ busy[s] = <<>> /\ queue[s] # <<>> /\ UNCHANGED <<worker, written, failed, dropped>>
  BY DEF Take
<1>2. ASSUME NEW u \in Sinks PROVE busy'[u] \o queue'[u] = busy[u] \o queue[u]
  <2>1. CASE u = s
    <3> DEFINE q == queue[s]
    <3>1. busy'[u] = <<Head(q)>> /\ queue'[u] = Tail(q) /\ q \in Seq(Events)
      BY <1>1, <2>1 DEF TypeOK
    <3>2. busy[u] \o queue[u] = <<>> \o q
      BY <1>1, <2>1
    <3>3. q # <<>>
      BY <1>1
    <3> HIDE DEF q
    <3> QED BY <3>1, <3>2, <3>3, HeadThenTail, ConcatEmptySeq
  <2>2. CASE u # s
    BY <1>1, <2>2 DEF TypeOK
  <2> QED BY <2>1, <2>2
<1>3. UNCHANGED <<pendingBar, written, lostBar, stoppedBar>>
  BY <1>1, <1>2 DEF pendingBar, lostBar, stoppedBar
<1> QED BY <1>3 DEF Trail!vars, pendingBar, lostBar, stoppedBar

(* A Write takes the head of what is pending. *)
LEMMA DeliverTakesHead ==
    ASSUME TypeOK, CloseInv, NEW s \in Sinks, deliver(s)
    PROVE  /\ s \notin stoppedBar /\ stoppedBar' = stoppedBar
           /\ pendingBar[s] # <<>> /\ Head(pendingBar[s]) = Head(busy[s])
           /\ pendingBar' = [pendingBar EXCEPT ![s] = Tail(@)]
<1>1. /\ busy[s] # <<>> /\ busy' = [busy EXCEPT ![s] = <<>>] /\ UNCHANGED <<queue, worker>>
  BY DEF deliver, WriteSucceeds, WriteFails
<1>2. s \notin stoppedBar /\ stoppedBar' = stoppedBar
  BY <1>1 DEF stoppedBar, CloseInv
<1>3. PICK e \in Events : busy[s] = <<e>>
  BY <1>1 DEF TypeOK
<1> DEFINE q == queue[s]
           p == <<e>> \o q
<1>4. q \in Seq(Events) /\ <<e>> \in Seq(Events) /\ Len(<<e>>) = 1 /\ <<e>>[1] = e
  BY DEF TypeOK
<1>5. pendingBar[s] = p /\ busy'[s] \o queue'[s] = <<>> \o q
  BY <1>1, <1>3 DEF pendingBar, TypeOK
<1> HIDE DEF q
<1>6. /\ p \in Seq(Events) /\ Len(p) = 1 + Len(q) /\ Len(q) \in Nat
      /\ \A i \in 1..(1 + Len(q)) : p[i] = IF i <= 1 THEN <<e>>[i] ELSE q[i - 1]
  BY <1>4, ConcatProperties, LenProperties
<1> HIDE DEF p
<1>7. p # <<>> /\ Head(p) = e
  <2>1. p # <<>>
    BY <1>6, EmptySeq
  <2>2. Head(p) = p[1] /\ p[1] = e
    BY <1>4, <1>6, <2>1
  <2> QED BY <2>1, <2>2
<1>8. Tail(p) = q
  <2>1. /\ Tail(p) \in Seq(Events) /\ Len(Tail(p)) = Len(p) - 1
        /\ \A i \in 1..Len(Tail(p)) : Tail(p)[i] = p[i + 1]
    BY <1>6, <1>7, HeadTailProperties
  <2>2. ASSUME NEW i \in 1..Len(Tail(p)) PROVE Tail(p)[i] = q[i]
    <3>1. i + 1 \in 1..(1 + Len(q)) /\ ~(i + 1 <= 1) /\ (i + 1) - 1 = i
      BY <1>6, <2>1
    <3> QED BY <1>6, <2>1, <3>1
  <2> QED BY <1>4, <1>6, <2>1, <2>2, SeqEqual
<1>9. <<>> \o q = q
  BY <1>4, ConcatEmptySeq
<1>10. pendingBar' = [pendingBar EXCEPT ![s] = Tail(@)]
  <2>1. ASSUME NEW u \in Sinks
        PROVE  busy'[u] \o queue'[u] = IF u = s THEN Tail(pendingBar[s]) ELSE pendingBar[u]
    <3>1. CASE u = s
      BY <1>5, <1>8, <1>9, <3>1
    <3>2. CASE u # s
      BY <1>1, <3>2 DEF pendingBar, TypeOK
    <3> QED BY <3>1, <3>2
  <2>2. pendingBar' = [u \in Sinks |-> busy'[u] \o queue'[u]]
    BY DEF pendingBar
  <2>3. DOMAIN pendingBar = Sinks /\ pendingBar = [u \in Sinks |-> pendingBar[u]]
    BY DEF pendingBar
  <2> HIDE DEF pendingBar
  <2> QED BY <2>1, <2>2, <2>3
<1>11. Head(busy[s]) = e
  BY <1>3
<1> QED BY <1>2, <1>5, <1>7, <1>10, <1>11

LEMMA DeliverRecordsOrFails ==
    ASSUME TypeOK, CloseInv, NEW s \in Sinks, deliver(s)
    PROVE  Trail!Record(s) \/ Trail!Fail(s)
<1>1. /\ s \notin stoppedBar /\ stoppedBar' = stoppedBar
      /\ pendingBar[s] # <<>> /\ Head(pendingBar[s]) = Head(busy[s])
      /\ pendingBar' = [pendingBar EXCEPT ![s] = Tail(@)]
  BY DeliverTakesHead
<1>2. CASE WriteSucceeds(s)
  <2>1. written' = [written EXCEPT ![s] = Append(@, Head(pendingBar[s]))] /\ lostBar' = lostBar
    BY <1>1, <1>2 DEF WriteSucceeds, lostBar
  <2>2. Trail!Record(s)
    BY <1>1, <2>1 DEF Trail!Record, pendingBar, lostBar, stoppedBar
  <2> QED BY <2>2
<1>3. CASE WriteFails(s)
  <2>1. failed' = [failed EXCEPT ![s] = @ \union {Head(pendingBar[s])}] /\ UNCHANGED <<written, dropped>>
    BY <1>1, <1>3 DEF WriteFails
  <2>2. lostBar' = [lostBar EXCEPT ![s] = @ \union {Head(pendingBar[s])}]
    <3> DEFINE h == Head(pendingBar[s])
    <3>1. \A u \in Sinks : failed'[u] = IF u = s THEN failed[u] \union {h} ELSE failed[u]
      BY <2>1 DEF TypeOK
    <3> HIDE DEF h
    <3>2. lostBar' = [u \in Sinks |-> failed'[u] \union dropped[u]]
      BY <2>1 DEF lostBar
    <3>3. \A u \in Sinks : failed'[u] \union dropped[u] = IF u = s THEN lostBar[u] \union {h} ELSE lostBar[u]
      BY <3>1 DEF lostBar
    <3>4. lostBar = [u \in Sinks |-> lostBar[u]]
      BY DEF lostBar
    <3>5. lostBar' = [lostBar EXCEPT ![s] = @ \union {h}]
      <4> HIDE DEF lostBar
      <4> QED BY <3>2, <3>3, <3>4
    <3> QED BY <3>5 DEF h
  <2>3. Trail!Fail(s)
    BY <1>1, <2>1, <2>2 DEF Trail!Fail, pendingBar, lostBar, stoppedBar
  <2> QED BY <2>3
<1> QED BY <1>2, <1>3 DEF deliver

LEMMA WorkerExitStops ==
    ASSUME TypeOK, NEW s \in Sinks, WorkerExit(s)
    PROVE  Trail!Stop(s)
<1>1. /\ worker[s] = "drain" /\ busy[s] = <<>> /\ queue[s] = <<>>
      /\ worker' = [worker EXCEPT ![s] = "exited"] /\ UNCHANGED <<queue, busy, written, failed, dropped>>
  BY DEF WorkerExit
<1>2. s \notin stoppedBar /\ stoppedBar' = stoppedBar \union {s}
  BY <1>1 DEF stoppedBar, TypeOK
<1>3. pendingBar[s] = <<>>
  <2>1. pendingBar[s] = <<>> \o <<>>
    BY <1>1 DEF pendingBar
  <2> QED BY <2>1, EmptySeq, ConcatEmptySeq
<1>4. UNCHANGED <<pendingBar, written, lostBar>>
  BY <1>1 DEF pendingBar, lostBar
<1> QED BY <1>2, <1>3, <1>4 DEF Trail!Stop, pendingBar, lostBar, stoppedBar

LEMMA OtherStepsStutter ==
    ASSUME UNCHANGED <<queue, busy, written, failed, dropped>>,
           \A s \in Sinks : worker'[s] = "exited" <=> worker[s] = "exited"
    PROVE  UNCHANGED Trail!vars
BY DEF Trail!vars

LEMMA TrailStep ==
    ASSUME TypeOK, Accounted, CloseInv, [Next]_vars
    PROVE  [Trail!Next]_(Trail!vars)
<1>1. ASSUME NEW t \in Threads, Enqueue(t) \/ Drop(t) PROVE Trail!Next
  <2>1. at[t] \in Sinks
    BY <1>1, SeenOffer
  <2>2. sent[t] \in 1..MaxCalls[t]
    BY <2>1, DispatcherAssumption DEF TypeOK, Sinks
  <2>3. CurrentEvent(t) \in Events
    BY <2>2 DEF CurrentEvent, Events
  <2>4. PICK s \in Sinks : s = at[t]
    BY <2>1
  <2>5. PICK e \in Events : e = CurrentEvent(t)
    BY <2>3
  <2>6. Trail!Accept(s, e) \/ Trail!Refuse(s, e)
    BY <1>1, <2>4, <2>5, EnqueueAccepts, DropRefuses
  <2> QED BY <2>6 DEF Trail!Next
<1>2. ASSUME NEW s \in Sinks, Take(s) PROVE UNCHANGED Trail!vars
  BY <1>2, TakeStutters
<1>3. ASSUME NEW s \in Sinks, deliver(s) PROVE Trail!Next
  BY <1>3, DeliverRecordsOrFails DEF Trail!Next
<1>4. ASSUME NEW s \in Sinks, WorkerExit(s) PROVE Trail!Next
  BY <1>4, WorkerExitStops DEF Trail!Next
<1>5. ASSUME NEW s \in Sinks, SeeDone(s) PROVE UNCHANGED Trail!vars
  <2>1. \A u \in Sinks : worker'[u] = "exited" <=> worker[u] = "exited"
    BY <1>5 DEF SeeDone, TypeOK
  <2> QED BY <1>5, <2>1, OtherStepsStutter DEF SeeDone
<1>6. ASSUME NEW t \in Threads, DispatchRefused(t) \/ DispatchBegin(t) \/ GiveUp(t)
      PROVE  UNCHANGED Trail!vars
  BY <1>6, OtherStepsStutter DEF DispatchRefused, DispatchBegin, GiveUp, workerVars
<1>7. ASSUME NEW c \in Closers, CallClose(c) \/ CloseReturn(c) PROVE UNCHANGED Trail!vars
  BY <1>7, OtherStepsStutter DEF CallClose, CloseReturn, workerVars
<1>8. ASSUME CloseBody PROVE UNCHANGED Trail!vars
  BY <1>8, OtherStepsStutter
  DEF CloseBody, BeginClose, GraceExpires, Drained, CloseNextSink, CloseEnds, workerVars
<1>9. CASE UNCHANGED vars
  BY <1>9, OtherStepsStutter DEF vars, workerVars
<1> QED
  BY <1>1, <1>2, <1>3, <1>4, <1>5, <1>6, <1>7, <1>8, <1>9
  DEF Next, Dispatch, Offer, run

(* The dispatcher implements the audit trail: whatever its goroutines do,  *)
(* each sink is a bounded FIFO that accepts an event once, records what it *)
(* accepted in that order, counts an event it turned away or could not     *)
(* write, and stops only when nothing is pending (sink.go, the package     *)
(* comment, Dispatch, run, deliver and Close).                             *)
THEOREM SinksAreAuditTrails == Spec => IsAuditTrail
<1>1. Init => Trail!Init
  BY TrailInit
<1>2. TypeOK /\ Accounted /\ CloseInv /\ [Next]_vars => [Trail!Next]_(Trail!vars)
  BY TrailStep
<1> QED
  BY <1>1, <1>2, TypeCorrect, NothingGoesMissing, CloseInvariant, PTL DEF Spec, IsAuditTrail, Trail!Spec
=============================================================================
