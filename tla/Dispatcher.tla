----------------------------- MODULE Dispatcher -----------------------------
(***************************************************************************)
(* The sink dispatcher of internal/sinks/sink.go: goroutines of the proxy  *)
(* call Dispatch, each registered sink has a bounded queue and a worker,   *)
(* and Close stops the workers while calls of Dispatch may be in progress. *)
(*                                                                         *)
(* An event is <<t, n>>, the n-th call of Dispatch that goroutine t makes. *)
(* The counters reg.dropped and reg.failed are the cardinalities of the    *)
(* sets dropped[s] and failed[s] of the events they count.                 *)
(***************************************************************************)
EXTENDS Naturals, Sequences, FiniteSets, Functions

CONSTANTS
    Threads,    \* goroutines that call Dispatch: the two pumps, HTTP handlers
    Closers,    \* goroutines that call Close
    NumSinks,   \* sinks are 1..NumSinks, in the order Add registered them
    Required,   \* sinks added with required = TRUE: the local JSONL log
    Network,    \* sinks whose Write may hang until d.ctx is cancelled
    Closable,   \* sinks that implement io.Closer
    QueueSize,  \* capacity of a sink's queue (1024 in the code)
    MaxCalls    \* bound of the model: calls of Dispatch that each goroutine makes

Sinks == 1..NumSinks

ASSUME DispatcherAssumption ==
    /\ NumSinks \in Nat \ {0}
    /\ QueueSize \in Nat \ {0}
    /\ MaxCalls \in [Threads -> Nat]
    /\ Required \subseteq Sinks
    /\ Network \subseteq Sinks \ Required
    /\ Closable \subseteq Sinks

Events == UNION {{t} \X (1..MaxCalls[t]) : t \in Threads}

VARIABLES
    at,         \* at[t]: sink that t's Dispatch offers its event to; 0: not in Dispatch
    sent,       \* sent[t]: calls of Dispatch that t has made
    queue,      \* reg.queue
    busy,       \* busy[s]: <<e>> while the worker is in sink.Write(e), else <<>>
    worker,     \* where the worker is: in the outer select, in the drain loop, returned
    phase,      \* how far the one execution of Close's body is
    closer,     \* the callers of Close
    nextClose,  \* the sink the closing loop of Close looks at next
    closed,     \* sinks whose Close method has run
    dropped, failed,
    written,    \* what each sink has written, in the order it wrote it
    backlog     \* history: what each sink still had to write when Close began

dispatchVars == <<at, sent>>
workerVars == <<busy, worker, failed, written>>
closeVars == <<phase, closer, nextClose, closed, backlog>>
vars == <<at, sent, queue, dropped, workerVars, closeVars>>

Phases == {"open", "draining", "cutoff", "reporting", "closed"}

TypeOK ==
    /\ at \in [Threads -> 0..NumSinks]
    /\ sent \in [Threads -> Nat] /\ \A t \in Threads : sent[t] <= MaxCalls[t]
    /\ \A t \in Threads : at[t] # 0 => sent[t] # 0
    /\ queue \in [Sinks -> Seq(Events)]
    /\ \A s \in Sinks : Len(queue[s]) <= QueueSize
    /\ busy \in [Sinks -> {<<>>} \union {<<e>> : e \in Events}]
    /\ worker \in [Sinks -> {"select", "drain", "exited"}]
    /\ phase \in Phases
    /\ closer \in [Closers -> {"idle", "calling", "returned"}]
    /\ nextClose \in 1..(NumSinks + 1)
    /\ closed \subseteq Sinks
    /\ dropped \in [Sinks -> SUBSET Events]
    /\ failed \in [Sinks -> SUBSET Events]
    /\ written \in [Sinks -> Seq(Events)]
    /\ backlog \in [Sinks -> SUBSET Events]

Init ==
    /\ at = [t \in Threads |-> 0]
    /\ sent = [t \in Threads |-> 0]
    /\ queue = [s \in Sinks |-> <<>>]
    /\ busy = [s \in Sinks |-> <<>>]
    /\ worker = [s \in Sinks |-> "select"]
    /\ phase = "open"
    /\ closer = [c \in Closers |-> "idle"]
    /\ nextClose = 1
    /\ closed = {}
    /\ dropped = [s \in Sinks |-> {}]
    /\ failed = [s \in Sinks |-> {}]
    /\ written = [s \in Sinks |-> <<>>]
    /\ backlog = [s \in Sinks |-> {}]

(* Mutants: what a plausible slip in the code would do. Each shows that a  *)
(* property can fail; none is part of the specification.                   *)
MutantCtxNotCancelledAtGrace == phase \in {"reporting", "closed"}

(* d.done is closed from the start of Close on, d.ctx is cancelled when    *)
(* the grace period expires and in any case once the workers have drained. *)
done == phase # "open"
ctxDone == phase \in {"cutoff", "reporting", "closed"}

-----------------------------------------------------------------------------
(* Dispatch *)

CurrentEvent(t) == <<t, sent[t]>>
AfterSink(s) == IF s = NumSinks THEN 0 ELSE s + 1
HasRoom(s) == Len(queue[s]) < QueueSize

(* The first select: a call that finds done closed returns at once. *)
DispatchRefused(t) ==
    /\ at[t] = 0 /\ sent[t] < MaxCalls[t]
    /\ done
    /\ sent' = [sent EXCEPT ![t] = @ + 1]
    /\ UNCHANGED <<at, queue, dropped, workerVars, closeVars>>

MutantDispatchBeginUnchecked(t) ==
    /\ at[t] = 0 /\ sent[t] < MaxCalls[t]
    /\ sent' = [sent EXCEPT ![t] = @ + 1]
    /\ at' = [at EXCEPT ![t] = 1]
    /\ UNCHANGED <<queue, dropped, workerVars, closeVars>>

DispatchBegin(t) ==
    /\ at[t] = 0 /\ sent[t] < MaxCalls[t]
    /\ ~done
    /\ sent' = [sent EXCEPT ![t] = @ + 1]
    /\ at' = [at EXCEPT ![t] = 1]
    /\ UNCHANGED <<queue, dropped, workerVars, closeVars>>

MutantEnqueueUnbounded(t) ==
    /\ at[t] # 0
    /\ queue' = [queue EXCEPT ![at[t]] = Append(@, CurrentEvent(t))]
    /\ at' = [at EXCEPT ![t] = AfterSink(@)]
    /\ UNCHANGED <<sent, dropped, workerVars, closeVars>>

(* A send into the queue of the sink t has reached, required or not. When  *)
(* both cases of a required sink's select are ready, Go picks either.      *)
Enqueue(t) ==
    /\ at[t] # 0 /\ HasRoom(at[t])
    /\ queue' = [queue EXCEPT ![at[t]] = Append(@, CurrentEvent(t))]
    /\ at' = [at EXCEPT ![t] = AfterSink(@)]
    /\ UNCHANGED <<sent, dropped, workerVars, closeVars>>

MutantGiveUpContinues(t) ==
    /\ at[t] \in Required
    /\ done
    /\ at' = [at EXCEPT ![t] = AfterSink(@)]
    /\ UNCHANGED <<sent, queue, dropped, workerVars, closeVars>>

(* case <-d.done of a required sink: the call returns, and the sinks after *)
(* this one are not offered the event either.                              *)
GiveUp(t) ==
    /\ at[t] \in Required
    /\ done
    /\ at' = [at EXCEPT ![t] = 0]
    /\ UNCHANGED <<sent, queue, dropped, workerVars, closeVars>>

MutantDropUncounted(t) ==
    /\ at[t] \in Sinks \ Required
    /\ ~HasRoom(at[t])
    /\ at' = [at EXCEPT ![t] = AfterSink(@)]
    /\ UNCHANGED <<sent, queue, dropped, workerVars, closeVars>>

(* An optional sink waited for like a required one. *)
MutantDropWaits(t) == FALSE

(* default of an optional sink: its queue is full. *)
Drop(t) ==
    /\ at[t] \in Sinks \ Required
    /\ ~HasRoom(at[t])
    /\ dropped' = [dropped EXCEPT ![at[t]] = @ \union {CurrentEvent(t)}]
    /\ at' = [at EXCEPT ![t] = AfterSink(@)]
    /\ UNCHANGED <<sent, queue, workerVars, closeVars>>

Offer(t) == Enqueue(t) \/ GiveUp(t) \/ Drop(t)

-----------------------------------------------------------------------------
(* run and deliver: the worker of sink s *)

(* case event := <-reg.queue, in the outer select and in the drain loop. *)
Take(s) ==
    /\ worker[s] \in {"select", "drain"} /\ busy[s] = <<>>
    /\ queue[s] # <<>>
    /\ busy' = [busy EXCEPT ![s] = <<Head(queue[s])>>]
    /\ queue' = [queue EXCEPT ![s] = Tail(@)]
    /\ UNCHANGED <<dispatchVars, dropped, worker, failed, written, closeVars>>

MutantSeeDoneExits(s) ==
    /\ worker[s] = "select" /\ busy[s] = <<>>
    /\ done
    /\ worker' = [worker EXCEPT ![s] = "exited"]
    /\ UNCHANGED <<dispatchVars, queue, dropped, busy, failed, written, closeVars>>

(* case <-d.done: chosen at random against a queue that is not empty. *)
SeeDone(s) ==
    /\ worker[s] = "select" /\ busy[s] = <<>>
    /\ done
    /\ worker' = [worker EXCEPT ![s] = "drain"]
    /\ UNCHANGED <<dispatchVars, queue, dropped, busy, failed, written, closeVars>>

WorkerExit(s) ==
    /\ worker[s] = "drain" /\ busy[s] = <<>>
    /\ queue[s] = <<>>
    /\ worker' = [worker EXCEPT ![s] = "exited"]
    /\ UNCHANGED <<dispatchVars, queue, dropped, busy, failed, written, closeVars>>

(* sink.Write returns: a sink that has been closed refuses the event. *)
WriteSucceeds(s) ==
    /\ busy[s] # <<>>
    /\ s \notin closed
    /\ written' = [written EXCEPT ![s] = Append(@, Head(busy[s]))]
    /\ busy' = [busy EXCEPT ![s] = <<>>]
    /\ UNCHANGED <<dispatchVars, queue, dropped, worker, failed, closeVars>>

MutantWriteFailsUncounted(s) ==
    /\ busy[s] # <<>>
    /\ busy' = [busy EXCEPT ![s] = <<>>]
    /\ UNCHANGED <<dispatchVars, queue, dropped, worker, failed, written, closeVars>>

MutantWriteFailsRequeues(s) ==
    /\ busy[s] # <<>> /\ HasRoom(s)
    /\ queue' = [queue EXCEPT ![s] = Append(@, Head(busy[s]))]
    /\ busy' = [busy EXCEPT ![s] = <<>>]
    /\ UNCHANGED <<dispatchVars, dropped, worker, failed, written, closeVars>>

WriteFails(s) ==
    /\ busy[s] # <<>>
    /\ failed' = [failed EXCEPT ![s] = @ \union {Head(busy[s])}]
    /\ busy' = [busy EXCEPT ![s] = <<>>]
    /\ UNCHANGED <<dispatchVars, queue, dropped, worker, written, closeVars>>

deliver(s) == WriteSucceeds(s) \/ WriteFails(s)

-----------------------------------------------------------------------------
(* Close *)

Undelivered(s) == Range(busy[s]) \union Range(queue[s])
AllExited == \A s \in Sinks : worker[s] = "exited"

CallClose(c) ==
    /\ closer[c] = "idle"
    /\ closer' = [closer EXCEPT ![c] = "calling"]
    /\ UNCHANGED <<dispatchVars, queue, dropped, workerVars, phase, nextClose, closed, backlog>>

(* closeOnce lets one caller execute the body, which closes d.done. *)
BeginClose ==
    /\ phase = "open"
    /\ \E c \in Closers : closer[c] = "calling"
    /\ phase' = "draining"
    /\ backlog' = [s \in Sinks |-> Undelivered(s)]
    /\ UNCHANGED <<dispatchVars, queue, dropped, workerVars, closer, nextClose, closed>>

(* case <-time.After(d.drainGrace): the sinks' context is cancelled. *)
GraceExpires ==
    /\ phase = "draining"
    /\ phase' = "cutoff"
    /\ UNCHANGED <<dispatchVars, queue, dropped, workerVars, closer, nextClose, closed, backlog>>

MutantDrainedNotAwaited ==
    /\ phase \in {"draining", "cutoff"}
    /\ phase = "cutoff" \/ AllExited
    /\ phase' = "reporting"
    /\ UNCHANGED <<dispatchVars, queue, dropped, workerVars, closer, nextClose, closed, backlog>>

(* <-drained: wg.Wait has returned. *)
Drained ==
    /\ phase \in {"draining", "cutoff"}
    /\ AllExited
    /\ phase' = "reporting"
    /\ UNCHANGED <<dispatchVars, queue, dropped, workerVars, closer, nextClose, closed, backlog>>

CloseNextSink ==
    /\ phase = "reporting" /\ nextClose \in Sinks
    /\ closed' = closed \union ({nextClose} \intersect Closable)
    /\ nextClose' = nextClose + 1
    /\ UNCHANGED <<dispatchVars, queue, dropped, workerVars, phase, closer, backlog>>

CloseEnds ==
    /\ phase = "reporting" /\ nextClose \notin Sinks
    /\ phase' = "closed"
    /\ UNCHANGED <<dispatchVars, queue, dropped, workerVars, closer, nextClose, closed, backlog>>

MutantCloseReturnWithoutOnce(c) ==
    /\ closer[c] = "calling" /\ phase # "open"
    /\ closer' = [closer EXCEPT ![c] = "returned"]
    /\ UNCHANGED <<dispatchVars, queue, dropped, workerVars, phase, nextClose, closed, backlog>>

(* sync.Once: every caller waits until the body has been executed. *)
CloseReturn(c) ==
    /\ closer[c] = "calling" /\ phase = "closed"
    /\ closer' = [closer EXCEPT ![c] = "returned"]
    /\ UNCHANGED <<dispatchVars, queue, dropped, workerVars, phase, nextClose, closed, backlog>>

Dispatch(t) == DispatchRefused(t) \/ DispatchBegin(t) \/ Offer(t)
run(s) == Take(s) \/ SeeDone(s) \/ WorkerExit(s)
CloseBody == BeginClose \/ GraceExpires \/ Drained \/ CloseNextSink \/ CloseEnds

Next ==
    \/ \E t \in Threads : Dispatch(t)
    \/ \E s \in Sinks : run(s) \/ deliver(s)
    \/ \E c \in Closers : CallClose(c) \/ CloseReturn(c)
    \/ CloseBody

Spec == Init /\ [][Next]_vars

(* What the Go scheduler and the timer guarantee: a goroutine that can     *)
(* move does. Nobody is obliged to call Dispatch or Close. Write on a      *)
(* local sink returns; a network sink is only relied upon to return once   *)
(* its context is cancelled.                                               *)
Fairness ==
    /\ \A t \in Threads : WF_vars(Offer(t))
    /\ \A s \in Sinks : WF_vars(run(s))
    /\ \A s \in Sinks \ Network : WF_vars(deliver(s))
    /\ \A s \in Network : WF_vars(ctxDone /\ deliver(s))
    /\ \A c \in Closers : WF_vars(CloseReturn(c))
    /\ WF_vars(CloseBody)

FairSpec == Spec /\ Fairness

-----------------------------------------------------------------------------
(* Properties *)

(* Where an event can be at a sink, and whether the n-th call of t has got *)
(* past sink s.                                                            *)
Settled(s) == Range(written[s]) \union failed[s] \union dropped[s]
Seen(s) == Undelivered(s) \union Settled(s)
PastSink(t, n, s) == n < sent[t] \/ (n = sent[t] /\ (at[t] = 0 \/ at[t] > s))

(* While the dispatcher is open, an event whose Dispatch has passed a sink *)
(* is accounted for there: waiting, being written, written or counted as   *)
(* failed or dropped. No event reaches a sink before its Dispatch does.    *)
Accounted ==
    \A s \in Sinks : \A t \in Threads : \A n \in 1..MaxCalls[t] :
        /\ phase = "open" /\ PastSink(t, n, s) => <<t, n>> \in Seen(s)
        /\ <<t, n>> \in Seen(s) => PastSink(t, n, s)

(* What a sink's worker has written and has yet to write holds the events  *)
(* of each goroutine in the order of its calls, none twice, and none of    *)
(* them is also counted as failed or dropped, nor any event under both     *)
(* counters: the log keeps the order of the traffic and Stats is exact.    *)
Pipe(s) == written[s] \o busy[s] \o queue[s]

CountedOnceInOrder ==
    \A s \in Sinks :
        /\ \A i, j \in DOMAIN Pipe(s) :
              i < j /\ Pipe(s)[i][1] = Pipe(s)[j][1] => Pipe(s)[i][2] < Pipe(s)[j][2]
        /\ Range(Pipe(s)) \intersect (failed[s] \union dropped[s]) = {}
        /\ failed[s] \intersect dropped[s] = {}

(* A required sink has every event that a sink registered after it has: no *)
(* webhook is given an event the log before it was not given, even when    *)
(* Close interrupts Dispatch between the two.                              *)
RequiredLogCoversLaterSinks ==
    \A r \in Required : \A s \in Sinks :
        r < s => Seen(s) \subseteq Seen(r)

(* A worker returns only after it has dealt with everything its sink had   *)
(* to write when Close began, whichever way its select chose.              *)
BacklogDealtWith ==
    \A s \in Sinks : worker[s] = "exited" => backlog[s] \subseteq Settled(s)

(* Close closes a sink only once no worker can write to it any more, and   *)
(* no caller of Close returns before every sink is closed.                 *)
ClosedSinksAreQuiet ==
    /\ \A s \in closed : worker[s] = "exited" /\ busy[s] = <<>>
    /\ \A c \in Closers : closer[c] = "returned" => closed = Closable

(* What a Dispatch racing with Close can strand in the queue of a worker   *)
(* that has returned: at most one event of each goroutine.                 *)
StrandedAtMostOnePerThread ==
    \A s \in Sinks : worker[s] = "exited" =>
        \A i, j \in DOMAIN queue[s] : i # j => queue[s][i][1] # queue[s][j][1]

(* The contract of the package comment: the local log never loses an       *)
(* event. An event in the queue of a worker that has returned is neither   *)
(* written nor counted as failed or dropped.                               *)
RequiredSinkNeverLosesAnEvent ==
    \A s \in Required : worker[s] = "exited" => queue[s] = <<>>

(* Nothing waits for ever: Close returns although a network sink hangs and *)
(* Dispatch is running; Dispatch does, backpressure and shutdown included; *)
(* and what the log was given while the dispatcher was open gets its       *)
(* Write, also when Close begins in between.                               *)
NothingWaitsForEver ==
    /\ \A c \in Closers : closer[c] = "calling" ~> closer[c] = "returned"
    /\ \A t \in Threads : at[t] # 0 ~> at[t] = 0
    /\ \A s \in Required : \A e \in Events :
          e \in Undelivered(s) /\ phase = "open" ~> e \in Settled(s)

(* Every sink is an audit trail in the sense of module AuditTrail.         *)
Trail == INSTANCE AuditTrail WITH
    Capacity <- QueueSize + 1,
    pending <- [s \in Sinks |-> busy[s] \o queue[s]],
    trail <- written,
    lost <- [s \in Sinks |-> failed[s] \union dropped[s]],
    stopped <- {s \in Sinks : worker[s] = "exited"}

IsAuditTrail == Trail!Spec
=============================================================================
