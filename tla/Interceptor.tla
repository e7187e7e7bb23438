---------------------------- MODULE Interceptor ----------------------------
(***************************************************************************)
(* The interceptor of internal/interceptor/interceptor.go: it turns the    *)
(* JSON-RPC messages of a session into audit events and names, on a reply, *)
(* the request it answers. Several goroutines are in Parse at once; what   *)
(* they share is a bounded table of pending requests with a list of its    *)
(* keys in the order of insertion, both under one mutex.                   *)
(*                                                                         *)
(* A payload is the sequence of the messages it holds: one, those of a     *)
(* batch, or none. A call is a method with its tool name. The call of a    *)
(* reply is what its sender answers: the table cannot see it.              *)
(***************************************************************************)
EXTENDS Naturals, Sequences, SequencesExt

CONSTANTS
    Goroutines,     \* callers of Parse: the two pumps, HTTP handlers
    Ids,            \* JSON-RPC ids, as idKey normalises them
    NoId,           \* the id of a notification, or a null id
    Calls, NoCall,
    MaxPending,     \* size of the table (4096 in the code)
    Payloads,       \* what Parse can be given
    MaxTraffic      \* bound of the model: messages with an id

Messages ==
    [kind : {"request"}, id : Ids \union {NoId}, call : Calls]
    \union [kind : {"reply", "junk"}, id : Ids \union {NoId}, call : Calls \union {NoCall}]

ASSUME InterceptorAssumption ==
    /\ MaxPending \in Nat \ {0}
    /\ NoId \notin Ids
    /\ NoCall \notin Calls
    /\ Payloads \subseteq Seq(Messages)

VARIABLES
    pending,    \* ic.pending: the call stored under an id, NoCall where there is none
    order,      \* ic.order
    parsing,    \* the goroutines that are in Parse
    todo,       \* todo[g]: the messages of g's payload still to be read
    events,     \* events[g]: the events of g's payload so far
    traffic     \* history: the messages with an id in the order the table saw them

vars == <<pending, order, parsing, todo, events, traffic>>

Init ==
    /\ pending = [id \in Ids |-> NoCall]
    /\ order = <<>>
    /\ parsing = {}
    /\ todo = [g \in Goroutines |-> <<>>]
    /\ events = [g \in Goroutines |-> <<>>]
    /\ traffic = <<>>

-----------------------------------------------------------------------------
(* The table of pending requests *)

Outstanding == {id \in Ids : pending[id] # NoCall}

MutantRememberOffByOne(id, call) ==
    LET queued == IF id \in Outstanding THEN order ELSE Append(order, id)
        excess == IF Len(queued) >= MaxPending THEN Len(queued) - MaxPending + 1 ELSE 0
        evicted == {queued[i] : i \in 1..excess}
    IN  /\ order' = SubSeq(queued, excess + 1, Len(queued))
        /\ pending' = [i \in Ids |-> IF i \in evicted THEN NoCall
                                     ELSE IF i = id THEN call ELSE pending[i]]

(* A known id keeps its place in the order; the oldest go when it is full. *)
rememberPending(id, call) ==
    LET queued == IF id \in Outstanding THEN order ELSE Append(order, id)
        excess == IF Len(queued) > MaxPending THEN Len(queued) - MaxPending ELSE 0
        evicted == {queued[i] : i \in 1..excess}
    IN  /\ order' = SubSeq(queued, excess + 1, Len(queued))
        /\ pending' = [i \in Ids |-> IF i \in evicted THEN NoCall
                                     ELSE IF i = id THEN call ELSE pending[i]]

MutantTakeLeavesOrder(id) ==
    /\ pending' = [pending EXCEPT ![id] = NoCall]
    /\ UNCHANGED order

MutantTakeKeepsEntry(id) == UNCHANGED <<pending, order>>

takePending(id) ==
    /\ pending' = [pending EXCEPT ![id] = NoCall]
    /\ \E i \in DOMAIN order : order[i] = id /\ order' = RemoveAt(order, i)

-----------------------------------------------------------------------------
(* Parse *)

ParseBegin(g, payload) ==
    /\ g \notin parsing
    /\ parsing' = parsing \union {g}
    /\ todo' = [todo EXCEPT ![g] = payload]
    /\ events' = [events EXCEPT ![g] = <<>>]
    /\ UNCHANGED <<pending, order, traffic>>

Reading(g, m) ==
    /\ g \in parsing /\ todo[g] # <<>> /\ m = Head(todo[g])
    /\ todo' = [todo EXCEPT ![g] = Tail(@)]
    /\ UNCHANGED parsing

Emit(g, m, call) == events' = [events EXCEPT ![g] = Append(@, [message |-> m, call |-> call])]
Observe(m, call) == traffic' = Append(traffic, [kind |-> m.kind, id |-> m.id, call |-> call])

MutantRequestRemembersNotification(g, m) ==
    /\ m.kind = "request"
    /\ rememberPending(m.id, m.call)
    /\ Emit(g, m, m.call) /\ Observe(m, m.call)

(* fillFromRequest: a notification has nothing to correlate. *)
Request(g, m) ==
    /\ m.kind = "request" /\ m.id # NoId
    /\ rememberPending(m.id, m.call)
    /\ Emit(g, m, m.call) /\ Observe(m, m.call)

Notification(g, m) ==
    /\ m.kind = "request" /\ m.id = NoId
    /\ Emit(g, m, m.call)
    /\ UNCHANGED <<pending, order, traffic>>

(* fillFromResponse: the call comes from the table, or stays empty. *)
ReplyToKnown(g, m) ==
    /\ m.kind = "reply" /\ m.id \in Outstanding
    /\ takePending(m.id)
    /\ Emit(g, m, pending[m.id]) /\ Observe(m, pending[m.id])

ReplyToUnknown(g, m) ==
    /\ m.kind = "reply" /\ m.id \notin Outstanding
    /\ Emit(g, m, NoCall)
    /\ traffic' = IF m.id = NoId THEN traffic
                  ELSE Append(traffic, [kind |-> "reply", id |-> m.id, call |-> NoCall])
    /\ UNCHANGED <<pending, order>>

(* Malformed JSON, another protocol, neither method nor result nor error:  *)
(* the error is noted and the rest of the batch is read all the same.      *)
Junk(g, m) ==
    /\ m.kind = "junk"
    /\ UNCHANGED <<pending, order, events, traffic>>

parseOne(g) ==
    \E m \in Messages :
        /\ Reading(g, m)
        /\ \/ Request(g, m) \/ Notification(g, m)
           \/ ReplyToKnown(g, m) \/ ReplyToUnknown(g, m) \/ Junk(g, m)

ParseEnd(g) ==
    /\ g \in parsing /\ todo[g] = <<>>
    /\ parsing' = parsing \ {g}
    /\ UNCHANGED <<pending, order, todo, events, traffic>>

Next ==
    \E g \in Goroutines :
        \/ \E payload \in Payloads : Len(traffic) < MaxTraffic /\ ParseBegin(g, payload)
        \/ parseOne(g) \/ ParseEnd(g)

Spec == Init /\ [][Next]_vars

-----------------------------------------------------------------------------
(* Properties *)

TypeOK ==
    /\ pending \in [Ids -> Calls \union {NoCall}]
    /\ order \in Seq(Ids)
    /\ parsing \subseteq Goroutines
    /\ todo \in [Goroutines -> Seq(Messages)]
    /\ events \in [Goroutines -> Seq([message : Messages, call : Calls \union {NoCall}])]
    /\ traffic \in Seq([kind : {"request", "reply"}, id : Ids, call : Calls \union {NoCall}])

(* However goroutines interleave, the two structures of the table agree:   *)
(* the list has exactly the keys of the map, each once, and never more     *)
(* than MaxPending. A key left in the list alone would be evicted in place *)
(* of another; one left in the map alone would stay for ever.              *)
TableAgrees ==
    /\ Range(order) = Outstanding
    /\ IsInjective(order)
    /\ Len(order) <= MaxPending

(* The call a reply's event names is that of the last request with this    *)
(* id, and no other reply has been given that request.                     *)
NamesTheLatestRequest ==
    \A n \in DOMAIN traffic :
        traffic[n].kind = "reply" /\ traffic[n].call # NoCall =>
            \E i \in 1..(n-1) :
                /\ traffic[i].kind = "request"
                /\ traffic[i].id = traffic[n].id /\ traffic[i].call = traffic[n].call
                /\ \A j \in (i+1)..(n-1) : traffic[j].id # traffic[n].id

(* A request is forgotten only under the pressure of MaxPending others: a  *)
(* reply whose event names no call answers no request, or one after which  *)
(* that many other ids were asked for. Since is where the id was first     *)
(* asked for with no reply from then on.                                   *)
AskedSince(i, n) ==
    {traffic[k].id : k \in {k \in i..(n-1) : traffic[k].kind = "request"}} \ {traffic[n].id}

ForgetsOnlyUnderPressure ==
    \A n \in DOMAIN traffic : \A i \in 1..(n-1) :
        /\ traffic[n].kind = "reply" /\ traffic[n].call = NoCall
        /\ traffic[i].id = traffic[n].id
        /\ \A j \in i..(n-1) : traffic[j].id = traffic[n].id => traffic[j].kind = "request"
        /\ \A j \in 1..(i-1) : traffic[j].id = traffic[n].id =>
              \E k \in j..(i-1) : traffic[k].id = traffic[n].id /\ traffic[k].kind = "reply"
        => Cardinality(AskedSince(i, n)) >= MaxPending

(* Whatever ids are used again, evicted, or answered twice, a reply is     *)
(* named after the latest request it can answer, and has no name only if   *)
(* there is none or the table had to forget it.                            *)
RepliesAreNamedRight == NamesTheLatestRequest /\ ForgetsOnlyUnderPressure
=============================================================================
