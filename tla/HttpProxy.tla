----------------------------- MODULE HttpProxy -----------------------------
(***************************************************************************)
(* `mcp-audit serve` (internal/httpproxy/proxy.go, tap.go): a reverse      *)
(* proxy in front of one remote server. Every HTTP exchange has a handler  *)
(* of its own, and the handlers of all clients share one Interceptor and   *)
(* one dispatcher. A request body is parsed, judged and dispatched before  *)
(* it is forwarded; the response is tapped as the client reads it.         *)
(*                                                                         *)
(* A line is what the tap hands on at once: a JSON body or the data of a   *)
(* server-sent event. Bytes below that are left out, as are exchanges that *)
(* carry no JSON-RPC. The Mcp-Session-Id of an exchange is its client.     *)
(***************************************************************************)
EXTENDS Selection

CONSTANTS
    Exchanges, Clients,
    ClientOf,               \* ClientOf[x]: the client that makes exchange x
    IdsOf, ServerIds,       \* the ids a request in exchange x or of the server may have
    NoId,                   \* the id of a notification
    Calls, NoCall,
    ClientCalls, ServerCalls,
    Denied,                 \* <<client, call>>: what policy denies
    MaxPending,
    Forms,                  \* Forms[x]: the lines of exchange x: single, batch, big, junk
    Modes,                  \* Modes[x]: what the server answers with: json, sse, other
    MaxLines                \* bound of the model: lines of one response

Ids == ((UNION {IdsOf[x] : x \in Exchanges}) \union ServerIds) \ {NoId}

ASSUME HttpProxyAssumption ==
    /\ NoCall \notin Calls
    /\ ClientOf \in [Exchanges -> Clients]
    /\ \A x, y \in Exchanges :
          x # y /\ ClientOf[x] = ClientOf[y] => IdsOf[x] \intersect IdsOf[y] \subseteq {NoId}
    /\ ClientCalls \union ServerCalls \subseteq Calls
    /\ Denied \subseteq Clients \X Calls
    /\ MaxPending \in Nat \ {0}
    /\ Forms \in [Exchanges -> SUBSET {"single", "batch", "big", "junk"}]
    /\ Modes \in [Exchanges -> SUBSET {"json", "sse", "other"}]
    /\ MaxLines \in Nat

Messages ==
    [kind : {"request"}, id : Ids \union {NoId}, call : Calls]
    \union [kind : {"reply", "junk"}, id : Ids \union {NoId}, call : Calls \union {NoCall}]

Lines == [form : {"none", "single", "batch", "big", "error"}, messages : Seq(Messages)]

(* What the log holds: the events of an exchange, by the side that spoke.  *)
Entry == [from : {"client", "server"}, exchange : Exchanges,
          event : [message : Messages, call : Calls \union {NoCall}]]

VARIABLES
    pending, order, parsing, todo, events, traffic,     \* the Interceptor
    at,         \* where the handler of x is
    body,       \* body[x]: the request body
    mode,       \* mode[x]: how the response is tapped, "none" while there is none
    said,       \* said[x]: the lines read from the server
    held,       \* held[x]: <<l>> while line l waits in the tap for the end of the body
    truncated,  \* the taps that have met a line over their limit
    ended,      \* the exchanges whose tap has seen the end of the body
    dispatched, \* dispatched[x]: events of the line in hand already dispatched
    serverGot,  \* the exchanges whose request the server has got
    clientGot,  \* clientGot[x]: the lines the client has got
    audit,      \* the log
    main        \* ListenAndServe serves or shuts down; it has returned and the
                \* dispatcher is closed; the process has exited

interceptorVars == <<pending, order, parsing, todo, events, traffic>>
tapVars == <<mode, said, held, truncated, ended>>
worldVars == <<serverGot, clientGot>>
vars == <<interceptorVars, at, body, tapVars, dispatched, worldVars, audit, main>>

Icpt == INSTANCE Interceptor WITH
    Goroutines <- Exchanges, Payloads <- {}, MaxTraffic <- 0

Init ==
    /\ Icpt!Init
    /\ at = [x \in Exchanges |-> "idle"]
    /\ body = [x \in Exchanges |-> [form |-> "none", messages |-> <<>>]]
    /\ mode = [x \in Exchanges |-> "none"]
    /\ said = [x \in Exchanges |-> <<>>]
    /\ held = [x \in Exchanges |-> <<>>]
    /\ truncated = {} /\ ended = {}
    /\ dispatched = [x \in Exchanges |-> 0]
    /\ serverGot = {}
    /\ clientGot = [x \in Exchanges |-> <<>>]
    /\ audit = <<>>
    /\ main = "serving"

-----------------------------------------------------------------------------
(* What clients and the server have to say                                 *)

MessagesIn(lines) == UNION {Range(lines[i].messages) : i \in DOMAIN lines}
Requests(set) == {m \in set : m.kind = "request" /\ m.id # NoId}
Reply(m) == [m EXCEPT !.kind = "reply"]
Junk == [kind |-> "junk", id |-> NoId, call |-> NoCall]

Mine(x) == {y \in Exchanges : ClientOf[y] = ClientOf[x]}

(* The server answers a request on any stream of its client, once; a       *)
(* client answers the server's request in any exchange, once.              *)
AskedOfServer(x) == Requests(UNION {Range(body[y].messages) : y \in Mine(x) \intersect serverGot})
AskedOfClient(x) == Requests(UNION {MessagesIn(clientGot[y]) : y \in Mine(x)})
SaidTo(x) == UNION {MessagesIn(said[y]) : y \in Mine(x)}
Posted(x) == UNION {Range(body[y].messages) : y \in Mine(x)}

LinesOf(x, messages) ==
    [form : Forms[x] \intersect {"single", "big"}, messages : {<<m>> : m \in messages}]
    \union [form : Forms[x] \intersect {"batch"}, messages : {<<m, Junk>> : m \in messages}]
    \union [form : {"single"}, messages : IF "junk" \in Forms[x] THEN {<<Junk>>} ELSE {}]

CanPost(x) ==
    {[form |-> "none", messages |-> <<>>]} \union
    LinesOf(x, [kind : {"request"}, id : IdsOf[x], call : ClientCalls]
               \union ({Reply(m) : m \in AskedOfClient(x)} \ Posted(x)))

CanSay(x) ==
    LET used == {m.id : m \in UNION {MessagesIn(said[y]) : y \in Exchanges}} \ {NoId} IN
    LinesOf(x, ({Reply(m) : m \in AskedOfServer(x)} \ SaidTo(x))
               \union [kind : {"request"}, id : ServerIds \ used, call : ServerCalls])

-----------------------------------------------------------------------------
(* ServeHTTP and auditRequestBody                                          *)

Go(x, place) == at' = [at EXCEPT ![x] = place]

Audited(l) == l.form \in {"single", "batch"}

(* A body that cannot be read is answered with 400, and nothing else. *)
ReadBodyFails(x) ==
    /\ at[x] = "idle" /\ main = "serving"
    /\ Go(x, "done")
    /\ UNCHANGED <<interceptorVars, body, tapVars, dispatched, worldVars, audit, main>>

(* No body, or one over maxAuditBytes, is forwarded unread. *)
Receive(x) ==
    /\ at[x] = "idle" /\ main = "serving"
    /\ \E l \in CanPost(x) :
        /\ body' = [body EXCEPT ![x] = l]
        /\ \/ Audited(l) /\ Icpt!ParseBegin(x, l.messages) /\ Go(x, "request")
           \/ ~Audited(l) /\ UNCHANGED interceptorVars /\ Go(x, "send")
    /\ UNCHANGED <<tapVars, dispatched, worldVars, audit, main>>

ParseMessage(x) ==
    /\ at[x] \in {"request", "reply", "rest"}
    /\ Icpt!parseOne(x)
    /\ UNCHANGED <<at, body, tapVars, dispatched, worldVars, audit, main>>

Refused(x) ==
    /\ body[x].form = "single" /\ Len(events[x]) = 1
    /\ <<ClientOf[x], events[x][1].call>> \in Denied

MutantJudgeAuditsRefusalsOnly(x) ==
    /\ at[x] = "request" /\ Icpt!ParseEnd(x)
    /\ Go(x, IF Refused(x) THEN "log" ELSE "send")
    /\ dispatched' = [dispatched EXCEPT ![x] = 0]
    /\ UNCHANGED <<body, tapVars, worldVars, audit, main>>

Judge(x) ==
    /\ at[x] = "request" /\ Icpt!ParseEnd(x)
    /\ Go(x, "log")
    /\ dispatched' = [dispatched EXCEPT ![x] = 0]
    /\ UNCHANGED <<body, tapVars, worldVars, audit, main>>

(* DispatchAll, event by event. A closed dispatcher ignores them.          *)
Dispatch(x) ==
    /\ at[x] \in {"log", "logReply", "logRest"} /\ dispatched[x] < Len(events[x])
    /\ dispatched' = [dispatched EXCEPT ![x] = @ + 1]
    /\ audit' = IF main \in {"serving", "shutdown"}
                THEN Append(audit, [from |-> IF at[x] = "log" THEN "client" ELSE "server",
                                    exchange |-> x, event |-> events[x][dispatched[x] + 1]])
                ELSE audit
    /\ UNCHANGED <<interceptorVars, at, body, tapVars, worldVars, main>>

RequestLogged(x) ==
    /\ at[x] = "log" /\ dispatched[x] = Len(events[x])
    /\ Go(x, IF Refused(x) THEN "refuse" ELSE "send")
    /\ UNCHANGED <<interceptorVars, body, tapVars, dispatched, worldVars, audit, main>>

(* An error response, to the id of the refused message or to null.         *)
Answer(x, id) ==
    clientGot' = [clientGot EXCEPT ![x] = Append(@,
        [form |-> "error", messages |-> <<[kind |-> "reply", id |-> id, call |-> NoCall]>>])]

MutantDenialForwards(x) ==
    /\ at[x] = "refuse"
    /\ Answer(x, events[x][1].message.id)
    /\ Go(x, "send")
    /\ UNCHANGED <<interceptorVars, body, tapVars, dispatched, serverGot, audit, main>>

writeDenial(x) ==
    /\ at[x] = "refuse"
    /\ Answer(x, events[x][1].message.id)
    /\ Go(x, "done")
    /\ UNCHANGED <<interceptorVars, body, tapVars, dispatched, serverGot, audit, main>>

-----------------------------------------------------------------------------
(* The reverse proxy, modifyResponse and the tap                           *)

Forward(x) ==
    /\ at[x] = "send"
    /\ serverGot' = serverGot \union {x}
    /\ Go(x, "wait")
    /\ UNCHANGED <<interceptorVars, body, tapVars, dispatched, clientGot, audit, main>>

(* The server cannot be reached, or is lost before it answers; so is the   *)
(* client. The answer has a null id and is not audited.                    *)
handleUpstreamError(x) ==
    /\ at[x] \in {"send", "wait"}
    /\ Answer(x, NoId)
    /\ Go(x, "done")
    /\ UNCHANGED <<interceptorVars, body, tapVars, dispatched, serverGot, audit, main>>

modifyResponse(x) ==
    /\ at[x] = "wait"
    /\ \E m \in Modes[x] : mode' = [mode EXCEPT ![x] = m]
    /\ Go(x, "stream")
    /\ UNCHANGED <<interceptorVars, body, said, held, truncated, ended, dispatched, worldVars, audit, main>>

(* bodyTap.Read: the server's next line arrives, in one of four ways.      *)
ReadLine(x, l) ==
    /\ at[x] = "stream" /\ x \notin ended /\ held[x] = <<>>
    /\ Len(said[x]) < IF mode[x] = "sse" THEN MaxLines ELSE 1
    /\ said' = [said EXCEPT ![x] = Append(@, l)]
    /\ dispatched' = [dispatched EXCEPT ![x] = 0]
    /\ UNCHANGED <<body, mode, worldVars, audit, main>>

(* Not MCP traffic, or nothing is audited any more: the line passes.       *)
ReadUntapped(x, l) ==
    /\ mode[x] = "other" \/ x \in truncated
    /\ Go(x, "deliver")
    /\ UNCHANGED <<interceptorVars, held, truncated, ended>>

MutantReadOverLimitSwallows(x, l) ==
    /\ mode[x] # "other" /\ x \notin truncated /\ l.form = "big"
    /\ truncated' = truncated \union {x}
    /\ Go(x, "stream")
    /\ UNCHANGED <<interceptorVars, held, ended>>

ReadOverLimit(x, l) ==
    /\ mode[x] # "other" /\ x \notin truncated /\ l.form = "big"
    /\ truncated' = truncated \union {x}
    /\ Go(x, "deliver")
    /\ UNCHANGED <<interceptorVars, held, ended>>

(* A complete event, or the end of the body in the same Read: the line is  *)
(* audited before the client gets it.                                      *)
ReadComplete(x, l) ==
    /\ mode[x] # "other" /\ x \notin truncated /\ Audited(l)
    /\ Icpt!ParseBegin(x, l.messages)
    /\ \/ mode[x] = "sse" /\ UNCHANGED ended
       \/ ended' = ended \union {x}
    /\ Go(x, "reply")
    /\ UNCHANGED <<held, truncated>>

(* The line goes to the client and waits in the tap for the end.           *)
ReadHeld(x, l) ==
    /\ mode[x] # "other" /\ x \notin truncated /\ Audited(l)
    /\ held' = [held EXCEPT ![x] = <<l>>]
    /\ Go(x, "deliver")
    /\ UNCHANGED <<interceptorVars, truncated, ended>>

Read(x) ==
    \E l \in CanSay(x) :
        /\ ReadLine(x, l)
        /\ ReadUntapped(x, l) \/ ReadOverLimit(x, l) \/ ReadComplete(x, l) \/ ReadHeld(x, l)

ReplyParsed(x) ==
    /\ at[x] \in {"reply", "rest"} /\ Icpt!ParseEnd(x)
    /\ Go(x, IF at[x] = "reply" THEN "logReply" ELSE "logRest")
    /\ UNCHANGED <<body, tapVars, dispatched, worldVars, audit, main>>

ReplyLogged(x) ==
    /\ at[x] \in {"logReply", "logRest"} /\ dispatched[x] = Len(events[x])
    /\ Go(x, IF at[x] = "logReply" THEN "deliver" ELSE "done")
    /\ UNCHANGED <<interceptorVars, body, tapVars, dispatched, worldVars, audit, main>>

Deliver(x) ==
    /\ at[x] = "deliver"
    /\ clientGot' = [clientGot EXCEPT ![x] = Append(@, Last(said[x]))]
    /\ Go(x, IF x \in ended THEN "done" ELSE "stream")
    /\ UNCHANGED <<interceptorVars, body, tapVars, dispatched, serverGot, audit, main>>

MutantFinishDropsTheRest(x) ==
    /\ at[x] \in {"stream", "deliver"}
    /\ ended' = ended \union {x}
    /\ held' = [held EXCEPT ![x] = <<>>]
    /\ UNCHANGED interceptorVars /\ Go(x, "done")
    /\ UNCHANGED <<body, mode, said, truncated, dispatched, worldVars, audit, main>>

MutantFinishKeepsTheBuffer(x) ==
    /\ at[x] \in {"stream", "deliver"}
    /\ ended' = ended \union {x}
    /\ \/ held[x] = <<>> /\ UNCHANGED <<interceptorVars, dispatched>> /\ Go(x, "done")
       \/ /\ held[x] # <<>> /\ Icpt!ParseBegin(x, held[x][1].messages) /\ Go(x, "rest")
          /\ dispatched' = [dispatched EXCEPT ![x] = 0]
    /\ UNCHANGED <<body, mode, said, held, truncated, worldVars, audit, main>>

(* EOF, or Close because the server or the client has gone: what waits in  *)
(* the tap is audited.                                                     *)
finish(x) ==
    /\ at[x] \in {"stream", "deliver"}
    /\ ended' = ended \union {x}
    /\ held' = [held EXCEPT ![x] = <<>>]
    /\ \/ held[x] = <<>> /\ UNCHANGED <<interceptorVars, dispatched>> /\ Go(x, "done")
       \/ /\ held[x] # <<>> /\ Icpt!ParseBegin(x, held[x][1].messages) /\ Go(x, "rest")
          /\ dispatched' = [dispatched EXCEPT ![x] = 0]
    /\ UNCHANGED <<body, mode, said, truncated, worldVars, audit, main>>

Handler(x) ==
    \/ ReadBodyFails(x) \/ Receive(x) \/ ParseMessage(x) \/ Judge(x)
    \/ Dispatch(x) \/ RequestLogged(x) \/ writeDenial(x)
    \/ Forward(x) \/ handleUpstreamError(x) \/ modifyResponse(x)
    \/ Read(x) \/ ReplyParsed(x) \/ ReplyLogged(x) \/ Deliver(x) \/ finish(x)

-----------------------------------------------------------------------------
(* ListenAndServe and its caller                                           *)

Main(from, to) ==
    /\ main = from /\ main' = to
    /\ UNCHANGED <<interceptorVars, body, tapVars, dispatched, worldVars, audit>>

Interrupt == Main("serving", "shutdown") /\ UNCHANGED at
ServeFails == Main("serving", "closed") /\ UNCHANGED at

(* Shutdown waits for the handlers, but for no longer than five seconds;   *)
(* then cmdServe closes the dispatcher.                                    *)
ShutdownCompletes ==
    /\ \A x \in Exchanges : at[x] \in {"idle", "done"}
    /\ Main("shutdown", "closed") /\ UNCHANGED at

ShutdownTimesOut == Main("shutdown", "closed") /\ UNCHANGED at

(* Handlers that are still running end with the process. *)
ProcessExits == Main("closed", "exited") /\ at' = [x \in Exchanges |-> "done"]

Next ==
    \/ \E x \in Exchanges : Handler(x)
    \/ Interrupt \/ ServeFails \/ ShutdownCompletes \/ ShutdownTimesOut \/ ProcessExits

Spec == Init /\ [][Next]_vars

-----------------------------------------------------------------------------
(* Properties *)

TypeOK ==
    /\ Icpt!TypeOK
    /\ at \in [Exchanges -> {"idle", "request", "log", "refuse", "send", "wait", "stream",
                            "reply", "logReply", "deliver", "rest", "logRest", "done"}]
    /\ body \in [Exchanges -> Lines]
    /\ mode \in [Exchanges -> {"none", "json", "sse", "other"}]
    /\ said \in [Exchanges -> Seq(Lines)]
    /\ held \in [Exchanges -> Seq(Lines)]
    /\ truncated \subseteq Exchanges
    /\ ended \subseteq {x \in Exchanges : held[x] = <<>>}
    /\ dispatched \in [Exchanges -> Nat]
    /\ serverGot \subseteq Exchanges
    /\ clientGot \in [Exchanges -> Seq(Lines)]
    /\ audit \in Seq(Entry)
    /\ main \in {"serving", "shutdown", "closed", "exited"}

(* A call that policy denies to the client of this session never reaches   *)
(* the server, whatever other handlers do meanwhile.                       *)
RefusedNeverReachesServer ==
    \A x \in serverGot :
        ~ /\ body[x].form = "single" /\ body[x].messages[1].kind = "request"
          /\ <<ClientOf[x], body[x].messages[1].call>> \in Denied

(* The log has, for each exchange and direction, the readable messages in  *)
(* their order and each once. While it is open, it has those of a request  *)
(* before the server or a refusal gets out, those of the response before   *)
(* the client does, or else while the tap still holds the line, and all of *)
(* them when the exchange is over, however it ended.                       *)
AuditOf(x, from) ==
    LET entries == Select(audit, {a \in Entry : a.exchange = x /\ a.from = from})
    IN  [i \in DOMAIN entries |-> entries[i].event.message]

ReadableMessages == {m \in Messages : m.kind # "junk"}
Auditable(lines) ==
    Select(FlattenSeq([i \in DOMAIN lines |-> lines[i].messages]), ReadableMessages)

(* The lines up to the first that is over the limit of the tap.            *)
Tapped(x) ==
    LET within == {n \in 0..Len(said[x]) : \A i \in 1..n : Audited(said[x][i])}
    IN  IF mode[x] = "other" THEN <<>> ELSE SubSeq(said[x], 1, Max(within))

AuditFollowsTraffic ==
    \A x \in Exchanges :
        LET asked == IF Audited(body[x]) THEN Auditable(<<body[x]>>) ELSE <<>>
            answered == Auditable(Tapped(x))
            open == main \in {"serving", "shutdown"}
        IN  /\ IsPrefix(AuditOf(x, "client"), asked)
            /\ open /\ at[x] \notin {"idle", "request", "log"} => AuditOf(x, "client") = asked
            /\ IsPrefix(AuditOf(x, "server"), answered)
            /\ open /\ at[x] \in {"deliver", "stream", "done"} =>
                  AuditOf(x, "server") \o Auditable(held[x]) = answered

(* The table of pending requests knows an id, not who asked: the clients    *)
(* and the server, who all number from 1, share its entries.               *)
Asked(id) ==
    {m \in Requests(UNION {Range(body[x].messages) \union MessagesIn(said[x]) : x \in Exchanges}) :
        m.id = id}
AskedIn(x, id) == \E m \in Requests(Range(body[x].messages)) : m.id = id
AskedByServer(id) == \E x \in Exchanges : \E m \in Requests(MessagesIn(said[x])) : m.id = id
AskedBySeveral(id) ==
    \E x \in Exchanges :
        /\ AskedIn(x, id)
        /\ \/ AskedByServer(id)
           \/ \E y \in Exchanges \ Mine(x) : AskedIn(y, id)

(* In the log a reply of the server comes after the request it answers,    *)
(* also if the two belong to different exchanges. The event of a reply     *)
(* names the call that this reply answers or none; under an id that        *)
(* several have asked under, it may name the call of any of them, but      *)
(* never one that nobody has asked for under this id.                      *)
RepliesFollowRequests ==
    \A i \in DOMAIN audit :
        LET event == audit[i].event
            id == event.message.id IN
        event.message.kind = "reply" =>
            /\ event.call \in {m.call : m \in Asked(id)} \union {NoCall}
            /\ event.call \in {event.message.call, NoCall} \/ AskedBySeveral(id)
            /\ audit[i].from = "server" =>
                  \/ \E j \in 1..(i-1) :
                        /\ audit[j].from = "client"
                        /\ ClientOf[audit[j].exchange] = ClientOf[audit[i].exchange]
                        /\ Reply(audit[j].event.message) = event.message
                  \/ \E x \in Mine(audit[i].exchange) :
                        body[x].form = "big" /\ body[x].messages[1].id = id

(* The event of a server's reply names no call only if the request was too *)
(* long to be parsed, or several have asked under its id, or as many other *)
(* ids were asked under as the table holds: however fast the server        *)
(* answers, and on whichever stream.                                       *)
AskedIds == {id \in Ids : Asked(id) # {}}
Pressed(id) == Cardinality(AskedIds \ {id}) >= MaxPending
TooLong(id) == \E x \in Exchanges : body[x].form = "big" /\ body[x].messages[1].id = id

RequestsAreRemembered ==
    \A i \in DOMAIN audit :
        LET event == audit[i].event
            id == event.message.id IN
        audit[i].from = "server" /\ event.message.kind = "reply" /\ event.call = NoCall =>
            TooLong(id) \/ AskedBySeveral(id) \/ Pressed(id)

(* The tap is transparent: the client gets the server's lines as they came *)
(* and with no delay but that of the one in hand, whether they are audited *)
(* or not; what it gets from the proxy itself is in exchanges of its own.  *)
Transparent ==
    \A x \in Exchanges :
        \/ mode[x] = "none" /\ said[x] = <<>>
        \/ /\ IsPrefix(clientGot[x], said[x])
           /\ Len(said[x]) - Len(clientGot[x]) <= 1
           /\ at[x] = "stream" => clientGot[x] = said[x]
=============================================================================
