---------------------------- MODULE StdioWrapper ----------------------------
(***************************************************************************)
(* `mcp-audit run` (internal/stdio/wrapper.go): the proxy between a client *)
(* and the server process it started. One goroutine pumps lines from the   *)
(* client to the server, another from the server to the client; both use   *)
(* one Interceptor. A request is parsed, judged, forwarded or refused, and *)
(* then dispatched to the log; what the server says is forwarded first.    *)
(* The dispatcher is a log that takes events until it is closed (module    *)
(* Dispatcher is about how it does); the policy is a set of denied calls.  *)
(***************************************************************************)
EXTENDS Selection

CONSTANTS
    ClientIds, ServerIds,   \* the ids each side numbers its requests with
    NoId, Calls, NoCall,
    ClientCalls, ServerCalls,   \* the methods each side calls
    Denied,                 \* tools/call of a tool that policy denies
    MaxPending,
    Forms,                  \* the lines the two sides write: single, batch, big, junk
    MaxLines                \* bound of the model: lines written at the origin of each pump

Ids == ClientIds \union ServerIds
Pumps == {"toServer", "toClient"}

ASSUME StdioWrapperAssumption ==
    /\ NoId \notin Ids /\ NoCall \notin Calls
    /\ ClientCalls \union ServerCalls \subseteq Calls
    /\ Denied \subseteq Calls
    /\ MaxPending \in Nat \ {0}
    /\ Forms \subseteq {"single", "batch", "big", "junk"}
    /\ MaxLines \in [Pumps -> Nat]

Messages ==
    [kind : {"request"}, id : Ids \union {NoId}, call : Calls]
    \union [kind : {"reply", "junk"}, id : Ids \union {NoId}, call : Calls \union {NoCall}]

(* A single message, a batch, a message over maxParseBytes, a denial that  *)
(* the proxy has written itself.                                           *)
Lines == [form : {"single", "batch", "big", "denial"}, messages : Seq(Messages)]

(* What the log holds: events with the pump that dispatched them.          *)
Entry == [pump : Pumps, event : [message : Messages, call : Calls \union {NoCall}]]

VARIABLES
    pending, order, parsing, todo, events, traffic,     \* the Interceptor
    at,         \* what pump p does: read, parse, write, dispatch, deny, or ended
    line,       \* line[p]: the last line that pump p has read
    taken,      \* taken[p]: how many lines p has read
    dispatched, \* dispatched[p]: events of that line already dispatched
    sent,       \* sent[p]: the lines written at the origin of p, client or server
    serverGot, clientGot,
    audit,      \* the log
    server,     \* the server process is up or down
    stdin,      \* the client's end of the proxy's stdin is open or closed
    stdout,     \* the client reads the proxy's stdout, or has gone
    main        \* Run is waiting, has returned, the dispatcher is closed, all is over

interceptorVars == <<pending, order, parsing, todo, events, traffic>>
pumpVars == <<at, line, taken, dispatched>>
worldVars == <<sent, server, stdin, stdout>>
vars == <<interceptorVars, pumpVars, serverGot, clientGot, audit, worldVars, main>>

Icpt == INSTANCE Interceptor WITH
    Goroutines <- Pumps, Payloads <- {}, MaxTraffic <- 0

Init ==
    /\ Icpt!Init
    /\ at = [p \in Pumps |-> "read"]
    /\ line = [p \in Pumps |-> [form |-> "single", messages |-> <<>>]]
    /\ taken = [p \in Pumps |-> 0]
    /\ dispatched = [p \in Pumps |-> 0]
    /\ sent = [p \in Pumps |-> <<>>]
    /\ serverGot = <<>> /\ clientGot = <<>>
    /\ audit = <<>>
    /\ server = "up" /\ stdin = "open" /\ stdout = "open"
    /\ main = "waiting"

-----------------------------------------------------------------------------
(* The two ends of the session. A requester never uses an id twice, as MCP *)
(* demands, and a request is answered at most once.                        *)

MessagesIn(seq) == UNION {Range(seq[i].messages) : i \in DOMAIN seq}
Asked(seq) == {m \in MessagesIn(seq) : m.kind = "request" /\ m.id # NoId}
Answered(seq) == {m.id : m \in {m \in MessagesIn(seq) : m.kind = "reply"}}

Reply(m) == [m EXCEPT !.kind = "reply"]
Received(p) == IF p = "toServer" THEN clientGot ELSE serverGot

Junk == [kind |-> "junk", id |-> NoId, call |-> NoCall]

(* Requests, notifications, answers: what the origin of p can say next.    *)
CanSay(p) ==
    LET ids == IF p = "toServer" THEN ClientIds ELSE ServerIds
        used == {m.id : m \in Asked(sent[p])}
        calls == IF p = "toServer" THEN ClientCalls ELSE ServerCalls
    IN  [kind : {"request"}, id : (ids \ used) \union {NoId}, call : calls]
        \union {Reply(m) : m \in {m \in Asked(Received(p)) : m.id \notin Answered(sent[p])}}

CanSend(p) ==
    [form : Forms \ {"batch", "junk"}, messages : {<<m>> : m \in CanSay(p)}]
    \union {l \in {[form |-> "single", messages |-> <<Junk>>]} : "junk" \in Forms}
    \union IF "batch" \in Forms
           THEN {l \in [form : {"batch"},
                        messages : {<<m, Junk, n>> : m \in CanSay(p), n \in CanSay(p)}] :
                    l.messages[1].id # l.messages[3].id}
           ELSE {}

Say(p) ==
    /\ IF p = "toServer" THEN stdin = "open" ELSE server = "up"
    /\ Len(sent[p]) < MaxLines[p]
    /\ \E l \in CanSend(p) : sent' = [sent EXCEPT ![p] = Append(@, l)]
    /\ UNCHANGED <<interceptorVars, pumpVars, serverGot, clientGot, audit, server, stdin, stdout, main>>

(* The server crashes, is killed, or leaves of its own accord.             *)
ServerExits ==
    /\ server = "up" /\ server' = "down"
    /\ UNCHANGED <<interceptorVars, pumpVars, serverGot, clientGot, audit, sent, stdin, stdout, main>>

ClientClosesStdin ==
    /\ stdin = "open" /\ stdin' = "closed"
    /\ UNCHANGED <<interceptorVars, pumpVars, serverGot, clientGot, audit, sent, server, stdout, main>>

ClientStopsReading ==
    /\ stdout = "open" /\ stdout' = "closed"
    /\ UNCHANGED <<interceptorVars, pumpVars, serverGot, clientGot, audit, sent, server, stdin, main>>

-----------------------------------------------------------------------------
(* The pumps *)

Readable(l) == IF l.form = "big" THEN <<>> ELSE l.messages
Go(p, place) == at' = [at EXCEPT ![p] = place]

NextLine(p) ==
    /\ at[p] = "read" /\ taken[p] < Len(sent[p])
    /\ taken' = [taken EXCEPT ![p] = @ + 1]
    /\ line' = [line EXCEPT ![p] = sent[p][taken[p] + 1]]
    /\ dispatched' = [dispatched EXCEPT ![p] = 0]
    /\ UNCHANGED <<serverGot, clientGot, audit, worldVars, main>>

ReadFromClient ==
    /\ NextLine("toServer")
    /\ Icpt!ParseBegin("toServer", Readable(line'["toServer"]))
    /\ Go("toServer", "parse")

ReadFromServer ==
    /\ NextLine("toClient")
    /\ Go("toClient", "write")
    /\ UNCHANGED interceptorVars

(* io.EOF. When the request pump ends it closes the server's stdin.        *)
EndOfInput(p) ==
    /\ at[p] = "read" /\ taken[p] = Len(sent[p])
    /\ IF p = "toServer" THEN stdin = "closed" ELSE server = "down"
    /\ Go(p, "ended")
    /\ UNCHANGED <<interceptorVars, line, taken, dispatched, serverGot, clientGot, audit, worldVars, main>>

ParseMessage(p) ==
    /\ at[p] = "parse"
    /\ Icpt!parseOne(p)
    /\ UNCHANGED <<pumpVars, serverGot, clientGot, audit, worldVars, main>>

(* Evaluate refuses the only event of a line that is not a batch.          *)
Refused ==
    /\ line["toServer"].form # "batch"
    /\ Len(events["toServer"]) = 1
    /\ events["toServer"][1].call \in Denied

MutantJudgeForwardsNotifications ==
    /\ at["toServer"] = "parse" /\ Icpt!ParseEnd("toServer")
    /\ Go("toServer", IF Refused /\ events["toServer"][1].message.id # NoId
                      THEN "dispatch" ELSE "write")
    /\ UNCHANGED <<line, taken, dispatched, serverGot, clientGot, audit, worldVars, main>>

MutantJudgeRefusesUnaudited ==
    /\ at["toServer"] = "parse" /\ Icpt!ParseEnd("toServer")
    /\ Go("toServer", IF Refused THEN "deny" ELSE "write")
    /\ UNCHANGED <<line, taken, dispatched, serverGot, clientGot, audit, worldVars, main>>

Judge ==
    /\ at["toServer"] = "parse" /\ Icpt!ParseEnd("toServer")
    /\ Go("toServer", IF Refused THEN "dispatch" ELSE "write")
    /\ UNCHANGED <<line, taken, dispatched, serverGot, clientGot, audit, worldVars, main>>

(* What the server said has been forwarded: Evaluate only adds flags.      *)
Inspect ==
    /\ at["toClient"] = "parse" /\ Icpt!ParseEnd("toClient")
    /\ Go("toClient", "dispatch")
    /\ UNCHANGED <<line, taken, dispatched, serverGot, clientGot, audit, worldVars, main>>

MutantWriteToServerIfParsed ==
    /\ at["toServer"] = "write" /\ server = "up"
    /\ serverGot' = IF events["toServer"] = <<>> THEN serverGot
                    ELSE Append(serverGot, line["toServer"])
    /\ Go("toServer", "dispatch")
    /\ UNCHANGED <<interceptorVars, line, taken, dispatched, clientGot, audit, worldVars, main>>

WriteToServer ==
    /\ at["toServer"] = "write" /\ server = "up"
    /\ serverGot' = Append(serverGot, line["toServer"])
    /\ Go("toServer", "dispatch")
    /\ UNCHANGED <<interceptorVars, line, taken, dispatched, clientGot, audit, worldVars, main>>

WriteToClient ==
    /\ at["toClient"] = "write" /\ stdout = "open"
    /\ clientGot' = Append(clientGot, line["toClient"])
    /\ Icpt!ParseBegin("toClient", Readable(line["toClient"]))
    /\ Go("toClient", "parse")
    /\ UNCHANGED <<line, taken, dispatched, serverGot, audit, worldVars, main>>

(* The other end has gone. The pump ends and the line is not audited.      *)
WriteFails(p) ==
    /\ at[p] = "write"
    /\ IF p = "toServer" THEN server = "down" ELSE stdout = "closed"
    /\ Go(p, "ended")
    /\ UNCHANGED <<interceptorVars, line, taken, dispatched, serverGot, clientGot, audit, worldVars, main>>

(* DispatchAll, event by event. A closed dispatcher ignores them.          *)
Dispatch(p) ==
    /\ at[p] = "dispatch" /\ dispatched[p] < Len(events[p])
    /\ dispatched' = [dispatched EXCEPT ![p] = @ + 1]
    /\ audit' = IF main \in {"waiting", "returned"}
                THEN Append(audit, [pump |-> p, event |-> events[p][dispatched[p] + 1]])
                ELSE audit
    /\ UNCHANGED <<interceptorVars, at, line, taken, serverGot, clientGot, worldVars, main>>

DispatchDone(p) ==
    /\ at[p] = "dispatch" /\ dispatched[p] = Len(events[p])
    /\ Go(p, IF p = "toServer" /\ Refused THEN "deny" ELSE "read")
    /\ UNCHANGED <<interceptorVars, line, taken, dispatched, serverGot, clientGot, audit, worldVars, main>>

(* RequestID is nil when the refused message is a notification.            *)
Denial(id) == [form |-> "denial", messages |-> <<[kind |-> "reply", id |-> id, call |-> NoCall]>>]
RefusedId == events["toServer"][1].message.id

MutantDenyThenForward ==
    /\ at["toServer"] = "deny" /\ stdout = "open"
    /\ Go("toServer", "write")
    /\ clientGot' = Append(clientGot, Denial(RefusedId))
    /\ UNCHANGED <<interceptorVars, line, taken, dispatched, serverGot, audit, worldVars, main>>

MutantDenyBlocksWithoutClient ==
    /\ at["toServer"] = "deny" /\ stdout = "open"
    /\ Go("toServer", "read")
    /\ clientGot' = Append(clientGot, Denial(RefusedId))
    /\ UNCHANGED <<interceptorVars, line, taken, dispatched, serverGot, audit, worldVars, main>>

denyRequest ==
    /\ at["toServer"] = "deny"
    /\ \/ RefusedId = NoId /\ Go("toServer", "read") /\ UNCHANGED clientGot
       \/ /\ RefusedId # NoId /\ stdout = "open"
          /\ Go("toServer", "read")
          /\ clientGot' = Append(clientGot, Denial(RefusedId))
       \/ /\ RefusedId # NoId /\ stdout = "closed"
          /\ Go("toServer", "ended")
          /\ UNCHANGED clientGot
    /\ UNCHANGED <<interceptorVars, line, taken, dispatched, serverGot, audit, worldVars, main>>

pumpToServer ==
    \/ ReadFromClient \/ EndOfInput("toServer") \/ ParseMessage("toServer") \/ Judge
    \/ WriteToServer \/ WriteFails("toServer")
    \/ Dispatch("toServer") \/ DispatchDone("toServer") \/ denyRequest

pumpToClient ==
    \/ ReadFromServer \/ EndOfInput("toClient") \/ WriteToClient \/ WriteFails("toClient")
    \/ ParseMessage("toClient") \/ Inspect \/ Dispatch("toClient") \/ DispatchDone("toClient")

-----------------------------------------------------------------------------
(* Run and its caller *)

MutantRunReturnsWithTheServer ==
    /\ main = "waiting" /\ server = "down"
    /\ main' = "returned"
    /\ UNCHANGED <<interceptorVars, pumpVars, serverGot, clientGot, audit, worldVars>>

MutantRunAwaitsBothPumps ==
    /\ main = "waiting" /\ at["toClient"] = "ended" /\ at["toServer"] = "ended" /\ server = "down"
    /\ main' = "returned"
    /\ UNCHANGED <<interceptorVars, pumpVars, serverGot, clientGot, audit, worldVars>>

(* The response pump has ended and cmd.Wait has seen the server exit.      *)
RunReturns ==
    /\ main = "waiting" /\ at["toClient"] = "ended" /\ server = "down"
    /\ main' = "returned"
    /\ UNCHANGED <<interceptorVars, pumpVars, serverGot, clientGot, audit, worldVars>>

CloseDispatcher ==
    /\ main = "returned" /\ main' = "closed"
    /\ UNCHANGED <<interceptorVars, pumpVars, serverGot, clientGot, audit, worldVars>>

(* The process ends, wherever the request pump is.                         *)
ProcessExits ==
    /\ main = "closed" /\ main' = "exited"
    /\ Go("toServer", "ended")
    /\ UNCHANGED <<interceptorVars, line, taken, dispatched, serverGot, clientGot, audit, worldVars>>

Run == RunReturns \/ CloseDispatcher \/ ProcessExits

Next ==
    \/ \E p \in Pumps : Say(p)
    \/ ServerExits \/ ClientClosesStdin \/ ClientStopsReading
    \/ pumpToServer \/ pumpToClient \/ Run

Spec == Init /\ [][Next]_vars

(* Goroutines that can move do. Client and server owe nothing.             *)
FairSpec == Spec /\ WF_vars(pumpToServer) /\ WF_vars(pumpToClient) /\ WF_vars(Run)

-----------------------------------------------------------------------------
(* Properties *)

TypeOK ==
    /\ Icpt!TypeOK
    /\ at \in [Pumps -> {"read", "parse", "write", "dispatch", "deny", "ended"}]
    /\ line \in [Pumps -> Lines]
    /\ taken \in [Pumps -> Nat]
    /\ dispatched \in [Pumps -> Nat]
    /\ sent \in [Pumps -> Seq(Lines)]
    /\ serverGot \in Seq(Lines) /\ clientGot \in Seq(Lines)
    /\ audit \in Seq(Entry)
    /\ server \in {"up", "down"} /\ stdin \in {"open", "closed"} /\ stdout \in {"open", "closed"}
    /\ main \in {"waiting", "returned", "closed", "exited"}

IsRefusedCall(l) ==
    l.form = "single" /\ l.messages[1].kind = "request" /\ l.messages[1].call \in Denied

(* The table of pending requests knows an id, not who asked: a client and  *)
(* a server that both number from 1 share its entries.                     *)
Under(id) == {m \in Asked(sent["toServer"]) \union Asked(sent["toClient"]) : m.id = id}
AskedByBoth(id) == \A p \in Pumps : \E m \in Asked(sent[p]) : m.id = id

(* A reply of the client that Evaluate can take for a call it denies.      *)
TakenForCall(l) ==
    /\ l.form = "single" /\ l.messages[1].kind = "reply"
    /\ \E m \in Under(l.messages[1].id) : m.call \in Denied

(* A refused call never reaches the server, with or without an id, as      *)
(* Transparent implies.                                                    *)
RefusedNeverReachesServer ==
    \A i \in DOMAIN serverGot : ~IsRefusedCall(serverGot[i])

(* The proxy is transparent: the server gets the client's lines in their   *)
(* order, all but the refused calls, the one in hand, and at most those    *)
(* replies whose id is also that of a denied call; the client gets         *)
(* the server's lines in their order, all but the one in hand, and, if it  *)
(* keeps reading, all of them before Run returns. A line that cannot be    *)
(* parsed or is too long to audit is forwarded like any other.             *)
InOrder(f, places, got, from) ==
    \A i \in places : got[i] = from[f[i]] /\ \A j \in places : i < j => f[i] < f[j]

ServerGetsLines ==
    \E f \in [DOMAIN serverGot -> 1..taken["toServer"]] :
        /\ InOrder(f, DOMAIN serverGot, serverGot, sent["toServer"])
        /\ \A k \in 1..taken["toServer"] :
              IF IsRefusedCall(sent["toServer"][k]) THEN k \notin Range(f)
              ELSE \/ k \in Range(f) \/ TakenForCall(sent["toServer"][k])
                   \/ k = taken["toServer"] /\ at["toServer"] \in {"parse", "write", "ended"}

ClientGetsLines ==
    LET notDenials == {i \in DOMAIN clientGot : clientGot[i].form # "denial"} IN
    \E f \in [notDenials -> 1..taken["toClient"]] :
        /\ InOrder(f, notDenials, clientGot, sent["toClient"])
        /\ \A k \in 1..taken["toClient"] : k < taken["toClient"] => k \in Range(f)
        /\ main # "waiting" /\ stdout = "open" => Range(f) = DOMAIN sent["toClient"]

Transparent == ServerGetsLines /\ ClientGetsLines

(* The log holds the readable messages of each direction in the order they *)
(* were sent, batches and refused calls included, and has all of them      *)
(* whenever the pump is between two lines and the dispatcher is open, and  *)
(* of what a client was sent that keeps reading when Run has returned.     *)
AuditOf(p) ==
    LET entries == Select(audit, {a \in Entry : a.pump = p})
    IN  [i \in DOMAIN entries |-> entries[i].event.message]

ReadableMessages == {m \in Messages : m.kind # "junk"}
Auditable(p) ==
    Select(FlattenSeq([i \in 1..taken[p] |-> Readable(sent[p][i])]), ReadableMessages)

AuditFollowsTraffic ==
    \A p \in Pumps :
        /\ IsPrefix(AuditOf(p), Auditable(p))
        /\ at[p] = "read" /\ main \in {"waiting", "returned"} => AuditOf(p) = Auditable(p)
        /\ p = "toClient" /\ main # "waiting" /\ stdout = "open" => AuditOf(p) = Auditable(p)

(* What is refused is a tools/call request, as Decision says: never what   *)
(* the client answers to a request of the server. The code breaks this     *)
(* when both ends use the id of a denied call.                             *)
OnlyCallsAreRefused == at["toServer"] = "deny" => IsRefusedCall(line["toServer"])

(* The client is told at most one answer under an id, neither two denials  *)
(* nor a denial and the server's, and a denial answers a call that policy  *)
(* denies. The exception is an id that both ends use: the client's reply   *)
(* to the server is then taken for the denied call, and denied in turn.    *)
Due(id) ==
    \E k \in 1..taken["toServer"] :
        sent["toServer"][k].messages[1].id = id /\ IsRefusedCall(sent["toServer"][k])
Mistaken(id) ==
    \E k \in 1..taken["toServer"] :
        sent["toServer"][k].messages[1].id = id /\ TakenForCall(sent["toServer"][k])

OneAnswerPerRequest ==
    LET answers(i) == {m \in Range(clientGot[i].messages) : m.kind = "reply"} IN
    /\ \A i, j \in DOMAIN clientGot : \A m \in answers(i) : \A n \in answers(j) :
          m.id = n.id /\ i # j =>
              "denial" \in {clientGot[i].form, clientGot[j].form} /\ Mistaken(m.id)
    /\ \A i \in DOMAIN clientGot : clientGot[i].form = "denial" =>
          Due(clientGot[i].messages[1].id) \/ Mistaken(clientGot[i].messages[1].id)
    /\ at["toServer"] = "deny" => IsRefusedCall(line["toServer"]) \/ TakenForCall(line["toServer"])

(* The event of a reply names the call that this reply answers, unless     *)
(* both ends asked under its id: then it names the call of either or none. *)
(* Under an id of one end it names none only if the request was too long   *)
(* to parse, or as many other ids were asked as the table holds, or the    *)
(* client answered what the proxy had just passed on. However fast the     *)
(* server answers, its client's request is in the table before.            *)
AllAsked == {m.id : m \in Asked(sent["toServer"]) \union Asked(sent["toClient"])}
Pressed(id) == Cardinality(AllAsked \ {id}) >= MaxPending

TooLong(id) ==
    \E j \in DOMAIN sent["toServer"] :
        sent["toServer"][j].form = "big" /\ sent["toServer"][j].messages[1].id = id

RepliesNameTheirRequest ==
    \A i \in DOMAIN audit :
        LET event == audit[i].event
            id == event.message.id IN
        event.message.kind = "reply" =>
            /\ event.call \in {m.call : m \in Under(id)} \union {NoCall}
            /\ \/ event.call = event.message.call
               \/ AskedByBoth(id)
               \/ /\ event.call = NoCall
                  /\ audit[i].pump = "toServer" \/ TooLong(id) \/ Pressed(id)

(* The end of either side is noticed: when the server is gone the proxy    *)
(* ends, whether or not the client sends another line or closes its end;   *)
(* when the client has closed its end, the server's stdin gets closed.     *)
EndsAreNoticed ==
    /\ server = "down" ~> main = "exited"
    /\ stdin = "closed" ~> at["toServer"] = "ended"
=============================================================================
