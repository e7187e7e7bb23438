------------------------- MODULE HttpProxy_proofs -------------------------
(***************************************************************************)
(* Enforcement and transparency of the HTTP proxy. The invariant says what *)
(* the handler of an exchange knows of its request at each place, and how  *)
(* far its client is behind its tap; what another handler does concerns    *)
(* neither, but for the Interceptor they share.                            *)
(***************************************************************************)
EXTENDS HttpProxy, Selection_proofs

(* The lemmas about the Interceptor apply to the one the handlers share. *)
IcptProofs == INSTANCE Interceptor_proofs WITH
    Goroutines <- Exchanges, Payloads <- {}, MaxTraffic <- 0

(* A single line holds one message. *)
LineOk(l) == l.form = "single" => Len(l.messages) = 1

IsRefusedCall(x) ==
    /\ body[x].form = "single" /\ body[x].messages[1].kind = "request"
    /\ <<ClientOf[x], body[x].messages[1].call>> \in Denied

(* What the handler of x knows of the request at each place. *)
Judged(x) ==
    /\ LineOk(body[x])
    /\ x \in serverGot => at[x] # "idle" /\ ~IsRefusedCall(x)
    /\ at[x] = "request" /\ IsRefusedCall(x) =>
          \/ todo[x] = body[x].messages /\ events[x] = <<>>
          \/ /\ todo[x] = <<>>
             /\ events[x] = <<[message |-> body[x].messages[1], call |-> body[x].messages[1].call]>>
    /\ at[x] = "log" /\ IsRefusedCall(x) => Refused(x)
    /\ at[x] = "send" => ~IsRefusedCall(x)
    /\ at[x] = "refuse" => Refused(x)

(* How far the client is behind the tap: by no line, or by the one in hand. *)
Even(x) == clientGot[x] = said[x]
OneBehind(x) == \E l \in Lines : said[x] = Append(clientGot[x], l)
Silent(x) == mode[x] = "none" /\ said[x] = <<>>

Served(x) ==
    /\ at[x] \in {"idle", "request", "log", "refuse", "send", "wait"} => Silent(x) /\ Even(x)
    /\ at[x] = "stream" => Even(x)
    /\ at[x] \in {"reply", "logReply", "deliver"} => OneBehind(x)
    /\ Silent(x) \/ Even(x) \/ OneBehind(x)

IInv == TypeOK /\ Icpt!TableAgrees /\ \A x \in Exchanges : Judged(x) /\ Served(x)

LEMMA OneElement ==
    ASSUME NEW S, NEW s \in Seq(S), Len(s) = 1
    PROVE  Head(s) = s[1] /\ Tail(s) = <<>>
<1>1. Tail(s) \in Seq(S) /\ Len(Tail(s)) = 0
  <2>1. s # <<>>
    OBVIOUS
  <2> QED BY <2>1, HeadTailProperties
<1>2. Tail(s) = <<>>
  BY <1>1, EmptySeq
<1> QED BY <1>2

(* Interceptor_proofs speaks of its own instance of Interceptor. *)
LEMMA SameInterceptor ==
    /\ IcptProofs!InterceptorAssumption
    /\ IcptProofs!Init <=> Icpt!Init
    /\ IcptProofs!TypeOK <=> Icpt!TypeOK
    /\ IcptProofs!TableAgrees <=> Icpt!TableAgrees
<1>1. IcptProofs!InterceptorAssumption
  BY HttpProxyAssumption DEF IcptProofs!InterceptorAssumption, Ids
<1>2. IcptProofs!Init <=> Icpt!Init
  BY DEF IcptProofs!Init, Icpt!Init
<1>3. IcptProofs!TypeOK <=> Icpt!TypeOK
  BY DEF IcptProofs!TypeOK, Icpt!TypeOK, IcptProofs!Messages, Icpt!Messages
<1>4. IcptProofs!TableAgrees <=> Icpt!TableAgrees
  BY DEF IcptProofs!TableAgrees, Icpt!TableAgrees, IcptProofs!Outstanding, Icpt!Outstanding,
         IcptProofs!Range, Icpt!Range, IcptProofs!IsInjective, Icpt!IsInjective
<1> QED BY <1>1, <1>2, <1>3, <1>4

LEMMA ParseKeepsInterceptor ==
    ASSUME Icpt!TypeOK, Icpt!TableAgrees, NEW x \in Exchanges, Icpt!parseOne(x)
    PROVE  (Icpt!TypeOK /\ Icpt!TableAgrees)'
<1>1. IcptProofs!IInv
  BY SameInterceptor DEF IcptProofs!IInv
<1>2. IcptProofs!parseOne(x)
  BY DEF IcptProofs!parseOne, Icpt!parseOne, IcptProofs!Messages, Icpt!Messages,
         IcptProofs!Reading, Icpt!Reading, IcptProofs!Request, Icpt!Request,
         IcptProofs!Notification, Icpt!Notification, IcptProofs!ReplyToKnown, Icpt!ReplyToKnown,
         IcptProofs!ReplyToUnknown, Icpt!ReplyToUnknown, IcptProofs!Junk, Icpt!Junk,
         IcptProofs!Emit, Icpt!Emit, IcptProofs!Observe, Icpt!Observe,
         IcptProofs!rememberPending, Icpt!rememberPending, IcptProofs!takePending, Icpt!takePending,
         IcptProofs!Outstanding, Icpt!Outstanding, IcptProofs!RemoveAt, Icpt!RemoveAt
<1>3. IcptProofs!IInv'
  BY <1>1, <1>2, SameInterceptor, IcptProofs!ParseOneKeepsInv
<1>4. Icpt!TypeOK'
  BY <1>3 DEF IcptProofs!IInv, IcptProofs!TypeOK, Icpt!TypeOK, IcptProofs!Messages, Icpt!Messages
<1>5. Icpt!TableAgrees'
  BY <1>3 DEF IcptProofs!IInv, IcptProofs!TableAgrees, Icpt!TableAgrees,
         IcptProofs!Outstanding, Icpt!Outstanding,
         IcptProofs!Range, Icpt!Range, IcptProofs!IsInjective, Icpt!IsInjective
<1> QED BY <1>4, <1>5

LEMMA InitIsInv == Init => IInv
<1> SUFFICES ASSUME Init PROVE IInv
  OBVIOUS
<1>1. Icpt!TypeOK /\ Icpt!TableAgrees
  BY IcptProofs!InitIsInv, SameInterceptor DEF Init, IcptProofs!IInv
<1>2. [form |-> "none", messages |-> <<>>] \in Lines
  BY DEF Lines
<1>3. TypeOK
  BY <1>1, <1>2 DEF Init, TypeOK
<1>4. ASSUME NEW x \in Exchanges PROVE Judged(x) /\ Served(x)
  BY DEF Init, Judged, Served, LineOk, Silent, Even
<1> QED BY <1>1, <1>3, <1>4 DEF IInv

-----------------------------------------------------------------------------
(* What clients and the server send. *)

LEMMA MadeOfMessages ==
    ASSUME NEW x \in Exchanges, NEW set \in SUBSET Messages, NEW l \in LinesOf(x, set)
    PROVE  l \in Lines /\ LineOk(l)
<1>1. Junk \in Messages
  BY DEF Junk, Messages
<1>2. CASE l \in [form : Forms[x] \intersect {"single", "big"}, messages : {<<m>> : m \in set}]
  <2>1. PICK m \in set : l.messages = <<m>>
    BY <1>2
  <2>2. l.form \in {"single", "big"} /\ l = [form |-> l.form, messages |-> l.messages]
    BY <1>2
  <2>3. <<m>> \in Seq(Messages) /\ Len(<<m>>) = 1
    OBVIOUS
  <2> QED BY <2>1, <2>2, <2>3 DEF Lines, LineOk
<1>3. CASE l \in [form : Forms[x] \intersect {"batch"}, messages : {<<m, Junk>> : m \in set}]
  <2>1. PICK m \in set : l.messages = <<m, Junk>>
    BY <1>3
  <2>2. l.form = "batch" /\ l = [form |-> l.form, messages |-> l.messages]
    BY <1>3
  <2>3. <<m, Junk>> \in Seq(Messages)
    BY <1>1
  <2> QED BY <2>1, <2>2, <2>3 DEF Lines, LineOk
<1>4. CASE l \in [form : {"single"}, messages : IF "junk" \in Forms[x] THEN {<<Junk>>} ELSE {}]
  <2>1. l.form = "single" /\ l.messages = <<Junk>> /\ l = [form |-> l.form, messages |-> l.messages]
    BY <1>4
  <2>2. <<Junk>> \in Seq(Messages) /\ Len(<<Junk>>) = 1
    BY <1>1
  <2> QED BY <2>1, <2>2 DEF Lines, LineOk
<1> QED BY <1>2, <1>3, <1>4 DEF LinesOf

LEMMA AskedMessages ==
    ASSUME TypeOK, NEW x \in Exchanges
    PROVE  /\ AskedOfClient(x) \subseteq Messages /\ AskedOfServer(x) \subseteq Messages
           /\ {Reply(m) : m \in AskedOfClient(x)} \subseteq Messages
           /\ {Reply(m) : m \in AskedOfServer(x)} \subseteq Messages
<1>1. \A m \in Messages : Reply(m) \in Messages
  BY DEF Messages, Reply
<1>2. \A l \in Lines : l.messages \in Seq(Messages) /\ Range(l.messages) \subseteq Messages
  <2> SUFFICES ASSUME NEW l \in Lines PROVE l.messages \in Seq(Messages) /\ Range(l.messages) \subseteq Messages
    OBVIOUS
  <2>1. l.messages \in Seq(Messages)
    BY DEF Lines
  <2>2. \A i \in DOMAIN l.messages : l.messages[i] \in Messages
    BY <2>1, ElementOfSeq
  <2> QED BY <2>1, <2>2 DEF Range
<1>3. ASSUME NEW y \in Exchanges PROVE MessagesIn(clientGot[y]) \subseteq Messages
  <2>1. \A i \in DOMAIN clientGot[y] : clientGot[y][i] \in Lines
    BY ElementOfSeq DEF TypeOK
  <2> QED BY <1>2, <2>1 DEF MessagesIn
<1>4. \A y \in Exchanges : Range(body[y].messages) \subseteq Messages
  BY <1>2 DEF TypeOK
<1>5. AskedOfClient(x) \subseteq Messages /\ AskedOfServer(x) \subseteq Messages
  BY <1>3, <1>4 DEF AskedOfClient, AskedOfServer, Requests, Mine
<1> QED BY <1>1, <1>5

LEMMA PostedLines ==
    ASSUME TypeOK, NEW x \in Exchanges, NEW l \in CanPost(x)
    PROVE  l \in Lines /\ LineOk(l)
<1> DEFINE asked == [kind : {"request"}, id : IdsOf[x], call : ClientCalls]
           answers == {Reply(m) : m \in AskedOfClient(x)} \ Posted(x)
<1>1. asked \subseteq Messages
  BY HttpProxyAssumption DEF Messages, Ids
<1>2. answers \subseteq Messages
  BY AskedMessages
<1>3. CASE l = [form |-> "none", messages |-> <<>>]
  BY <1>3 DEF Lines, LineOk
<1>4. CASE l \in LinesOf(x, asked \union answers)
  <2>1. asked \union answers \in SUBSET Messages
    BY <1>1, <1>2
  <2> HIDE DEF asked, answers
  <2> QED BY <1>4, <2>1, MadeOfMessages
<1> QED BY <1>3, <1>4 DEF CanPost

LEMMA SaidLines ==
    ASSUME TypeOK, NEW x \in Exchanges, NEW l \in CanSay(x)
    PROVE  l \in Lines
<1> DEFINE used == {m.id : m \in UNION {MessagesIn(said[y]) : y \in Exchanges}} \ {NoId}
           answers == {Reply(m) : m \in AskedOfServer(x)} \ SaidTo(x)
           asked == [kind : {"request"}, id : ServerIds \ used, call : ServerCalls]
<1>1. answers \union asked \in SUBSET Messages
  <2>1. answers \subseteq Messages
    BY AskedMessages
  <2>2. asked \subseteq Messages
    BY HttpProxyAssumption DEF Messages, Ids
  <2> QED BY <2>1, <2>2
<1>2. l \in LinesOf(x, answers \union asked)
  BY DEF CanSay
<1> HIDE DEF answers, asked
<1> QED BY <1>1, <1>2, MadeOfMessages

-----------------------------------------------------------------------------
(* The Interceptor's share: what the steps of a handler do to it. *)

LEMMA InterceptorSteps ==
    ASSUME TypeOK, Icpt!TableAgrees, NEW x \in Exchanges,
           \/ UNCHANGED interceptorVars
           \/ Icpt!parseOne(x) \/ Icpt!ParseEnd(x)
           \/ \E payload \in Seq(Messages) : Icpt!ParseBegin(x, payload)
    PROVE  /\ Icpt!TypeOK' /\ Icpt!TableAgrees'
           /\ \A y \in Exchanges \ {x} : todo'[y] = todo[y] /\ events'[y] = events[y]
<1>1. Icpt!TypeOK /\ Icpt!TableAgrees
  BY DEF TypeOK
<1>2. CASE UNCHANGED interceptorVars
  BY <1>1, <1>2 DEF interceptorVars, Icpt!TypeOK, Icpt!TableAgrees, Icpt!Outstanding
<1>3. CASE Icpt!parseOne(x)
  <2>1. \A y \in Exchanges \ {x} : todo'[y] = todo[y]
    BY <1>1, <1>3 DEF Icpt!parseOne, Icpt!Reading, Icpt!TypeOK
  <2>2. \A y \in Exchanges \ {x} : events'[y] = events[y]
    BY <1>1, <1>3 DEF Icpt!parseOne, Icpt!TypeOK, Icpt!Emit, Icpt!Request, Icpt!Notification,
                      Icpt!ReplyToKnown, Icpt!ReplyToUnknown, Icpt!Junk
  <2> QED BY <1>1, <1>3, <2>1, <2>2, ParseKeepsInterceptor
<1>4. CASE Icpt!ParseEnd(x)
  BY <1>1, <1>4 DEF Icpt!ParseEnd, Icpt!TypeOK, Icpt!TableAgrees, Icpt!Outstanding
<1>5. ASSUME NEW payload \in Seq(Messages), Icpt!ParseBegin(x, payload)
      PROVE  /\ Icpt!TypeOK' /\ Icpt!TableAgrees'
             /\ \A y \in Exchanges \ {x} : todo'[y] = todo[y] /\ events'[y] = events[y]
  <2>1. payload \in Seq(Icpt!Messages)
    BY DEF Messages, Icpt!Messages
  <2>2. <<>> \in Seq([message : Icpt!Messages, call : Calls \union {NoCall}])
    OBVIOUS
  <2>3. todo' \in [Exchanges -> Seq(Icpt!Messages)]
    BY <1>1, <1>5, <2>1 DEF Icpt!ParseBegin, Icpt!TypeOK
  <2>4. events' \in [Exchanges -> Seq([message : Icpt!Messages, call : Calls \union {NoCall}])]
    BY <1>1, <1>5, <2>2 DEF Icpt!ParseBegin, Icpt!TypeOK
  <2>5. \A y \in Exchanges \ {x} : todo'[y] = todo[y] /\ events'[y] = events[y]
    BY <1>1, <1>5 DEF Icpt!ParseBegin, Icpt!TypeOK
  <2>6. Icpt!TableAgrees' /\ UNCHANGED <<pending, order, traffic>> /\ parsing' \subseteq Exchanges
    BY <1>1, <1>5 DEF Icpt!ParseBegin, Icpt!TypeOK, Icpt!TableAgrees, Icpt!Outstanding
  <2> QED BY <1>1, <2>3, <2>4, <2>5, <2>6 DEF Icpt!TypeOK
<1> QED BY <1>2, <1>3, <1>4, <1>5

LEMMA StepsOfInterceptor ==
    ASSUME TypeOK, NEW x \in Exchanges, Handler(x)
    PROVE  \/ UNCHANGED interceptorVars
           \/ Icpt!parseOne(x) \/ Icpt!ParseEnd(x)
           \/ \E payload \in Seq(Messages) : Icpt!ParseBegin(x, payload)
<1>1. \A l \in Lines : l.messages \in Seq(Messages)
  BY DEF Lines
<1>2. ASSUME Receive(x)
      PROVE  UNCHANGED interceptorVars \/ \E payload \in Seq(Messages) : Icpt!ParseBegin(x, payload)
  <2>1. PICK l \in CanPost(x) : UNCHANGED interceptorVars \/ Icpt!ParseBegin(x, l.messages)
    BY <1>2 DEF Receive
  <2>2. l.messages \in Seq(Messages)
    BY <1>1, PostedLines
  <2> QED BY <2>1, <2>2
<1>3. ASSUME Read(x)
      PROVE  UNCHANGED interceptorVars \/ \E payload \in Seq(Messages) : Icpt!ParseBegin(x, payload)
  <2>1. PICK l \in CanSay(x) : UNCHANGED interceptorVars \/ Icpt!ParseBegin(x, l.messages)
    BY <1>3 DEF Read, ReadUntapped, ReadOverLimit, ReadComplete, ReadHeld
  <2>2. l.messages \in Seq(Messages)
    BY <1>1, SaidLines
  <2> QED BY <2>1, <2>2
<1>4. ASSUME finish(x)
      PROVE  UNCHANGED interceptorVars \/ \E payload \in Seq(Messages) : Icpt!ParseBegin(x, payload)
  <2>1. CASE held[x] = <<>>
    BY <1>4, <2>1 DEF finish
  <2>2. CASE held[x] # <<>>
    <3>1. held[x] \in Seq(Lines) /\ 1 \in DOMAIN held[x]
      BY <2>2, EmptySeq, LenProperties DEF TypeOK
    <3>2. held[x][1].messages \in Seq(Messages)
      BY <1>1, <3>1, ElementOfSeq
    <3> QED BY <1>4, <2>2, <3>2 DEF finish
  <2> QED BY <2>1, <2>2
<1> QED BY <1>2, <1>3, <1>4 DEF Handler, ReadBodyFails, ParseMessage, Judge, Dispatch, RequestLogged,
        writeDenial, Forward, handleUpstreamError, modifyResponse, ReplyParsed, ReplyLogged, Deliver

-----------------------------------------------------------------------------
(* A handler respects the types, and leaves the other exchanges alone. *)

LEMMA EventsAreTyped ==
    ASSUME TypeOK, NEW x \in Exchanges, NEW i \in 1..Len(events[x])
    PROVE  events[x][i] \in [message : Messages, call : Calls \union {NoCall}]
<1> DEFINE Event == [message : Messages, call : Calls \union {NoCall}]
<1>1. events[x] \in Seq(Event)
  BY DEF TypeOK, Icpt!TypeOK, Messages, Icpt!Messages
<1> HIDE DEF Event
<1>2. events[x][i] \in Event
  BY <1>1, LenProperties, ElementOfSeq
<1> QED BY <1>2 DEF Event

LEMMA HandlerKeepsAudit ==
    ASSUME TypeOK, NEW x \in Exchanges, Handler(x)
    PROVE  /\ dispatched' \in [Exchanges -> Nat]
           /\ audit' \in Seq([from : {"client", "server"}, exchange : Exchanges,
                              event : [message : Messages, call : Calls \union {NoCall}]])
<1> DEFINE Event == [message : Messages, call : Calls \union {NoCall}]
           Entries == [from : {"client", "server"}, exchange : Exchanges, event : Event]
<1>1. dispatched \in [Exchanges -> Nat] /\ audit \in Seq(Entries)
  BY DEF TypeOK, Entry
<1>2. CASE Dispatch(x)
  <2>1. dispatched[x] + 1 \in 1..Len(events[x])
    <3>1. Len(events[x]) \in Nat
      BY LenProperties DEF TypeOK, Icpt!TypeOK
    <3> QED BY <1>1, <1>2, <3>1 DEF Dispatch
  <2> DEFINE entry == [from |-> IF at[x] = "log" THEN "client" ELSE "server",
                       exchange |-> x, event |-> events[x][dispatched[x] + 1]]
  <2>2. entry \in Entries
    BY <2>1, EventsAreTyped
  <2>3. audit' = audit \/ audit' = Append(audit, entry)
    BY <1>2 DEF Dispatch
  <2> HIDE DEF Entries, entry
  <2>4. audit' \in Seq(Entries)
    BY <1>1, <2>2, <2>3, AppendProperties
  <2>5. dispatched' \in [Exchanges -> Nat]
    BY <1>1, <1>2 DEF Dispatch
  <2> QED BY <2>4, <2>5 DEF Entries
<1>3. CASE ~Dispatch(x)
  <2>1. audit' = audit
    BY <1>3 DEF Handler, ReadBodyFails, Receive, ParseMessage, Judge, RequestLogged, writeDenial,
           Forward, handleUpstreamError, modifyResponse, Read, ReadLine, ReplyParsed, ReplyLogged,
           Deliver, finish
  <2>2. dispatched' = dispatched \/ dispatched' = [dispatched EXCEPT ![x] = 0]
    BY <1>3 DEF Handler, ReadBodyFails, Receive, ParseMessage, Judge, RequestLogged, writeDenial,
           Forward, handleUpstreamError, modifyResponse, Read, ReadLine, ReplyParsed, ReplyLogged,
           Deliver, finish
  <2> QED BY <1>1, <2>1, <2>2
<1> QED BY <1>2, <1>3

LEMMA HandlerKeepsTap ==
    ASSUME TypeOK, NEW x \in Exchanges, Handler(x)
    PROVE  /\ mode' \in [Exchanges -> {"none", "json", "sse", "other"}]
           /\ said' \in [Exchanges -> Seq(Lines)]
           /\ held' \in [Exchanges -> Seq(Lines)]
           /\ truncated' \subseteq Exchanges
           /\ ended' \subseteq {y \in Exchanges : held'[y] = <<>>}
<1>1. /\ mode \in [Exchanges -> {"none", "json", "sse", "other"}]
      /\ said \in [Exchanges -> Seq(Lines)] /\ held \in [Exchanges -> Seq(Lines)]
      /\ truncated \subseteq Exchanges /\ ended \subseteq {y \in Exchanges : held[y] = <<>>}
  BY DEF TypeOK
<1>2. <<>> \in Seq(Lines)
  BY EmptySeq
<1>3. CASE UNCHANGED tapVars
  BY <1>1, <1>3 DEF tapVars
<1>4. CASE modifyResponse(x)
  <2>1. Modes[x] \subseteq {"json", "sse", "other"}
    BY HttpProxyAssumption
  <2> QED BY <1>1, <1>4, <2>1 DEF modifyResponse
<1>5. CASE finish(x)
  BY <1>1, <1>2, <1>5 DEF finish
<1>6. CASE Read(x)
  <2>1. PICK l \in CanSay(x) :
          /\ ReadLine(x, l)
          /\ ReadUntapped(x, l) \/ ReadOverLimit(x, l) \/ ReadComplete(x, l) \/ ReadHeld(x, l)
    BY <1>6 DEF Read
  <2>2. l \in Lines /\ <<l>> \in Seq(Lines)
    BY SaidLines
  <2>3. mode' \in [Exchanges -> {"none", "json", "sse", "other"}] /\ said' \in [Exchanges -> Seq(Lines)]
    <3>1. Append(said[x], l) \in Seq(Lines)
      BY <1>1, <2>2, AppendProperties
    <3> QED BY <1>1, <2>1, <3>1 DEF ReadLine
  <2>4. x \notin ended /\ held[x] = <<>>
    BY <2>1 DEF ReadLine
  <2>5. CASE ReadUntapped(x, l) \/ ReadOverLimit(x, l)
    BY <1>1, <2>3, <2>5 DEF ReadUntapped, ReadOverLimit
  <2>6. CASE ReadComplete(x, l)
    BY <1>1, <2>3, <2>4, <2>6 DEF ReadComplete
  <2>7. CASE ReadHeld(x, l)
    BY <1>1, <2>2, <2>3, <2>4, <2>7 DEF ReadHeld
  <2> QED BY <2>1, <2>5, <2>6, <2>7
<1> QED BY <1>3, <1>4, <1>5, <1>6 DEF Handler, ReadBodyFails, Receive, ParseMessage, Judge, Dispatch,
        RequestLogged, writeDenial, Forward, handleUpstreamError, ReplyParsed, ReplyLogged, Deliver

LEMMA ClientGets ==
    ASSUME TypeOK, NEW x \in Exchanges, Handler(x), Judged(x), Served(x)
    PROVE  clientGot' \in [Exchanges -> Seq(Lines)]
<1>1. clientGot \in [Exchanges -> Seq(Lines)] /\ said[x] \in Seq(Lines)
  BY DEF TypeOK
<1>2. ASSUME NEW id \in Ids \union {NoId}, Answer(x, id)
      PROVE  clientGot' \in [Exchanges -> Seq(Lines)]
  <2> DEFINE m == [kind |-> "reply", id |-> id, call |-> NoCall]
  <2>1. m \in Messages
    BY DEF Messages
  <2>2. clientGot' = [clientGot EXCEPT ![x] = Append(@, [form |-> "error", messages |-> <<m>>])]
    BY <1>2 DEF Answer
  <2> HIDE DEF m
  <2>3. [form |-> "error", messages |-> <<m>>] \in Lines
    BY <2>1 DEF Lines
  <2> QED BY <1>1, <2>2, <2>3, AppendProperties
<1>3. CASE writeDenial(x)
  <2>1. 1 \in 1..Len(events[x])
    BY <1>3 DEF writeDenial, Judged, Refused
  <2>2. events[x][1].message.id \in Ids \union {NoId}
    BY <2>1, EventsAreTyped DEF Messages
  <2> QED BY <1>2, <1>3, <2>2 DEF writeDenial
<1>4. CASE handleUpstreamError(x)
  BY <1>2, <1>4 DEF handleUpstreamError
<1>5. CASE Deliver(x)
  <2>1. said[x] # <<>>
    BY <1>1, <1>5, AppendProperties, EmptySeq DEF Deliver, Served, OneBehind, TypeOK
  <2>2. Last(said[x]) \in Lines
    BY <1>1, <2>1, EmptySeq, LenProperties, ElementOfSeq DEF Last
  <2> QED BY <1>1, <1>5, <2>2, AppendProperties DEF Deliver
<1>6. CASE clientGot' = clientGot
  BY <1>1, <1>6
<1> QED BY <1>3, <1>4, <1>5, <1>6 DEF Handler, ReadBodyFails, Receive, ParseMessage, Judge, Dispatch,
        RequestLogged, Forward, modifyResponse, Read, ReadLine, ReplyParsed, ReplyLogged, finish, worldVars

Places == {"idle", "request", "log", "refuse", "send", "wait", "stream",
           "reply", "logReply", "deliver", "rest", "logRest", "done"}

LEMMA HandlerMoves ==
    ASSUME NEW x \in Exchanges, Handler(x)
    PROVE  at' = at \/ \E place \in Places : Go(x, place)
BY DEF Handler, ReadBodyFails, Receive, ParseMessage, Judge, Dispatch, RequestLogged, writeDenial,
       Forward, handleUpstreamError, modifyResponse, Read, ReadUntapped, ReadOverLimit, ReadComplete,
       ReadHeld, ReplyParsed, ReplyLogged, Deliver, finish, Places

LEMMA HandlerKeepsType ==
    ASSUME IInv, NEW x \in Exchanges, Handler(x)
    PROVE  /\ TypeOK' /\ Icpt!TableAgrees'
           /\ \A y \in Exchanges \ {x} : todo'[y] = todo[y] /\ events'[y] = events[y]
<1>1. TypeOK /\ Icpt!TableAgrees /\ Judged(x) /\ Served(x)
  BY DEF IInv
<1>2. /\ Icpt!TypeOK' /\ Icpt!TableAgrees'
      /\ \A y \in Exchanges \ {x} : todo'[y] = todo[y] /\ events'[y] = events[y]
  BY <1>1, StepsOfInterceptor, InterceptorSteps
<1>3. at' \in [Exchanges -> Places]
  <2>1. at \in [Exchanges -> Places]
    BY <1>1 DEF TypeOK, Places
  <2> QED BY <2>1, HandlerMoves DEF Go
<1>4. body' \in [Exchanges -> Lines]
  <2>1. body \in [Exchanges -> Lines]
    BY <1>1 DEF TypeOK
  <2>2. CASE Receive(x)
    BY <1>1, <2>1, <2>2, PostedLines DEF Receive
  <2>3. CASE body' = body
    BY <2>1, <2>3
  <2> QED BY <2>2, <2>3 DEF Handler, ReadBodyFails, ParseMessage, Judge, Dispatch, RequestLogged, writeDenial,
       Forward, handleUpstreamError, modifyResponse, Read, ReadLine, ReplyParsed, ReplyLogged, Deliver, finish
<1>5. serverGot' \subseteq Exchanges /\ main' = main
  BY <1>1 DEF TypeOK, Handler, ReadBodyFails, Receive, ParseMessage, Judge, Dispatch, RequestLogged, writeDenial,
       Forward, handleUpstreamError, modifyResponse, Read, ReadLine, ReplyParsed, ReplyLogged, Deliver, finish,
       worldVars
<1>6. main' \in {"serving", "shutdown", "closed", "exited"}
  BY <1>1, <1>5 DEF TypeOK
<1> QED BY <1>1, <1>2, <1>3, <1>4, <1>5, <1>6, HandlerKeepsAudit, HandlerKeepsTap, ClientGets DEF TypeOK, Places, Entry

LEMMA OtherExchanges ==
    ASSUME IInv, NEW x \in Exchanges, Handler(x), NEW y \in Exchanges, y # x
    PROVE  /\ at'[y] = at[y] /\ body'[y] = body[y] /\ mode'[y] = mode[y] /\ said'[y] = said[y]
           /\ clientGot'[y] = clientGot[y] /\ (y \in serverGot' <=> y \in serverGot)
<1>1. TypeOK
  BY DEF IInv
<1>2. at'[y] = at[y]
  BY <1>1, HandlerMoves DEF TypeOK, Go
<1> QED BY <1>1, <1>2
  DEF TypeOK, Handler, ReadBodyFails, Receive, ParseMessage, Judge, Dispatch, RequestLogged, writeDenial,
      Forward, handleUpstreamError, modifyResponse, Read, ReadLine, ReplyParsed, ReplyLogged, Deliver, finish,
      worldVars, tapVars, Answer

LEMMA OthersKeepInv ==
    ASSUME IInv, NEW x \in Exchanges, Handler(x), NEW y \in Exchanges, y # x
    PROVE  Judged(y)' /\ Served(y)'
<1>1. Judged(y) /\ Served(y)
  BY DEF IInv
<1>2. todo'[y] = todo[y] /\ events'[y] = events[y]
  BY HandlerKeepsType
<1> QED BY <1>1, <1>2, OtherExchanges
  DEF Judged, Served, IsRefusedCall, Refused, Silent, Even, OneBehind

-----------------------------------------------------------------------------
(* The request of an exchange. *)

LEMMA ParseReadsRequest ==
    ASSUME IInv, NEW x \in Exchanges, at[x] = "request", Icpt!parseOne(x), IsRefusedCall(x)
    PROVE  /\ todo'[x] = <<>>
           /\ events'[x] = <<[message |-> body[x].messages[1], call |-> body[x].messages[1].call]>>
<1>1. PICK m \in Icpt!Messages :
        /\ Icpt!Reading(x, m)
        /\ \/ Icpt!Request(x, m) \/ Icpt!Notification(x, m)
           \/ Icpt!ReplyToKnown(x, m) \/ Icpt!ReplyToUnknown(x, m) \/ Icpt!Junk(x, m)
  BY DEF Icpt!parseOne
<1>2. /\ body[x].messages \in Seq(Messages) /\ DOMAIN events = Exchanges
      /\ todo \in [Exchanges -> Seq(Messages)]
  BY DEF IInv, TypeOK, Lines, Icpt!TypeOK, Icpt!Messages, Messages
<1>3. Len(body[x].messages) = 1 /\ todo[x] = body[x].messages /\ events[x] = <<>>
  BY <1>1 DEF IInv, Judged, LineOk, IsRefusedCall, Icpt!Reading
<1>4. m = body[x].messages[1] /\ Tail(todo[x]) = <<>>
  <2>1. m = Head(todo[x])
    BY <1>1 DEF Icpt!Reading
  <2> QED BY <1>2, <1>3, <2>1, OneElement
<1>5. m.kind = "request"
  BY <1>4 DEF IsRefusedCall
<1>6. Icpt!Emit(x, m, m.call)
  BY <1>1, <1>5 DEF Icpt!Request, Icpt!Notification, Icpt!ReplyToKnown, Icpt!ReplyToUnknown, Icpt!Junk
<1>7. todo'[x] = <<>>
  BY <1>1, <1>2, <1>4 DEF Icpt!Reading
<1>8. events'[x] = Append(events[x], [message |-> m, call |-> m.call])
  BY <1>2, <1>6 DEF Icpt!Emit
<1> QED BY <1>3, <1>4, <1>7, <1>8

LEMMA RequestIsJudged ==
    ASSUME IInv, NEW x \in Exchanges, Handler(x)
    PROVE  Judged(x)'
<1>1. /\ at \in [Exchanges -> Places] /\ body \in [Exchanges -> Lines]
      /\ DOMAIN todo = Exchanges /\ DOMAIN events = Exchanges /\ serverGot \subseteq Exchanges
  BY DEF IInv, TypeOK, Places, Icpt!TypeOK
<1>2. Judged(x)
  BY DEF IInv
<1>3. CASE Receive(x)
  <2>1. PICK l \in CanPost(x) :
          /\ body' = [body EXCEPT ![x] = l] /\ UNCHANGED serverGot /\ at[x] = "idle"
          /\ \/ Icpt!ParseBegin(x, l.messages) /\ Go(x, "request")
             \/ ~Audited(l) /\ Go(x, "send")
    BY <1>3 DEF Receive, worldVars
  <2>2. body'[x] = l /\ LineOk(body'[x]) /\ x \notin serverGot'
    BY <1>1, <1>2, <2>1, PostedLines DEF IInv, Judged
  <2>3. CASE Icpt!ParseBegin(x, l.messages) /\ Go(x, "request")
    <3>1. at'[x] = "request" /\ todo'[x] = body'[x].messages /\ events'[x] = <<>>
      BY <1>1, <2>2, <2>3 DEF Icpt!ParseBegin, Go
    <3> QED BY <2>2, <3>1 DEF Judged
  <2>4. CASE ~Audited(l) /\ Go(x, "send")
    <3>1. at'[x] = "send" /\ ~IsRefusedCall(x)'
      BY <1>1, <2>2, <2>4 DEF Go, Audited, IsRefusedCall
    <3> QED BY <2>2, <3>1 DEF Judged
  <2> QED BY <2>1, <2>3, <2>4
<1>4. CASE ParseMessage(x)
  <2>1. Icpt!parseOne(x) /\ UNCHANGED <<at, body, serverGot>> /\ at[x] \in {"request", "reply", "rest"}
    BY <1>4 DEF ParseMessage, worldVars
  <2>2. at[x] = "request" /\ IsRefusedCall(x) =>
          /\ todo'[x] = <<>>
          /\ events'[x] = <<[message |-> body[x].messages[1], call |-> body[x].messages[1].call]>>
    BY <2>1, ParseReadsRequest
  <2> QED BY <1>2, <2>1, <2>2 DEF Judged, IsRefusedCall
<1>5. CASE Judge(x)
  <2>1. /\ at[x] = "request" /\ at'[x] = "log" /\ todo[x] = <<>>
        /\ UNCHANGED <<body, serverGot, events>>
    BY <1>1, <1>5 DEF Judge, Go, Icpt!ParseEnd, worldVars
  <2>2. ASSUME IsRefusedCall(x) PROVE Refused(x)
    <3>1. Len(body[x].messages) = 1
      BY <1>2, <2>2 DEF Judged, LineOk, IsRefusedCall
    <3>2. events[x] = <<[message |-> body[x].messages[1], call |-> body[x].messages[1].call]>>
      BY <1>2, <2>1, <2>2, <3>1 DEF Judged
    <3> QED BY <2>2, <3>2 DEF Refused, IsRefusedCall
  <2> QED BY <1>2, <2>1, <2>2 DEF Judged, IsRefusedCall, Refused
<1>6. CASE RequestLogged(x)
  <2>1. /\ at[x] = "log" /\ at'[x] = IF Refused(x) THEN "refuse" ELSE "send"
        /\ UNCHANGED <<body, serverGot, events>>
    BY <1>1, <1>6 DEF RequestLogged, Go, worldVars, interceptorVars
  <2> QED BY <1>2, <2>1 DEF Judged, IsRefusedCall, Refused
<1>7. CASE Forward(x)
  <2>1. at[x] = "send" /\ at'[x] = "wait" /\ UNCHANGED body
    BY <1>1, <1>7 DEF Forward, Go
  <2> QED BY <1>2, <2>1 DEF Judged, IsRefusedCall
<1>8. CASE Dispatch(x)
  BY <1>2, <1>8 DEF Dispatch, Judged, IsRefusedCall, Refused, worldVars, interceptorVars
<1>9. ASSUME UNCHANGED <<body, serverGot>>,
             \E place \in Places \ {"idle", "request", "log", "refuse", "send"} : Go(x, place)
      PROVE  Judged(x)'
  <2>1. at'[x] \in Places \ {"idle", "request", "log", "refuse", "send"}
    BY <1>1, <1>9 DEF Go
  <2> QED BY <1>2, <1>9, <2>1 DEF Judged, IsRefusedCall
<1>10. ASSUME Read(x)
       PROVE  UNCHANGED <<body, serverGot>> /\ \E place \in {"deliver", "reply"} : Go(x, place)
  BY <1>10 DEF Read, ReadLine, ReadUntapped, ReadOverLimit, ReadComplete, ReadHeld, worldVars
<1>11. ASSUME ReadBodyFails(x) \/ writeDenial(x) \/ handleUpstreamError(x) \/ modifyResponse(x)
              \/ ReplyParsed(x) \/ ReplyLogged(x) \/ Deliver(x) \/ finish(x)
       PROVE  /\ UNCHANGED <<body, serverGot>>
              /\ \E place \in Places \ {"idle", "request", "log", "refuse", "send"} : Go(x, place)
  BY <1>11 DEF ReadBodyFails, writeDenial, handleUpstreamError, modifyResponse, ReplyParsed, ReplyLogged,
               Deliver, finish, worldVars, Places
<1> QED BY <1>3, <1>4, <1>5, <1>6, <1>7, <1>8, <1>9, <1>10, <1>11 DEF Handler, Places

-----------------------------------------------------------------------------
(* The response of an exchange. *)

LEMMA ResponseIsServed ==
    ASSUME IInv, NEW x \in Exchanges, Handler(x)
    PROVE  Served(x)'
<1>1. /\ at \in [Exchanges -> Places] /\ mode \in [Exchanges -> {"none", "json", "sse", "other"}]
      /\ said \in [Exchanges -> Seq(Lines)] /\ clientGot \in [Exchanges -> Seq(Lines)]
  BY DEF IInv, TypeOK, Places
<1>2. Served(x)
  BY DEF IInv
<1> DEFINE before == {"idle", "request", "log", "refuse", "send", "wait"}
           inHand == {"reply", "logReply", "deliver"}
<1>3. CASE Read(x)
  <2>1. PICK l \in CanSay(x) :
          /\ at[x] = "stream" /\ said' = [said EXCEPT ![x] = Append(@, l)] /\ UNCHANGED clientGot
          /\ \E place \in {"deliver", "reply"} : Go(x, place)
    BY <1>3 DEF Read, ReadLine, ReadUntapped, ReadOverLimit, ReadComplete, ReadHeld, worldVars
  <2>2. l \in Lines
    BY SaidLines DEF IInv
  <2>3. at'[x] \in {"deliver", "reply"} /\ OneBehind(x)'
    BY <1>1, <1>2, <2>1, <2>2 DEF Go, Served, Even, OneBehind
  <2> QED BY <2>3 DEF Served
<1>4. CASE Deliver(x)
  <2>1. /\ at[x] = "deliver" /\ at'[x] \in {"done", "stream"} /\ UNCHANGED <<said, mode>>
        /\ clientGot'[x] = Append(clientGot[x], Last(said[x]))
    BY <1>1, <1>4 DEF Deliver, Go, tapVars
  <2>2. PICK l \in Lines : said[x] = Append(clientGot[x], l)
    BY <1>2, <2>1 DEF Served, OneBehind
  <2>3. Last(said[x]) = l
    BY <1>1, <2>2, AppendProperties, LenProperties DEF Last
  <2>4. Even(x)'
    BY <2>1, <2>2, <2>3 DEF Even
  <2> QED BY <2>1, <2>4 DEF Served
<1>5. CASE writeDenial(x) \/ handleUpstreamError(x)
  <2>1. at[x] \in before /\ at'[x] = "done" /\ UNCHANGED <<said, mode>>
    BY <1>1, <1>5 DEF writeDenial, handleUpstreamError, Go, tapVars
  <2> QED BY <1>2, <2>1 DEF Served, Silent
<1>6. CASE modifyResponse(x)
  <2>1. at[x] = "wait" /\ at'[x] = "stream" /\ UNCHANGED <<said, clientGot>>
    BY <1>1, <1>6 DEF modifyResponse, Go, worldVars
  <2> QED BY <1>2, <2>1 DEF Served, Even
<1>7. ASSUME UNCHANGED <<said, clientGot, mode>>,
             \/ at'[x] = at[x]
             \/ at[x] \in before /\ at'[x] \in before
             \/ at[x] \in inHand /\ at'[x] \in inHand
             \/ at'[x] \in {"rest", "logRest", "done"}
      PROVE  Served(x)'
  BY <1>2, <1>7 DEF Served, Silent, Even, OneBehind
<1>8. ASSUME ReadBodyFails(x) \/ Receive(x) \/ ParseMessage(x) \/ Judge(x) \/ Dispatch(x) \/ RequestLogged(x)
             \/ Forward(x) \/ ReplyParsed(x) \/ ReplyLogged(x) \/ finish(x)
      PROVE  /\ UNCHANGED <<said, clientGot, mode>>
             /\ \/ at'[x] = at[x]
                \/ at[x] \in before /\ at'[x] \in before
                \/ at[x] \in inHand /\ at'[x] \in inHand
                \/ at'[x] \in {"rest", "logRest", "done"}
  BY <1>1, <1>8 DEF ReadBodyFails, Receive, ParseMessage, Judge, Dispatch, RequestLogged, Forward, ReplyParsed,
        ReplyLogged, finish, Go, tapVars, worldVars
<1> QED BY <1>3, <1>4, <1>5, <1>6, <1>7, <1>8 DEF Handler

-----------------------------------------------------------------------------
(* The specification *)

LEMMA MainKeepsInv ==
    ASSUME IInv, Interrupt \/ ServeFails \/ ShutdownCompletes \/ ShutdownTimesOut \/ ProcessExits
    PROVE  IInv'
<1>1. /\ UNCHANGED <<interceptorVars, body, tapVars, dispatched, worldVars, audit>>
      /\ main' \in {"shutdown", "closed", "exited"}
      /\ at' = at \/ at' = [x \in Exchanges |-> "done"]
  BY DEF Interrupt, ServeFails, ShutdownCompletes, ShutdownTimesOut, ProcessExits, Main
<1>2. Icpt!TypeOK' /\ Icpt!TableAgrees'
  BY <1>1 DEF IInv, TypeOK, interceptorVars, Icpt!TypeOK, Icpt!TableAgrees, Icpt!Outstanding
<1>3. TypeOK'
  BY <1>1, <1>2 DEF IInv, TypeOK, tapVars, worldVars
<1>4. ASSUME NEW x \in Exchanges PROVE Judged(x)' /\ Served(x)'
  <2>1. at'[x] = at[x] \/ at'[x] = "done"
    BY <1>1
  <2>2. Judged(x) /\ Served(x)
    BY DEF IInv
  <2> QED BY <1>1, <2>1, <2>2
      DEF Judged, Served, IsRefusedCall, Refused, Silent, Even, OneBehind, tapVars, worldVars, interceptorVars
<1> QED BY <1>2, <1>3, <1>4 DEF IInv

LEMMA Invariance == Spec => []IInv
<1>1. IInv /\ [Next]_vars => IInv'
  <2> SUFFICES ASSUME IInv, [Next]_vars PROVE IInv'
    OBVIOUS
  <2>1. ASSUME NEW x \in Exchanges, Handler(x) PROVE IInv'
    <3>1. TypeOK' /\ Icpt!TableAgrees'
      BY <2>1, HandlerKeepsType
    <3>2. ASSUME NEW y \in Exchanges PROVE Judged(y)' /\ Served(y)'
      BY <2>1, OthersKeepInv, RequestIsJudged, ResponseIsServed
    <3> QED BY <3>1, <3>2 DEF IInv
  <2>2. CASE UNCHANGED vars
    <3>1. Icpt!TypeOK' /\ Icpt!TableAgrees'
      BY <2>2 DEF vars, IInv, TypeOK, interceptorVars, Icpt!TypeOK, Icpt!TableAgrees, Icpt!Outstanding
    <3>2. TypeOK'
      BY <2>2, <3>1 DEF vars, IInv, TypeOK, tapVars, worldVars
    <3>3. ASSUME NEW x \in Exchanges PROVE Judged(x)' /\ Served(x)'
      BY <2>2 DEF vars, IInv, Judged, Served, IsRefusedCall, Refused, Silent, Even, OneBehind,
                  tapVars, worldVars, interceptorVars
    <3> QED BY <3>1, <3>2, <3>3 DEF IInv
  <2> QED BY <2>1, <2>2, MainKeepsInv DEF Next
<1> QED BY <1>1, InitIsInv, PTL DEF Spec

(* Every variable of the proxy keeps its type, with any number of clients  *)
(* and exchanges; no line waits in a tap that has seen the end.            *)
THEOREM TypeCorrect == Spec => []TypeOK
BY Invariance, PTL DEF IInv

(* A call that policy denies to the client of an exchange never reaches    *)
(* the server through it, whatever the other handlers do to the shared     *)
(* Interceptor meanwhile, and wherever the shutdown falls.                 *)
THEOREM RefusalIsEnforced == Spec => []RefusedNeverReachesServer
<1>1. IInv => RefusedNeverReachesServer
  BY DEF IInv, TypeOK, Judged, IsRefusedCall, RefusedNeverReachesServer
<1> QED BY <1>1, Invariance, PTL

(* The client gets the lines of the server as they came and in time.       *)
THEOREM TapIsTransparent == Spec => []Transparent
<1>1. IInv => Transparent
  <2> SUFFICES ASSUME IInv, NEW x \in Exchanges
               PROVE  \/ mode[x] = "none" /\ said[x] = <<>>
                      \/ /\ IsPrefix(clientGot[x], said[x])
                         /\ Len(said[x]) - Len(clientGot[x]) <= 1
                         /\ at[x] = "stream" => clientGot[x] = said[x]
    BY DEF Transparent
  <2>1. Served(x) /\ clientGot[x] \in Seq(Lines) /\ said[x] \in Seq(Lines)
    BY DEF IInv, TypeOK
  <2>2. CASE Silent(x)
    BY <2>2 DEF Silent
  <2>3. CASE Even(x)
    BY <2>1, <2>3, LenProperties DEF Even, IsPrefix
  <2>4. CASE OneBehind(x) /\ ~Silent(x) /\ ~Even(x)
    <3>1. PICK l \in Lines : said[x] = Append(clientGot[x], l)
      BY <2>4 DEF OneBehind
    <3>2. at[x] # "stream"
      BY <2>1, <2>4 DEF Served
    <3> DEFINE s == clientGot[x]
    <3>3. IsPrefix(s, Append(s, l)) /\ Len(Append(s, l)) = Len(s) + 1 /\ Len(s) \in Nat
      BY <2>1 DEF IsPrefix
    <3> QED BY <3>1, <3>2, <3>3
  <2> QED BY <2>1, <2>2, <2>3, <2>4 DEF Served
<1> QED BY <1>1, Invariance, PTL

-----------------------------------------------------------------------------
(* Replies follow requests: what is said, parsed and logged. *)

(* Every request that a client or the server has made. *)
SpokenIn(x) == Range(body[x].messages) \union MessagesIn(said[x])
Posed == Requests(UNION {SpokenIn(x) : x \in Exchanges})

Genuine(m) ==
    /\ m.kind = "request" /\ m.id # NoId => m \in Posed
    /\ m.kind = "reply" => \E r \in Posed : m = Reply(r)

(* The server has been asked before it answers. *)
Answers(x) == {Reply(r) : r \in AskedOfServer(x)}

BodyOk(l) ==
    /\ l.messages = <<>> \/ l.form \in {"single", "batch", "big"}
    /\ l.form = "big" => \A m \in Range(l.messages) : m = l.messages[1]

(* Whatever answers a request has its id and its call, and comes after it. *)
Conversation ==
    \A x \in Exchanges :
        /\ BodyOk(body[x])
        /\ at[x] = "idle" => body[x].form = "none" /\ body[x].messages = <<>>
        /\ x \in serverGot => at[x] \notin {"idle", "request", "log", "refuse", "send"}
        /\ \A m \in Range(body[x].messages) : Genuine(m)
        /\ \A m \in Requests(Range(body[x].messages)) : m.id \in IdsOf[x]
        /\ \A m \in MessagesIn(said[x]) : Genuine(m) /\ (m.kind = "reply" => m \in Answers(x))
        /\ \A m \in Requests(MessagesIn(said[x])) : m.id \in ServerIds
        /\ MessagesIn(held[x]) \subseteq MessagesIn(said[x])
        /\ Requests(MessagesIn(clientGot[x])) \subseteq Posed

(* What is being parsed or logged. *)
OfReply == {"reply", "rest", "logReply", "logRest"}
Parsing ==
    \A x \in Exchanges :
        /\ at[x] = "request" => Range(todo[x]) \subseteq Range(body[x].messages)
        /\ at[x] \in {"reply", "rest"} => Range(todo[x]) \subseteq MessagesIn(said[x])
        /\ at[x] \in OfReply => \A e \in Range(events[x]) : e.message \in MessagesIn(said[x])

(* An id stands for one request or has been used by several: what the      *)
(* table and the events say of it.                                         *)
NamedRight(e) ==
    e.message.kind = "reply" =>
        /\ e.call \in {m.call : m \in Asked(e.message.id)} \union {NoCall}
        /\ e.call \in {e.message.call, NoCall} \/ AskedBySeveral(e.message.id)
OneRequestPerAsker == \A r, s \in Posed : r.id = s.id => r = s \/ AskedBySeveral(r.id)

Naming ==
    /\ OneRequestPerAsker
    /\ \A id \in Ids : pending[id] # NoCall => \E r \in Posed : r.id = id /\ r.call = pending[id]
    /\ \A x \in Exchanges : \A e \in Range(events[x]) : NamedRight(e)
    /\ \A a \in Range(audit) : NamedRight(a.event)

Open == main \in {"serving", "shutdown"}
InLog(x, m) ==
    \E a \in Range(audit) : a.from = "client" /\ a.exchange = x /\ a.event.message = m

(* A request is in the log before the server gets it. *)
Logged(x) ==
    Audited(body[x]) =>
        \A m \in Requests(Range(body[x].messages)) :
            /\ at[x] = "request" => m \in Range(todo[x]) \/ \E e \in Range(events[x]) : e.message = m
            /\ at[x] = "log" /\ Open =>
                  InLog(x, m) \/ \E i \in DOMAIN events[x] : i > dispatched[x] /\ events[x][i].message = m
            /\ at[x] \notin {"idle", "request", "log"} /\ Open => InLog(x, m)

Explained(i) ==
    audit[i].event.message.kind = "reply" /\ audit[i].from = "server" =>
        \/ \E j \in 1..(i-1) :
              /\ audit[j].from = "client"
              /\ ClientOf[audit[j].exchange] = ClientOf[audit[i].exchange]
              /\ Reply(audit[j].event.message) = audit[i].event.message
        \/ \E x \in Mine(audit[i].exchange) :
              body[x].form = "big" /\ body[x].messages[1].id = audit[i].event.message.id

CorrelationInv ==
    /\ Conversation /\ Parsing
    /\ \A x \in Exchanges : Logged(x)
    /\ \A i \in DOMAIN audit : Explained(i)

LEMMA NothingInEmpty ==
    /\ \A m : m \notin MessagesIn(<<>>)
    /\ \A m : m \notin Range(<<>>)
    /\ Requests({}) = {}
BY DEF MessagesIn, Range, Requests

LEMMA CorrelationInit == Init => CorrelationInv /\ Naming
<1> SUFFICES ASSUME Init PROVE CorrelationInv /\ Naming
  OBVIOUS
<1>1. /\ at = [x \in Exchanges |-> "idle"] /\ said = [x \in Exchanges |-> <<>>]
      /\ body = [x \in Exchanges |-> [form |-> "none", messages |-> <<>>]]
      /\ held = [x \in Exchanges |-> <<>>] /\ clientGot = [x \in Exchanges |-> <<>>] /\ serverGot = {}
      /\ events = [x \in Exchanges |-> <<>>] /\ pending = [id \in Ids |-> NoCall] /\ audit = <<>>
  BY DEF Init, Icpt!Init
<1>2. Posed = {}
  BY <1>1, NothingInEmpty DEF Posed, SpokenIn, Requests
<1>3. Conversation
  BY <1>1, <1>2, NothingInEmpty DEF Conversation, BodyOk, Requests
<1>4. Parsing /\ Naming
  BY <1>1, <1>2, NothingInEmpty DEF Parsing, Naming, OfReply, OneRequestPerAsker
<1>5. \A x \in Exchanges : Logged(x)
  BY <1>1, NothingInEmpty DEF Logged, Requests
<1> QED BY <1>1, <1>3, <1>4, <1>5 DEF CorrelationInv

(* A line has one message, and junk beside it in a batch. *)
LEMMA OneMessage ==
    ASSUME NEW x, NEW set, NEW l \in LinesOf(x, set)
    PROVE  /\ \E m \in set \union {Junk} : Range(l.messages) \subseteq {m, Junk}
           /\ BodyOk(l)
<1>1. CASE l \in [form : Forms[x] \intersect {"single", "big"}, messages : {<<m>> : m \in set}]
  <2>1. PICK m \in set : l.messages = <<m>>
    BY <1>1
  <2>2. Range(l.messages) = {m} /\ l.messages[1] = m /\ l.form \in {"single", "big"}
    BY <1>1, <2>1 DEF Range
  <2> QED BY <2>2 DEF BodyOk
<1>2. CASE l \in [form : Forms[x] \intersect {"batch"}, messages : {<<m, Junk>> : m \in set}]
  <2>1. PICK m \in set : l.messages = <<m, Junk>>
    BY <1>2
  <2>2. Range(l.messages) = {m, Junk} /\ l.form = "batch"
    <3>1. DOMAIN l.messages = {1, 2} /\ l.messages[1] = m /\ l.messages[2] = Junk
      BY <2>1
    <3> QED BY <1>2, <3>1 DEF Range
  <2> QED BY <2>2 DEF BodyOk
<1>3. CASE l \in [form : {"single"}, messages : IF "junk" \in Forms[x] THEN {<<Junk>>} ELSE {}]
  <2>1. l.messages = <<Junk>> /\ l.form = "single"
    BY <1>3
  <2>2. Range(l.messages) = {Junk}
    BY <2>1 DEF Range
  <2> QED BY <2>1, <2>2 DEF BodyOk
<1> QED BY <1>1, <1>2, <1>3 DEF LinesOf

LEMMA RepliesAreReplies ==
    ASSUME TypeOK, NEW x \in Exchanges
    PROVE  /\ \A m \in Messages : Reply(m).kind = "reply" /\ Reply(m).id = m.id /\ Reply(m).call = m.call
           /\ \A m \in {Reply(r) : r \in AskedOfClient(x)} : m.kind = "reply"
           /\ \A m \in {Reply(r) : r \in AskedOfServer(x)} : m.kind = "reply"
<1>1. \A m \in Messages : Reply(m).kind = "reply" /\ Reply(m).id = m.id /\ Reply(m).call = m.call
  BY DEF Messages, Reply
<1> QED BY <1>1, AskedMessages

LEMMA WhatIsPosted ==
    ASSUME TypeOK, NEW x \in Exchanges, NEW l \in CanPost(x)
    PROVE  /\ BodyOk(l)
           /\ \A m, n \in Requests(Range(l.messages)) : m = n
           /\ \A m \in Requests(Range(l.messages)) : m.id \in IdsOf[x]
           /\ \A m \in Range(l.messages) : m.kind = "reply" => \E r \in AskedOfClient(x) : m = Reply(r)
<1> DEFINE set == [kind : {"request"}, id : IdsOf[x], call : ClientCalls]
                  \union ({Reply(m) : m \in AskedOfClient(x)} \ Posted(x))
<1>1. CASE l = [form |-> "none", messages |-> <<>>]
  BY <1>1, NothingInEmpty DEF BodyOk, Requests
<1>2. CASE l \in LinesOf(x, set)
  <2>1. BodyOk(l) /\ \E m \in set \union {Junk} : Range(l.messages) \subseteq {m, Junk}
    <3> HIDE DEF set
    <3> QED BY <1>2, OneMessage
  <2>2. PICK m \in set \union {Junk} : Range(l.messages) \subseteq {m, Junk}
    BY <2>1
  <2>3. Junk.kind = "junk"
    BY DEF Junk
  <2>4. m.kind = "request" => m.id \in IdsOf[x]
    BY <2>3, RepliesAreReplies
  <2>5. m.kind = "reply" => \E r \in AskedOfClient(x) : m = Reply(r)
    BY <2>3
  <2> QED BY <2>1, <2>2, <2>3, <2>4, <2>5 DEF Requests
<1> QED BY <1>1, <1>2 DEF CanPost

LEMMA WhatIsSaid ==
    ASSUME TypeOK, NEW x \in Exchanges, NEW l \in CanSay(x)
    PROVE  /\ \A m, n \in Requests(Range(l.messages)) : m = n
           /\ \A m \in Requests(Range(l.messages)) :
                 /\ m.id \in ServerIds
                 /\ \A y \in Exchanges : \A n \in MessagesIn(said[y]) : n.id # m.id
           /\ \A m \in Range(l.messages) : m.kind = "reply" => m \in Answers(x)
<1> DEFINE used == {m.id : m \in UNION {MessagesIn(said[y]) : y \in Exchanges}} \ {NoId}
           set == ({Reply(m) : m \in AskedOfServer(x)} \ SaidTo(x))
                  \union [kind : {"request"}, id : ServerIds \ used, call : ServerCalls]
<1>1. l \in LinesOf(x, set)
  BY DEF CanSay
<1>2. PICK m \in set \union {Junk} : Range(l.messages) \subseteq {m, Junk}
  <2> HIDE DEF set
  <2> QED BY <1>1, OneMessage
<1>3. Junk.kind = "junk"
  BY DEF Junk
<1>4. m.kind = "request" => m.id \in ServerIds \ used
  BY <1>3, RepliesAreReplies
<1>5. m.kind = "reply" => m \in Answers(x)
  BY <1>3 DEF Answers
<1>6. m.kind = "request" /\ m.id # NoId => \A y \in Exchanges : \A n \in MessagesIn(said[y]) : n.id # m.id
  BY <1>4
<1> QED BY <1>2, <1>3, <1>4, <1>5, <1>6 DEF Requests

LEMMA LineMore ==
    ASSUME NEW s \in Seq(Lines), NEW l
    PROVE  MessagesIn(Append(s, l)) = MessagesIn(s) \union Range(l.messages)
<1> DEFINE t == Append(s, l)
<1>1. /\ DOMAIN t = DOMAIN s \union {Len(s) + 1} /\ t[Len(s) + 1] = l
      /\ \A i \in DOMAIN s : t[i] = s[i]
  OBVIOUS
<1> HIDE DEF t
<1>2. \A m : m \in MessagesIn(t) <=> m \in MessagesIn(s) \/ m \in Range(l.messages)
  BY <1>1 DEF MessagesIn
<1> QED BY <1>2 DEF t

-----------------------------------------------------------------------------
(* Replies follow requests: what the steps of a handler do. *)

LEMMA PlaceMoves ==
    ASSUME IInv, NEW x \in Exchanges, [Next]_vars
    PROVE  \/ at'[x] = at[x]
           \/ at[x] = "idle" /\ at'[x] = "done" /\ ReadBodyFails(x)
           \/ at[x] = "idle" /\ at'[x] \in {"request", "send"} /\ Receive(x)
           \/ at[x] = "request" /\ at'[x] = "log" /\ Judge(x)
           \/ at[x] = "log" /\ at'[x] \in {"refuse", "send"} /\ RequestLogged(x)
           \/ at[x] \in {"refuse", "send", "wait"} /\ at'[x] = "done"
           \/ at[x] = "send" /\ at'[x] = "wait"
           \/ at[x] = "wait" /\ at'[x] = "stream"
           \/ at[x] = "stream" /\ at'[x] \in {"reply", "deliver"} /\ Read(x)
           \/ at[x] \in {"reply", "rest"} /\ at'[x] \in {"logReply", "logRest"} /\ ReplyParsed(x)
           \/ at[x] \in {"logReply", "logRest"} /\ at'[x] \in {"deliver", "done"}
           \/ at[x] = "deliver" /\ at'[x] \in {"done", "stream"}
           \/ at[x] \in {"stream", "deliver"} /\ at'[x] \in {"done", "rest"} /\ finish(x)
           \/ at'[x] = "done" /\ main' = "exited"
<1>1. at \in [Exchanges -> Places]
  BY DEF IInv, TypeOK, Places
<1>2. CASE Handler(x)
  <2>1. \A place : Go(x, place) => at'[x] = place
    BY <1>1 DEF Go
  <2>2. CASE ReadBodyFails(x) \/ Receive(x) \/ ParseMessage(x) \/ Judge(x) \/ Dispatch(x) \/ RequestLogged(x)
    BY <2>1, <2>2 DEF ReadBodyFails, Receive, ParseMessage, Judge, Dispatch, RequestLogged
  <2>3. CASE writeDenial(x) \/ Forward(x) \/ handleUpstreamError(x) \/ modifyResponse(x)
    BY <2>1, <2>3 DEF writeDenial, Forward, handleUpstreamError, modifyResponse
  <2>4. CASE Read(x)
    BY <2>1, <2>4 DEF Read, ReadLine, ReadUntapped, ReadOverLimit, ReadComplete, ReadHeld
  <2>5. CASE ReplyParsed(x) \/ ReplyLogged(x) \/ Deliver(x) \/ finish(x)
    BY <2>1, <2>5 DEF ReplyParsed, ReplyLogged, Deliver, finish
  <2> QED BY <1>2, <2>2, <2>3, <2>4, <2>5 DEF Handler
<1>3. ASSUME NEW y \in Exchanges, y # x, Handler(y) PROVE at'[x] = at[x]
  BY <1>3, OtherExchanges
<1>4. CASE Interrupt \/ ServeFails \/ ShutdownCompletes \/ ShutdownTimesOut \/ ProcessExits \/ UNCHANGED vars
  BY <1>4 DEF Interrupt, ServeFails, ShutdownCompletes, ShutdownTimesOut, ProcessExits, Main, vars
<1> QED BY <1>2, <1>3, <1>4 DEF Next

LEMMA ReceiveMoves ==
    ASSUME IInv, NEW x \in Exchanges, Receive(x)
    PROVE  /\ UNCHANGED <<said, held, serverGot, clientGot, pending, audit, main, dispatched>>
           /\ at[x] = "idle"
           /\ \E l \in CanPost(x) :
                /\ body' = [body EXCEPT ![x] = l] /\ body'[x] = l
                /\ \/ at'[x] = "request" /\ todo'[x] = l.messages /\ events'[x] = <<>>
                   \/ at'[x] = "send" /\ ~Audited(l) /\ todo'[x] = todo[x] /\ events'[x] = events[x]
<1>1. /\ at \in [Exchanges -> Places] /\ DOMAIN body = Exchanges
      /\ DOMAIN todo = Exchanges /\ DOMAIN events = Exchanges
  BY DEF IInv, TypeOK, Places, Icpt!TypeOK
<1>2. PICK l \in CanPost(x) :
        /\ body' = [body EXCEPT ![x] = l]
        /\ \/ Audited(l) /\ Icpt!ParseBegin(x, l.messages) /\ Go(x, "request")
           \/ ~Audited(l) /\ UNCHANGED interceptorVars /\ Go(x, "send")
  BY DEF Receive
<1>3. UNCHANGED <<said, held, serverGot, clientGot, audit, main, dispatched>> /\ at[x] = "idle"
  BY DEF Receive, tapVars, worldVars
<1>4. CASE Icpt!ParseBegin(x, l.messages) /\ Go(x, "request")
  <2>1. at'[x] = "request" /\ todo'[x] = l.messages /\ events'[x] = <<>> /\ UNCHANGED pending
    BY <1>1, <1>4 DEF Icpt!ParseBegin, Go
  <2> QED BY <1>1, <1>2, <1>3, <2>1
<1>5. CASE ~Audited(l) /\ UNCHANGED interceptorVars /\ Go(x, "send")
  <2>1. at'[x] = "send" /\ UNCHANGED <<todo, events, pending>>
    BY <1>1, <1>5 DEF interceptorVars, Go
  <2> QED BY <1>1, <1>2, <1>3, <1>5, <2>1
<1> QED BY <1>2, <1>4, <1>5

LEMMA ReadMoves ==
    ASSUME IInv, NEW x \in Exchanges, Read(x)
    PROVE  /\ UNCHANGED <<body, serverGot, clientGot, pending, audit, main>>
           /\ at[x] = "stream" /\ \A y \in Exchanges \ {x} : held'[y] = held[y]
           /\ \E l \in CanSay(x) :
                /\ said' = [said EXCEPT ![x] = Append(@, l)] /\ said'[x] = Append(said[x], l)
                /\ held'[x] = held[x] \/ held'[x] = <<l>>
                /\ \/ at'[x] = "reply" /\ todo'[x] = l.messages /\ events'[x] = <<>>
                   \/ at'[x] = "deliver" /\ todo'[x] = todo[x] /\ events'[x] = events[x]
<1>1. /\ at \in [Exchanges -> Places] /\ DOMAIN said = Exchanges
      /\ DOMAIN todo = Exchanges /\ DOMAIN events = Exchanges /\ DOMAIN held = Exchanges
  BY DEF IInv, TypeOK, Places, Icpt!TypeOK
<1>2. PICK l \in CanSay(x) :
        /\ ReadLine(x, l)
        /\ ReadUntapped(x, l) \/ ReadOverLimit(x, l) \/ ReadComplete(x, l) \/ ReadHeld(x, l)
  BY DEF Read
<1>3. /\ UNCHANGED <<body, serverGot, clientGot, audit, main>> /\ at[x] = "stream"
      /\ said' = [said EXCEPT ![x] = Append(@, l)] /\ said'[x] = Append(said[x], l)
  BY <1>1, <1>2 DEF ReadLine, worldVars
<1>4. CASE ReadComplete(x, l)
  <2>1. at'[x] = "reply" /\ todo'[x] = l.messages /\ events'[x] = <<>> /\ UNCHANGED <<held, pending>>
    BY <1>1, <1>4 DEF ReadComplete, Icpt!ParseBegin, Go
  <2> QED BY <1>3, <2>1
<1>5. CASE ReadUntapped(x, l) \/ ReadOverLimit(x, l) \/ ReadHeld(x, l)
  <2>1. at'[x] = "deliver" /\ UNCHANGED <<todo, events, pending>>
    BY <1>1, <1>5 DEF ReadUntapped, ReadOverLimit, ReadHeld, interceptorVars, Go
  <2>2. held' = held \/ held' = [held EXCEPT ![x] = <<l>>]
    BY <1>5 DEF ReadUntapped, ReadOverLimit, ReadHeld
  <2>3. (held'[x] = held[x] \/ held'[x] = <<l>>) /\ \A y \in Exchanges \ {x} : held'[y] = held[y]
    BY <1>1, <2>2
  <2> QED BY <1>3, <2>1, <2>3
<1> QED BY <1>2, <1>4, <1>5

LEMMA WhoSpeaks ==
    ASSUME [Next]_vars
    PROVE  /\ UNCHANGED <<body, said>> \/ \E x \in Exchanges : Receive(x) \/ Read(x)
           /\ serverGot \subseteq serverGot'
<1>1. CASE UNCHANGED vars \/ Interrupt \/ ServeFails \/ ShutdownCompletes \/ ShutdownTimesOut \/ ProcessExits
  BY <1>1 DEF vars, Interrupt, ServeFails, ShutdownCompletes, ShutdownTimesOut, ProcessExits, Main, tapVars, worldVars
<1>2. ASSUME NEW x \in Exchanges, Handler(x)
      PROVE  /\ UNCHANGED <<body, said>> \/ Receive(x) \/ Read(x)
             /\ serverGot \subseteq serverGot'
  BY <1>2 DEF Handler, ReadBodyFails, Receive, ParseMessage, Judge, Dispatch, RequestLogged, writeDenial, Forward,
     handleUpstreamError, modifyResponse, Read, ReadLine, ReplyParsed, ReplyLogged, Deliver, finish, worldVars, tapVars
<1> QED BY <1>1, <1>2 DEF Next

(* What a step adds to what has been spoken. *)
LEMMA SpokenMore ==
    ASSUME IInv, Conversation, NEW x \in Exchanges, Receive(x) \/ Read(x)
    PROVE  \E l \in Lines :
              /\ (Receive(x) /\ l \in CanPost(x)) \/ (Read(x) /\ l \in CanSay(x))
              /\ Receive(x) => body'[x] = l /\ MessagesIn(said'[x]) = MessagesIn(said[x])
              /\ Read(x) => body'[x] = body[x] /\ MessagesIn(said'[x]) = MessagesIn(said[x]) \union Range(l.messages)
              /\ \A y \in Exchanges \ {x} : body'[y] = body[y] /\ said'[y] = said[y]
              /\ Posed' = Posed \union Requests(Range(l.messages))
<1>1. said[x] \in Seq(Lines) /\ DOMAIN said = Exchanges /\ DOMAIN body = Exchanges /\ TypeOK
  BY DEF IInv, TypeOK
<1>2. ASSUME NEW l, SpokenIn(x)' = SpokenIn(x) \union Range(l.messages),
             \A y \in Exchanges \ {x} : SpokenIn(y)' = SpokenIn(y)
      PROVE  Posed' = Posed \union Requests(Range(l.messages))
  <2>1. \A m : m \in UNION {SpokenIn(y)' : y \in Exchanges} <=>
               m \in UNION {SpokenIn(y) : y \in Exchanges} \/ m \in Range(l.messages)
    BY <1>2
  <2> QED BY <2>1 DEF Posed, Requests
<1>3. CASE Receive(x)
  <2>1. PICK l \in CanPost(x) : body' = [body EXCEPT ![x] = l] /\ body'[x] = l
    BY <1>3, ReceiveMoves
  <2>2. said' = said /\ at[x] = "idle" /\ ~Read(x)
    BY <1>3, ReceiveMoves DEF Read, ReadLine
  <2>3. \A y \in Exchanges \ {x} : body'[y] = body[y] /\ said'[y] = said[y]
    BY <1>1, <2>1, <2>2
  <2>4. body[x].messages = <<>>
    BY <2>2 DEF Conversation
  <2>5. SpokenIn(x)' = SpokenIn(x) \union Range(l.messages)
    BY <2>1, <2>2, <2>4, NothingInEmpty DEF SpokenIn
  <2>6. \A y \in Exchanges \ {x} : SpokenIn(y)' = SpokenIn(y)
    BY <2>3 DEF SpokenIn
  <2>7. l \in Lines
    BY <1>1, PostedLines
  <2> QED BY <1>2, <1>3, <2>1, <2>2, <2>3, <2>5, <2>6, <2>7
<1>4. CASE Read(x)
  <2>1. PICK l \in CanSay(x) : said' = [said EXCEPT ![x] = Append(@, l)] /\ said'[x] = Append(said[x], l)
    BY <1>4, ReadMoves
  <2>2. body' = body /\ at[x] = "stream" /\ ~Receive(x)
    BY <1>4, ReadMoves DEF Receive
  <2>3. \A y \in Exchanges \ {x} : body'[y] = body[y] /\ said'[y] = said[y]
    BY <1>1, <2>1, <2>2
  <2>4. MessagesIn(said'[x]) = MessagesIn(said[x]) \union Range(l.messages)
    BY <1>1, <2>1, LineMore
  <2>5. SpokenIn(x)' = SpokenIn(x) \union Range(l.messages)
    BY <2>2, <2>4 DEF SpokenIn
  <2>6. \A y \in Exchanges \ {x} : SpokenIn(y)' = SpokenIn(y)
    BY <2>3 DEF SpokenIn
  <2>7. l \in Lines
    BY <1>1, SaidLines
  <2> QED BY <1>2, <1>4, <2>1, <2>2, <2>3, <2>4, <2>5, <2>6, <2>7
<1> QED BY <1>3, <1>4

LEMMA SpokenStays ==
    ASSUME IInv, Conversation, [Next]_vars
    PROVE  /\ Posed \subseteq Posed'
           /\ \A m : Genuine(m) => Genuine(m)'
           /\ \A x \in Exchanges : Answers(x) \subseteq Answers(x)'
           /\ \A x \in Exchanges : at[x] # "idle" => body'[x] = body[x]
           /\ \A x \in Exchanges : MessagesIn(said[x]) \subseteq MessagesIn(said'[x])
<1>1. CASE UNCHANGED <<body, said>>
  <2>1. Posed' = Posed
    BY <1>1 DEF Posed, SpokenIn
  <2>2. \A x \in Exchanges : AskedOfServer(x) \subseteq AskedOfServer(x)'
    BY <1>1, WhoSpeaks DEF AskedOfServer, Requests, Mine
  <2> QED BY <1>1, <2>1, <2>2 DEF Genuine, Answers
<1>2. ASSUME NEW z \in Exchanges, Receive(z) \/ Read(z)
      PROVE  /\ Posed \subseteq Posed'
             /\ \A m : Genuine(m) => Genuine(m)'
             /\ \A x \in Exchanges : Answers(x) \subseteq Answers(x)'
             /\ \A x \in Exchanges : at[x] # "idle" => body'[x] = body[x]
             /\ \A x \in Exchanges : MessagesIn(said[x]) \subseteq MessagesIn(said'[x])
  <2>1. PICK l \in Lines :
          /\ Receive(z) => body'[z] = l /\ MessagesIn(said'[z]) = MessagesIn(said[z])
          /\ Read(z) => body'[z] = body[z] /\ MessagesIn(said'[z]) = MessagesIn(said[z]) \union Range(l.messages)
          /\ \A y \in Exchanges \ {z} : body'[y] = body[y] /\ said'[y] = said[y]
          /\ Posed' = Posed \union Requests(Range(l.messages))
    BY <1>2, SpokenMore
  <2>2. \A x \in Exchanges : at[x] # "idle" => body'[x] = body[x]
    BY <1>2, <2>1 DEF Receive
  <2>3. \A x \in serverGot : x \in serverGot' /\ body'[x] = body[x]
    BY <2>2, WhoSpeaks DEF Conversation, IInv, TypeOK
  <2>4. \A x \in Exchanges : AskedOfServer(x) \subseteq AskedOfServer(x)'
    BY <2>3 DEF AskedOfServer, Requests, Mine
  <2>5. \A x \in Exchanges : MessagesIn(said[x]) \subseteq MessagesIn(said'[x])
    BY <1>2, <2>1
  <2> QED BY <2>1, <2>2, <2>4, <2>5 DEF Genuine, Answers
<1> QED BY <1>1, <1>2, WhoSpeaks

LEMMA AskedArePosed ==
    ASSUME IInv, Conversation, NEW x \in Exchanges
    PROVE  AskedOfServer(x) \subseteq Posed /\ AskedOfClient(x) \subseteq Posed
<1>1. AskedOfServer(x) \subseteq Posed
  BY DEF AskedOfServer, Posed, SpokenIn, Requests, Mine
<1>2. \A y \in Exchanges : Requests(MessagesIn(clientGot[y])) \subseteq Posed
  BY DEF Conversation
<1>3. AskedOfClient(x) \subseteq Posed
  BY <1>2 DEF AskedOfClient, Requests, Mine
<1> QED BY <1>1, <1>3

LEMMA AskedIsPosed == \A id : Asked(id) = {r \in Posed : r.id = id}
BY DEF Asked, Posed, SpokenIn, Requests

(* Who has asked under an id, and with what, is never forgotten. *)
LEMMA AskedStays ==
    ASSUME IInv, Conversation, [Next]_vars
    PROVE  /\ \A x \in Exchanges : \A id : AskedIn(x, id) => AskedIn(x, id)'
           /\ \A id : AskedByServer(id) => AskedByServer(id)'
           /\ \A id : AskedBySeveral(id) => AskedBySeveral(id)'
           /\ \A id : Asked(id) \subseteq Asked(id)'
<1>1. ASSUME NEW x \in Exchanges, NEW id, AskedIn(x, id) PROVE AskedIn(x, id)'
  <2>1. at[x] # "idle"
    BY <1>1, NothingInEmpty DEF AskedIn, Requests, Conversation
  <2> QED BY <1>1, <2>1, SpokenStays DEF AskedIn
<1>2. \A id : AskedByServer(id) => AskedByServer(id)'
  BY SpokenStays DEF AskedByServer, Requests
<1>3. \A id : AskedBySeveral(id) => AskedBySeveral(id)'
  BY <1>1, <1>2 DEF AskedBySeveral, Mine
<1>4. \A id : Asked(id) \subseteq Asked(id)'
  <2>1. \A id : Asked(id)' = {r \in Posed' : r.id = id}
    BY DEF Asked, Posed, SpokenIn, Requests
  <2> QED BY <2>1, AskedIsPosed, SpokenStays
<1> QED BY <1>1, <1>2, <1>3, <1>4

(* A new request has a new id, or somebody else has used it. *)
LEMMA IdsStayUnique ==
    ASSUME IInv, Conversation, OneRequestPerAsker, [Next]_vars
    PROVE  OneRequestPerAsker'
<1>1. \A id : AskedBySeveral(id) => AskedBySeveral(id)'
  BY AskedStays
<1>2. CASE UNCHANGED <<body, said>>
  <2>1. Posed' = Posed
    BY <1>2 DEF Posed, SpokenIn
  <2> QED BY <1>1, <2>1 DEF OneRequestPerAsker
<1>3. ASSUME NEW x \in Exchanges, Receive(x) \/ Read(x)
      PROVE  OneRequestPerAsker'
  <2>1. PICK l \in Lines :
          /\ (Receive(x) /\ l \in CanPost(x)) \/ (Read(x) /\ l \in CanSay(x))
          /\ Receive(x) => body'[x] = l
          /\ Read(x) => MessagesIn(said'[x]) = MessagesIn(said[x]) \union Range(l.messages)
          /\ Posed' = Posed \union Requests(Range(l.messages))
    BY <1>3, SpokenMore
  <2>2. \A m, n \in Requests(Range(l.messages)) : m = n
    BY <2>1, WhatIsPosted, WhatIsSaid DEF IInv
  <2>3. ASSUME NEW n \in Requests(Range(l.messages)), NEW r \in Posed, r.id = n.id
        PROVE  AskedBySeveral(n.id)'
    <3>1. n.id # NoId
      BY DEF Requests
    <3>2. PICK y \in Exchanges : r \in Requests(Range(body[y].messages)) \/ r \in Requests(MessagesIn(said[y]))
      BY DEF Posed, SpokenIn, Requests
    <3>3. /\ r \in Requests(Range(body[y].messages)) => r.id \in IdsOf[y] /\ AskedIn(y, r.id)'
          /\ r \in Requests(MessagesIn(said[y])) => AskedByServer(r.id)'
      <4>1. r \in Requests(Range(body[y].messages)) => r.id \in IdsOf[y] /\ AskedIn(y, r.id)
        BY DEF Conversation, AskedIn
      <4>2. r \in Requests(MessagesIn(said[y])) => AskedByServer(r.id)
        BY DEF AskedByServer
      <4> QED BY <4>1, <4>2, AskedStays
    <3>4. CASE Receive(x) /\ l \in CanPost(x)
      <4>1. n.id \in IdsOf[x] /\ AskedIn(x, n.id)'
        BY <2>1, <3>4, WhatIsPosted DEF IInv, AskedIn
      <4>2. body[x].messages = <<>>
        BY <3>4, ReceiveMoves DEF Conversation
      <4>3. r \in Requests(Range(body[y].messages)) => y # x
        BY <4>2, NothingInEmpty DEF Requests
      <4>4. r \in Requests(Range(body[y].messages)) => y \notin Mine(x)
        BY <2>3, <3>1, <3>3, <4>1, <4>3, HttpProxyAssumption DEF Mine
      <4> QED BY <2>3, <3>2, <3>3, <4>1, <4>4 DEF AskedBySeveral, Mine
    <3>5. CASE Read(x) /\ l \in CanSay(x)
      <4>1. \A m \in MessagesIn(said[y]) : m.id # n.id
        BY <3>5, WhatIsSaid DEF IInv
      <4>2. r \in Requests(Range(body[y].messages))
        BY <2>3, <3>2, <4>1 DEF Requests
      <4>3. AskedByServer(n.id)'
        BY <2>1, <3>5 DEF AskedByServer, Requests
      <4> QED BY <2>3, <3>3, <4>2, <4>3 DEF AskedBySeveral
    <3> QED BY <2>1, <3>4, <3>5
  <2>4. ASSUME NEW r \in Posed', NEW s \in Posed', r.id = s.id PROVE r = s \/ AskedBySeveral(r.id)'
    <3>1. CASE r \in Posed /\ s \in Posed
      BY <1>1, <2>4, <3>1 DEF OneRequestPerAsker
    <3> QED BY <2>1, <2>2, <2>3, <2>4, <3>1
  <2> QED BY <2>4 DEF OneRequestPerAsker
<1> QED BY <1>2, <1>3, WhoSpeaks

(* What a step may do to the record of one exchange. *)
LEMMA OwnMoves ==
    ASSUME IInv, [Next]_vars, NEW y \in Exchanges
    PROVE  /\ body'[y] = body[y] \/ Receive(y)
           /\ said'[y] = said[y] \/ Read(y)
           /\ held'[y] \in {held[y], <<>>} \/ Read(y)
           /\ y \in serverGot' => y \in serverGot \/ at'[y] = "wait"
           /\ \/ clientGot'[y] = clientGot[y]
              \/ \E id : clientGot'[y] = Append(clientGot[y],
                    [form |-> "error", messages |-> <<[kind |-> "reply", id |-> id, call |-> NoCall]>>])
              \/ at[y] = "deliver" /\ clientGot'[y] = Append(clientGot[y], Last(said[y]))
<1>1. /\ at \in [Exchanges -> Places] /\ DOMAIN body = Exchanges /\ DOMAIN said = Exchanges
      /\ DOMAIN held = Exchanges /\ DOMAIN clientGot = Exchanges
  BY DEF IInv, TypeOK, Places
<1>2. CASE UNCHANGED vars \/ Interrupt \/ ServeFails \/ ShutdownCompletes \/ ShutdownTimesOut \/ ProcessExits
  BY <1>2 DEF vars, Interrupt, ServeFails, ShutdownCompletes, ShutdownTimesOut, ProcessExits, Main, tapVars, worldVars
<1>3. ASSUME NEW x \in Exchanges, Handler(x), x # y
      PROVE  /\ body'[y] = body[y] /\ said'[y] = said[y] /\ held'[y] = held[y]
             /\ clientGot'[y] = clientGot[y] /\ (y \in serverGot' => y \in serverGot)
  <2>1. held'[y] = held[y]
    BY <1>1, <1>3 DEF Handler, ReadBodyFails, Receive, ParseMessage, Judge, Dispatch, RequestLogged, writeDenial,
       Forward, handleUpstreamError, modifyResponse, Read, ReadLine, ReadUntapped, ReadOverLimit, ReadComplete,
       ReadHeld, ReplyParsed, ReplyLogged, Deliver, finish, tapVars
  <2> QED BY <1>3, <2>1, OtherExchanges
<1>4. ASSUME Handler(y)
      PROVE  /\ body'[y] = body[y] \/ Receive(y)
             /\ said'[y] = said[y] \/ Read(y)
             /\ held'[y] \in {held[y], <<>>} \/ Read(y)
             /\ y \in serverGot' => y \in serverGot \/ at'[y] = "wait"
  BY <1>1, <1>4 DEF Handler, ReadBodyFails, ParseMessage, Judge, Dispatch, RequestLogged, writeDenial,
     Forward, handleUpstreamError, modifyResponse, Read, ReadLine, Receive, ReplyParsed, ReplyLogged,
     Deliver, finish, tapVars, worldVars, Go
<1>5. ASSUME Handler(y)
      PROVE  \/ clientGot'[y] = clientGot[y]
             \/ \E id : clientGot'[y] = Append(clientGot[y],
                   [form |-> "error", messages |-> <<[kind |-> "reply", id |-> id, call |-> NoCall]>>])
             \/ at[y] = "deliver" /\ clientGot'[y] = Append(clientGot[y], Last(said[y]))
  <2>1. ASSUME NEW id, Answer(y, id)
        PROVE  clientGot'[y] = Append(clientGot[y],
                   [form |-> "error", messages |-> <<[kind |-> "reply", id |-> id, call |-> NoCall]>>])
    BY <1>1, <2>1 DEF Answer
  <2>2. CASE \E id : Answer(y, id)
    BY <2>1, <2>2
  <2>3. CASE Deliver(y)
    BY <1>1, <2>3 DEF Deliver
  <2>4. CASE UNCHANGED clientGot
    BY <2>4
  <2> QED BY <1>5, <2>2, <2>3, <2>4 DEF Handler, ReadBodyFails, Receive, ParseMessage, Judge, Dispatch, RequestLogged,
     writeDenial, Forward, handleUpstreamError, modifyResponse, Read, ReadLine, ReplyParsed, ReplyLogged,
     finish, worldVars
<1> QED BY <1>2, <1>3, <1>4, <1>5 DEF Next

(* The client gets the line in hand, or an error from the proxy. *)
LEMMA ClientHears ==
    ASSUME IInv, [Next]_vars, NEW y \in Exchanges
    PROVE  Requests(MessagesIn(clientGot'[y])) \subseteq
               Requests(MessagesIn(clientGot[y])) \union Requests(MessagesIn(said[y]))
<1>1. clientGot[y] \in Seq(Lines) /\ said[y] \in Seq(Lines)
  BY DEF IInv, TypeOK
<1>2. ASSUME NEW l, clientGot'[y] = Append(clientGot[y], l),
             Requests(Range(l.messages)) \subseteq Requests(MessagesIn(said[y]))
      PROVE  Requests(MessagesIn(clientGot'[y])) \subseteq
               Requests(MessagesIn(clientGot[y])) \union Requests(MessagesIn(said[y]))
  <2>1. MessagesIn(clientGot'[y]) = MessagesIn(clientGot[y]) \union Range(l.messages)
    BY <1>1, <1>2, LineMore
  <2> QED BY <1>2, <2>1 DEF Requests
<1>3. ASSUME NEW id, clientGot'[y] = Append(clientGot[y],
             [form |-> "error", messages |-> <<[kind |-> "reply", id |-> id, call |-> NoCall]>>])
      PROVE  Requests(MessagesIn(clientGot'[y])) \subseteq
               Requests(MessagesIn(clientGot[y])) \union Requests(MessagesIn(said[y]))
  <2> DEFINE m == [kind |-> "reply", id |-> id, call |-> NoCall]
             l == [form |-> "error", messages |-> <<m>>]
  <2>1. Range(l.messages) = {m} /\ m.kind = "reply"
    BY DEF Range
  <2>2. clientGot'[y] = Append(clientGot[y], l)
    BY <1>3
  <2>3. Requests(Range(l.messages)) = {}
    BY <2>1 DEF Requests
  <2> HIDE DEF l
  <2> QED BY <1>2, <2>2, <2>3
<1>4. CASE at[y] = "deliver" /\ clientGot'[y] = Append(clientGot[y], Last(said[y]))
  <2>1. PICK l \in Lines : said[y] = Append(clientGot[y], l)
    BY <1>4 DEF IInv, Served, OneBehind
  <2>2. Last(said[y]) = l
    BY <1>1, <2>1, AppendProperties, LenProperties DEF Last
  <2>3. MessagesIn(said[y]) = MessagesIn(clientGot[y]) \union Range(l.messages)
    BY <1>1, <2>1, LineMore
  <2>4. Requests(Range(l.messages)) \subseteq Requests(MessagesIn(said[y]))
    BY <2>3 DEF Requests
  <2> QED BY <1>2, <1>4, <2>2, <2>4
<1> QED BY <1>3, <1>4, OwnMoves

LEMMA ConversationKept ==
    ASSUME IInv, Conversation, [Next]_vars
    PROVE  Conversation'
<1>2. /\ Posed \subseteq Posed'
      /\ \A m : Genuine(m) => Genuine(m)'
      /\ \A x \in Exchanges : Answers(x) \subseteq Answers(x)'
      /\ \A x \in Exchanges : MessagesIn(said[x]) \subseteq MessagesIn(said'[x])
  BY SpokenStays
<1>3. ASSUME NEW y \in Exchanges
      PROVE  /\ BodyOk(body'[y])
             /\ at'[y] = "idle" => body'[y].form = "none" /\ body'[y].messages = <<>>
             /\ \A m \in Range(body'[y].messages) : Genuine(m)'
             /\ \A m \in Requests(Range(body'[y].messages)) : m.id \in IdsOf[y]
  <2>1. CASE Receive(y)
    <3>1. PICK l \in Lines :
            /\ (Receive(y) /\ l \in CanPost(y)) \/ (Read(y) /\ l \in CanSay(y))
            /\ Receive(y) => body'[y] = l
            /\ Posed' = Posed \union Requests(Range(l.messages))
      BY <2>1, SpokenMore
    <3>2. ~Read(y) /\ at'[y] # "idle"
      BY <2>1, ReceiveMoves DEF Read, ReadLine
    <3>3. /\ BodyOk(l)
          /\ \A m \in Requests(Range(l.messages)) : m.id \in IdsOf[y]
          /\ \A m \in Range(l.messages) : m.kind = "reply" => \E r \in AskedOfClient(y) : m = Reply(r)
      BY <3>1, <3>2, WhatIsPosted DEF IInv
    <3>4. ASSUME NEW m \in Range(l.messages) PROVE Genuine(m)'
      <4>1. m.kind = "request" /\ m.id # NoId => m \in Posed'
        BY <3>1 DEF Requests
      <4>2. m.kind = "reply" => \E r \in Posed' : m = Reply(r)
        BY <1>2, <3>3, AskedArePosed
      <4> QED BY <4>1, <4>2 DEF Genuine
    <3> QED BY <2>1, <3>1, <3>2, <3>3, <3>4
  <2>2. CASE body'[y] = body[y]
    <3>1. at'[y] = "idle" => at[y] = "idle"
      BY PlaceMoves
    <3> QED BY <1>2, <2>2, <3>1 DEF Conversation
  <2> QED BY <2>1, <2>2, OwnMoves
<1>4. ASSUME NEW y \in Exchanges
      PROVE  y \in serverGot' => at'[y] \notin {"idle", "request", "log", "refuse", "send"}
  <2>1. y \in serverGot => at[y] \notin {"idle", "request", "log", "refuse", "send"}
    BY DEF Conversation
  <2>2. y \in serverGot => at'[y] \notin {"idle", "request", "log", "refuse", "send"}
    BY <2>1, PlaceMoves
  <2> QED BY <2>2, OwnMoves
<1>5. ASSUME NEW y \in Exchanges
      PROVE  /\ \A m \in MessagesIn(said'[y]) : Genuine(m)' /\ (m.kind = "reply" => m \in Answers(y)')
             /\ \A m \in Requests(MessagesIn(said'[y])) : m.id \in ServerIds
             /\ MessagesIn(held'[y]) \subseteq MessagesIn(said'[y])
  <2>1. CASE Read(y)
    <3>1. PICK l \in CanSay(y) :
            /\ said'[y] = Append(said[y], l)
            /\ held'[y] = held[y] \/ held'[y] = <<l>>
      BY <2>1, ReadMoves
    <3>2. said[y] \in Seq(Lines) /\ l \in Lines
      BY SaidLines DEF IInv, TypeOK
    <3>3. MessagesIn(said'[y]) = MessagesIn(said[y]) \union Range(l.messages)
      BY <3>1, <3>2, LineMore
    <3>4. /\ \A m \in Requests(Range(l.messages)) : m.id \in ServerIds
          /\ \A m \in Range(l.messages) : m.kind = "reply" => m \in Answers(y)
      BY WhatIsSaid DEF IInv
    <3>5. ASSUME NEW m \in Range(l.messages) PROVE Genuine(m)' /\ (m.kind = "reply" => m \in Answers(y)')
      <4>1. m.kind = "request" /\ m.id # NoId => m \in Posed'
        BY <3>3 DEF Posed, SpokenIn, Requests
      <4>2. m.kind = "reply" => m \in Answers(y)' /\ \E r \in Posed' : m = Reply(r)
        BY <1>2, <3>4, AskedArePosed DEF Answers
      <4> QED BY <4>1, <4>2 DEF Genuine
    <3>6. MessagesIn(held'[y]) \subseteq MessagesIn(said'[y])
      <4>1. MessagesIn(<<l>>) = Range(l.messages)
        <5>1. DOMAIN <<l>> = {1} /\ <<l>>[1] = l
          OBVIOUS
        <5> QED BY <5>1 DEF MessagesIn
      <4> QED BY <3>1, <3>3, <4>1 DEF Conversation
    <3>7. \A m \in MessagesIn(said[y]) : Genuine(m)' /\ (m.kind = "reply" => m \in Answers(y)')
      BY <1>2 DEF Conversation
    <3>8. \A m \in Requests(MessagesIn(said'[y])) : m.id \in ServerIds
      BY <3>3, <3>4 DEF Conversation, Requests
    <3> QED BY <3>3, <3>5, <3>6, <3>7, <3>8
  <2>2. CASE said'[y] = said[y] /\ held'[y] \in {held[y], <<>>}
    BY <1>2, <2>2, NothingInEmpty DEF Conversation
  <2> QED BY <2>1, <2>2, OwnMoves
<1>6. ASSUME NEW y \in Exchanges PROVE Requests(MessagesIn(clientGot'[y])) \subseteq Posed'
  <2>1. Requests(MessagesIn(said[y])) \subseteq Posed /\ Requests(MessagesIn(clientGot[y])) \subseteq Posed
    BY DEF Conversation, Posed, SpokenIn, Requests
  <2> QED BY <1>2, <2>1, ClientHears
<1> QED BY <1>3, <1>4, <1>5, <1>6 DEF Conversation

-----------------------------------------------------------------------------
(* Replies follow requests: what is parsed and what the table holds. *)

LEMMA TailIsPart ==
    ASSUME NEW S, NEW s \in Seq(S), s # <<>>
    PROVE  Range(s) = {Head(s)} \union Range(Tail(s))
<1>1. Len(Tail(s)) = Len(s) - 1 /\ Head(s) = s[1] /\ Len(s) \in Nat /\ Len(s) > 0
  OBVIOUS
<1>2. DOMAIN s = 1..Len(s) /\ DOMAIN Tail(s) = 1..(Len(s) - 1)
  BY <1>1
<1>3. \A i \in 1..(Len(s) - 1) : Tail(s)[i] = s[i + 1]
  BY HeadTailProperties
<1>4. ASSUME NEW i \in DOMAIN Tail(s) PROVE Tail(s)[i] \in Range(s)
  <2>1. i + 1 \in DOMAIN s
    BY <1>1, <1>2
  <2> QED BY <1>2, <1>3, <2>1 DEF Range
<1>5. ASSUME NEW i \in DOMAIN s PROVE s[i] \in {Head(s)} \union Range(Tail(s))
  <2>1. CASE i = 1
    BY <1>1, <2>1
  <2>2. CASE i > 1
    <3>1. i - 1 \in DOMAIN Tail(s) /\ Tail(s)[i - 1] = s[i]
      BY <1>1, <1>2, <1>3, <2>2
    <3> QED BY <3>1 DEF Range
  <2> QED BY <1>1, <1>2, <2>1, <2>2
<1>6. Head(s) \in Range(s)
  BY <1>1, <1>2 DEF Range
<1>7. \A m : m \in Range(s) => m \in {Head(s)} \union Range(Tail(s))
  BY <1>5 DEF Range
<1>8. \A m : m \in Range(Tail(s)) => m \in Range(s)
  BY <1>4 DEF Range
<1> QED BY <1>6, <1>7, <1>8

LEMMA RangeMore ==
    ASSUME NEW S, NEW s \in Seq(S), NEW e
    PROVE  Range(Append(s, e)) = Range(s) \union {e}
<1> DEFINE t == Append(s, e)
<1>1. /\ DOMAIN t = DOMAIN s \union {Len(s) + 1} /\ t[Len(s) + 1] = e
      /\ \A i \in DOMAIN s : t[i] = s[i]
  OBVIOUS
<1> HIDE DEF t
<1>2. \A x : x \in Range(t) <=> x \in Range(s) \/ x = e
  BY <1>1 DEF Range
<1> QED BY <1>2 DEF t

Emits(x, m, call) == events'[x] = Append(events[x], [message |-> m, call |-> call])
Takes(m) == \A i \in Ids : pending'[i] \in {NoCall, pending[i]} \/ (i = m.id /\ pending'[i] = m.call)

(* What reading one message m does. *)
Reads(x, m) ==
    /\ Range(todo[x]) = {m} \union Range(todo'[x])
    /\ \/ m \in Requests(Messages) /\ Takes(m) /\ Emits(x, m, m.call)
       \/ /\ m.kind = "reply" /\ \A i \in Ids : pending'[i] \in {NoCall, pending[i]}
          /\ Emits(x, m, IF m.id \in Ids THEN pending[m.id] ELSE NoCall)
       \/ /\ m.kind # "reply" /\ m \notin Requests(Messages) /\ UNCHANGED pending
          /\ events'[x] = events[x] \/ Emits(x, m, m.call)

LEMMA ParseReads ==
    ASSUME IInv, NEW x \in Exchanges, Icpt!parseOne(x)
    PROVE  \E m \in Messages : Reads(x, m)
<1>1. PICK m \in Icpt!Messages :
        /\ Icpt!Reading(x, m)
        /\ \/ Icpt!Request(x, m) \/ Icpt!Notification(x, m)
           \/ Icpt!ReplyToKnown(x, m) \/ Icpt!ReplyToUnknown(x, m) \/ Icpt!Junk(x, m)
  BY DEF Icpt!parseOne
<1>2. /\ todo \in [Exchanges -> Seq(Messages)] /\ pending \in [Ids -> Calls \union {NoCall}]
      /\ DOMAIN events = Exchanges
  BY DEF IInv, TypeOK, Icpt!TypeOK, Icpt!Messages, Messages
<1>3. todo[x] \in Seq(Messages) /\ todo[x] # <<>> /\ m = Head(todo[x]) /\ todo'[x] = Tail(todo[x])
  BY <1>1, <1>2 DEF Icpt!Reading
<1>4. m \in Messages /\ Range(todo[x]) = {m} \union Range(todo'[x])
  <2>1. Range(todo[x]) = {m} \union Range(todo'[x])
    BY <1>3, TailIsPart
  <2> QED BY <1>1, <2>1 DEF Icpt!Messages, Messages
<1>5. ASSUME NEW call, Icpt!Emit(x, m, call) PROVE Emits(x, m, call)
  BY <1>2, <1>5 DEF Icpt!Emit, Emits
<1>6. CASE Icpt!Request(x, m)
  <2>1. m \in Requests(Messages)
    BY <1>4, <1>6 DEF Icpt!Request, Requests
  <2>2. Icpt!rememberPending(m.id, m.call) /\ Emits(x, m, m.call)
    BY <1>5, <1>6 DEF Icpt!Request
  <2>3. Takes(m)
    BY <2>2 DEF Icpt!rememberPending, Takes
  <2> QED BY <1>4, <2>1, <2>2, <2>3 DEF Reads
<1>7. CASE Icpt!Notification(x, m)
  <2>1. m.kind # "reply" /\ m \notin Requests(Messages) /\ UNCHANGED pending /\ Emits(x, m, m.call)
    BY <1>5, <1>7 DEF Icpt!Notification, Requests
  <2> QED BY <1>4, <2>1 DEF Reads
<1>8. CASE Icpt!ReplyToKnown(x, m)
  <2>1. m.kind = "reply" /\ m.id \in Ids /\ pending' = [pending EXCEPT ![m.id] = NoCall]
        /\ Emits(x, m, pending[m.id])
    BY <1>5, <1>8 DEF Icpt!ReplyToKnown, Icpt!Outstanding, Icpt!takePending
  <2>2. \A i \in Ids : pending'[i] \in {NoCall, pending[i]}
    BY <1>2, <2>1
  <2> QED BY <1>4, <2>1, <2>2 DEF Reads
<1>9. CASE Icpt!ReplyToUnknown(x, m)
  <2>1. m.kind = "reply" /\ UNCHANGED pending /\ Emits(x, m, NoCall)
    BY <1>5, <1>9 DEF Icpt!ReplyToUnknown
  <2>2. m.id \in Ids => pending[m.id] = NoCall
    BY <1>9 DEF Icpt!ReplyToUnknown, Icpt!Outstanding
  <2>3. Emits(x, m, IF m.id \in Ids THEN pending[m.id] ELSE NoCall)
    BY <2>1, <2>2
  <2> QED BY <1>4, <2>1, <2>3 DEF Reads
<1>10. CASE Icpt!Junk(x, m)
  <2>1. m.kind # "reply" /\ m \notin Requests(Messages) /\ UNCHANGED <<pending, events>>
    BY <1>10 DEF Icpt!Junk, Requests
  <2> QED BY <1>4, <2>1 DEF Reads
<1> QED BY <1>1, <1>6, <1>7, <1>8, <1>9, <1>10

LEMMA PendingMoves ==
    ASSUME [Next]_vars
    PROVE  pending' = pending \/ \E x \in Exchanges : ParseMessage(x) /\ Icpt!parseOne(x)
BY DEF Next, Handler, ReadBodyFails, Receive, ParseMessage, Judge, Dispatch, RequestLogged, writeDenial,
       Forward, handleUpstreamError, modifyResponse, Read, ReadUntapped, ReadOverLimit, ReadComplete, ReadHeld,
       ReplyParsed, ReplyLogged, Deliver, finish, Interrupt, ServeFails, ShutdownCompletes, ShutdownTimesOut,
       ProcessExits, Main, vars, interceptorVars, Icpt!ParseBegin, Icpt!ParseEnd

(* What a step may do to the payload and the events of one exchange. *)
LEMMA TodoMoves ==
    ASSUME IInv, [Next]_vars, NEW y \in Exchanges
    PROVE  \/ Receive(y) \/ Read(y)
           \/ ParseMessage(y) /\ at'[y] = at[y] /\ at[y] \in {"request", "reply", "rest"}
           \/ /\ finish(y) /\ at'[y] = "rest" /\ held[y] # <<>>
              /\ todo'[y] = held[y][1].messages /\ events'[y] = <<>>
           \/ /\ todo'[y] = todo[y] /\ events'[y] = events[y]
              /\ at'[y] \in {"request", "reply", "rest"} => at'[y] = at[y]
              /\ at'[y] \in {"logReply", "logRest"} => at[y] \in {"reply", "rest", "logReply", "logRest"}
<1>1. /\ at \in [Exchanges -> Places] /\ DOMAIN todo = Exchanges /\ DOMAIN events = Exchanges
  BY DEF IInv, TypeOK, Places, Icpt!TypeOK
<1>2. CASE finish(y)
  <2>1. CASE held[y] = <<>>
    <3>1. at'[y] = "done" /\ todo' = todo /\ events' = events
      BY <1>1, <1>2, <2>1 DEF finish, Go, interceptorVars
    <3> QED BY <3>1
  <2>2. CASE held[y] # <<>>
    <3>1. at'[y] = "rest" /\ todo'[y] = held[y][1].messages /\ events'[y] = <<>>
      BY <1>1, <1>2, <2>2 DEF finish, Go, Icpt!ParseBegin
    <3> QED BY <1>2, <2>2, <3>1
  <2> QED BY <2>1, <2>2
<1>3. CASE ~Receive(y) /\ ~Read(y) /\ ~ParseMessage(y) /\ ~finish(y)
  <2>1. /\ at'[y] \in {"request", "reply", "rest"} => at'[y] = at[y]
        /\ at'[y] \in {"logReply", "logRest"} => at[y] \in {"reply", "rest", "logReply", "logRest"}
    BY <1>3, PlaceMoves
  <2>2. todo'[y] = todo[y] /\ events'[y] = events[y]
    <3>1. CASE Handler(y)
      BY <1>3, <3>1 DEF Handler, ReadBodyFails, Judge, Dispatch, RequestLogged, writeDenial,
         Forward, handleUpstreamError, modifyResponse, ReplyParsed, ReplyLogged, Deliver, interceptorVars, Icpt!ParseEnd
    <3>2. ASSUME NEW x \in Exchanges, Handler(x), x # y PROVE todo'[y] = todo[y] /\ events'[y] = events[y]
      BY <3>2, HandlerKeepsType
    <3>3. CASE UNCHANGED vars \/ Interrupt \/ ServeFails \/ ShutdownCompletes \/ ShutdownTimesOut \/ ProcessExits
      BY <3>3 DEF vars, Interrupt, ServeFails, ShutdownCompletes, ShutdownTimesOut, ProcessExits, Main, interceptorVars
    <3> QED BY <3>1, <3>2, <3>3 DEF Next
  <2> QED BY <2>1, <2>2
<1>4. ParseMessage(y) => at'[y] = at[y] /\ at[y] \in {"request", "reply", "rest"}
  BY DEF ParseMessage
<1> QED BY <1>2, <1>3, <1>4

Event == [message : Messages, call : Calls \union {NoCall}]


LEMMA EventTypes ==
    ASSUME TypeOK
    PROVE  /\ \A x \in Exchanges : events[x] \in Seq(Event) /\ dispatched[x] \in Nat
           /\ audit \in Seq(Entry)
BY DEF TypeOK, Icpt!TypeOK, Messages, Icpt!Messages, Event, Entry

LEMMA AuditMoves ==
    ASSUME IInv, [Next]_vars
    PROVE  \/ audit' = audit
           \/ \E x \in Exchanges :
                 /\ Dispatch(x) /\ Open /\ dispatched[x] + 1 \in DOMAIN events[x]
                 /\ audit' = Append(audit, [from |-> IF at[x] = "log" THEN "client" ELSE "server",
                                            exchange |-> x, event |-> events[x][dispatched[x] + 1]])
<1>1. UNCHANGED audit \/ \E x \in Exchanges : Dispatch(x)
  BY DEF Next, Handler, ReadBodyFails, Receive, ParseMessage, Judge, RequestLogged, writeDenial,
         Forward, handleUpstreamError, modifyResponse, Read, ReadLine, ReplyParsed, ReplyLogged, Deliver, finish,
         Interrupt, ServeFails, ShutdownCompletes, ShutdownTimesOut, ProcessExits, Main, vars
<1>2. ASSUME NEW x \in Exchanges, Dispatch(x) PROVE dispatched[x] + 1 \in DOMAIN events[x]
  <2>1. events[x] \in Seq(Event) /\ dispatched[x] \in Nat
    BY EventTypes DEF IInv
  <2>2. DOMAIN events[x] = 1..Len(events[x]) /\ Len(events[x]) \in Nat
    BY <2>1
  <2>3. dispatched[x] < Len(events[x])
    BY <1>2 DEF Dispatch
  <2> QED BY <2>1, <2>2, <2>3
<1>3. ASSUME NEW x \in Exchanges, Dispatch(x)
      PROVE  \/ audit' = audit
             \/ /\ Open
                /\ audit' = Append(audit, [from |-> IF at[x] = "log" THEN "client" ELSE "server",
                                           exchange |-> x, event |-> events[x][dispatched[x] + 1]])
  BY <1>3 DEF Dispatch, Open
<1> QED BY <1>1, <1>2, <1>3

LEMMA SpokenMessages ==
    ASSUME TypeOK
    PROVE  /\ Posed \subseteq Messages
           /\ \A x \in Exchanges : MessagesIn(said[x]) \subseteq Messages /\ Range(body[x].messages) \subseteq Messages
<1>1. \A l \in Lines : Range(l.messages) \subseteq Messages
  <2> SUFFICES ASSUME NEW l \in Lines PROVE Range(l.messages) \subseteq Messages
    OBVIOUS
  <2>1. l.messages \in Seq(Messages)
    BY DEF Lines
  <2> QED BY <2>1, ElementOfSeq DEF Range
<1>2. ASSUME NEW x \in Exchanges
      PROVE  MessagesIn(said[x]) \subseteq Messages /\ Range(body[x].messages) \subseteq Messages
  <2>1. body[x] \in Lines /\ \A i \in DOMAIN said[x] : said[x][i] \in Lines
    BY ElementOfSeq DEF TypeOK
  <2> QED BY <1>1, <2>1 DEF MessagesIn
<1> QED BY <1>2 DEF Posed, SpokenIn, Requests

(* The name a reply gets when it is parsed. *)
LEMMA ReplyIsNamed ==
    ASSUME IInv, Naming, NEW m, Genuine(m), m.kind = "reply"
    PROVE  LET call == IF m.id \in Ids THEN pending[m.id] ELSE NoCall IN
           /\ call \in {r.call : r \in Asked(m.id)} \union {NoCall}
           /\ call \in {m.call, NoCall} \/ AskedBySeveral(m.id)
<1>1. PICK r \in Posed : m = Reply(r)
  BY DEF Genuine
<1>2. r \in Messages /\ m.id = r.id /\ m.call = r.call
  BY <1>1, SpokenMessages DEF IInv, Reply, Messages
<1>3. CASE m.id \in Ids /\ pending[m.id] # NoCall
  <2>1. PICK s \in Posed : s.id = m.id /\ s.call = pending[m.id]
    BY <1>3 DEF Naming
  <2>2. r = s \/ AskedBySeveral(m.id)
    BY <1>2, <2>1 DEF Naming, OneRequestPerAsker
  <2>3. s \in Asked(m.id)
    BY <2>1, AskedIsPosed
  <2> QED BY <1>2, <1>3, <2>1, <2>2, <2>3
<1> QED BY <1>3

(* What is being parsed has been said or posted. *)
LEMMA ParsedIsGenuine ==
    ASSUME IInv, Conversation, Parsing, NEW x \in Exchanges, at[x] \in {"request", "reply", "rest"},
           NEW m \in Range(todo[x])
    PROVE  Genuine(m)
BY DEF Parsing, Conversation

LEMMA TableKept ==
    ASSUME IInv, Conversation, Parsing, Naming, [Next]_vars
    PROVE  \A id \in Ids : pending'[id] # NoCall => \E r \in Posed' : r.id = id /\ r.call = pending'[id]
<1>1. Posed \subseteq Posed'
  BY SpokenStays
<1>2. CASE pending' = pending
  BY <1>1, <1>2 DEF Naming
<1>3. ASSUME NEW x \in Exchanges, ParseMessage(x), Icpt!parseOne(x)
      PROVE  \A id \in Ids : pending'[id] # NoCall => \E r \in Posed' : r.id = id /\ r.call = pending'[id]
  <2>1. PICK m \in Messages : Reads(x, m)
    BY <1>3, ParseReads
  <2>2. m \in Range(todo[x]) /\ Genuine(m)
    BY <1>3, <2>1, ParsedIsGenuine DEF Reads, ParseMessage
  <2>3. CASE m \in Requests(Messages) /\ Takes(m)
    <3>1. m \in Posed
      BY <2>2, <2>3 DEF Genuine, Requests
    <3> QED BY <1>1, <2>3, <3>1 DEF Takes, Naming
  <2>4. CASE \A i \in Ids : pending'[i] \in {NoCall, pending[i]}
    BY <1>1, <2>4 DEF Naming
  <2>5. CASE UNCHANGED pending
    BY <1>2, <2>5
  <2> QED BY <2>1, <2>3, <2>4, <2>5 DEF Reads
<1> QED BY <1>2, <1>3, PendingMoves

LEMMA PayloadKept ==
    ASSUME IInv, Conversation, Parsing, [Next]_vars, NEW y \in Exchanges
    PROVE  /\ at'[y] = "request" => Range(todo'[y]) \subseteq Range(body'[y].messages)
           /\ at'[y] \in {"reply", "rest"} => Range(todo'[y]) \subseteq MessagesIn(said'[y])
<1>1. /\ at[y] # "idle" => body'[y] = body[y]
      /\ MessagesIn(said[y]) \subseteq MessagesIn(said'[y])
  BY SpokenStays
<1>2. /\ at[y] = "request" => Range(todo[y]) \subseteq Range(body[y].messages)
      /\ at[y] \in {"reply", "rest"} => Range(todo[y]) \subseteq MessagesIn(said[y])
  BY DEF Parsing
<1>3. CASE Receive(y)
  <2>1. /\ at'[y] = "request" => todo'[y] = body'[y].messages
        /\ at'[y] \in {"request", "send"}
    BY <1>3, ReceiveMoves
  <2> QED BY <2>1
<1>4. CASE Read(y)
  <2>1. PICK l \in CanSay(y) :
          /\ said'[y] = Append(said[y], l)
          /\ at'[y] = "reply" => todo'[y] = l.messages
          /\ at'[y] \in {"reply", "deliver"}
    BY <1>4, ReadMoves
  <2>2. MessagesIn(said'[y]) = MessagesIn(said[y]) \union Range(l.messages)
    BY <2>1, LineMore DEF IInv, TypeOK
  <2> QED BY <2>1, <2>2
<1>5. CASE ParseMessage(y) /\ at'[y] = at[y] /\ at[y] \in {"request", "reply", "rest"}
  <2>1. \E m : Reads(y, m)
    BY <1>5, ParseReads DEF ParseMessage
  <2> QED BY <1>1, <1>2, <1>5, <2>1 DEF Reads
<1>6. CASE finish(y) /\ at'[y] = "rest" /\ held[y] # <<>> /\ todo'[y] = held[y][1].messages
  <2>1. 1 \in DOMAIN held[y]
    BY <1>6, EmptySeq, LenProperties DEF IInv, TypeOK
  <2>2. Range(todo'[y]) \subseteq MessagesIn(held[y])
    BY <1>6, <2>1 DEF MessagesIn
  <2> QED BY <1>1, <1>6, <2>2 DEF Conversation
<1>7. CASE todo'[y] = todo[y] /\ (at'[y] \in {"request", "reply", "rest"} => at'[y] = at[y])
  BY <1>1, <1>2, <1>7
<1> QED BY <1>3, <1>4, <1>5, <1>6, <1>7, TodoMoves

(* An event is made of the message that is read; nothing else adds one. *)
LEMMA EventsMove ==
    ASSUME IInv, [Next]_vars, NEW y \in Exchanges
    PROVE  /\ \A e \in Range(events'[y]) :
              \/ e \in Range(events[y])
              \/ /\ at[y] \in {"request", "reply", "rest"} /\ e.message \in Range(todo[y])
                 /\ e.message.kind = "reply" =>
                       e.call = IF e.message.id \in Ids THEN pending[e.message.id] ELSE NoCall
           /\ at'[y] \in OfReply => at[y] \in OfReply \/ events'[y] = <<>>
<1> USE DEF OfReply
<1>1. CASE events'[y] = <<>>
  BY <1>1, NothingInEmpty
<1>2. CASE events'[y] = events[y] /\ (at'[y] \in OfReply => at[y] \in OfReply)
  BY <1>2
<1>3. CASE Receive(y) \/ Read(y)
  <2>1. /\ Receive(y) => at'[y] \in {"request", "send"} /\ (events'[y] = <<>> \/ events'[y] = events[y])
        /\ Read(y) => events'[y] = <<>> \/ (at'[y] = "deliver" /\ events'[y] = events[y])
    BY ReceiveMoves, ReadMoves
  <2> QED BY <1>1, <1>2, <1>3, <2>1
<1>4. CASE ParseMessage(y) /\ at'[y] = at[y] /\ at[y] \in {"request", "reply", "rest"}
  <2>1. PICK m \in Messages : Reads(y, m)
    BY <1>4, ParseReads DEF ParseMessage
  <2>2. m \in Range(todo[y])
    BY <2>1 DEF Reads
  <2> DEFINE named == IF m.id \in Ids THEN pending[m.id] ELSE NoCall
  <2>3. ASSUME NEW c, Emits(y, m, c), m.kind = "reply" => c = named
        PROVE  \A e \in Range(events'[y]) :
                  e \in Range(events[y]) \/ (e.message = m /\ (m.kind = "reply" => e.call = named))
    <3> DEFINE new == [message |-> m, call |-> c]
    <3>1. events'[y] = Append(events[y], new) /\ new.message = m /\ new.call = c
      BY <2>3 DEF Emits
    <3> HIDE DEF new, named
    <3>2. Range(events'[y]) = Range(events[y]) \union {new}
      BY <3>1, EventTypes, RangeMore DEF IInv
    <3> QED BY <2>3, <3>1, <3>2
  <2>4. CASE m.kind = "reply"
    <3>1. Emits(y, m, named)
      BY <2>1, <2>4 DEF Reads, Requests
    <3> QED BY <1>4, <2>2, <2>3, <3>1
  <2>5. CASE m.kind # "reply"
    <3>1. events'[y] = events[y] \/ Emits(y, m, m.call)
      BY <2>1, <2>5 DEF Reads
    <3> HIDE DEF named
    <3> QED BY <1>2, <1>4, <2>2, <2>3, <2>5, <3>1
  <2> QED BY <2>4, <2>5
<1> QED BY <1>1, <1>2, <1>3, <1>4, TodoMoves

LEMMA ParsingKept ==
    ASSUME IInv, Conversation, Parsing, [Next]_vars
    PROVE  Parsing'
<1>1. ASSUME NEW y \in Exchanges, at'[y] \in OfReply, NEW e \in Range(events'[y])
      PROVE  e.message \in MessagesIn(said'[y])
  <2>1. MessagesIn(said[y]) \subseteq MessagesIn(said'[y])
    BY SpokenStays
  <2>2. at[y] \in OfReply
    BY <1>1, EventsMove, NothingInEmpty
  <2>3. e \in Range(events[y]) \/ (at[y] \in {"reply", "rest"} /\ e.message \in Range(todo[y]))
    BY <2>2, EventsMove DEF OfReply
  <2> QED BY <2>1, <2>2, <2>3 DEF Parsing
<1> QED BY <1>1, PayloadKept DEF Parsing

LEMMA NamingKept ==
    ASSUME IInv, Conversation, Parsing, Naming, [Next]_vars
    PROVE  Naming'
<1>0. \A e : NamedRight(e) => NamedRight(e)'
  BY AskedStays DEF NamedRight
<1>1. ASSUME NEW y \in Exchanges, NEW e \in Range(events'[y]) PROVE NamedRight(e)'
  <2>1. CASE e \in Range(events[y])
    BY <1>0, <2>1 DEF Naming
  <2>2. CASE /\ at[y] \in {"request", "reply", "rest"} /\ e.message \in Range(todo[y])
             /\ e.message.kind = "reply" =>
                   e.call = IF e.message.id \in Ids THEN pending[e.message.id] ELSE NoCall
    <3>1. Genuine(e.message)
      BY <2>2, ParsedIsGenuine
    <3>2. NamedRight(e)
      BY <2>2, <3>1, ReplyIsNamed DEF NamedRight
    <3> QED BY <1>0, <3>2
  <2> QED BY <2>1, <2>2, EventsMove
<1>2. \A a \in Range(audit') : NamedRight(a.event)'
  <2>1. CASE audit' = audit
    BY <1>0, <2>1 DEF Naming
  <2>2. ASSUME NEW x \in Exchanges, NEW from, dispatched[x] + 1 \in DOMAIN events[x],
               audit' = Append(audit, [from |-> from, exchange |-> x, event |-> events[x][dispatched[x] + 1]])
        PROVE  \A a \in Range(audit') : NamedRight(a.event)'
    <3> DEFINE e == events[x][dispatched[x] + 1]
               new == [from |-> from, exchange |-> x, event |-> e]
    <3>1. e \in Range(events[x])
      BY <2>2 DEF Range
    <3>2. audit' = Append(audit, new) /\ NamedRight(new.event)
      BY <2>2, <3>1 DEF Naming
    <3> HIDE DEF new
    <3>3. Range(audit') = Range(audit) \union {new}
      BY <3>2, EventTypes, RangeMore DEF IInv
    <3> QED BY <1>0, <3>2, <3>3 DEF Naming
  <2> QED BY <2>1, <2>2, AuditMoves
<1>3. OneRequestPerAsker'
  BY IdsStayUnique DEF Naming
<1> QED BY <1>1, <1>2, <1>3, TableKept DEF Naming

-----------------------------------------------------------------------------
(* Replies follow requests: a request is in the log before the server gets *)
(* it.                                                                     *)

LEMMA MainMoves == ASSUME [Next]_vars, Open' PROVE Open
BY DEF Next, Handler, ReadBodyFails, Receive, ParseMessage, Judge, Dispatch, RequestLogged, writeDenial,
       Forward, handleUpstreamError, modifyResponse, Read, ReadLine, ReplyParsed, ReplyLogged, Deliver, finish,
       Interrupt, ServeFails, ShutdownCompletes, ShutdownTimesOut, ProcessExits, Main, vars, Open

LEMMA DispatchedMoves ==
    ASSUME IInv, [Next]_vars, NEW y \in Exchanges
    PROVE  dispatched'[y] = dispatched[y] \/ Dispatch(y) \/ Judge(y) \/ Read(y) \/ finish(y)
<1>1. DOMAIN dispatched = Exchanges
  BY DEF IInv, TypeOK
<1>2. ASSUME NEW x \in Exchanges, Handler(x)
      PROVE  dispatched'[y] = dispatched[y] \/ Dispatch(y) \/ Judge(y) \/ Read(y) \/ finish(y)
  BY <1>1, <1>2 DEF Handler, ReadBodyFails, Receive, ParseMessage, Judge, Dispatch, RequestLogged, writeDenial,
       Forward, handleUpstreamError, modifyResponse, Read, ReadLine, ReplyParsed, ReplyLogged, Deliver, finish
<1>3. CASE UNCHANGED vars \/ Interrupt \/ ServeFails \/ ShutdownCompletes \/ ShutdownTimesOut \/ ProcessExits
  BY <1>3 DEF vars, Interrupt, ServeFails, ShutdownCompletes, ShutdownTimesOut, ProcessExits, Main
<1> QED BY <1>2, <1>3 DEF Next

LEMMA AuditGrows ==
    ASSUME IInv, [Next]_vars
    PROVE  /\ Range(audit) \subseteq Range(audit')
           /\ \A i \in DOMAIN audit : i \in DOMAIN audit' /\ audit'[i] = audit[i]
           /\ \A x, m : InLog(x, m) => InLog(x, m)'
<1>1. audit \in Seq(Entry)
  BY EventTypes DEF IInv
<1>2. \A i \in DOMAIN audit : i \in DOMAIN audit' /\ audit'[i] = audit[i]
  <2>1. CASE audit' = audit
    BY <2>1
  <2>2. ASSUME NEW a, audit' = Append(audit, a)
        PROVE  \A i \in DOMAIN audit : i \in DOMAIN audit' /\ audit'[i] = audit[i]
    BY <1>1, <2>2
  <2> QED BY <2>1, <2>2, AuditMoves
<1>3. Range(audit) \subseteq Range(audit')
  BY <1>2 DEF Range
<1> QED BY <1>2, <1>3 DEF InLog

LEMMA LoggedKept ==
    ASSUME IInv, Conversation, Parsing, NEW y \in Exchanges, Logged(y), [Next]_vars
    PROVE  Logged(y)'
<1>1. ASSUME Receive(y) PROVE Logged(y)'
  <2>1. /\ at'[y] = "request" => todo'[y] = body'[y].messages
        /\ at'[y] = "request" \/ ~Audited(body'[y])
    BY <1>1, ReceiveMoves
  <2> QED BY <2>1 DEF Logged, Requests
<1>2. ASSUME body'[y] = body[y], Audited(body[y]), NEW m \in Requests(Range(body[y].messages))
      PROVE  /\ at'[y] = "request" => m \in Range(todo'[y]) \/ \E e \in Range(events'[y]) : e.message = m
             /\ at'[y] = "log" /\ Open' =>
                  InLog(y, m)' \/ \E i \in DOMAIN events'[y] : i > dispatched'[y] /\ events'[y][i].message = m
             /\ at'[y] \notin {"idle", "request", "log"} /\ Open' => InLog(y, m)'
  <2>1. at[y] # "idle"
    BY <1>2, NothingInEmpty DEF Conversation, Requests
  <2>2. /\ at[y] = "request" => m \in Range(todo[y]) \/ \E e \in Range(events[y]) : e.message = m
        /\ at[y] = "log" /\ Open =>
              InLog(y, m) \/ \E i \in DOMAIN events[y] : i > dispatched[y] /\ events[y][i].message = m
        /\ at[y] \notin {"idle", "request", "log"} /\ Open => InLog(y, m)
    BY <1>2 DEF Logged
  <2>3. (InLog(y, m) => InLog(y, m)') /\ (Open' => Open)
    BY AuditGrows, MainMoves
  <2>4. events[y] \in Seq(Event) /\ dispatched[y] \in Nat
    BY EventTypes DEF IInv
  <2>5. CASE at[y] = "request" /\ at'[y] = "request"
    <3>1. ~Receive(y) /\ ~Read(y)
      BY <2>5 DEF Receive, Read, ReadLine
    <3>2. CASE ParseMessage(y)
      <4>1. PICK n \in Messages : Reads(y, n)
        BY <3>2, ParseReads DEF ParseMessage
      <4>2. ASSUME NEW c, Emits(y, n, c)
            PROVE  Range(events[y]) \subseteq Range(events'[y]) /\ \E e \in Range(events'[y]) : e.message = n
        <5> DEFINE new == [message |-> n, call |-> c]
        <5>1. events'[y] = Append(events[y], new) /\ new.message = n
          BY <4>2 DEF Emits
        <5> HIDE DEF new
        <5>2. Range(events'[y]) = Range(events[y]) \union {new}
          BY <2>4, <5>1, RangeMore
        <5> QED BY <5>1, <5>2
      <4>3. Range(events[y]) \subseteq Range(events'[y])
        BY <4>1, <4>2 DEF Reads
      <4>4. CASE m = n
        <5>1. m \in Requests(Messages) /\ m.kind # "reply"
          BY <4>4 DEF Requests
        <5>2. Emits(y, n, n.call)
          BY <4>1, <4>4, <5>1 DEF Reads
        <5> QED BY <2>5, <4>2, <4>4, <5>2
      <4>5. CASE m # n /\ m \in Range(todo[y])
        BY <2>5, <4>1, <4>5 DEF Reads
      <4> QED BY <2>2, <2>5, <4>3, <4>4, <4>5
    <3>3. CASE todo'[y] = todo[y] /\ events'[y] = events[y]
      BY <2>2, <2>5, <3>3
    <3> QED BY <2>5, <3>1, <3>2, <3>3, TodoMoves
  <2>6. CASE Judge(y)
    <3>1. todo[y] = <<>> /\ events'[y] = events[y] /\ at[y] = "request"
      BY <2>6 DEF Judge, Icpt!ParseEnd
    <3>2. at'[y] = "log" /\ dispatched'[y] = 0
      BY <2>6 DEF Judge, Go, IInv, TypeOK
    <3>3. PICK e \in Range(events[y]) : e.message = m
      BY <2>2, <3>1, NothingInEmpty
    <3>4. PICK i \in DOMAIN events[y] : events[y][i] = e
      BY DEF Range
    <3>5. i \in DOMAIN events[y] /\ i > 0
      BY <2>4
    <3> QED BY <3>1, <3>2, <3>3, <3>4, <3>5
  <2>7. CASE at[y] = "log" /\ at'[y] = "log"
    <3>1. ~Receive(y) /\ ~Read(y) /\ ~Judge(y) /\ ~finish(y)
      BY <2>7 DEF Receive, Read, ReadLine, Judge, finish
    <3>2. events'[y] = events[y]
      BY <2>7, <3>1, TodoMoves
    <3>3. CASE dispatched'[y] = dispatched[y]
      BY <2>2, <2>3, <2>7, <3>2, <3>3
    <3>4. CASE Dispatch(y) /\ Open
      <4>1. dispatched'[y] = dispatched[y] + 1
        BY <3>4 DEF Dispatch, IInv, TypeOK
      <4> DEFINE new == [from |-> "client", exchange |-> y, event |-> events[y][dispatched[y] + 1]]
      <4>2. audit' = Append(audit, new)
        BY <2>7, <3>4 DEF Dispatch, Open
      <4>3. new.from = "client" /\ new.exchange = y /\ new.event = events[y][dispatched[y] + 1]
        OBVIOUS
      <4> HIDE DEF new
      <4>4. new \in Range(audit')
        <5>1. audit \in Seq(Entry)
          BY EventTypes DEF IInv
        <5> QED BY <4>2, <5>1, RangeMore
      <4>5. ASSUME NEW i \in DOMAIN events[y], i > dispatched[y], events[y][i].message = m
            PROVE  InLog(y, m)' \/ i > dispatched'[y]
        <5>1. CASE i = dispatched[y] + 1
          BY <4>3, <4>4, <4>5, <5>1 DEF InLog
        <5>2. CASE i # dispatched[y] + 1
          BY <2>4, <4>1, <4>5, <5>2
        <5> QED BY <5>1, <5>2
      <4> QED BY <2>2, <2>3, <2>7, <3>2, <3>4, <4>5
    <3> QED BY <2>3, <2>7, <3>1, <3>3, <3>4, DispatchedMoves
  <2>8. CASE RequestLogged(y)
    <3>1. at[y] = "log" /\ dispatched[y] = Len(events[y])
      BY <2>8 DEF RequestLogged
    <3>2. at'[y] \in {"refuse", "send"}
      BY <2>8 DEF RequestLogged, Go, IInv, TypeOK
    <3>3. \A i \in DOMAIN events[y] : ~(i > dispatched[y])
      BY <2>4, <3>1
    <3> QED BY <2>2, <2>3, <3>1, <3>2, <3>3
  <2>9. CASE at[y] \notin {"request", "log"}
    <3>1. at'[y] \notin {"idle", "request", "log"}
      BY <2>1, <2>9, PlaceMoves
    <3> QED BY <2>1, <2>2, <2>3, <2>9, <3>1
  <2>10. CASE at'[y] = "done" /\ main' = "exited"
    BY <2>10 DEF Open
  <2> QED BY <2>5, <2>6, <2>7, <2>8, <2>9, <2>10, PlaceMoves
<1>3. CASE body'[y] = body[y]
  BY <1>2, <1>3 DEF Logged, Audited, Requests, Range
<1> QED BY <1>1, <1>3, OwnMoves

LEMMA ReplyIsExplained ==
    ASSUME IInv, Conversation, \A y \in Exchanges : Logged(y), Open,
           NEW x \in Exchanges, NEW m \in MessagesIn(said[x]), m.kind = "reply"
    PROVE  \/ \E j \in DOMAIN audit :
                 /\ audit[j].from = "client"
                 /\ ClientOf[audit[j].exchange] = ClientOf[x]
                 /\ Reply(audit[j].event.message) = m
           \/ \E y \in Mine(x) : body[y].form = "big" /\ body[y].messages[1].id = m.id
<1>1. m \in Answers(x)
  BY DEF Conversation
<1>2. PICK r \in AskedOfServer(x) : m = Reply(r)
  BY <1>1 DEF Answers
<1>3. PICK y \in Mine(x) \intersect serverGot : r \in Requests(Range(body[y].messages))
  BY <1>2 DEF AskedOfServer, Requests
<1>4. y \in Exchanges /\ ClientOf[y] = ClientOf[x] /\ m.id = r.id
  BY <1>2, <1>3, AskedMessages, RepliesAreReplies DEF Mine, IInv
<1>5. CASE Audited(body[y])
  <2>1. InLog(y, r)
    BY <1>3, <1>4, <1>5 DEF Conversation, Logged
  <2>2. PICK j \in DOMAIN audit :
          audit[j].from = "client" /\ audit[j].exchange = y /\ audit[j].event.message = r
    BY <2>1 DEF InLog, Range
  <2> QED BY <1>2, <1>4, <2>2
<1>6. CASE ~Audited(body[y])
  <2>1. BodyOk(body[y]) /\ r \in Range(body[y].messages)
    BY <1>3, <1>4 DEF Conversation, Requests
  <2>2. body[y].form = "big"
    BY <1>6, <2>1, NothingInEmpty DEF BodyOk, Audited
  <2>3. r = body[y].messages[1]
    BY <2>1, <2>2 DEF BodyOk
  <2> QED BY <1>3, <1>4, <2>2, <2>3
<1> QED BY <1>5, <1>6

LEMMA ExplainedKept ==
    ASSUME IInv, Conversation, Parsing, \A y \in Exchanges : Logged(y),
           \A i \in DOMAIN audit : Explained(i), [Next]_vars, NEW i \in DOMAIN audit'
    PROVE  Explained(i)'
<1>1. audit \in Seq(Entry) /\ DOMAIN audit = 1..Len(audit) /\ Len(audit) \in Nat
  BY EventTypes DEF IInv
<1>2. \A j \in DOMAIN audit : j \in DOMAIN audit' /\ audit'[j] = audit[j]
  BY AuditGrows
<1>3. \A y \in Exchanges : body[y].form = "big" => body'[y] = body[y]
  BY SpokenStays DEF Conversation
<1>4. CASE i \in DOMAIN audit
  <2>1. \A j \in 1..(i-1) : j \in DOMAIN audit
    BY <1>1, <1>4
  <2>2. audit'[i] = audit[i] /\ \A j \in 1..(i-1) : audit'[j] = audit[j]
    BY <1>2, <1>4, <2>1
  <2>3. Explained(i)
    BY <1>4
  <2> QED BY <1>3, <2>2, <2>3 DEF Explained, Mine
<1>5. CASE i \notin DOMAIN audit
  <2>1. PICK x \in Exchanges :
          /\ Dispatch(x) /\ Open /\ dispatched[x] + 1 \in DOMAIN events[x]
          /\ audit' = Append(audit, [from |-> IF at[x] = "log" THEN "client" ELSE "server",
                                     exchange |-> x, event |-> events[x][dispatched[x] + 1]])
    BY <1>5, AuditMoves
  <2> DEFINE e == events[x][dispatched[x] + 1]
             new == [from |-> IF at[x] = "log" THEN "client" ELSE "server", exchange |-> x, event |-> e]
  <2>2. audit' = Append(audit, new) /\ new.exchange = x /\ new.event = e
        /\ (new.from = "server" => at[x] # "log")
    BY <2>1
  <2>3. e \in Range(events[x]) /\ at[x] \in {"log", "logReply", "logRest"}
    BY <2>1 DEF Range, Dispatch
  <2>4. at[x] # "log" => e.message \in MessagesIn(said[x])
    BY <2>3 DEF Parsing, OfReply
  <2> HIDE DEF new, e
  <2>5. i = Len(audit) + 1 /\ audit'[i] = new
    BY <1>1, <1>5, <2>2
  <2>6. \A j \in DOMAIN audit : j \in 1..(i-1)
    BY <1>1, <2>5
  <2>7. CASE new.event.message.kind = "reply" /\ new.from = "server"
    <3>1. \/ \E j \in DOMAIN audit :
                /\ audit[j].from = "client"
                /\ ClientOf[audit[j].exchange] = ClientOf[x]
                /\ Reply(audit[j].event.message) = e.message
          \/ \E y \in Mine(x) : body[y].form = "big" /\ body[y].messages[1].id = e.message.id
      BY <2>1, <2>2, <2>4, <2>7, ReplyIsExplained
    <3> QED BY <1>2, <1>3, <2>2, <2>5, <2>6, <3>1 DEF Explained, Mine
  <2> QED BY <2>5, <2>7 DEF Explained
<1> QED BY <1>4, <1>5

LEMMA CorrelationInvariance == Spec => []CorrelationInv
<1>1. CorrelationInv /\ IInv /\ [Next]_vars => CorrelationInv'
  <2> SUFFICES ASSUME CorrelationInv, IInv, [Next]_vars PROVE CorrelationInv'
    OBVIOUS
  <2>1. Conversation' /\ Parsing'
    BY ConversationKept, ParsingKept DEF CorrelationInv
  <2>2. ASSUME NEW x \in Exchanges PROVE Logged(x)'
    BY LoggedKept DEF CorrelationInv
  <2>3. ASSUME NEW i \in DOMAIN audit' PROVE Explained(i)'
    BY <2>3, ExplainedKept DEF CorrelationInv
  <2> QED BY <2>1, <2>2, <2>3 DEF CorrelationInv
<1> QED BY <1>1, CorrelationInit, Invariance, PTL DEF Spec

LEMMA NamingInvariance == Spec => []Naming
<1>1. Naming /\ CorrelationInv /\ IInv /\ [Next]_vars => Naming'
  BY NamingKept DEF CorrelationInv
<1> QED BY <1>1, CorrelationInit, CorrelationInvariance, Invariance, PTL DEF Spec

(* In the log a reply of the server comes after the request it answers,    *)
(* unless that is too long to be audited: whatever exchange carries it,    *)
(* whatever ids the clients choose, and whatever other handlers do.        *)
THEOREM RepliesAreExplained == Spec => [](\A i \in DOMAIN audit : Explained(i))
<1>1. CorrelationInv => \A i \in DOMAIN audit : Explained(i)
  BY DEF CorrelationInv
<1> QED BY <1>1, CorrelationInvariance, PTL

(* The same, and the event of any reply names the call that it answers or  *)
(* none; if several have asked under its id, that of one of them: all      *)
(* exchanges share one table, which knows ids only.                        *)
THEOREM RepliesComeAfterRequests == Spec => []RepliesFollowRequests
<1>1. CorrelationInv /\ Naming => RepliesFollowRequests
  <2> SUFFICES ASSUME CorrelationInv, Naming, NEW i \in DOMAIN audit, audit[i].event.message.kind = "reply"
               PROVE  NamedRight(audit[i].event) /\ Explained(i)
    BY DEF RepliesFollowRequests, NamedRight, Explained
  <2> QED BY DEF CorrelationInv, Naming, Range
<1> QED BY <1>1, CorrelationInvariance, NamingInvariance, PTL

-----------------------------------------------------------------------------
(* The log, message by message. *)

Texts(lines) == [i \in DOMAIN lines |-> lines[i].messages]

LEMMA TextsIn ==
    ASSUME NEW lines \in Seq(Lines)
    PROVE  /\ Texts(lines) \in Seq(Seq(Messages)) /\ Len(Texts(lines)) = Len(lines)
           /\ \A i \in 1..Len(lines) : Texts(lines)[i] = lines[i].messages
<1>1. DOMAIN lines = 1..Len(lines) /\ Len(lines) \in Nat /\ \A i \in 1..Len(lines) : lines[i] \in Lines
  OBVIOUS
<1>2. \A l \in Lines : l.messages \in Seq(Messages)
  BY DEF Lines
<1>3. \A i \in 1..Len(lines) : lines[i].messages \in Seq(Messages)
  BY <1>1, <1>2
<1>4. Texts(lines) = [i \in 1..Len(lines) |-> lines[i].messages]
  BY <1>1 DEF Texts
<1> QED BY <1>1, <1>3, <1>4

LEMMA AuditableMore ==
    ASSUME NEW s \in Seq(Lines), NEW l \in Lines
    PROVE  /\ Auditable(s) \in Seq(Messages) /\ Select(l.messages, ReadableMessages) \in Seq(Messages)
           /\ Auditable(More(s, l)) = Then(Auditable(s), Select(l.messages, ReadableMessages))
<1> DEFINE ls == More(s, l)
           text == l.messages
           r == Texts(s)
           t == Texts(ls)
           c == More(r, text)
<1>1. text \in Seq(Messages)
  BY DEF Lines
<1>2. ls \in Seq(Lines) /\ Len(ls) = Len(s) + 1 /\ ls[Len(s) + 1] = l
      /\ Len(s) \in Nat /\ \A i \in 1..Len(s) : ls[i] = s[i]
  <2>1. ls \in Seq(Lines)
    BY MoreIn
  <2>2. Len(s) \in Nat /\ Len(ls) = Len(s) + 1 /\ ls[Len(s) + 1] = l /\ \A i \in 1..Len(s) : ls[i] = s[i]
    BY MoreAt
  <2> HIDE DEF ls
  <2> QED BY <2>1, <2>2
<1> HIDE DEF ls
<1>3. /\ r \in Seq(Seq(Messages)) /\ Len(r) = Len(s) /\ \A i \in 1..Len(s) : r[i] = s[i].messages
      /\ t \in Seq(Seq(Messages)) /\ Len(t) = Len(s) + 1 /\ \A i \in 1..(Len(s) + 1) : t[i] = ls[i].messages
  <2>1. /\ r \in Seq(Seq(Messages)) /\ Len(r) = Len(s) /\ \A i \in 1..Len(s) : r[i] = s[i].messages
    BY TextsIn
  <2>2. t \in Seq(Seq(Messages)) /\ Len(t) = Len(ls) /\ \A i \in 1..Len(ls) : t[i] = ls[i].messages
    BY <1>2, TextsIn
  <2> HIDE DEF r, t
  <2> QED BY <1>2, <2>1, <2>2
<1>4. Auditable(s) = Select(FlattenSeq(r), ReadableMessages) /\ Auditable(ls) = Select(FlattenSeq(t), ReadableMessages)
  BY DEF Auditable, Texts
<1> HIDE DEF r, t, text
<1>5. r \in Seq(Seq(Messages))
  BY <1>3
<1>6. /\ c \in Seq(Seq(Messages)) /\ Len(c) = Len(r) + 1 /\ c[Len(r) + 1] = text
      /\ \A i \in 1..Len(r) : c[i] = r[i]
  BY <1>1, <1>5, MoreIn, MoreAt
<1> HIDE DEF c
<1>7. ASSUME NEW i \in 1..Len(t) PROVE t[i] = c[i]
  <2>1. CASE i = Len(s) + 1
    BY <1>2, <1>3, <1>6, <2>1 DEF text
  <2>2. CASE i # Len(s) + 1
    <3>1. i \in 1..Len(s) /\ i \in 1..(Len(s) + 1)
      BY <1>2, <1>3, <2>2
    <3> QED BY <1>2, <1>3, <1>6, <3>1
  <2> QED BY <2>1, <2>2
<1>8. t = c
  BY <1>2, <1>3, <1>6, <1>7, SeqEqual
<1>9. FlattenSeq(r) \in Seq(Messages) /\ FlattenSeq(t) = Then(FlattenSeq(r), text)
  BY <1>1, <1>5, <1>8, FlattenOneMore DEF c
<1>10. Select(Then(FlattenSeq(r), text), ReadableMessages)
          = Then(Select(FlattenSeq(r), ReadableMessages), Select(text, ReadableMessages))
  BY <1>1, <1>9, SelectThen
<1> QED BY <1>1, <1>4, <1>9, <1>10, SelectIn DEF ls, text

LEMMA AuditableNothing == Auditable(<<>>) = <<>>
<1>1. [i \in DOMAIN <<>> |-> <<>>[i].messages] = <<>>
  OBVIOUS
<1> QED BY <1>1, FlattenNothing, SelectNothing DEF Auditable

LEMMA AuditableOne ==
    ASSUME NEW l \in Lines
    PROVE  /\ Select(l.messages, ReadableMessages) \in Seq(Messages)
           /\ Auditable(<<l>>) = Select(l.messages, ReadableMessages)
<1> DEFINE none == <<>>
<1>1. none \in Seq(Lines) /\ <<l>> = More(none, l)
  BY DEF More
<1> HIDE DEF none
<1>2. Select(l.messages, ReadableMessages) \in Seq(Messages)
      /\ Auditable(<<l>>) = Then(Auditable(none), Select(l.messages, ReadableMessages))
  BY <1>1, AuditableMore
<1> QED BY <1>2, AuditableNothing, ThenNothing DEF none

LEMMA AuditableIn ==
    ASSUME NEW s \in Seq(Lines)
    PROVE  Auditable(s) \in Seq(Messages)
<1>1. CASE Lines = {}
  <2>1. s \in Seq({})
    BY <1>1
  <2>2. s = <<>>
    BY <2>1
  <2>3. <<>> \in Seq(Messages)
    OBVIOUS
  <2> QED BY <2>2, <2>3, AuditableNothing
<1>2. ASSUME NEW l \in Lines PROVE Auditable(s) \in Seq(Messages)
  BY AuditableMore
<1> QED BY <1>1, <1>2

-----------------------------------------------------------------------------
(* The tap: the first k lines are within its limit, and the next is not.   *)
UpTo(s, k) ==
    /\ k \in 0..Len(s) /\ \A i \in 1..k : Audited(s[i])
    /\ k = Len(s) \/ ~Audited(s[k + 1])

LEMMA LongestIs ==
    ASSUME NEW s \in Seq(Lines), NEW k, UpTo(s, k)
    PROVE  Max({n \in 0..Len(s) : \A i \in 1..n : Audited(s[i])}) = k
<1> DEFINE T == {n \in 0..Len(s) : \A i \in 1..n : Audited(s[i])}
<1>1. Len(s) \in Nat /\ k \in T
  BY DEF UpTo
<1>2. \A n \in T : n <= k
  <2> SUFFICES ASSUME NEW n \in T, n > k PROVE FALSE
    BY <1>1
  <2>1. k + 1 \in 1..n /\ k # Len(s)
    BY <1>1
  <2> QED BY <2>1 DEF UpTo
<1>3. \A n \in T : n \in Nat
  BY <1>1
<1> HIDE DEF T
<1>4. \A n \in T : (\A y \in T : n >= y) => n = k
  BY <1>1, <1>2, <1>3
<1>5. \A y \in T : k >= y
  BY <1>1, <1>2, <1>3
<1> QED BY <1>1, <1>4, <1>5 DEF Max, T

(* The lines of a tap after one line more. *)
LEMMA UpToMore ==
    ASSUME NEW s \in Seq(Lines), NEW l \in Lines, NEW k, UpTo(s, k)
    PROVE  /\ k = Len(s) /\ Audited(l) =>
                 UpTo(Append(s, l), k + 1) /\ SubSeq(Append(s, l), 1, k + 1) = More(SubSeq(s, 1, k), l)
           /\ k < Len(s) \/ ~Audited(l) =>
                 UpTo(Append(s, l), k) /\ SubSeq(Append(s, l), 1, k) = SubSeq(s, 1, k)
<1> DEFINE t == Append(s, l)
<1>1. /\ t \in Seq(Lines) /\ Len(t) = Len(s) + 1 /\ t[Len(s) + 1] = l /\ \A i \in 1..Len(s) : t[i] = s[i]
      /\ Len(s) \in Nat
  OBVIOUS
<1>2. k \in Nat /\ k <= Len(s) /\ \A i \in 1..k : i \in 1..Len(s)
  BY <1>1 DEF UpTo
<1> HIDE DEF t
<1>3. ASSUME k = Len(s), Audited(l)
      PROVE  UpTo(t, k + 1) /\ SubSeq(t, 1, k + 1) = More(SubSeq(s, 1, k), l)
  <2>1. UpTo(t, k + 1)
    <3>1. \A i \in 1..(k+1) : i = k + 1 \/ i \in 1..k
      BY <1>2
    <3> QED BY <1>1, <1>2, <1>3, <3>1 DEF UpTo
  <2>2. SubSeq(t, 1, k + 1) = t
    BY <1>1, <1>3
  <2>3. SubSeq(s, 1, k) = s
    BY <1>3
  <2> QED BY <2>1, <2>2, <2>3 DEF t, More
<1>4. ASSUME k < Len(s) \/ ~Audited(l)
      PROVE  UpTo(t, k) /\ SubSeq(t, 1, k) = SubSeq(s, 1, k)
  <2>1. UpTo(t, k)
    <3>1. \A i \in 1..k : Audited(t[i])
      BY <1>1, <1>2 DEF UpTo
    <3>2. ~Audited(t[k + 1])
      <4>1. CASE k < Len(s)
        <5>1. k + 1 \in 1..Len(s) /\ k # Len(s)
          BY <1>1, <1>2, <4>1
        <5> QED BY <1>1, <5>1 DEF UpTo
      <4>2. CASE ~Audited(l) /\ k = Len(s)
        BY <1>1, <4>2
      <4> QED BY <1>1, <1>2, <1>4, <4>1, <4>2
    <3> QED BY <1>1, <1>2, <3>1, <3>2 DEF UpTo
  <2> DEFINE u == SubSeq(t, 1, k)
             v == SubSeq(s, 1, k)
  <2>2. u \in Seq(Lines) /\ Len(u) = k /\ \A i \in 1..k : u[i] = t[i]
    BY <1>1, <1>2
  <2>3. v \in Seq(Lines) /\ Len(v) = k /\ \A i \in 1..k : v[i] = s[i]
    BY <1>1, <1>2
  <2> HIDE DEF u, v
  <2>4. u = v
    BY <1>1, <1>2, <2>2, <2>3, SeqEqual
  <2> QED BY <2>1, <2>4 DEF u, v
<1> QED BY <1>3, <1>4 DEF t

-----------------------------------------------------------------------------
(* What the tap of x has met, and what it holds back. *)
TapInv(x) ==
    /\ \E k : /\ UpTo(said[x], k)
              /\ x \notin truncated /\ mode[x] # "other" => k = Len(said[x])
              /\ x \in truncated => k < Len(said[x])
    /\ held[x] = <<>> \/ \E l \in Lines : held[x] = <<l>>
    /\ held[x] # <<>> => at[x] \in {"stream", "deliver"} \/ main = "exited"
    /\ at[x] = "idle" => ~Audited(body[x])

(* One more line of the server. *)
ReadsLine(x, l) ==
    /\ at[x] = "stream" /\ held[x] = <<>> /\ dispatched'[x] = 0
    /\ mode' = mode /\ body' = body /\ audit' = audit /\ main' = main /\ said'[x] = Append(said[x], l)
    /\ IF mode[x] # "other" /\ x \notin truncated /\ Audited(l)
       THEN /\ x \notin truncated'
            /\ \/ at'[x] = "reply" /\ todo'[x] = l.messages /\ events'[x] = <<>> /\ held'[x] = <<>>
               \/ at'[x] = "deliver" /\ held'[x] = <<l>>
       ELSE /\ at'[x] = "deliver" /\ held'[x] = <<>>
            /\ x \in truncated' => x \in truncated \/ ~Audited(l)
            /\ x \in truncated => x \in truncated'
            /\ mode[x] # "other" => x \in truncated'

LEMMA ReadIs ==
    ASSUME IInv, NEW x \in Exchanges, Read(x)
    PROVE  \E l \in Lines : ReadsLine(x, l)
<1>1. /\ at \in [Exchanges -> Places] /\ DOMAIN said = Exchanges /\ DOMAIN dispatched = Exchanges
      /\ DOMAIN todo = Exchanges /\ DOMAIN events = Exchanges /\ DOMAIN held = Exchanges
  BY DEF IInv, TypeOK, Places, Icpt!TypeOK
<1>2. PICK l \in CanSay(x) :
        /\ ReadLine(x, l)
        /\ ReadUntapped(x, l) \/ ReadOverLimit(x, l) \/ ReadComplete(x, l) \/ ReadHeld(x, l)
  BY DEF Read
<1>3. l \in Lines
  BY <1>2, SaidLines DEF IInv
<1>4. /\ at[x] = "stream" /\ held[x] = <<>> /\ dispatched'[x] = 0
      /\ mode' = mode /\ body' = body /\ audit' = audit /\ main' = main /\ said'[x] = Append(said[x], l)
  BY <1>1, <1>2 DEF ReadLine
<1>5. CASE ReadComplete(x, l)
  <2>1. at'[x] = "reply" /\ todo'[x] = l.messages /\ events'[x] = <<>> /\ UNCHANGED <<held, truncated>>
    BY <1>1, <1>5 DEF ReadComplete, Icpt!ParseBegin, Go
  <2>2. mode[x] # "other" /\ x \notin truncated /\ Audited(l)
    BY <1>5 DEF ReadComplete
  <2> QED BY <1>3, <1>4, <2>1, <2>2 DEF ReadsLine
<1>6. CASE ReadHeld(x, l)
  <2>1. at'[x] = "deliver" /\ held'[x] = <<l>> /\ UNCHANGED truncated
    BY <1>1, <1>6 DEF ReadHeld, Go
  <2>2. mode[x] # "other" /\ x \notin truncated /\ Audited(l)
    BY <1>6 DEF ReadHeld
  <2> QED BY <1>3, <1>4, <2>1, <2>2 DEF ReadsLine
<1>7. CASE ReadUntapped(x, l)
  <2>1. at'[x] = "deliver" /\ UNCHANGED <<held, truncated>> /\ (mode[x] = "other" \/ x \in truncated)
    BY <1>1, <1>7 DEF ReadUntapped, Go
  <2> QED BY <1>3, <1>4, <2>1 DEF ReadsLine
<1>8. CASE ReadOverLimit(x, l)
  <2>1. at'[x] = "deliver" /\ UNCHANGED held /\ truncated' = truncated \union {x} /\ ~Audited(l)
    BY <1>1, <1>8 DEF ReadOverLimit, Go, Audited
  <2> QED BY <1>3, <1>4, <2>1 DEF ReadsLine
<1> QED BY <1>2, <1>5, <1>6, <1>7, <1>8

LEMMA TapInit == Init => \A x \in Exchanges : TapInv(x)
<1> SUFFICES ASSUME Init, NEW x \in Exchanges PROVE TapInv(x)
  OBVIOUS
<1>1. /\ said[x] = <<>> /\ held[x] = <<>> /\ x \notin truncated /\ ~Audited(body[x])
  BY DEF Init, Audited
<1>2. UpTo(<<>>, 0) /\ 0 = Len(<<>>)
  BY DEF UpTo
<1> QED BY <1>1, <1>2 DEF TapInv

(* What the other steps leave of it. *)
LEMMA TapLeaves ==
    ASSUME IInv, NEW x \in Exchanges, [Next]_vars, ~Read(x)
    PROVE  /\ said'[x] = said[x] /\ (x \in truncated' <=> x \in truncated)
           /\ mode'[x] = mode[x] \/ at[x] = "wait"
           /\ held'[x] = held[x] \/ (held'[x] = <<>> /\ finish(x))
           /\ body'[x] = body[x] \/ Receive(x)
<1>1. /\ DOMAIN said = Exchanges /\ DOMAIN mode = Exchanges /\ DOMAIN held = Exchanges /\ DOMAIN body = Exchanges
  BY DEF IInv, TypeOK
<1>2. CASE UNCHANGED tapVars
  <2>1. body' = body \/ \E y \in Exchanges : Receive(y)
    BY DEF Next, Handler, ReadBodyFails, ParseMessage, Judge, Dispatch, RequestLogged, writeDenial,
       Forward, handleUpstreamError, modifyResponse, Read, ReadLine, ReplyParsed, ReplyLogged, Deliver, finish,
       Interrupt, ServeFails, ShutdownCompletes, ShutdownTimesOut, ProcessExits, Main, vars
  <2>2. ASSUME NEW y \in Exchanges, Receive(y), y # x PROVE body'[x] = body[x]
    BY <1>1, <2>2 DEF Receive
  <2>3. body'[x] = body[x] \/ Receive(x)
    BY <2>1, <2>2
  <2> QED BY <1>2, <2>3 DEF tapVars
<1>3. ASSUME NEW y \in Exchanges, modifyResponse(y) \/ finish(y)
      PROVE  /\ said'[x] = said[x] /\ (x \in truncated' <=> x \in truncated)
             /\ mode'[x] = mode[x] \/ at[x] = "wait"
             /\ held'[x] = held[x] \/ (held'[x] = <<>> /\ finish(x))
             /\ body'[x] = body[x]
  BY <1>1, <1>3 DEF modifyResponse, finish
<1>4. ASSUME NEW y \in Exchanges, Read(y), y # x
      PROVE  /\ said'[x] = said[x] /\ (x \in truncated' <=> x \in truncated)
             /\ mode'[x] = mode[x] /\ held'[x] = held[x] /\ body'[x] = body[x]
  BY <1>1, <1>4 DEF Read, ReadLine, ReadUntapped, ReadOverLimit, ReadComplete, ReadHeld
<1>5. \/ UNCHANGED tapVars
      \/ \E y \in Exchanges : modifyResponse(y) \/ finish(y) \/ Read(y)
  BY DEF Next, Handler, ReadBodyFails, Receive, ParseMessage, Judge, Dispatch, RequestLogged, writeDenial,
     Forward, handleUpstreamError, ReplyParsed, ReplyLogged, Deliver,
     Interrupt, ServeFails, ShutdownCompletes, ShutdownTimesOut, ProcessExits, Main, vars, tapVars
<1> QED BY <1>2, <1>3, <1>4, <1>5

LEMMA TapKept ==
    ASSUME IInv, NEW x \in Exchanges, TapInv(x), [Next]_vars
    PROVE  TapInv(x)'
<1>1. /\ at \in [Exchanges -> Places] /\ said[x] \in Seq(Lines) /\ Len(said[x]) \in Nat
  BY DEF IInv, TypeOK, Places
<1>2. PICK k : /\ UpTo(said[x], k)
               /\ x \notin truncated /\ mode[x] # "other" => k = Len(said[x])
               /\ x \in truncated => k < Len(said[x])
  BY DEF TapInv
<1>3. k \in Nat /\ k <= Len(said[x])
  BY <1>1, <1>2 DEF UpTo
<1>4. CASE Read(x)
  <2>1. PICK l \in Lines : ReadsLine(x, l)
    BY <1>4, ReadIs
  <2>2. said'[x] = Append(said[x], l) /\ Len(said'[x]) = Len(said[x]) + 1
    BY <1>1, <2>1 DEF ReadsLine
  <2>3. \E j : /\ UpTo(said'[x], j)
               /\ x \notin truncated' /\ mode'[x] # "other" => j = Len(said'[x])
               /\ x \in truncated' => j < Len(said'[x])
    <3>1. CASE k = Len(said[x]) /\ Audited(l)
      <4>1. UpTo(said'[x], k + 1) /\ k + 1 = Len(said'[x])
        BY <1>1, <1>2, <2>2, <3>1, UpToMore
      <4>2. x \notin truncated'
        BY <1>2, <2>1, <3>1 DEF ReadsLine
      <4> QED BY <4>1, <4>2
    <3>2. CASE k < Len(said[x]) \/ ~Audited(l)
      <4>1. UpTo(said'[x], k) /\ k < Len(said'[x])
        BY <1>1, <1>2, <1>3, <2>2, <3>2, UpToMore
      <4>2. x \in truncated' \/ mode'[x] = "other"
        BY <1>2, <2>1, <3>2 DEF ReadsLine
      <4> QED BY <4>1, <4>2
    <3> QED BY <1>1, <1>3, <3>1, <3>2
  <2> QED BY <2>1, <2>3 DEF TapInv, ReadsLine
<1>5. CASE ~Read(x)
  <2>1. /\ said'[x] = said[x] /\ (x \in truncated' <=> x \in truncated)
        /\ mode'[x] = mode[x] \/ at[x] = "wait"
        /\ held'[x] = held[x] \/ (held'[x] = <<>> /\ finish(x))
        /\ body'[x] = body[x] \/ Receive(x)
    BY <1>5, TapLeaves
  <2>2. mode'[x] = mode[x] \/ k = Len(said[x])
    <3>1. at[x] = "wait" => said[x] = <<>>
      BY DEF IInv, Served, Silent
    <3> QED BY <1>1, <1>3, <2>1, <3>1
  <2>3. held'[x] # <<>> => at'[x] \in {"stream", "deliver"} \/ main' = "exited"
    <3> SUFFICES ASSUME held'[x] # <<>> PROVE at'[x] \in {"stream", "deliver"} \/ main' = "exited"
      OBVIOUS
    <3>1. held[x] # <<>> /\ held'[x] = held[x]
      BY <2>1
    <3>2. ~finish(x)
      <4>1. DOMAIN held = Exchanges
        BY DEF IInv, TypeOK
      <4> QED BY <4>1 DEF finish
    <3>3. main = "exited" => main' = "exited"
      BY DEF Next, Handler, ReadBodyFails, Receive, ParseMessage, Judge, Dispatch, RequestLogged, writeDenial,
         Forward, handleUpstreamError, modifyResponse, Read, ReadLine, ReplyParsed, ReplyLogged, Deliver, finish,
         Interrupt, ServeFails, ShutdownCompletes, ShutdownTimesOut, ProcessExits, Main, vars
    <3>4. at[x] = "deliver" => at'[x] \in {"stream", "deliver"} \/ main' = "exited"
      <4> SUFFICES ASSUME at[x] = "deliver", at'[x] # "deliver", main' # "exited" PROVE at'[x] = "stream"
        OBVIOUS
      <4>1. Handler(x)
        <5>1. ASSUME NEW y \in Exchanges, y # x, Handler(y) PROVE at'[x] = at[x]
          BY <5>1, OtherExchanges
        <5> QED BY <5>1 DEF Next, Interrupt, ServeFails, ShutdownCompletes, ShutdownTimesOut, ProcessExits, Main, vars
      <4>2. Deliver(x)
        BY <3>2, <4>1 DEF Handler, ReadBodyFails, Receive, ParseMessage, Judge, Dispatch, RequestLogged, writeDenial,
           Forward, handleUpstreamError, modifyResponse, Read, ReadLine, ReplyParsed, ReplyLogged
      <4>3. x \notin ended
        BY <3>1 DEF IInv, TypeOK
      <4> QED BY <1>1, <4>2, <4>3 DEF Deliver, Go
    <3> QED BY <1>1, <1>5, <3>1, <3>2, <3>3, <3>4, PlaceMoves DEF TapInv
  <2>4. at'[x] = "idle" => ~Audited(body'[x])
    <3> SUFFICES ASSUME at'[x] = "idle" PROVE ~Audited(body'[x])
      OBVIOUS
    <3>1. at[x] = "idle"
      BY PlaceMoves
    <3>2. ~Receive(x)
      BY ReceiveMoves
    <3> QED BY <2>1, <3>1, <3>2 DEF TapInv
  <2>5. \E j : /\ UpTo(said'[x], j)
               /\ x \notin truncated' /\ mode'[x] # "other" => j = Len(said'[x])
               /\ x \in truncated' => j < Len(said'[x])
    BY <1>2, <2>1, <2>2
  <2>6. held'[x] = <<>> \/ \E l \in Lines : held'[x] = <<l>>
    BY <2>1 DEF TapInv
  <2> QED BY <2>3, <2>4, <2>5, <2>6 DEF TapInv
<1> QED BY <1>4, <1>5

-----------------------------------------------------------------------------
(* Of what a side has said in an exchange, rest is still to be logged. *)
Sides == {"client", "server"}
Total(x, side) ==
    IF side = "server" THEN Auditable(Tapped(x))
    ELSE IF Audited(body[x]) THEN Auditable(<<body[x]>>) ELSE <<>>

Reading(side) == IF side = "client" THEN {"request"} ELSE {"reply", "rest"}
Logging(side) == IF side = "client" THEN {"log"} ELSE {"logReply", "logRest"}
Waiting(x, side) == IF side = "client" THEN <<>> ELSE Auditable(held[x])

Owes(x, side, rest) ==
    /\ at[x] \in Reading(side) => rest = Then(Rest(events[x], 0), Select(todo[x], ReadableMessages))
    /\ at[x] \in Logging(side) => rest = Rest(events[x], dispatched[x])
    /\ at[x] \notin Reading(side) \union Logging(side) => rest = Waiting(x, side)

(* A closed dispatcher logs no more, but lines are still read. *)
LoggedBut(x, side, rest) ==
    /\ Then(AuditOf(x, side), rest) = Total(x, side)
    /\ Open => Owes(x, side, rest)

Progress(x) ==
    /\ at[x] \in {"reply", "rest"} => dispatched[x] = 0
    /\ at[x] \in {"log", "logReply", "logRest"} => dispatched[x] <= Len(events[x])

LogInv ==
    \A x \in Exchanges :
        /\ TapInv(x) /\ Progress(x)
        /\ \A side \in Sides : \E rest \in Seq(Messages) : LoggedBut(x, side, rest)

LEMMA EntryTypes ==
    ASSUME IInv
    PROVE  /\ audit \in Seq(Entry) /\ \A a \in Entry : a.event.message \in Messages
           /\ \A x \in Exchanges : /\ events[x] \in Seq(Event) /\ todo[x] \in Seq(Messages)
                                   /\ dispatched[x] \in Nat /\ held[x] \in Seq(Lines)
           /\ \A e \in Event : e.message \in Messages
BY DEF IInv, TypeOK, Icpt!TypeOK, Icpt!Messages, Messages, Entry, Event

LEMMA LogTypes ==
    ASSUME IInv, NEW x \in Exchanges, NEW side
    PROVE  AuditOf(x, side) \in Seq(Messages)
<1> DEFINE set == {a \in Entry : a.exchange = x /\ a.from = side}
<1>1. Select(audit, set) \in Seq(Entry)
  BY EntryTypes, SelectIn
<1> HIDE DEF set
<1>2. Logs(Select(audit, set)) \in Seq(Messages)
  BY <1>1, EntryTypes, LogsIn
<1> QED BY <1>2 DEF AuditOf, Logs, set

LEMMA OneMoreLogged ==
    ASSUME IInv, NEW x \in Exchanges, NEW y \in Exchanges, NEW side \in Sides, NEW from \in Sides, NEW e \in Event,
           audit' = Append(audit, [from |-> from, exchange |-> y, event |-> e])
    PROVE  /\ x = y /\ side = from => AuditOf(x, side)' = More(AuditOf(x, side), e.message)
           /\ x # y \/ side # from => AuditOf(x, side)' = AuditOf(x, side)
<1> DEFINE new == [from |-> from, exchange |-> y, event |-> e]
           set == {a \in Entry : a.exchange = x /\ a.from = side}
<1>1. audit \in Seq(Entry) /\ Speak(Entry, Messages)
  BY EntryTypes DEF Speak
<1>2. new \in Entry /\ new.event.message = e.message /\ (new \in set <=> x = y /\ side = from)
  BY DEF Entry, Event, Sides
<1>3. audit' = More(audit, new)
  BY DEF More
<1>4. AuditOf(x, side) = Logs(Select(audit, set)) /\ AuditOf(x, side)' = Logs(Select(audit', set))
  BY DEF AuditOf, Logs
<1> HIDE DEF new, set
<1>5. /\ new \in set => Logs(Select(More(audit, new), set)) = More(Logs(Select(audit, set)), new.event.message)
      /\ new \notin set => Logs(Select(More(audit, new), set)) = Logs(Select(audit, set))
  BY <1>1, <1>2, SelectedLogs
<1> QED BY <1>2, <1>3, <1>4, <1>5

LEMMA TappedIs ==
    ASSUME IInv, NEW x \in Exchanges, NEW k, UpTo(said[x], k)
    PROVE  Tapped(x) = IF mode[x] = "other" THEN <<>> ELSE SubSeq(said[x], 1, k)
<1>1. said[x] \in Seq(Lines)
  BY DEF IInv, TypeOK
<1>2. Max({n \in 0..Len(said[x]) : \A i \in 1..n : Audited(said[x][i])}) = k
  BY <1>1, LongestIs
<1> QED BY <1>2 DEF Tapped

LEMMA LogInit == Init => LogInv
<1> SUFFICES ASSUME Init, NEW x \in Exchanges, NEW side \in Sides
             PROVE  Progress(x) /\ LoggedBut(x, side, <<>>)
  <2>1. <<>> \in Seq(Messages) /\ \E side : side \in Sides
    BY DEF Sides
  <2> QED BY <2>1, TapInit, Zenon DEF LogInv
<1>1. /\ at[x] = "idle" /\ said[x] = <<>> /\ held[x] = <<>> /\ audit = <<>> /\ body[x].form = "none"
      /\ mode[x] = "none"
  BY DEF Init
<1>2. Logs(Select(<<>>, {a \in Entry : a.exchange = x /\ a.from = side})) = <<>>
  BY SelectNothing DEF Logs
<1>3. AuditOf(x, side) = <<>>
  BY <1>1, <1>2 DEF AuditOf, Logs
<1>4. Tapped(x) = <<>>
  <2>1. UpTo(said[x], 0)
    BY <1>1 DEF UpTo
  <2>2. IInv
    BY InitIsInv
  <2>3. Tapped(x) = SubSeq(said[x], 1, 0)
    BY <1>1, <2>1, <2>2, TappedIs
  <2>4. SubSeq(<<>>, 1, 0) = <<>>
    OBVIOUS
  <2> QED BY <1>1, <2>3, <2>4
<1>5. Total(x, side) = <<>> /\ Waiting(x, side) = <<>>
  BY <1>1, <1>4, AuditableNothing DEF Total, Waiting, Audited
<1>6. Then(<<>>, <<>>) = <<>>
  BY DEF Then
<1> QED BY <1>1, <1>3, <1>5, <1>6 DEF LoggedBut, Owes, Progress, Reading, Logging

(* What one side has said grows only where it speaks. *)
LEMMA TotalStays ==
    ASSUME IInv, NEW x \in Exchanges, TapInv(x), [Next]_vars, TypeOK', NEW side \in Sides,
           (side = "client" /\ ~Receive(x)) \/ (side = "server" /\ ~Read(x))
    PROVE  Total(x, side)' = Total(x, side)
<1>1. CASE side = "client" /\ Read(x)
  <2>1. body'[x] = body[x]
    BY <1>1, ReadMoves
  <2> QED BY <1>1, <2>1 DEF Total
<1>2. CASE side = "client" /\ ~Read(x) /\ ~Receive(x)
  <2>1. body'[x] = body[x]
    BY <1>2, TapLeaves
  <2> QED BY <1>2, <2>1 DEF Total
<1>3. CASE side = "server" /\ ~Read(x)
  <2>1. said'[x] = said[x] /\ (mode'[x] = mode[x] \/ at[x] = "wait")
    BY <1>3, TapLeaves
  <2>2. CASE mode'[x] = mode[x]
    BY <1>3, <2>1, <2>2 DEF Total, Tapped
  <2>3. CASE at[x] = "wait"
    <3>1. said[x] = <<>> /\ said'[x] = <<>>
      BY <2>1, <2>3 DEF IInv, Served, Silent
    <3>2. UpTo(<<>>, 0) /\ <<>> \in Seq(Lines)
      BY DEF UpTo
    <3>3. Max({n \in 0..Len(<<>>) : \A i \in 1..n : Audited(<<>>[i])}) = 0
      BY <3>2, LongestIs
    <3>4. SubSeq(<<>>, 1, 0) = <<>>
      OBVIOUS
    <3>5. Tapped(x) = <<>> /\ Tapped(x)' = <<>>
      BY <3>1, <3>3, <3>4 DEF Tapped
    <3> QED BY <1>3, <3>5 DEF Total
  <2> QED BY <2>1, <2>2, <2>3
<1> QED BY <1>1, <1>2, <1>3

LEMMA RestStays ==
    ASSUME NEW x, NEW side, NEW rest, LoggedBut(x, side, rest), Open' => Open,
           AuditOf(x, side)' = AuditOf(x, side), Total(x, side)' = Total(x, side),
           Open' /\ Owes(x, side, rest) => Owes(x, side, rest)'
    PROVE  LoggedBut(x, side, rest)'
<1>1. (Then(AuditOf(x, side), rest) = Total(x, side))'
  <2>1. AuditOf(x, side) = AuditOf(x, side)' /\ Total(x, side) = Total(x, side)'
    OBVIOUS
  <2> QED BY <2>1 DEF LoggedBut
<1> QED BY <1>1 DEF LoggedBut

-----------------------------------------------------------------------------
(* Only a Dispatch of the side logs. *)
LEMMA AuditOfStays ==
    ASSUME IInv, [Next]_vars, NEW x \in Exchanges, NEW side \in Sides, ~(Dispatch(x) /\ at[x] \in Logging(side) /\ Open)
    PROVE  AuditOf(x, side)' = AuditOf(x, side)
<1>1. CASE audit' = audit
  BY <1>1 DEF AuditOf
<1>2. CASE audit' # audit
  <2>1. PICK y \in Exchanges :
          /\ Dispatch(y) /\ Open /\ dispatched[y] + 1 \in DOMAIN events[y]
          /\ audit' = Append(audit, [from |-> IF at[y] = "log" THEN "client" ELSE "server",
                                     exchange |-> y, event |-> events[y][dispatched[y] + 1]])
    BY <1>2, AuditMoves
  <2> DEFINE e == events[y][dispatched[y] + 1]
             from == IF at[y] = "log" THEN "client" ELSE "server"
  <2>2. e \in Event /\ from \in Sides
    <3>1. events[y] \in Seq(Event)
      BY EntryTypes
    <3> QED BY <2>1, <3>1 DEF Sides
  <2>3. at[y] \in {"log", "logReply", "logRest"}
    BY <2>1 DEF Dispatch
  <2>4. x # y \/ side # from
    BY <2>1, <2>3 DEF Logging, Sides
  <2>5. audit' = Append(audit, [from |-> from, exchange |-> y, event |-> e])
    BY <2>1
  <2> HIDE DEF e, from
  <2> QED BY <2>2, <2>4, <2>5, OneMoreLogged
<1> QED BY <1>1, <1>2

LEMMA DispatchLogs ==
    ASSUME IInv, NEW x \in Exchanges, NEW side \in Sides, Dispatch(x), at[x] \in Logging(side), Open
    PROVE  AuditOf(x, side)' = More(AuditOf(x, side), events[x][dispatched[x] + 1].message)
<1> DEFINE e == events[x][dispatched[x] + 1]
           from == IF at[x] = "log" THEN "client" ELSE "server"
<1>1. e \in Event
  <2>1. events[x] \in Seq(Event) /\ dispatched[x] \in Nat /\ dispatched[x] < Len(events[x])
    BY EntryTypes DEF Dispatch
  <2> QED BY <2>1
<1>2. from = side
  BY DEF Logging, Sides, Dispatch
<1>3. audit' = Append(audit, [from |-> from, exchange |-> x, event |-> e])
  BY DEF Dispatch, Open
<1> HIDE DEF e, from
<1>4. AuditOf(x, side)' = More(AuditOf(x, side), e.message)
  BY <1>1, <1>2, <1>3, OneMoreLogged
<1> QED BY <1>4 DEF e

-----------------------------------------------------------------------------
(* The steps of other handlers and of main. *)
Still(x) ==
    /\ at'[x] = at[x] /\ events'[x] = events[x] /\ todo'[x] = todo[x] /\ held'[x] = held[x]
    /\ dispatched'[x] = dispatched[x]

LEMMA OthersStay ==
    ASSUME IInv, [Next]_vars, NEW x \in Exchanges
    PROVE  \/ Handler(x)
           \/ Still(x)
           \/ main' = "exited" /\ at'[x] = "done"
<1>1. CASE UNCHANGED vars \/ Interrupt \/ ServeFails \/ ShutdownCompletes \/ ShutdownTimesOut \/ ProcessExits
  <2>1. UNCHANGED <<events, todo, held, dispatched>> /\ (at' = at \/ (main' = "exited" /\ at'[x] = "done"))
    BY <1>1 DEF vars, Interrupt, ServeFails, ShutdownCompletes, ShutdownTimesOut, ProcessExits, Main, tapVars,
                interceptorVars
  <2> QED BY <2>1 DEF Still
<1>2. ASSUME NEW y \in Exchanges, y # x, Handler(y) PROVE Still(x)
  <2>1. at'[x] = at[x] /\ todo'[x] = todo[x] /\ events'[x] = events[x]
    BY <1>2, OtherExchanges, HandlerKeepsType
  <2>2. held'[x] = held[x] /\ dispatched'[x] = dispatched[x]
    <3>1. DOMAIN held = Exchanges /\ DOMAIN dispatched = Exchanges
      BY DEF IInv, TypeOK
    <3> QED BY <1>2, <3>1 DEF Handler, ReadBodyFails, Receive, ParseMessage, Judge, Dispatch, RequestLogged, writeDenial,
       Forward, handleUpstreamError, modifyResponse, Read, ReadLine, ReadUntapped, ReadOverLimit, ReadComplete, ReadHeld,
       ReplyParsed, ReplyLogged, Deliver, finish, tapVars
  <2> QED BY <2>1, <2>2 DEF Still
<1> QED BY <1>1, <1>2 DEF Next

LEMMA OthersLogged ==
    ASSUME IInv, TypeOK', [Next]_vars, NEW x \in Exchanges, TapInv(x), NEW side \in Sides, NEW rest,
           LoggedBut(x, side, rest), ~Handler(x)
    PROVE  LoggedBut(x, side, rest)'
<1>1. ~Receive(x) /\ ~Read(x) /\ ~Dispatch(x)
  BY DEF Handler
<1>2. AuditOf(x, side)' = AuditOf(x, side) /\ Total(x, side)' = Total(x, side)
  BY <1>1, AuditOfStays, TotalStays DEF Sides
<1>3. (Open' => Open) /\ (main' = "exited" => ~Open')
  BY MainMoves DEF Open
<1>4. Open' /\ Owes(x, side, rest) => Owes(x, side, rest)'
  <2> SUFFICES ASSUME Open', Owes(x, side, rest) PROVE Owes(x, side, rest)'
    OBVIOUS
  <2>1. Still(x)
    BY <1>3, OthersStay
  <2> QED BY <2>1 DEF Owes, Still, Waiting, Reading, Logging
<1> QED BY <1>2, <1>3, <1>4, RestStays

-----------------------------------------------------------------------------
(* The steps of the handler that neither speak nor log. *)

(* A message is read, and its event is the next, unless it is junk. *)
LEMMA OneIsRead ==
    ASSUME IInv, NEW x \in Exchanges, Icpt!parseOne(x)
    PROVE  /\ todo[x] # <<>> /\ Head(todo[x]) \in Messages /\ todo'[x] = Tail(todo[x])
           /\ Head(todo[x]).kind = "junk" => events'[x] = events[x]
           /\ Head(todo[x]).kind # "junk" =>
                 \E e \in Event : e.message = Head(todo[x]) /\ events'[x] = Append(events[x], e)
<1>1. PICK m \in Icpt!Messages :
        /\ Icpt!Reading(x, m)
        /\ \/ Icpt!Request(x, m) \/ Icpt!Notification(x, m)
           \/ Icpt!ReplyToKnown(x, m) \/ Icpt!ReplyToUnknown(x, m) \/ Icpt!Junk(x, m)
  BY DEF Icpt!parseOne
<1>2. /\ todo \in [Exchanges -> Seq(Messages)] /\ pending \in [Ids -> Calls \union {NoCall}]
      /\ DOMAIN events = Exchanges
  BY DEF IInv, TypeOK, Icpt!TypeOK, Icpt!Messages, Messages
<1>3. todo[x] # <<>> /\ m = Head(todo[x]) /\ todo'[x] = Tail(todo[x])
  BY <1>1, <1>2 DEF Icpt!Reading
<1>4. m \in Messages
  BY <1>1 DEF Icpt!Messages, Messages
<1>5. ASSUME NEW call \in Calls \union {NoCall}, Icpt!Emit(x, m, call)
      PROVE  \E e \in Event : e.message = m /\ events'[x] = Append(events[x], e)
  <2> DEFINE e == [message |-> m, call |-> call]
  <2>1. e \in Event /\ e.message = m
    BY <1>4 DEF Event
  <2>2. events'[x] = Append(events[x], e)
    BY <1>2, <1>5 DEF Icpt!Emit
  <2> HIDE DEF e
  <2> QED BY <2>1, <2>2
<1>6. CASE Icpt!Request(x, m) \/ Icpt!Notification(x, m)
  <2>1. m.kind = "request" /\ Icpt!Emit(x, m, m.call)
    BY <1>6 DEF Icpt!Request, Icpt!Notification
  <2>2. m.call \in Calls \union {NoCall}
    BY <1>4 DEF Messages
  <2> QED BY <1>3, <1>4, <1>5, <2>1, <2>2
<1>7. CASE Icpt!ReplyToKnown(x, m)
  <2>1. m.kind = "reply" /\ m.id \in Ids /\ Icpt!Emit(x, m, pending[m.id])
    BY <1>7 DEF Icpt!ReplyToKnown, Icpt!Outstanding
  <2>2. pending[m.id] \in Calls \union {NoCall}
    BY <1>2, <2>1
  <2> QED BY <1>3, <1>4, <1>5, <2>1, <2>2
<1>8. CASE Icpt!ReplyToUnknown(x, m)
  <2>1. m.kind = "reply" /\ Icpt!Emit(x, m, NoCall) /\ NoCall \in Calls \union {NoCall}
    BY <1>8 DEF Icpt!ReplyToUnknown
  <2> QED BY <1>3, <1>4, <1>5, <2>1
<1>9. CASE Icpt!Junk(x, m)
  <2>1. m.kind = "junk" /\ events' = events
    BY <1>9 DEF Icpt!Junk
  <2> QED BY <1>3, <1>4, <2>1
<1> QED BY <1>1, <1>6, <1>7, <1>8, <1>9

LEMMA RestIsTyped ==
    ASSUME IInv, NEW x \in Exchanges
    PROVE  Rest(events[x], 0) \in Seq(Messages) /\ Rest(<<>>, 0) = <<>> /\ Rest(events[x], Len(events[x])) = <<>>
<1>1. events[x] \in Seq(Event) /\ \A e \in Event : e.message \in Messages
  BY EntryTypes
<1>2. 0 \in 0..Len(events[x])
  BY <1>1
<1> QED BY <1>1, <1>2, RestIn, RestNothing

LEMMA ParseLogged ==
    ASSUME IInv, NEW x \in Exchanges, ParseMessage(x), NEW side \in Sides, NEW rest, Owes(x, side, rest)
    PROVE  Owes(x, side, rest)'
<1>1. at[x] \in {"request", "reply", "rest"} /\ UNCHANGED <<at, held, dispatched>> /\ Icpt!parseOne(x)
  BY DEF ParseMessage, tapVars
<1>2. /\ todo[x] # <<>> /\ Head(todo[x]) \in Messages /\ todo'[x] = Tail(todo[x])
      /\ Head(todo[x]).kind = "junk" => events'[x] = events[x]
      /\ Head(todo[x]).kind # "junk" =>
            \E e \in Event : e.message = Head(todo[x]) /\ events'[x] = Append(events[x], e)
  BY <1>1, OneIsRead
<1> DEFINE t == todo[x]
           es == events[x]
           m == Head(t)
           later == Select(Tail(t), ReadableMessages)
<1>3. t \in Seq(Messages) /\ es \in Seq(Event) /\ \A e \in Event : e.message \in Messages
  BY EntryTypes
<1>4. at[x] \in Reading(side) => rest = Then(Rest(es, 0), Select(t, ReadableMessages))
  BY <1>1 DEF Owes
<1>5. m \in Messages /\ (m \in ReadableMessages <=> m.kind # "junk")
  BY <1>2 DEF ReadableMessages
<1>6. later \in Seq(Messages) /\ One(m, ReadableMessages) \in Seq(Messages)
      /\ Select(t, ReadableMessages) = Then(One(m, ReadableMessages), later)
  BY <1>2, <1>3, SelectHead
<1>7. Rest(es, 0) \in Seq(Messages)
  BY RestIsTyped
<1> HIDE DEF t, es, m
<1>8. Then(Rest(es, 0), Select(t, ReadableMessages)) = Then(Rest(events'[x], 0), Select(todo'[x], ReadableMessages))
  <2>1. CASE m.kind = "junk"
    <3>1. One(m, ReadableMessages) = <<>> /\ events'[x] = es
      BY <1>2, <1>5, <2>1 DEF One, es, m, t
    <3>2. Then(<<>>, later) = later
      BY <1>6, ThenNothing
    <3> QED BY <1>2, <1>6, <3>1, <3>2 DEF t
  <2>2. CASE m.kind # "junk"
    <3>1. PICK e \in Event : e.message = m /\ events'[x] = Append(es, e)
      BY <1>2, <2>2 DEF es, m, t
    <3>2. events'[x] = More(es, e)
      BY <3>1 DEF More
    <3>3. Rest(More(es, e), 0) = More(Rest(es, 0), m)
      <4>1. Rest(More(es, e), 0) = More(Rest(es, 0), e.message)
        BY <1>3, RestMore
      <4> QED BY <3>1, <4>1
    <3>4. One(m, ReadableMessages) = <<m>>
      BY <1>5, <2>2 DEF One
    <3>5. Then(Rest(es, 0), Then(One(m, ReadableMessages), later)) = Then(More(Rest(es, 0), m), later)
      <4>1. More(Rest(es, 0), m) = Then(Rest(es, 0), One(m, ReadableMessages))
        BY <1>5, <1>7, <3>4, MoreIsThen
      <4> QED BY <1>6, <1>7, <4>1, ThenAgain
    <3> QED BY <1>2, <1>6, <3>2, <3>3, <3>5 DEF t
  <2> QED BY <2>1, <2>2
<1>9. at[x] \notin Reading(side) => rest = Waiting(x, side) /\ at[x] \notin Logging(side)
  BY <1>1 DEF Owes, Logging
<1>10. Waiting(x, side)' = Waiting(x, side)
  BY <1>1 DEF Waiting
<1>11. at[x] \in Reading(side) => at[x] \notin Logging(side)
  BY <1>1 DEF Logging
<1> QED BY <1>1, <1>4, <1>8, <1>9, <1>10, <1>11 DEF Owes

LEMMA ProgressKept ==
    ASSUME IInv, [Next]_vars, NEW x \in Exchanges, Progress(x)
    PROVE  Progress(x)'
<1>1. /\ at \in [Exchanges -> Places] /\ DOMAIN dispatched = Exchanges /\ DOMAIN events = Exchanges
      /\ events[x] \in Seq(Event) /\ dispatched[x] \in Nat /\ Len(events[x]) \in Nat
  <2>1. events[x] \in Seq(Event)
    BY EntryTypes
  <2> QED BY <2>1 DEF IInv, TypeOK, Places, Icpt!TypeOK
<1>2. CASE ~Handler(x)
  BY <1>2, OthersStay DEF Progress, Still
<1>3. CASE Read(x)
  <2>1. at'[x] \in {"reply", "deliver"} /\ dispatched'[x] = 0
    BY <1>3, ReadIs DEF ReadsLine
  <2> QED BY <2>1 DEF Progress
<1>4. CASE finish(x)
  <2>1. at'[x] = "done" \/ (at'[x] = "rest" /\ dispatched'[x] = 0)
    BY <1>1, <1>4 DEF finish, Go
  <2> QED BY <2>1 DEF Progress
<1>5. CASE Judge(x)
  <2>1. at'[x] = "log" /\ dispatched'[x] = 0 /\ events' = events
    BY <1>1, <1>5 DEF Judge, Go, Icpt!ParseEnd
  <2> QED BY <1>1, <2>1 DEF Progress
<1>6. CASE Dispatch(x)
  <2>1. /\ at' = at /\ at[x] \in {"log", "logReply", "logRest"} /\ events' = events
        /\ dispatched'[x] = dispatched[x] + 1 /\ dispatched[x] < Len(events[x])
    BY <1>1, <1>6 DEF Dispatch, interceptorVars
  <2> QED BY <1>1, <2>1 DEF Progress
<1>7. CASE ReplyParsed(x)
  <2>1. at[x] \in {"reply", "rest"} /\ at'[x] \in {"logReply", "logRest"} /\ UNCHANGED <<events, dispatched>>
    BY <1>1, <1>7 DEF ReplyParsed, Go, Icpt!ParseEnd
  <2> QED BY <1>1, <2>1 DEF Progress
<1>8. CASE ParseMessage(x)
  <2>1. at[x] \in {"request", "reply", "rest"} /\ UNCHANGED <<at, dispatched>>
    BY <1>8 DEF ParseMessage
  <2> QED BY <2>1 DEF Progress
<1>9. CASE \/ ReadBodyFails(x) \/ Receive(x) \/ RequestLogged(x) \/ writeDenial(x) \/ Forward(x)
           \/ handleUpstreamError(x) \/ modifyResponse(x) \/ ReplyLogged(x) \/ Deliver(x)
  <2>1. at'[x] \in {"done", "request", "send", "refuse", "wait", "stream", "deliver"}
    BY <1>1, <1>9 DEF ReadBodyFails, Receive, RequestLogged, writeDenial, Forward, handleUpstreamError,
                      modifyResponse, ReplyLogged, Deliver, Go
  <2> QED BY <2>1 DEF Progress
<1> QED BY <1>2, <1>3, <1>4, <1>5, <1>6, <1>7, <1>8, <1>9 DEF Handler

(* Steps between places where neither side is read nor logged. *)
LEMMA IdleLogged ==
    ASSUME NEW x, NEW side \in Sides, NEW rest, Owes(x, side, rest), held'[x] = held[x],
           at[x] \notin Reading(side) \union Logging(side), at'[x] \notin Reading(side) \union Logging(side)
    PROVE  Owes(x, side, rest)'
BY DEF Owes, Waiting, Reading, Logging

LEMMA ParsedLogged ==
    ASSUME IInv, NEW x \in Exchanges, Progress(x), NEW side \in Sides, NEW rest, Owes(x, side, rest),
           Judge(x) \/ ReplyParsed(x)
    PROVE  Owes(x, side, rest)'
<1>1. at \in [Exchanges -> Places] /\ DOMAIN dispatched = Exchanges
  BY DEF IInv, TypeOK, Places
<1>2. /\ UNCHANGED <<held, events>> /\ todo[x] = <<>> /\ dispatched'[x] = 0
      /\ \/ at[x] = "request" /\ at'[x] = "log"
         \/ at[x] \in {"reply", "rest"} /\ at'[x] \in {"logReply", "logRest"}
  BY <1>1 DEF Judge, ReplyParsed, Go, Icpt!ParseEnd, tapVars, Progress
<1>3. CASE at[x] \in Reading(side)
  <2>1. rest = Then(Rest(events[x], 0), Select(<<>>, ReadableMessages))
    BY <1>2, <1>3 DEF Owes
  <2>2. rest = Rest(events[x], 0)
    BY <2>1, RestIsTyped, SelectNothing, ThenNothing
  <2>3. at'[x] \in Logging(side) /\ at'[x] \notin Reading(side)
    BY <1>2, <1>3 DEF Reading, Logging
  <2> QED BY <1>2, <2>2, <2>3 DEF Owes
<1>4. CASE at[x] \notin Reading(side)
  <2>1. at[x] \notin Reading(side) \union Logging(side) /\ at'[x] \notin Reading(side) \union Logging(side)
    BY <1>2, <1>4 DEF Reading, Logging, Sides
  <2> QED BY <1>2, <2>1, IdleLogged
<1> QED BY <1>3, <1>4

LEMMA RestDone ==
    ASSUME IInv, NEW x \in Exchanges, TapInv(x), Open, NEW side \in Sides, NEW rest, Owes(x, side, rest),
           RequestLogged(x) \/ ReplyLogged(x)
    PROVE  Owes(x, side, rest)'
<1>1. at \in [Exchanges -> Places]
  BY DEF IInv, TypeOK, Places
<1>2. /\ held' = held /\ dispatched[x] = Len(events[x])
      /\ \/ at[x] = "log" /\ at'[x] \in {"refuse", "send"}
         \/ at[x] \in {"logReply", "logRest"} /\ at'[x] \in {"deliver", "done"}
  BY <1>1 DEF RequestLogged, ReplyLogged, Go, tapVars
<1>3. at'[x] \notin Reading(side) \union Logging(side) /\ at[x] \notin Reading(side)
  BY <1>2 DEF Reading, Logging, Sides
<1>4. CASE at[x] \in Logging(side)
  <2>1. rest = <<>>
    BY <1>2, <1>4, RestIsTyped DEF Owes
  <2>2. held[x] = <<>>
    BY <1>2 DEF TapInv, Open
  <2>3. Waiting(x, side)' = <<>>
    BY <1>2, <2>2, AuditableNothing DEF Waiting
  <2> QED BY <1>3, <2>1, <2>3 DEF Owes
<1>5. CASE at[x] \notin Logging(side)
  BY <1>2, <1>3, <1>5, IdleLogged
<1> QED BY <1>4, <1>5

LEMMA FinishLogged ==
    ASSUME IInv, NEW x \in Exchanges, TapInv(x), NEW side \in Sides, NEW rest, Owes(x, side, rest), finish(x)
    PROVE  Owes(x, side, rest)'
<1>1. /\ at \in [Exchanges -> Places] /\ DOMAIN held = Exchanges /\ DOMAIN todo = Exchanges /\ DOMAIN events = Exchanges
  BY DEF IInv, TypeOK, Places, Icpt!TypeOK
<1>2. /\ at[x] \in {"stream", "deliver"} /\ held'[x] = <<>>
      /\ \/ held[x] = <<>> /\ at'[x] = "done"
         \/ held[x] # <<>> /\ at'[x] = "rest" /\ todo'[x] = held[x][1].messages /\ events'[x] = <<>>
  BY <1>1 DEF finish, Go, Icpt!ParseBegin
<1>3. at[x] \notin Reading(side) \union Logging(side) /\ rest = Waiting(x, side)
  BY <1>2 DEF Reading, Logging, Sides, Owes
<1>4. CASE held[x] = <<>>
  <2>1. at'[x] \notin Reading(side) \union Logging(side)
    BY <1>2, <1>4 DEF Reading, Logging, Sides
  <2> QED BY <1>2, <1>3, <1>4, <2>1, IdleLogged
<1>5. CASE held[x] # <<>> /\ side = "client"
  <2>1. at'[x] \notin Reading(side) \union Logging(side)
    BY <1>2, <1>5 DEF Reading, Logging, Sides
  <2> QED BY <1>3, <1>5, <2>1 DEF Owes, Waiting
<1>6. CASE held[x] # <<>> /\ side = "server"
  <2>1. PICK l \in Lines : held[x] = <<l>>
    BY <1>6 DEF TapInv
  <2> DEFINE piece == Select(l.messages, ReadableMessages)
  <2>2. rest = piece /\ piece \in Seq(Messages)
    BY <1>3, <1>6, <2>1, AuditableOne DEF Waiting
  <2>3. todo'[x] = l.messages /\ events'[x] = <<>> /\ at'[x] = "rest"
    <3>1. held[x][1] = l
      BY <2>1
    <3> QED BY <1>2, <1>6, <3>1
  <2>4. Select(todo'[x], ReadableMessages) = piece
    BY <2>3
  <2> HIDE DEF piece
  <2>5. Then(Rest(<<>>, 0), piece) = piece
    BY <2>2, RestIsTyped, ThenNothing
  <2>6. rest = Then(Rest(events'[x], 0), Select(todo'[x], ReadableMessages))
    BY <2>2, <2>3, <2>4, <2>5
  <2> QED BY <1>6, <2>3, <2>6 DEF Owes, Reading, Logging
<1> QED BY <1>4, <1>5, <1>6 DEF Sides

LEMMA QuietLogged ==
    ASSUME IInv, NEW x \in Exchanges, TapInv(x), Progress(x), Open, NEW side \in Sides, NEW rest, Owes(x, side, rest),
           Handler(x), ~Dispatch(x), (side = "client" /\ ~Receive(x)) \/ (side = "server" /\ ~Read(x))
    PROVE  Owes(x, side, rest)'
<1>1. at \in [Exchanges -> Places] /\ DOMAIN held = Exchanges
  BY DEF IInv, TypeOK, Places
<1>2. CASE \/ ReadBodyFails(x) \/ writeDenial(x) \/ Forward(x) \/ handleUpstreamError(x) \/ modifyResponse(x)
           \/ Deliver(x)
  <2>1. held' = held
    BY <1>2 DEF ReadBodyFails, writeDenial, Forward, handleUpstreamError, modifyResponse, Deliver, tapVars
  <2>2. /\ at[x] \in {"idle", "refuse", "send", "wait", "deliver"}
        /\ at'[x] \in {"done", "wait", "stream"}
    BY <1>1, <1>2 DEF ReadBodyFails, writeDenial, Forward, handleUpstreamError, modifyResponse, Deliver, Go
  <2>3. at[x] \notin Reading(side) \union Logging(side) /\ at'[x] \notin Reading(side) \union Logging(side)
    BY <2>2 DEF Reading, Logging, Sides
  <2> QED BY <2>1, <2>3, IdleLogged
<1>3. CASE side = "server" /\ Receive(x)
  <2>1. held' = held /\ at[x] = "idle" /\ at'[x] \in {"request", "send"}
    BY <1>3, ReceiveMoves
  <2>2. at[x] \notin Reading(side) \union Logging(side) /\ at'[x] \notin Reading(side) \union Logging(side)
    BY <1>3, <2>1 DEF Reading, Logging, Sides
  <2> QED BY <2>1, <2>2, IdleLogged
<1>4. CASE side = "client" /\ Read(x)
  <2>1. at[x] = "stream" /\ at'[x] \in {"reply", "deliver"}
    BY <1>4, ReadMoves
  <2> QED BY <1>4, <2>1 DEF Owes, Waiting, Reading, Logging
<1>5. CASE ParseMessage(x)
  BY <1>5, ParseLogged
<1>6. CASE Judge(x) \/ ReplyParsed(x)
  BY <1>6, ParsedLogged
<1>7. CASE RequestLogged(x) \/ ReplyLogged(x)
  BY <1>7, RestDone
<1>8. CASE finish(x)
  BY <1>8, FinishLogged
<1> QED BY <1>2, <1>3, <1>4, <1>5, <1>6, <1>7, <1>8 DEF Handler

-----------------------------------------------------------------------------
(* The steps that speak or log. *)
LEMMA ReceiveLogged ==
    ASSUME IInv, [Next]_vars, NEW x \in Exchanges, TapInv(x), NEW rest, LoggedBut(x, "client", rest), Receive(x)
    PROVE  \E more \in Seq(Messages) : LoggedBut(x, "client", more)'
<1>1. /\ at \in [Exchanges -> Places] /\ DOMAIN body = Exchanges
      /\ DOMAIN todo = Exchanges /\ DOMAIN events = Exchanges
  BY DEF IInv, TypeOK, Places, Icpt!TypeOK
<1>2. at[x] = "idle" /\ Open /\ ~Audited(body[x])
  BY DEF Receive, Open, TapInv
<1>3. PICK l \in CanPost(x) :
        /\ body'[x] = l
        /\ \/ Audited(l) /\ at'[x] = "request" /\ todo'[x] = l.messages /\ events'[x] = <<>>
           \/ ~Audited(l) /\ at'[x] = "send"
  <2>1. PICK l \in CanPost(x) :
          /\ body' = [body EXCEPT ![x] = l]
          /\ \/ Audited(l) /\ Icpt!ParseBegin(x, l.messages) /\ Go(x, "request")
             \/ ~Audited(l) /\ UNCHANGED interceptorVars /\ Go(x, "send")
    BY DEF Receive
  <2>2. Go(x, "request") => at'[x] = "request"
    BY <1>1 DEF Go
  <2>3. Go(x, "send") => at'[x] = "send"
    BY <1>1 DEF Go
  <2>4. Icpt!ParseBegin(x, l.messages) => todo'[x] = l.messages /\ events'[x] = <<>>
    BY <1>1 DEF Icpt!ParseBegin
  <2>5. body'[x] = l
    BY <1>1, <2>1
  <2> QED BY <2>1, <2>2, <2>3, <2>4, <2>5
<1>4. l \in Lines
  BY PostedLines DEF IInv
<1>5. AuditOf(x, "client")' = <<>>
  <2>1. AuditOf(x, "client") \in Seq(Messages)
    BY LogTypes
  <2>2. rest = <<>> /\ Then(AuditOf(x, "client"), rest) = <<>>
    BY <1>2 DEF LoggedBut, Owes, Reading, Logging, Waiting, Total
  <2>3. AuditOf(x, "client") = <<>>
    BY <2>1, <2>2, ThenNothing
  <2>4. ~Dispatch(x)
    BY <1>2 DEF Dispatch
  <2>5. AuditOf(x, "client")' = AuditOf(x, "client")
    BY <2>4, AuditOfStays DEF Sides
  <2> QED BY <2>3, <2>5
<1> DEFINE piece == Select(l.messages, ReadableMessages)
<1>6. piece \in Seq(Messages) /\ Auditable(<<l>>) = piece
  BY <1>4, AuditableOne
<1>7. CASE Audited(l)
  <2>1. Total(x, "client")' = piece
    BY <1>3, <1>6, <1>7 DEF Total
  <2>2. Then(<<>>, piece) = piece
    BY <1>6, ThenNothing
  <2>3. at'[x] = "request" /\ todo'[x] = l.messages /\ events'[x] = <<>>
    BY <1>3, <1>7
  <2>4. Select(todo'[x], ReadableMessages) = piece
    BY <2>3
  <2> HIDE DEF piece
  <2>5. piece = Then(Rest(events'[x], 0), Select(todo'[x], ReadableMessages))
    BY <2>2, <2>3, <2>4, RestIsTyped
  <2>6. \A k : k = piece => Owes(x, "client", k)'
    BY <2>3, <2>5 DEF Owes, Reading, Logging
  <2>7. \A k : k = piece => (Then(AuditOf(x, "client"), k) = Total(x, "client"))'
    BY <1>5, <2>1, <2>2
  <2>8. \E k : k = piece
    OBVIOUS
  <2> QED BY <1>6, <2>6, <2>7, <2>8 DEF LoggedBut
<1>8. CASE ~Audited(l)
  <2>1. Total(x, "client")' = <<>> /\ at'[x] = "send"
    BY <1>3, <1>8 DEF Total
  <2>2. Then(<<>>, <<>>) = <<>>
    BY DEF Then
  <2>3. Owes(x, "client", <<>>)'
    BY <2>1 DEF Owes, Reading, Logging, Waiting
  <2>4. (Then(AuditOf(x, "client"), <<>>) = Total(x, "client"))'
    BY <1>5, <2>1, <2>2
  <2>5. LoggedBut(x, "client", <<>>)' /\ <<>> \in Seq(Messages)
    BY <2>3, <2>4 DEF LoggedBut
  <2> QED BY <2>5
<1> QED BY <1>7, <1>8

(* A line is to be logged, unless the tap has given up or never was. *)
LEMMA TotalMore ==
    ASSUME IInv, NEW x \in Exchanges, TapInv(x), NEW l \in Lines, ReadsLine(x, l)
    PROVE  /\ Total(x, "server") \in Seq(Messages) /\ Select(l.messages, ReadableMessages) \in Seq(Messages)
           /\ IF mode[x] # "other" /\ x \notin truncated /\ Audited(l)
              THEN Total(x, "server")' = Then(Total(x, "server"), Select(l.messages, ReadableMessages))
              ELSE Total(x, "server")' = Total(x, "server")
<1>1. said[x] \in Seq(Lines) /\ said'[x] = Append(said[x], l) /\ mode' = mode
  BY DEF IInv, TypeOK, ReadsLine
<1>2. PICK k : /\ UpTo(said[x], k)
               /\ x \notin truncated /\ mode[x] # "other" => k = Len(said[x])
               /\ x \in truncated => k < Len(said[x])
  BY DEF TapInv
<1>3. k \in Nat /\ k <= Len(said[x]) /\ Len(said[x]) \in Nat /\ said'[x] \in Seq(Lines)
  BY <1>1, <1>2 DEF UpTo
<1> DEFINE tapped == IF mode[x] = "other" THEN <<>> ELSE SubSeq(said[x], 1, k)
<1>4. Tapped(x) = tapped
  BY <1>2, TappedIs
<1>5. tapped \in Seq(Lines)
  <2>1. SubSeq(said[x], 1, k) \in Seq(Lines)
    BY <1>1, <1>3
  <2> QED BY <2>1
<1>6. CASE mode[x] # "other" /\ x \notin truncated /\ Audited(l)
  <2>1. k = Len(said[x])
    BY <1>2, <1>6
  <2>2. UpTo(said'[x], k + 1) /\ SubSeq(said'[x], 1, k + 1) = More(SubSeq(said[x], 1, k), l)
    BY <1>1, <1>2, <1>6, <2>1, UpToMore
  <2>3. Max({n \in 0..Len(said'[x]) : \A i \in 1..n : Audited(said'[x][i])}) = k + 1
    BY <1>3, <2>2, LongestIs
  <2>4. Tapped(x)' = SubSeq(said'[x], 1, k + 1)
    BY <1>1, <1>6, <2>3 DEF Tapped
  <2>5. Tapped(x)' = More(tapped, l)
    BY <1>6, <2>2, <2>4
  <2> HIDE DEF tapped
  <2>6. Auditable(More(tapped, l)) = Then(Auditable(tapped), Select(l.messages, ReadableMessages))
        /\ Auditable(tapped) \in Seq(Messages) /\ Select(l.messages, ReadableMessages) \in Seq(Messages)
    BY <1>5, AuditableMore
  <2>7. Total(x, "server") = Auditable(tapped) /\ Total(x, "server")' = Auditable(More(tapped, l))
    BY <1>4, <2>5 DEF Total
  <2> QED BY <1>6, <2>6, <2>7
<1>7. CASE ~(mode[x] # "other" /\ x \notin truncated /\ Audited(l))
  <2>1. Tapped(x)' = tapped
    <3>1. CASE mode[x] = "other"
      BY <1>1, <3>1 DEF Tapped
    <3>2. CASE mode[x] # "other"
      <4>1. k < Len(said[x]) \/ ~Audited(l)
        BY <1>2, <1>7, <3>2
      <4>2. UpTo(said'[x], k) /\ SubSeq(said'[x], 1, k) = SubSeq(said[x], 1, k)
        BY <1>1, <1>2, <4>1, UpToMore
      <4>3. Max({n \in 0..Len(said'[x]) : \A i \in 1..n : Audited(said'[x][i])}) = k
        BY <1>3, <4>2, LongestIs
      <4> QED BY <1>1, <3>2, <4>2, <4>3 DEF Tapped
    <3> QED BY <3>1, <3>2
  <2> HIDE DEF tapped
  <2>2. Auditable(tapped) \in Seq(Messages) /\ Select(l.messages, ReadableMessages) \in Seq(Messages)
    BY <1>5, AuditableMore
  <2>3. Total(x, "server") = Auditable(tapped) /\ Total(x, "server")' = Auditable(tapped)
    BY <1>4, <2>1 DEF Total
  <2> QED BY <1>7, <2>2, <2>3
<1> QED BY <1>6, <1>7

LEMMA ReadLogged ==
    ASSUME IInv, [Next]_vars, NEW x \in Exchanges, TapInv(x), NEW rest \in Seq(Messages),
           LoggedBut(x, "server", rest), Read(x)
    PROVE  \E more \in Seq(Messages) : LoggedBut(x, "server", more)'
<1>1. PICK l \in Lines : ReadsLine(x, l)
  BY ReadIs
<1>2. at[x] = "stream" /\ held[x] = <<>> /\ main' = main
  BY <1>1 DEF ReadsLine
<1>3. AuditOf(x, "server") \in Seq(Messages) /\ AuditOf(x, "server")' = AuditOf(x, "server")
  BY <1>1, LogTypes DEF ReadsLine, AuditOf
<1>4. Open => rest = <<>>
  BY <1>2, AuditableNothing DEF LoggedBut, Owes, Waiting, Reading, Logging
<1> DEFINE piece == Select(l.messages, ReadableMessages)
<1>5. CASE mode[x] # "other" /\ x \notin truncated /\ Audited(l)
  <2> DEFINE all == Then(rest, piece)
  <2>1. piece \in Seq(Messages) /\ Total(x, "server")' = Then(Total(x, "server"), piece)
    BY <1>1, <1>5, TotalMore
  <2>2. \/ at'[x] = "reply" /\ todo'[x] = l.messages /\ events'[x] = <<>>
        \/ at'[x] = "deliver" /\ held'[x] = <<l>>
    BY <1>1, <1>5 DEF ReadsLine
  <2>3. held'[x] = <<l>> => Auditable(held'[x]) = piece
    BY AuditableOne
  <2>4. todo'[x] = l.messages => Select(todo'[x], ReadableMessages) = piece
    OBVIOUS
  <2> HIDE DEF piece
  <2>5. all \in Seq(Messages) /\ Then(AuditOf(x, "server"), all) = Then(Then(AuditOf(x, "server"), rest), piece)
    BY <1>3, <2>1, ThenIn, ThenAgain
  <2>6. Then(AuditOf(x, "server"), rest) = Total(x, "server")
    BY DEF LoggedBut
  <2>7. Open => all = piece
    BY <1>4, <2>1, ThenNothing
  <2>8. Then(Rest(<<>>, 0), piece) = piece
    BY <2>1, RestIsTyped, ThenNothing
  <2> HIDE DEF all
  <2>9. \A k : k = all => (Then(AuditOf(x, "server"), k) = Total(x, "server"))'
    BY <1>3, <2>1, <2>5, <2>6
  <2>10. \A k : k = piece => Owes(x, "server", k)'
    <3>1. CASE at'[x] = "reply" /\ todo'[x] = l.messages /\ events'[x] = <<>>
      <4>1. piece = Then(Rest(events'[x], 0), Select(todo'[x], ReadableMessages))
        BY <2>4, <2>8, <3>1
      <4> QED BY <3>1, <4>1 DEF Owes, Reading, Logging
    <3>2. CASE at'[x] = "deliver" /\ held'[x] = <<l>>
      BY <2>3, <3>2 DEF Owes, Reading, Logging, Waiting
    <3> QED BY <2>2, <3>1, <3>2
  <2>11. \E k : k = all
    OBVIOUS
  <2> QED BY <1>2, <2>5, <2>7, <2>9, <2>10, <2>11 DEF LoggedBut, Open
<1>6. CASE ~(mode[x] # "other" /\ x \notin truncated /\ Audited(l))
  <2>1. Total(x, "server")' = Total(x, "server")
    BY <1>1, <1>6, TotalMore
  <2>2. at'[x] = "deliver" /\ held'[x] = <<>>
    BY <1>1, <1>6 DEF ReadsLine
  <2>3. Open' => Open
    BY <1>2 DEF Open
  <2>4. Open' /\ Owes(x, "server", rest) => Owes(x, "server", rest)'
    BY <1>2, <2>2 DEF Owes, Reading, Logging, Waiting
  <2>5. LoggedBut(x, "server", rest)'
    BY <1>3, <2>1, <2>3, <2>4, RestStays
  <2> QED BY <2>5
<1> QED BY <1>5, <1>6

LEMMA DispatchLogged ==
    ASSUME IInv, TypeOK', [Next]_vars, NEW x \in Exchanges, TapInv(x), NEW side \in Sides, NEW rest \in Seq(Messages),
           LoggedBut(x, side, rest), Dispatch(x)
    PROVE  \E more \in Seq(Messages) : LoggedBut(x, side, more)'
<1> DEFINE es == events[x]
           d == dispatched[x]
           m == es[d + 1].message
<1>1. /\ es \in Seq(Event) /\ d \in Nat /\ dispatched'[x] = d + 1 /\ d < Len(es)
      /\ at[x] \in {"log", "logReply", "logRest"}
      /\ UNCHANGED <<at, events, todo, held, main>> /\ \A e \in Event : e.message \in Messages
  <2>1. es \in Seq(Event) /\ d \in Nat /\ DOMAIN dispatched = Exchanges /\ \A e \in Event : e.message \in Messages
    BY EntryTypes DEF IInv, TypeOK
  <2> QED BY <2>1 DEF Dispatch, interceptorVars, tapVars
<1>2. m \in Messages /\ Rest(es, d + 1) \in Seq(Messages) /\ Rest(es, d) = First(m, Rest(es, d + 1))
  BY <1>1, RestNext
<1>3. AuditOf(x, side) \in Seq(Messages)
  BY LogTypes
<1>4. Total(x, side)' = Total(x, side)
  <2>1. ~Receive(x) /\ ~Read(x)
    <3>1. at[x] # "idle" /\ at[x] # "stream"
      BY <1>1
    <3> QED BY <3>1, ReceiveMoves, ReadMoves
  <2> QED BY <2>1, TotalStays DEF Sides
<1>5. CASE Open /\ at[x] \in Logging(side)
  <2> DEFINE more == Rest(es, d + 1)
  <2>1. AuditOf(x, side)' = More(AuditOf(x, side), m)
    BY <1>5, DispatchLogs
  <2>2. rest = Rest(es, d) /\ Then(AuditOf(x, side), rest) = Total(x, side)
    BY <1>5 DEF LoggedBut, Owes
  <2> HIDE DEF m
  <2>3. Then(AuditOf(x, side), rest) = Then(More(AuditOf(x, side), m), more)
    BY <1>2, <1>3, <2>2, ThenFirst
  <2>4. \A k : k = more => (Then(AuditOf(x, side), k) = Total(x, side))'
    BY <1>4, <2>1, <2>2, <2>3
  <2>5. at'[x] \in Logging(side) /\ at'[x] \notin Reading(side)
    BY <1>1, <1>5 DEF Logging, Reading
  <2>6. \A k : k = more => Owes(x, side, k)'
    BY <1>1, <2>5 DEF Owes
  <2>7. \E k : k = more
    OBVIOUS
  <2> QED BY <1>2, <2>4, <2>6, <2>7 DEF LoggedBut
<1>6. CASE ~(Open /\ at[x] \in Logging(side))
  <2>1. AuditOf(x, side)' = AuditOf(x, side)
    BY <1>6, AuditOfStays
  <2>2. Open' => Open
    BY <1>1 DEF Open
  <2>3. Open' /\ Owes(x, side, rest) => Owes(x, side, rest)'
    BY <1>1, <1>6, <2>2 DEF Owes, Waiting, Reading
  <2>4. LoggedBut(x, side, rest)'
    BY <1>4, <2>1, <2>2, <2>3, RestStays
  <2> QED BY <2>4
<1> QED BY <1>5, <1>6

LEMMA LogInvariance == Spec => []LogInv
<1>1. LogInv /\ IInv /\ IInv' /\ [Next]_vars => LogInv'
  <2> SUFFICES ASSUME LogInv, IInv, TypeOK', [Next]_vars, NEW x \in Exchanges, NEW side \in Sides
               PROVE  TapInv(x)' /\ Progress(x)' /\ \E more \in Seq(Messages) : LoggedBut(x, side, more)'
    <3>1. \E side : side \in Sides
      BY DEF Sides
    <3> QED BY <3>1, Zenon DEF LogInv, IInv
  <2>1. TapInv(x) /\ Progress(x)
    BY DEF LogInv
  <2>2. PICK rest \in Seq(Messages) : LoggedBut(x, side, rest)
    BY DEF LogInv
  <2>3. TapInv(x)' /\ Progress(x)'
    BY <2>1, TapKept, ProgressKept
  <2>4. CASE ~Handler(x)
    BY <2>1, <2>2, <2>3, <2>4, OthersLogged
  <2>5. CASE Dispatch(x)
    BY <2>1, <2>2, <2>3, <2>5, DispatchLogged
  <2>6. CASE side = "client" /\ Receive(x)
    BY <2>1, <2>2, <2>3, <2>6, ReceiveLogged
  <2>7. CASE side = "server" /\ Read(x)
    BY <2>1, <2>2, <2>3, <2>7, ReadLogged
  <2>8. CASE Handler(x) /\ ~Dispatch(x) /\ ((side = "client" /\ ~Receive(x)) \/ (side = "server" /\ ~Read(x)))
    <3>1. AuditOf(x, side)' = AuditOf(x, side) /\ Total(x, side)' = Total(x, side)
      BY <2>1, <2>8, AuditOfStays, TotalStays
    <3>2. Open' => Open
      BY MainMoves
    <3>3. Open' /\ Owes(x, side, rest) => Owes(x, side, rest)'
      BY <2>1, <2>8, <3>2, QuietLogged
    <3>4. LoggedBut(x, side, rest)'
      BY <2>2, <3>1, <3>2, <3>3, RestStays
    <3> QED BY <2>3, <3>4
  <2> QED BY <2>4, <2>5, <2>6, <2>7, <2>8 DEF Sides
<1> QED BY <1>1, LogInit, Invariance, PTL DEF Spec

(* The log has what was said in an exchange in either direction, message   *)
(* by message, in its order and each once, but for the junk, the line in   *)
(* hand and what the tap is not to audit; while it is open it has all of a *)
(* request before that gets out, and all of the responses up to the line   *)
(* in the tap when the client gets them and when the exchange is over.     *)
THEOREM LogIsFaithful == Spec => []AuditFollowsTraffic
<1>1. LogInv /\ IInv => AuditFollowsTraffic
  <2> SUFFICES ASSUME LogInv, IInv, NEW x \in Exchanges
               PROVE  /\ IsPrefix(AuditOf(x, "client"), Total(x, "client"))
                      /\ Open /\ at[x] \notin {"idle", "request", "log"} => AuditOf(x, "client") = Total(x, "client")
                      /\ IsPrefix(AuditOf(x, "server"), Total(x, "server"))
                      /\ Open /\ at[x] \in {"deliver", "stream", "done"} =>
                            AuditOf(x, "server") \o Auditable(held[x]) = Total(x, "server")
    BY DEF AuditFollowsTraffic, Open, Total
  <2>1. ASSUME NEW side \in Sides
        PROVE  \E rest \in Seq(Messages) : LoggedBut(x, side, rest)
    BY <2>1 DEF LogInv
  <2>2. PICK rest \in Seq(Messages) : LoggedBut(x, "client", rest)
    BY <2>1 DEF Sides
  <2>3. PICK later \in Seq(Messages) : LoggedBut(x, "server", later)
    BY <2>1 DEF Sides
  <2>4. AuditOf(x, "client") \in Seq(Messages) /\ Then(AuditOf(x, "client"), rest) = Total(x, "client")
    BY <2>2, LogTypes DEF LoggedBut
  <2>5. AuditOf(x, "server") \in Seq(Messages) /\ Then(AuditOf(x, "server"), later) = Total(x, "server")
    BY <2>3, LogTypes DEF LoggedBut
  <2>6. IsPrefix(AuditOf(x, "client"), Total(x, "client")) /\ IsPrefix(AuditOf(x, "server"), Total(x, "server"))
    BY <2>4, <2>5, ThenIsLonger
  <2>7. rest = <<>> => AuditOf(x, "client") = Total(x, "client")
    BY <2>4, ThenNothing
  <2>8. Open /\ at[x] \notin {"idle", "request", "log"} => rest = <<>>
    BY <2>2 DEF LoggedBut, Owes, Reading, Logging, Waiting
  <2>9. Open /\ at[x] \in {"deliver", "stream", "done"} => later = Auditable(held[x])
    BY <2>3 DEF LoggedBut, Owes, Reading, Logging, Waiting
  <2> QED BY <2>5, <2>6, <2>7, <2>8, <2>9 DEF Then
<1> QED BY <1>1, LogInvariance, Invariance, PTL
=============================================================================
