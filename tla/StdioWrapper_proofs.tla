------------------------ MODULE StdioWrapper_proofs ------------------------
(***************************************************************************)
(* Whatever the two sides send and however the pumps are scheduled, a      *)
(* refused call does not reach the server, none is answered twice and all  *)
(* other lines get through unchanged and in order, but for what the shared *)
(* table mistakes when both sides use one id; and the log has them message *)
(* by message. The invariants say what the pumps know of the line in hand  *)
(* at each place, and what has become of the lines before it.              *)
(***************************************************************************)
EXTENDS StdioWrapper, Selection_proofs, FiniteSetTheorems

(* The lemmas about the Interceptor apply to the one of the session. *)
IcptProofs == INSTANCE Interceptor_proofs WITH
    Goroutines <- Pumps, Payloads <- {}, MaxTraffic <- 0

(* A single line holds one message. *)
LineOk(l) == l.form = "single" => Len(l.messages) = 1

InHand == line["toServer"]

Judged ==
    /\ \A i \in DOMAIN sent["toServer"] : LineOk(sent["toServer"][i])
    /\ at["toServer"] \in {"parse", "write"} => LineOk(InHand)
    /\ at["toServer"] = "parse" /\ IsRefusedCall(InHand) =>
          \/ todo["toServer"] = InHand.messages /\ events["toServer"] = <<>>
          \/ /\ todo["toServer"] = <<>>
             /\ events["toServer"] = <<[message |-> InHand.messages[1], call |-> InHand.messages[1].call]>>
    /\ at["toServer"] = "write" => ~IsRefusedCall(InHand)
    /\ at["toServer"] = "deny" => Refused

IInv == TypeOK /\ Icpt!TableAgrees /\ Judged /\ RefusedNeverReachesServer

LEMMA PumpNames == "toServer" \in Pumps /\ "toClient" \in Pumps /\ "toServer" # "toClient"
BY DEF Pumps

LEMMA OneElement ==
    ASSUME NEW S, NEW s \in Seq(S), Len(s) = 1
    PROVE  s # <<>> /\ Head(s) = s[1] /\ Tail(s) = <<>>
<1>1. s # <<>>
  OBVIOUS
<1>2. Tail(s) \in Seq(S) /\ Len(Tail(s)) = 0
  BY <1>1, HeadTailProperties
<1>3. Tail(s) = <<>>
  BY <1>2, EmptySeq
<1> QED BY <1>1, <1>3

LEMMA TailIsPart ==
    ASSUME NEW S, NEW s \in Seq(S), s # <<>>
    PROVE  Range(Tail(s)) \subseteq Range(s) /\ Range(s) = {Head(s)} \union Range(Tail(s))
<1>1. Tail(s) \in Seq(S) /\ Len(Tail(s)) = Len(s) - 1 /\ Head(s) = s[1] /\ Len(s) \in Nat /\ Len(s) > 0
  OBVIOUS
<1>2. DOMAIN s = 1..Len(s) /\ DOMAIN Tail(s) = 1..(Len(s) - 1)
  BY <1>1
<1>3. \A i \in 1..(Len(s) - 1) : Tail(s)[i] = s[i + 1]
  BY HeadTailProperties
<1>4. ASSUME NEW i \in DOMAIN Tail(s) PROVE Tail(s)[i] \in Range(s)
  <2>1. i + 1 \in DOMAIN s
    BY <1>1, <1>2
  <2> QED BY <1>2, <1>3, <2>1 DEF Range
<1>5. ASSUME NEW i \in DOMAIN s PROVE s[i] \in {Head(s)} \union Range(Tail(s))
  <2>1. CASE i = 1
    BY <1>1, <2>1
  <2>2. CASE i > 1
    <3>1. i - 1 \in DOMAIN Tail(s) /\ Tail(s)[i - 1] = s[i]
      BY <1>1, <1>2, <1>3, <2>2
    <3> QED BY <3>1 DEF Range
  <2> QED BY <1>1, <1>2, <2>1, <2>2
<1>6. Head(s) \in Range(s)
  BY <1>1, <1>2 DEF Range
<1> QED BY <1>4, <1>5, <1>6 DEF Range

(* Interceptor_proofs speaks of its own instance of Interceptor. *)
LEMMA SameInterceptor ==
    /\ IcptProofs!InterceptorAssumption
    /\ IcptProofs!Init <=> Icpt!Init
    /\ IcptProofs!TypeOK <=> Icpt!TypeOK
    /\ IcptProofs!TableAgrees <=> Icpt!TableAgrees
<1>1. IcptProofs!InterceptorAssumption
  BY StdioWrapperAssumption DEF IcptProofs!InterceptorAssumption
<1>2. IcptProofs!Init <=> Icpt!Init
  BY DEF IcptProofs!Init, Icpt!Init
<1>3. IcptProofs!TypeOK <=> Icpt!TypeOK
  BY DEF IcptProofs!TypeOK, Icpt!TypeOK, IcptProofs!Messages, Icpt!Messages
<1>4. IcptProofs!TableAgrees <=> Icpt!TableAgrees
  BY DEF IcptProofs!TableAgrees, Icpt!TableAgrees, IcptProofs!Outstanding, Icpt!Outstanding,
         IcptProofs!Range, Icpt!Range, IcptProofs!IsInjective, Icpt!IsInjective
<1> QED BY <1>1, <1>2, <1>3, <1>4

LEMMA ParseKeepsInterceptor ==
    ASSUME Icpt!TypeOK, Icpt!TableAgrees, NEW p \in Pumps, Icpt!parseOne(p)
    PROVE  (Icpt!TypeOK /\ Icpt!TableAgrees)'
<1>1. IcptProofs!IInv
  BY SameInterceptor DEF IcptProofs!IInv
<1>2. IcptProofs!parseOne(p)
  BY DEF IcptProofs!parseOne, Icpt!parseOne, IcptProofs!Messages, Icpt!Messages,
         IcptProofs!Reading, Icpt!Reading, IcptProofs!Request, Icpt!Request,
         IcptProofs!Notification, Icpt!Notification, IcptProofs!ReplyToKnown, Icpt!ReplyToKnown,
         IcptProofs!ReplyToUnknown, Icpt!ReplyToUnknown, IcptProofs!Junk, Icpt!Junk,
         IcptProofs!Emit, Icpt!Emit, IcptProofs!Observe, Icpt!Observe,
         IcptProofs!rememberPending, Icpt!rememberPending, IcptProofs!takePending, Icpt!takePending,
         IcptProofs!Outstanding, Icpt!Outstanding, IcptProofs!RemoveAt, Icpt!RemoveAt
<1>3. IcptProofs!IInv'
  BY <1>1, <1>2, SameInterceptor, IcptProofs!ParseOneKeepsInv
<1>4. Icpt!TypeOK'
  BY <1>3 DEF IcptProofs!IInv, IcptProofs!TypeOK, Icpt!TypeOK, IcptProofs!Messages, Icpt!Messages
<1>5. Icpt!TableAgrees'
  BY <1>3 DEF IcptProofs!IInv, IcptProofs!TableAgrees, Icpt!TableAgrees,
         IcptProofs!Outstanding, Icpt!Outstanding,
         IcptProofs!Range, Icpt!Range, IcptProofs!IsInjective, Icpt!IsInjective
<1> QED BY <1>4, <1>5

LEMMA InitIsInv == Init => IInv
<1> SUFFICES ASSUME Init PROVE IInv
  OBVIOUS
<1>1. Icpt!TypeOK /\ Icpt!TableAgrees
  BY IcptProofs!InitIsInv, SameInterceptor DEF Init, IcptProofs!IInv
<1>2. TypeOK
  BY <1>1 DEF Init, TypeOK, Pumps, Lines
<1>3. Judged /\ RefusedNeverReachesServer
  BY PumpNames DEF Init, Judged, RefusedNeverReachesServer
<1> QED BY <1>1, <1>2, <1>3 DEF IInv

-----------------------------------------------------------------------------
(* What the two sides send. *)

LEMMA SentLines ==
    ASSUME TypeOK, NEW p \in Pumps, NEW l \in CanSend(p)
    PROVE  l \in Lines /\ LineOk(l)
<1>1. \A m \in Asked(Received(p)) : m \in Messages
  <2>1. Received(p) \in Seq(Lines)
    BY DEF TypeOK, Received
  <2>2. \A i \in DOMAIN Received(p) : Received(p)[i] \in Lines
    BY <2>1
  <2>3. \A x \in Lines : x.messages \in Seq(Messages)
    BY DEF Lines
  <2> QED BY <2>2, <2>3 DEF Asked, MessagesIn, Range
<1>2. \A m \in Messages : Reply(m) \in Messages
  BY DEF Messages, Reply
<1>3. CanSay(p) \subseteq Messages /\ Junk \in Messages
  BY <1>1, <1>2, StdioWrapperAssumption DEF CanSay, Messages, Junk, Ids
<1>4. CASE l \in [form : Forms \ {"batch", "junk"}, messages : {<<m>> : m \in CanSay(p)}]
  <2>1. PICK m \in CanSay(p) : l.messages = <<m>>
    BY <1>4
  <2>2. l.form \in {"single", "big"} /\ l = [form |-> l.form, messages |-> l.messages]
    BY <1>4, StdioWrapperAssumption
  <2>3. <<m>> \in Seq(Messages) /\ Len(<<m>>) = 1
    BY <1>3
  <2> QED BY <2>1, <2>2, <2>3 DEF Lines, LineOk
<1>5. CASE l = [form |-> "single", messages |-> <<Junk>>]
  BY <1>3, <1>5 DEF Lines, LineOk
<1>6. CASE l \in [form : {"batch"}, messages : {<<m, Junk, n>> : m \in CanSay(p), n \in CanSay(p)}]
  <2>1. PICK m \in CanSay(p), n \in CanSay(p) : l.messages = <<m, Junk, n>>
    BY <1>6
  <2>2. l.form = "batch" /\ l = [form |-> l.form, messages |-> l.messages]
    BY <1>6
  <2>3. <<m, Junk, n>> \in Seq(Messages)
    BY <1>3
  <2> QED BY <2>1, <2>2, <2>3 DEF Lines, LineOk
<1> QED BY <1>4, <1>5, <1>6 DEF CanSend

-----------------------------------------------------------------------------
(* Every action keeps the invariant. *)

LEMMA SayKeepsInv ==
    ASSUME IInv, NEW p \in Pumps, Say(p)
    PROVE  IInv'
<1>1. PICK l \in CanSend(p) : sent' = [sent EXCEPT ![p] = Append(@, l)]
  BY DEF Say
<1>2. l \in Lines /\ LineOk(l)
  BY SentLines DEF IInv
<1>3. sent \in [Pumps -> Seq(Lines)]
  BY DEF IInv, TypeOK
<1>4. sent' \in [Pumps -> Seq(Lines)]
  BY <1>1, <1>2, <1>3
<1>5. Icpt!TypeOK' /\ Icpt!TableAgrees'
  BY DEF IInv, TypeOK, Say, interceptorVars, Icpt!TypeOK, Icpt!TableAgrees, Icpt!Outstanding
<1>6. TypeOK'
  BY <1>4, <1>5 DEF IInv, TypeOK, Say, pumpVars
<1>7. \A i \in DOMAIN sent'["toServer"] : LineOk(sent'["toServer"][i])
  <2>1. sent["toServer"] \in Seq(Lines) /\ \A i \in DOMAIN sent["toServer"] : LineOk(sent["toServer"][i])
    BY <1>3, PumpNames DEF IInv, Judged
  <2>2. sent'["toServer"] \in {sent["toServer"], Append(sent["toServer"], l)}
    BY <1>1, <1>3, PumpNames
  <2> QED BY <1>2, <2>1, <2>2
<1>8. Judged' /\ RefusedNeverReachesServer'
  BY <1>7 DEF IInv, Judged, RefusedNeverReachesServer, Say, pumpVars, interceptorVars, InHand, Refused
<1> QED BY <1>5, <1>6, <1>8 DEF IInv

LEMMA EnvironmentKeepsInv ==
    ASSUME IInv, ServerExits \/ ClientClosesStdin \/ ClientStopsReading
    PROVE  IInv'
<1>1. UNCHANGED <<interceptorVars, pumpVars, serverGot, clientGot, audit, sent, main>>
  BY DEF ServerExits, ClientClosesStdin, ClientStopsReading
<1>2. Icpt!TypeOK' /\ Icpt!TableAgrees'
  BY <1>1 DEF IInv, TypeOK, interceptorVars, Icpt!TypeOK, Icpt!TableAgrees, Icpt!Outstanding
<1>3. TypeOK'
  BY <1>1, <1>2 DEF IInv, TypeOK, pumpVars, ServerExits, ClientClosesStdin, ClientStopsReading
<1>4. Judged' /\ RefusedNeverReachesServer'
  BY <1>1 DEF IInv, Judged, RefusedNeverReachesServer, pumpVars, interceptorVars, InHand, Refused
<1> QED BY <1>2, <1>3, <1>4 DEF IInv

LEMMA RunKeepsInv ==
    ASSUME IInv, Run
    PROVE  IInv'
<1>1. UNCHANGED <<interceptorVars, line, taken, dispatched, serverGot, clientGot, audit, worldVars>>
  BY DEF Run, RunReturns, CloseDispatcher, ProcessExits, pumpVars
<1>2. Icpt!TypeOK' /\ Icpt!TableAgrees'
  BY <1>1 DEF IInv, TypeOK, interceptorVars, Icpt!TypeOK, Icpt!TableAgrees, Icpt!Outstanding
<1>3. at' = at \/ at' = [at EXCEPT !["toServer"] = "ended"]
  BY DEF Run, RunReturns, CloseDispatcher, ProcessExits, pumpVars, Go
<1>4. main' \in {"waiting", "returned", "closed", "exited"}
  BY DEF Run, RunReturns, CloseDispatcher, ProcessExits
<1>5. TypeOK'
  BY <1>1, <1>2, <1>3, <1>4 DEF IInv, TypeOK, worldVars
<1>6. Judged' /\ RefusedNeverReachesServer'
  BY <1>1, <1>3, PumpNames
  DEF IInv, TypeOK, Judged, RefusedNeverReachesServer, worldVars, interceptorVars, InHand, Refused
<1> QED BY <1>2, <1>5, <1>6 DEF IInv

(* The Interceptor's share: what the steps of a pump do to it. *)
LEMMA InterceptorSteps ==
    ASSUME IInv, NEW p \in Pumps,
           \/ UNCHANGED interceptorVars
           \/ Icpt!parseOne(p) \/ Icpt!ParseEnd(p)
           \/ \E l \in Lines : Icpt!ParseBegin(p, Readable(l))
    PROVE  /\ Icpt!TypeOK' /\ Icpt!TableAgrees'
           /\ \A q \in Pumps \ {p} : todo'[q] = todo[q] /\ events'[q] = events[q]
<1>1. Icpt!TypeOK /\ Icpt!TableAgrees
  BY DEF IInv, TypeOK
<1>2. CASE UNCHANGED interceptorVars
  BY <1>1, <1>2 DEF interceptorVars, Icpt!TypeOK, Icpt!TableAgrees, Icpt!Outstanding
<1>3. CASE Icpt!parseOne(p)
  <2>1. \A q \in Pumps \ {p} : todo'[q] = todo[q]
    BY <1>1, <1>3 DEF Icpt!parseOne, Icpt!Reading, Icpt!TypeOK
  <2>2. \A q \in Pumps \ {p} : events'[q] = events[q]
    BY <1>1, <1>3 DEF Icpt!parseOne, Icpt!TypeOK, Icpt!Emit, Icpt!Request, Icpt!Notification,
                      Icpt!ReplyToKnown, Icpt!ReplyToUnknown, Icpt!Junk
  <2> QED BY <1>1, <1>3, <2>1, <2>2, ParseKeepsInterceptor
<1>4. CASE Icpt!ParseEnd(p)
  BY <1>1, <1>4 DEF Icpt!ParseEnd, Icpt!TypeOK, Icpt!TableAgrees, Icpt!Outstanding
<1>5. ASSUME NEW l \in Lines, Icpt!ParseBegin(p, Readable(l))
      PROVE  /\ Icpt!TypeOK' /\ Icpt!TableAgrees'
             /\ \A q \in Pumps \ {p} : todo'[q] = todo[q] /\ events'[q] = events[q]
  <2>1. Readable(l) \in Seq(Icpt!Messages)
    BY DEF Readable, Lines, Messages, Icpt!Messages
  <2>2. <<>> \in Seq([message : Icpt!Messages, call : Calls \union {NoCall}])
    OBVIOUS
  <2>3. todo' \in [Pumps -> Seq(Icpt!Messages)]
    BY <1>1, <1>5, <2>1 DEF Icpt!ParseBegin, Icpt!TypeOK
  <2>4. events' \in [Pumps -> Seq([message : Icpt!Messages, call : Calls \union {NoCall}])]
    BY <1>1, <1>5, <2>2 DEF Icpt!ParseBegin, Icpt!TypeOK
  <2>5. \A q \in Pumps \ {p} : todo'[q] = todo[q] /\ events'[q] = events[q]
    BY <1>1, <1>5 DEF Icpt!ParseBegin, Icpt!TypeOK
  <2>6. Icpt!TableAgrees' /\ UNCHANGED <<pending, order, traffic>> /\ parsing' \subseteq Pumps
    BY <1>1, <1>5 DEF Icpt!ParseBegin, Icpt!TypeOK, Icpt!TableAgrees, Icpt!Outstanding
  <2> QED BY <1>1, <2>3, <2>4, <2>5, <2>6 DEF Icpt!TypeOK
<1> QED BY <1>2, <1>3, <1>4, <1>5

LEMMA StepsOfInterceptor ==
    ASSUME IInv, NEW p \in Pumps, (p = "toServer" /\ pumpToServer) \/ (p = "toClient" /\ pumpToClient)
    PROVE  \/ UNCHANGED interceptorVars
           \/ Icpt!parseOne(p) \/ Icpt!ParseEnd(p)
           \/ \E l \in Lines : Icpt!ParseBegin(p, Readable(l))
<1>1. CASE p = "toServer" /\ pumpToServer
  <2>1. ASSUME ReadFromClient PROVE \E l \in Lines : Icpt!ParseBegin("toServer", Readable(l))
    <3>1. taken["toServer"] + 1 \in DOMAIN sent["toServer"] /\ sent["toServer"] \in Seq(Lines)
      BY <2>1, PumpNames DEF ReadFromClient, NextLine, IInv, TypeOK
    <3>2. line'["toServer"] = sent["toServer"][taken["toServer"] + 1]
      BY <2>1, PumpNames DEF ReadFromClient, NextLine, IInv, TypeOK
    <3>3. line'["toServer"] \in Lines
      BY <3>1, <3>2
    <3> QED BY <2>1, <3>3 DEF ReadFromClient
  <2> QED BY <1>1, <2>1 DEF pumpToServer, EndOfInput, ParseMessage, Judge, WriteToServer, WriteFails,
                            Dispatch, DispatchDone, denyRequest
<1>2. CASE p = "toClient" /\ pumpToClient
  <2>1. line["toClient"] \in Lines
    BY PumpNames DEF IInv, TypeOK
  <2> QED BY <1>2, <2>1 DEF pumpToClient, ReadFromServer, EndOfInput, WriteToClient, WriteFails,
                            ParseMessage, Inspect, Dispatch, DispatchDone
<1> QED BY <1>1, <1>2

(* What both pumps do outside the Interceptor respects the types. *)
LEMMA PumpKeepsType ==
    ASSUME IInv, NEW p \in Pumps, (p = "toServer" /\ pumpToServer) \/ (p = "toClient" /\ pumpToClient)
    PROVE  TypeOK' /\ Icpt!TableAgrees'
<1> DEFINE Event == [message : Messages, call : Calls \union {NoCall}]
           Places == {"read", "parse", "write", "dispatch", "deny", "ended"}
<1> USE DEF pumpToServer, pumpToClient
<1>1. Icpt!TypeOK' /\ Icpt!TableAgrees'
  BY StepsOfInterceptor, InterceptorSteps
<1>2. TypeOK
  BY DEF IInv
<1>3. UNCHANGED <<sent, server, stdin, stdout, main>>
  BY DEF ReadFromClient, ReadFromServer, NextLine, EndOfInput, ParseMessage, Judge, Inspect,
         WriteToServer, WriteToClient, WriteFails, Dispatch, DispatchDone, denyRequest, worldVars
<1>4. at' \in [Pumps -> Places]
  <2>1. at \in [Pumps -> Places]
    BY <1>2 DEF TypeOK
  <2>2. at' = at \/ \E x \in Places : Go(p, x)
    BY DEF ReadFromClient, ReadFromServer, EndOfInput, ParseMessage, Judge, Inspect,
           WriteToServer, WriteToClient, WriteFails, Dispatch, DispatchDone, denyRequest, pumpVars
  <2> QED BY <2>1, <2>2 DEF Go
<1>5. line' \in [Pumps -> Lines] /\ taken' \in [Pumps -> Nat] /\ dispatched' \in [Pumps -> Nat]
  <2>1. /\ line \in [Pumps -> Lines] /\ taken \in [Pumps -> Nat] /\ dispatched \in [Pumps -> Nat]
        /\ sent[p] \in Seq(Lines)
    BY <1>2 DEF TypeOK
  <2>2. CASE NextLine(p)
    <3>1. taken[p] + 1 \in DOMAIN sent[p]
      BY <2>1, <2>2 DEF NextLine
    <3>2. sent[p][taken[p] + 1] \in Lines
      BY <2>1, <3>1
    <3> QED BY <2>1, <2>2, <3>2 DEF NextLine
  <2>3. CASE Dispatch(p)
    BY <2>1, <2>3 DEF Dispatch
  <2>4. CASE UNCHANGED <<line, taken, dispatched>>
    BY <2>1, <2>4
  <2> QED BY <2>2, <2>3, <2>4 DEF ReadFromClient, ReadFromServer, EndOfInput, ParseMessage, Judge,
           Inspect, WriteToServer, WriteToClient, WriteFails, DispatchDone, denyRequest, pumpVars
<1>6. events[p] \in Seq(Event)
  BY <1>2 DEF TypeOK, Icpt!TypeOK, Messages, Icpt!Messages
<1>7. serverGot' \in Seq(Lines)
  <2>1. serverGot \in Seq(Lines) /\ line["toServer"] \in Lines
    BY <1>2, PumpNames DEF TypeOK
  <2>2. serverGot' \in {serverGot, Append(serverGot, line["toServer"])}
    BY DEF ReadFromClient, ReadFromServer, NextLine, EndOfInput, ParseMessage, Judge, Inspect,
           WriteToServer, WriteToClient, WriteFails, Dispatch, DispatchDone, denyRequest
  <2> QED BY <2>1, <2>2
<1>8. clientGot' \in Seq(Lines)
  <2>1. clientGot \in Seq(Lines) /\ line["toClient"] \in Lines
    BY <1>2, PumpNames DEF TypeOK
  <2>2. CASE denyRequest /\ p = "toServer"
    <3>1. Refused /\ events["toServer"][1] \in Event
      <4>1. Refused /\ Len(events["toServer"]) = 1
        BY <2>2 DEF denyRequest, IInv, Judged, Refused
      <4>2. events["toServer"] \in Seq(Event)
        BY <1>6, <2>2
      <4> HIDE DEF Event
      <4>3. events["toServer"][1] \in Event
        BY <4>1, <4>2
      <4> QED BY <4>1, <4>3
    <3>2. RefusedId \in Ids \union {NoId}
      BY <3>1 DEF RefusedId, Messages
    <3>3. Denial(RefusedId) \in Lines
      BY <3>2 DEF Denial, Lines, Messages
    <3> QED BY <2>1, <2>2, <3>3 DEF denyRequest
  <2>3. CASE clientGot' \in {clientGot, Append(clientGot, line["toClient"])}
    BY <2>1, <2>3
  <2> QED BY <2>2, <2>3 DEF ReadFromClient, ReadFromServer, NextLine, EndOfInput, ParseMessage, Judge,
           Inspect, WriteToServer, WriteToClient, WriteFails, Dispatch, DispatchDone
<1>9. audit' \in Seq([pump : Pumps, event : Event])
  <2>1. audit \in Seq([pump : Pumps, event : Event]) /\ dispatched[p] \in Nat
    BY <1>2 DEF TypeOK, Entry
  <2>2. CASE Dispatch(p)
    <3>1. dispatched[p] + 1 \in DOMAIN events[p]
      BY <1>6, <2>1, <2>2 DEF Dispatch
    <3> HIDE DEF Event
    <3>2. events[p][dispatched[p] + 1] \in Event
      BY <1>6, <3>1
    <3> DEFINE entry == [pump |-> p, event |-> events[p][dispatched[p] + 1]]
               Entries == [pump : Pumps, event : Event]
    <3>3. entry \in Entries
      BY <3>2
    <3>4. audit \in Seq(Entries) /\ audit' \in {audit, Append(audit, entry)}
      BY <2>1, <2>2 DEF Dispatch
    <3> HIDE DEF entry, Entries
    <3>5. audit' \in Seq(Entries)
      BY <3>3, <3>4
    <3> QED BY <3>5 DEF Entries
  <2>3. CASE audit' = audit
    BY <2>1, <2>3
  <2> QED BY <2>2, <2>3 DEF ReadFromClient, ReadFromServer, NextLine, EndOfInput, ParseMessage, Judge,
           Inspect, WriteToServer, WriteToClient, WriteFails, DispatchDone, denyRequest
<1> QED BY <1>1, <1>2, <1>3, <1>4, <1>5, <1>7, <1>8, <1>9 DEF TypeOK, Entry

LEMMA ClientPumpKeepsInv ==
    ASSUME IInv, pumpToClient
    PROVE  IInv'
<1>1. /\ TypeOK' /\ Icpt!TableAgrees'
      /\ todo'["toServer"] = todo["toServer"] /\ events'["toServer"] = events["toServer"]
  BY PumpNames, PumpKeepsType, StepsOfInterceptor, InterceptorSteps
<1>2. /\ at'["toServer"] = at["toServer"] /\ line'["toServer"] = line["toServer"]
      /\ UNCHANGED <<sent, serverGot>>
  BY PumpNames
  DEF IInv, TypeOK, pumpToClient, ReadFromServer, NextLine, EndOfInput, ParseMessage, Inspect, Go,
      WriteToClient, WriteFails, Dispatch, DispatchDone, worldVars, pumpVars
<1>3. Judged' /\ RefusedNeverReachesServer'
  BY <1>1, <1>2 DEF IInv, Judged, RefusedNeverReachesServer, InHand, Refused
<1> QED BY <1>1, <1>3 DEF IInv

LEMMA ServerPumpKeepsInv ==
    ASSUME IInv, pumpToServer
    PROVE  IInv'
<1>1. TypeOK' /\ Icpt!TableAgrees'
  BY PumpNames, PumpKeepsType
<1>2. /\ at \in [Pumps -> {"read", "parse", "write", "dispatch", "deny", "ended"}]
      /\ line \in [Pumps -> Lines] /\ "toServer" \in Pumps
      /\ todo \in [Pumps -> Seq(Messages)] /\ DOMAIN events = Pumps
      /\ taken \in [Pumps -> Nat] /\ sent \in [Pumps -> Seq(Lines)] /\ serverGot \in Seq(Lines)
  BY PumpNames DEF IInv, TypeOK, Icpt!TypeOK, Icpt!Messages, Messages
<1>3. Judged /\ RefusedNeverReachesServer
  BY DEF IInv
<1> SUFFICES Judged' /\ RefusedNeverReachesServer'
  BY <1>1 DEF IInv
<1>4. CASE ReadFromClient
  <2>1. /\ at'["toServer"] = "parse" /\ UNCHANGED <<sent, serverGot>>
        /\ taken["toServer"] + 1 \in DOMAIN sent["toServer"]
        /\ line'["toServer"] = sent["toServer"][taken["toServer"] + 1]
    BY <1>2, <1>4 DEF ReadFromClient, NextLine, Go, worldVars
  <2>2. todo'["toServer"] = Readable(line'["toServer"]) /\ events'["toServer"] = <<>>
    BY <1>2, <1>4 DEF ReadFromClient, Icpt!ParseBegin
  <2>3. LineOk(line'["toServer"])
    BY <1>3, <2>1 DEF Judged
  <2>4. IsRefusedCall(line'["toServer"]) => todo'["toServer"] = line'["toServer"].messages
    BY <2>2 DEF IsRefusedCall, Readable
  <2> QED BY <1>3, <2>1, <2>2, <2>3, <2>4 DEF Judged, InHand, RefusedNeverReachesServer
<1>5. CASE ParseMessage("toServer")
  <2>1. /\ at["toServer"] = "parse" /\ UNCHANGED <<at, line, sent, serverGot>>
        /\ Icpt!parseOne("toServer")
    BY <1>5 DEF ParseMessage, pumpVars, worldVars
  <2>2. ASSUME IsRefusedCall(InHand)
        PROVE  /\ todo'["toServer"] = <<>>
               /\ events'["toServer"] =
                    <<[message |-> InHand.messages[1], call |-> InHand.messages[1].call]>>
    <3>1. PICK m \in Icpt!Messages :
            /\ Icpt!Reading("toServer", m)
            /\ \/ Icpt!Request("toServer", m) \/ Icpt!Notification("toServer", m)
               \/ Icpt!ReplyToKnown("toServer", m) \/ Icpt!ReplyToUnknown("toServer", m)
               \/ Icpt!Junk("toServer", m)
      BY <2>1 DEF Icpt!parseOne
    <3>2. /\ Len(InHand.messages) = 1 /\ InHand.messages \in Seq(Messages)
          /\ todo["toServer"] = InHand.messages /\ events["toServer"] = <<>>
      BY <1>2, <1>3, <2>1, <2>2, <3>1 DEF Judged, LineOk, IsRefusedCall, InHand, Lines, Icpt!Reading
    <3>3. m = InHand.messages[1] /\ m.kind = "request" /\ Tail(todo["toServer"]) = <<>>
      <4>1. m = Head(todo["toServer"])
        BY <3>1 DEF Icpt!Reading
      <4>2. m = InHand.messages[1] /\ Tail(todo["toServer"]) = <<>>
        BY <3>2, <4>1, OneElement
      <4>3. m.kind = "request"
        BY <2>2, <4>2 DEF IsRefusedCall
      <4> QED BY <4>2, <4>3
    <3>4. Icpt!Emit("toServer", m, m.call)
      BY <3>1, <3>3 DEF Icpt!Request, Icpt!Notification, Icpt!ReplyToKnown, Icpt!ReplyToUnknown, Icpt!Junk
    <3>5. todo'["toServer"] = <<>>
      BY <1>2, <3>1, <3>3 DEF Icpt!Reading
    <3>6. events'["toServer"] = Append(events["toServer"], [message |-> m, call |-> m.call])
      BY <1>2, <3>4 DEF Icpt!Emit
    <3> QED BY <3>2, <3>3, <3>5, <3>6
  <2> QED BY <1>3, <2>1, <2>2 DEF Judged, InHand, RefusedNeverReachesServer
<1>6. CASE Judge
  <2>1. /\ at["toServer"] = "parse" /\ UNCHANGED <<line, sent, serverGot, todo, events>>
        /\ todo["toServer"] = <<>>
        /\ at'["toServer"] = IF Refused THEN "dispatch" ELSE "write"
    BY <1>2, <1>6 DEF Judge, Icpt!ParseEnd, Go, worldVars
  <2>2. ASSUME IsRefusedCall(InHand) PROVE Refused
    <3>1. Len(InHand.messages) = 1
      BY <1>3, <2>1, <2>2 DEF Judged, LineOk, IsRefusedCall
    <3>2. events["toServer"] = <<[message |-> InHand.messages[1], call |-> InHand.messages[1].call]>>
      BY <1>3, <2>1, <2>2, <3>1 DEF Judged
    <3> QED BY <2>2, <3>2 DEF Refused, IsRefusedCall, InHand
  <2> QED BY <1>3, <2>1, <2>2 DEF Judged, InHand, RefusedNeverReachesServer
<1>7. CASE WriteToServer
  <2>1. /\ at["toServer"] = "write" /\ at'["toServer"] = "dispatch" /\ UNCHANGED sent
        /\ serverGot' = Append(serverGot, InHand)
    BY <1>2, <1>7 DEF WriteToServer, Go, InHand, worldVars
  <2>2. ~IsRefusedCall(InHand) /\ InHand \in Lines
    BY <1>2, <1>3, <2>1 DEF Judged, InHand
  <2>3. RefusedNeverReachesServer'
    BY <1>2, <1>3, <2>1, <2>2 DEF RefusedNeverReachesServer
  <2> QED BY <1>3, <2>1, <2>3 DEF Judged
<1>8. CASE DispatchDone("toServer")
  <2>1. /\ at'["toServer"] = IF Refused THEN "deny" ELSE "read"
        /\ UNCHANGED <<interceptorVars, line, sent, serverGot>>
    BY <1>2, <1>8 DEF DispatchDone, Go, worldVars
  <2> QED BY <1>3, <2>1 DEF Judged, RefusedNeverReachesServer, Refused, interceptorVars
<1>9. CASE Dispatch("toServer")
  BY <1>3, <1>9 DEF Dispatch, Judged, RefusedNeverReachesServer, Refused, InHand, interceptorVars, worldVars
<1>10. CASE EndOfInput("toServer") \/ WriteFails("toServer") \/ denyRequest
  <2>1. at'["toServer"] \in {"read", "ended"} /\ UNCHANGED <<sent, serverGot>>
    BY <1>2, <1>10 DEF EndOfInput, WriteFails, denyRequest, Go, worldVars
  <2> QED BY <1>3, <2>1 DEF Judged, RefusedNeverReachesServer
<1> QED BY <1>4, <1>5, <1>6, <1>7, <1>8, <1>9, <1>10 DEF pumpToServer

LEMMA Invariance == Spec => []IInv
<1>1. IInv /\ [Next]_vars => IInv'
  <2> SUFFICES ASSUME IInv, [Next]_vars PROVE IInv'
    OBVIOUS
  <2>1. CASE UNCHANGED vars
    <3>1. Icpt!TypeOK' /\ Icpt!TableAgrees'
      BY <2>1 DEF vars, IInv, TypeOK, interceptorVars, Icpt!TypeOK, Icpt!TableAgrees, Icpt!Outstanding
    <3>2. TypeOK'
      BY <2>1, <3>1 DEF vars, IInv, TypeOK, pumpVars, worldVars
    <3>3. Judged' /\ RefusedNeverReachesServer'
      BY <2>1 DEF vars, IInv, Judged, RefusedNeverReachesServer, InHand, Refused, pumpVars,
                  worldVars, interceptorVars
    <3> QED BY <3>1, <3>2, <3>3 DEF IInv
  <2> QED BY <2>1, SayKeepsInv, EnvironmentKeepsInv, RunKeepsInv, ClientPumpKeepsInv,
             ServerPumpKeepsInv DEF Next
<1> QED BY <1>1, InitIsInv, PTL DEF Spec

(* Every variable keeps its type, that of the shared Interceptor included. *)
THEOREM TypeCorrect == Spec => []TypeOK
BY Invariance, PTL DEF IInv

(* A call that policy denies never reaches the server, whatever else the   *)
(* two sides send, in any order, with any ids and any size of the table,   *)
(* and wherever the session is cut short.                                  *)
THEOREM RefusalIsEnforced == Spec => []RefusedNeverReachesServer
BY Invariance, PTL DEF IInv
-----------------------------------------------------------------------------
(* One answer per request: what the lines of a session hold. *)

RequestsOf(l) == {m \in Range(l.messages) : m.kind = "request" /\ m.id # NoId}
RepliesOf(l) == {m \in Range(l.messages) : m.kind = "reply"}
RequestIds(l) == {m.id : m \in RequestsOf(l)}
ReplyIds(l) == {m.id : m \in RepliesOf(l)}
AskedIds(seq) == {m.id : m \in Asked(seq)}

LEMMA InLines ==
    ASSUME NEW seq
    PROVE  /\ \A m : m \in Asked(seq) <=> \E i \in DOMAIN seq : m \in RequestsOf(seq[i])
           /\ \A id : id \in AskedIds(seq) <=> \E i \in DOMAIN seq : id \in RequestIds(seq[i])
           /\ \A id : id \in Answered(seq) <=> \E i \in DOMAIN seq : id \in ReplyIds(seq[i])
<1>1. \A m : m \in Asked(seq) <=> \E i \in DOMAIN seq : m \in RequestsOf(seq[i])
  BY DEF Asked, MessagesIn, RequestsOf
<1>2. \A id : id \in Answered(seq) <=> \E i \in DOMAIN seq : id \in ReplyIds(seq[i])
  BY DEF Answered, MessagesIn, RepliesOf, ReplyIds
<1> QED BY <1>1, <1>2 DEF AskedIds, RequestIds

LEMMA LineMore ==
    ASSUME NEW seq \in Seq(Lines), NEW l
    PROVE  /\ Asked(Append(seq, l)) = Asked(seq) \union RequestsOf(l)
           /\ AskedIds(Append(seq, l)) = AskedIds(seq) \union RequestIds(l)
           /\ Answered(Append(seq, l)) = Answered(seq) \union ReplyIds(l)
<1> DEFINE s == Append(seq, l)
<1>1. /\ DOMAIN s = DOMAIN seq \union {Len(seq) + 1}
      /\ s[Len(seq) + 1] = l
      /\ \A i \in DOMAIN seq : s[i] = seq[i]
  OBVIOUS
<1> HIDE DEF s
<1>2. /\ \A m : m \in Asked(s) <=> m \in Asked(seq) \/ m \in RequestsOf(l)
      /\ \A id : id \in AskedIds(s) <=> id \in AskedIds(seq) \/ id \in RequestIds(l)
      /\ \A id : id \in Answered(s) <=> id \in Answered(seq) \/ id \in ReplyIds(l)
  BY <1>1, InLines
<1> QED BY <1>2 DEF s

(* The ids and calls of the end that p reads from, the ids of the other.   *)
OwnIds(p) == IF p = "toServer" THEN ClientIds ELSE ServerIds
OwnCalls(p) == IF p = "toServer" THEN ClientCalls ELSE ServerCalls
PeerIds(p) == IF p = "toServer" THEN ServerIds ELSE ClientIds

OwnMessage(p, m) ==
    /\ m.kind = "request" /\ m.id # NoId => m.id \in OwnIds(p) /\ m.call \in OwnCalls(p)
    /\ m.kind = "reply" => m.id \in PeerIds(p)
OwnLine(p, l) == l.form # "denial" /\ \A m \in Range(l.messages) : OwnMessage(p, m)

LEMMA CanSayGives ==
    ASSUME NEW p, NEW m \in CanSay(p) \union {Junk}
    PROVE  /\ m.kind = "request" /\ m.id # NoId =>
                 m.id \in OwnIds(p) /\ m.call \in OwnCalls(p) /\ m.id \notin AskedIds(sent[p])
           /\ m.kind = "reply" => m.id \in AskedIds(Received(p)) /\ m.id \notin Answered(sent[p])
<1>1. CASE m = Junk
  BY <1>1 DEF Junk
<1>2. CASE m \in [kind : {"request"},
                  id : (OwnIds(p) \ AskedIds(sent[p])) \union {NoId}, call : OwnCalls(p)]
  BY <1>2
<1>3. ASSUME NEW r \in Asked(Received(p)), r.id \notin Answered(sent[p]), m = Reply(r)
      PROVE  m.kind = "reply" => m.id \in AskedIds(Received(p)) /\ m.id \notin Answered(sent[p])
  <2>1. r.id \in AskedIds(Received(p))
    BY <1>3 DEF AskedIds
  <2>2. m.kind = "reply" => m.id = r.id
    BY <1>3 DEF Reply
  <2> QED BY <1>3, <2>1, <2>2
<1>4. ASSUME NEW r \in Asked(Received(p)), m = Reply(r)
      PROVE  m.kind # "request"
  BY <1>4 DEF Reply
<1> QED BY <1>1, <1>2, <1>3, <1>4 DEF CanSay, OwnIds, OwnCalls, AskedIds

LEMMA CanSendGives ==
    ASSUME NEW p, NEW l \in CanSend(p), AskedIds(Received(p)) \subseteq PeerIds(p)
    PROVE  /\ OwnLine(p, l)
           /\ RequestIds(l) \cap AskedIds(sent[p]) = {}
           /\ ReplyIds(l) \cap Answered(sent[p]) = {}
           /\ ReplyIds(l) \subseteq AskedIds(Received(p))
<1>1. l.form # "denial" /\ Range(l.messages) \subseteq CanSay(p) \union {Junk}
  <2>1. CASE l \in [form : Forms \ {"batch", "junk"}, messages : {<<m>> : m \in CanSay(p)}]
    <3>1. l.form # "denial" /\ \E m \in CanSay(p) : l.messages = <<m>>
      BY <2>1, StdioWrapperAssumption
    <3> QED BY <3>1 DEF Range
  <2>2. CASE l = [form |-> "single", messages |-> <<Junk>>]
    BY <2>2 DEF Range
  <2>3. CASE l \in [form : {"batch"}, messages : {<<m, Junk, n>> : m \in CanSay(p), n \in CanSay(p)}]
    <3>1. PICK m \in CanSay(p), n \in CanSay(p) : l.messages = <<m, Junk, n>>
      BY <2>3
    <3>2. DOMAIN l.messages = {1, 2, 3} /\ l.messages[1] = m /\ l.messages[2] = Junk /\ l.messages[3] = n
      BY <3>1
    <3> QED BY <2>3, <3>2 DEF Range
  <2> QED BY <2>1, <2>2, <2>3 DEF CanSend
<1>2. \A m \in Range(l.messages) :
        /\ m.kind = "request" /\ m.id # NoId =>
              m.id \in OwnIds(p) /\ m.call \in OwnCalls(p) /\ m.id \notin AskedIds(sent[p])
        /\ m.kind = "reply" => m.id \in AskedIds(Received(p)) /\ m.id \notin Answered(sent[p])
  BY <1>1, CanSayGives
<1> QED BY <1>1, <1>2 DEF OwnLine, OwnMessage, RequestIds, ReplyIds, RequestsOf, RepliesOf

-----------------------------------------------------------------------------
(* What the two sides have said only grows. *)

LEMMA SentStays ==
    ASSUME IInv, [Next]_vars, NEW p \in Pumps
    PROVE  /\ sent'[p] = sent[p] \/ (at' = at /\ taken' = taken /\ \E l \in Lines : sent'[p] = Append(sent[p], l))
           /\ Len(sent[p]) \in Nat /\ Len(sent'[p]) \in Nat /\ Len(sent[p]) <= Len(sent'[p])
           /\ \A k \in 1..Len(sent[p]) : sent'[p][k] = sent[p][k]
<1>1. sent \in [Pumps -> Seq(Lines)]
  BY DEF IInv, TypeOK
<1>2. sent'[p] = sent[p] \/ (at' = at /\ taken' = taken /\ \E l \in Lines : sent'[p] = Append(sent[p], l))
  <2>1. ASSUME NEW q \in Pumps, Say(q)
        PROVE  sent'[p] = sent[p] \/ (at' = at /\ taken' = taken /\ \E l \in Lines : sent'[p] = Append(sent[p], l))
    <3>1. PICK l \in CanSend(q) : sent' = [sent EXCEPT ![q] = Append(@, l)]
      BY <2>1 DEF Say
    <3>2. l \in Lines
      BY SentLines DEF IInv
    <3> QED BY <1>1, <2>1, <3>1, <3>2 DEF Say, pumpVars
  <2>2. sent' = sent \/ \E q \in Pumps : Say(q)
    BY DEF Next, ServerExits, ClientClosesStdin, ClientStopsReading, pumpToServer, pumpToClient, Run, RunReturns,
           CloseDispatcher, ProcessExits, ReadFromClient, ReadFromServer, NextLine, EndOfInput, ParseMessage, Judge,
           Inspect, WriteToServer, WriteToClient, WriteFails, Dispatch, DispatchDone, denyRequest, vars, worldVars
  <2> QED BY <2>1, <2>2
<1>3. sent[p] \in Seq(Lines)
  BY <1>1
<1> QED BY <1>2, <1>3

LEMMA SentAreSaid ==
    ASSUME NEW p, NEW l \in CanSend(p), NEW m \in Range(l.messages)
    PROVE  m \in CanSay(p) \union {Junk}
<1>1. CASE l \in [form : Forms \ {"batch", "junk"}, messages : {<<n>> : n \in CanSay(p)}]
  <2>1. \E n \in CanSay(p) : l.messages = <<n>>
    BY <1>1
  <2> QED BY <2>1 DEF Range
<1>2. CASE l = [form |-> "single", messages |-> <<Junk>>]
  BY <1>2 DEF Range
<1>3. CASE l \in [form : {"batch"}, messages : {<<n, Junk, o>> : n \in CanSay(p), o \in CanSay(p)}]
  <2>1. PICK n \in CanSay(p), o \in CanSay(p) : l.messages = <<n, Junk, o>>
    BY <1>3
  <2> QED BY <2>1 DEF Range
<1> QED BY <1>1, <1>2, <1>3 DEF CanSend

LEMMA SentIsNew ==
    ASSUME IInv, [Next]_vars, NEW p \in Pumps
    PROVE  sent'[p] = sent[p] \/ \E l \in CanSend(p) : Say(p) /\ sent'[p] = Append(sent[p], l)
<1>1. sent \in [Pumps -> Seq(Lines)]
  BY DEF IInv, TypeOK
<1>2. sent' = sent \/ \E q \in Pumps : Say(q)
  BY DEF Next, ServerExits, ClientClosesStdin, ClientStopsReading, pumpToServer, pumpToClient, Run, RunReturns,
         CloseDispatcher, ProcessExits, ReadFromClient, ReadFromServer, NextLine, EndOfInput, ParseMessage, Judge,
         Inspect, WriteToServer, WriteToClient, WriteFails, Dispatch, DispatchDone, denyRequest, vars, worldVars
<1>3. ASSUME NEW q \in Pumps, Say(q)
      PROVE  sent'[p] = sent[p] \/ \E l \in CanSend(p) : Say(p) /\ sent'[p] = Append(sent[p], l)
  <2>1. PICK l \in CanSend(q) : sent' = [sent EXCEPT ![q] = Append(@, l)]
    BY <1>3 DEF Say
  <2> QED BY <1>1, <1>3, <2>1
<1> QED BY <1>2, <1>3

(* What is listed up to some number is finite. *)
LEMMA Listed ==
    ASSUME NEW n \in Nat, NEW f, NEW S, \A x \in S : \E i \in 1..n : f[i] = x
    PROVE  IsFiniteSet(S)
<1> DEFINE T == {f[i] : i \in 1..n}
           g == [i \in 1..n |-> f[i]]
<1>1. g \in Seq(T) /\ Len(g) = n /\ \A i \in 1..n : g[i] = f[i]
  OBVIOUS
<1>2. \A x \in T : \E i \in 1..n : f[i] = x
  OBVIOUS
<1> HIDE DEF T, g
<1>3. IsFiniteSet(T)
  BY <1>1, <1>2 DEF IsFiniteSet
<1>4. S \subseteq T
  BY DEF T
<1> QED BY <1>3, <1>4, FS_Subset

LEMMA AskedFinite ==
    ASSUME NEW s \in Seq(Lines)
    PROVE  IsFiniteSet(Asked(s))
<1> DEFINE parts == {Range(s[i].messages) : i \in DOMAIN s}
           part == [i \in DOMAIN s |-> Range(s[i].messages)]
<1>1. Len(s) \in Nat /\ DOMAIN s = 1..Len(s) /\ \A i \in DOMAIN s : s[i].messages \in Seq(Messages)
  <2>1. Len(s) \in Nat /\ DOMAIN s = 1..Len(s) /\ \A i \in DOMAIN s : s[i] \in Lines
    OBVIOUS
  <2>2. \A l \in Lines : l.messages \in Seq(Messages)
    BY DEF Lines
  <2> QED BY <2>1, <2>2
<1>2. IsFiniteSet(parts)
  <2>1. \A x \in parts : \E i \in 1..Len(s) : part[i] = x
    BY <1>1
  <2> HIDE DEF parts, part
  <2> QED BY <1>1, <2>1, Listed
<1>3. \A T \in parts : IsFiniteSet(T)
  <2> SUFFICES ASSUME NEW i \in DOMAIN s PROVE IsFiniteSet(Range(s[i].messages))
    OBVIOUS
  <2> DEFINE q == s[i].messages
  <2>1. Len(q) \in Nat /\ DOMAIN q = 1..Len(q)
    BY <1>1
  <2>2. \A x \in Range(q) : \E k \in 1..Len(q) : q[k] = x
    BY <2>1 DEF Range
  <2> QED BY <2>1, <2>2, Listed
<1>4. IsFiniteSet(UNION parts)
  BY <1>2, <1>3, FS_UNION
<1>5. Asked(s) \subseteq UNION parts
  BY DEF Asked, MessagesIn
<1> QED BY <1>4, <1>5, FS_Subset

LEMMA IdsFinite ==
    ASSUME NEW a \in Seq(Lines), NEW b \in Seq(Lines)
    PROVE  IsFiniteSet({m.id : m \in Asked(a) \union Asked(b)})
<1> DEFINE S == Asked(a) \union Asked(b)
           ids == {m.id : m \in S}
<1>1. IsFiniteSet(S)
  BY AskedFinite, FS_Union
<1>2. PICK q \in Seq(S) : \A m \in S : \E i \in 1..Len(q) : q[i] = m
  BY <1>1 DEF IsFiniteSet
<1>3. Len(q) \in Nat
  OBVIOUS
<1> DEFINE f == [i \in 1..Len(q) |-> q[i].id]
<1>4. \A x \in ids : \E i \in 1..Len(q) : f[i] = x
  <2> SUFFICES ASSUME NEW m \in S PROVE \E i \in 1..Len(q) : f[i] = m.id
    OBVIOUS
  <2>1. PICK i \in 1..Len(q) : q[i] = m
    BY <1>2
  <2> QED BY <2>1
<1> HIDE DEF f, ids
<1>5. IsFiniteSet(ids)
  BY <1>3, <1>4, Listed
<1> QED BY <1>5 DEF ids

Other(p) == IF p = "toServer" THEN "toClient" ELSE "toServer"

(* The message comes from a line of p's origin; what it answers, from one  *)
(* of the other side.                                                      *)
Said(p, m) ==
    /\ m.kind = "request" /\ m.id # NoId => m \in Asked(sent[p])
    /\ m.kind = "reply" => \E r \in Asked(sent[Other(p)]) : r.id = m.id /\ r.call = m.call

LEMMA LinesStay ==
    ASSUME IInv, [Next]_vars, NEW p \in Pumps
    PROVE  /\ sent[p] \in Seq(Lines) /\ sent'[p] \in Seq(Lines)
           /\ DOMAIN sent[p] \subseteq DOMAIN sent'[p]
           /\ \A k \in DOMAIN sent[p] : sent'[p][k] = sent[p][k]
<1>1. sent[p] \in Seq(Lines)
  BY DEF IInv, TypeOK
<1>2. sent'[p] = sent[p] \/ \E l \in Lines : sent'[p] = Append(sent[p], l)
  BY SentStays
<1> QED BY <1>1, <1>2

LEMMA PressedStays ==
    ASSUME IInv, [Next]_vars, AllAsked \subseteq AllAsked', NEW id, Pressed(id)
    PROVE  Pressed(id)'
<1> DEFINE S == AllAsked \ {id}
           T == AllAsked' \ {id}
<1>1. IsFiniteSet(AllAsked) /\ IsFiniteSet(AllAsked')
  BY LinesStay, IdsFinite, PumpNames DEF AllAsked
<1>2. IsFiniteSet(S) /\ IsFiniteSet(T)
  BY <1>1, FS_RemoveElement
<1>3. Cardinality(S) <= Cardinality(T)
  BY <1>2, FS_Subset
<1>4. Cardinality(S) \in Nat /\ Cardinality(T) \in Nat /\ MaxPending \in Nat
  BY <1>2, FS_CardinalityType, StdioWrapperAssumption
<1>5. Cardinality(S) >= MaxPending
  BY DEF Pressed
<1>6. Cardinality(T) >= MaxPending
  BY <1>3, <1>4, <1>5
<1> QED BY <1>6 DEF Pressed

LEMMA SaidStays ==
    ASSUME IInv, [Next]_vars
    PROVE  /\ \A p \in Pumps : Asked(sent[p]) \subseteq Asked(sent'[p]) /\ Answered(sent[p]) \subseteq Answered(sent'[p])
           /\ \A m : \A p \in Pumps : Said(p, m) => Said(p, m)'
           /\ \A id : /\ Under(id) \subseteq Under(id)'
                      /\ AskedByBoth(id) => AskedByBoth(id)'
                      /\ TooLong(id) => TooLong(id)'
                      /\ Pressed(id) => Pressed(id)'
           /\ \A l : TakenForCall(l) => TakenForCall(l)'
<1>1. \A p \in Pumps : /\ DOMAIN sent[p] \subseteq DOMAIN sent'[p]
                       /\ \A k \in DOMAIN sent[p] : sent'[p][k] = sent[p][k]
  BY LinesStay
<1>2. \A p \in Pumps : Asked(sent[p]) \subseteq Asked(sent'[p]) /\ Answered(sent[p]) \subseteq Answered(sent'[p])
  <2> SUFFICES ASSUME NEW p \in Pumps
               PROVE  Asked(sent[p]) \subseteq Asked(sent'[p]) /\ Answered(sent[p]) \subseteq Answered(sent'[p])
    OBVIOUS
  <2>1. \A m : m \in Asked(sent[p]) => m \in Asked(sent'[p])
    BY <1>1, InLines
  <2>2. \A id : id \in Answered(sent[p]) => id \in Answered(sent'[p])
    BY <1>1, InLines
  <2> QED BY <2>1, <2>2
<1>3. \A p \in Pumps : Other(p) \in Pumps
  BY PumpNames DEF Other
<1>4. \A m : \A p \in Pumps : Said(p, m) => Said(p, m)'
  BY <1>2, <1>3 DEF Said
<1>5. \A id : TooLong(id) => TooLong(id)'
  BY <1>1, PumpNames DEF TooLong
<1>6. \A id : Under(id) \subseteq Under(id)' /\ (AskedByBoth(id) => AskedByBoth(id)')
  BY <1>2, PumpNames DEF Under, AskedByBoth
<1>7. \A l : TakenForCall(l) => TakenForCall(l)'
  BY <1>6 DEF TakenForCall
<1>8. AllAsked \subseteq AllAsked'
  BY <1>2, PumpNames DEF AllAsked
<1>9. \A id : Pressed(id) => Pressed(id)'
  BY <1>8, PressedStays
<1> QED BY <1>2, <1>4, <1>5, <1>6, <1>7, <1>9

-----------------------------------------------------------------------------
(* One answer per request: the invariant. *)

DeniedIds == {clientGot[i].messages[1].id : i \in {i \in DOMAIN clientGot : clientGot[i].form = "denial"}}

(* The ids denied because of a call, and no reply that was taken for one.  *)
CallDenied == {id \in DeniedIds : ~Mistaken(id)}

(* The server's answers that the client has been told. *)
Told(id) == \E i \in DOMAIN clientGot : clientGot[i].form # "denial" /\ id \in ReplyIds(clientGot[i])

(* A side numbers each request once, with ids of its own, and answers once *)
(* what it was asked.                                                      *)
Numbered ==
    /\ \A p \in Pumps :
        /\ \A i \in DOMAIN sent[p] : OwnLine(p, sent[p][i])
        /\ \A i, j \in DOMAIN sent[p] : i # j =>
              /\ RequestIds(sent[p][i]) \cap RequestIds(sent[p][j]) = {}
              /\ ReplyIds(sent[p][i]) \cap ReplyIds(sent[p][j]) = {}
    /\ Answered(sent["toClient"]) \subseteq AskedIds(serverGot)

(* The line in hand is the last one taken, and what has been passed on was *)
(* said, or is a denial.                                                   *)
Passed ==
    /\ \A p \in Pumps : taken[p] <= Len(sent[p])
    /\ \A p \in Pumps : at[p] \notin {"read", "ended"} =>
          taken[p] \in DOMAIN sent[p] /\ line[p] = sent[p][taken[p]]
    /\ AskedIds(serverGot) \subseteq AskedIds(sent["toServer"])
    /\ AskedIds(clientGot) \subseteq ServerIds
    /\ \A id : Told(id) => id \in Answered(sent["toClient"])
    /\ \A i \in DOMAIN clientGot : clientGot[i].form = "denial" => ReplyIds(clientGot[i]) \subseteq DeniedIds

(* A request is settled when it is passed to the server or denied, once,   *)
(* and not before the request pump has decided which.                      *)
Fresh(l) == RequestIds(l) \cap (AskedIds(serverGot) \union CallDenied) = {}
Undecided == at["toServer"] \in {"parse", "write", "deny"} \/ (at["toServer"] = "dispatch" /\ Refused)

SettledOnce ==
    /\ \A j \in DOMAIN sent["toServer"] : j > taken["toServer"] => Fresh(sent["toServer"][j])
    /\ Undecided => Fresh(InHand)
    /\ at["toServer"] = "write" => ~Refused
    /\ AskedIds(serverGot) \cap CallDenied = {}
    /\ CallDenied \subseteq AskedIds(sent["toServer"])
    /\ \A id \in DeniedIds : Due(id) \/ Mistaken(id)

(* What the server answers the client has not been told, but for an id     *)
(* under which a reply was taken for a call.                               *)
NotYet(l) == \A id \in ReplyIds(l) : ~Told(id) /\ id \notin CallDenied
AnsweredOnce ==
    /\ \A j \in DOMAIN sent["toClient"] : j > taken["toClient"] => NotYet(sent["toClient"][j])
    /\ at["toClient"] = "write" => NotYet(line["toClient"])
    /\ \A i, j \in DOMAIN clientGot : i # j =>
          \A id \in ReplyIds(clientGot[i]) \cap ReplyIds(clientGot[j]) :
             "denial" \in {clientGot[i].form, clientGot[j].form} /\ Mistaken(id)

(* An id stands for one request of a side, in what it says, in what is     *)
(* parsed and in the table; the table may hold the other side's.           *)
Named ==
    /\ \A p \in Pumps : \A r, s \in Asked(sent[p]) : r.id = s.id => r = s
    /\ \A p \in Pumps : \A i \in DOMAIN sent[p] : \A m \in Range(sent[p][i].messages) : Said(p, m)
    /\ \A p \in Pumps : \A m \in Range(todo[p]) : Said(p, m)
    /\ \A p \in Pumps : Asked(Received(p)) \subseteq Asked(sent[Other(p)])
    /\ \A id \in Ids : pending[id] # NoCall =>
          \E p \in Pumps : \E r \in Asked(sent[p]) : r.id = id /\ r.call = pending[id]

(* The event that Evaluate refuses is that of a call in the line in hand,  *)
(* or of a reply that is taken for one.                                    *)
Refusable(l) == IsRefusedCall(l) \/ TakenForCall(l)

RefusedIsCall ==
    /\ at["toServer"] = "parse" /\ InHand.form = "big" =>
          todo["toServer"] = <<>> /\ events["toServer"] = <<>>
    /\ at["toServer"] = "parse" /\ InHand.form = "single" =>
          \/ todo["toServer"] = InHand.messages /\ events["toServer"] = <<>>
          \/ /\ todo["toServer"] = <<>>
             /\ \/ events["toServer"] = <<>>
                \/ \E c \in Calls \union {NoCall} :
                      /\ events["toServer"] = <<[message |-> InHand.messages[1], call |-> c]>>
                      /\ c \in Denied => Refusable(InHand)
    /\ at["toServer"] \in {"write", "dispatch", "deny"} /\ Refused =>
          Refusable(InHand) /\ events["toServer"][1].message = InHand.messages[1]

AnswerInv == Numbered /\ Passed /\ SettledOnce /\ AnsweredOnce /\ Named /\ RefusedIsCall

LEMMA AnswerInit == Init => AnswerInv
<1> SUFFICES ASSUME Init PROVE AnswerInv
  OBVIOUS
<1>1. /\ at = [p \in Pumps |-> "read"] /\ taken = [p \in Pumps |-> 0]
      /\ sent = [p \in Pumps |-> <<>>] /\ serverGot = <<>> /\ clientGot = <<>>
      /\ todo = [p \in Pumps |-> <<>>] /\ pending = [id \in Ids |-> NoCall]
      /\ "toServer" \in Pumps /\ "toClient" \in Pumps
  BY PumpNames DEF Init, Icpt!Init
<1>2. AskedIds(<<>>) = {} /\ Answered(<<>>) = {} /\ DeniedIds = {} /\ Range(<<>>) = {} /\ Asked(<<>>) = {}
  BY <1>1, InLines DEF DeniedIds, Range
<1>3. ~Undecided /\ CallDenied = {} /\ \A id : ~Told(id)
  BY <1>1, <1>2 DEF Undecided, CallDenied, Told
<1>4. Numbered /\ Passed /\ SettledOnce /\ AnsweredOnce
  BY <1>1, <1>2, <1>3 DEF Numbered, Passed, SettledOnce, AnsweredOnce
<1>5. \A p \in Pumps : Other(p) \in Pumps /\ Received(p) = <<>>
  BY <1>1 DEF Other, Received
<1>6. Named /\ RefusedIsCall
  BY <1>1, <1>2, <1>5 DEF Named, RefusedIsCall
<1> QED BY <1>4, <1>6 DEF AnswerInv

-----------------------------------------------------------------------------
(* One answer per request: every action keeps the invariant. *)

Settlement == Numbered /\ Passed /\ SettledOnce /\ AnsweredOnce

LEMMA TakenGrows ==
    ASSUME IInv, [Next]_vars, NEW p \in Pumps
    PROVE  taken[p] \in Nat /\ taken'[p] \in Nat /\ taken[p] <= taken'[p]
<1>1. taken \in [Pumps -> Nat]
  BY DEF IInv, TypeOK
<1>2. UNCHANGED taken \/ \E q \in Pumps : taken' = [taken EXCEPT ![q] = @ + 1]
  BY PumpNames
  DEF Next, Say, ServerExits, ClientClosesStdin, ClientStopsReading, pumpToServer, pumpToClient, Run, RunReturns,
      CloseDispatcher, ProcessExits, ReadFromClient, ReadFromServer, NextLine, EndOfInput, ParseMessage, Judge,
      Inspect, WriteToServer, WriteToClient, WriteFails, Dispatch, DispatchDone, denyRequest, vars, pumpVars
<1> QED BY <1>1, <1>2

(* What was a reason for a denial stays one. *)
LEMMA ReasonsStay ==
    ASSUME IInv, Passed, [Next]_vars
    PROVE  \A id : (Due(id) => Due(id)') /\ (Mistaken(id) => Mistaken(id)')
<1>1. /\ taken["toServer"] \in Nat /\ taken'["toServer"] \in Nat /\ taken["toServer"] <= taken'["toServer"]
      /\ taken["toServer"] <= Len(sent["toServer"]) /\ Len(sent["toServer"]) \in Nat
  BY TakenGrows, SentStays, PumpNames DEF Passed
<1>2. \A k \in 1..taken["toServer"] : k \in 1..taken'["toServer"] /\ sent'["toServer"][k] = sent["toServer"][k]
  BY <1>1, SentStays, PumpNames
<1>3. \A l : TakenForCall(l) => TakenForCall(l)'
  BY SaidStays
<1>4. \A l : IsRefusedCall(l) => IsRefusedCall(l)'
  BY DEF IsRefusedCall
<1> QED BY <1>2, <1>3, <1>4 DEF Due, Mistaken

(* A step that denies nothing leaves no more ids denied because of a call. *)
LEMMA DenialsStay ==
    ASSUME IInv, Settlement, [Next]_vars, DeniedIds' = DeniedIds
    PROVE  CallDenied' \subseteq CallDenied /\ \A id \in DeniedIds' : Due(id)' \/ Mistaken(id)'
BY ReasonsStay DEF CallDenied, Settlement, Passed, SettledOnce

(* A step that moves no line keeps what is known of the lines. *)
LEMMA QuietKeepsSettlement ==
    ASSUME Settlement,
           UNCHANGED <<sent, taken, line, serverGot, clientGot>>,
           \A p \in Pumps : at'[p] \notin {"read", "ended"} => at[p] \notin {"read", "ended"},
           Undecided' => Undecided,
           at'["toServer"] = "write" => ~Refused',
           at'["toClient"] = "write" => at["toClient"] = "write"
    PROVE  Settlement'
<1>1. Numbered'
  BY DEF Settlement, Numbered
<1>2. DeniedIds' = DeniedIds /\ CallDenied' = CallDenied /\ (\A id : Told(id)' <=> Told(id))
      /\ \A id : (Due(id)' <=> Due(id)) /\ (Mistaken(id)' <=> Mistaken(id))
  BY DEF DeniedIds, CallDenied, Told, Due, Mistaken, TakenForCall, Under
<1>3. Passed'
  BY <1>2 DEF Settlement, Passed
<1>4. SettledOnce'
  BY <1>2 DEF Settlement, SettledOnce, Fresh, InHand
<1>5. AnsweredOnce'
  BY <1>2 DEF Settlement, AnsweredOnce, NotYet
<1> QED BY <1>1, <1>3, <1>4, <1>5 DEF Settlement

Quiet ==
    \/ ServerExits \/ ClientClosesStdin \/ ClientStopsReading \/ Run \/ Judge \/ Inspect
    \/ \E p \in Pumps : EndOfInput(p) \/ ParseMessage(p) \/ WriteFails(p) \/ Dispatch(p) \/ DispatchDone(p)

LEMMA QuietStep ==
    ASSUME IInv, Settlement, Quiet \/ UNCHANGED vars
    PROVE  Settlement'
<1>1. UNCHANGED <<sent, taken, line, serverGot, clientGot>>
  BY DEF Quiet, vars, pumpVars, worldVars, ServerExits, ClientClosesStdin, ClientStopsReading, Run, RunReturns,
         CloseDispatcher, ProcessExits, Judge, Inspect, EndOfInput, ParseMessage, WriteFails, Dispatch, DispatchDone
<1>2. /\ at \in [Pumps -> {"read", "parse", "write", "dispatch", "deny", "ended"}]
      /\ "toServer" \in Pumps /\ "toClient" \in Pumps /\ Pumps = {"toServer", "toClient"}
  BY PumpNames DEF IInv, TypeOK, Pumps
<1>3. CASE at' = at /\ (UNCHANGED events \/ at["toServer"] = "parse")
  BY <1>1, <1>2, <1>3, QuietKeepsSettlement DEF Undecided, Refused, Settlement, SettledOnce
<1>4. CASE UNCHANGED events /\ \E p \in Pumps : Go(p, "ended")
  <2>1. PICK p \in Pumps : at' = [at EXCEPT ![p] = "ended"]
    BY <1>4 DEF Go
  <2> QED BY <1>1, <1>2, <1>4, <2>1, QuietKeepsSettlement DEF Undecided, Refused, Settlement, SettledOnce
<1>5. CASE Judge
  <2>1. UNCHANGED events /\ at["toServer"] = "parse"
        /\ at' = [at EXCEPT !["toServer"] = IF Refused THEN "dispatch" ELSE "write"]
    BY <1>5 DEF Judge, Icpt!ParseEnd, Go
  <2> QED BY <1>1, <1>2, <2>1, QuietKeepsSettlement DEF Undecided, Refused, Settlement, SettledOnce
<1>6. CASE Inspect
  <2>1. UNCHANGED events /\ at["toClient"] = "parse" /\ at' = [at EXCEPT !["toClient"] = "dispatch"]
    BY <1>6 DEF Inspect, Icpt!ParseEnd, Go
  <2> QED BY <1>1, <1>2, <2>1, QuietKeepsSettlement DEF Undecided, Refused, Settlement, SettledOnce
<1>7. ASSUME NEW p \in Pumps, DispatchDone(p) PROVE Settlement'
  <2>1. UNCHANGED events /\ at[p] = "dispatch"
        /\ at' = [at EXCEPT ![p] = IF p = "toServer" /\ Refused THEN "deny" ELSE "read"]
    BY <1>7 DEF DispatchDone, interceptorVars, Go
  <2> QED BY <1>1, <1>2, <2>1, QuietKeepsSettlement DEF Undecided, Refused, Settlement, SettledOnce
<1>8. ASSUME NEW p \in Pumps, ParseMessage(p) PROVE at' = at /\ (UNCHANGED events \/ at["toServer"] = "parse" \/ p = "toClient")
  BY <1>8, <1>2 DEF ParseMessage, pumpVars
<1>9. ASSUME ParseMessage("toClient") PROVE Settlement'
  <2>1. at' = at /\ events'["toServer"] = events["toServer"]
    <3>1. Icpt!parseOne("toClient")
      BY <1>9 DEF ParseMessage
    <3> QED BY <1>2, <1>9, <3>1, PumpNames, InterceptorSteps DEF ParseMessage, pumpVars
  <2> QED BY <1>1, <1>2, <2>1, QuietKeepsSettlement DEF Undecided, Refused, Settlement, SettledOnce
<1> QED
  BY <1>2, <1>3, <1>4, <1>5, <1>6, <1>7, <1>8, <1>9
  DEF Quiet, vars, pumpVars, interceptorVars, worldVars, ServerExits, ClientClosesStdin, ClientStopsReading, Run,
      RunReturns, CloseDispatcher, ProcessExits, EndOfInput, WriteFails, Dispatch

LEMMA SayKeepsSettlement ==
    ASSUME IInv, Settlement, [Next]_vars, NEW p \in Pumps, Say(p)
    PROVE  Settlement'
<1> DEFINE new == sent'[p]
<1>1. PICK l \in CanSend(p) : sent' = [sent EXCEPT ![p] = Append(@, l)]
  BY DEF Say
<1>2. /\ sent \in [Pumps -> Seq(Lines)] /\ l \in Lines
      /\ UNCHANGED <<at, taken, line, serverGot, clientGot, events>>
  BY SentLines DEF IInv, TypeOK, Say, pumpVars, interceptorVars
<1>3. AskedIds(Received(p)) \subseteq PeerIds(p)
  <2>1. AskedIds(sent["toServer"]) \subseteq ClientIds
    <3> SUFFICES ASSUME NEW id \in AskedIds(sent["toServer"]) PROVE id \in ClientIds
      OBVIOUS
    <3>1. PICK i \in DOMAIN sent["toServer"] : id \in RequestIds(sent["toServer"][i])
      BY InLines
    <3>2. OwnLine("toServer", sent["toServer"][i])
      BY PumpNames DEF Settlement, Numbered
    <3> QED BY <3>1, <3>2 DEF OwnLine, OwnMessage, OwnIds, RequestIds, RequestsOf
  <2> QED BY <2>1 DEF Settlement, Passed, Received, PeerIds
<1>4. /\ OwnLine(p, l)
      /\ RequestIds(l) \cap AskedIds(sent[p]) = {}
      /\ ReplyIds(l) \cap Answered(sent[p]) = {}
      /\ ReplyIds(l) \subseteq AskedIds(Received(p))
  BY <1>3, CanSendGives
<1>5. /\ sent[p] \in Seq(Lines) /\ new = Append(sent[p], l)
      /\ \A q \in Pumps \ {p} : sent'[q] = sent[q]
  BY <1>1, <1>2
<1>6. /\ new \in Seq(Lines) /\ Len(new) = Len(sent[p]) + 1 /\ Len(sent[p]) \in Nat
      /\ DOMAIN new = DOMAIN sent[p] \union {Len(new)}
      /\ new[Len(new)] = l
      /\ \A i \in DOMAIN sent[p] : new[i] = sent[p][i]
      /\ DOMAIN sent[p] = 1..Len(sent[p])
  BY <1>2, <1>5
<1>7. /\ Asked(new) = Asked(sent[p]) \union RequestsOf(l)
      /\ AskedIds(new) = AskedIds(sent[p]) \union RequestIds(l)
      /\ Answered(new) = Answered(sent[p]) \union ReplyIds(l)
  BY <1>5, LineMore
<1> HIDE DEF new
<1>8. \A i \in DOMAIN sent[p] :
        RequestIds(sent[p][i]) \cap RequestIds(l) = {} /\ ReplyIds(sent[p][i]) \cap ReplyIds(l) = {}
  BY <1>4, InLines
<1>9. /\ DeniedIds' = DeniedIds /\ CallDenied' \subseteq CallDenied /\ (\A id : Told(id)' <=> Told(id))
      /\ \A id \in DeniedIds' : Due(id)' \/ Mistaken(id)'
  <2>1. DeniedIds' = DeniedIds /\ (\A id : Told(id)' <=> Told(id))
    BY <1>2 DEF DeniedIds, Told
  <2> QED BY <2>1, DenialsStay
<1>10. Numbered'
  <2>1. ASSUME NEW q \in Pumps
        PROVE  /\ \A i \in DOMAIN sent'[q] : OwnLine(q, sent'[q][i])
               /\ \A i, j \in DOMAIN sent'[q] : i # j =>
                     /\ RequestIds(sent'[q][i]) \cap RequestIds(sent'[q][j]) = {}
                     /\ ReplyIds(sent'[q][i]) \cap ReplyIds(sent'[q][j]) = {}
    <3>1. CASE q # p
      BY <3>1, <1>5 DEF Settlement, Numbered
    <3>2. CASE q = p
      <4>1. /\ \A i \in DOMAIN sent[p] : OwnLine(p, sent[p][i])
            /\ \A i, j \in DOMAIN sent[p] : i # j =>
                  /\ RequestIds(sent[p][i]) \cap RequestIds(sent[p][j]) = {}
                  /\ ReplyIds(sent[p][i]) \cap ReplyIds(sent[p][j]) = {}
        BY DEF Settlement, Numbered
      <4>2. \A i \in DOMAIN new : OwnLine(p, new[i])
        BY <1>4, <1>6, <4>1
      <4>3. \A i, j \in DOMAIN new : i # j =>
                  /\ RequestIds(new[i]) \cap RequestIds(new[j]) = {}
                  /\ ReplyIds(new[i]) \cap ReplyIds(new[j]) = {}
        BY <1>6, <1>8, <4>1
      <4> QED BY <3>2, <4>2, <4>3 DEF new
    <3> QED BY <3>1, <3>2
  <2>2. Answered(sent'["toClient"]) \subseteq AskedIds(serverGot)
    <3>1. CASE p = "toClient"
      BY <3>1, <1>4, <1>7 DEF new, Settlement, Numbered, Received
    <3>2. CASE p # "toClient"
      BY <3>2, <1>5, PumpNames DEF Settlement, Numbered
    <3> QED BY <3>1, <3>2
  <2> QED BY <2>1, <2>2, <1>2 DEF Numbered
<1>11. \A q \in Pumps : AskedIds(sent[q]) \subseteq AskedIds(sent'[q]) /\ Answered(sent[q]) \subseteq Answered(sent'[q])
                        /\ Asked(sent[q]) \subseteq Asked(sent'[q])
  BY <1>5, <1>7 DEF new
<1>12. \A q \in Pumps : /\ Len(sent'[q]) >= Len(sent[q]) /\ DOMAIN sent[q] \subseteq DOMAIN sent'[q]
                        /\ \A i \in DOMAIN sent[q] : sent'[q][i] = sent[q][i]
  <2>1. \A q \in Pumps : Len(sent[q]) \in Nat
    BY <1>2
  <2> QED BY <2>1, <1>5, <1>6 DEF new
<1>13. Passed'
  <2>1. \A q \in Pumps : taken[q] <= Len(sent'[q])
    <3>1. \A q \in Pumps : taken[q] \in Nat /\ Len(sent[q]) \in Nat /\ Len(sent'[q]) \in Nat /\ taken[q] <= Len(sent[q])
      BY <1>2, <1>5, <1>6 DEF new, Settlement, Passed, IInv, TypeOK
    <3> QED BY <3>1, <1>12
  <2>2. \A q \in Pumps : at[q] \notin {"read", "ended"} =>
            taken[q] \in DOMAIN sent'[q] /\ line[q] = sent'[q][taken[q]]
    BY <1>12 DEF Settlement, Passed
  <2>3. /\ AskedIds(serverGot) \subseteq AskedIds(sent'["toServer"])
        /\ AskedIds(clientGot) \subseteq ServerIds
        /\ \A id : Told(id) => id \in Answered(sent'["toClient"])
    BY <1>11, PumpNames DEF Settlement, Passed
  <2>4. \A i \in DOMAIN clientGot : clientGot[i].form = "denial" => ReplyIds(clientGot[i]) \subseteq DeniedIds
    BY DEF Settlement, Passed
  <2> QED BY <1>2, <1>9, <2>1, <2>2, <2>3, <2>4 DEF Passed
<1>14. SettledOnce'
  <2>1. p = "toServer" => Fresh(l)
    <3>1. CallDenied \subseteq AskedIds(sent["toServer"])
      BY DEF Settlement, SettledOnce
    <3> QED BY <1>4, <3>1 DEF Settlement, Passed, Fresh
  <2>2. \A j \in DOMAIN sent'["toServer"] : j > taken["toServer"] => Fresh(sent'["toServer"][j])
    <3>1. CASE p = "toServer"
      BY <3>1, <2>1, <1>6 DEF new, Settlement, SettledOnce
    <3>2. CASE p # "toServer"
      BY <3>2, <1>5, PumpNames DEF Settlement, SettledOnce
    <3> QED BY <3>1, <3>2
  <2>3. CallDenied \subseteq AskedIds(sent'["toServer"])
    BY <1>11, PumpNames DEF Settlement, SettledOnce
  <2> QED BY <1>2, <1>9, <2>2, <2>3 DEF Settlement, SettledOnce, Fresh, Undecided, Refused, InHand
<1>15. AnsweredOnce'
  <2>1. ASSUME p = "toClient" PROVE NotYet(l)
    <3>1. ReplyIds(l) \cap Answered(sent["toClient"]) = {} /\ ReplyIds(l) \subseteq AskedIds(serverGot)
      BY <1>4, <2>1 DEF Received
    <3>2. AskedIds(serverGot) \cap CallDenied = {} /\ \A id : Told(id) => id \in Answered(sent["toClient"])
      BY DEF Settlement, SettledOnce, Passed
    <3> QED BY <3>1, <3>2 DEF NotYet
  <2>2. \A j \in DOMAIN sent'["toClient"] : j > taken["toClient"] => NotYet(sent'["toClient"][j])
    <3>1. CASE p = "toClient"
      BY <3>1, <2>1, <1>6 DEF new, Settlement, AnsweredOnce
    <3>2. CASE p # "toClient"
      BY <3>2, <1>5, PumpNames DEF Settlement, AnsweredOnce
    <3> QED BY <3>1, <3>2
  <2>3. \A id : Mistaken(id) => Mistaken(id)'
    BY ReasonsStay DEF Settlement
  <2> QED BY <1>2, <1>9, <2>2, <2>3 DEF Settlement, AnsweredOnce, NotYet
<1> QED BY <1>10, <1>13, <1>14, <1>15 DEF Settlement

LEMMA ReadKeepsSettlement ==
    ASSUME IInv, Settlement, [Next]_vars, ReadFromClient \/ ReadFromServer
    PROVE  Settlement'
<1> DEFINE Kept == <<sent, serverGot, clientGot>>
<1>1. PICK p \in Pumps :
        /\ NextLine(p)
        /\ \/ p = "toServer" /\ Go(p, "parse")
           \/ p = "toClient" /\ Go(p, "write") /\ UNCHANGED events
  BY PumpNames DEF ReadFromClient, ReadFromServer, interceptorVars
<1>2. /\ at \in [Pumps -> {"read", "parse", "write", "dispatch", "deny", "ended"}]
      /\ taken \in [Pumps -> Nat] /\ line \in [Pumps -> Lines] /\ \A q \in Pumps : Len(sent[q]) \in Nat
      /\ Pumps = {"toServer", "toClient"} /\ "toServer" # "toClient"
  BY DEF IInv, TypeOK, Pumps
<1>3. sent \in [Pumps -> Seq(Lines)]
  BY DEF IInv, TypeOK
<1>4. /\ UNCHANGED Kept
      /\ taken' = [taken EXCEPT ![p] = @ + 1] /\ taken[p] < Len(sent[p])
      /\ line' = [line EXCEPT ![p] = sent[p][taken[p] + 1]]
      /\ at' = [at EXCEPT ![p] = IF p = "toServer" THEN "parse" ELSE "write"] /\ at[p] = "read"
  BY <1>1, <1>2 DEF NextLine, Go, worldVars
<1>5. /\ taken'[p] = taken[p] + 1 /\ taken'[p] \in DOMAIN sent[p] /\ line'[p] = sent[p][taken'[p]]
      /\ taken'[p] > taken[p] /\ taken'[p] <= Len(sent[p])
  BY <1>2, <1>3, <1>4
<1>6. /\ \A q \in Pumps \ {p} : taken'[q] = taken[q] /\ line'[q] = line[q] /\ at'[q] = at[q]
      /\ at'[p] = IF p = "toServer" THEN "parse" ELSE "write"
  BY <1>2, <1>4
<1>7. /\ DeniedIds' = DeniedIds /\ CallDenied' \subseteq CallDenied /\ (\A id : Told(id)' <=> Told(id))
      /\ (\A id \in DeniedIds' : Due(id)' \/ Mistaken(id)')
      /\ \A id : Mistaken(id) => Mistaken(id)'
  <2>1. DeniedIds' = DeniedIds /\ (\A id : Told(id)' <=> Told(id))
    BY <1>4 DEF DeniedIds, Told
  <2> QED BY <2>1, DenialsStay, ReasonsStay DEF Settlement
<1>8. Numbered'
  BY <1>4 DEF Settlement, Numbered
<1>9. Passed'
  <2>1. \A q \in Pumps : taken'[q] <= Len(sent[q])
    BY <1>5, <1>6 DEF Settlement, Passed
  <2>2. \A q \in Pumps : at'[q] \notin {"read", "ended"} =>
            taken'[q] \in DOMAIN sent[q] /\ line'[q] = sent[q][taken'[q]]
    BY <1>5, <1>6 DEF Settlement, Passed
  <2> QED BY <1>4, <1>7, <2>1, <2>2 DEF Settlement, Passed
<1>10. \A j \in DOMAIN sent[p] : j > taken'[p] => j > taken[p]
  BY <1>2, <1>3, <1>5
<1>11. CASE p = "toServer"
  <2>1. at'["toServer"] = "parse" /\ at'["toClient"] = at["toClient"]
        /\ taken'["toClient"] = taken["toClient"] /\ line'["toClient"] = line["toClient"]
    BY <1>2, <1>6, <1>11
  <2>2. \A j \in DOMAIN sent["toServer"] : j > taken["toServer"] => Fresh(sent["toServer"][j])
    BY DEF Settlement, SettledOnce
  <2>3. Fresh(line'["toServer"])
    BY <2>2, <1>5, <1>11
  <2>4. SettledOnce'
    BY <1>4, <1>7, <1>10, <1>11, <2>1, <2>2, <2>3 DEF Settlement, SettledOnce, Fresh, InHand
  <2>5. AnsweredOnce'
    BY <1>4, <1>7, <2>1 DEF Settlement, AnsweredOnce, NotYet
  <2> QED BY <1>8, <1>9, <2>4, <2>5 DEF Settlement
<1>12. CASE p = "toClient"
  <2>1. /\ at'["toServer"] = at["toServer"] /\ taken'["toServer"] = taken["toServer"]
        /\ line'["toServer"] = line["toServer"]
    BY <1>2, <1>6, <1>12
  <2>2. \A j \in DOMAIN sent["toClient"] : j > taken["toClient"] => NotYet(sent["toClient"][j])
    BY DEF Settlement, AnsweredOnce
  <2>3. NotYet(line'["toClient"])
    BY <2>2, <1>5, <1>12
  <2>4. AnsweredOnce'
    BY <1>4, <1>7, <1>10, <1>12, <2>2, <2>3 DEF Settlement, AnsweredOnce, NotYet
  <2>5. UNCHANGED events
    BY <1>1, <1>12
  <2>6. SettledOnce'
    BY <1>4, <1>7, <2>1, <2>5 DEF Settlement, SettledOnce, Fresh, InHand, Undecided, Refused
  <2> QED BY <1>8, <1>9, <2>4, <2>6 DEF Settlement
<1> QED BY <1>1, <1>11, <1>12

LEMMA WriteToServerKeepsSettlement ==
    ASSUME IInv, Settlement, [Next]_vars, WriteToServer
    PROVE  Settlement'
<1>1. /\ UNCHANGED <<sent, taken, line, clientGot, events>>
      /\ at["toServer"] = "write" /\ at'["toServer"] = "dispatch" /\ at'["toClient"] = at["toClient"]
      /\ serverGot' = Append(serverGot, InHand)
  BY PumpNames DEF IInv, TypeOK, WriteToServer, Go, InHand, worldVars, interceptorVars
<1>2. /\ taken["toServer"] \in DOMAIN sent["toServer"] /\ InHand = sent["toServer"][taken["toServer"]]
      /\ taken["toServer"] \in Nat
  BY <1>1, PumpNames DEF Settlement, Passed, InHand, IInv, TypeOK
<1>3. AskedIds(serverGot') = AskedIds(serverGot) \union RequestIds(InHand)
  BY <1>1, LineMore DEF IInv, TypeOK
<1>4. /\ DeniedIds' = DeniedIds /\ CallDenied' \subseteq CallDenied /\ (\A id : Told(id)' <=> Told(id))
      /\ (\A id \in DeniedIds' : Due(id)' \/ Mistaken(id)')
      /\ \A id : Mistaken(id) => Mistaken(id)'
  <2>1. DeniedIds' = DeniedIds /\ (\A id : Told(id)' <=> Told(id))
    BY <1>1 DEF DeniedIds, Told
  <2> QED BY <2>1, DenialsStay, ReasonsStay DEF Settlement
<1>5. Fresh(InHand) /\ ~Refused
  BY <1>1 DEF Settlement, SettledOnce, Undecided
<1>6. Numbered'
  BY <1>1, <1>3 DEF Settlement, Numbered
<1>7. Passed'
  <2>1. RequestIds(InHand) \subseteq AskedIds(sent["toServer"])
    BY <1>2, InLines
  <2>2. \A q \in Pumps : at'[q] \notin {"read", "ended"} => at[q] \notin {"read", "ended"}
    BY <1>1 DEF Pumps
  <2> QED BY <1>1, <1>3, <1>4, <2>1, <2>2 DEF Settlement, Passed
<1>8. SettledOnce'
  <2>1. \A j \in DOMAIN sent["toServer"] : j > taken["toServer"] => Fresh(sent["toServer"][j])'
    <3> SUFFICES ASSUME NEW j \in DOMAIN sent["toServer"], j > taken["toServer"]
                 PROVE  RequestIds(sent["toServer"][j]) \cap (AskedIds(serverGot') \union CallDenied') = {}
      BY <1>1 DEF Fresh
    <3>1. Fresh(sent["toServer"][j]) /\ j # taken["toServer"]
      BY <1>2 DEF Settlement, SettledOnce
    <3>2. RequestIds(sent["toServer"][j]) \cap RequestIds(InHand) = {}
      BY <1>2, <3>1, PumpNames DEF Settlement, Numbered
    <3> QED BY <1>3, <1>4, <3>1, <3>2 DEF Fresh
  <2>2. ~Undecided' /\ AskedIds(serverGot') \cap CallDenied' = {}
    BY <1>1, <1>3, <1>4, <1>5 DEF Undecided, Refused, Fresh, Settlement, SettledOnce
  <2> QED BY <1>1, <1>4, <2>1, <2>2 DEF Settlement, SettledOnce
<1>9. AnsweredOnce'
  BY <1>1, <1>4 DEF Settlement, AnsweredOnce, NotYet
<1> QED BY <1>6, <1>7, <1>8, <1>9 DEF Settlement

(* What a line passed to the client, the server's or a denial, changes. Of *)
(* the answers the client was told before it repeats only excused ones.    *)
LEMMA ToldMore ==
    ASSUME IInv, Settlement, [Next]_vars, NEW l \in Lines, clientGot' = Append(clientGot, l),
           l.form = "denial" => ReplyIds(l) = {l.messages[1].id},
           \A i \in DOMAIN clientGot :
              \A id \in ReplyIds(clientGot[i]) \cap ReplyIds(l) :
                 "denial" \in {clientGot[i].form, l.form} /\ Mistaken(id)
    PROVE  /\ AskedIds(clientGot') = AskedIds(clientGot) \union RequestIds(l)
           /\ \A id : Told(id)' <=> Told(id) \/ (l.form # "denial" /\ id \in ReplyIds(l))
           /\ DeniedIds' = DeniedIds \union (IF l.form = "denial" THEN {l.messages[1].id} ELSE {})
           /\ \A i \in DOMAIN clientGot' :
                 clientGot'[i].form = "denial" => ReplyIds(clientGot'[i]) \subseteq DeniedIds'
           /\ \A i, j \in DOMAIN clientGot' : i # j =>
                 \A id \in ReplyIds(clientGot'[i]) \cap ReplyIds(clientGot'[j]) :
                    "denial" \in {clientGot'[i].form, clientGot'[j].form} /\ Mistaken(id)'
<1>1. clientGot \in Seq(Lines)
  BY DEF IInv, TypeOK
<1>2. /\ DOMAIN clientGot' = DOMAIN clientGot \union {Len(clientGot) + 1}
      /\ clientGot'[Len(clientGot) + 1] = l
      /\ \A i \in DOMAIN clientGot : clientGot'[i] = clientGot[i]
  BY <1>1
<1>3. DeniedIds' = DeniedIds \union (IF l.form = "denial" THEN {l.messages[1].id} ELSE {})
  <2>1. \A id : id \in DeniedIds' <=>
          \E i \in DOMAIN clientGot' : clientGot'[i].form = "denial" /\ id = clientGot'[i].messages[1].id
    BY DEF DeniedIds
  <2>2. \A id : id \in DeniedIds <=>
          \E i \in DOMAIN clientGot : clientGot[i].form = "denial" /\ id = clientGot[i].messages[1].id
    BY DEF DeniedIds
  <2>3. \A id : id \in DeniedIds' <=> id \in DeniedIds \/ (l.form = "denial" /\ id = l.messages[1].id)
    BY <1>2, <2>1, <2>2
  <2> QED BY <2>3
<1>4. \A id : Told(id)' <=> Told(id) \/ (l.form # "denial" /\ id \in ReplyIds(l))
  BY <1>2 DEF Told
<1>5. \A i \in DOMAIN clientGot' : clientGot'[i].form = "denial" => ReplyIds(clientGot'[i]) \subseteq DeniedIds'
  BY <1>2, <1>3 DEF Settlement, Passed
<1>6. \A i, j \in DOMAIN clientGot' : i # j =>
         \A id \in ReplyIds(clientGot'[i]) \cap ReplyIds(clientGot'[j]) :
            "denial" \in {clientGot'[i].form, clientGot'[j].form} /\ Mistaken(id)'
  <2>1. \A id : Mistaken(id) => Mistaken(id)'
    BY ReasonsStay DEF Settlement
  <2>2. \A i, j \in DOMAIN clientGot : i # j =>
           \A id \in ReplyIds(clientGot[i]) \cap ReplyIds(clientGot[j]) :
              "denial" \in {clientGot[i].form, clientGot[j].form} /\ Mistaken(id)
    BY DEF Settlement, AnsweredOnce
  <2>4. \A i, j \in DOMAIN clientGot' : i # j =>
           \/ i \in DOMAIN clientGot /\ j \in DOMAIN clientGot
           \/ i \in DOMAIN clientGot /\ clientGot'[j] = l
           \/ j \in DOMAIN clientGot /\ clientGot'[i] = l
    BY <1>2
  <2> QED BY <1>2, <2>1, <2>2, <2>4
<1> QED BY <1>1, <1>3, <1>4, <1>5, <1>6, LineMore

LEMMA WriteToClientKeepsSettlement ==
    ASSUME IInv, Settlement, [Next]_vars, WriteToClient
    PROVE  Settlement'
<1> DEFINE l == line["toClient"]
<1>1. /\ UNCHANGED <<sent, taken, line, serverGot>>
      /\ at["toClient"] = "write" /\ at'["toClient"] = "parse" /\ at'["toServer"] = at["toServer"]
      /\ clientGot' = Append(clientGot, l) /\ l \in Lines
  BY PumpNames DEF IInv, TypeOK, WriteToClient, Go, worldVars
<1>2. events'["toServer"] = events["toServer"]
  BY PumpNames DEF IInv, TypeOK, Icpt!TypeOK, WriteToClient, Icpt!ParseBegin
<1>3. /\ taken["toClient"] \in DOMAIN sent["toClient"] /\ l = sent["toClient"][taken["toClient"]]
      /\ taken["toClient"] \in Nat
  BY <1>1, PumpNames DEF Settlement, Passed, IInv, TypeOK
<1>4. NotYet(l)
  BY <1>1 DEF Settlement, AnsweredOnce
<1>5. OwnLine("toClient", l)
  BY <1>3, PumpNames DEF Settlement, Numbered
<1> HIDE DEF l
<1>told. \A i \in DOMAIN clientGot :
            \A id \in ReplyIds(clientGot[i]) \cap ReplyIds(l) :
               "denial" \in {clientGot[i].form, l.form} /\ Mistaken(id)
  <2> SUFFICES ASSUME NEW i \in DOMAIN clientGot, NEW id \in ReplyIds(clientGot[i]) \cap ReplyIds(l)
               PROVE  clientGot[i].form = "denial" /\ Mistaken(id)
    OBVIOUS
  <2>1. clientGot[i].form = "denial"
    BY <1>4 DEF NotYet, Told
  <2>2. id \in DeniedIds /\ id \notin CallDenied
    BY <1>4, <2>1 DEF NotYet, Settlement, Passed
  <2> QED BY <2>1, <2>2 DEF CallDenied
<1>6. /\ AskedIds(clientGot') = AskedIds(clientGot) \union RequestIds(l)
      /\ \A id : Told(id)' <=> Told(id) \/ id \in ReplyIds(l)
      /\ DeniedIds' = DeniedIds
      /\ \A i \in DOMAIN clientGot' :
            clientGot'[i].form = "denial" => ReplyIds(clientGot'[i]) \subseteq DeniedIds'
      /\ \A i, j \in DOMAIN clientGot' : i # j =>
            \A id \in ReplyIds(clientGot'[i]) \cap ReplyIds(clientGot'[j]) :
               "denial" \in {clientGot'[i].form, clientGot'[j].form} /\ Mistaken(id)'
  <2>1. l.form # "denial"
    BY <1>5 DEF OwnLine
  <2> QED BY <1>1, <1>told, <2>1, ToldMore
<1>less. CallDenied' \subseteq CallDenied /\ \A id \in DeniedIds' : Due(id)' \/ Mistaken(id)'
  BY <1>6, DenialsStay
<1>7. Numbered'
  BY <1>1 DEF Settlement, Numbered
<1>8. Passed'
  <2>1. RequestIds(l) \subseteq ServerIds
    BY <1>5, PumpNames DEF OwnLine, OwnMessage, OwnIds, RequestIds, RequestsOf
  <2>2. ReplyIds(l) \subseteq Answered(sent["toClient"])
    BY <1>3, InLines
  <2>3. \A q \in Pumps : at'[q] \notin {"read", "ended"} => at[q] \notin {"read", "ended"}
    BY <1>1 DEF Pumps
  <2> QED BY <1>1, <1>6, <2>1, <2>2, <2>3 DEF Settlement, Passed
<1>9. SettledOnce'
  BY <1>1, <1>2, <1>6, <1>less DEF Settlement, SettledOnce, Fresh, Undecided, Refused, InHand
<1>10. AnsweredOnce'
  <2> SUFFICES ASSUME NEW j \in DOMAIN sent["toClient"], j > taken["toClient"]
               PROVE  \A id \in ReplyIds(sent["toClient"][j]) : ~Told(id)' /\ id \notin CallDenied'
    BY <1>1, <1>6 DEF AnsweredOnce, NotYet
  <2>1. NotYet(sent["toClient"][j]) /\ j # taken["toClient"]
    BY <1>3 DEF Settlement, AnsweredOnce
  <2>2. ReplyIds(sent["toClient"][j]) \cap ReplyIds(l) = {}
    BY <1>3, <2>1, PumpNames DEF Settlement, Numbered
  <2> QED BY <1>6, <1>less, <2>1, <2>2 DEF NotYet
<1> QED BY <1>7, <1>8, <1>9, <1>10 DEF Settlement

LEMMA DenyKeepsSettlement ==
    ASSUME IInv, Settlement, RefusedIsCall, [Next]_vars, denyRequest
    PROVE  Settlement'
<1>1. /\ UNCHANGED <<sent, taken, line, serverGot>> /\ UNCHANGED events
      /\ at["toServer"] = "deny" /\ at'["toServer"] \in {"read", "ended"} /\ at'["toClient"] = at["toClient"]
      /\ clientGot' = clientGot \/ (RefusedId # NoId /\ clientGot' = Append(clientGot, Denial(RefusedId)))
  BY PumpNames DEF IInv, TypeOK, denyRequest, Go, worldVars, interceptorVars
<1>2. CASE clientGot' = clientGot
  <2>1. \A q \in Pumps : at'[q] \notin {"read", "ended"} => at[q] \notin {"read", "ended"}
    BY <1>1 DEF Pumps
  <2> QED BY <1>1, <1>2, <2>1, QuietKeepsSettlement DEF Undecided
<1>3. CASE RefusedId # NoId /\ clientGot' = Append(clientGot, Denial(RefusedId))
  <2> DEFINE m == InHand.messages[1]
             d == Denial(RefusedId)
  <2>1. Refusable(InHand) /\ events["toServer"][1].message = m
    BY <1>1 DEF IInv, Judged, RefusedIsCall
  <2>2. /\ taken["toServer"] \in DOMAIN sent["toServer"] /\ InHand = sent["toServer"][taken["toServer"]]
        /\ taken["toServer"] \in 1..taken["toServer"] /\ InHand \in Lines /\ LineOk(InHand)
    <3>1. taken["toServer"] \in DOMAIN sent["toServer"] /\ InHand = sent["toServer"][taken["toServer"]]
      BY <1>1, PumpNames DEF Settlement, Passed, InHand
    <3>2. sent["toServer"] \in Seq(Lines)
      BY PumpNames DEF IInv, TypeOK
    <3> QED BY <3>1, <3>2 DEF IInv, Judged
  <2>3. /\ m \in Range(InHand.messages) /\ m.id = RefusedId /\ m.kind \in {"request", "reply"}
        /\ m.kind = "request" => m.id # NoId
    <3>1. 1 \in DOMAIN InHand.messages
      BY <2>1, <2>2 DEF LineOk, Refusable, IsRefusedCall, TakenForCall, Lines
    <3> QED BY <1>3, <2>1, <3>1 DEF Refusable, IsRefusedCall, TakenForCall, RefusedId, Range
  <2>4. IsRefusedCall(InHand) => RefusedId \in RequestIds(InHand)
    BY <2>3 DEF IsRefusedCall, RequestsOf, RequestIds
  <2>5. Due(RefusedId) \/ Mistaken(RefusedId)
    BY <2>1, <2>2, <2>3 DEF Refusable, Due, Mistaken
  <2>6. IsRefusedCall(InHand) \/ Mistaken(RefusedId)
    BY <2>1, <2>2, <2>3 DEF Refusable, Mistaken
  <2>7. \/ Mistaken(RefusedId)
        \/ (RefusedId \in RequestIds(InHand) /\ RefusedId \notin AskedIds(serverGot) \union CallDenied)
    <3>1. Fresh(InHand)
      BY <1>1 DEF Settlement, SettledOnce, Undecided
    <3> QED BY <2>4, <2>6, <3>1 DEF Fresh
  <2>8. d \in Lines /\ d.form = "denial" /\ d.messages[1].id = RefusedId
    <3>1. RefusedId \in Ids
      <4>1. OwnLine("toServer", InHand)
        BY <2>2, PumpNames DEF Settlement, Numbered
      <4>2. OwnMessage("toServer", m)
        BY <2>3, <4>1 DEF OwnLine
      <4> HIDE DEF m
      <4> QED BY <2>3, <4>2 DEF OwnMessage, OwnIds, PeerIds, Ids
    <3>2. [kind |-> "reply", id |-> RefusedId, call |-> NoCall] \in Messages
      BY <3>1 DEF Messages
    <3> QED BY <3>2 DEF Denial, Lines
  <2> HIDE DEF m
  <2>9. RequestIds(d) = {} /\ ReplyIds(d) = {RefusedId}
    <3> DEFINE r == [kind |-> "reply", id |-> RefusedId, call |-> NoCall]
    <3>1. Range(d.messages) = {r}
      BY DEF Denial, Range
    <3>2. r.kind = "reply" /\ r.id = RefusedId
      OBVIOUS
    <3> HIDE DEF r
    <3>3. RequestsOf(d) = {} /\ RepliesOf(d) = {r}
      BY <3>1, <3>2 DEF RequestsOf, RepliesOf
    <3> QED BY <3>2, <3>3 DEF RequestIds, ReplyIds
  <2> HIDE DEF d
  <2>10. ASSUME NEW i \in DOMAIN clientGot, RefusedId \in ReplyIds(clientGot[i])
         PROVE  Mistaken(RefusedId)
    <3>1. CASE clientGot[i].form = "denial"
      <4>1. RefusedId \in DeniedIds
        BY <2>10, <3>1 DEF Settlement, Passed
      <4> QED BY <2>7, <4>1 DEF CallDenied
    <3>2. CASE clientGot[i].form # "denial"
      <4>1. RefusedId \in AskedIds(serverGot)
        BY <2>10, <3>2 DEF Settlement, Passed, Numbered, Told
      <4> QED BY <2>7, <4>1
    <3> QED BY <3>1, <3>2
  <2>11. /\ AskedIds(clientGot') = AskedIds(clientGot)
         /\ \A id : Told(id)' <=> Told(id)
         /\ DeniedIds' = DeniedIds \union {RefusedId}
         /\ \A i \in DOMAIN clientGot' :
               clientGot'[i].form = "denial" => ReplyIds(clientGot'[i]) \subseteq DeniedIds'
         /\ \A i, j \in DOMAIN clientGot' : i # j =>
               \A id \in ReplyIds(clientGot'[i]) \cap ReplyIds(clientGot'[j]) :
                  "denial" \in {clientGot'[i].form, clientGot'[j].form} /\ Mistaken(id)'
    <3>1. clientGot' = Append(clientGot, d)
      BY <1>3 DEF d
    <3>2. \A i \in DOMAIN clientGot :
             \A id \in ReplyIds(clientGot[i]) \cap ReplyIds(d) :
                "denial" \in {clientGot[i].form, d.form} /\ Mistaken(id)
      BY <2>8, <2>9, <2>10
    <3> QED BY <2>8, <2>9, <3>1, <3>2, ToldMore
  <2>12. /\ \A id \in DeniedIds' : Due(id)' \/ Mistaken(id)'
         /\ \A id \in CallDenied' : id \in CallDenied \/ (id \in RequestIds(InHand) /\ id \notin AskedIds(serverGot))
    <3>1. \A id : (Due(id) => Due(id)') /\ (Mistaken(id) => Mistaken(id)')
      BY ReasonsStay DEF Settlement
    <3>2. \A id \in DeniedIds' : Due(id)' \/ Mistaken(id)'
      BY <2>5, <2>11, <3>1 DEF Settlement, SettledOnce
    <3>3. ASSUME NEW id \in CallDenied', id \notin CallDenied
          PROVE  id \in RequestIds(InHand) /\ id \notin AskedIds(serverGot)
      <4>1. id \in DeniedIds' /\ ~Mistaken(id)
        BY <3>1 DEF CallDenied
      <4>2. id = RefusedId
        BY <2>11, <3>3, <4>1 DEF CallDenied
      <4> QED BY <2>7, <4>1, <4>2
    <3> QED BY <3>2, <3>3
  <2>13. Numbered'
    BY <1>1 DEF Settlement, Numbered
  <2>14. Passed'
    <3>1. \A q \in Pumps : at'[q] \notin {"read", "ended"} => at[q] \notin {"read", "ended"}
      BY <1>1 DEF Pumps
    <3> QED BY <1>1, <2>11, <3>1 DEF Settlement, Passed
  <2>15. SettledOnce'
    <3>1. ASSUME NEW j \in DOMAIN sent["toServer"], j > taken["toServer"]
          PROVE  RequestIds(sent["toServer"][j]) \cap (AskedIds(serverGot) \union CallDenied') = {}
      <4>1. Fresh(sent["toServer"][j]) /\ j # taken["toServer"]
        BY <2>2, <3>1 DEF Settlement, SettledOnce
      <4>2. RequestIds(sent["toServer"][j]) \cap RequestIds(InHand) = {}
        BY <2>2, <4>1, PumpNames DEF Settlement, Numbered
      <4> QED BY <2>12, <4>1, <4>2 DEF Fresh
    <3>2. ~Undecided' /\ at'["toServer"] # "write"
      BY <1>1 DEF Undecided
    <3>3. AskedIds(serverGot) \cap CallDenied' = {}
      BY <2>12 DEF Settlement, SettledOnce
    <3>4. CallDenied' \subseteq AskedIds(sent["toServer"])
      <4>1. RequestIds(InHand) \subseteq AskedIds(sent["toServer"])
        BY <2>2, InLines
      <4> QED BY <2>12, <4>1 DEF Settlement, SettledOnce
    <3> QED BY <1>1, <2>12, <3>1, <3>2, <3>3, <3>4 DEF SettledOnce, Fresh
  <2>16. AnsweredOnce'
    <3>1. \A j \in DOMAIN sent["toClient"] : \A id \in ReplyIds(sent["toClient"][j]) :
             id \in AskedIds(serverGot)
      BY InLines DEF Settlement, Numbered
    <3>2. at["toClient"] = "write" => \A id \in ReplyIds(line["toClient"]) : id \in AskedIds(serverGot)
      BY <3>1, PumpNames DEF Settlement, Passed
    <3>3. \A id \in AskedIds(serverGot) : ~Told(id) /\ id \notin CallDenied => ~Told(id)' /\ id \notin CallDenied'
      BY <2>11, <2>12
    <3>4. \A j \in DOMAIN sent["toClient"] : j > taken["toClient"] =>
             \A id \in ReplyIds(sent["toClient"][j]) : ~Told(id)' /\ id \notin CallDenied'
      BY <3>1, <3>3 DEF Settlement, AnsweredOnce, NotYet
    <3>5. at["toClient"] = "write" =>
             \A id \in ReplyIds(line["toClient"]) : ~Told(id)' /\ id \notin CallDenied'
      BY <3>2, <3>3 DEF Settlement, AnsweredOnce, NotYet
    <3> QED BY <1>1, <2>11, <3>4, <3>5 DEF AnsweredOnce, NotYet
  <2> QED BY <2>13, <2>14, <2>15, <2>16 DEF Settlement
<1> QED BY <1>1, <1>2, <1>3

LEMMA StepKeepsSettlement ==
    ASSUME IInv, Settlement, RefusedIsCall, [Next]_vars
    PROVE  Settlement'
<1>1. \/ Quiet \/ UNCHANGED vars \/ (\E p \in Pumps : Say(p)) \/ ReadFromClient \/ ReadFromServer
      \/ WriteToServer \/ WriteToClient \/ denyRequest
  BY PumpNames DEF Next, Quiet, pumpToServer, pumpToClient
<1> QED
  BY <1>1, QuietStep, SayKeepsSettlement, ReadKeepsSettlement, WriteToServerKeepsSettlement,
     WriteToClientKeepsSettlement, DenyKeepsSettlement

(* What is parsed was said by the side it came from. *)
LEMMA ParsedWasSaid ==
    ASSUME IInv, Passed, [Next]_vars, NEW p \in Pumps, NEW m \in Range(todo'[p])
    PROVE  m \in Range(todo[p]) \/ \E i \in DOMAIN sent[p] : m \in Range(sent[p][i].messages)
<1>1. /\ todo \in [Pumps -> Seq(Messages)] /\ sent \in [Pumps -> Seq(Lines)] /\ line \in [Pumps -> Lines]
      /\ taken \in [Pumps -> Nat]
  BY DEF IInv, TypeOK, Icpt!TypeOK, Icpt!Messages, Messages
<1>2. \A l \in Lines : Range(Readable(l)) \subseteq Range(l.messages)
  BY DEF Readable, Range
<1>3. CASE todo'[p] = todo[p]
  BY <1>3
<1>4. CASE Icpt!parseOne(p)
  <2>1. todo[p] # <<>> /\ todo'[p] = Tail(todo[p])
    BY <1>1, <1>4 DEF Icpt!parseOne, Icpt!Reading
  <2>2. todo[p] \in Seq(Messages)
    BY <1>1
  <2> QED BY <2>1, <2>2, TailIsPart
<1>5. CASE p = "toServer" /\ ReadFromClient
  <2>1. taken[p] + 1 \in DOMAIN sent[p] /\ line'[p] = sent[p][taken[p] + 1]
    BY <1>1, <1>5 DEF ReadFromClient, NextLine
  <2>2. line'[p] \in Lines
    BY <1>1, <2>1
  <2>3. todo'[p] = Readable(line'[p])
    BY <1>1, <1>5 DEF ReadFromClient, Icpt!ParseBegin
  <2> QED BY <1>2, <2>1, <2>2, <2>3
<1>6. CASE p = "toClient" /\ WriteToClient
  <2>1. taken[p] \in DOMAIN sent[p] /\ line[p] = sent[p][taken[p]]
    BY <1>6 DEF WriteToClient, Passed
  <2>2. line[p] \in Lines
    BY <1>1, <2>1
  <2>3. todo'[p] = Readable(line[p])
    BY <1>1, <1>6 DEF WriteToClient, Icpt!ParseBegin
  <2> QED BY <1>2, <2>1, <2>2, <2>3
<1>7. CASE \E q \in Pumps \ {p} : (q = "toServer" /\ pumpToServer) \/ (q = "toClient" /\ pumpToClient)
  <2>1. todo'[p] = todo[p]
    BY <1>7, StepsOfInterceptor, InterceptorSteps
  <2> QED BY <2>1, <1>3
<1>8. CASE (p = "toServer" /\ pumpToServer) \/ (p = "toClient" /\ pumpToClient)
  <2>1. \/ todo' = todo \/ Icpt!parseOne(p)
        \/ (p = "toServer" /\ ReadFromClient) \/ (p = "toClient" /\ WriteToClient)
    BY <1>8 DEF pumpToServer, pumpToClient, ReadFromServer, EndOfInput, ParseMessage, Judge, Inspect, WriteToServer,
                WriteFails, Dispatch, DispatchDone, denyRequest, interceptorVars, Icpt!ParseEnd
  <2> QED BY <2>1, <1>3, <1>4, <1>5, <1>6
<1>9. CASE ~pumpToServer /\ ~pumpToClient
  <2>1. todo' = todo
    BY <1>9 DEF Next, Say, ServerExits, ClientClosesStdin, ClientStopsReading, Run, RunReturns, CloseDispatcher,
                ProcessExits, vars, interceptorVars
  <2> QED BY <2>1, <1>3
<1> QED BY <1>7, <1>8, <1>9, PumpNames DEF Pumps

-----------------------------------------------------------------------------
(* What the table holds was asked. *)

LEMMA InjectiveFits ==
    ASSUME NEW S, IsFiniteSet(S), NEW s \in Seq(S), IsInjective(s)
    PROVE  Len(s) <= Cardinality(S)
<1>1. s \in [1..Len(s) -> S] /\ DOMAIN s = 1..Len(s) /\ Len(s) \in Nat
  OBVIOUS
<1>2. s \in Injection(1..Len(s), S)
  BY <1>1 DEF Injection, IsInjective
<1>3. Cardinality(1..Len(s)) <= Cardinality(S)
  BY <1>2, FS_Injection
<1>4. Cardinality(1..Len(s)) = Len(s)
  <2> DEFINE n == Len(s)
  <2>1. n \in Nat
    BY <1>1
  <2> HIDE DEF n
  <2>2. Cardinality(1..n) = IF 1 > n THEN 0 ELSE n - 1 + 1
    BY <2>1, FS_Interval
  <2>3. Cardinality(1..n) = n
    BY <2>1, <2>2
  <2> QED BY <2>3 DEF n
<1> QED BY <1>3, <1>4

(* The table forgets an id for another only if as many others were asked   *)
(* as it has room for.                                                     *)
LEMMA ForgetsUnderPressure ==
    ASSUME IInv, Named, NEW p \in Pumps, NEW m \in Asked(sent[p]), m.id \in Ids, NEW call,
           Icpt!rememberPending(m.id, call), NEW i \in Ids
    PROVE  pending'[i] = (IF i = m.id THEN call ELSE pending[i]) \/ Pressed(i)
<1> DEFINE queued == IF m.id \in Icpt!Outstanding THEN order ELSE Append(order, m.id)
           excess == IF Len(queued) > MaxPending THEN Len(queued) - MaxPending ELSE 0
           evicted == {queued[k] : k \in 1..excess}
<1>1. order \in Seq(Ids) /\ IsInjective(order) /\ Range(order) = Icpt!Outstanding
  <2>1. Icpt!TypeOK /\ Icpt!TableAgrees
    BY DEF IInv, TypeOK
  <2> QED BY <2>1 DEF Icpt!TypeOK, Icpt!TableAgrees, IsInjective, Icpt!IsInjective, Range, Icpt!Range
<1>2. order \in Seq(AllAsked) /\ m.id \in AllAsked
  <2>1. \A q \in Pumps : \A r \in Asked(sent[q]) : r.id \in AllAsked
    BY DEF AllAsked, Pumps
  <2>2. \A id \in Icpt!Outstanding : id \in AllAsked
    BY <2>1 DEF Named, Icpt!Outstanding
  <2>3. \A k \in DOMAIN order : order[k] \in AllAsked
    BY <1>1, <2>2 DEF Range
  <2> QED BY <1>1, <2>1, <2>3
<1>3. queued \in Seq(AllAsked) /\ IsInjective(queued)
  <2>1. CASE m.id \in Icpt!Outstanding
    BY <1>1, <1>2, <2>1
  <2>2. CASE m.id \notin Icpt!Outstanding
    <3>1. \A k \in DOMAIN order : order[k] # m.id
      BY <1>1, <2>2 DEF Range
    <3> DEFINE more == Append(order, m.id)
    <3>2. /\ more \in Seq(AllAsked) /\ DOMAIN more = DOMAIN order \union {Len(order) + 1}
          /\ more[Len(order) + 1] = m.id /\ \A k \in DOMAIN order : more[k] = order[k]
      BY <1>2
    <3> HIDE DEF more
    <3>3. IsInjective(more)
      BY <1>1, <3>1, <3>2 DEF IsInjective
    <3> QED BY <2>2, <3>2, <3>3 DEF more
  <2> QED BY <2>1, <2>2
<1>4. pending' = [k \in Ids |-> IF k \in evicted THEN NoCall ELSE IF k = m.id THEN call ELSE pending[k]]
  BY DEF Icpt!rememberPending
<1> HIDE DEF queued
<1>5. Len(queued) \in Nat /\ MaxPending \in Nat /\ MaxPending > 0
  BY <1>3, StdioWrapperAssumption
<1>6. ASSUME i \in evicted PROVE Pressed(i)
  <2>1. PICK k \in 1..excess : i = queued[k]
    BY <1>6
  <2>2. excess \in Nat /\ excess > 0 /\ excess <= Len(queued)
    BY <1>5, <2>1
  <2>3. i \in AllAsked /\ Len(queued) > MaxPending
    <3>1. k \in 1..Len(queued)
      BY <1>5, <2>1, <2>2
    <3>2. Len(queued) > MaxPending
      BY <1>5, <2>2
    <3> QED BY <1>3, <2>1, <3>1, <3>2
  <2>4. IsFiniteSet(AllAsked)
    BY IdsFinite, PumpNames DEF AllAsked, IInv, TypeOK
  <2>5. Len(queued) <= Cardinality(AllAsked) /\ Cardinality(AllAsked) \in Nat
    BY <1>3, <2>4, InjectiveFits, FS_CardinalityType
  <2>6. Cardinality(AllAsked \ {i}) = Cardinality(AllAsked) - 1
    BY <2>3, <2>4, FS_RemoveElement
  <2>7. Cardinality(AllAsked \ {i}) >= MaxPending
    BY <1>5, <2>3, <2>5, <2>6
  <2> QED BY <2>7 DEF Pressed
<1> HIDE DEF evicted, excess
<1> QED BY <1>4, <1>6

(* What a pump does when it parses a message. *)
Emits(p, m, call) == events'[p] = Append(events[p], [message |-> m, call |-> call])

Reads(p, m) ==
    /\ todo[p] # <<>> /\ m = Head(todo[p]) /\ todo'[p] = Tail(todo[p])
    /\ \/ /\ m.kind = "request" /\ m.id \in Ids /\ m.call # NoCall
          /\ Emits(p, m, m.call)
          /\ \A i \in Ids : pending'[i] \in {NoCall, pending[i]} \/ (i = m.id /\ pending'[i] = m.call)
          /\ \A i \in Ids : pending'[i] = (IF i = m.id THEN m.call ELSE pending[i]) \/ Pressed(i)
       \/ /\ m.kind = "reply"
          /\ Emits(p, m, IF m.id \in Ids THEN pending[m.id] ELSE NoCall)
          /\ \A i \in Ids : pending'[i] = IF i = m.id THEN NoCall ELSE pending[i]
       \/ /\ m.kind \in {"request", "junk"} /\ (m.kind = "request" => m.id = NoId)
          /\ UNCHANGED pending
          /\ events'[p] = events[p] \/ (m.kind = "request" /\ Emits(p, m, m.call))

LEMMA ParseReads ==
    ASSUME IInv, Named, NEW p \in Pumps, Icpt!parseOne(p)
    PROVE  \E m \in Messages : m \in Range(todo[p]) /\ Reads(p, m)
<1>1. PICK m \in Icpt!Messages :
        /\ Icpt!Reading(p, m)
        /\ \/ Icpt!Request(p, m) \/ Icpt!Notification(p, m)
           \/ Icpt!ReplyToKnown(p, m) \/ Icpt!ReplyToUnknown(p, m) \/ Icpt!Junk(p, m)
  BY DEF Icpt!parseOne
<1>2. /\ todo \in [Pumps -> Seq(Messages)] /\ pending \in [Ids -> Calls \union {NoCall}]
      /\ DOMAIN events = Pumps
  BY DEF IInv, TypeOK, Icpt!TypeOK, Icpt!Messages, Messages
<1>3. todo[p] \in Seq(Messages) /\ todo[p] # <<>> /\ m = Head(todo[p]) /\ todo'[p] = Tail(todo[p])
  BY <1>1, <1>2 DEF Icpt!Reading
<1>4. m \in Messages /\ m \in Range(todo[p])
  <2>1. m \in Range(todo[p])
    BY <1>3, TailIsPart
  <2> QED BY <1>1, <2>1 DEF Icpt!Messages, Messages
<1>5. ASSUME NEW call, Icpt!Emit(p, m, call) PROVE Emits(p, m, call)
  BY <1>2, <1>5 DEF Icpt!Emit, Emits
<1>6. CASE Icpt!Request(p, m)
  <2>1. m.kind = "request" /\ m.id \in Ids /\ m.call \in Calls /\ m.call # NoCall
    BY <1>4, <1>6, StdioWrapperAssumption DEF Icpt!Request, Messages
  <2>2. Icpt!rememberPending(m.id, m.call) /\ Emits(p, m, m.call)
    BY <1>5, <1>6 DEF Icpt!Request
  <2>3. \A i \in Ids : pending'[i] \in {NoCall, pending[i]} \/ (i = m.id /\ pending'[i] = m.call)
    BY <2>2 DEF Icpt!rememberPending
  <2>4. \A i \in Ids : pending'[i] = (IF i = m.id THEN m.call ELSE pending[i]) \/ Pressed(i)
    <3>1. m \in Asked(sent[p])
      BY <1>4, <2>1, StdioWrapperAssumption DEF Named, Said
    <3> QED BY <2>1, <2>2, <3>1, ForgetsUnderPressure
  <2> QED BY <1>3, <1>4, <2>1, <2>2, <2>3, <2>4 DEF Reads
<1>7. CASE Icpt!Notification(p, m)
  <2>1. m.kind = "request" /\ m.id = NoId /\ UNCHANGED pending /\ Emits(p, m, m.call)
    BY <1>5, <1>7 DEF Icpt!Notification
  <2> QED BY <1>3, <1>4, <2>1 DEF Reads
<1>8. CASE Icpt!ReplyToKnown(p, m)
  <2>1. m.kind = "reply" /\ m.id \in Ids /\ pending' = [pending EXCEPT ![m.id] = NoCall]
        /\ Emits(p, m, pending[m.id])
    BY <1>5, <1>8 DEF Icpt!ReplyToKnown, Icpt!Outstanding, Icpt!takePending
  <2>2. \A i \in Ids : pending'[i] = IF i = m.id THEN NoCall ELSE pending[i]
    BY <1>2, <2>1
  <2> QED BY <1>3, <1>4, <2>1, <2>2 DEF Reads
<1>9. CASE Icpt!ReplyToUnknown(p, m)
  <2>1. m.kind = "reply" /\ UNCHANGED pending /\ Emits(p, m, NoCall)
    BY <1>5, <1>9 DEF Icpt!ReplyToUnknown
  <2>2. m.id \in Ids => pending[m.id] = NoCall
    BY <1>9 DEF Icpt!ReplyToUnknown, Icpt!Outstanding
  <2>3. Emits(p, m, IF m.id \in Ids THEN pending[m.id] ELSE NoCall)
    BY <2>1, <2>2
  <2>4. \A i \in Ids : pending'[i] = IF i = m.id THEN NoCall ELSE pending[i]
    BY <2>1, <2>2
  <2> QED BY <1>3, <1>4, <2>1, <2>3, <2>4 DEF Reads
<1>10. CASE Icpt!Junk(p, m)
  <2>1. m.kind = "junk" /\ UNCHANGED <<pending, events>>
    BY <1>10 DEF Icpt!Junk
  <2> QED BY <1>3, <1>4, <2>1 DEF Reads
<1> QED BY <1>1, <1>6, <1>7, <1>8, <1>9, <1>10

LEMMA CanSayOnce ==
    ASSUME NEW p, NEW m \in CanSay(p) \union {Junk}, m.kind = "reply"
    PROVE  \E r \in Asked(Received(p)) : r.id = m.id /\ r.call = m.call
<1>1. m # Junk
  BY DEF Junk
<1>2. \A r \in Asked(Received(p)) : Reply(r).id = r.id /\ Reply(r).call = r.call
  BY DEF Reply
<1>3. PICK r \in Asked(Received(p)) : m = Reply(r)
  BY <1>1 DEF CanSay
<1> QED BY <1>2, <1>3

(* No two replies of one line are to the same request, and a big line is   *)
(* one message.                                                            *)
Distinct(messages) ==
    \A i, j \in DOMAIN messages :
        messages[i].kind = "reply" /\ messages[j].kind = "reply" /\ messages[i].id = messages[j].id => i = j

LEMMA CanSendOnce ==
    ASSUME TypeOK, NEW p \in Pumps, NEW l \in CanSend(p)
    PROVE  /\ \A m, n \in RequestsOf(l) : m.id = n.id => m = n
           /\ Distinct(l.messages)
           /\ \A m \in RepliesOf(l) : \E r \in Asked(Received(p)) : r.id = m.id /\ r.call = m.call
           /\ l.form = "big" => \A id \in RequestIds(l) : id = l.messages[1].id
<1>1. CASE l \in [form : Forms \ {"batch", "junk"}, messages : {<<m>> : m \in CanSay(p)}]
  <2>1. PICK m \in CanSay(p) : l.messages = <<m>>
    BY <1>1
  <2>2. DOMAIN l.messages = {1} /\ l.messages[1] = m /\ Range(l.messages) = {m}
    BY <2>1 DEF Range
  <2>3. \A n \in RepliesOf(l) : \E r \in Asked(Received(p)) : r.id = n.id /\ r.call = n.call
    BY <2>2, CanSayOnce DEF RepliesOf
  <2> QED BY <2>2, <2>3 DEF RequestsOf, RequestIds, Distinct
<1>2. CASE l = [form |-> "single", messages |-> <<Junk>>]
  <2>1. l.form = "single" /\ DOMAIN l.messages = {1} /\ Range(l.messages) = {Junk}
    BY <1>2 DEF Range
  <2>2. Junk.kind = "junk"
    BY DEF Junk
  <2> QED BY <2>1, <2>2 DEF RequestsOf, RepliesOf, Distinct
<1>3. CASE /\ l \in [form : {"batch"}, messages : {<<m, Junk, n>> : m \in CanSay(p), n \in CanSay(p)}]
           /\ l.messages[1].id # l.messages[3].id
  <2>1. PICK m \in CanSay(p), n \in CanSay(p) : l.messages = <<m, Junk, n>>
    BY <1>3
  <2>2. /\ DOMAIN l.messages = {1, 2, 3} /\ l.messages[1] = m /\ l.messages[2] = Junk /\ l.messages[3] = n
        /\ l.form = "batch"
    BY <1>3, <2>1
  <2>3. Range(l.messages) = {m, Junk, n}
    BY <2>2 DEF Range
  <2>4. Junk.kind = "junk" /\ m.id # n.id
    BY <1>3, <2>2 DEF Junk
  <2>5. \A x \in RepliesOf(l) : \E r \in Asked(Received(p)) : r.id = x.id /\ r.call = x.call
    BY <2>3, CanSayOnce DEF RepliesOf
  <2>6. Distinct(l.messages)
    BY <2>2, <2>4 DEF Distinct
  <2> QED BY <2>2, <2>3, <2>4, <2>5, <2>6 DEF RequestsOf
<1> QED BY <1>1, <1>2, <1>3 DEF CanSend

(* What the two sides get was said by the other, or by the proxy.          *)
LEMMA GotMore ==
    ASSUME IInv, Passed, [Next]_vars
    PROVE  /\ \/ serverGot' = serverGot
              \/ /\ WriteToServer /\ serverGot' = Append(serverGot, InHand)
                 /\ taken["toServer"] \in DOMAIN sent["toServer"] /\ InHand = sent["toServer"][taken["toServer"]]
           /\ \/ clientGot' = clientGot
              \/ \E id : clientGot' = Append(clientGot, Denial(id))
              \/ /\ WriteToClient /\ clientGot' = Append(clientGot, line["toClient"])
                 /\ taken["toClient"] \in DOMAIN sent["toClient"]
                 /\ line["toClient"] = sent["toClient"][taken["toClient"]]
<1>1. serverGot' = serverGot \/ (WriteToServer /\ serverGot' = Append(serverGot, InHand))
  BY DEF Next, Say, ServerExits, ClientClosesStdin, ClientStopsReading, pumpToServer, pumpToClient, Run, RunReturns,
         CloseDispatcher, ProcessExits, ReadFromClient, ReadFromServer, NextLine, EndOfInput, ParseMessage, Judge,
         Inspect, WriteToServer, WriteToClient, WriteFails, Dispatch, DispatchDone, denyRequest, vars, InHand
<1>2. \/ clientGot' = clientGot \/ \E id : clientGot' = Append(clientGot, Denial(id))
      \/ WriteToClient /\ clientGot' = Append(clientGot, line["toClient"])
  BY DEF Next, Say, ServerExits, ClientClosesStdin, ClientStopsReading, pumpToServer, pumpToClient, Run, RunReturns,
         CloseDispatcher, ProcessExits, ReadFromClient, ReadFromServer, NextLine, EndOfInput, ParseMessage, Judge,
         Inspect, WriteToServer, WriteToClient, WriteFails, Dispatch, DispatchDone, denyRequest, vars
<1>3. WriteToServer => taken["toServer"] \in DOMAIN sent["toServer"] /\ InHand = sent["toServer"][taken["toServer"]]
  BY PumpNames DEF WriteToServer, Passed, InHand
<1>4. WriteToClient => /\ taken["toClient"] \in DOMAIN sent["toClient"]
                       /\ line["toClient"] = sent["toClient"][taken["toClient"]]
  BY PumpNames DEF WriteToClient, Passed
<1> QED BY <1>1, <1>2, <1>3, <1>4

LEMMA PendingMoves ==
    ASSUME [Next]_vars
    PROVE  pending' = pending \/ \E p \in Pumps : ParseMessage(p) /\ Icpt!parseOne(p)
BY PumpNames
DEF Next, Say, ServerExits, ClientClosesStdin, ClientStopsReading, pumpToServer, pumpToClient, Run, RunReturns,
    CloseDispatcher, ProcessExits, ReadFromClient, ReadFromServer, EndOfInput, ParseMessage, Judge, Inspect,
    WriteToServer, WriteToClient, WriteFails, Dispatch, DispatchDone, denyRequest, vars, interceptorVars,
    Icpt!ParseBegin, Icpt!ParseEnd

LEMMA NamedKept ==
    ASSUME IInv, Passed, Named, [Next]_vars
    PROVE  Named'
<1> USE PumpNames
<1>1. /\ sent \in [Pumps -> Seq(Lines)] /\ serverGot \in Seq(Lines) /\ clientGot \in Seq(Lines)
      /\ \A p \in Pumps : Other(p) \in Pumps
  BY DEF IInv, TypeOK, Other
<1>2. /\ \A p \in Pumps : Asked(sent[p]) \subseteq Asked(sent'[p])
      /\ \A m : \A p \in Pumps : Said(p, m) => Said(p, m)'
  BY SaidStays
<1>3. ASSUME NEW q \in Pumps, NEW l \in CanSend(q), sent'[q] = Append(sent[q], l)
      PROVE  /\ \A r, s \in Asked(sent'[q]) : r.id = s.id => r = s
             /\ \A m \in Range(l.messages) : Said(q, m)'
  <2>1. /\ \A m, n \in RequestsOf(l) : m.id = n.id => m = n
        /\ \A m \in RepliesOf(l) : \E r \in Asked(Received(q)) : r.id = m.id /\ r.call = m.call
    BY CanSendOnce DEF IInv
  <2>2. Asked(sent'[q]) = Asked(sent[q]) \union RequestsOf(l)
    <3>1. sent[q] \in Seq(Lines)
      BY <1>1
    <3> QED BY <1>3, <3>1, LineMore
  <2>3. \A m \in RequestsOf(l) : m.id \notin AskedIds(sent[q])
    <3>1. \A m \in Range(l.messages) : m \in CanSay(q) \union {Junk}
      BY SentAreSaid
    <3> QED BY <3>1, CanSayGives DEF RequestsOf
  <2>4. \A r, s \in Asked(sent'[q]) : r.id = s.id => r = s
    BY <2>1, <2>2, <2>3 DEF Named, AskedIds
  <2>5. \A m \in Range(l.messages) : Said(q, m)'
    <3> SUFFICES ASSUME NEW m \in Range(l.messages) PROVE Said(q, m)'
      OBVIOUS
    <3>1. m.kind = "request" /\ m.id # NoId => m \in Asked(sent'[q])
      BY <2>2 DEF RequestsOf
    <3>2. m.kind = "reply" => \E r \in Asked(sent'[Other(q)]) : r.id = m.id /\ r.call = m.call
      <4>1. Asked(Received(q)) \subseteq Asked(sent[Other(q)])
        BY DEF Named
      <4> QED BY <1>1, <1>2, <2>1, <4>1 DEF RepliesOf
    <3> QED BY <3>1, <3>2 DEF Said
  <2> QED BY <2>4, <2>5
<1>4. \A q \in Pumps : sent'[q] = sent[q] \/ \E l \in CanSend(q) : sent'[q] = Append(sent[q], l)
  BY <1>1, SentIsNew
<1>5. \A p \in Pumps : \A r, s \in Asked(sent'[p]) : r.id = s.id => r = s
  BY <1>3, <1>4 DEF Named
<1>6. \A p \in Pumps : \A i \in DOMAIN sent'[p] : \A m \in Range(sent'[p][i].messages) : Said(p, m)'
  <2> SUFFICES ASSUME NEW p \in Pumps, NEW i \in DOMAIN sent'[p], NEW m \in Range(sent'[p][i].messages)
               PROVE  Said(p, m)'
    OBVIOUS
  <2>1. sent[p] \in Seq(Lines)
    BY <1>1
  <2>2. CASE i \in DOMAIN sent[p] /\ sent'[p][i] = sent[p][i]
    BY <1>2, <2>2 DEF Named
  <2>3. ASSUME NEW l \in CanSend(p), sent'[p] = Append(sent[p], l), i \notin DOMAIN sent[p] \/ sent'[p][i] # sent[p][i]
        PROVE  Said(p, m)'
    <3>1. sent'[p][i] = l
      BY <2>1, <2>3
    <3> QED BY <1>3, <2>3, <3>1
  <2> QED BY <1>4, <2>2, <2>3
<1>7. \A p \in Pumps : \A m \in Range(todo'[p]) : Said(p, m)'
  BY <1>2, ParsedWasSaid DEF Named
<1>8. \A p \in Pumps : Asked(Received(p)') \subseteq Asked(sent'[Other(p)])
  <2>1. Asked(serverGot') \subseteq Asked(sent'["toServer"])
    <3>1. Asked(serverGot) \subseteq Asked(sent'["toServer"])
      BY <1>2 DEF Named, Received, Other
    <3>2. CASE /\ serverGot' = Append(serverGot, InHand) /\ taken["toServer"] \in DOMAIN sent["toServer"]
               /\ InHand = sent["toServer"][taken["toServer"]]
      <4>1. RequestsOf(InHand) \subseteq Asked(sent["toServer"])
        BY <3>2, InLines
      <4> QED BY <1>1, <1>2, <3>1, <3>2, <4>1, LineMore
    <3> QED BY <3>1, <3>2, GotMore
  <2>2. Asked(clientGot') \subseteq Asked(sent'["toClient"])
    <3>1. Asked(clientGot) \subseteq Asked(sent'["toClient"])
      BY <1>2 DEF Named, Received, Other
    <3>2. CASE /\ clientGot' = Append(clientGot, line["toClient"]) /\ taken["toClient"] \in DOMAIN sent["toClient"]
               /\ line["toClient"] = sent["toClient"][taken["toClient"]]
      <4>1. RequestsOf(line["toClient"]) \subseteq Asked(sent["toClient"])
        BY <3>2, InLines
      <4> QED BY <1>1, <1>2, <3>1, <3>2, <4>1, LineMore
    <3>3. ASSUME NEW id, clientGot' = Append(clientGot, Denial(id)) PROVE Asked(clientGot') \subseteq Asked(clientGot)
      <4>1. RequestsOf(Denial(id)) = {}
        BY DEF RequestsOf, Denial, Range
      <4> QED BY <1>1, <3>3, <4>1, LineMore
    <3> QED BY <3>1, <3>2, <3>3, GotMore
  <2> QED BY <2>1, <2>2 DEF Received, Other, Pumps
<1>9. ASSUME NEW id \in Ids, pending'[id] # NoCall
      PROVE  \E p \in Pumps : \E r \in Asked(sent'[p]) : r.id = id /\ r.call = pending'[id]
  <2>1. CASE pending'[id] = pending[id]
    BY <1>2, <1>9, <2>1 DEF Named
  <2>2. ASSUME NEW p \in Pumps, NEW m \in Messages, m \in Range(todo[p]), Reads(p, m), pending'[id] # pending[id]
        PROVE  \E q \in Pumps : \E r \in Asked(sent'[q]) : r.id = id /\ r.call = pending'[id]
    <3>1. m.kind = "request" /\ m.id = id /\ m.call = pending'[id]
      BY <1>9, <2>2 DEF Reads
    <3>2. m \in Asked(sent[p])
      BY <2>2, <3>1, StdioWrapperAssumption DEF Named, Said
    <3> QED BY <1>2, <3>1, <3>2
  <2> QED BY <2>1, <2>2, PendingMoves, ParseReads
<1> QED BY <1>5, <1>6, <1>7, <1>8, <1>9 DEF Named

(* Parsing a single message gives no event, or the one of that message; if *)
(* that event names a denied call, the message is a request for it, or a   *)
(* reply with the id of one.                                               *)
LEMMA ParsedSingle ==
    ASSUME IInv, AnswerInv, ParseMessage("toServer"), InHand.form = "single"
    PROVE  /\ todo'["toServer"] = <<>>
           /\ \/ events'["toServer"] = <<>>
              \/ \E c \in Calls \union {NoCall} :
                    /\ events'["toServer"] = <<[message |-> InHand.messages[1], call |-> c]>>
                    /\ c \in Denied => Refusable(InHand)
<1>1. PICK m \in Icpt!Messages :
        /\ Icpt!Reading("toServer", m)
        /\ \/ Icpt!Request("toServer", m) \/ Icpt!Notification("toServer", m)
           \/ Icpt!ReplyToKnown("toServer", m) \/ Icpt!ReplyToUnknown("toServer", m)
           \/ Icpt!Junk("toServer", m)
  BY DEF ParseMessage, Icpt!parseOne
<1>2. /\ Len(InHand.messages) = 1 /\ InHand.messages \in Seq(Messages) /\ at["toServer"] = "parse"
      /\ todo["toServer"] = InHand.messages /\ events["toServer"] = <<>>
  <2>1. at["toServer"] = "parse" /\ todo["toServer"] # <<>>
    BY <1>1 DEF ParseMessage, Icpt!Reading
  <2>2. InHand \in Lines /\ LineOk(InHand)
    BY <2>1, PumpNames DEF IInv, TypeOK, Judged, InHand
  <2> QED BY <2>1, <2>2 DEF AnswerInv, RefusedIsCall, LineOk, Lines
<1>3. m = InHand.messages[1] /\ Tail(InHand.messages) = <<>> /\ m \in Range(todo["toServer"])
  <2>1. m = Head(InHand.messages)
    BY <1>1, <1>2 DEF Icpt!Reading
  <2> QED BY <1>2, <2>1, OneElement DEF Range
<1>5. DOMAIN todo = Pumps /\ DOMAIN events = Pumps /\ pending \in [Ids -> Calls \union {NoCall}]
  BY DEF IInv, TypeOK, Icpt!TypeOK
<1>6. todo'["toServer"] = <<>>
  BY <1>1, <1>2, <1>3, <1>5, PumpNames DEF Icpt!Reading
<1>7. ASSUME NEW c, Icpt!Emit("toServer", m, c)
      PROVE  events'["toServer"] = <<[message |-> InHand.messages[1], call |-> c]>>
  <2>1. events'["toServer"] = Append(events["toServer"], [message |-> m, call |-> c])
    BY <1>5, <1>7, PumpNames DEF Icpt!Emit
  <2> QED BY <1>2, <1>3, <2>1
<1>8. NoCall \notin Denied
  BY StdioWrapperAssumption
<1>9. CASE Icpt!Request("toServer", m) \/ Icpt!Notification("toServer", m)
  <2>1. Icpt!Emit("toServer", m, m.call) /\ m.kind = "request"
    BY <1>9 DEF Icpt!Request, Icpt!Notification
  <2>2. m.call \in Calls
    BY <2>1 DEF Icpt!Messages
  <2>3. m.call \in Denied => Refusable(InHand)
    BY <1>3, <2>1 DEF Refusable, IsRefusedCall
  <2> QED BY <1>6, <1>7, <2>1, <2>2, <2>3
<1>10. CASE Icpt!ReplyToKnown("toServer", m)
  <2>1. Icpt!Emit("toServer", m, pending[m.id]) /\ m.kind = "reply" /\ m.id \in Ids
    BY <1>10 DEF Icpt!ReplyToKnown, Icpt!Outstanding
  <2>2. pending[m.id] \in Calls \union {NoCall}
    BY <1>5, <2>1
  <2>3. pending[m.id] \in Denied => TakenForCall(InHand)
    <3>1. pending[m.id] # NoCall => \E r \in Under(m.id) : r.call = pending[m.id]
      BY <2>1, PumpNames DEF AnswerInv, Named, Under, Pumps
    <3> QED BY <1>3, <1>8, <2>1, <3>1 DEF TakenForCall
  <2> QED BY <1>6, <1>7, <2>1, <2>2, <2>3 DEF Refusable
<1>11. CASE Icpt!ReplyToUnknown("toServer", m)
  <2>1. Icpt!Emit("toServer", m, NoCall)
    BY <1>11 DEF Icpt!ReplyToUnknown
  <2> QED BY <1>6, <1>7, <1>8, <2>1
<1>12. CASE Icpt!Junk("toServer", m)
  BY <1>2, <1>6, <1>12 DEF Icpt!Junk
<1> QED BY <1>1, <1>9, <1>10, <1>11, <1>12

LEMMA RefusedStaysCall ==
    ASSUME IInv, AnswerInv, [Next]_vars
    PROVE  RefusedIsCall'
<1>1. RefusedIsCall /\ (Refusable(InHand) /\ InHand' = InHand => Refusable(InHand)')
  BY SaidStays, PumpNames DEF AnswerInv, Refusable, IsRefusedCall, TakenForCall, Under
<1>2. /\ at \in [Pumps -> {"read", "parse", "write", "dispatch", "deny", "ended"}] /\ "toServer" \in Pumps
      /\ line \in [Pumps -> Lines] /\ DOMAIN todo = Pumps /\ DOMAIN events = Pumps
  BY PumpNames DEF IInv, TypeOK, Icpt!TypeOK
<1>3. CASE /\ at'["toServer"] = at["toServer"] /\ line'["toServer"] = line["toServer"]
           /\ todo'["toServer"] = todo["toServer"] /\ events'["toServer"] = events["toServer"]
  BY <1>1, <1>3 DEF RefusedIsCall, InHand, Refused
<1>4. CASE at'["toServer"] \in {"read", "ended"}
  BY <1>4 DEF RefusedIsCall
<1>5. CASE pumpToClient
  <2>1. todo'["toServer"] = todo["toServer"] /\ events'["toServer"] = events["toServer"]
    BY <1>5, PumpNames, StepsOfInterceptor, InterceptorSteps
  <2>2. at'["toServer"] = at["toServer"] /\ line'["toServer"] = line["toServer"]
    BY <1>2, <1>5, PumpNames
    DEF pumpToClient, ReadFromServer, NextLine, EndOfInput, ParseMessage, Inspect, Go, WriteToClient, WriteFails,
        Dispatch, DispatchDone, pumpVars
  <2> QED BY <1>3, <2>1, <2>2
<1>6. CASE ReadFromClient
  <2>1. /\ todo'["toServer"] = Readable(InHand') /\ events'["toServer"] = <<>>
        /\ at'["toServer"] = "parse"
    BY <1>2, <1>6 DEF ReadFromClient, Icpt!ParseBegin, Go, InHand
  <2> QED BY <2>1 DEF RefusedIsCall, Readable
<1>7. CASE ParseMessage("toServer")
  <2>1. at' = at /\ InHand' = InHand /\ at["toServer"] = "parse" /\ todo["toServer"] # <<>>
    BY <1>7 DEF ParseMessage, pumpVars, InHand, Icpt!parseOne, Icpt!Reading
  <2>2. InHand.form # "big"
    BY <1>1, <2>1 DEF RefusedIsCall
  <2>3. InHand.form = "single" =>
          /\ todo'["toServer"] = <<>>
          /\ \/ events'["toServer"] = <<>>
             \/ \E c \in Calls \union {NoCall} :
                   /\ events'["toServer"] = <<[message |-> InHand.messages[1], call |-> c]>>
                   /\ c \in Denied => Refusable(InHand)
    BY <1>7, ParsedSingle
  <2> QED BY <1>1, <2>1, <2>2, <2>3 DEF RefusedIsCall
<1>8. CASE Judge
  <2>1. /\ at["toServer"] = "parse" /\ UNCHANGED events /\ InHand' = InHand /\ todo["toServer"] = <<>>
        /\ at'["toServer"] \in {"dispatch", "write"}
    BY <1>2, <1>8 DEF Judge, Icpt!ParseEnd, Go, InHand
  <2>2. ASSUME Refused PROVE Refusable(InHand) /\ events["toServer"][1].message = InHand.messages[1]
    <3>1. InHand.form \in {"single", "big"}
      <4>1. OwnLine("toServer", InHand)
        BY <2>1, PumpNames DEF AnswerInv, Passed, Numbered, InHand
      <4> QED BY <1>2, <2>2, <4>1 DEF OwnLine, Refused, InHand, Lines
    <3>2. Len(events["toServer"]) = 1 /\ events["toServer"][1].call \in Denied
      BY <2>2 DEF Refused
    <3>3. LineOk(InHand)
      BY <2>1 DEF IInv, Judged
    <3>4. InHand.form = "single" /\ todo["toServer"] # InHand.messages
      <4>1. events["toServer"] # <<>>
        BY <3>2
      <4>2. InHand.form = "single"
        BY <1>1, <2>1, <3>1, <4>1 DEF RefusedIsCall
      <4>3. InHand.messages \in Seq(Messages) /\ Len(InHand.messages) = 1
        BY <1>2, <3>3, <4>2 DEF LineOk, InHand, Lines
      <4>4. InHand.messages # <<>>
        BY <4>3, OneElement
      <4> QED BY <2>1, <4>2, <4>4
    <3>5. PICK c \in Calls \union {NoCall} :
            /\ events["toServer"] = <<[message |-> InHand.messages[1], call |-> c]>>
            /\ c \in Denied => Refusable(InHand)
      <4>1. events["toServer"] # <<>>
        BY <3>2
      <4> QED BY <1>1, <2>1, <3>4, <4>1 DEF RefusedIsCall
    <3>6. events["toServer"][1] = [message |-> InHand.messages[1], call |-> c]
      BY <3>5
    <3> QED BY <3>2, <3>5, <3>6
  <2>3. Refused' = Refused
    BY <2>1 DEF Refused, InHand
  <2> QED BY <1>1, <2>1, <2>2, <2>3 DEF RefusedIsCall
<1>9. CASE WriteToServer \/ Dispatch("toServer") \/ DispatchDone("toServer")
  <2>1. /\ at["toServer"] \in {"write", "dispatch"} /\ at'["toServer"] \in {"dispatch", "deny", "read"}
        /\ UNCHANGED <<line, events>>
    BY <1>2, <1>9 DEF WriteToServer, Dispatch, DispatchDone, Go, interceptorVars
  <2> QED BY <1>1, <2>1 DEF RefusedIsCall, Refused, InHand
<1>10. CASE EndOfInput("toServer") \/ WriteFails("toServer") \/ denyRequest
  <2>1. at'["toServer"] \in {"read", "ended"}
    BY <1>2, <1>10 DEF EndOfInput, WriteFails, denyRequest, Go
  <2> QED BY <1>4, <2>1
<1>11. CASE ~pumpToServer /\ ~pumpToClient
  <2>1. /\ UNCHANGED <<line, todo, events>> /\ (at' = at \/ at'["toServer"] = "ended")
    BY <1>2, <1>11 DEF Next, Say, ServerExits, ClientClosesStdin, ClientStopsReading, Run, RunReturns,
                       CloseDispatcher, ProcessExits, vars, interceptorVars, pumpVars, Go
  <2> QED BY <1>3, <1>4, <2>1
<1> QED BY <1>5, <1>6, <1>7, <1>8, <1>9, <1>10, <1>11 DEF pumpToServer

LEMMA AnswerInvariance == Spec => []AnswerInv
<1>1. AnswerInv /\ IInv /\ [Next]_vars => AnswerInv'
  <2> SUFFICES ASSUME AnswerInv, IInv, [Next]_vars PROVE AnswerInv'
    OBVIOUS
  <2>1. Settlement'
    BY StepKeepsSettlement DEF AnswerInv, Settlement
  <2> QED BY <2>1, NamedKept, RefusedStaysCall DEF AnswerInv, Settlement
<1> QED BY <1>1, AnswerInit, Invariance, PTL DEF Spec

(* The client is told at most one answer under an id, and refused only     *)
(* calls that policy denies: the proxy refuses what it has not passed on   *)
(* and passes on what it has not refused, however the pumps interleave and *)
(* whatever ids the two ends use. The one exception is the id that both    *)
(* use, where the client's reply is taken for its own denied call.         *)
THEOREM EachIsAnsweredOnce == Spec => []OneAnswerPerRequest
<1>1. AnswerInv /\ IInv => OneAnswerPerRequest
  <2> SUFFICES ASSUME AnswerInv, IInv PROVE OneAnswerPerRequest
    OBVIOUS
  <2>1. \A i, j \in DOMAIN clientGot :
          \A m \in RepliesOf(clientGot[i]) : \A n \in RepliesOf(clientGot[j]) : m.id = n.id /\ i # j =>
              "denial" \in {clientGot[i].form, clientGot[j].form} /\ Mistaken(m.id)
    <3>1. \A i \in DOMAIN clientGot : \A m \in RepliesOf(clientGot[i]) : m.id \in ReplyIds(clientGot[i])
      BY DEF ReplyIds
    <3> QED BY <3>1 DEF AnswerInv, AnsweredOnce
  <2>2. \A i \in DOMAIN clientGot : clientGot[i].form = "denial" =>
          Due(clientGot[i].messages[1].id) \/ Mistaken(clientGot[i].messages[1].id)
    BY DEF AnswerInv, SettledOnce, DeniedIds
  <2>3. at["toServer"] = "deny" => IsRefusedCall(line["toServer"]) \/ TakenForCall(line["toServer"])
    BY DEF IInv, Judged, AnswerInv, RefusedIsCall, Refusable, InHand
  <2> QED BY <2>1, <2>2, <2>3 DEF OneAnswerPerRequest, RepliesOf
<1> QED BY <1>1, AnswerInvariance, Invariance, PTL

-----------------------------------------------------------------------------
(* Transparency: which line of its origin each line passed on is.          *)

(* The lines with a reply that Evaluate can take for a denied call. *)
Doubtful == {k \in DOMAIN sent["toServer"] : TakenForCall(sent["toServer"][k])}

ServerOrder(f) ==
    /\ f \in [DOMAIN serverGot -> 1..taken["toServer"]]
    /\ InOrder(f, DOMAIN serverGot, serverGot, sent["toServer"])
    /\ \A k \in 1..taken["toServer"] :
          IF IsRefusedCall(sent["toServer"][k]) THEN k \notin Range(f)
          ELSE \/ k \in Range(f) \/ k \in Doubtful
               \/ k = taken["toServer"] /\ at["toServer"] \in {"parse", "write", "ended"}
    /\ at["toServer"] \in {"parse", "write"} => taken["toServer"] \notin Range(f)

NotDenials == {i \in DOMAIN clientGot : clientGot[i].form # "denial"}

(* A line of the server is missing only while it is in hand, or for good   *)
(* if the client has gone.                                                 *)
ClientOrder(f) ==
    /\ f \in [NotDenials -> 1..taken["toClient"]]
    /\ InOrder(f, NotDenials, clientGot, sent["toClient"])
    /\ \A k \in 1..taken["toClient"] :
          \/ k \in Range(f)
          \/ /\ k = taken["toClient"]
             /\ at["toClient"] = "write" \/ (at["toClient"] = "ended" /\ stdout = "closed")
    /\ at["toClient"] = "write" => taken["toClient"] \notin Range(f)

(* The response pump ends when all is read, unless the client has gone.    *)
EndsWithServer ==
    /\ at["toClient"] = "ended" /\ stdout = "open" =>
          server = "down" /\ taken["toClient"] = Len(sent["toClient"])
    /\ main # "waiting" => at["toClient"] = "ended"

OrderInv == (\E f : ServerOrder(f)) /\ (\E f : ClientOrder(f)) /\ EndsWithServer

LEMMA OrderInit == Init => OrderInv
<1> SUFFICES ASSUME Init PROVE OrderInv
  OBVIOUS
<1>1. /\ at = [p \in Pumps |-> "read"] /\ taken = [p \in Pumps |-> 0]
      /\ serverGot = <<>> /\ clientGot = <<>> /\ main = "waiting"
      /\ "toServer" \in Pumps /\ "toClient" \in Pumps
  BY PumpNames DEF Init
<1>2. ServerOrder(<<>>) /\ ClientOrder(<<>>)
  BY <1>1 DEF ServerOrder, ClientOrder, NotDenials, InOrder, Range
<1> QED BY <1>1, <1>2 DEF OrderInv, EndsWithServer

(* One more line passed on: the last one taken, now at place i. *)
PassesOn(f, n, places, i, got, more, from) ==
    /\ n \in Nat /\ n > 0 /\ f \in [places -> 1..n] /\ n \notin Range(f) /\ InOrder(f, places, got, from)
    /\ places \subseteq Nat /\ i \in Nat /\ \A j \in places : j < i
    /\ more[i] = from[n] /\ \A j \in places : more[j] = got[j]

Extended(f, n, places, i) == [j \in places \union {i} |-> IF j = i THEN n ELSE f[j]]

LEMMA OneMoreInOrder ==
    ASSUME NEW f, NEW n, NEW places, NEW i, NEW got, NEW more, NEW from,
           PassesOn(f, n, places, i, got, more, from)
    PROVE  /\ Extended(f, n, places, i) \in [places \union {i} -> 1..n]
           /\ InOrder(Extended(f, n, places, i), places \union {i}, more, from)
           /\ \A k : k \in Range(Extended(f, n, places, i)) <=> k \in Range(f) \/ k = n
<1> USE DEF PassesOn
<1> DEFINE g == Extended(f, n, places, i)
<1>1. i \notin places /\ \A j \in places : g[j] = f[j] /\ f[j] \in 1..n /\ f[j] < n
  BY DEF Range, Extended
<1>2. g \in [places \union {i} -> 1..n] /\ g[i] = n
  BY <1>1 DEF Extended
<1> HIDE DEF g
<1>3. \A k : k \in Range(g) <=> k \in Range(f) \/ k = n
  BY <1>1, <1>2 DEF Range
<1> HIDE DEF g
<1>4. InOrder(g, places \union {i}, more, from)
  <2>1. \A a \in places \union {i} : more[a] = from[g[a]]
    BY <1>1, <1>2 DEF InOrder
  <2>2. \A a, b \in places : a < b => g[a] < g[b]
    BY <1>1 DEF InOrder
  <2>3. \A a \in places : g[a] < g[i] /\ ~(i < a)
    BY <1>1, <1>2
  <2>4. ~(i < i)
    OBVIOUS
  <2> QED BY <2>1, <2>2, <2>3, <2>4 DEF InOrder
<1> QED BY <1>2, <1>3, <1>4 DEF g

LEMMA DoubtStays ==
    ASSUME IInv, [Next]_vars
    PROVE  Doubtful \subseteq Doubtful'
BY SaidStays, LinesStay, PumpNames DEF Doubtful, TakenForCall, Under

LEMMA ServerOrderKept ==
    ASSUME IInv, AnswerInv, AnswerInv', [Next]_vars, \E f : ServerOrder(f)
    PROVE  (\E f : ServerOrder(f))'
<1> DEFINE t == taken["toServer"]
           from == sent["toServer"]
<1>1. PICK f : ServerOrder(f)
  OBVIOUS
<1>2. /\ at \in [Pumps -> {"read", "parse", "write", "dispatch", "deny", "ended"}] /\ "toServer" \in Pumps
      /\ taken \in [Pumps -> Nat] /\ t \in Nat /\ t <= Len(from) /\ serverGot \in Seq(Lines)
  BY PumpNames DEF IInv, TypeOK, AnswerInv, Passed
<1>3. /\ Len(from) \in Nat /\ Len(from') \in Nat /\ Len(from) <= Len(from')
      /\ \A k \in 1..Len(from) : from'[k] = from[k]
  BY <1>2, SentStays
<1>4. \A k \in 1..t : from'[k] = from[k]
  BY <1>2, <1>3
<1>5. /\ f \in [DOMAIN serverGot -> 1..t]
      /\ InOrder(f, DOMAIN serverGot, serverGot, from) /\ InOrder(f, DOMAIN serverGot, serverGot, from')
      /\ Range(f) \subseteq 1..t
  BY <1>1, <1>4 DEF ServerOrder, InOrder, Range
<1>6. \A k \in 1..t : IF IsRefusedCall(from'[k]) THEN k \notin Range(f)
                      ELSE \/ k \in Range(f) \/ k \in Doubtful'
                           \/ k = t /\ at["toServer"] \in {"parse", "write", "ended"}
  BY <1>1, <1>4, DoubtStays DEF ServerOrder
<1>7. at["toServer"] \in {"parse", "write"} => t \notin Range(f)
  BY <1>1 DEF ServerOrder
<1> HIDE DEF t, from
<1>8. CASE /\ t' = t /\ serverGot' = serverGot
           /\ at'["toServer"] \in {"parse", "write"} => at["toServer"] \in {"parse", "write"}
           /\ \/ at'["toServer"] \in {"parse", "write", "ended"}
              \/ at["toServer"] \notin {"parse", "write", "ended"}
              \/ t > 0 /\ (IsRefusedCall(from'[t]) \/ t \in Doubtful')
  <2>1. \A k \in 1..t : IF IsRefusedCall(from'[k]) THEN k \notin Range(f)
                        ELSE \/ k \in Range(f) \/ k \in Doubtful'
                             \/ k = t /\ at'["toServer"] \in {"parse", "write", "ended"}
    BY <1>6, <1>8
  <2> QED BY <1>5, <1>7, <1>8, <2>1 DEF ServerOrder, t, from
<1>9. CASE ReadFromClient
  <2>1. /\ t' = t + 1 /\ serverGot' = serverGot /\ at["toServer"] = "read" /\ at'["toServer"] = "parse"
    BY <1>2, <1>9 DEF ReadFromClient, NextLine, Go, t
  <2>2. f \in [DOMAIN serverGot -> 1..t'] /\ t' \notin Range(f)
    <3>1. t \in Nat /\ 1..t \subseteq 1..(t + 1) /\ t + 1 \notin 1..t
      BY <1>2
    <3> QED BY <1>5, <2>1, <3>1
  <2>3. \A k \in 1..t' : k \in 1..t \/ k = t'
    BY <1>2, <2>1
  <2> QED BY <1>5, <1>6, <2>1, <2>2, <2>3 DEF ServerOrder, t, from
<1>10. CASE WriteToServer
  <2>1. /\ t' = t /\ from' = from /\ serverGot' = Append(serverGot, InHand)
        /\ at["toServer"] = "write" /\ at'["toServer"] = "dispatch"
    BY <1>2, <1>10 DEF WriteToServer, Go, InHand, worldVars, t, from
  <2>2. t \in DOMAIN from /\ InHand = from[t] /\ ~IsRefusedCall(InHand)
    BY <2>1, <1>2 DEF AnswerInv, Passed, InHand, t, from, IInv, Judged
  <2> DEFINE i == Len(serverGot) + 1
             places == DOMAIN serverGot
             more == serverGot'
  <2>3. /\ places \in SUBSET Nat /\ i \in Nat /\ DOMAIN more = places \union {i}
        /\ more[i] = from[t]
        /\ \A j \in places : j < i
        /\ \A j \in places : more[j] = serverGot[j]
    BY <1>2, <2>1, <2>2
  <2>4. t > 0
    <3>1. from \in Seq(Lines)
      BY <1>2 DEF from, IInv, TypeOK
    <3> QED BY <2>2, <3>1
  <2>5. PICK g \in [DOMAIN serverGot' -> 1..t] :
          InOrder(g, DOMAIN serverGot', serverGot', from) /\ \A k : k \in Range(g) <=> k \in Range(f) \/ k = t
    <3>1. PassesOn(f, t, places, i, serverGot, more, from)
      BY <1>2, <1>5, <1>7, <2>1, <2>3, <2>4 DEF PassesOn
    <3> HIDE DEF i, places, more
    <3>2. /\ Extended(f, t, places, i) \in [places \union {i} -> 1..t]
          /\ InOrder(Extended(f, t, places, i), places \union {i}, more, from)
          /\ \A k : k \in Range(Extended(f, t, places, i)) <=> k \in Range(f) \/ k = t
      BY <3>1, OneMoreInOrder
    <3>3. \E g \in [DOMAIN more -> 1..t] :
            InOrder(g, DOMAIN more, more, from) /\ \A k : k \in Range(g) <=> k \in Range(f) \/ k = t
      BY <2>3, <3>2
    <3> QED BY <3>3 DEF more
  <2>6. \A k \in 1..t : IF IsRefusedCall(from[k]) THEN k \notin Range(g) ELSE k \in Range(g) \/ k \in Doubtful'
    BY <1>6, <2>1, <2>2, <2>5
  <2> QED BY <2>1, <2>5, <2>6 DEF ServerOrder, t, from
<1>11. CASE Judge
  <2>1. /\ t' = t /\ from' = from /\ serverGot' = serverGot /\ line' = line
        /\ at["toServer"] = "parse" /\ at'["toServer"] = IF Refused THEN "dispatch" ELSE "write"
        /\ Refused' = Refused
    BY <1>2, <1>11 DEF Judge, Icpt!ParseEnd, Go, worldVars, t, from, Refused
  <2>2. Refused => t > 0 /\ (IsRefusedCall(from'[t]) \/ t \in Doubtful')
    <3>1. t \in DOMAIN from /\ InHand = from[t] /\ from \in Seq(Lines)
      BY <2>1, <1>2 DEF AnswerInv, Passed, InHand, t, from, IInv, TypeOK
    <3>2. InHand' = InHand /\ (Refused => Refusable(InHand)')
      BY <2>1 DEF AnswerInv, RefusedIsCall, InHand
    <3>3. Refusable(InHand)' => IsRefusedCall(from'[t]) \/ t \in Doubtful'
      BY <2>1, <3>1, <3>2 DEF Refusable, IsRefusedCall, Doubtful, TakenForCall, Under, from
    <3> QED BY <2>1, <3>1, <3>2, <3>3
  <2> QED BY <1>8, <2>1, <2>2
<1>12. CASE WriteFails("toServer") \/ EndOfInput("toServer") \/ denyRequest \/ DispatchDone("toServer") \/ Run
  <2>1. t' = t /\ serverGot' = serverGot
    BY <1>12 DEF WriteFails, EndOfInput, denyRequest, DispatchDone, Run, RunReturns, CloseDispatcher, ProcessExits,
                 pumpVars, t
  <2>2. \/ at'["toServer"] = at["toServer"] \/ at'["toServer"] = "ended"
        \/ at["toServer"] \in {"dispatch", "deny"} /\ at'["toServer"] \in {"deny", "read"}
    BY <1>2, <1>12 DEF WriteFails, EndOfInput, denyRequest, DispatchDone, Run, RunReturns, CloseDispatcher,
                       ProcessExits, Go, pumpVars
  <2> QED BY <1>2, <1>8, <2>1, <2>2
<1>13. CASE t' = t /\ serverGot' = serverGot /\ at'["toServer"] = at["toServer"]
  BY <1>2, <1>8, <1>13
<1>14. CASE pumpToClient
  <2>1. t' = t /\ serverGot' = serverGot /\ at'["toServer"] = at["toServer"]
    BY <1>2, <1>14, PumpNames
    DEF pumpToClient, ReadFromServer, NextLine, EndOfInput, WriteToClient, WriteFails, ParseMessage, Inspect, Dispatch,
        DispatchDone, Go, pumpVars, t
  <2> QED BY <1>13, <2>1
<1>15. CASE \/ (\E p \in Pumps : Say(p)) \/ ServerExits \/ ClientClosesStdin \/ ClientStopsReading
            \/ ParseMessage("toServer") \/ Dispatch("toServer") \/ UNCHANGED vars
  <2>1. t' = t /\ serverGot' = serverGot /\ at'["toServer"] = at["toServer"]
    BY <1>15 DEF Say, ServerExits, ClientClosesStdin, ClientStopsReading, ParseMessage, Dispatch, vars, pumpVars, t
  <2> QED BY <1>13, <2>1
<1> QED BY <1>9, <1>10, <1>11, <1>12, <1>14, <1>15 DEF Next, pumpToServer

LEMMA ClientOrderKept ==
    ASSUME IInv, AnswerInv, [Next]_vars, \E f : ClientOrder(f)
    PROVE  (\E f : ClientOrder(f))'
<1> DEFINE t == taken["toClient"]
           from == sent["toClient"]
           place == at["toClient"]
<1>1. PICK f : ClientOrder(f)
  OBVIOUS
<1>2. /\ at \in [Pumps -> {"read", "parse", "write", "dispatch", "deny", "ended"}] /\ "toClient" \in Pumps
      /\ taken \in [Pumps -> Nat] /\ t \in Nat /\ t <= Len(from) /\ clientGot \in Seq(Lines)
      /\ from \in Seq(Lines) /\ stdout \in {"open", "closed"}
  BY PumpNames DEF IInv, TypeOK, AnswerInv, Passed
<1>3. /\ Len(from) \in Nat /\ Len(from') \in Nat /\ Len(from) <= Len(from')
      /\ \A k \in 1..Len(from) : from'[k] = from[k]
  BY <1>2, SentStays
<1>4. \A k \in 1..t : from'[k] = from[k]
  BY <1>2, <1>3
<1>5. /\ f \in [NotDenials -> 1..t]
      /\ InOrder(f, NotDenials, clientGot, from) /\ InOrder(f, NotDenials, clientGot, from')
      /\ Range(f) \subseteq 1..t
  BY <1>1, <1>4 DEF ClientOrder, InOrder, Range
<1>6. \A k \in 1..t : k \in Range(f) \/ (k = t /\ (place = "write" \/ (place = "ended" /\ stdout = "closed")))
  BY <1>1 DEF ClientOrder
<1>7. place = "write" => t \notin Range(f)
  BY <1>1 DEF ClientOrder
<1>8. DOMAIN clientGot \subseteq Nat /\ NotDenials \subseteq DOMAIN clientGot /\ Len(clientGot) \in Nat
  BY <1>2 DEF NotDenials
<1> HIDE DEF t, from, place
<1>9. CASE /\ t' = t /\ NotDenials' = NotDenials /\ \A j \in NotDenials : clientGot'[j] = clientGot[j]
           /\ place' = "write" => place = "write"
           /\ \/ place' = "write" \/ (place' = "ended" /\ stdout' = "closed")
              \/ place # "write" /\ ~(place = "ended" /\ stdout = "closed")
  <2>1. \A k \in 1..t : k \in Range(f) \/ (k = t /\ (place' = "write" \/ (place' = "ended" /\ stdout' = "closed")))
    BY <1>6, <1>9
  <2>2. InOrder(f, NotDenials, clientGot', from')
    BY <1>5, <1>9 DEF InOrder
  <2> QED BY <1>5, <1>7, <1>9, <2>1, <2>2 DEF ClientOrder, t, from, place
<1>10. CASE ReadFromServer
  <2>1. t' = t + 1 /\ clientGot' = clientGot /\ place = "read" /\ place' = "write" /\ NotDenials' = NotDenials
    BY <1>2, <1>10 DEF ReadFromServer, NextLine, Go, NotDenials, t, place
  <2>2. f \in [NotDenials -> 1..t'] /\ t' \notin Range(f)
    <3>1. t \in Nat /\ 1..t \subseteq 1..(t + 1) /\ t + 1 \notin 1..t
      BY <1>2
    <3> QED BY <1>5, <2>1, <3>1
  <2>3. \A k \in 1..t' : k \in Range(f) \/ k = t'
    <3>1. \A k \in 1..t' : k \in 1..t \/ k = t'
      BY <1>2, <2>1
    <3> QED BY <1>6, <2>1, <3>1
  <2> QED BY <1>5, <2>1, <2>2, <2>3 DEF ClientOrder, t, from, place
<1>11. CASE WriteToClient
  <2> DEFINE i == Len(clientGot) + 1
             l == line["toClient"]
             more == clientGot'
             places == NotDenials
  <2>1. /\ t' = t /\ from' = from /\ clientGot' = Append(clientGot, l)
        /\ place = "write" /\ place' = "parse"
    BY <1>2, <1>11 DEF WriteToClient, Go, worldVars, t, from, place
  <2>2. t \in DOMAIN from /\ l = from[t] /\ l.form # "denial"
    BY <2>1, <1>2 DEF AnswerInv, Passed, Numbered, OwnLine, t, from, place
  <2>3. /\ DOMAIN more = DOMAIN clientGot \union {i} /\ more[i] = l /\ i \in Nat
        /\ \A j \in DOMAIN clientGot : more[j] = clientGot[j] /\ j < i
    BY <1>2, <2>1
  <2>4. NotDenials' = places \union {i}
    BY <2>2, <2>3 DEF NotDenials
  <2>5. t > 0
    BY <1>2, <2>2
  <2>6. PassesOn(f, t, places, i, clientGot, more, from)
    BY <1>2, <1>5, <1>7, <1>8, <2>1, <2>2, <2>3, <2>5 DEF PassesOn
  <2> HIDE DEF i, places, more
  <2>7. /\ Extended(f, t, places, i) \in [places \union {i} -> 1..t]
        /\ InOrder(Extended(f, t, places, i), places \union {i}, more, from)
        /\ \A k : k \in Range(Extended(f, t, places, i)) <=> k \in Range(f) \/ k = t
    BY <2>6, OneMoreInOrder
  <2> DEFINE g == Extended(f, t, places, i)
  <2> HIDE DEF g
  <2>8. g \in [NotDenials' -> 1..t] /\ InOrder(g, NotDenials', clientGot', from)
        /\ \A k : k \in Range(g) <=> k \in Range(f) \/ k = t
    BY <2>4, <2>7 DEF g, more
  <2>9. \A k \in 1..t : k \in Range(g)
    BY <1>6, <2>8
  <2> QED BY <2>1, <2>8, <2>9 DEF ClientOrder, t, from, place
<1>12. CASE denyRequest
  <2>1. /\ t' = t /\ place' = place /\ stdout' = stdout
        /\ clientGot' = clientGot \/ clientGot' = Append(clientGot, Denial(RefusedId))
    BY <1>2, <1>12, PumpNames DEF denyRequest, Go, worldVars, t, place
  <2>2. NotDenials' = NotDenials /\ \A j \in NotDenials : clientGot'[j] = clientGot[j]
    <3>1. CASE clientGot' = clientGot
      BY <3>1 DEF NotDenials
    <3>2. CASE clientGot' = Append(clientGot, Denial(RefusedId))
      <4>1. /\ DOMAIN clientGot' = DOMAIN clientGot \union {Len(clientGot) + 1}
            /\ clientGot'[Len(clientGot) + 1] = Denial(RefusedId)
            /\ \A j \in DOMAIN clientGot : clientGot'[j] = clientGot[j]
        BY <1>2, <3>2
      <4> QED BY <4>1 DEF NotDenials, Denial
    <3> QED BY <2>1, <3>1, <3>2
  <2> QED BY <1>9, <2>1, <2>2
<1>13. CASE /\ t' = t /\ clientGot' = clientGot
            /\ \/ place' = place /\ (stdout' = stdout \/ stdout' = "closed")
               \/ stdout' = stdout /\ place \notin {"write", "ended"} /\ place' # "write"
               \/ stdout' = "closed" /\ place' = "ended"
  <2>1. NotDenials' = NotDenials
    BY <1>13 DEF NotDenials
  <2> QED BY <1>9, <1>13, <2>1
<1>14. CASE WriteFails("toClient") \/ EndOfInput("toClient") \/ ParseMessage("toClient") \/ Inspect
            \/ Dispatch("toClient") \/ DispatchDone("toClient")
  <2>1. t' = t /\ clientGot' = clientGot /\ stdout' = stdout
    BY <1>14 DEF WriteFails, EndOfInput, ParseMessage, Inspect, Dispatch, DispatchDone, worldVars, pumpVars, t
  <2>2. \/ place' = place \/ (stdout = "closed" /\ place' = "ended")
        \/ place \in {"read", "parse", "dispatch"} /\ place' \in {"ended", "dispatch", "read"}
    BY <1>2, <1>14, PumpNames
    DEF WriteFails, EndOfInput, ParseMessage, Inspect, Dispatch, DispatchDone, Go, pumpVars, place
  <2> QED BY <1>13, <2>1, <2>2
<1>15. CASE pumpToServer /\ ~denyRequest
  <2>1. t' = t /\ clientGot' = clientGot /\ place' = place /\ stdout' = stdout
    BY <1>2, <1>15, PumpNames
    DEF pumpToServer, ReadFromClient, NextLine, EndOfInput, WriteToServer, WriteFails, ParseMessage, Judge, Dispatch,
        DispatchDone, Go, pumpVars, worldVars, t, place
  <2> QED BY <1>13, <2>1
<1>16. CASE (\E p \in Pumps : Say(p)) \/ ServerExits \/ ClientClosesStdin \/ ClientStopsReading \/ Run \/ UNCHANGED vars
  <2>1. t' = t /\ clientGot' = clientGot /\ place' = place /\ (stdout' = stdout \/ stdout' = "closed")
    BY <1>2, <1>16, PumpNames
    DEF Say, ServerExits, ClientClosesStdin, ClientStopsReading, Run, RunReturns, CloseDispatcher, ProcessExits, Go,
        vars, pumpVars, worldVars, t, place
  <2> QED BY <1>13, <2>1
<1> QED BY <1>10, <1>11, <1>12, <1>14, <1>15, <1>16 DEF Next, pumpToClient

LEMMA EndsWithServerKept ==
    ASSUME IInv, EndsWithServer, [Next]_vars
    PROVE  EndsWithServer'
<1>1. at \in [Pumps -> {"read", "parse", "write", "dispatch", "deny", "ended"}] /\ "toClient" \in Pumps
      /\ taken \in [Pumps -> Nat] /\ "toServer" # "toClient" /\ stdout \in {"open", "closed"}
  BY PumpNames DEF IInv, TypeOK
<1>2. ASSUME NEW p \in Pumps, Say(p) PROVE EndsWithServer'
  <2>1. p = "toClient" => server = "up"
    BY <1>2, PumpNames DEF Say
  <2>2. p # "toClient" => sent'["toClient"] = sent["toClient"]
    <3>1. sent \in [Pumps -> Seq(Lines)]
      BY DEF IInv, TypeOK
    <3> QED BY <1>1, <1>2, <3>1 DEF Say
  <2> QED BY <1>2, <2>1, <2>2 DEF EndsWithServer, Say, pumpVars
<1>3. CASE EndOfInput("toClient")
  BY <1>1, <1>3 DEF EndOfInput, EndsWithServer, Go, worldVars
<1>4. CASE WriteFails("toClient")
  BY <1>1, <1>4 DEF WriteFails, EndsWithServer, Go, worldVars
<1>5. CASE ReadFromServer \/ WriteToClient \/ ParseMessage("toClient") \/ Inspect \/ Dispatch("toClient")
           \/ DispatchDone("toClient")
  <2>1. UNCHANGED main
    BY <1>5 DEF ReadFromServer, NextLine, WriteToClient, ParseMessage, Inspect, Dispatch, DispatchDone
  <2>2. at["toClient"] # "ended" /\ (at'["toClient"] # "ended" \/ at' = at)
    BY <1>1, <1>5 DEF ReadFromServer, NextLine, WriteToClient, ParseMessage, Inspect, Dispatch, DispatchDone, Go,
                      pumpVars
  <2> QED BY <2>1, <2>2 DEF EndsWithServer
<1>6. CASE pumpToServer
  <2>1. at'["toClient"] = at["toClient"] /\ taken'["toClient"] = taken["toClient"] /\ UNCHANGED <<sent, server, stdout, main>>
    BY <1>1, <1>6
    DEF pumpToServer, ReadFromClient, NextLine, EndOfInput, WriteToServer, WriteFails, ParseMessage, Judge, Dispatch,
        DispatchDone, denyRequest, Go, pumpVars, worldVars
  <2> QED BY <2>1 DEF EndsWithServer
<1>7. CASE ServerExits \/ ClientClosesStdin \/ ClientStopsReading \/ UNCHANGED vars
  BY <1>7 DEF ServerExits, ClientClosesStdin, ClientStopsReading, vars, pumpVars, worldVars, EndsWithServer
<1>8. CASE Run
  <2>1. at'["toClient"] = at["toClient"] /\ UNCHANGED <<taken, sent, server, stdout>>
    BY <1>1, <1>8, PumpNames DEF Run, RunReturns, CloseDispatcher, ProcessExits, Go, pumpVars, worldVars
  <2>2. main = "waiting" => main' = "waiting" \/ at["toClient"] = "ended"
    BY <1>8 DEF Run, RunReturns, CloseDispatcher, ProcessExits
  <2> QED BY <2>1, <2>2 DEF EndsWithServer
<1> QED BY <1>2, <1>3, <1>4, <1>5, <1>6, <1>7, <1>8 DEF Next, pumpToClient

(* The proxy is transparent: between the two sides only refused calls and  *)
(* the replies taken for them get lost, and nothing is reordered, repeated *)
(* or invented but the denials.                                            *)
THEOREM ProxyIsTransparent == Spec => []Transparent
<1>1. OrderInv /\ IInv /\ AnswerInv /\ AnswerInv' /\ [Next]_vars => OrderInv'
  BY ServerOrderKept, ClientOrderKept, EndsWithServerKept DEF OrderInv
<1>2. OrderInv /\ IInv => Transparent
  <2> SUFFICES ASSUME OrderInv, IInv PROVE Transparent
    OBVIOUS
  <2>1. ServerGetsLines
    <3>1. \A k \in Doubtful : TakenForCall(sent["toServer"][k])
      BY DEF Doubtful
    <3> QED BY <3>1 DEF OrderInv, ServerOrder, ServerGetsLines
  <2>2. PICK f : ClientOrder(f)
    BY DEF OrderInv
  <2>3. /\ taken["toClient"] \in Nat /\ sent["toClient"] \in Seq(Lines)
        /\ DOMAIN sent["toClient"] = 1..Len(sent["toClient"])
    BY PumpNames DEF IInv, TypeOK
  <2>4. ASSUME main # "waiting", stdout = "open" PROVE Range(f) = DOMAIN sent["toClient"]
    <3>1. taken["toClient"] = Len(sent["toClient"]) /\ at["toClient"] = "ended"
      BY <2>4 DEF OrderInv, EndsWithServer
    <3>2. \A k \in 1..taken["toClient"] : k \in Range(f)
      BY <2>2, <2>4, <3>1 DEF ClientOrder
    <3>3. Range(f) \subseteq 1..taken["toClient"]
      BY <2>2 DEF ClientOrder, Range
    <3> QED BY <2>3, <3>1, <3>2, <3>3
  <2>5. \A k \in 1..taken["toClient"] : k < taken["toClient"] => k \in Range(f)
    BY <2>2, <2>3 DEF ClientOrder
  <2>6. ClientGetsLines
    BY <2>2, <2>4, <2>5 DEF ClientGetsLines, ClientOrder, NotDenials
  <2> QED BY <2>1, <2>6 DEF Transparent
<1> QED BY <1>1, <1>2, OrderInit, AnswerInvariance, Invariance, PTL DEF Spec

-----------------------------------------------------------------------------
(* Names of replies: what is said, and what the table holds of it. *)

Remembered(id) == pending[id] # NoCall \/ TooLong(id) \/ Pressed(id) \/ AskedByBoth(id)

(* A request of the client is in the table from before the server sees it  *)
(* until its answer is parsed, unless both sides use its id or the table   *)
(* is pressed for room.                                                    *)
InTable ==
    /\ at["toServer"] = "parse" =>
          \A r \in RequestsOf(InHand) : r \in Range(todo["toServer"]) \/ Remembered(r.id)
    /\ at["toServer"] = "write" => \A id \in RequestIds(InHand) : Remembered(id)
    /\ \A id \in AskedIds(serverGot) : id \in Answered(sent["toClient"]) \/ Remembered(id)
    /\ \A j \in DOMAIN sent["toClient"] :
          j > taken["toClient"] => \A id \in ReplyIds(sent["toClient"][j]) : Remembered(id)
    /\ at["toClient"] = "write" => \A id \in ReplyIds(line["toClient"]) : Remembered(id)
    /\ \A m \in Range(todo["toClient"]) : m.kind = "reply" => Remembered(m.id)

OnePerLine ==
    /\ \A j \in DOMAIN sent["toClient"] : Distinct(sent["toClient"][j].messages)
    /\ Distinct(todo["toClient"])
    /\ at["toClient"] = "parse" => Range(todo["toClient"]) \subseteq Range(line["toClient"].messages)
    /\ \A j \in DOMAIN sent["toServer"] : sent["toServer"][j].form = "big" =>
          \A id \in RequestIds(sent["toServer"][j]) : id = sent["toServer"][j].messages[1].id

RightlyNamed(p, e) ==
    e.message.kind = "reply" =>
        /\ e.call \in {m.call : m \in Under(e.message.id)} \union {NoCall}
        /\ \/ e.call = e.message.call
           \/ AskedByBoth(e.message.id)
           \/ e.call = NoCall /\ (p = "toServer" \/ TooLong(e.message.id) \/ Pressed(e.message.id))

EventsNamed ==
    /\ \A p \in Pumps : \A e \in Range(events[p]) : RightlyNamed(p, e)
    /\ \A a \in Range(audit) : RightlyNamed(a.pump, a.event)

NameInv == OnePerLine /\ InTable /\ EventsNamed

LEMMA NameInit == Init => NameInv
<1> SUFFICES ASSUME Init PROVE NameInv
  OBVIOUS
<1>1. /\ at = [p \in Pumps |-> "read"] /\ taken = [p \in Pumps |-> 0]
      /\ sent = [p \in Pumps |-> <<>>] /\ serverGot = <<>> /\ clientGot = <<>> /\ audit = <<>>
      /\ todo = [p \in Pumps |-> <<>>] /\ events = [p \in Pumps |-> <<>>]
      /\ pending = [id \in Ids |-> NoCall]
      /\ "toServer" \in Pumps /\ "toClient" \in Pumps
  BY PumpNames DEF Init, Icpt!Init
<1>2. /\ \A id : id \notin AskedIds(<<>>)
      /\ \A m : m \notin Asked(<<>>)
      /\ \A m : m \notin Range(<<>>)
  BY InLines DEF Range
<1>3. OnePerLine /\ InTable /\ EventsNamed
  BY <1>1, <1>2 DEF OnePerLine, Distinct, InTable, EventsNamed
<1> QED BY <1>3 DEF NameInv

(* A step that parses nothing and moves no line. *)
Idle ==
    /\ UNCHANGED <<pending, todo, sent, taken, line, serverGot>>
    /\ \A p \in Pumps : at'[p] = at[p] \/ at'[p] \notin {"parse", "write"}

LEMMA IdleOrNot ==
    ASSUME IInv, [Next]_vars
    PROVE  \/ Idle \/ (\E p \in Pumps : Say(p)) \/ (\E p \in Pumps : ParseMessage(p))
           \/ ReadFromClient \/ ReadFromServer \/ Judge \/ WriteToServer \/ WriteToClient
<1>1. /\ at \in [Pumps -> {"read", "parse", "write", "dispatch", "deny", "ended"}]
      /\ "toServer" \in Pumps /\ "toClient" \in Pumps
  BY PumpNames DEF IInv, TypeOK
<1>2. ASSUME UNCHANGED vars \/ ServerExits \/ ClientClosesStdin \/ ClientStopsReading \/ Run
      PROVE  Idle
  <2>1. UNCHANGED <<pending, todo, sent, taken, line, serverGot>> /\ (at' = at \/ Go("toServer", "ended"))
    BY <1>2 DEF ServerExits, ClientClosesStdin, ClientStopsReading, Run, RunReturns, CloseDispatcher, ProcessExits,
                vars, interceptorVars, pumpVars, worldVars
  <2> QED BY <1>1, <2>1 DEF Idle, Go
<1>3. ASSUME NEW p \in Pumps, EndOfInput(p) \/ WriteFails(p) \/ Dispatch(p) \/ DispatchDone(p)
      PROVE  Idle
  <2>1. /\ UNCHANGED <<pending, todo, sent, taken, line, serverGot>>
        /\ at' = at \/ Go(p, "ended") \/ Go(p, "deny") \/ Go(p, "read")
    BY <1>3 DEF EndOfInput, WriteFails, Dispatch, DispatchDone, interceptorVars, worldVars
  <2> QED BY <1>1, <2>1 DEF Idle, Go
<1>4. ASSUME Inspect PROVE Idle
  <2>1. UNCHANGED <<pending, todo, sent, taken, line, serverGot>> /\ Go("toClient", "dispatch")
    BY <1>4 DEF Inspect, Icpt!ParseEnd, worldVars
  <2> QED BY <1>1, <2>1 DEF Idle, Go
<1>5. ASSUME denyRequest PROVE Idle
  <2>1. /\ UNCHANGED <<pending, todo, sent, taken, line, serverGot>>
        /\ Go("toServer", "read") \/ Go("toServer", "ended")
    BY <1>5 DEF denyRequest, interceptorVars, worldVars
  <2> QED BY <1>1, <2>1 DEF Idle, Go
<1> QED BY <1>2, <1>3, <1>4, <1>5, PumpNames DEF Next, pumpToServer, pumpToClient

(* What the steps that move a line do. *)
LEMMA ReadMoves ==
    ASSUME IInv, NEW p \in Pumps, (p = "toServer" /\ ReadFromClient) \/ (p = "toClient" /\ ReadFromServer)
    PROVE  /\ UNCHANGED <<pending, sent, serverGot>>
           /\ taken'[p] = taken[p] + 1 /\ taken'[p] \in DOMAIN sent[p] /\ line'[p] = sent[p][taken'[p]]
           /\ line'[p] \in Lines /\ taken'[p] > taken[p]
           /\ p = "toServer" => at'[p] = "parse" /\ todo'[p] = Readable(line'[p])
           /\ p = "toClient" => at'[p] = "write" /\ todo'[p] = todo[p]
           /\ \A q \in Pumps \ {p} : /\ at'[q] = at[q] /\ taken'[q] = taken[q] /\ line'[q] = line[q]
                                      /\ todo'[q] = todo[q]
<1>1. /\ at \in [Pumps -> {"read", "parse", "write", "dispatch", "deny", "ended"}]
      /\ taken \in [Pumps -> Nat] /\ line \in [Pumps -> Lines] /\ sent \in [Pumps -> Seq(Lines)]
      /\ DOMAIN todo = Pumps
  BY DEF IInv, TypeOK, Icpt!TypeOK
<1>2. NextLine(p) /\ UNCHANGED <<pending, sent, serverGot>>
  BY DEF ReadFromClient, ReadFromServer, NextLine, worldVars, interceptorVars, Icpt!ParseBegin
<1>3. /\ taken'[p] = taken[p] + 1 /\ taken[p] < Len(sent[p]) /\ line'[p] = sent[p][taken[p] + 1]
      /\ \A q \in Pumps \ {p} : taken'[q] = taken[q] /\ line'[q] = line[q]
  BY <1>1, <1>2 DEF NextLine
<1>4. taken'[p] \in DOMAIN sent[p] /\ line'[p] \in Lines /\ taken'[p] > taken[p]
  <2>1. taken[p] \in Nat /\ sent[p] \in Seq(Lines)
    BY <1>1
  <2>2. taken[p] + 1 \in DOMAIN sent[p]
    BY <1>3, <2>1
  <2>3. sent[p][taken[p] + 1] \in Lines
    BY <2>1, <2>2
  <2> QED BY <1>3, <2>1, <2>2, <2>3
<1>5. CASE p = "toServer" /\ ReadFromClient
  <2>1. at'[p] = "parse" /\ \A q \in Pumps \ {p} : at'[q] = at[q]
    BY <1>1, <1>5 DEF ReadFromClient, Go
  <2>2. todo'[p] = Readable(line'[p]) /\ \A q \in Pumps \ {p} : todo'[q] = todo[q]
    BY <1>1, <1>5 DEF ReadFromClient, Icpt!ParseBegin
  <2> QED BY <1>2, <1>3, <1>4, <1>5, <2>1, <2>2, PumpNames
<1>6. CASE p = "toClient" /\ ReadFromServer
  <2>1. at'[p] = "write" /\ \A q \in Pumps \ {p} : at'[q] = at[q]
    BY <1>1, <1>6 DEF ReadFromServer, Go
  <2>2. todo' = todo
    BY <1>6 DEF ReadFromServer, interceptorVars
  <2> QED BY <1>2, <1>3, <1>4, <1>6, <2>1, <2>2, PumpNames
<1> QED BY <1>5, <1>6

LEMMA ClientWriteMoves ==
    ASSUME IInv, Passed, WriteToClient
    PROVE  /\ UNCHANGED <<pending, sent, serverGot, taken, line>>
           /\ taken["toClient"] \in DOMAIN sent["toClient"]
           /\ line["toClient"] = sent["toClient"][taken["toClient"]] /\ line["toClient"] \in Lines
           /\ at["toClient"] = "write" /\ at'["toClient"] = "parse" /\ at'["toServer"] = at["toServer"]
           /\ todo'["toClient"] = Readable(line["toClient"]) /\ todo'["toServer"] = todo["toServer"]
<1>1. UNCHANGED <<pending, sent, serverGot, taken, line>>
  BY DEF WriteToClient, worldVars, Icpt!ParseBegin
<1>2. at["toClient"] = "write" /\ at'["toClient"] = "parse" /\ at'["toServer"] = at["toServer"]
  BY PumpNames DEF WriteToClient, Go, IInv, TypeOK
<1>3. todo'["toClient"] = Readable(line["toClient"]) /\ todo'["toServer"] = todo["toServer"]
  BY PumpNames DEF WriteToClient, Icpt!ParseBegin, IInv, TypeOK, Icpt!TypeOK
<1>4. line["toClient"] \in Lines
  BY PumpNames DEF IInv, TypeOK
<1>5. /\ taken["toClient"] \in DOMAIN sent["toClient"]
      /\ line["toClient"] = sent["toClient"][taken["toClient"]]
  BY <1>2, PumpNames DEF Passed
<1> QED BY <1>1, <1>2, <1>3, <1>4, <1>5

LEMMA ParseMoves ==
    ASSUME IInv, Named, NEW p \in Pumps, ParseMessage(p)
    PROVE  /\ UNCHANGED <<at, line, taken, sent, serverGot, audit>> /\ at[p] = "parse"
           /\ \A q \in Pumps \ {p} : todo'[q] = todo[q] /\ events'[q] = events[q]
           /\ \E m \in Messages : m \in Range(todo[p]) /\ Reads(p, m)
<1>1. /\ UNCHANGED <<at, line, taken, sent, serverGot, audit>> /\ at[p] = "parse" /\ Icpt!parseOne(p)
  BY DEF ParseMessage, pumpVars, worldVars
<1> QED BY <1>1, ParseReads, InterceptorSteps

LEMMA TailDistinct ==
    ASSUME NEW s \in Seq(Messages), s # <<>>, Distinct(s)
    PROVE  /\ Distinct(Tail(s))
           /\ \A m \in Range(Tail(s)) : m.kind = "reply" /\ Head(s).kind = "reply" => m.id # Head(s).id
<1> DEFINE t == Tail(s)
<1>1. /\ t \in Seq(Messages) /\ Len(t) = Len(s) - 1 /\ Head(s) = s[1] /\ Len(s) \in Nat /\ Len(s) > 0
      /\ DOMAIN s = 1..Len(s) /\ DOMAIN t = 1..Len(t)
  OBVIOUS
<1>2. \A i \in 1..Len(t) : t[i] = s[i + 1]
  BY <1>1, HeadTailProperties
<1> HIDE DEF t
<1>3. \A i \in DOMAIN t : i + 1 \in DOMAIN s /\ t[i] = s[i + 1] /\ i + 1 # 1
  BY <1>1, <1>2
<1>4. \A i, j \in DOMAIN t : i + 1 = j + 1 => i = j
  BY <1>1
<1>5. Distinct(t)
  BY <1>3, <1>4 DEF Distinct
<1>6. \A i \in DOMAIN t : t[i].kind = "reply" /\ Head(s).kind = "reply" => t[i].id # Head(s).id
  <2>1. 1 \in DOMAIN s /\ Head(s) = s[1]
    BY <1>1
  <2> QED BY <1>3, <2>1 DEF Distinct
<1> QED BY <1>5, <1>6 DEF t, Range

LEMMA OnePerLineKept ==
    ASSUME IInv, Passed, Named, OnePerLine, [Next]_vars
    PROVE  OnePerLine'
<1> USE PumpNames
<1>1. /\ sent["toClient"] \in Seq(Lines) /\ todo["toClient"] \in Seq(Messages)
      /\ Distinct(todo["toClient"]) /\ Distinct(<<>>)
  BY DEF IInv, TypeOK, Icpt!TypeOK, Icpt!Messages, Messages, OnePerLine, Distinct
<1>2. \A j \in DOMAIN sent'["toClient"] : Distinct(sent'["toClient"][j].messages)
  <2>1. CASE sent'["toClient"] = sent["toClient"]
    BY <2>1 DEF OnePerLine
  <2>2. ASSUME NEW l \in CanSend("toClient"), sent'["toClient"] = Append(sent["toClient"], l)
        PROVE  \A j \in DOMAIN sent'["toClient"] : Distinct(sent'["toClient"][j].messages)
    <3>1. Distinct(l.messages)
      BY CanSendOnce DEF IInv
    <3>2. \A j \in DOMAIN sent'["toClient"] :
            sent'["toClient"][j] = l \/ (j \in DOMAIN sent["toClient"] /\ sent'["toClient"][j] = sent["toClient"][j])
      BY <1>1, <2>2
    <3> QED BY <3>1, <3>2 DEF OnePerLine
  <2> QED BY <2>1, <2>2, SentIsNew
<1>big. \A j \in DOMAIN sent'["toServer"] : sent'["toServer"][j].form = "big" =>
          \A id \in RequestIds(sent'["toServer"][j]) : id = sent'["toServer"][j].messages[1].id
  <2>1. CASE sent'["toServer"] = sent["toServer"]
    BY <2>1 DEF OnePerLine
  <2>2. ASSUME NEW l \in CanSend("toServer"), sent'["toServer"] = Append(sent["toServer"], l)
        PROVE  \A j \in DOMAIN sent'["toServer"] : sent'["toServer"][j].form = "big" =>
                  \A id \in RequestIds(sent'["toServer"][j]) : id = sent'["toServer"][j].messages[1].id
    <3>1. l.form = "big" => \A id \in RequestIds(l) : id = l.messages[1].id
      BY CanSendOnce DEF IInv
    <3>2. sent["toServer"] \in Seq(Lines)
      BY DEF IInv, TypeOK
    <3>3. \A j \in DOMAIN sent'["toServer"] :
            sent'["toServer"][j] = l \/ (j \in DOMAIN sent["toServer"] /\ sent'["toServer"][j] = sent["toServer"][j])
      BY <2>2, <3>2
    <3> QED BY <3>1, <3>3 DEF OnePerLine
  <2> QED BY <2>1, <2>2, SentIsNew
<1>3. CASE todo'["toClient"] = todo["toClient"] /\ (at'["toClient"] = "parse" => at["toClient"] = "parse")
           /\ line'["toClient"] = line["toClient"]
  BY <1>2, <1>big, <1>3 DEF OnePerLine
<1>4. CASE ParseMessage("toClient")
  <2>1. UNCHANGED <<at, line>>
    BY <1>4, ParseMoves
  <2>2. todo["toClient"] # <<>> /\ todo'["toClient"] = Tail(todo["toClient"])
    BY <1>4, ParseMoves DEF Reads
  <2>3. Distinct(todo'["toClient"]) /\ Range(todo'["toClient"]) \subseteq Range(todo["toClient"])
    BY <1>1, <2>2, TailDistinct, TailIsPart
  <2> QED BY <1>2, <1>big, <2>1, <2>3 DEF OnePerLine
<1>5. CASE WriteToClient
  <2>1. /\ line'["toClient"] = line["toClient"] /\ todo'["toClient"] = Readable(line["toClient"])
        /\ taken["toClient"] \in DOMAIN sent["toClient"]
        /\ line["toClient"] = sent["toClient"][taken["toClient"]]
    BY <1>5, ClientWriteMoves
  <2>2. Distinct(line["toClient"].messages)
    BY <2>1 DEF OnePerLine
  <2>3. Range(todo'["toClient"]) \subseteq Range(line["toClient"].messages) /\ Distinct(todo'["toClient"])
    BY <1>1, <2>1, <2>2 DEF Readable, Range
  <2> QED BY <1>2, <1>big, <2>1, <2>3 DEF OnePerLine
<1>6. CASE ParseMessage("toServer")
  BY <1>3, <1>6, ParseMoves
<1>7. CASE ReadFromServer
  <2>1. at'["toClient"] = "write" /\ todo'["toClient"] = todo["toClient"]
    BY <1>7, ReadMoves
  <2> QED BY <1>2, <1>big, <2>1 DEF OnePerLine
<1>8. CASE ReadFromClient
  BY <1>3, <1>8, ReadMoves
<1>9. CASE Idle
  BY <1>3, <1>9 DEF Idle
<1>10. CASE Judge \/ WriteToServer \/ \E p \in Pumps : Say(p)
  <2>1. todo' = todo /\ line' = line /\ at'["toClient"] = at["toClient"]
    BY <1>10 DEF Judge, WriteToServer, Say, Icpt!ParseEnd, Go, IInv, TypeOK, interceptorVars, pumpVars
  <2> QED BY <1>3, <2>1
<1> QED BY <1>4, <1>5, <1>6, <1>7, <1>8, <1>9, <1>10, IdleOrNot DEF Pumps

-----------------------------------------------------------------------------
(* Names of replies: every action keeps the invariant. *)

(* Which side asked under the ids of what is under way. *)
LEMMA WhoseIds ==
    ASSUME AnswerInv
    PROVE  /\ AskedIds(sent["toServer"]) \subseteq ClientIds
           /\ \A j \in DOMAIN sent["toClient"] : ReplyIds(sent["toClient"][j]) \subseteq AskedIds(sent["toServer"])
           /\ AskedIds(serverGot) \subseteq AskedIds(sent["toServer"])
           /\ at["toServer"] \in {"parse", "write"} => RequestIds(InHand) \subseteq AskedIds(sent["toServer"])
           /\ at["toClient"] = "write" => ReplyIds(line["toClient"]) \subseteq AskedIds(sent["toServer"])
           /\ \A m \in Range(todo["toClient"]) : m.kind = "reply" => m.id \in AskedIds(sent["toServer"])
           /\ \A m \in Range(todo["toServer"]) : m.kind = "reply" => m.id \in AskedIds(sent["toClient"])
<1> USE PumpNames
<1>1. Numbered /\ Passed /\ Named
  BY DEF AnswerInv
<1>2. AskedIds(sent["toServer"]) \subseteq ClientIds
  <2>1. \A j \in DOMAIN sent["toServer"] : OwnLine("toServer", sent["toServer"][j])
    BY <1>1 DEF Numbered
  <2>2. \A j \in DOMAIN sent["toServer"] : RequestIds(sent["toServer"][j]) \subseteq ClientIds
    BY <2>1 DEF OwnLine, OwnMessage, OwnIds, RequestIds, RequestsOf
  <2> QED BY <2>2, InLines
<1>3. AskedIds(serverGot) \subseteq AskedIds(sent["toServer"])
  BY <1>1 DEF Passed
<1>4. \A j \in DOMAIN sent["toClient"] : ReplyIds(sent["toClient"][j]) \subseteq AskedIds(sent["toServer"])
  BY <1>1, <1>3, InLines DEF Numbered
<1>5. at["toServer"] \in {"parse", "write"} => RequestIds(InHand) \subseteq AskedIds(sent["toServer"])
  BY <1>1, InLines DEF Passed, InHand
<1>6. at["toClient"] = "write" => ReplyIds(line["toClient"]) \subseteq AskedIds(sent["toServer"])
  BY <1>1, <1>4 DEF Passed
<1>7. /\ \A m \in Range(todo["toClient"]) : m.kind = "reply" => m.id \in AskedIds(sent["toServer"])
      /\ \A m \in Range(todo["toServer"]) : m.kind = "reply" => m.id \in AskedIds(sent["toClient"])
  BY <1>1 DEF Named, Said, Other, AskedIds
<1> QED BY <1>2, <1>3, <1>4, <1>5, <1>6, <1>7

(* Only the parsing of its answer forgets a request. *)
LEMMA OnlyAnswersForget ==
    ASSUME IInv, [Next]_vars, NEW p, NEW m, Reads(p, m), NEW id \in Ids, Remembered(id)
    PROVE  Remembered(id)' \/ (m.kind = "reply" /\ m.id = id)
<1>1. /\ TooLong(id) => TooLong(id)'
      /\ Pressed(id) => Pressed(id)'
      /\ AskedByBoth(id) => AskedByBoth(id)'
  BY SaidStays
<1>2. CASE pending[id] # NoCall /\ ~(m.kind = "reply" /\ m.id = id)
  <2>1. pending'[id] # NoCall \/ Pressed(id)
    BY <1>2 DEF Reads
  <2> QED BY <1>1, <2>1 DEF Remembered
<1> QED BY <1>1, <1>2 DEF Remembered

LEMMA NothingForgotten ==
    ASSUME IInv, [Next]_vars, pending' = pending
    PROVE  \A id : Remembered(id) => Remembered(id)'
BY SaidStays DEF Remembered

LEMMA ParseToServerKeepsTable ==
    ASSUME IInv, AnswerInv, InTable, [Next]_vars, ParseMessage("toServer")
    PROVE  InTable'
<1> USE PumpNames
<1>1. /\ UNCHANGED <<at, line, taken, sent, serverGot>> /\ at["toServer"] = "parse"
      /\ todo'["toClient"] = todo["toClient"]
  BY ParseMoves DEF AnswerInv
<1>2. PICK m \in Messages : m \in Range(todo["toServer"]) /\ Reads("toServer", m)
  BY ParseMoves DEF AnswerInv
<1>3. \A id \in AskedIds(sent["toServer"]) : Remembered(id) => Remembered(id)'
  <2> SUFFICES ASSUME NEW id \in AskedIds(sent["toServer"]), Remembered(id) PROVE Remembered(id)'
    OBVIOUS
  <2>1. id \in Ids
    BY WhoseIds DEF Ids
  <2>2. CASE m.kind = "reply" /\ m.id = id
    <3>1. id \in AskedIds(sent["toClient"])
      BY <1>2, <2>2, WhoseIds
    <3>2. AskedByBoth(id)
      BY <3>1 DEF AskedByBoth, AskedIds, Pumps
    <3>3. AskedByBoth(id)'
      BY <3>2, SaidStays
    <3> QED BY <3>3 DEF Remembered
  <2> QED BY <1>2, <2>1, <2>2, OnlyAnswersForget
<1>4. \A r \in RequestsOf(InHand) : r \in Range(todo'["toServer"]) \/ Remembered(r.id)'
  <2> SUFFICES ASSUME NEW r \in RequestsOf(InHand) PROVE r \in Range(todo'["toServer"]) \/ Remembered(r.id)'
    OBVIOUS
  <2>1. r.id \in AskedIds(sent["toServer"])
    BY <1>1, WhoseIds DEF RequestIds
  <2>2. r \in Range(todo["toServer"]) \/ Remembered(r.id)
    BY <1>1 DEF InTable
  <2>3. todo["toServer"] \in Seq(Messages)
    BY DEF IInv, TypeOK, Icpt!TypeOK, Icpt!Messages, Messages
  <2>4. r \in Range(todo["toServer"]) => r = m \/ r \in Range(todo'["toServer"])
    BY <1>2, <2>3, TailIsPart DEF Reads
  <2>5. r = m => Remembered(r.id)'
    <3> SUFFICES ASSUME r = m PROVE Remembered(r.id)'
      OBVIOUS
    <3>1. m.kind = "request" /\ m.id # NoId
      BY DEF RequestsOf
    <3>2. m.call # NoCall /\ (pending'[m.id] = m.call \/ Pressed(m.id))
      BY <1>2, <3>1 DEF Reads
    <3>3. Pressed(m.id) => Pressed(m.id)'
      BY SaidStays
    <3> QED BY <3>2, <3>3 DEF Remembered
  <2> QED BY <1>3, <2>1, <2>2, <2>4, <2>5
<1>5. /\ \A id \in AskedIds(serverGot) : id \in Answered(sent["toClient"]) \/ Remembered(id)'
      /\ \A j \in DOMAIN sent["toClient"] :
            j > taken["toClient"] => \A id \in ReplyIds(sent["toClient"][j]) : Remembered(id)'
  BY <1>3, WhoseIds DEF InTable
<1>6. at["toClient"] = "write" => \A id \in ReplyIds(line["toClient"]) : Remembered(id)'
  BY <1>3, WhoseIds DEF InTable
<1>7. \A n \in Range(todo["toClient"]) : n.kind = "reply" => Remembered(n.id)'
  BY <1>3, WhoseIds DEF InTable
<1> QED BY <1>1, <1>4, <1>5, <1>6, <1>7 DEF InTable, InHand

LEMMA ParseToClientKeepsTable ==
    ASSUME IInv, AnswerInv, OnePerLine, InTable, [Next]_vars, ParseMessage("toClient")
    PROVE  InTable'
<1> USE PumpNames
<1>1. /\ UNCHANGED <<at, line, taken, sent, serverGot>> /\ at["toClient"] = "parse"
      /\ todo'["toServer"] = todo["toServer"]
  BY ParseMoves DEF AnswerInv
<1>2. PICK m \in Messages : m \in Range(todo["toClient"]) /\ Reads("toClient", m)
  BY ParseMoves DEF AnswerInv
<1>3. \A id \in AskedIds(sent["toServer"]) : Remembered(id) => Remembered(id)' \/ (m.kind = "reply" /\ m.id = id)
  BY <1>2, WhoseIds, OnlyAnswersForget DEF Ids
<1>4. m.kind = "reply" => /\ m.id \in ReplyIds(line["toClient"])
                          /\ taken["toClient"] \in DOMAIN sent["toClient"]
                          /\ line["toClient"] = sent["toClient"][taken["toClient"]]
  <2>1. m \in Range(line["toClient"].messages)
    BY <1>1, <1>2 DEF OnePerLine
  <2> QED BY <1>1, <2>1 DEF AnswerInv, Passed, ReplyIds, RepliesOf
<1>5. m.kind = "reply" => m.id \in Answered(sent["toClient"]) /\ m.id \in AskedIds(serverGot)
  BY <1>4, InLines DEF AnswerInv, Numbered
<1>6. at["toServer"] \in {"parse", "write"} /\ m.kind = "reply" => m.id \notin RequestIds(InHand)
  BY <1>5 DEF AnswerInv, SettledOnce, Undecided, Fresh
<1>7. at["toServer"] = "parse" =>
        \A r \in RequestsOf(InHand) : r \in Range(todo["toServer"]) \/ Remembered(r.id)'
  <2> SUFFICES ASSUME at["toServer"] = "parse", NEW r \in RequestsOf(InHand), r \notin Range(todo["toServer"])
               PROVE  Remembered(r.id)'
    OBVIOUS
  <2>1. r.id \in RequestIds(InHand) /\ r.id \in AskedIds(sent["toServer"])
    BY WhoseIds DEF RequestIds
  <2>2. Remembered(r.id)
    BY DEF InTable
  <2> QED BY <1>3, <1>6, <2>1, <2>2
<1>8. at["toServer"] = "write" => \A id \in RequestIds(InHand) : Remembered(id)'
  BY <1>3, <1>6, WhoseIds DEF InTable
<1>9. \A id \in AskedIds(serverGot) : id \in Answered(sent["toClient"]) \/ Remembered(id)'
  BY <1>3, <1>5, WhoseIds DEF InTable
<1>10. \A j \in DOMAIN sent["toClient"] :
          j > taken["toClient"] => \A id \in ReplyIds(sent["toClient"][j]) : Remembered(id)'
  <2> SUFFICES ASSUME NEW j \in DOMAIN sent["toClient"], j > taken["toClient"],
                      NEW id \in ReplyIds(sent["toClient"][j])
               PROVE  Remembered(id)'
    OBVIOUS
  <2>1. Remembered(id) /\ id \in AskedIds(sent["toServer"])
    BY WhoseIds DEF InTable
  <2>2. m.kind = "reply" => m.id # id
    <3>1. taken["toClient"] \in Nat
      BY DEF IInv, TypeOK
    <3>2. j # taken["toClient"]
      BY <3>1
    <3> QED BY <1>4, <3>2 DEF AnswerInv, Numbered
  <2> QED BY <1>3, <2>1, <2>2
<1>11. \A n \in Range(todo'["toClient"]) : n.kind = "reply" => Remembered(n.id)'
  <2> SUFFICES ASSUME NEW n \in Range(todo'["toClient"]), n.kind = "reply" PROVE Remembered(n.id)'
    OBVIOUS
  <2>1. todo["toClient"] \in Seq(Messages)
    BY DEF IInv, TypeOK, Icpt!TypeOK, Icpt!Messages, Messages
  <2>2. n \in Range(todo["toClient"]) /\ (m.kind = "reply" => n.id # m.id)
    BY <1>2, <2>1, TailDistinct, TailIsPart DEF Reads, OnePerLine
  <2>3. Remembered(n.id) /\ n.id \in AskedIds(sent["toServer"])
    BY <2>2, WhoseIds DEF InTable
  <2> QED BY <1>3, <2>2, <2>3
<1> QED BY <1>1, <1>7, <1>8, <1>9, <1>10, <1>11 DEF InTable, InHand

LEMMA InTableKept ==
    ASSUME IInv, AnswerInv, OnePerLine, InTable, [Next]_vars
    PROVE  InTable'
<1> USE PumpNames
<1>1. CASE Idle
  <2>1. \A id : Remembered(id) => Remembered(id)'
    BY <1>1, NothingForgotten DEF Idle
  <2> QED BY <1>1, <2>1 DEF Idle, InTable, InHand
<1>2. ASSUME NEW p \in Pumps, Say(p) PROVE InTable'
  <2>1. UNCHANGED <<pending, todo, at, line, taken, serverGot>>
    BY <1>2 DEF Say, interceptorVars, pumpVars
  <2>2. \A id : Remembered(id) => Remembered(id)'
    BY <2>1, NothingForgotten
  <2>3. Answered(sent["toClient"]) \subseteq Answered(sent'["toClient"])
    BY SaidStays
  <2>4. \A j \in DOMAIN sent'["toClient"] :
          j > taken["toClient"] => \A id \in ReplyIds(sent'["toClient"][j]) : Remembered(id)
    <3>1. CASE sent'["toClient"] = sent["toClient"]
      BY <3>1 DEF InTable
    <3>2. ASSUME NEW l \in CanSend("toClient"), sent'["toClient"] = Append(sent["toClient"], l)
          PROVE  \A j \in DOMAIN sent'["toClient"] :
                    j > taken["toClient"] => \A id \in ReplyIds(sent'["toClient"][j]) : Remembered(id)
      <4>1. AskedIds(Received("toClient")) \subseteq PeerIds("toClient") /\ Received("toClient") = serverGot
        BY WhoseIds DEF Received, PeerIds
      <4>2. \A id \in ReplyIds(l) : Remembered(id)
        BY <4>1, CanSendGives DEF InTable
      <4>3. sent["toClient"] \in Seq(Lines)
        BY DEF IInv, TypeOK
      <4>4. \A j \in DOMAIN sent'["toClient"] :
              sent'["toClient"][j] = l \/ (j \in DOMAIN sent["toClient"] /\ sent'["toClient"][j] = sent["toClient"][j])
        BY <3>2, <4>3
      <4> QED BY <4>2, <4>4 DEF InTable
    <3> QED BY <3>1, <3>2, SentIsNew
  <2> QED BY <2>1, <2>2, <2>3, <2>4 DEF InTable, InHand
<1>3. CASE ReadFromClient
  <2>1. /\ UNCHANGED <<pending, sent, serverGot>> /\ at'["toServer"] = "parse"
        /\ taken'["toServer"] \in DOMAIN sent["toServer"] /\ line'["toServer"] = sent["toServer"][taken'["toServer"]]
        /\ todo'["toServer"] = Readable(line'["toServer"])
        /\ at'["toClient"] = at["toClient"] /\ taken'["toClient"] = taken["toClient"]
        /\ line'["toClient"] = line["toClient"] /\ todo'["toClient"] = todo["toClient"]
    BY <1>3, ReadMoves
  <2>2. \A id : Remembered(id) => Remembered(id)'
    BY <2>1, NothingForgotten
  <2>3. \A r \in RequestsOf(InHand') : r \in Range(todo'["toServer"]) \/ Remembered(r.id)'
    <3> SUFFICES ASSUME NEW r \in RequestsOf(InHand') PROVE r \in Range(todo'["toServer"]) \/ Remembered(r.id)'
      OBVIOUS
    <3>1. CASE InHand'.form = "big"
      <4>1. r.id \in RequestIds(InHand')
        BY DEF RequestIds
      <4>2. r.id = InHand'.messages[1].id
        BY <2>1, <3>1, <4>1 DEF OnePerLine, InHand
      <4>3. TooLong(r.id)
        BY <2>1, <3>1, <4>2 DEF TooLong, InHand
      <4> QED BY <2>2, <4>3 DEF Remembered
    <3>2. CASE InHand'.form # "big"
      BY <2>1, <3>2 DEF Readable, InHand, RequestsOf
    <3> QED BY <3>1, <3>2
  <2> QED BY <2>1, <2>2, <2>3 DEF InTable
<1>4. CASE ReadFromServer
  <2>1. /\ UNCHANGED <<pending, sent, serverGot>> /\ at'["toClient"] = "write"
        /\ taken'["toClient"] \in DOMAIN sent["toClient"] /\ line'["toClient"] = sent["toClient"][taken'["toClient"]]
        /\ taken'["toClient"] > taken["toClient"] /\ todo'["toClient"] = todo["toClient"]
        /\ taken'["toClient"] = taken["toClient"] + 1
        /\ at'["toServer"] = at["toServer"] /\ line'["toServer"] = line["toServer"]
        /\ todo'["toServer"] = todo["toServer"]
    BY <1>4, ReadMoves
  <2>2. \A id : Remembered(id) => Remembered(id)'
    BY <2>1, NothingForgotten
  <2>3. \A j \in DOMAIN sent["toClient"] : j > taken'["toClient"] => j > taken["toClient"]
    <3>1. taken["toClient"] \in Nat /\ sent["toClient"] \in Seq(Lines)
      BY DEF IInv, TypeOK
    <3> QED BY <2>1, <3>1
  <2> QED BY <2>1, <2>2, <2>3 DEF InTable, InHand
<1>5. CASE Judge
  <2>1. /\ UNCHANGED <<pending, todo, sent, taken, line, serverGot>> /\ at["toServer"] = "parse"
        /\ todo["toServer"] = <<>> /\ at'["toClient"] = at["toClient"] /\ at'["toServer"] \in {"dispatch", "write"}
    BY <1>5 DEF Judge, Icpt!ParseEnd, Go, worldVars, IInv, TypeOK
  <2>2. \A id : Remembered(id) => Remembered(id)'
    BY <2>1, NothingForgotten
  <2>3. \A id \in RequestIds(InHand) : Remembered(id)
    <3>1. \A r \in RequestsOf(InHand) : Remembered(r.id)
      BY <2>1 DEF InTable, Range
    <3> QED BY <3>1 DEF RequestIds
  <2> QED BY <2>1, <2>2, <2>3 DEF InTable, InHand
<1>6. CASE WriteToServer
  <2>1. /\ UNCHANGED <<pending, todo, sent, taken, line>> /\ at["toServer"] = "write"
        /\ at'["toClient"] = at["toClient"] /\ at'["toServer"] = "dispatch"
        /\ serverGot' = Append(serverGot, InHand) /\ serverGot \in Seq(Lines)
    BY <1>6 DEF WriteToServer, Go, worldVars, interceptorVars, IInv, TypeOK, InHand
  <2>2. \A id : Remembered(id) => Remembered(id)'
    BY <2>1, NothingForgotten
  <2>3. AskedIds(serverGot') = AskedIds(serverGot) \union RequestIds(InHand)
    BY <2>1, LineMore
  <2> QED BY <2>1, <2>2, <2>3 DEF InTable
<1>7. CASE WriteToClient
  <2>1. /\ UNCHANGED <<pending, sent, serverGot, taken, line>>
        /\ at["toClient"] = "write" /\ at'["toClient"] = "parse" /\ at'["toServer"] = at["toServer"]
        /\ todo'["toClient"] = Readable(line["toClient"]) /\ todo'["toServer"] = todo["toServer"]
    BY <1>7, ClientWriteMoves DEF AnswerInv
  <2>2. \A id : Remembered(id) => Remembered(id)'
    BY <2>1, NothingForgotten
  <2>3. \A m \in Range(todo'["toClient"]) : m.kind = "reply" => Remembered(m.id)
    <3>1. Range(todo'["toClient"]) \subseteq Range(line["toClient"].messages)
      BY <2>1 DEF Readable, Range
    <3> QED BY <2>1, <3>1 DEF InTable, ReplyIds, RepliesOf
  <2> QED BY <2>1, <2>2, <2>3 DEF InTable, InHand
<1>8. ASSUME NEW p \in Pumps, ParseMessage(p) PROVE InTable'
  BY <1>8, ParseToServerKeepsTable, ParseToClientKeepsTable DEF Pumps
<1> QED BY <1>1, <1>2, <1>3, <1>4, <1>5, <1>6, <1>7, <1>8, IdleOrNot

LEMMA RightStaysRight ==
    ASSUME IInv, [Next]_vars, NEW p, NEW e, RightlyNamed(p, e)
    PROVE  RightlyNamed(p, e)'
BY SaidStays DEF RightlyNamed

LEMMA EventsMove ==
    ASSUME IInv, Named, [Next]_vars, NEW p \in Pumps
    PROVE  events'[p] = events[p] \/ events'[p] = <<>> \/ ParseMessage(p)
<1>1. DOMAIN events = Pumps
  BY DEF IInv, TypeOK, Icpt!TypeOK
<1>2. CASE ReadFromClient \/ WriteToClient
  BY <1>1, <1>2, PumpNames DEF ReadFromClient, WriteToClient, Icpt!ParseBegin
<1>3. ASSUME NEW q \in Pumps, ParseMessage(q) PROVE events'[p] = events[p] \/ ParseMessage(p)
  BY <1>3, ParseMoves
<1>4. \/ UNCHANGED events \/ ReadFromClient \/ WriteToClient \/ \E q \in Pumps : ParseMessage(q)
  BY PumpNames
  DEF Next, Say, ServerExits, ClientClosesStdin, ClientStopsReading, pumpToServer, pumpToClient, Run, RunReturns,
      CloseDispatcher, ProcessExits, ReadFromServer, EndOfInput, Judge, Inspect,
      WriteToServer, WriteFails, Dispatch, DispatchDone, denyRequest, vars, interceptorVars, Icpt!ParseEnd
<1> QED BY <1>2, <1>3, <1>4

LEMMA AuditMoves ==
    ASSUME IInv, [Next]_vars
    PROVE  \/ audit' = audit
           \/ \E p \in Pumps : \E e \in Range(events[p]) : audit' = Append(audit, [pump |-> p, event |-> e])
<1>1. UNCHANGED audit \/ \E p \in Pumps : Dispatch(p)
  BY PumpNames
  DEF Next, Say, ServerExits, ClientClosesStdin, ClientStopsReading, pumpToServer, pumpToClient, Run, RunReturns,
      CloseDispatcher, ProcessExits, ReadFromClient, ReadFromServer, NextLine, EndOfInput, ParseMessage, Judge, Inspect,
      WriteToServer, WriteToClient, WriteFails, DispatchDone, denyRequest, vars
<1>2. ASSUME NEW p \in Pumps, Dispatch(p)
      PROVE  \/ audit' = audit
             \/ \E e \in Range(events[p]) : audit' = Append(audit, [pump |-> p, event |-> e])
  <2>1. events[p] \in Seq([message : Icpt!Messages, call : Calls \union {NoCall}]) /\ dispatched[p] \in Nat
    BY DEF IInv, TypeOK, Icpt!TypeOK
  <2>2. dispatched[p] + 1 \in DOMAIN events[p]
    <3>1. DOMAIN events[p] = 1..Len(events[p]) /\ Len(events[p]) \in Nat
      BY <2>1
    <3>2. dispatched[p] < Len(events[p])
      BY <1>2 DEF Dispatch
    <3> QED BY <2>1, <3>1, <3>2
  <2>3. audit' = audit \/ audit' = Append(audit, [pump |-> p, event |-> events[p][dispatched[p] + 1]])
    BY <1>2 DEF Dispatch
  <2> QED BY <2>2, <2>3 DEF Range
<1> QED BY <1>1, <1>2

(* The name an answer gets when it is parsed. *)
LEMMA AnswerIsNamed ==
    ASSUME AnswerInv, Named, InTable, NEW p \in Pumps, NEW m \in Range(todo[p]), m.kind = "reply"
    PROVE  RightlyNamed(p, [message |-> m, call |-> IF m.id \in Ids THEN pending[m.id] ELSE NoCall])
<1> DEFINE c == IF m.id \in Ids THEN pending[m.id] ELSE NoCall
<1>1. CASE c = NoCall /\ p = "toClient"
  <2>1. Remembered(m.id) /\ m.id \in Ids
    BY <1>1, WhoseIds DEF InTable, Ids
  <2>2. TooLong(m.id) \/ Pressed(m.id) \/ AskedByBoth(m.id)
    BY <1>1, <2>1 DEF Remembered
  <2> QED BY <1>1, <2>2 DEF RightlyNamed
<1>2. CASE c # NoCall
  <2>1. m.id \in Ids /\ pending[m.id] # NoCall
    BY <1>2
  <2>2. PICK q \in Pumps : \E r \in Asked(sent[q]) : r.id = m.id /\ r.call = pending[m.id]
    BY <2>1 DEF Named
  <2>3. PICK r \in Asked(sent[q]) : r.id = m.id /\ r.call = pending[m.id]
    BY <2>2
  <2>4. Said(p, m)
    BY DEF Named
  <2>5. PICK s \in Asked(sent[Other(p)]) : s.id = m.id /\ s.call = m.call
    BY <2>4 DEF Said
  <2>6. pending[m.id] \in {u.call : u \in Under(m.id)}
    BY <2>3, PumpNames DEF Under, Pumps
  <2>7. CASE q = Other(p)
    <3>1. pending[m.id] = m.call
      BY <2>3, <2>5, <2>7 DEF Named
    <3> QED BY <2>1, <2>6, <3>1 DEF RightlyNamed
  <2>8. CASE q # Other(p)
    <3>1. AskedByBoth(m.id)
      BY <2>3, <2>5, <2>8 DEF AskedByBoth, Pumps, Other
    <3> QED BY <2>1, <2>6, <3>1 DEF RightlyNamed
  <2> QED BY <2>7, <2>8
<1>3. CASE c = NoCall /\ p # "toClient"
  BY <1>3 DEF RightlyNamed, Pumps
<1> QED BY <1>1, <1>2, <1>3

LEMMA RangeMore ==
    ASSUME NEW S, NEW s \in Seq(S), NEW e
    PROVE  Range(Append(s, e)) = Range(s) \union {e}
<1> DEFINE t == Append(s, e)
<1>1. /\ DOMAIN t = DOMAIN s \union {Len(s) + 1} /\ t[Len(s) + 1] = e
      /\ \A i \in DOMAIN s : t[i] = s[i]
  OBVIOUS
<1> HIDE DEF t
<1>2. \A x : x \in Range(t) <=> x \in Range(s) \/ x = e
  BY <1>1 DEF Range
<1> QED BY <1>2 DEF t

LEMMA EventsNamedKept ==
    ASSUME IInv, AnswerInv, Named, InTable, EventsNamed, [Next]_vars
    PROVE  EventsNamed'
<1> DEFINE Event == [message : Messages, call : Calls \union {NoCall}]
<1>1. /\ \A p \in Pumps : events[p] \in Seq(Event)
      /\ audit \in Seq([pump : Pumps, event : Event])
  BY DEF IInv, TypeOK, Icpt!TypeOK, Icpt!Messages, Messages, Entry
<1> HIDE DEF Event
<1>2. \A p : \A e : RightlyNamed(p, e) => RightlyNamed(p, e)'
  BY RightStaysRight
<1>3. \A p \in Pumps : \A e \in Range(events[p]) : RightlyNamed(p, e)'
  BY <1>2 DEF EventsNamed
<1>4. \A p \in Pumps : \A e \in Range(events'[p]) : RightlyNamed(p, e)'
  <2> SUFFICES ASSUME NEW p \in Pumps PROVE \A e \in Range(events'[p]) : RightlyNamed(p, e)'
    OBVIOUS
  <2>1. CASE events'[p] = events[p]
    BY <1>3, <2>1
  <2>2. CASE events'[p] = <<>>
    BY <2>2 DEF Range
  <2>3. CASE ParseMessage(p)
    <3>1. PICK m \in Messages : m \in Range(todo[p]) /\ Reads(p, m)
      BY <2>3, ParseMoves
    <3>2. CASE events'[p] = events[p]
      BY <1>3, <3>2
    <3>3. ASSUME NEW c, Emits(p, m, c), RightlyNamed(p, [message |-> m, call |-> c])
          PROVE  \A e \in Range(events'[p]) : RightlyNamed(p, e)'
      <4> DEFINE new == [message |-> m, call |-> c]
      <4>1. events'[p] = Append(events[p], new) /\ RightlyNamed(p, new)
        BY <3>3 DEF Emits
      <4> HIDE DEF new
      <4>2. Range(events'[p]) = Range(events[p]) \union {new}
        BY <1>1, <4>1, RangeMore
      <4>3. \A e \in Range(events'[p]) : e \in Range(events[p]) \/ RightlyNamed(p, e)
        BY <4>1, <4>2
      <4> QED BY <1>2, <1>3, <4>3
    <3>4. CASE m.kind = "reply"
      BY <3>1, <3>3, <3>4, AnswerIsNamed DEF Reads
    <3>5. CASE m.kind # "reply"
      <4>1. \A c : RightlyNamed(p, [message |-> m, call |-> c])
        BY <3>5 DEF RightlyNamed
      <4> QED BY <3>1, <3>2, <3>3, <3>5, <4>1 DEF Reads
    <3> QED BY <3>4, <3>5
  <2> QED BY <2>1, <2>2, <2>3, EventsMove
<1>5. \A a \in Range(audit) : RightlyNamed(a.pump, a.event)'
  BY <1>2 DEF EventsNamed
<1>6. \A a \in Range(audit') : RightlyNamed(a.pump, a.event)'
  <2>1. CASE audit' = audit
    BY <1>5, <2>1
  <2>2. ASSUME NEW p \in Pumps, NEW e \in Range(events[p]), audit' = Append(audit, [pump |-> p, event |-> e])
        PROVE  \A a \in Range(audit') : RightlyNamed(a.pump, a.event)'
    <3> DEFINE new == [pump |-> p, event |-> e]
    <3>1. RightlyNamed(p, e)' /\ new.pump = p /\ new.event = e /\ audit' = Append(audit, new)
      BY <1>3, <2>2
    <3> HIDE DEF new
    <3>2. Range(audit') = Range(audit) \union {new}
      BY <1>1, <3>1, RangeMore
    <3> QED BY <1>5, <3>1, <3>2
  <2> QED BY <2>1, <2>2, AuditMoves
<1> QED BY <1>4, <1>6 DEF EventsNamed

LEMMA NameInvariance == Spec => []NameInv
<1>1. NameInv /\ AnswerInv /\ IInv /\ [Next]_vars => NameInv'
  <2> SUFFICES ASSUME NameInv, AnswerInv, IInv, [Next]_vars PROVE NameInv'
    OBVIOUS
  <2> QED BY OnePerLineKept, InTableKept, EventsNamedKept DEF NameInv, AnswerInv
<1> QED BY <1>1, NameInit, AnswerInvariance, Invariance, PTL DEF Spec

(* The event of a reply names a call asked under its id, or none: the call *)
(* it answers, unless both sides use the id; none only for what the client *)
(* answers, for a request too long to parse, and if as many other ids were *)
(* asked as the table has room for. A request enters the table before the  *)
(* server sees it, and then only a reply with its id or the want of room   *)
(* takes it out, however the pumps interleave.                             *)
THEOREM RepliesAreNamed == Spec => []RepliesNameTheirRequest
<1>1. NameInv => RepliesNameTheirRequest
  <2> SUFFICES ASSUME NameInv PROVE RepliesNameTheirRequest
    OBVIOUS
  <2>1. \A i \in DOMAIN audit : RightlyNamed(audit[i].pump, audit[i].event)
    BY DEF NameInv, EventsNamed, Range
  <2> QED BY <2>1 DEF RepliesNameTheirRequest, RightlyNamed
<1> QED BY <1>1, NameInvariance, PTL

-----------------------------------------------------------------------------
(* The log, message by message. *)

Open == main \in {"waiting", "returned"}
Readables(l) == Select(Readable(l), ReadableMessages)

(* Of the line in hand, rest is still to be logged. *)
Owes(p, rest) ==
    /\ at[p] \in {"read", "deny"} => rest = <<>>
    /\ at[p] = "parse" => rest = Then(Rest(events[p], 0), Select(todo[p], ReadableMessages))
    /\ at[p] = "write" => rest = IF p = "toServer" THEN Rest(events[p], 0) ELSE Readables(line[p])
    /\ at[p] = "dispatch" => rest = Rest(events[p], dispatched[p])
    /\ at[p] = "ended" /\ p = "toClient" /\ stdout = "open" => rest = <<>>

(* A closed dispatcher logs no more, but lines are still read.             *)
LoggedBut(p, rest) ==
    /\ Then(AuditOf(p), rest) = Auditable(p)
    /\ Open \/ (p = "toClient" /\ at[p] = "ended") => Owes(p, rest)

Progress(p) ==
    /\ taken[p] <= Len(sent[p])
    /\ at[p] \in {"parse", "write"} => dispatched[p] = 0
    /\ at[p] = "dispatch" => dispatched[p] <= Len(events[p])

LogInv ==
    /\ EndsWithServer
    /\ \A p \in Pumps : Progress(p) /\ \E rest \in Seq(Messages) : LoggedBut(p, rest)

LEMMA EventTypes ==
    ASSUME IInv
    PROVE  /\ events \in [Pumps -> Seq([message : Messages, call : Calls \union {NoCall}])]
           /\ todo \in [Pumps -> Seq(Messages)] /\ audit \in Seq(Entry)
           /\ \A e \in [message : Messages, call : Calls \union {NoCall}] : e.message \in Messages
           /\ \A a \in Entry : a.event.message \in Messages
BY DEF IInv, TypeOK, Icpt!TypeOK, Icpt!Messages, Messages, Entry

LEMMA LogInit == Init => LogInv
<1> SUFFICES ASSUME Init, NEW p \in Pumps PROVE EndsWithServer /\ Progress(p) /\ LoggedBut(p, <<>>)
  <2>1. <<>> \in Seq(Messages) /\ \E p \in Pumps : TRUE
    BY PumpNames
  <2> QED BY <2>1, Zenon DEF LogInv
<1>1. /\ at = [q \in Pumps |-> "read"] /\ taken = [q \in Pumps |-> 0] /\ audit = <<>>
      /\ sent = [q \in Pumps |-> <<>>] /\ main = "waiting" /\ "toClient" \in Pumps
  BY PumpNames DEF Init
<1>2. Logs(Select(<<>>, {a \in Entry : a.pump = p})) = <<>>
  BY SelectNothing DEF Logs
<1>3. AuditOf(p) = <<>>
  BY <1>1, <1>2 DEF AuditOf, Logs
<1>4. [i \in 1..taken[p] |-> Readable(sent[p][i])] = <<>>
  BY <1>1
<1>5. Auditable(p) = <<>>
  BY <1>4, FlattenNothing, SelectNothing DEF Auditable
<1>6. Then(<<>>, <<>>) = <<>>
  BY DEF Then
<1> QED BY <1>1, <1>3, <1>5, <1>6 DEF LoggedBut, Owes, Progress, EndsWithServer

(* What is logged and what could be.                                       *)
LEMMA LogTypes ==
    ASSUME IInv, NEW p \in Pumps
    PROVE  AuditOf(p) \in Seq(Messages)
<1> DEFINE set == {a \in Entry : a.pump = p}
<1>1. Select(audit, set) \in Seq(Entry)
  BY EventTypes, SelectIn
<1> HIDE DEF set
<1>2. Logs(Select(audit, set)) \in Seq(Messages)
  BY <1>1, EventTypes, LogsIn
<1> QED BY <1>2 DEF AuditOf, Logs, set

LEMMA OneMoreLogged ==
    ASSUME IInv, NEW p \in Pumps, NEW q \in Pumps,
           NEW e \in [message : Messages, call : Calls \union {NoCall}],
           audit' = Append(audit, [pump |-> p, event |-> e])
    PROVE  /\ p = q => AuditOf(q)' = More(AuditOf(q), e.message)
           /\ p # q => AuditOf(q)' = AuditOf(q)
<1> DEFINE new == [pump |-> p, event |-> e]
           set == {a \in Entry : a.pump = q}
<1>1. audit \in Seq(Entry) /\ Speak(Entry, Messages)
  BY EventTypes DEF Speak
<1>2. new \in Entry /\ new.event.message = e.message /\ (new \in set <=> p = q)
  BY DEF Entry
<1>3. audit' = More(audit, new)
  BY DEF More
<1>4. AuditOf(q) = Logs(Select(audit, set)) /\ AuditOf(q)' = Logs(Select(audit', set))
  BY DEF AuditOf, Logs
<1> HIDE DEF new, set
<1>5. /\ new \in set => Logs(Select(More(audit, new), set)) = More(Logs(Select(audit, set)), new.event.message)
      /\ new \notin set => Logs(Select(More(audit, new), set)) = Logs(Select(audit, set))
  BY <1>1, <1>2, SelectedLogs
<1> QED BY <1>2, <1>3, <1>4, <1>5

Texts(p) == [i \in 1..taken[p] |-> Readable(sent[p][i])]

LEMMA TextTypes ==
    ASSUME IInv, NEW p \in Pumps, taken[p] <= Len(sent[p])
    PROVE  /\ Texts(p) \in Seq(Seq(Messages)) /\ FlattenSeq(Texts(p)) \in Seq(Messages)
           /\ Auditable(p) = Select(FlattenSeq(Texts(p)), ReadableMessages) /\ Auditable(p) \in Seq(Messages)
<1>1. taken[p] \in Nat /\ sent[p] \in Seq(Lines)
  BY DEF IInv, TypeOK
<1>2. \A i \in 1..taken[p] : sent[p][i] \in Lines
  BY <1>1
<1>3. \A l \in Lines : Readable(l) \in Seq(Messages)
  BY DEF Lines, Readable
<1>4. \A i \in 1..taken[p] : Readable(sent[p][i]) \in Seq(Messages)
  BY <1>2, <1>3
<1>5. Texts(p) \in Seq(Seq(Messages))
  BY <1>1, <1>4 DEF Texts
<1>6. FlattenSeq(Texts(p)) \in Seq(Messages)
  <2>1. <<>> \in Seq(Messages)
    OBVIOUS
  <2> QED BY <1>5, <2>1, FlattenOneMore
<1>7. Auditable(p) = Select(FlattenSeq(Texts(p)), ReadableMessages)
  BY DEF Auditable, Texts
<1> QED BY <1>5, <1>6, <1>7, SelectIn

LEMMA OneMoreAuditable ==
    ASSUME IInv, NEW p \in Pumps, NEW l \in Lines, taken[p] < Len(sent[p]), l = sent[p][taken[p] + 1],
           sent' = sent, taken'[p] = taken[p] + 1
    PROVE  /\ Readables(l) \in Seq(Messages)
           /\ Auditable(p)' = Then(Auditable(p), Readables(l))
<1>1. taken[p] \in Nat /\ sent[p] \in Seq(Lines) /\ taken[p] <= Len(sent[p])
  BY DEF IInv, TypeOK
<1> DEFINE n == taken[p]
           ts == Texts(p)
           us == [i \in 1..(n + 1) |-> Readable(sent[p][i])]
           text == Readable(l)
           c == More(ts, text)
<1>2. text \in Seq(Messages)
  BY DEF Lines, Readable
<1>3. ts \in Seq(Seq(Messages)) /\ FlattenSeq(ts) \in Seq(Messages) /\ Auditable(p) = Select(FlattenSeq(ts), ReadableMessages)
  BY <1>1, TextTypes
<1>4. n \in Nat /\ Len(ts) = n /\ \A i \in 1..n : ts[i] = Readable(sent[p][i])
  BY <1>1 DEF Texts
<1>5. us[n + 1] = text /\ \A i \in 1..n : us[i] = Readable(sent[p][i])
  BY <1>1
<1>6. us = [i \in 1..(n + 1) |-> us[i]]
  OBVIOUS
<1>7. Auditable(p)' = Select(FlattenSeq(us), ReadableMessages)
  BY DEF Auditable
<1> HIDE DEF ts, us, text, n
<1>8. /\ c \in Seq(Seq(Messages)) /\ Len(c) = Len(ts) + 1 /\ c[Len(ts) + 1] = text
      /\ \A i \in 1..Len(ts) : c[i] = ts[i]
  <2>1. ts \in Seq(Seq(Messages))
    BY <1>3
  <2> QED BY <1>2, <2>1, MoreIn, MoreAt
<1> HIDE DEF c
<1>9. us = c
  <2>1. \A i \in 1..(n + 1) : us[i] = c[i]
    <3>1. \A i \in 1..(n + 1) : i = n + 1 \/ i \in 1..n
      BY <1>4
    <3> QED BY <1>4, <1>5, <1>8, <3>1
  <2>2. c = [i \in 1..(n + 1) |-> c[i]]
    BY <1>4, <1>8
  <2> QED BY <1>6, <2>1, <2>2
<1>10. FlattenSeq(us) = Then(FlattenSeq(ts), text)
  BY <1>2, <1>3, <1>9, FlattenOneMore DEF c
<1>11. Select(Then(FlattenSeq(ts), text), ReadableMessages)
          = Then(Select(FlattenSeq(ts), ReadableMessages), Select(text, ReadableMessages))
  BY <1>2, <1>3, SelectThen
<1> QED BY <1>2, <1>3, <1>7, <1>10, <1>11, SelectIn DEF Readables, text

(* A message is read, and its event is the next, unless it is junk.        *)
Event == [message : Messages, call : Calls \union {NoCall}]

LEMMA OneIsRead ==
    ASSUME IInv, NEW p \in Pumps, Icpt!parseOne(p)
    PROVE  /\ todo[p] # <<>> /\ Head(todo[p]) \in Messages /\ todo'[p] = Tail(todo[p])
           /\ Head(todo[p]).kind = "junk" => events'[p] = events[p]
           /\ Head(todo[p]).kind # "junk" =>
                 \E e \in Event : e.message = Head(todo[p]) /\ events'[p] = Append(events[p], e)
<1>1. PICK m \in Icpt!Messages :
        /\ Icpt!Reading(p, m)
        /\ \/ Icpt!Request(p, m) \/ Icpt!Notification(p, m)
           \/ Icpt!ReplyToKnown(p, m) \/ Icpt!ReplyToUnknown(p, m) \/ Icpt!Junk(p, m)
  BY DEF Icpt!parseOne
<1>2. /\ todo \in [Pumps -> Seq(Messages)] /\ pending \in [Ids -> Calls \union {NoCall}]
      /\ DOMAIN events = Pumps
  BY DEF IInv, TypeOK, Icpt!TypeOK, Icpt!Messages, Messages
<1>3. todo[p] # <<>> /\ m = Head(todo[p]) /\ todo'[p] = Tail(todo[p])
  BY <1>1, <1>2 DEF Icpt!Reading
<1>4. m \in Messages
  BY <1>1 DEF Icpt!Messages, Messages
<1>5. ASSUME NEW call \in Calls \union {NoCall}, Icpt!Emit(p, m, call)
      PROVE  \E e \in Event : e.message = m /\ events'[p] = Append(events[p], e)
  <2> DEFINE e == [message |-> m, call |-> call]
  <2>1. e \in Event /\ e.message = m
    BY <1>4 DEF Event
  <2>2. events'[p] = Append(events[p], e)
    BY <1>2, <1>5 DEF Icpt!Emit
  <2> HIDE DEF e
  <2> QED BY <2>1, <2>2
<1>6. CASE Icpt!Request(p, m) \/ Icpt!Notification(p, m)
  <2>1. m.kind = "request" /\ Icpt!Emit(p, m, m.call)
    BY <1>6 DEF Icpt!Request, Icpt!Notification
  <2>2. m.call \in Calls \union {NoCall}
    BY <1>4 DEF Messages
  <2> QED BY <1>3, <1>4, <1>5, <2>1, <2>2
<1>7. CASE Icpt!ReplyToKnown(p, m)
  <2>1. m.kind = "reply" /\ m.id \in Ids /\ Icpt!Emit(p, m, pending[m.id])
    BY <1>7 DEF Icpt!ReplyToKnown, Icpt!Outstanding
  <2>2. pending[m.id] \in Calls \union {NoCall}
    BY <1>2, <2>1
  <2> QED BY <1>3, <1>4, <1>5, <2>1, <2>2
<1>8. CASE Icpt!ReplyToUnknown(p, m)
  <2>1. m.kind = "reply" /\ Icpt!Emit(p, m, NoCall) /\ NoCall \in Calls \union {NoCall}
    BY <1>8 DEF Icpt!ReplyToUnknown
  <2> QED BY <1>3, <1>4, <1>5, <2>1
<1>9. CASE Icpt!Junk(p, m)
  <2>1. m.kind = "junk" /\ events' = events
    BY <1>9 DEF Icpt!Junk
  <2> QED BY <1>3, <1>4, <2>1
<1> QED BY <1>1, <1>6, <1>7, <1>8, <1>9

(* What a pump still owes does not change with the other, nor as it reads. *)
Still(q) ==
    /\ at'[q] = at[q] /\ events'[q] = events[q] /\ todo'[q] = todo[q] /\ line'[q] = line[q]
    /\ taken'[q] = taken[q] /\ dispatched'[q] = dispatched[q]
    /\ AuditOf(q)' = AuditOf(q) /\ Auditable(q)' = Auditable(q)

LEMMA StillLogged ==
    ASSUME NEW q \in Pumps, NEW rest, LoggedBut(q, rest), Still(q),
           Open' => Open, stdout' = "open" => stdout = "open"
    PROVE  LoggedBut(q, rest)'
<1>1. (AuditOf(q) = AuditOf(q)' /\ Auditable(q) = Auditable(q)')
  BY DEF Still
<1>2. (Then(AuditOf(q), rest) = Auditable(q))'
  BY <1>1 DEF LoggedBut
<1>3. ASSUME Open' \/ (q = "toClient" /\ at'[q] = "ended") PROVE Owes(q, rest)'
  <2>1. Owes(q, rest)
    BY <1>3 DEF LoggedBut, Still
  <2> QED BY <2>1 DEF Owes, Still
<1> QED BY <1>2, <1>3 DEF LoggedBut

LEMMA AuditableStays ==
    ASSUME IInv, NEW q \in Pumps, taken[q] <= Len(sent[q]), taken'[q] = taken[q],
           \A k \in 1..Len(sent[q]) : sent'[q][k] = sent[q][k]
    PROVE  Auditable(q)' = Auditable(q)
<1>1. taken[q] \in Nat /\ Len(sent[q]) \in Nat
  BY DEF IInv, TypeOK
<1>2. \A k \in 1..taken[q] : sent'[q][k] = sent[q][k]
  BY <1>1
<1>3. [i \in 1..taken[q] |-> Readable(sent[q][i])] = [i \in 1..taken'[q] |-> Readable(sent'[q][i])]
  BY <1>2
<1> QED BY <1>3 DEF Auditable

LEMMA OthersStay ==
    ASSUME IInv, [Next]_vars, NEW q \in Pumps, Progress(q)
    PROVE  \/ Still(q)
           \/ q = "toServer" /\ (pumpToServer \/ (ProcessExits /\ main = "closed"))
           \/ q = "toClient" /\ pumpToClient
<1>1. /\ at \in [Pumps -> {"read", "parse", "write", "dispatch", "deny", "ended"}]
      /\ taken \in [Pumps -> Nat] /\ line \in [Pumps -> Lines] /\ dispatched \in [Pumps -> Nat]
      /\ "toServer" \in Pumps /\ "toClient" \in Pumps /\ "toServer" # "toClient"
      /\ \A p \in Pumps : p = "toServer" \/ p = "toClient"
  BY PumpNames DEF IInv, TypeOK, Pumps
<1>2. \A k \in 1..Len(sent[q]) : sent'[q][k] = sent[q][k]
  BY SentStays
<1>3. taken[q] <= Len(sent[q])
  BY DEF Progress
<1>4. ASSUME UNCHANGED <<at, events, todo, line, taken, dispatched, audit>>
      PROVE  Still(q)
  <2>1. Auditable(q)' = Auditable(q)
    BY <1>2, <1>3, <1>4, AuditableStays
  <2>2. AuditOf(q)' = AuditOf(q)
    BY <1>4 DEF AuditOf
  <2> QED BY <1>4, <2>1, <2>2 DEF Still
<1>5. ASSUME UNCHANGED vars \/ ServerExits \/ ClientClosesStdin \/ ClientStopsReading \/ RunReturns
             \/ CloseDispatcher \/ \E p \in Pumps : Say(p)
      PROVE  Still(q)
  BY <1>4, <1>5 DEF vars, ServerExits, ClientClosesStdin, ClientStopsReading, RunReturns, CloseDispatcher, Say,
                    interceptorVars, pumpVars
<1>6. CASE ProcessExits
  <2>1. q = "toClient" => at'[q] = at[q]
    BY <1>1, <1>6 DEF ProcessExits, Go
  <2>2. UNCHANGED <<events, todo, line, taken, dispatched, audit>> /\ main = "closed"
    BY <1>6 DEF ProcessExits, interceptorVars
  <2>3. Auditable(q)' = Auditable(q)
    BY <1>2, <1>3, <2>2, AuditableStays
  <2>4. AuditOf(q)' = AuditOf(q)
    BY <2>2 DEF AuditOf
  <2> QED BY <1>1, <1>6, <2>1, <2>2, <2>3, <2>4 DEF Still
<1>7. ASSUME NEW p \in Pumps, p # q, (p = "toServer" /\ pumpToServer) \/ (p = "toClient" /\ pumpToClient)
      PROVE  Still(q)
  <2>1. todo'[q] = todo[q] /\ events'[q] = events[q]
    BY <1>7, StepsOfInterceptor, InterceptorSteps
  <2>2. at'[q] = at[q]
    BY <1>1, <1>7
    DEF pumpToServer, pumpToClient, ReadFromClient, ReadFromServer, NextLine, EndOfInput, ParseMessage, Judge, Inspect,
        WriteToServer, WriteToClient, WriteFails, Dispatch, DispatchDone, denyRequest, Go, pumpVars
  <2>3. line'[q] = line[q] /\ taken'[q] = taken[q] /\ dispatched'[q] = dispatched[q]
    BY <1>1, <1>7
    DEF pumpToServer, pumpToClient, ReadFromClient, ReadFromServer, NextLine, EndOfInput, ParseMessage, Judge, Inspect,
        WriteToServer, WriteToClient, WriteFails, Dispatch, DispatchDone, denyRequest, pumpVars
  <2>4. Auditable(q)' = Auditable(q)
    BY <1>2, <1>3, <2>3, AuditableStays
  <2>5. AuditOf(q)' = AuditOf(q)
    <3>1. CASE audit' = audit
      BY <3>1 DEF AuditOf
    <3>2. CASE audit' # audit
      <4>1. Dispatch(p)
        BY <1>7, <3>2
        DEF pumpToServer, pumpToClient, ReadFromClient, ReadFromServer, NextLine, EndOfInput, ParseMessage, Judge,
            Inspect, WriteToServer, WriteToClient, WriteFails, DispatchDone, denyRequest
      <4>2. PICK e \in Event : audit' = Append(audit, [pump |-> p, event |-> e])
        <5>1. events[p] \in Seq(Event) /\ dispatched[p] \in Nat /\ dispatched[p] < Len(events[p])
          BY <1>1, <4>1, EventTypes DEF Dispatch, Event
        <5>2. events[p][dispatched[p] + 1] \in Event
          BY <5>1
        <5> QED BY <3>2, <4>1, <5>2 DEF Dispatch
      <4> QED BY <1>7, <4>2, OneMoreLogged DEF Event
    <3> QED BY <3>1, <3>2
  <2> QED BY <2>1, <2>2, <2>3, <2>4, <2>5 DEF Still
<1> QED BY <1>1, <1>5, <1>6, <1>7 DEF Next, Run

(* Where nothing is logged and no line is read, the rest stays the same.   *)
LEMMA RestStays ==
    ASSUME NEW p, NEW rest, LoggedBut(p, rest), main' = main, stdout' = stdout,
           Auditable(p)' = Auditable(p), AuditOf(p)' = AuditOf(p), at[p] # "ended", Owes(p, rest) => Owes(p, rest)',
           main # "waiting" => at["toClient"] = "ended"
    PROVE  LoggedBut(p, rest)'
<1>1. (Then(AuditOf(p), rest) = Auditable(p))'
  <2>1. AuditOf(p) = AuditOf(p)' /\ Auditable(p) = Auditable(p)'
    OBVIOUS
  <2> QED BY <2>1 DEF LoggedBut
<1>2. ASSUME Open' \/ (p = "toClient" /\ at'[p] = "ended") PROVE Owes(p, rest)'
  <2>1. Open
    BY <1>2 DEF Open
  <2> QED BY <2>1 DEF LoggedBut
<1> QED BY <1>1, <1>2 DEF LoggedBut

LEMMA ReadLogged ==
    ASSUME IInv, NEW p \in Pumps, Progress(p), NEW rest \in Seq(Messages), LoggedBut(p, rest),
           (p = "toServer" /\ ReadFromClient) \/ (p = "toClient" /\ ReadFromServer)
    PROVE  Progress(p)' /\ \E more \in Seq(Messages) : LoggedBut(p, more)'
<1>1. /\ at \in [Pumps -> {"read", "parse", "write", "dispatch", "deny", "ended"}]
      /\ taken \in [Pumps -> Nat] /\ line \in [Pumps -> Lines] /\ sent \in [Pumps -> Seq(Lines)]
      /\ DOMAIN todo = Pumps /\ dispatched \in [Pumps -> Nat]
      /\ DOMAIN events = Pumps
  BY DEF IInv, TypeOK, Icpt!TypeOK
<1>2. NextLine(p) /\ main' = main /\ UNCHANGED <<sent, audit>>
  BY DEF ReadFromClient, ReadFromServer, NextLine, worldVars
<1>3. /\ taken'[p] = taken[p] + 1 /\ taken[p] < Len(sent[p]) /\ line'[p] = sent[p][taken[p] + 1]
      /\ dispatched'[p] = 0 /\ at[p] = "read"
  BY <1>1, <1>2 DEF NextLine
<1> DEFINE l == line'[p]
           more == Readables(l)
<1>4. l \in Lines
  <2>1. taken[p] \in Nat /\ sent[p] \in Seq(Lines) /\ taken[p] + 1 \in 1..Len(sent[p])
    BY <1>1, <1>3
  <2> QED BY <1>3, <2>1
<1>5. AuditOf(p)' = AuditOf(p) /\ AuditOf(p) \in Seq(Messages)
  BY <1>2, LogTypes DEF AuditOf
<1>6. \A k : k = l => Auditable(p)' = Then(Auditable(p), Readables(k)) /\ Readables(k) \in Seq(Messages)
  BY <1>2, <1>3, <1>4, OneMoreAuditable
<1>7. /\ p = "toServer" => /\ at'[p] = "parse" /\ todo'[p] = Readable(l) /\ events'[p] = <<>>
      /\ p = "toClient" => at'[p] = "write"
  BY <1>1, PumpNames DEF ReadFromClient, ReadFromServer, Icpt!ParseBegin, Go
<1>8. Progress(p)'
  <2>1. taken[p] \in Nat /\ Len(sent[p]) \in Nat
    BY <1>1
  <2> QED BY <1>2, <1>3, <1>7, <2>1, PumpNames DEF Progress, Pumps
<1>9. \E x : x = l
  OBVIOUS
<1>10. PICK k : k = l
  BY <1>9
<1> HIDE DEF l
<1> DEFINE piece == Readables(k)
           all == Then(rest, piece)
<1>11. piece \in Seq(Messages) /\ all \in Seq(Messages) /\ Auditable(p)' = Then(Auditable(p), piece)
  BY <1>6, <1>10, ThenIn
<1>12. piece = Select(Readable(k), ReadableMessages)
  BY DEF Readables
<1> HIDE DEF piece
<1>13. Then(AuditOf(p), all) = Then(Then(AuditOf(p), rest), piece)
  BY <1>5, <1>11, ThenAgain
<1>14. Then(AuditOf(p), rest) = Auditable(p)
  BY DEF LoggedBut
<1>15. (Then(AuditOf(p), all) = Auditable(p))'
  <2> DEFINE a == AuditOf(p)'
             b == Auditable(p)'
  <2>1. a = AuditOf(p) /\ b = Then(Auditable(p), piece)
    BY <1>5, <1>11
  <2> HIDE DEF a, b
  <2>2. Then(a, all) = b
    BY <1>13, <1>14, <2>1
  <2> QED BY <2>2 DEF a, b, all, piece
<1>16. Open => all = piece
  <2>1. Open => rest = <<>>
    BY <1>3 DEF LoggedBut, Owes
  <2>2. Then(<<>>, piece) = piece
    BY <1>11, ThenNothing
  <2> QED BY <2>1, <2>2 DEF all
<1>17. Open => Owes(p, all)'
  <2> SUFFICES ASSUME Open PROVE Owes(p, all)'
    OBVIOUS
  <2>1. p = "toServer" => piece = Then(Rest(events'[p], 0), Select(todo'[p], ReadableMessages))
    <3>1. Rest(<<>>, 0) = <<>>
      BY EventTypes, RestNothing
    <3>2. Then(<<>>, piece) = piece
      BY <1>11, ThenNothing
    <3> QED BY <1>7, <1>10, <1>12, <3>1, <3>2
  <2>2. p = "toClient" => piece = Readables(line'[p])
    BY <1>10 DEF piece, l
  <2> QED BY <1>7, <1>16, <2>1, <2>2, PumpNames DEF Owes, Pumps, all, piece
<1>18. at'[p] # "ended"
  BY <1>7 DEF Pumps
<1>19. LoggedBut(p, all)'
  BY <1>2, <1>15, <1>17, <1>18 DEF LoggedBut, Open
<1> QED BY <1>8, <1>11, <1>19

LEMMA ParseLogged ==
    ASSUME IInv, NEW p \in Pumps, ParseMessage(p), NEW rest, Owes(p, rest)
    PROVE  Owes(p, rest)'
<1>1. at[p] = "parse" /\ UNCHANGED <<at, stdout, line, dispatched>> /\ Icpt!parseOne(p)
  BY DEF ParseMessage, pumpVars, worldVars
<1>2. /\ todo[p] # <<>> /\ Head(todo[p]) \in Messages /\ todo'[p] = Tail(todo[p])
      /\ Head(todo[p]).kind = "junk" => events'[p] = events[p]
      /\ Head(todo[p]).kind # "junk" =>
            \E e \in Event : e.message = Head(todo[p]) /\ events'[p] = Append(events[p], e)
  BY <1>1, OneIsRead
<1> DEFINE t == todo[p]
           es == events[p]
           m == Head(t)
           later == Select(Tail(t), ReadableMessages)
<1>3. t \in Seq(Messages) /\ es \in Seq(Event) /\ \A e \in Event : e.message \in Messages
  BY EventTypes DEF Event
<1>4. rest = Then(Rest(es, 0), Select(t, ReadableMessages))
  BY <1>1 DEF Owes
<1>5. m \in Messages /\ (m \in ReadableMessages <=> m.kind # "junk")
  BY <1>2 DEF ReadableMessages
<1>6. later \in Seq(Messages) /\ One(m, ReadableMessages) \in Seq(Messages)
      /\ Select(t, ReadableMessages) = Then(One(m, ReadableMessages), later)
  BY <1>2, <1>3, SelectHead
<1>7. Rest(es, 0) \in Seq(Messages)
  <2>1. 0 \in 0..Len(es)
    BY <1>3
  <2> QED BY <1>3, <2>1, RestIn
<1> HIDE DEF t, es, m
<1>8. CASE m.kind = "junk"
  <2>1. One(m, ReadableMessages) = <<>> /\ events'[p] = es
    BY <1>2, <1>5, <1>8 DEF One, es, m, t
  <2>2. Then(<<>>, later) = later
    BY <1>6, ThenNothing
  <2>3. rest = Then(Rest(events'[p], 0), Select(todo'[p], ReadableMessages))
    BY <1>2, <1>4, <1>6, <2>1, <2>2 DEF t
  <2> QED BY <1>1, <2>3 DEF Owes
<1>9. CASE m.kind # "junk"
  <2>1. PICK e \in Event : e.message = m /\ events'[p] = Append(es, e)
    BY <1>2, <1>9 DEF es, m, t
  <2>2. events'[p] = More(es, e)
    BY <2>1 DEF More
  <2>3. Rest(More(es, e), 0) = More(Rest(es, 0), m)
    <3>1. Rest(More(es, e), 0) = More(Rest(es, 0), e.message)
      BY <1>3, RestMore
    <3> QED BY <2>1, <3>1
  <2>4. One(m, ReadableMessages) = <<m>>
    BY <1>5, <1>9 DEF One
  <2>5. Then(Rest(es, 0), Then(One(m, ReadableMessages), later)) = Then(More(Rest(es, 0), m), later)
    <3>1. More(Rest(es, 0), m) = Then(Rest(es, 0), One(m, ReadableMessages))
      BY <1>5, <1>7, <2>4, MoreIsThen
    <3> QED BY <1>6, <1>7, <3>1, ThenAgain
  <2>6. rest = Then(Rest(events'[p], 0), Select(todo'[p], ReadableMessages))
    BY <1>2, <1>4, <1>6, <2>2, <2>3, <2>5 DEF t
  <2> QED BY <1>1, <2>6 DEF Owes
<1> QED BY <1>8, <1>9

(* A line that has been parsed, or passed on.                              *)
LEMMA ParsedLogged ==
    ASSUME IInv, NEW p \in Pumps, Progress(p), NEW rest, Owes(p, rest),
           \/ p = "toServer" /\ (Judge \/ WriteToServer)
           \/ p = "toClient" /\ Inspect
    PROVE  Owes(p, rest)' /\ Progress(p)'
<1>1. /\ at \in [Pumps -> {"read", "parse", "write", "dispatch", "deny", "ended"}] /\ UNCHANGED <<events, dispatched, sent, taken>>
  BY DEF Judge, WriteToServer, Inspect, IInv, TypeOK, Icpt!ParseEnd, interceptorVars, worldVars
<1>2. at'[p] = "dispatch" \/ (at'[p] = "write" /\ p = "toServer")
  BY <1>1 DEF Judge, WriteToServer, Inspect, Go
<1>3. rest = Rest(events[p], 0)
  <2>1. events[p] \in Seq(Event) /\ \A e \in Event : e.message \in Messages
    BY EventTypes DEF Event
  <2>2. Rest(events[p], 0) \in Seq(Messages)
    <3>1. 0 \in 0..Len(events[p])
      BY <2>1
    <3> QED BY <2>1, <3>1, RestIn
  <2>3. CASE at[p] = "parse" /\ todo[p] = <<>>
    <3>1. rest = Then(Rest(events[p], 0), Select(todo[p], ReadableMessages))
      BY <2>3 DEF Owes
    <3> QED BY <2>2, <2>3, <3>1, SelectNothing, ThenNothing
  <2>4. CASE at[p] = "write" /\ p = "toServer"
    BY <2>4 DEF Owes
  <2> QED BY <2>3, <2>4 DEF Judge, WriteToServer, Inspect, Icpt!ParseEnd
<1>4. dispatched[p] = 0 /\ 0 <= Len(events[p])
  <2>1. at[p] \in {"parse", "write"}
    BY DEF Judge, WriteToServer, Inspect
  <2>2. Len(events[p]) \in Nat
    BY EventTypes
  <2> QED BY <2>1, <2>2 DEF Progress
<1> QED BY <1>1, <1>2, <1>3, <1>4 DEF Owes, Progress

LEMMA ClientWriteLogged ==
    ASSUME IInv, Progress("toClient"), NEW rest, Owes("toClient", rest), WriteToClient
    PROVE  Owes("toClient", rest)' /\ Progress("toClient")'
<1> DEFINE p == "toClient"
<1>1. /\ p \in Pumps /\ at \in [Pumps -> {"read", "parse", "write", "dispatch", "deny", "ended"}]
      /\ line \in [Pumps -> Lines] /\ DOMAIN todo = Pumps /\ DOMAIN events = Pumps
      /\ p # "toServer"
  BY PumpNames DEF IInv, TypeOK, Icpt!TypeOK
<1>2. /\ at[p] = "write" /\ at'[p] = "parse" /\ events'[p] = <<>> /\ todo'[p] = Readable(line[p])
      /\ UNCHANGED <<dispatched, taken, sent>>
  BY <1>1 DEF WriteToClient, Go, Icpt!ParseBegin, worldVars
<1>3. rest = Select(Readable(line[p]), ReadableMessages)
  BY <1>1, <1>2 DEF Owes, Readables
<1>4. Select(Readable(line[p]), ReadableMessages) \in Seq(Messages)
  <2>1. Readable(line[p]) \in Seq(Messages)
    <3>1. line[p] \in Lines
      BY <1>1
    <3> QED BY <3>1 DEF Lines, Readable
  <2> QED BY <2>1, SelectIn
<1>5. Rest(<<>>, 0) = <<>>
  BY EventTypes, RestNothing, <1>1
<1>6. rest = Then(Rest(events'[p], 0), Select(todo'[p], ReadableMessages))
  BY <1>2, <1>3, <1>4, <1>5, ThenNothing
<1>7. Owes(p, rest)'
  BY <1>2, <1>6 DEF Owes
<1>8. Progress(p)'
  BY <1>2 DEF Progress
<1> QED BY <1>7, <1>8

(* DispatchAll. A closed dispatcher ignores the event.                     *)
LEMMA DispatchLogged ==
    ASSUME IInv, NEW p \in Pumps, Progress(p), NEW rest \in Seq(Messages), LoggedBut(p, rest), Dispatch(p),
           Auditable(p)' = Auditable(p)
    PROVE  Progress(p)' /\ \E more \in Seq(Messages) : LoggedBut(p, more)'
<1> DEFINE es == events[p]
           d == dispatched[p]
           m == es[d + 1].message
<1>1. /\ es \in Seq(Event) /\ d \in Nat /\ dispatched'[p] = d + 1 /\ d < Len(es) /\ at[p] = "dispatch"
      /\ UNCHANGED <<at, events, taken, sent, main, stdout>> /\ \A e \in Event : e.message \in Messages
  BY EventTypes DEF Dispatch, Event, IInv, TypeOK, interceptorVars, worldVars
<1>2. es[d + 1] \in Event /\ Len(es) \in Nat /\ d + 1 <= Len(es)
  BY <1>1
<1>3. Progress(p)'
  BY <1>1, <1>2 DEF Progress
<1>4. m \in Messages /\ Rest(es, d + 1) \in Seq(Messages) /\ Rest(es, d) = First(m, Rest(es, d + 1))
  BY <1>1, RestNext
<1>5. AuditOf(p) \in Seq(Messages)
  BY LogTypes
<1>6. CASE Open
  <2> DEFINE more == Rest(es, d + 1)
  <2>1. audit' = Append(audit, [pump |-> p, event |-> es[d + 1]])
    BY <1>6 DEF Dispatch, Open
  <2>2. AuditOf(p)' = More(AuditOf(p), m)
    BY <1>2, <2>1, OneMoreLogged DEF Event
  <2>3. rest = Rest(es, d) /\ Then(AuditOf(p), rest) = Auditable(p)
    BY <1>1, <1>6 DEF LoggedBut, Owes
  <2> HIDE DEF m
  <2>4. Then(AuditOf(p), rest) = Then(More(AuditOf(p), m), more)
    BY <1>4, <1>5, <2>3, ThenFirst
  <2>5. \A k : k = more => (Then(AuditOf(p), k) = Auditable(p))'
    BY <2>2, <2>3, <2>4
  <2>6. \A k : k = more => Owes(p, k)'
    BY <1>1 DEF Owes
  <2>7. \E k : k = more
    OBVIOUS
  <2> QED BY <1>3, <1>4, <2>5, <2>6, <2>7 DEF LoggedBut
<1>7. CASE ~Open
  <2>1. AuditOf(p)' = AuditOf(p)
    BY <1>7 DEF Dispatch, Open, AuditOf
  <2>2. (Then(AuditOf(p), rest) = Auditable(p))'
    <3>1. AuditOf(p) = AuditOf(p)' /\ Auditable(p) = Auditable(p)'
      BY <2>1
    <3> QED BY <3>1 DEF LoggedBut
  <2>3. ~(Open \/ (p = "toClient" /\ at[p] = "ended"))'
    BY <1>1, <1>7 DEF Open
  <2>4. LoggedBut(p, rest)'
    BY <2>2, <2>3 DEF LoggedBut
  <2> QED BY <1>3, <2>4
<1> QED BY <1>6, <1>7

LEMMA RestDone ==
    ASSUME IInv, NEW p \in Pumps, Progress(p), NEW rest, Owes(p, rest),
           \/ EndOfInput(p) \/ WriteFails(p) \/ DispatchDone(p) \/ (p = "toServer" /\ denyRequest)
    PROVE  Owes(p, rest)' /\ Progress(p)'
<1>1. /\ at \in [Pumps -> {"read", "parse", "write", "dispatch", "deny", "ended"}]
      /\ UNCHANGED <<sent, taken, dispatched, events, stdout>> /\ stdout \in {"open", "closed"}
  BY DEF EndOfInput, WriteFails, DispatchDone, denyRequest, IInv, TypeOK, interceptorVars, worldVars
<1>2. /\ EndOfInput(p) => at[p] = "read" /\ at'[p] = "ended"
      /\ WriteFails(p) => at'[p] = "ended" /\ (p = "toServer" \/ stdout = "closed")
      /\ DispatchDone(p) => at[p] = "dispatch" /\ dispatched[p] = Len(events[p]) /\ at'[p] \in {"deny", "read"}
      /\ p = "toServer" /\ denyRequest => at[p] = "deny" /\ at'[p] \in {"read", "ended"}
  BY <1>1 DEF EndOfInput, WriteFails, DispatchDone, denyRequest, Go
<1>3. Progress(p)'
  BY <1>1, <1>2 DEF Progress
<1>4. DispatchDone(p) => rest = <<>>
  <2> SUFFICES ASSUME DispatchDone(p) PROVE rest = <<>>
    OBVIOUS
  <2>1. rest = Rest(events[p], Len(events[p]))
    BY <1>2 DEF Owes
  <2>2. events[p] \in Seq(Event) /\ \A e \in Event : e.message \in Messages
    BY EventTypes DEF Event
  <2> QED BY <2>1, <2>2, RestNothing
<1>5. Owes(p, rest)'
  BY <1>1, <1>2, <1>4 DEF Owes
<1> QED BY <1>3, <1>5

LEMMA PumpLogged ==
    ASSUME IInv, EndsWithServer, NEW p \in Pumps, Progress(p), NEW rest \in Seq(Messages), LoggedBut(p, rest),
           (p = "toServer" /\ pumpToServer) \/ (p = "toClient" /\ pumpToClient)
    PROVE  Progress(p)' /\ \E more \in Seq(Messages) : LoggedBut(p, more)'
<1>1. CASE (p = "toServer" /\ ReadFromClient) \/ (p = "toClient" /\ ReadFromServer)
  BY <1>1, ReadLogged
<1>2. CASE Dispatch(p)
  <2>1. Auditable(p)' = Auditable(p)
    <3>1. at[p] = "dispatch" /\ UNCHANGED <<taken, sent>>
      BY <1>2 DEF Dispatch, worldVars
    <3> QED BY <3>1, AuditableStays DEF Progress
  <2> QED BY <1>2, <2>1, DispatchLogged
<1>3. CASE \/ p = "toServer" /\ (Judge \/ WriteToServer \/ denyRequest)
           \/ p = "toClient" /\ (Inspect \/ WriteToClient)
           \/ EndOfInput(p) \/ WriteFails(p) \/ DispatchDone(p) \/ ParseMessage(p)
  <2>1. UNCHANGED <<main, stdout, taken, sent, audit, dispatched>> /\ at[p] # "ended"
    BY <1>3 DEF Judge, WriteToServer, denyRequest, Inspect, WriteToClient, EndOfInput, WriteFails, DispatchDone,
                ParseMessage, worldVars, pumpVars
  <2>2. Auditable(p)' = Auditable(p) /\ AuditOf(p)' = AuditOf(p)
    <3>1. Auditable(p)' = Auditable(p)
      BY <2>1, AuditableStays DEF Progress
    <3> QED BY <2>1, <3>1 DEF AuditOf
  <2>3. main # "waiting" => at["toClient"] = "ended"
    BY DEF EndsWithServer
  <2>4. (Owes(p, rest) => Owes(p, rest)') /\ Progress(p)'
    <3>1. CASE ParseMessage(p)
      <4>1. Progress(p)'
        <5>1. at[p] = "parse" /\ at' = at
          BY <3>1 DEF ParseMessage, pumpVars
        <5> QED BY <2>1, <5>1 DEF Progress
      <4> QED BY <3>1, <4>1, ParseLogged
    <3>2. CASE \/ EndOfInput(p) \/ WriteFails(p) \/ DispatchDone(p) \/ (p = "toServer" /\ denyRequest)
      <4>1. Progress(p)'
        <5>1. at' = [at EXCEPT ![p] = at'[p]] /\ at'[p] \in {"read", "deny", "ended"}
          BY <3>2, <2>1 DEF EndOfInput, WriteFails, DispatchDone, denyRequest, Go, IInv, TypeOK
        <5> QED BY <2>1, <5>1 DEF Progress
      <4> QED BY <3>2, <4>1, RestDone
    <3>3. CASE \/ p = "toServer" /\ (Judge \/ WriteToServer)
               \/ p = "toClient" /\ Inspect
      <4>1. Progress(p)'
        <5>1. UNCHANGED events /\ at[p] \in {"parse", "write"} /\ at'[p] \in {"write", "dispatch"}
          BY <3>3 DEF Judge, WriteToServer, Inspect, Go, IInv, TypeOK, Icpt!ParseEnd, interceptorVars
        <5>2. Len(events[p]) \in Nat
          BY EventTypes
        <5> QED BY <2>1, <5>1, <5>2 DEF Progress
      <4> QED BY <3>3, <4>1, ParsedLogged
    <3>4. CASE p = "toClient" /\ WriteToClient
      <4>1. Progress(p)'
        <5>1. at[p] = "write" /\ at'[p] = "parse"
          BY <3>4 DEF WriteToClient, Go, IInv, TypeOK
        <5> QED BY <2>1, <5>1 DEF Progress
      <4> QED BY <3>4, <4>1, ClientWriteLogged
    <3> QED BY <1>3, <3>1, <3>2, <3>3, <3>4
  <2> QED BY <2>1, <2>2, <2>3, <2>4, RestStays
<1> QED BY <1>1, <1>2, <1>3 DEF pumpToServer, pumpToClient

LEMMA LogInvariance == Spec => []LogInv
<1>1. LogInv /\ IInv /\ [Next]_vars => LogInv'
  <2> SUFFICES ASSUME LogInv, IInv, [Next]_vars PROVE LogInv'
    OBVIOUS
  <2>1. EndsWithServer /\ EndsWithServer'
    BY EndsWithServerKept DEF LogInv
  <2>2. ASSUME NEW p \in Pumps PROVE Progress(p)' /\ \E more \in Seq(Messages) : LoggedBut(p, more)'
    <3>1. PICK rest \in Seq(Messages) : LoggedBut(p, rest)
      BY DEF LogInv
    <3>2. Progress(p)
      BY DEF LogInv
    <3>3. CASE Still(p)
      <4>1. (Open' => Open) /\ (stdout' = "open" => stdout = "open")
        BY DEF Next, Say, ServerExits, ClientClosesStdin, ClientStopsReading, pumpToServer, pumpToClient, Run, RunReturns,
               CloseDispatcher, ProcessExits, ReadFromClient, ReadFromServer, NextLine, EndOfInput, ParseMessage, Judge,
               Inspect, WriteToServer, WriteToClient, WriteFails, Dispatch, DispatchDone, denyRequest, vars, worldVars,
               Open, IInv, TypeOK
      <4>2. LoggedBut(p, rest)'
        BY <3>1, <3>3, <4>1, StillLogged
      <4>3. Progress(p)'
        <5>1. Len(sent[p]) \in Nat /\ Len(sent'[p]) \in Nat /\ Len(sent[p]) <= Len(sent'[p]) /\ taken[p] \in Nat
          BY SentStays DEF IInv, TypeOK
        <5> QED BY <3>2, <3>3, <5>1 DEF Progress, Still
      <4> QED BY <4>2, <4>3
    <3>4. CASE (p = "toServer" /\ pumpToServer) \/ (p = "toClient" /\ pumpToClient)
      BY <2>1, <3>1, <3>2, <3>4, PumpLogged
    <3>5. CASE p = "toServer" /\ ProcessExits /\ main = "closed"
      <4>1. /\ UNCHANGED <<taken, sent, audit, dispatched, events>> /\ main' = "exited" /\ at'[p] = "ended"
        BY <3>5 DEF ProcessExits, Go, IInv, TypeOK, interceptorVars, pumpVars, worldVars
      <4>2. Auditable(p)' = Auditable(p) /\ AuditOf(p)' = AuditOf(p)
        <5>1. Auditable(p)' = Auditable(p)
          BY <3>2, <4>1, AuditableStays DEF Progress
        <5> QED BY <4>1, <5>1 DEF AuditOf
      <4>3. (Then(AuditOf(p), rest) = Auditable(p))'
        <5>1. AuditOf(p) = AuditOf(p)' /\ Auditable(p) = Auditable(p)'
          BY <4>2
        <5> QED BY <3>1, <5>1 DEF LoggedBut
      <4>4. LoggedBut(p, rest)' /\ Progress(p)'
        BY <3>2, <3>5, <4>1, <4>3, PumpNames DEF LoggedBut, Open, Progress
      <4> QED BY <4>4
    <3> QED BY <3>2, <3>3, <3>4, <3>5, OthersStay
  <2> QED BY <2>1, <2>2 DEF LogInv
<1> QED BY <1>1, LogInit, Invariance, PTL DEF Spec

(* The log has what was said in either direction, message by message, in   *)
(* its order and each once, but for the junk and the line in hand; and all *)
(* of what a client was sent that keeps reading, when Run has returned.    *)
THEOREM LogIsFaithful == Spec => []AuditFollowsTraffic
<1>1. LogInv /\ IInv => AuditFollowsTraffic
  <2> SUFFICES ASSUME LogInv, IInv, NEW p \in Pumps
               PROVE  /\ IsPrefix(AuditOf(p), Auditable(p))
                      /\ at[p] = "read" /\ Open => AuditOf(p) = Auditable(p)
                      /\ p = "toClient" /\ main # "waiting" /\ stdout = "open" => AuditOf(p) = Auditable(p)
    BY DEF AuditFollowsTraffic, Open
  <2>1. PICK rest \in Seq(Messages) : LoggedBut(p, rest)
    BY DEF LogInv
  <2>2. AuditOf(p) \in Seq(Messages) /\ Then(AuditOf(p), rest) = Auditable(p)
    BY <2>1, LogTypes DEF LoggedBut
  <2>3. IsPrefix(AuditOf(p), Auditable(p))
    BY <2>2, ThenIsLonger
  <2>4. rest = <<>> => AuditOf(p) = Auditable(p)
    BY <2>2, ThenNothing
  <2>5. at[p] = "read" /\ Open => rest = <<>>
    BY <2>1 DEF LoggedBut, Owes
  <2>6. p = "toClient" /\ main # "waiting" /\ stdout = "open" => rest = <<>>
    BY <2>1 DEF LoggedBut, Owes, LogInv, EndsWithServer
  <2> QED BY <2>3, <2>4, <2>5, <2>6
<1> QED BY <1>1, LogInvariance, Invariance, PTL
=============================================================================
