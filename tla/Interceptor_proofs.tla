------------------------ MODULE Interceptor_proofs ------------------------
(***************************************************************************)
(* The two structures of the table of pending requests agree, replies are  *)
(* named after the requests they answer, and are left without a name only  *)
(* under pressure, for every number of goroutines, ids and calls and every *)
(* size of the table.                                                      *)
(***************************************************************************)
EXTENDS Interceptor, SequenceTheorems, FiniteSetTheorems, TLAPS

(* What the operations do to a list of distinct keys. *)
LEMMA AppendDistinct ==
    ASSUME NEW S, NEW s \in Seq(S), IsInjective(s), NEW x \in S, x \notin Range(s)
    PROVE  /\ Append(s, x) \in Seq(S)
           /\ Len(Append(s, x)) = Len(s) + 1
           /\ IsInjective(Append(s, x))
           /\ Range(Append(s, x)) = Range(s) \union {x}
<1> DEFINE t == Append(s, x)
<1>1. t \in Seq(S) /\ Len(t) = Len(s) + 1 /\ DOMAIN t = 1..(Len(s) + 1) /\ DOMAIN s = 1..Len(s)
  OBVIOUS
<1>2. \A i \in 1..Len(s) : t[i] = s[i]
  OBVIOUS
<1>3. t[Len(s) + 1] = x
  OBVIOUS
<1> HIDE DEF t
<1>4. \A i \in 1..Len(s) : s[i] \in Range(s) /\ s[i] # x
  BY <1>1 DEF Range
<1>5. IsInjective(t)
  BY <1>1, <1>2, <1>3, <1>4 DEF IsInjective
<1>6. Range(t) = Range(s) \union {x}
  <2>1. ASSUME NEW y \in Range(t) PROVE y \in Range(s) \union {x}
    BY <1>1, <1>2, <1>3, <2>1 DEF Range
  <2>2. ASSUME NEW y \in Range(s) PROVE y \in Range(t)
    BY <1>1, <1>2, <2>2 DEF Range
  <2>3. x \in Range(t)
    BY <1>1, <1>3 DEF Range
  <2> QED BY <2>1, <2>2, <2>3
<1> QED BY <1>1, <1>5, <1>6 DEF t

LEMMA DropDistinct ==
    ASSUME NEW S, NEW s \in Seq(S), IsInjective(s), NEW n \in 0..Len(s)
    PROVE  /\ SubSeq(s, n + 1, Len(s)) \in Seq(S)
           /\ Len(SubSeq(s, n + 1, Len(s))) = Len(s) - n
           /\ IsInjective(SubSeq(s, n + 1, Len(s)))
           /\ Range(SubSeq(s, n + 1, Len(s))) = Range(s) \ {s[i] : i \in 1..n}
<1> DEFINE t == SubSeq(s, n + 1, Len(s))
<1>1. t \in Seq(S) /\ Len(t) = Len(s) - n /\ DOMAIN t = 1..(Len(s) - n) /\ DOMAIN s = 1..Len(s)
  OBVIOUS
<1>2. \A i \in 1..(Len(s) - n) : t[i] = s[i + n]
  <2>1. n + 1 \in Int /\ Len(s) \in Int
    OBVIOUS
  <2>3. \A j \in (n + 1)..Len(s) : s[j] \in S
    OBVIOUS
  <2>2. \A i \in 1..(Len(s) - (n + 1) + 1) : t[i] = s[(n + 1) + i - 1]
    BY <2>1, <2>3, SubSeqProperties
  <2> QED BY <2>2
<1> HIDE DEF t
<1> USE Len(s) \in Nat, n \in Nat
<1>3. IsInjective(t)
  <2> SUFFICES ASSUME NEW a \in 1..(Len(s) - n), NEW b \in 1..(Len(s) - n), t[a] = t[b]
               PROVE  a = b
    BY <1>1 DEF IsInjective
  <2>1. a + n \in 1..Len(s) /\ b + n \in 1..Len(s) /\ s[a + n] = s[b + n]
    BY <1>2
  <2>2. a + n = b + n
    BY <1>1, <2>1 DEF IsInjective
  <2> QED BY <2>2
<1>4. Range(t) = Range(s) \ {s[i] : i \in 1..n}
  <2>1. ASSUME NEW y \in Range(t) PROVE y \in Range(s) \ {s[i] : i \in 1..n}
    <3>1. PICK i \in 1..(Len(s) - n) : y = s[i + n]
      BY <1>1, <1>2 DEF Range
    <3>2. y \in Range(s)
      BY <1>1, <3>1 DEF Range
    <3>3. ASSUME NEW j \in 1..n, s[j] = y PROVE FALSE
      <4>1. j \in DOMAIN s /\ i + n \in DOMAIN s /\ s[j] = s[i + n]
        BY <1>1, <3>1, <3>3
      <4>2. j = i + n
        BY <4>1 DEF IsInjective
      <4> QED BY <4>2
    <3> QED BY <3>2, <3>3
  <2>2. ASSUME NEW y \in Range(s) \ {s[i] : i \in 1..n} PROVE y \in Range(t)
    <3>1. PICK j \in 1..Len(s) : y = s[j]
      BY <1>1 DEF Range
    <3>2. j \notin 1..n
      BY <3>1
    <3>3. j - n \in 1..(Len(s) - n) /\ t[j - n] = y
      BY <3>1, <3>2, <1>2
    <3> QED BY <1>1, <3>3 DEF Range
  <2> QED BY <2>1, <2>2
<1> QED BY <1>1, <1>3, <1>4 DEF t

LEMMA RemoveElements ==
    ASSUME NEW S, NEW s \in Seq(S), NEW k \in DOMAIN s
    PROVE  /\ RemoveAt(s, k) \in Seq(S)
           /\ Len(RemoveAt(s, k)) = Len(s) - 1
           /\ DOMAIN RemoveAt(s, k) = 1..(Len(s) - 1)
           /\ \A i \in 1..(Len(s) - 1) : RemoveAt(s, k)[i] = IF i < k THEN s[i] ELSE s[i + 1]
<1> DEFINE t == RemoveAt(s, k)
<1>1. k \in 1..Len(s) /\ DOMAIN s = 1..Len(s)
  OBVIOUS
<1>2. /\ SubSeq(s, 1, k - 1) \in Seq(S) /\ Len(SubSeq(s, 1, k - 1)) = k - 1
      /\ \A i \in 1..(k - 1) : SubSeq(s, 1, k - 1)[i] = s[i]
  BY <1>1
<1>3. /\ SubSeq(s, k + 1, Len(s)) \in Seq(S) /\ Len(SubSeq(s, k + 1, Len(s))) = Len(s) - k
      /\ \A i \in 1..(Len(s) - k) : SubSeq(s, k + 1, Len(s))[i] = s[i + k]
  BY <1>1
<1> DEFINE front == SubSeq(s, 1, k - 1)
           back == SubSeq(s, k + 1, Len(s))
<1>a. t = front \o back
  BY DEF RemoveAt
<1>b. /\ front \in Seq(S) /\ Len(front) = k - 1
      /\ back \in Seq(S) /\ Len(back) = Len(s) - k
  BY <1>2, <1>3
<1> HIDE DEF t, front, back
<1>c. /\ t \in Seq(S) /\ Len(t) = (k - 1) + (Len(s) - k)
      /\ \A i \in 1..((k - 1) + (Len(s) - k)) :
            t[i] = IF i <= k - 1 THEN front[i] ELSE back[i - (k - 1)]
  <2>1. /\ front \o back \in Seq(S) /\ Len(front \o back) = Len(front) + Len(back)
        /\ \A i \in 1..(Len(front) + Len(back)) :
              (front \o back)[i] = IF i <= Len(front) THEN front[i] ELSE back[i - Len(front)]
    BY <1>b, ConcatProperties
  <2> QED BY <1>a, <1>b, <2>1
<1>4. t \in Seq(S) /\ Len(t) = Len(s) - 1 /\ DOMAIN t = 1..(Len(s) - 1)
  BY <1>1, <1>c
<1>5. ASSUME NEW i \in 1..(Len(s) - 1)
      PROVE  t[i] = IF i < k THEN s[i] ELSE s[i + 1]
  <2>1. t[i] = IF i <= k - 1 THEN front[i] ELSE back[i - (k - 1)]
    <3>1. Len(s) \in Nat /\ k \in Nat
      BY <1>1
    <3>2. i \in 1..((k - 1) + (Len(s) - k))
      BY <3>1
    <3> QED BY <1>c, <3>2
  <2>2. CASE i < k
    BY <1>1, <1>2, <2>1, <2>2 DEF front
  <2>3. CASE i >= k
    <3>1. i - (k - 1) \in 1..(Len(s) - k) /\ i - (k - 1) + k = i + 1
      BY <1>1, <2>3
    <3>2. back[i - (k - 1)] = s[i + 1]
      BY <1>3, <3>1 DEF back
    <3> QED BY <1>1, <2>1, <2>3, <3>2
  <2> QED BY <1>1, <2>2, <2>3
<1> QED BY <1>4, <1>5 DEF t

LEMMA RemoveDistinct ==
    ASSUME NEW S, NEW s \in Seq(S), IsInjective(s), NEW k \in DOMAIN s
    PROVE  /\ RemoveAt(s, k) \in Seq(S)
           /\ Len(RemoveAt(s, k)) = Len(s) - 1
           /\ IsInjective(RemoveAt(s, k))
           /\ Range(RemoveAt(s, k)) = Range(s) \ {s[k]}
<1> DEFINE t == RemoveAt(s, k)
<1>1. k \in 1..Len(s) /\ DOMAIN s = 1..Len(s)
  OBVIOUS
<1>2. t \in Seq(S) /\ Len(t) = Len(s) - 1 /\ DOMAIN t = 1..(Len(s) - 1)
  BY RemoveElements
<1>3. \A i \in 1..(Len(s) - 1) : t[i] = IF i < k THEN s[i] ELSE s[i + 1]
  BY RemoveElements
<1> HIDE DEF t
<1>4. IsInjective(t)
  <2> SUFFICES ASSUME NEW a \in 1..(Len(s) - 1), NEW b \in 1..(Len(s) - 1), t[a] = t[b]
               PROVE  a = b
    BY <1>2 DEF IsInjective
  <2> DEFINE pos(i) == IF i < k THEN i ELSE i + 1
  <2>1. pos(a) \in DOMAIN s /\ pos(b) \in DOMAIN s /\ s[pos(a)] = s[pos(b)]
    BY <1>1, <1>3
  <2>2. pos(a) = pos(b)
    BY <2>1 DEF IsInjective
  <2> QED BY <1>1, <2>2
<1>5. Range(t) = Range(s) \ {s[k]}
  <2>1. ASSUME NEW y \in Range(t) PROVE y \in Range(s) \ {s[k]}
    <3>1. PICK i \in 1..(Len(s) - 1) : y = IF i < k THEN s[i] ELSE s[i + 1]
      BY <1>2, <1>3 DEF Range
    <3>2. PICK j \in 1..Len(s) : y = s[j] /\ j # k
      BY <3>1, <1>1
    <3> QED BY <1>1, <3>2 DEF Range, IsInjective
  <2>2. ASSUME NEW y \in Range(s) \ {s[k]} PROVE y \in Range(t)
    <3>1. PICK j \in 1..Len(s) : y = s[j] /\ j # k
      BY <1>1 DEF Range
    <3>2. CASE j < k
      BY <1>1, <1>2, <1>3, <3>1, <3>2 DEF Range
    <3>3. CASE j > k
      <4>1. j - 1 \in 1..(Len(s) - 1) /\ t[j - 1] = y
        BY <1>1, <1>3, <3>1, <3>3
      <4> QED BY <1>2, <4>1 DEF Range
    <3> QED BY <3>1, <3>2, <3>3
  <2> QED BY <2>1, <2>2
<1> QED BY <1>2, <1>4, <1>5 DEF t

-----------------------------------------------------------------------------
(* The table *)

TableType == pending \in [Ids -> Calls \union {NoCall}] /\ order \in Seq(Ids)

LEMMA RememberKeepsTable ==
    ASSUME TableType, TableAgrees, NEW id \in Ids, NEW call \in Calls,
           rememberPending(id, call)
    PROVE  TableType' /\ TableAgrees'
<1> DEFINE queued == IF id \in Outstanding THEN order ELSE Append(order, id)
           excess == IF Len(queued) > MaxPending THEN Len(queued) - MaxPending ELSE 0
           evicted == {queued[i] : i \in 1..excess}
<1>1. /\ queued \in Seq(Ids) /\ IsInjective(queued)
      /\ Range(queued) = Outstanding \union {id}
  <2>1. CASE id \in Outstanding
    BY <2>1 DEF TableType, TableAgrees
  <2>2. CASE id \notin Outstanding
    BY <2>2, AppendDistinct DEF TableType, TableAgrees
  <2> QED BY <2>1, <2>2
<1>2. order' = SubSeq(queued, excess + 1, Len(queued))
  BY DEF rememberPending
<1>3. pending' = [i \in Ids |-> IF i \in evicted THEN NoCall ELSE IF i = id THEN call ELSE pending[i]]
  BY DEF rememberPending
<1> HIDE DEF queued
<1>4. MaxPending \in Nat /\ Len(queued) \in Nat /\ NoCall \notin Calls
  BY <1>1, InterceptorAssumption
<1>5. excess \in 0..Len(queued) /\ Len(queued) - excess <= MaxPending
  BY <1>4
<1> HIDE DEF excess
<1>6. /\ order' \in Seq(Ids) /\ Len(order') = Len(queued) - excess
      /\ IsInjective(order') /\ Range(order') = Range(queued) \ evicted
  BY <1>1, <1>2, <1>5, DropDistinct
<1> HIDE DEF evicted
<1>7. Outstanding' = (Outstanding \union {id}) \ evicted
  BY <1>3, <1>4 DEF Outstanding
<1>8. pending' \in [Ids -> Calls \union {NoCall}]
  BY <1>3 DEF TableType
<1> QED BY <1>1, <1>5, <1>6, <1>7, <1>8 DEF TableType, TableAgrees

LEMMA TakeKeepsTable ==
    ASSUME TableType, TableAgrees, NEW id \in Ids, takePending(id)
    PROVE  TableType' /\ TableAgrees'
<1>1. PICK k \in DOMAIN order : order[k] = id /\ order' = RemoveAt(order, k)
  BY DEF takePending
<1>2. /\ order' \in Seq(Ids) /\ Len(order') = Len(order) - 1
      /\ IsInjective(order') /\ Range(order') = Range(order) \ {id}
  BY <1>1, RemoveDistinct DEF TableType, TableAgrees
<1>3. pending' = [pending EXCEPT ![id] = NoCall]
  BY DEF takePending
<1>4. pending' \in [Ids -> Calls \union {NoCall}] /\ Outstanding' = Outstanding \ {id}
  BY <1>3 DEF TableType, Outstanding
<1>5. MaxPending \in Nat /\ Len(order) \in Nat
  BY InterceptorAssumption DEF TableType
<1> QED BY <1>2, <1>4, <1>5 DEF TableType, TableAgrees

-----------------------------------------------------------------------------
(* The specification *)

IInv == TypeOK /\ TableAgrees

LEMMA InitIsInv == Init => IInv
<1> SUFFICES ASSUME Init PROVE IInv
  OBVIOUS
<1>1. TypeOK
  BY DEF Init, TypeOK
<1>2. Outstanding = {} /\ order = <<>> /\ MaxPending \in Nat
  BY InterceptorAssumption DEF Init, Outstanding
<1> QED BY <1>1, <1>2 DEF IInv, TableAgrees, Range, IsInjective

LEMMA ParseOneKeepsInv ==
    ASSUME IInv, NEW g \in Goroutines, parseOne(g)
    PROVE  IInv'
<1>1. PICK m \in Messages :
        /\ Reading(g, m)
        /\ \/ Request(g, m) \/ Notification(g, m)
           \/ ReplyToKnown(g, m) \/ ReplyToUnknown(g, m) \/ Junk(g, m)
  BY DEF parseOne
<1> DEFINE Named == Calls \union {NoCall}
           Event == [message : Messages, call : Named]
           Seen == [kind : {"request", "reply"}, id : Ids, call : Named]
<1>2. /\ m.kind \in {"request", "reply", "junk"} /\ m.id \in Ids \union {NoId}
      /\ m.call \in Named /\ (m.kind = "request" => m.call \in Calls)
  BY DEF Messages
<1>3. parsing' \subseteq Goroutines /\ todo' \in [Goroutines -> Seq(Messages)]
  BY <1>1 DEF Reading, IInv, TypeOK
<1>4. TableType /\ TableAgrees
  BY DEF IInv, TypeOK, TableType
<1>5. ASSUME NEW call \in Named, Emit(g, m, call) PROVE events' \in [Goroutines -> Seq(Event)]
  <2>1. events \in [Goroutines -> Seq(Event)] /\ [message |-> m, call |-> call] \in Event
    BY DEF IInv, TypeOK
  <2> HIDE DEF Event
  <2>2. Append(events[g], [message |-> m, call |-> call]) \in Seq(Event)
    BY <2>1, AppendProperties
  <2> QED BY <1>5, <2>1, <2>2 DEF Emit
<1>6. ASSUME NEW call \in Named, Observe(m, call), m.id \in Ids, m.kind # "junk"
      PROVE  traffic' \in Seq(Seen)
  <2>1. [kind |-> m.kind, id |-> m.id, call |-> call] \in Seen /\ traffic \in Seq(Seen)
    BY <1>2, <1>6 DEF IInv, TypeOK
  <2> QED BY <1>6, <2>1 DEF Observe
<1>7. ASSUME UNCHANGED <<pending, order>> PROVE TableType' /\ TableAgrees'
  BY <1>4, <1>7 DEF TableType, TableAgrees, Outstanding
<1>8. events \in [Goroutines -> Seq(Event)] /\ traffic \in Seq(Seen)
  BY DEF IInv, TypeOK
<1> SUFFICES TableType' /\ TableAgrees' /\ events' \in [Goroutines -> Seq(Event)] /\ traffic' \in Seq(Seen)
  BY <1>3 DEF IInv, TypeOK, TableType
<1> HIDE DEF Event, Seen
<1>9. CASE Request(g, m)
  <2>1. m.id \in Ids /\ m.call \in Calls /\ m.kind # "junk"
    BY <1>2, <1>9 DEF Request
  <2> QED BY <1>4, <1>5, <1>6, <1>9, <2>1, RememberKeepsTable DEF Request
<1>10. CASE Notification(g, m)
  BY <1>2, <1>5, <1>7, <1>8, <1>10 DEF Notification
<1>11. CASE ReplyToKnown(g, m)
  <2>1. m.id \in Ids /\ pending[m.id] \in Named /\ m.kind # "junk"
    BY <1>4, <1>11 DEF ReplyToKnown, Outstanding, TableType
  <2> QED BY <1>4, <1>5, <1>6, <1>11, <2>1, TakeKeepsTable DEF ReplyToKnown
<1>12. CASE ReplyToUnknown(g, m)
  <2>1. m.id # NoId => Observe(m, NoCall) /\ m.id \in Ids /\ m.kind # "junk"
    BY <1>2, <1>12 DEF ReplyToUnknown, Observe
  <2>2. m.id = NoId => traffic' = traffic
    BY <1>12 DEF ReplyToUnknown
  <2>3. traffic' \in Seq(Seen)
    BY <1>6, <1>8, <2>1, <2>2
  <2> QED BY <1>5, <1>7, <1>12, <2>3 DEF ReplyToUnknown
<1>13. CASE Junk(g, m)
  BY <1>7, <1>8, <1>13 DEF Junk
<1> QED BY <1>1, <1>9, <1>10, <1>11, <1>12, <1>13

LEMMA Invariance == Spec => []IInv
<1>1. Init => IInv
  BY InitIsInv
<1>2. IInv /\ [Next]_vars => IInv'
  <2> SUFFICES ASSUME IInv, [Next]_vars PROVE IInv'
    OBVIOUS
  <2>1. ASSUME NEW g \in Goroutines, NEW payload \in Payloads, ParseBegin(g, payload)
        PROVE  IInv'
    <3>1. payload \in Seq(Messages)
      BY InterceptorAssumption
    <3>2. <<>> \in Seq([message : Messages, call : Calls \union {NoCall}])
      OBVIOUS
    <3>3. todo' \in [Goroutines -> Seq(Messages)]
      BY <2>1, <3>1 DEF ParseBegin, IInv, TypeOK
    <3>4. events' \in [Goroutines -> Seq([message : Messages, call : Calls \union {NoCall}])]
      BY <2>1, <3>2 DEF ParseBegin, IInv, TypeOK
    <3>5. TableAgrees' /\ UNCHANGED <<pending, order, traffic>> /\ parsing' \subseteq Goroutines
      BY <2>1 DEF ParseBegin, IInv, TypeOK, TableAgrees, Outstanding
    <3> QED BY <3>3, <3>4, <3>5 DEF IInv, TypeOK
  <2>2. ASSUME NEW g \in Goroutines, parseOne(g) PROVE IInv'
    BY <2>2, ParseOneKeepsInv
  <2>3. ASSUME NEW g \in Goroutines, ParseEnd(g) PROVE IInv'
    BY <2>3 DEF ParseEnd, IInv, TypeOK, TableAgrees, Outstanding
  <2>4. CASE UNCHANGED vars
    BY <2>4 DEF vars, IInv, TypeOK, TableAgrees, Outstanding
  <2> QED BY <2>1, <2>2, <2>3, <2>4 DEF Next
<1> QED BY <1>1, <1>2, PTL DEF Spec

(* Every variable keeps its type: no null id gets into the table, and what *)
(* Parse returns are events of messages that could be read.                *)
THEOREM TypeCorrect == Spec => []TypeOK
BY Invariance, PTL DEF IInv

(* The map and the list of the table have the same keys, each once, and no *)
(* more than MaxPending, however the goroutines in Parse interleave.       *)
THEOREM TableStaysConsistent == Spec => []TableAgrees
BY Invariance, PTL DEF IInv

-----------------------------------------------------------------------------
(* Which request a reply is named after *)

(* A request with this id that the table remembers is the latest one.      *)
LatestIsPending ==
    \A id \in Outstanding : \E i \in DOMAIN traffic :
        /\ traffic[i].kind = "request" /\ traffic[i].id = id /\ traffic[i].call = pending[id]
        /\ \A j \in (i+1)..Len(traffic) : traffic[j].id # id

(* The id was first asked for at i, and has had no reply since.            *)
Waiting(id, i) ==
    /\ traffic[i].id = id
    /\ \A j \in i..Len(traffic) : traffic[j].id = id => traffic[j].kind = "request"
    /\ \A j \in 1..(i-1) : traffic[j].id = id =>
          \E k \in j..(i-1) : traffic[k].id = id /\ traffic[k].kind = "reply"

OthersAsked(id, i) ==
    {traffic[k].id : k \in {k \in i..Len(traffic) : traffic[k].kind = "request"}} \ {id}

Before(s, x, y) == \E p, q \in DOMAIN s : p < q /\ s[p] = x /\ s[q] = y

(* Who waits is remembered, and only ids asked for meanwhile are younger.  *)
StillRemembered(id, i) ==
    id \in Outstanding /\ \A y \in Ids : Before(order, id, y) => y \in OthersAsked(id, i)

ForgottenUnderPressure ==
    \A id \in Ids, i \in DOMAIN traffic :
        Waiting(id, i) => StillRemembered(id, i) \/ Cardinality(OthersAsked(id, i)) >= MaxPending

Correlated == LatestIsPending /\ ForgottenUnderPressure /\ RepliesAreNamedRight

Seen == [kind : {"request", "reply"}, id : Ids, call : Calls \union {NoCall}]

-----------------------------------------------------------------------------
(* What is older in a list, after the operations of the table. *)

LEMMA BeforeInAppend ==
    ASSUME NEW S, NEW s \in Seq(S), NEW e \in S, NEW x, NEW y, Before(Append(s, e), x, y)
    PROVE  Before(s, x, y) \/ (y = e /\ x \in Range(s))
<1> DEFINE t == Append(s, e)
<1>1. /\ Len(s) \in Nat /\ DOMAIN s = 1..Len(s) /\ DOMAIN t = 1..(Len(s) + 1)
      /\ \A i \in 1..Len(s) : t[i] = s[i]
      /\ t[Len(s) + 1] = e
  OBVIOUS
<1> HIDE DEF t
<1>2. PICK p, q \in DOMAIN t : p < q /\ t[p] = x /\ t[q] = y
  BY DEF t, Before
<1>3. p \in 1..Len(s) /\ t[p] = s[p]
  BY <1>1, <1>2
<1>4. CASE q \in 1..Len(s)
  BY <1>1, <1>2, <1>3, <1>4 DEF Before
<1>5. CASE q = Len(s) + 1
  BY <1>1, <1>2, <1>3, <1>5 DEF Range
<1> QED BY <1>1, <1>4, <1>5

LEMMA BeforeInTail ==
    ASSUME NEW S, NEW s \in Seq(S), s # <<>>, NEW x, NEW y, Before(SubSeq(s, 2, Len(s)), x, y)
    PROVE  Before(s, x, y)
<1> DEFINE t == SubSeq(s, 2, Len(s))
<1>1. Len(s) \in Nat \ {0} /\ DOMAIN s = 1..Len(s)
  BY EmptySeq, LenProperties
<1>2. DOMAIN t = 1..(Len(s) - 1) /\ \A i \in 1..(Len(s) - 1) : t[i] = s[i + 1]
  BY <1>1
<1> HIDE DEF t
<1>3. PICK p, q \in DOMAIN t : p < q /\ t[p] = x /\ t[q] = y
  BY DEF t, Before
<1>4. p + 1 \in DOMAIN s /\ q + 1 \in DOMAIN s /\ p + 1 < q + 1 /\ s[p + 1] = x /\ s[q + 1] = y
  BY <1>1, <1>2, <1>3
<1> QED BY <1>4 DEF Before

LEMMA BeforeInRemoval ==
    ASSUME NEW S, NEW s \in Seq(S), NEW k \in DOMAIN s, NEW x, NEW y, Before(RemoveAt(s, k), x, y)
    PROVE  Before(s, x, y)
<1> DEFINE t == RemoveAt(s, k)
<1>1. k \in 1..Len(s) /\ DOMAIN s = 1..Len(s) /\ Len(s) \in Nat
  BY LenProperties
<1>2. /\ DOMAIN t = 1..(Len(s) - 1)
      /\ \A i \in 1..(Len(s) - 1) : t[i] = IF i < k THEN s[i] ELSE s[i + 1]
  BY RemoveElements
<1> HIDE DEF t
<1>3. PICK p, q \in DOMAIN t : p < q /\ t[p] = x /\ t[q] = y
  BY DEF t, Before
<1> DEFINE pos(i) == IF i < k THEN i ELSE i + 1
<1>4. pos(p) \in DOMAIN s /\ pos(q) \in DOMAIN s /\ pos(p) < pos(q) /\ s[pos(p)] = x /\ s[pos(q)] = y
  BY <1>1, <1>2, <1>3
<1> HIDE DEF pos
<1> QED BY <1>4 DEF Before

-----------------------------------------------------------------------------
(* A message with an id is added to the traffic. *)

LEMMA TrafficGrows ==
    ASSUME traffic \in Seq(Seen), NEW r \in Seen, traffic' = Append(traffic, r)
    PROVE  /\ Len(traffic) \in Nat /\ Len(traffic)' = Len(traffic) + 1
           /\ DOMAIN traffic = 1..Len(traffic) /\ DOMAIN traffic' = 1..(Len(traffic) + 1)
           /\ \A n \in 1..Len(traffic) : traffic'[n] = traffic[n] /\ traffic[n] \in Seen
           /\ traffic'[Len(traffic) + 1] = r
  BY LenProperties, AppendProperties

LEMMA AskedIsFinite ==
    ASSUME traffic \in Seq(Seen), NEW id, NEW i \in Nat \ {0}
    PROVE  IsFiniteSet(OthersAsked(id, i)) /\ Cardinality(OthersAsked(id, i)) \in Nat
<1> DEFINE R == Range(traffic)
           I == {r.id : r \in R}
           f == [n \in 1..Len(traffic) |-> traffic[n].id]
           T == {traffic[n].id : n \in 1..Len(traffic)}
<1>1. Len(traffic) \in Nat
  BY LenProperties
<1>2. IsFiniteSet(1..Len(traffic))
  BY <1>1, FS_Interval
<1>3. f \in Surjection(1..Len(traffic), T)
  BY DEF Surjection
<1> HIDE DEF f
<1>4. IsFiniteSet(T)
  <2> HIDE DEF T
  <2> QED BY <1>2, <1>3, FS_Surjection
<1>5. OthersAsked(id, i) \in SUBSET T
  BY <1>1 DEF OthersAsked
<1>6. IsFiniteSet(OthersAsked(id, i))
  <2> HIDE DEF T
  <2> QED BY <1>4, <1>5, FS_Subset
<1> QED BY <1>6, FS_CardinalityType

(* Who waits afterwards at an earlier place has waited before. *)
LEMMA WaitedBefore ==
    ASSUME traffic \in Seq(Seen), NEW r \in Seen, traffic' = Append(traffic, r),
           NEW id \in Ids, NEW i \in 1..Len(traffic), Waiting(id, i)'
    PROVE  /\ Waiting(id, i)
           /\ r.id = id => r.kind = "request"
           /\ OthersAsked(id, i)' =
                OthersAsked(id, i) \union (IF r.kind = "request" /\ r.id # id THEN {r.id} ELSE {})
<1>1. /\ Len(traffic) \in Nat /\ Len(traffic)' = Len(traffic) + 1
      /\ \A n \in 1..Len(traffic) : traffic'[n] = traffic[n]
      /\ traffic'[Len(traffic) + 1] = r
  BY TrafficGrows
<1>2. i..(Len(traffic) + 1) = (i..Len(traffic)) \union {Len(traffic) + 1} /\ i..Len(traffic) \subseteq 1..Len(traffic)
  BY <1>1
<1>3. traffic[i].id = id
  BY <1>1 DEF Waiting
<1>4. \A j \in i..Len(traffic) : traffic[j].id = id => traffic[j].kind = "request"
  BY <1>1, <1>2 DEF Waiting
<1>5. r.id = id => r.kind = "request"
  BY <1>1, <1>2 DEF Waiting
<1>6. ASSUME NEW j \in 1..(i-1), traffic[j].id = id
      PROVE  \E k \in j..(i-1) : traffic[k].id = id /\ traffic[k].kind = "reply"
  <2>1. j \in 1..Len(traffic) /\ \A k \in j..(i-1) : k \in 1..Len(traffic)
    BY <1>1
  <2>2. traffic'[j].id = id
    BY <1>1, <1>6, <2>1
  <2>3. PICK k \in j..(i-1) : traffic'[k].id = id /\ traffic'[k].kind = "reply"
    BY <2>2 DEF Waiting
  <2> QED BY <1>1, <2>1, <2>3
<1>7. OthersAsked(id, i)' =
        OthersAsked(id, i) \union (IF r.kind = "request" /\ r.id # id THEN {r.id} ELSE {})
  <2> DEFINE old == {k \in i..Len(traffic) : traffic[k].kind = "request"}
             new == {k \in i..Len(traffic)' : traffic'[k].kind = "request"}
  <2>1. new = old \union (IF r.kind = "request" THEN {Len(traffic) + 1} ELSE {})
    BY <1>1, <1>2
  <2>2. \A k \in old : traffic'[k] = traffic[k]
    BY <1>1, <1>2
  <2>3. OthersAsked(id, i)' = {traffic'[k].id : k \in new} \ {id}
    BY DEF OthersAsked
  <2>4. OthersAsked(id, i) = {traffic[k].id : k \in old} \ {id}
    BY DEF OthersAsked
  <2> DEFINE names == {traffic[k].id : k \in old}
             namesThen == {traffic'[k].id : k \in new}
             last == Len(traffic) + 1
  <2>5. new = old \union (IF r.kind = "request" THEN {last} ELSE {}) /\ traffic'[last] = r
    BY <1>1, <2>1
  <2> HIDE DEF old, new, last
  <2>6. namesThen = names \union (IF r.kind = "request" THEN {r.id} ELSE {})
    <3>1. CASE r.kind = "request"
      <4>1. namesThen \subseteq names \union {r.id}
        BY <2>2, <2>5, <3>1
      <4>2. r.id \in namesThen
        BY <2>5, <3>1
      <4>3. names \subseteq namesThen
        BY <2>2, <2>5
      <4> QED BY <3>1, <4>1, <4>2, <4>3
    <3>2. CASE r.kind # "request"
      BY <2>2, <2>5, <3>2
    <3> QED BY <3>1, <3>2
  <2>7. OthersAsked(id, i)' = namesThen \ {id} /\ OthersAsked(id, i) = names \ {id}
    BY <2>3, <2>4
  <2> HIDE DEF names, namesThen
  <2> QED BY <2>6, <2>7
<1> QED BY <1>3, <1>4, <1>5, <1>6, <1>7 DEF Waiting

(* Who waits from the new place on was not remembered before. *)
LEMMA FirstAsked ==
    ASSUME traffic \in Seq(Seen), NEW r \in Seen, traffic' = Append(traffic, r), LatestIsPending,
           NEW id \in Ids, NEW n, n = Len(traffic) + 1, Waiting(id, n)'
    PROVE  r.id = id /\ r.kind = "request" /\ id \notin Outstanding
<1>1. /\ Len(traffic) \in Nat /\ Len(traffic)' = Len(traffic) + 1
      /\ \A j \in 1..Len(traffic) : traffic'[j] = traffic[j]
      /\ traffic'[n] = r
      /\ DOMAIN traffic = 1..Len(traffic)
  BY TrafficGrows
<1>2. /\ traffic'[n].id = id
      /\ \A j \in n..n : traffic'[j].id = id => traffic'[j].kind = "request"
      /\ \A j \in 1..(n-1) : traffic'[j].id = id =>
            \E k \in j..(n-1) : traffic'[k].id = id /\ traffic'[k].kind = "reply"
  BY <1>1 DEF Waiting
<1>3. n \in n..n /\ n - 1 = Len(traffic)
  BY <1>1
<1>4. ASSUME id \in Outstanding PROVE FALSE
  <2>1. PICK i \in 1..Len(traffic) :
          /\ traffic[i].kind = "request" /\ traffic[i].id = id
          /\ \A j \in (i+1)..Len(traffic) : traffic[j].id # id
    BY <1>1, <1>4 DEF LatestIsPending
  <2>2. PICK k \in i..Len(traffic) : traffic'[k].id = id /\ traffic'[k].kind = "reply"
    BY <1>1, <1>2, <1>3, <2>1
  <2>3. k \in 1..Len(traffic) /\ traffic[k].id = id /\ traffic[k].kind = "reply"
    BY <1>1, <2>2
  <2>4. k = i \/ k \in (i+1)..Len(traffic)
    BY <1>1, <2>2
  <2> QED BY <2>1, <2>3, <2>4
<1> QED BY <1>1, <1>2, <1>3, <1>4

-----------------------------------------------------------------------------
(* A request is remembered: it is known, there is room, or the oldest goes. *)

Known(id, call) ==
    /\ id \in Outstanding /\ order' = order
    /\ pending' = [pending EXCEPT ![id] = call]

Room(id, call) ==
    /\ id \notin Outstanding /\ order' = Append(order, id)
    /\ pending' = [pending EXCEPT ![id] = call]

Evicts(id, call) ==
    /\ id \notin Outstanding /\ Len(order) = MaxPending
    /\ order' = SubSeq(Append(order, id), 2, Len(Append(order, id)))
    /\ pending' = [i \in Ids |-> IF i = order[1] THEN NoCall ELSE IF i = id THEN call ELSE pending[i]]

LEMMA RememberCases ==
    ASSUME TableType, TableAgrees, NEW id \in Ids, NEW call \in Calls, rememberPending(id, call)
    PROVE  Known(id, call) \/ Room(id, call) \/ Evicts(id, call)
<1> DEFINE queued == IF id \in Outstanding THEN order ELSE Append(order, id)
           excess == IF Len(queued) > MaxPending THEN Len(queued) - MaxPending ELSE 0
           evicted == {queued[i] : i \in 1..excess}
<1>1. /\ order' = SubSeq(queued, excess + 1, Len(queued))
      /\ pending' = [i \in Ids |-> IF i \in evicted THEN NoCall ELSE IF i = id THEN call ELSE pending[i]]
  BY DEF rememberPending
<1>2. /\ MaxPending \in Nat \ {0} /\ Len(order) \in Nat /\ Len(order) <= MaxPending
      /\ order \in Seq(Ids) /\ pending \in [Ids -> Calls \union {NoCall}]
  BY InterceptorAssumption, LenProperties DEF TableType, TableAgrees
<1>3. queued \in Seq(Ids) /\ Len(queued) \in Nat
  BY <1>2, AppendProperties, LenProperties
<1>4. CASE excess = 0
  <2>1. order' = queued
    BY <1>1, <1>3, <1>4, SubSeqFull
  <2>2. evicted = {}
    BY <1>4
  <2> HIDE DEF evicted
  <2>3. pending' = [pending EXCEPT ![id] = call]
    BY <1>1, <1>2, <2>2
  <2> QED BY <2>1, <2>3 DEF Known, Room
<1>5. CASE excess # 0
  <2>1. id \notin Outstanding /\ Len(queued) = Len(order) + 1 /\ queued = Append(order, id)
    BY <1>2, <1>5, AppendProperties
  <2>2. excess = 1 /\ Len(order) = MaxPending
    BY <1>2, <1>5, <2>1
  <2>3. queued[1] = order[1]
    BY <1>2, <2>1, <2>2, AppendProperties
  <2>4. evicted = {order[1]}
    BY <2>2, <2>3
  <2> HIDE DEF queued, excess, evicted
  <2>5. order' = SubSeq(Append(order, id), 2, Len(Append(order, id)))
    BY <1>1, <2>1, <2>2
  <2>6. pending' = [i \in Ids |-> IF i = order[1] THEN NoCall ELSE IF i = id THEN call ELSE pending[i]]
    BY <1>1, <2>4
  <2> QED BY <2>1, <2>2, <2>5, <2>6 DEF Evicts
<1> QED BY <1>4, <1>5

(* All that are younger than the one that goes, and the new one, make up   *)
(* the pressure.                                                           *)
LEMMA PressureCounts ==
    ASSUME order \in Seq(Ids), IsInjective(order), Len(order) = MaxPending,
           NEW o, o \notin Range(order), NEW set, IsFiniteSet(set), o \in set,
           \A y \in Ids : Before(order, order[1], y) => y \in set
    PROVE  Cardinality(set) >= MaxPending
<1>1. MaxPending \in Nat \ {0} /\ DOMAIN order = 1..MaxPending
  BY InterceptorAssumption, LenProperties
<1> DEFINE f == [k \in 1..MaxPending |-> IF k = MaxPending THEN o ELSE order[k + 1]]
<1>2. \A k \in 1..MaxPending : k # MaxPending => k + 1 \in DOMAIN order /\ 1 < k + 1 /\ order[k + 1] \in Ids
  BY <1>1, ElementOfSeq
<1>3. f \in [1..MaxPending -> set]
  <2> SUFFICES ASSUME NEW k \in 1..MaxPending, k # MaxPending PROVE order[k + 1] \in set
    OBVIOUS
  <2>1. Before(order, order[1], order[k + 1])
    BY <1>1, <1>2 DEF Before
  <2> QED BY <1>2, <2>1
<1>4. \A k \in DOMAIN order : order[k] # o
  BY DEF Range
<1>5. IsInjective(f)
  <2> SUFFICES ASSUME NEW a \in 1..MaxPending, NEW b \in 1..MaxPending, f[a] = f[b] PROVE a = b
    BY DEF IsInjective
  <2>1. CASE a = MaxPending \/ b = MaxPending
    BY <1>2, <1>4, <2>1
  <2>2. CASE a # MaxPending /\ b # MaxPending
    <3>1. a + 1 = b + 1
      BY <1>2, <2>2 DEF IsInjective
    <3> QED BY <1>1, <3>1
  <2> QED BY <2>1, <2>2
<1>6. f \in Injection(1..MaxPending, set)
  BY <1>3, <1>5 DEF Injection
<1> HIDE DEF f
<1>7. Cardinality(1..MaxPending) <= Cardinality(set) /\ Cardinality(1..MaxPending) = MaxPending
  BY <1>1, <1>6, FS_Injection, FS_Interval
<1> QED BY <1>7, <1>1, FS_CardinalityType

-----------------------------------------------------------------------------
(* What the table does keeps track of the latest requests. *)

LEMMA RequestIsLatest ==
    ASSUME TypeOK, LatestIsPending, NEW id \in Ids, NEW call \in Calls, rememberPending(id, call),
           traffic' = Append(traffic, [kind |-> "request", id |-> id, call |-> call])
    PROVE  LatestIsPending'
<1> DEFINE r == [kind |-> "request", id |-> id, call |-> call]
<1>1. r \in Seen /\ traffic \in Seq(Seen) /\ traffic' = Append(traffic, r)
  BY DEF Seen, TypeOK
<1>2. r.kind = "request" /\ r.id = id /\ r.call = call
  OBVIOUS
<1> HIDE DEF r
<1>3. /\ Len(traffic) \in Nat /\ Len(traffic)' = Len(traffic) + 1
      /\ DOMAIN traffic = 1..Len(traffic) /\ DOMAIN traffic' = 1..(Len(traffic) + 1)
      /\ \A n \in 1..Len(traffic) : traffic'[n] = traffic[n]
      /\ traffic'[Len(traffic) + 1] = r
  BY <1>1, TrafficGrows
<1>4. \A y \in Ids : pending'[y] \in {NoCall, IF y = id THEN call ELSE pending[y]}
  BY DEF rememberPending
<1> SUFFICES ASSUME NEW y \in Ids, pending'[y] # NoCall
             PROVE  \E i \in DOMAIN traffic' :
                       /\ traffic'[i].kind = "request" /\ traffic'[i].id = y /\ traffic'[i].call = pending'[y]
                       /\ \A j \in (i+1)..Len(traffic)' : traffic'[j].id # y
  BY DEF LatestIsPending, Outstanding
<1>5. CASE y = id
  <2> WITNESS Len(traffic) + 1 \in DOMAIN traffic'
  <2> QED BY <1>2, <1>3, <1>4, <1>5
<1>6. CASE y # id
  <2>1. pending'[y] = pending[y] /\ y \in Outstanding
    BY <1>4, <1>6 DEF Outstanding
  <2>2. PICK i \in 1..Len(traffic) :
          /\ traffic[i].kind = "request" /\ traffic[i].id = y /\ traffic[i].call = pending[y]
          /\ \A j \in (i+1)..Len(traffic) : traffic[j].id # y
    BY <1>3, <2>1 DEF LatestIsPending
  <2>3. \A j \in (i+1)..Len(traffic)' : traffic'[j].id # y
    BY <1>2, <1>3, <1>6, <2>2
  <2> WITNESS i \in DOMAIN traffic'
  <2> QED BY <1>3, <2>1, <2>2, <2>3
<1> QED BY <1>5, <1>6

LEMMA ReplyKeepsLatest ==
    ASSUME TypeOK, LatestIsPending, NEW r \in Seen, traffic' = Append(traffic, r), r.kind = "reply",
           pending' \in [Ids -> Calls \union {NoCall}],
           \A y \in Ids : pending'[y] = IF y = r.id THEN NoCall ELSE pending[y]
    PROVE  LatestIsPending'
<1>1. traffic \in Seq(Seen)
  BY DEF Seen, TypeOK
<1>2. /\ Len(traffic) \in Nat /\ Len(traffic)' = Len(traffic) + 1
      /\ DOMAIN traffic = 1..Len(traffic) /\ DOMAIN traffic' = 1..(Len(traffic) + 1)
      /\ \A n \in 1..Len(traffic) : traffic'[n] = traffic[n]
      /\ traffic'[Len(traffic) + 1] = r
  BY <1>1, TrafficGrows
<1> SUFFICES ASSUME NEW y \in Ids, pending'[y] # NoCall
             PROVE  \E i \in DOMAIN traffic' :
                       /\ traffic'[i].kind = "request" /\ traffic'[i].id = y /\ traffic'[i].call = pending'[y]
                       /\ \A j \in (i+1)..Len(traffic)' : traffic'[j].id # y
  BY DEF LatestIsPending, Outstanding
<1>3. y # r.id /\ pending'[y] = pending[y] /\ y \in Outstanding
  BY DEF Outstanding
<1>4. PICK i \in 1..Len(traffic) :
        /\ traffic[i].kind = "request" /\ traffic[i].id = y /\ traffic[i].call = pending[y]
        /\ \A j \in (i+1)..Len(traffic) : traffic[j].id # y
  BY <1>2, <1>3 DEF LatestIsPending
<1>5. \A j \in (i+1)..Len(traffic)' : traffic'[j].id # y
  BY <1>2, <1>3, <1>4
<1> WITNESS i \in DOMAIN traffic'
<1> QED BY <1>2, <1>3, <1>4, <1>5

-----------------------------------------------------------------------------
(* ... and forgets only under pressure. *)

LEMMA ForgetSplit ==
    ASSUME TypeOK, ForgottenUnderPressure, NEW r \in Seen, traffic' = Append(traffic, r),
           NEW id \in Ids, NEW i \in 1..Len(traffic), Waiting(id, i)'
    PROVE  /\ r.id = id => r.kind = "request"
           /\ OthersAsked(id, i) \subseteq OthersAsked(id, i)'
           /\ r.kind = "request" /\ r.id # id => r.id \in OthersAsked(id, i)'
           /\ IsFiniteSet(OthersAsked(id, i)')
           /\ StillRemembered(id, i) \/ Cardinality(OthersAsked(id, i)') >= MaxPending
<1>1. traffic \in Seq(Seen) /\ traffic' \in Seq(Seen) /\ MaxPending \in Nat
  BY InterceptorAssumption, AppendProperties DEF Seen, TypeOK
<1>2. /\ Waiting(id, i)
      /\ r.id = id => r.kind = "request"
      /\ OthersAsked(id, i)' =
            OthersAsked(id, i) \union (IF r.kind = "request" /\ r.id # id THEN {r.id} ELSE {})
  BY <1>1, WaitedBefore
<1>3. IsFiniteSet(OthersAsked(id, i)) /\ Cardinality(OthersAsked(id, i)) \in Nat
  BY <1>1, AskedIsFinite
<1>4. IsFiniteSet(OthersAsked(id, i)')
  <2> DEFINE old == OthersAsked(id, i)
  <2>1. IsFiniteSet(old) /\ (OthersAsked(id, i)' = old \union {r.id} \/ OthersAsked(id, i)' = old)
    BY <1>2, <1>3
  <2> HIDE DEF old
  <2>2. IsFiniteSet(old \union {r.id})
    BY <2>1, FS_AddElement
  <2> QED BY <2>1, <2>2
<1>5. Cardinality(OthersAsked(id, i)) <= Cardinality(OthersAsked(id, i)') /\ Cardinality(OthersAsked(id, i)') \in Nat
  <2>1. OthersAsked(id, i) \in SUBSET OthersAsked(id, i)'
    BY <1>2
  <2> QED BY <1>4, <2>1, FS_Subset, FS_CardinalityType
<1>6. StillRemembered(id, i) \/ Cardinality(OthersAsked(id, i)) >= MaxPending
  <2>1. i \in DOMAIN traffic
    BY <1>1, LenProperties
  <2> QED BY <1>2, <2>1 DEF ForgottenUnderPressure
<1>7. Cardinality(OthersAsked(id, i)) >= MaxPending => Cardinality(OthersAsked(id, i)') >= MaxPending
  BY <1>1, <1>3, <1>5
<1> QED BY <1>2, <1>4, <1>6, <1>7

LEMMA RequestForgetsUnderPressure ==
    ASSUME TypeOK, TableAgrees, LatestIsPending, ForgottenUnderPressure,
           NEW o \in Ids, NEW call \in Calls, rememberPending(o, call),
           traffic' = Append(traffic, [kind |-> "request", id |-> o, call |-> call])
    PROVE  ForgottenUnderPressure'
<1> DEFINE r == [kind |-> "request", id |-> o, call |-> call]
<1>1. r \in Seen /\ traffic \in Seq(Seen) /\ traffic' = Append(traffic, r)
  BY DEF Seen, TypeOK
<1>2. r.kind = "request" /\ r.id = o
  OBVIOUS
<1> HIDE DEF r
<1>3. /\ order \in Seq(Ids) /\ pending \in [Ids -> Calls \union {NoCall}] /\ TableType
      /\ Range(order) = Outstanding /\ IsInjective(order) /\ NoCall \notin Calls
      /\ DOMAIN traffic' = 1..(Len(traffic) + 1) /\ Len(traffic) \in Nat
      /\ MaxPending \in Nat \ {0} /\ DOMAIN order = 1..Len(order)
  BY <1>1, TrafficGrows, InterceptorAssumption, LenProperties DEF TypeOK, TableAgrees, TableType
<1>4. Known(o, call) \/ Room(o, call) \/ Evicts(o, call)
  BY <1>3, RememberCases
<1>5. ASSUME NEW x, NEW y, Before(order', x, y)
      PROVE  Before(order, x, y) \/ (y = o /\ o \notin Outstanding /\ x \in Outstanding)
  <2>1. CASE Known(o, call)
    BY <1>5, <2>1 DEF Known
  <2>2. CASE Room(o, call)
    BY <1>3, <1>5, <2>2, BeforeInAppend DEF Room
  <2>3. CASE Evicts(o, call)
    <3> DEFINE queued == Append(order, o)
    <3>1. queued \in Seq(Ids) /\ queued # <<>>
      BY <1>3, AppendProperties
    <3>2. Before(SubSeq(queued, 2, Len(queued)), x, y)
      BY <1>5, <2>3 DEF Evicts
    <3>3. Before(queued, x, y)
      <4> HIDE DEF queued
      <4> QED BY <3>1, <3>2, BeforeInTail
    <3> QED BY <1>3, <2>3, <3>3, BeforeInAppend DEF Evicts
  <2> QED BY <1>4, <2>1, <2>2, <2>3
<1> SUFFICES ASSUME NEW id \in Ids, NEW i \in 1..(Len(traffic) + 1), Waiting(id, i)'
             PROVE  StillRemembered(id, i)' \/ Cardinality(OthersAsked(id, i)') >= MaxPending
  BY <1>3 DEF ForgottenUnderPressure
<1>6. CASE i \in 1..Len(traffic)
  <2>1. /\ OthersAsked(id, i) \subseteq OthersAsked(id, i)'
        /\ o # id => o \in OthersAsked(id, i)'
        /\ IsFiniteSet(OthersAsked(id, i)')
        /\ StillRemembered(id, i) \/ Cardinality(OthersAsked(id, i)') >= MaxPending
    BY <1>1, <1>2, <1>6, ForgetSplit
  <2> SUFFICES ASSUME StillRemembered(id, i)
               PROVE  StillRemembered(id, i)' \/ Cardinality(OthersAsked(id, i)') >= MaxPending
    BY <2>1
  <2>2. id \in Outstanding /\ \A y \in Ids : Before(order, id, y) => y \in OthersAsked(id, i)
    BY DEF StillRemembered
  <2>3. CASE Evicts(o, call) /\ id = order[1]
    <3>1. o \notin Range(order) /\ o # id
      BY <1>3, <2>2, <2>3 DEF Evicts
    <3>2. \A y \in Ids : Before(order, order[1], y) => y \in OthersAsked(id, i)'
      BY <2>1, <2>2, <2>3
    <3> QED BY <1>3, <2>1, <2>3, <3>1, <3>2, PressureCounts DEF Evicts
  <2>4. CASE ~(Evicts(o, call) /\ id = order[1])
    <3>1. id \in Outstanding'
      BY <1>3, <1>4, <2>2, <2>4 DEF Known, Room, Evicts, Outstanding
    <3>2. ASSUME NEW y \in Ids, Before(order', id, y) PROVE y \in OthersAsked(id, i)'
      <4>1. CASE Before(order, id, y)
        BY <2>1, <2>2, <4>1
      <4>2. CASE y = o /\ o \notin Outstanding
        BY <2>1, <2>2, <4>2
      <4> QED BY <1>5, <3>2, <4>1, <4>2
    <3> QED BY <3>1, <3>2 DEF StillRemembered
  <2> QED BY <2>3, <2>4
<1>7. CASE i = Len(traffic) + 1
  <2>1. o = id /\ id \notin Outstanding
    BY <1>1, <1>2, <1>7, FirstAsked
  <2>2. id \in Outstanding'
    <3>1. Evicts(o, call) => order[1] \in Outstanding
      BY <1>3 DEF Evicts, Range
    <3> QED BY <1>3, <1>4, <2>1, <3>1 DEF Known, Room, Evicts, Outstanding
  <2>3. ASSUME NEW y \in Ids, Before(order', id, y) PROVE FALSE
    <3>1. Before(order, id, y) => id \in Range(order)
      BY DEF Before, Range
    <3> QED BY <1>3, <1>5, <2>1, <2>3, <3>1
  <2> QED BY <2>2, <2>3 DEF StillRemembered
<1> QED BY <1>3, <1>6, <1>7

LEMMA ReplyForgetsNothing ==
    ASSUME TypeOK, TableAgrees, LatestIsPending, ForgottenUnderPressure,
           NEW r \in Seen, traffic' = Append(traffic, r), r.kind = "reply",
           (r.id \in Outstanding /\ takePending(r.id)) \/ (r.id \notin Outstanding /\ UNCHANGED <<pending, order>>)
    PROVE  ForgottenUnderPressure'
<1>1. /\ traffic \in Seq(Seen) /\ order \in Seq(Ids) /\ pending \in [Ids -> Calls \union {NoCall}]
      /\ r.id \in Ids
  BY DEF TypeOK, Seen
<1>2. DOMAIN traffic' = 1..(Len(traffic) + 1) /\ Len(traffic) \in Nat
  BY <1>1, TrafficGrows
<1>3. ASSUME NEW x, NEW y, Before(order', x, y) PROVE Before(order, x, y)
  <2>1. CASE takePending(r.id)
    <3>1. PICK k \in DOMAIN order : order' = RemoveAt(order, k)
      BY <2>1 DEF takePending
    <3> QED BY <1>1, <1>3, <3>1, BeforeInRemoval
  <2>2. CASE order' = order
    BY <1>3, <2>2
  <2> QED BY <2>1, <2>2
<1> SUFFICES ASSUME NEW id \in Ids, NEW i \in 1..(Len(traffic) + 1), Waiting(id, i)'
             PROVE  StillRemembered(id, i)' \/ Cardinality(OthersAsked(id, i)') >= MaxPending
  BY <1>2 DEF ForgottenUnderPressure
<1>4. i # Len(traffic) + 1
  BY <1>1, FirstAsked
<1>5. i \in 1..Len(traffic)
  BY <1>2, <1>4
<1>6. /\ r.id # id
      /\ OthersAsked(id, i) \subseteq OthersAsked(id, i)'
      /\ StillRemembered(id, i) \/ Cardinality(OthersAsked(id, i)') >= MaxPending
  BY <1>5, ForgetSplit
<1>7. ASSUME StillRemembered(id, i) PROVE StillRemembered(id, i)'
  <2>1. id \in Outstanding'
    BY <1>1, <1>6, <1>7 DEF StillRemembered, takePending, Outstanding
  <2>2. ASSUME NEW y \in Ids, Before(order', id, y) PROVE y \in OthersAsked(id, i)'
    BY <1>3, <1>6, <1>7, <2>2 DEF StillRemembered
  <2> QED BY <2>1, <2>2 DEF StillRemembered
<1> QED BY <1>6, <1>7

-----------------------------------------------------------------------------
(* The properties themselves speak of every message seen so far. *)

(* A reply is named right when it is seen, and nothing changes that. *)
LEMMA NamesLatestStep ==
    ASSUME traffic \in Seq(Seen), NamesTheLatestRequest, LatestIsPending, NEW r \in Seen,
           traffic' = Append(traffic, r),
           r.kind = "reply" /\ r.call # NoCall => r.id \in Outstanding /\ r.call = pending[r.id]
    PROVE  NamesTheLatestRequest'
<1>1. /\ Len(traffic) \in Nat
      /\ DOMAIN traffic = 1..Len(traffic) /\ DOMAIN traffic' = 1..(Len(traffic) + 1)
      /\ \A k \in 1..Len(traffic) : traffic'[k] = traffic[k]
      /\ traffic'[Len(traffic) + 1] = r
  BY TrafficGrows
<1> SUFFICES ASSUME NEW n \in 1..(Len(traffic) + 1), traffic'[n].kind = "reply", traffic'[n].call # NoCall
             PROVE  \E i \in 1..(n-1) :
                       /\ traffic'[i].kind = "request"
                       /\ traffic'[i].id = traffic'[n].id /\ traffic'[i].call = traffic'[n].call
                       /\ \A j \in (i+1)..(n-1) : traffic'[j].id # traffic'[n].id
  BY <1>1 DEF NamesTheLatestRequest
<1>2. CASE n \in 1..Len(traffic)
  <2>1. PICK i \in 1..(n-1) :
          /\ traffic[i].kind = "request"
          /\ traffic[i].id = traffic[n].id /\ traffic[i].call = traffic[n].call
          /\ \A j \in (i+1)..(n-1) : traffic[j].id # traffic[n].id
    BY <1>1, <1>2 DEF NamesTheLatestRequest
  <2>2. i \in 1..Len(traffic) /\ \A j \in (i+1)..(n-1) : j \in 1..Len(traffic)
    BY <1>1, <1>2
  <2> QED BY <1>1, <1>2, <2>1, <2>2
<1>3. CASE n = Len(traffic) + 1
  <2>1. r.id \in Outstanding /\ r.call = pending[r.id] /\ traffic'[n] = r /\ n - 1 = Len(traffic)
    BY <1>1, <1>3
  <2>2. PICK i \in 1..Len(traffic) :
          /\ traffic[i].kind = "request" /\ traffic[i].id = r.id /\ traffic[i].call = pending[r.id]
          /\ \A j \in (i+1)..Len(traffic) : traffic[j].id # r.id
    BY <1>1, <2>1 DEF LatestIsPending
  <2>3. \A j \in (i+1)..Len(traffic) : j \in 1..Len(traffic)
    BY <1>1
  <2> QED BY <1>1, <2>1, <2>2, <2>3
<1> QED BY <1>1, <1>2, <1>3

LEMMA ForgetsStep ==
    ASSUME traffic \in Seq(Seen), ForgetsOnlyUnderPressure, ForgottenUnderPressure, NEW r \in Seen,
           traffic' = Append(traffic, r),
           r.kind = "reply" /\ r.call = NoCall => r.id \notin Outstanding
    PROVE  ForgetsOnlyUnderPressure'
<1>1. /\ Len(traffic) \in Nat
      /\ DOMAIN traffic = 1..Len(traffic) /\ DOMAIN traffic' = 1..(Len(traffic) + 1)
      /\ \A k \in 1..Len(traffic) : traffic'[k] = traffic[k] /\ traffic[k] \in Seen
      /\ traffic'[Len(traffic) + 1] = r
  BY TrafficGrows
<1> DEFINE Hopes(s, i, n) ==
             /\ s[n].kind = "reply" /\ s[n].call = NoCall
             /\ s[i].id = s[n].id
             /\ \A j \in i..(n-1) : s[j].id = s[n].id => s[j].kind = "request"
             /\ \A j \in 1..(i-1) : s[j].id = s[n].id =>
                   \E k \in j..(i-1) : s[k].id = s[n].id /\ s[k].kind = "reply"
           Others(s, i, n) == {s[k].id : k \in {k \in i..(n-1) : s[k].kind = "request"}} \ {s[n].id}
<1>2. ForgetsOnlyUnderPressure <=>
        \A n \in DOMAIN traffic : \A i \in 1..(n-1) :
            Hopes(traffic, i, n) => Cardinality(Others(traffic, i, n)) >= MaxPending
  BY DEF ForgetsOnlyUnderPressure, AskedSince
<1>3. ForgetsOnlyUnderPressure' <=>
        \A n \in DOMAIN traffic' : \A i \in 1..(n-1) :
            Hopes(traffic', i, n) => Cardinality(Others(traffic', i, n)) >= MaxPending
  BY DEF ForgetsOnlyUnderPressure, AskedSince
<1> SUFFICES ASSUME NEW n \in 1..(Len(traffic) + 1), NEW i \in 1..(n-1), Hopes(traffic', i, n)
             PROVE  Cardinality(Others(traffic', i, n)) >= MaxPending
  BY <1>1, <1>3
<1>4. /\ \A j \in 1..(n-1) : j \in 1..Len(traffic) /\ traffic'[j] = traffic[j]
      /\ i..(n-1) \subseteq 1..(n-1) /\ i \in 1..Len(traffic)
      /\ \A j \in 1..(i-1) : j \in 1..(n-1) /\ \A k \in j..(i-1) : k \in 1..(n-1)
  BY <1>1
<1>5. CASE n \in 1..Len(traffic)
  <2>1. traffic'[n] = traffic[n]
    BY <1>1, <1>5
  <2>2. Hopes(traffic, i, n)
    BY <1>4, <2>1
  <2>3. Others(traffic', i, n) = Others(traffic, i, n)
    BY <1>4, <2>1
  <2> HIDE DEF Hopes, Others
  <2> QED BY <1>1, <1>2, <1>5, <2>2, <2>3
<1>6. CASE n = Len(traffic) + 1
  <2>1. traffic'[n] = r /\ n - 1 = Len(traffic) /\ r.kind = "reply" /\ r.call = NoCall
    BY <1>1, <1>6
  <2>2. r.id \in Ids /\ r.id \notin Outstanding
    BY <2>1 DEF Seen
  <2>3. Waiting(r.id, i)
    BY <1>4, <2>1 DEF Waiting
  <2>4. Cardinality(OthersAsked(r.id, i)) >= MaxPending
    BY <1>1, <1>4, <2>2, <2>3 DEF ForgottenUnderPressure, StillRemembered
  <2>5. Others(traffic', i, n) = OthersAsked(r.id, i)
    BY <1>4, <2>1 DEF OthersAsked
  <2> QED BY <2>4, <2>5
<1> HIDE DEF Hopes, Others
<1> QED BY <1>1, <1>5, <1>6

-----------------------------------------------------------------------------
(* The specification *)

CInv == TypeOK /\ TableAgrees /\ Correlated

LEMMA CorrelatedStays ==
    ASSUME Correlated, UNCHANGED <<pending, order, traffic>>
    PROVE  Correlated'
<1>1. LatestIsPending'
  BY DEF Correlated, LatestIsPending, Outstanding
<1>2. NamesTheLatestRequest' /\ ForgetsOnlyUnderPressure'
  BY DEF Correlated, RepliesAreNamedRight, NamesTheLatestRequest, ForgetsOnlyUnderPressure, AskedSince
<1>3. ForgottenUnderPressure'
  <2>1. \A id, i : Waiting(id, i)' <=> Waiting(id, i)
    BY DEF Waiting
  <2>2. \A id, i : OthersAsked(id, i)' = OthersAsked(id, i)
    BY DEF OthersAsked
  <2>3. \A id, i : StillRemembered(id, i)' <=> StillRemembered(id, i)
    BY <2>2 DEF StillRemembered, Outstanding
  <2> QED BY <2>1, <2>2, <2>3 DEF Correlated, ForgottenUnderPressure
<1> QED BY <1>1, <1>2, <1>3 DEF Correlated, RepliesAreNamedRight

LEMMA ParseOneKeepsCorrelated ==
    ASSUME CInv, NEW g \in Goroutines, parseOne(g)
    PROVE  Correlated'
<1>1. PICK m \in Messages :
        /\ Reading(g, m)
        /\ \/ Request(g, m) \/ Notification(g, m)
           \/ ReplyToKnown(g, m) \/ ReplyToUnknown(g, m) \/ Junk(g, m)
  BY DEF parseOne
<1>2. /\ m.kind \in {"request", "reply", "junk"} /\ m.id \in Ids \union {NoId}
      /\ (m.kind = "request" => m.call \in Calls)
  BY DEF Messages
<1>3. /\ TypeOK /\ TableAgrees /\ TableType /\ traffic \in Seq(Seen) /\ NoCall \notin Calls /\ NoId \notin Ids
      /\ LatestIsPending /\ ForgottenUnderPressure
      /\ NamesTheLatestRequest /\ ForgetsOnlyUnderPressure
  BY InterceptorAssumption DEF CInv, Correlated, RepliesAreNamedRight, TypeOK, TableType, Seen
<1>4. CASE UNCHANGED <<pending, order, traffic>>
  BY <1>4, CorrelatedStays DEF CInv
<1>5. CASE Request(g, m)
  <2> DEFINE r == [kind |-> "request", id |-> m.id, call |-> m.call]
  <2>1. /\ m.id \in Ids /\ m.call \in Calls /\ rememberPending(m.id, m.call)
        /\ traffic' = Append(traffic, r)
    BY <1>2, <1>5 DEF Request, Observe
  <2>2. r \in Seen /\ r.kind # "reply"
    BY <2>1 DEF Seen
  <2>3. LatestIsPending' /\ ForgottenUnderPressure'
    BY <1>3, <2>1, RequestIsLatest, RequestForgetsUnderPressure
  <2> HIDE DEF r
  <2>4. NamesTheLatestRequest' /\ ForgetsOnlyUnderPressure'
    BY <1>3, <2>1, <2>2, NamesLatestStep, ForgetsStep
  <2> QED BY <2>3, <2>4 DEF Correlated, RepliesAreNamedRight
<1>6. CASE ReplyToKnown(g, m)
  <2> DEFINE r == [kind |-> "reply", id |-> m.id, call |-> pending[m.id]]
  <2>1. /\ m.id \in Outstanding /\ m.id \in Ids /\ takePending(m.id)
        /\ traffic' = Append(traffic, r)
    BY <1>6 DEF ReplyToKnown, Observe, Outstanding
  <2>2. /\ r \in Seen /\ r.kind = "reply" /\ r.id = m.id /\ r.call = pending[m.id] /\ r.call # NoCall
        /\ pending \in [Ids -> Calls \union {NoCall}]
    BY <1>3, <2>1 DEF Seen, TypeOK, Outstanding
  <2> HIDE DEF r
  <2>3. /\ pending' \in [Ids -> Calls \union {NoCall}]
        /\ \A y \in Ids : pending'[y] = IF y = r.id THEN NoCall ELSE pending[y]
    BY <2>1, <2>2 DEF takePending
  <2>4. LatestIsPending' /\ ForgottenUnderPressure'
    BY <1>3, <2>1, <2>2, <2>3, ReplyKeepsLatest, ReplyForgetsNothing
  <2>5. NamesTheLatestRequest' /\ ForgetsOnlyUnderPressure'
    BY <1>3, <2>1, <2>2, NamesLatestStep, ForgetsStep
  <2> QED BY <2>4, <2>5 DEF Correlated, RepliesAreNamedRight
<1>7. CASE ReplyToUnknown(g, m) /\ m.id # NoId
  <2> DEFINE r == [kind |-> "reply", id |-> m.id, call |-> NoCall]
  <2>1. /\ m.id \notin Outstanding /\ m.id \in Ids /\ UNCHANGED <<pending, order>>
        /\ traffic' = Append(traffic, r)
    BY <1>2, <1>7 DEF ReplyToUnknown
  <2>2. /\ r \in Seen /\ r.kind = "reply" /\ r.id = m.id /\ r.call = NoCall
        /\ pending \in [Ids -> Calls \union {NoCall}]
    BY <1>3, <2>1 DEF Seen, TypeOK
  <2> HIDE DEF r
  <2>3. /\ pending' \in [Ids -> Calls \union {NoCall}]
        /\ \A y \in Ids : pending'[y] = IF y = r.id THEN NoCall ELSE pending[y]
    BY <2>1, <2>2 DEF Outstanding
  <2>4. LatestIsPending' /\ ForgottenUnderPressure'
    BY <1>3, <2>1, <2>2, <2>3, ReplyKeepsLatest, ReplyForgetsNothing
  <2>5. NamesTheLatestRequest' /\ ForgetsOnlyUnderPressure'
    BY <1>3, <2>1, <2>2, NamesLatestStep, ForgetsStep
  <2> QED BY <2>4, <2>5 DEF Correlated, RepliesAreNamedRight
<1>8. Notification(g, m) \/ Junk(g, m) \/ (ReplyToUnknown(g, m) /\ m.id = NoId)
        => UNCHANGED <<pending, order, traffic>>
  BY DEF Notification, Junk, ReplyToUnknown
<1> QED BY <1>1, <1>4, <1>5, <1>6, <1>7, <1>8

(* Whatever ids are used again, evicted or answered twice, a reply is      *)
(* named after the latest request it can answer, and left without a name   *)
(* only if there is none or MaxPending others were asked for since.        *)
THEOREM RepliesNamedRight == Spec => []RepliesAreNamedRight
<1>1. Init => CInv
  <2> SUFFICES ASSUME Init PROVE CInv
    OBVIOUS
  <2>1. TypeOK /\ TableAgrees
    BY InitIsInv DEF IInv
  <2>2. Outstanding = {} /\ DOMAIN traffic = {}
    BY DEF Init, Outstanding
  <2>3. Correlated
    BY <2>2 DEF Correlated, LatestIsPending, ForgottenUnderPressure, RepliesAreNamedRight,
                NamesTheLatestRequest, ForgetsOnlyUnderPressure
  <2> QED BY <2>1, <2>3 DEF CInv
<1>2. CInv /\ [Next]_vars => Correlated'
  <2> SUFFICES ASSUME CInv, [Next]_vars PROVE Correlated'
    OBVIOUS
  <2>1. ASSUME NEW g \in Goroutines, parseOne(g) PROVE Correlated'
    BY <2>1, ParseOneKeepsCorrelated
  <2>2. CASE UNCHANGED <<pending, order, traffic>>
    BY <2>2, CorrelatedStays DEF CInv
  <2> QED BY <2>1, <2>2 DEF Next, ParseBegin, ParseEnd, vars
<1>3. CInv => RepliesAreNamedRight
  BY DEF CInv, Correlated
<1>4. CInv <=> IInv /\ Correlated
  BY DEF CInv, IInv
<1> QED BY <1>1, <1>2, <1>3, <1>4, Invariance, PTL DEF Spec
=============================================================================
