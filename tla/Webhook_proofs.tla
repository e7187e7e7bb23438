--------------------------- MODULE Webhook_proofs ---------------------------
(***************************************************************************)
(* What a Write of the webhook reports, for every schedule, every number   *)
(* of events and whatever the endpoint and the network do.                 *)
(***************************************************************************)
EXTENDS Webhook, Selection_proofs

USE WebhookAssumption DEF WebhookAssumption

LEMMA AppendAt ==
    ASSUME NEW S, NEW E, NEW f \in [E -> Seq(S)], NEW e \in E, NEW x \in S
    PROVE  [f EXCEPT ![e] = Append(@, x)] \in [E -> Seq(S)]
<1>1. Append(f[e], x) \in Seq(S)
  OBVIOUS
<1> QED BY <1>1

(* What is known of the Write in progress. *)
InProgress ==
    pc # "idle" =>
        /\ result[current] = "none"
        /\ shouldSend(current)
        /\ FailedBefore(current, Len(tries[current]))
        /\ pc \in {"try", "posting"} => Len(tries[current]) = attempt - 1 /\ attempt <= Allowed
        /\ pc = "waiting" => Len(tries[current]) = attempt /\ attempt < Allowed

(* Nothing has happened yet to an event the worker has not been handed. *)
Untouched ==
    \A e \in Events : e > current => tries[e] = <<>> /\ result[e] = "none"

(* A request the network still carries is the one in progress, or one      *)
(* whose answer was lost.                                                  *)
FlightIsPosted ==
    \A r \in flight :
        LET e == r[1]  k == r[2] IN
        /\ shouldSend(e)
        /\ k <= Len(tries[e]) => tries[e][k] = "lost"
        /\ k > Len(tries[e]) => e = current /\ k = attempt /\ pc = "posting"
        /\ r \notin accepted

Inv ==
    /\ TypeOK /\ InProgress /\ Untouched /\ FlightIsPosted
    /\ ReportIsTrue /\ DuplicatesOnlyAfterLostAnswers

LEMMA AllowedIsPositive ==
    ASSUME TypeOK
    PROVE  Allowed \in Nat \ {0}
BY DEF TypeOK, Setting, Allowed

LEMMA NextDelayIsNat ==
    ASSUME TypeOK, NEW d \in Nat
    PROVE  NextDelay(d) \in Nat
BY DEF TypeOK, Setting, NextDelay

LEMMA JitteredIsNat ==
    ASSUME TypeOK, NEW d \in Nat
    PROVE  Jittered(d) \subseteq Nat
<1>1. 0..(2 * d) \subseteq Nat
  OBVIOUS
<1> QED BY <1>1 DEF Jittered

LEMMA TypeInit == Init => TypeOK
<1> SUFFICES ASSUME Init PROVE TypeOK
  OBVIOUS
<1>1. current \in 0..NumEvents /\ attempt \in Nat \ {0} /\ delay \in Nat /\ wait \in Nat
  BY DEF Init
<1>2. tries \in [Events -> Seq(Outcomes)] /\ result \in [Events -> Results \union {"none"}]
  BY DEF Init
<1> QED BY <1>1, <1>2 DEF Init, TypeOK, Positions

LEMMA TypeStep == TypeOK /\ [Next]_vars => TypeOK'
<1> SUFFICES ASSUME TypeOK, [Next]_vars PROVE TypeOK'
  OBVIOUS
<1> USE DEF TypeOK, Positions
<1>0. Events = 1..NumEvents /\ NumEvents \in Nat
  BY DEF Events
<1>1. CASE WriteBegins
  BY <1>0, <1>1 DEF WriteBegins, netVars, Setting
<1>2. CASE WriteSkips
  <2>1. current + 1 \in Events /\ current' \in 0..NumEvents
    BY <1>0, <1>2 DEF WriteSkips
  <2>2. result' \in [Events -> Results \union {"none"}]
    BY <1>2, <2>1 DEF WriteSkips, Results
  <2> QED BY <1>2, <2>1, <2>2 DEF WriteSkips, netVars
<1>3. CASE TryCancelled
  BY <1>3 DEF TryCancelled, Return, Results, netVars
<1>4. CASE Post
  BY <1>4 DEF Post, Requests
<1>5. ASSUME NEW o \in Outcomes, FailFor(o), pc = "posting",
             flight' \subseteq flight, accepted' = accepted
      PROVE  TypeOK'
  <2>1. tries' \in [Events -> Seq(Outcomes)]
    BY <1>5, AppendAt DEF FailFor
  <2>2. wait' \in Nat
    BY <1>5, JitteredIsNat DEF FailFor
  <2> QED BY <1>5, <2>1, <2>2 DEF FailFor, Return, Results
<1>6. ASSUME NEW o \in Outcomes, NEW r \in Results, pc \in {"try", "posting"},
             tries' = [tries EXCEPT ![current] = Append(@, o)], Return(r),
             UNCHANGED <<webhook, cancelled, current, attempt, delay, wait>>,
             flight' \subseteq flight, accepted' = accepted
      PROVE  TypeOK'
  <2>1. tries' \in [Events -> Seq(Outcomes)]
    BY <1>6, AppendAt
  <2> QED BY <1>6, <2>1 DEF Return
<1>7. CASE Unbuildable
  BY <1>6, <1>7 DEF Unbuildable, RejectWith, netVars, Outcomes, Results
<1>8. CASE AnswerOk
  BY <1>6, <1>8 DEF AnswerOk, netVars, Outcomes, Results
<1>9. CASE AnswerBusy
  BY <1>5, <1>9 DEF AnswerBusy, Outcomes, Temporary
<1>10. CASE AnswerRejected
  BY <1>6, <1>10 DEF AnswerRejected, RejectWith, Outcomes, Results
<1>11. CASE AnswerLost
  BY <1>5, <1>11 DEF AnswerLost, netVars, Outcomes, Temporary
<1>12. CASE WaitCancelled
  BY <1>12 DEF WaitCancelled, Return, Results, netVars
<1>13. CASE TimerFires
  <2>1. delay' \in Nat /\ attempt' \in Nat \ {0}
    BY <1>13, NextDelayIsNat DEF TimerFires
  <2> QED BY <1>13, <2>1 DEF TimerFires, netVars
<1>14. CASE CancelContext
  BY <1>14 DEF CancelContext, writeVars, netVars
<1>15. CASE EndpointAccepts
  BY <1>15 DEF EndpointAccepts, writeVars
<1>16. CASE UNCHANGED vars
  BY <1>16 DEF vars, writeVars, netVars
<1> QED
  BY <1>1, <1>2, <1>3, <1>4, <1>7, <1>8, <1>9, <1>10, <1>11, <1>12, <1>13, <1>14, <1>15, <1>16
     DEF Next, Do, Answer

(* Every variable keeps its type. *)
THEOREM TypeCorrect == Spec => []TypeOK
BY TypeInit, TypeStep, PTL DEF Spec

(* What an attempt that has ended adds to the history. *)
LEMMA Appended ==
    ASSUME TypeOK, pc # "idle", NEW o \in Outcomes,
           tries' = [tries EXCEPT ![current] = Append(@, o)]
    PROVE  /\ Len(tries'[current]) = Len(tries[current]) + 1
           /\ Len(tries[current]) \in Nat
           /\ tries'[current][Len(tries[current]) + 1] = o
           /\ \A i \in 1..Len(tries[current]) : tries'[current][i] = tries[current][i]
           /\ \A e \in Events \ {current} : tries'[e] = tries[e]
<1>1. tries \in [Events -> Seq(Outcomes)] /\ current \in Events
  BY DEF TypeOK
<1>2. tries[current] \in Seq(Outcomes) /\ tries'[current] = Append(tries[current], o)
  BY <1>1
<1> QED BY <1>1, <1>2

(* An event that a step leaves alone keeps its report. *)
LEMMA ReportKept ==
    ASSUME webhook' = webhook, cancelled => cancelled', accepted \subseteq accepted',
           NEW e, Report(e), tries'[e] = tries[e], result'[e] = result[e]
    PROVE  Report(e)'
BY DEF Report, LastOf, FailedBefore, Allowed, shouldSend

(* What the end of an attempt does to requests: the one that ends was      *)
(* taken only if it succeeded or its answer was lost.                      *)
LEMMA RequestsKept ==
    ASSUME TypeOK, FlightIsPosted, DuplicatesOnlyAfterLostAnswers, InProgress,
           pc \in {"try", "posting"}, NEW o \in Outcomes,
           tries' = [tries EXCEPT ![current] = Append(@, o)],
           webhook' = webhook, flight' \subseteq flight, accepted' = accepted,
           <<current, attempt>> \in accepted => o \in {"ok", "lost"},
           <<current, attempt>> \in flight' => o = "lost"
    PROVE  FlightIsPosted' /\ DuplicatesOnlyAfterLostAnswers'
<1>1. Len(tries[current]) = attempt - 1 /\ attempt \in Nat \ {0} /\ current \in Events
  BY DEF InProgress, TypeOK
<1>3. ASSUME NEW r \in accepted \union flight
      PROVE  /\ shouldSend(r[1]) /\ r[1] \in Events /\ r[2] \in Nat \ {0} /\ r = <<r[1], r[2]>>
             /\ tries[r[1]] \in Seq(Outcomes) /\ Len(tries[r[1]]) \in Nat
             /\ r[2] <= Len(tries[r[1]]) => tries[r[1]][r[2]] \in {"ok", "lost"}
             /\ r[2] <= Len(tries[r[1]]) /\ r \in flight => tries[r[1]][r[2]] = "lost"
             /\ r[2] > Len(tries[r[1]]) => r[1] = current /\ r[2] = attempt
  <2>1. r \in Requests
    BY DEF TypeOK
  <2>2. r[1] \in Events /\ r[2] \in Nat \ {0} /\ r = <<r[1], r[2]>>
    BY <2>1 DEF Requests
  <2>3. tries[r[1]] \in Seq(Outcomes)
    BY <2>2 DEF TypeOK
  <2> QED BY <2>2, <2>3 DEF FlightIsPosted, DuplicatesOnlyAfterLostAnswers
<1>4. ASSUME NEW r \in accepted' \union flight'
      PROVE  /\ shouldSend(r[1])'
             /\ r[2] <= Len(tries'[r[1]]) /\ r[2] \in Nat /\ Len(tries'[r[1]]) \in Nat
             /\ tries'[r[1]][r[2]] \in {"ok", "lost"}
             /\ r \in flight' => tries'[r[1]][r[2]] = "lost"
  <2>0. r \in accepted \union flight /\ (r \in flight' => r \in flight)
    OBVIOUS
  <2>1. CASE r[1] # current
    <3>1. tries'[r[1]] = tries[r[1]]
      BY <1>3, <2>0, <2>1, Appended, pc # "idle"
    <3>2. r[2] <= Len(tries[r[1]])
      BY <1>3, <2>0, <2>1
    <3>3. shouldSend(r[1])'
      BY <1>3, <2>0 DEF shouldSend
    <3>4. tries[r[1]][r[2]] \in {"ok", "lost"}
      BY <1>3, <2>0, <3>2
    <3>7. r \in flight' => tries[r[1]][r[2]] = "lost"
      BY <1>3, <2>0, <3>2
    <3>5. r[2] \in Nat /\ Len(tries[r[1]]) \in Nat
      BY <1>3, <2>0
    <3> QED BY <3>1, <3>2, <3>3, <3>4, <3>5, <3>7
  <2>2. CASE r[1] = current /\ r[2] <= Len(tries[r[1]])
    <3>1. r[2] \in 1..Len(tries[current])
      BY <1>3, <2>0, <2>2
    <3>2. tries'[r[1]][r[2]] = tries[r[1]][r[2]] /\ Len(tries'[r[1]]) = Len(tries[r[1]]) + 1
      BY <2>2, <3>1, Appended, pc # "idle"
    <3>3. shouldSend(r[1])'
      BY <1>3, <2>0 DEF shouldSend
    <3>4. tries[r[1]][r[2]] \in {"ok", "lost"}
      BY <1>3, <2>0, <2>2
    <3>7. r \in flight' => tries[r[1]][r[2]] = "lost"
      BY <1>3, <2>0, <2>2
    <3>5. r[2] \in Nat /\ Len(tries[r[1]]) \in Nat
      BY <1>3, <2>0
    <3>6. r[2] <= Len(tries'[r[1]]) /\ Len(tries'[r[1]]) \in Nat
      BY <2>2, <3>2, <3>5
    <3> QED BY <3>2, <3>3, <3>4, <3>5, <3>6, <3>7
  <2>3. CASE r[1] = current /\ ~(r[2] <= Len(tries[r[1]]))
    <3>1. r[2] > Len(tries[r[1]])
      BY <1>3, <2>0, <2>3
    <3>2. r[2] = attempt /\ r = <<current, attempt>>
      BY <1>3, <2>0, <2>3, <3>1
    <3>3. Len(tries'[current]) = attempt /\ tries'[current][attempt] = o
      <4>1. Len(tries[current]) + 1 = attempt
        BY <1>1
      <4> QED BY <4>1, Appended, pc # "idle"
    <3>4. tries'[r[1]][r[2]] = o /\ Len(tries'[r[1]]) = attempt
      BY <2>3, <3>2, <3>3
    <3>5. o \in {"ok", "lost"} /\ (r \in flight' => o = "lost")
      BY <2>0, <3>2
    <3>6. shouldSend(r[1])' /\ r[2] \in Nat /\ r[2] <= attempt
      BY <1>1, <1>3, <2>0, <3>2 DEF shouldSend
    <3> QED BY <1>1, <3>4, <3>5, <3>6
  <2> QED BY <2>1, <2>2, <2>3
<1>5. FlightIsPosted'
  <2> SUFFICES ASSUME NEW r \in flight'
               PROVE  /\ shouldSend(r[1])'
                      /\ r[2] <= Len(tries'[r[1]]) => tries'[r[1]][r[2]] = "lost"
                      /\ ~(r[2] > Len(tries'[r[1]]))
                      /\ r \notin accepted'
    BY DEF FlightIsPosted
  <2>0. r \in accepted' \union flight'
    OBVIOUS
  <2>1. r[2] <= Len(tries'[r[1]]) /\ r[2] \in Nat /\ Len(tries'[r[1]]) \in Nat
    BY <1>4, <2>0
  <2>2. tries'[r[1]][r[2]] = "lost" /\ r \notin accepted'
    BY <1>4, <2>0 DEF FlightIsPosted
  <2>3. shouldSend(r[1])'
    BY <1>4, <2>0 DEF shouldSend
  <2>4. ~(r[2] > Len(tries'[r[1]]))
    BY <2>1
  <2> QED BY <2>2, <2>3, <2>4
<1>6. DuplicatesOnlyAfterLostAnswers'
  <2> SUFFICES ASSUME NEW r \in accepted'
               PROVE  /\ shouldSend(r[1])'
                      /\ r[2] <= Len(tries'[r[1]]) => tries'[r[1]][r[2]] \in {"ok", "lost"}
                      /\ ~(r[2] > Len(tries'[r[1]]))
    BY DEF DuplicatesOnlyAfterLostAnswers
  <2>0. r \in accepted' \union flight'
    OBVIOUS
  <2>1. r[2] <= Len(tries'[r[1]]) /\ r[2] \in Nat /\ Len(tries'[r[1]]) \in Nat
    BY <1>4, <2>0
  <2>2. tries'[r[1]][r[2]] \in {"ok", "lost"}
    BY <1>4, <2>0
  <2>3. shouldSend(r[1])'
    BY <1>4, <2>0 DEF shouldSend
  <2>4. ~(r[2] > Len(tries'[r[1]]))
    BY <2>1
  <2> QED BY <2>2, <2>3, <2>4
<1> QED BY <1>5, <1>6

(* The step that ends an attempt, and that ends the Write or waits.        *)
EndOfAttempt(o, r) ==
    /\ pc \in {"try", "posting"}
    /\ tries' = [tries EXCEPT ![current] = Append(@, o)]
    /\ result' = [result EXCEPT ![current] = r]
    /\ UNCHANGED <<webhook, cancelled, current, attempt>>
    /\ flight' \subseteq flight /\ accepted' = accepted
    /\ <<current, attempt>> \in accepted => o \in {"ok", "lost"}
    /\ <<current, attempt>> \in flight' => o = "lost"
    /\ \/ pc' = "idle" /\ r = "permanent" /\ o = "rejected"
       \/ pc' = "idle" /\ r = "ok" /\ o = "ok" /\ <<current, attempt>> \in accepted
       \/ pc' = "idle" /\ r = "gave up" /\ o \in Temporary /\ attempt = Allowed
       \/ pc' = "waiting" /\ r = "none" /\ o \in Temporary /\ attempt # Allowed

LEMMA AttemptEnds ==
    ASSUME Inv, TypeOK', NEW o \in Outcomes, NEW r, EndOfAttempt(o, r)
    PROVE  Inv'
<1> DEFINE n == Len(tries[current])
<1>0. n = attempt - 1 /\ attempt \in Nat \ {0} /\ attempt <= Allowed
  BY DEF EndOfAttempt, Inv, InProgress, TypeOK
<1>a. Allowed \in Nat /\ Allowed' = Allowed
  BY AllowedIsPositive DEF EndOfAttempt, Inv, Allowed
<1>1. /\ current \in Events /\ shouldSend(current)
      /\ FailedBefore(current, n) /\ result[current] = "none"
  BY DEF EndOfAttempt, Inv, InProgress, TypeOK
<1>2. /\ tries'[current][attempt] = o /\ Len(tries'[current]) = attempt
      /\ \A i \in 1..(attempt - 1) : tries'[current][i] = tries[current][i]
  <2>1. n + 1 = attempt
    BY <1>0
  <2> QED BY <1>0, <2>1, Appended DEF EndOfAttempt, Inv
<1>3. \A e \in Events \ {current} : tries'[e] = tries[e] /\ result'[e] = result[e]
  BY Appended DEF EndOfAttempt, Inv, TypeOK
<1>4. result'[current] = r
  BY <1>1 DEF EndOfAttempt, Inv, TypeOK
<1>5. \A i \in 1..(attempt - 1) : tries'[current][i] \in Temporary
  BY <1>0, <1>1, <1>2 DEF FailedBefore
<1>6. o \in Temporary => \A i \in 1..attempt : tries'[current][i] \in Temporary
  <2> SUFFICES ASSUME o \in Temporary, NEW i \in 1..attempt PROVE tries'[current][i] \in Temporary
    OBVIOUS
  <2>1. CASE i = attempt
    BY <1>2, <2>1
  <2>2. CASE i # attempt
    <3>1. i \in 1..(attempt - 1)
      BY <1>0, <2>2
    <3> QED BY <1>5, <3>1
  <2> QED BY <2>1, <2>2
<1>7. /\ current' = current /\ attempt' = attempt /\ webhook' = webhook
      /\ cancelled' = cancelled /\ accepted' = accepted
  BY DEF EndOfAttempt
<1>b. \A e : e = current => shouldSend(e)'
  BY <1>1, <1>7 DEF shouldSend
<1>8. ASSUME NEW e, e = current PROVE Report(e)'
  <2>0. Len(tries'[e]) = attempt /\ result'[e] = r /\ tries'[e][attempt] = o
    BY <1>2, <1>4, <1>8
  <2>1. CASE r = "permanent" /\ o = "rejected"
    BY <1>0, <1>a, <1>b, <1>5, <1>8, <2>0, <2>1 DEF Report, LastOf, FailedBefore
  <2>2. CASE r = "ok" /\ o = "ok" /\ <<current, attempt>> \in accepted
    BY <1>0, <1>a, <1>b, <1>5, <1>7, <1>8, <2>0, <2>2 DEF Report, LastOf, FailedBefore
  <2>3. CASE r = "gave up" /\ o \in Temporary /\ attempt = Allowed
    BY <1>0, <1>a, <1>b, <1>6, <1>8, <2>0, <2>3 DEF Report, FailedBefore
  <2>4. CASE r = "none" /\ o \in Temporary
    BY <1>0, <1>a, <1>b, <1>6, <1>8, <2>0, <2>4 DEF Report, FailedBefore
  <2> QED BY <2>1, <2>2, <2>3, <2>4 DEF EndOfAttempt
<1>9. ReportIsTrue'
  <2> SUFFICES ASSUME NEW e \in Events PROVE Report(e)'
    BY DEF ReportIsTrue
  <2>1. CASE e = current
    BY <1>8, <2>1
  <2>2. CASE e # current
    BY <1>3, <1>7, <2>2, ReportKept DEF Inv, ReportIsTrue
  <2> QED BY <2>1, <2>2
<1>10. InProgress'
  <2>1. CASE pc' = "idle"
    BY <2>1 DEF InProgress
  <2>2. CASE pc' = "waiting" /\ r = "none" /\ o \in Temporary /\ attempt # Allowed
    <3>1. attempt' < Allowed'
      BY <1>0, <1>a, <1>7, <2>2
    <3>2. Len(tries'[current']) = attempt' /\ result'[current'] = "none"
      BY <1>2, <1>4, <1>7, <2>2
    <3>3. shouldSend(current)' /\ FailedBefore(current, Len(tries[current]))'
      BY <1>b, <1>2, <1>6, <1>7, <2>2 DEF FailedBefore, shouldSend
    <3> QED BY <2>2, <3>1, <3>2, <3>3 DEF InProgress
  <2> QED BY <2>1, <2>2 DEF EndOfAttempt
<1>11. Untouched'
  <2> SUFFICES ASSUME NEW e \in Events, e > current'
               PROVE  tries'[e] = <<>> /\ result'[e] = "none"
    BY DEF Untouched
  <2>1. e > current /\ e # current
    <3>1. current \in Int /\ e \in Int
      BY <1>1 DEF Events
    <3> QED BY <1>7, <3>1
  <2> QED BY <1>3, <2>1 DEF Inv, Untouched
<1>12. FlightIsPosted' /\ DuplicatesOnlyAfterLostAnswers'
  BY RequestsKept DEF EndOfAttempt, Inv
<1> QED BY <1>9, <1>10, <1>11, <1>12 DEF Inv

LEMMA EndsOf ==
    ASSUME Inv, pc # "idle"
    PROVE  /\ current \in Events /\ result[current] = "none"
           /\ result = [result EXCEPT ![current] = "none"]
BY DEF Inv, InProgress, TypeOK

(* A request that is in flight has not been taken, and one that is about   *)
(* to be posted is neither.                                                *)
LEMMA NotTaken ==
    ASSUME Inv
    PROVE  /\ <<current, attempt>> \in flight => <<current, attempt>> \notin accepted
           /\ pc = "try" => <<current, attempt>> \notin accepted \union flight
<1>1. <<current, attempt>> \in flight => <<current, attempt>> \notin accepted
  BY DEF Inv, FlightIsPosted
<1>2. ASSUME pc = "try" PROVE <<current, attempt>> \notin accepted \union flight
  <2>1. Len(tries[current]) = attempt - 1 /\ attempt \in Nat
    BY <1>2 DEF Inv, InProgress, TypeOK
  <2>2. attempt > Len(tries[current])
    BY <2>1
  <2>3. <<current, attempt>>[1] = current /\ <<current, attempt>>[2] = attempt
    OBVIOUS
  <2>4. <<current, attempt>> \in accepted => pc = "posting"
    BY <2>2, <2>3 DEF Inv, DuplicatesOnlyAfterLostAnswers
  <2>5. <<current, attempt>> \in flight => pc = "posting"
    BY <2>2, <2>3 DEF Inv, FlightIsPosted
  <2> QED BY <1>2, <2>4, <2>5
<1> QED BY <1>1, <1>2

LEMMA FailForEnds ==
    ASSUME Inv, TypeOK', NEW o \in Temporary, pc = "posting", FailFor(o),
           flight' \subseteq flight, accepted' = accepted,
           <<current, attempt>> \in accepted => o = "lost",
           <<current, attempt>> \in flight' => o = "lost"
    PROVE  Inv'
<1>1. o \in Outcomes
  BY DEF Outcomes
<1>2. CASE attempt = Allowed
  <2>1. EndOfAttempt(o, "gave up")
    BY <1>2 DEF FailFor, Return, EndOfAttempt
  <2> QED BY <1>1, <2>1, AttemptEnds
<1>3. CASE attempt # Allowed
  <2>1. EndOfAttempt(o, "none")
    BY <1>3, EndsOf DEF FailFor, EndOfAttempt
  <2> QED BY <1>1, <2>1, AttemptEnds
<1> QED BY <1>2, <1>3

(* Between two requests nothing in the history speaks of a request that is *)
(* still open, so steps that post none keep what is known of requests.     *)
LEMMA RequestsFramed ==
    ASSUME Inv, pc # "posting", tries' = tries, webhook' = webhook,
           flight' = flight, accepted' = accepted
    PROVE  FlightIsPosted' /\ DuplicatesOnlyAfterLostAnswers'
<1>1. ASSUME NEW r \in flight
      PROVE  /\ shouldSend(r[1]) /\ r \notin accepted /\ ~(r[2] > Len(tries[r[1]]))
             /\ r[2] <= Len(tries[r[1]]) => tries[r[1]][r[2]] = "lost"
  BY DEF Inv, FlightIsPosted
<1>2. ASSUME NEW r \in accepted
      PROVE  /\ shouldSend(r[1]) /\ ~(r[2] > Len(tries[r[1]]))
             /\ r[2] <= Len(tries[r[1]]) => tries[r[1]][r[2]] \in {"ok", "lost"}
  BY DEF Inv, DuplicatesOnlyAfterLostAnswers
<1>3. FlightIsPosted'
  BY <1>1 DEF FlightIsPosted, shouldSend
<1>4. DuplicatesOnlyAfterLostAnswers'
  BY <1>2 DEF DuplicatesOnlyAfterLostAnswers, shouldSend
<1> QED BY <1>3, <1>4

LEMMA LaterIsOther ==
    ASSUME NEW c \in Events, NEW e \in Events, e > c
    PROVE  e # c
BY DEF Events

(* A Write that returns without another attempt. *)
LEMMA CancelledEnds ==
    ASSUME Inv, TypeOK', cancelled, pc \in {"try", "waiting"},
           NEW r, result' = [result EXCEPT ![current] = r], pc' = "idle",
           UNCHANGED <<webhook, cancelled, current, tries, netVars>>,
           \/ r = "giving up" /\ Len(tries[current]) \in 1..(Allowed - 1)
           \/ r = "cancelled" /\ Len(tries[current]) = 0
    PROVE  Inv'
<1>1. /\ current \in Events /\ shouldSend(current)
      /\ FailedBefore(current, Len(tries[current]))
  BY DEF Inv, InProgress, TypeOK
<1>2. result'[current] = r /\ \A e \in Events \ {current} : result'[e] = result[e]
  BY <1>1 DEF Inv, TypeOK
<1>3. Len(tries[current]) <= Allowed
  BY <1>1 DEF Inv, ReportIsTrue, Report
<1>4. ASSUME NEW e \in Events PROVE Report(e)'
  <2>1. CASE e # current
    BY <1>2, <2>1, ReportKept DEF Inv, ReportIsTrue, netVars
  <2>2. CASE e = current
    <3>1. result'[e] = r /\ tries'[e] = tries[current] /\ shouldSend(e)'
      BY <1>1, <1>2, <2>2 DEF shouldSend
    <3>2. Allowed' = Allowed /\ cancelled'
      BY DEF Allowed
    <3>3. \A i \in 1..Len(tries[current]) : tries[current][i] \in Temporary
      BY <1>1 DEF FailedBefore
    <3> QED BY <1>3, <3>1, <3>2, <3>3 DEF Report, FailedBefore
  <2> QED BY <2>1, <2>2
<1>5. Untouched'
  <2> SUFFICES ASSUME NEW e \in Events, e > current PROVE tries[e] = <<>> /\ result'[e] = "none"
    BY DEF Untouched
  <2>1. e # current
    BY <1>1, LaterIsOther
  <2> QED BY <1>2, <2>1 DEF Inv, Untouched
<1>6. InProgress'
  BY DEF InProgress
<1>7. FlightIsPosted' /\ DuplicatesOnlyAfterLostAnswers'
  BY RequestsFramed DEF netVars
<1> QED BY <1>4, <1>5, <1>6, <1>7 DEF Inv, ReportIsTrue

LEMMA InvInit == Init => Inv
<1> SUFFICES ASSUME Init PROVE Inv
  OBVIOUS
<1>1. TypeOK
  BY TypeInit
<1>2. \A e \in Events : tries[e] = <<>> /\ result[e] = "none" /\ Len(tries[e]) = 0
  BY DEF Init
<1>3. InProgress /\ Untouched /\ FlightIsPosted /\ DuplicatesOnlyAfterLostAnswers
  BY <1>2 DEF Init, InProgress, Untouched, FlightIsPosted, DuplicatesOnlyAfterLostAnswers
<1>4. ReportIsTrue
  <2> SUFFICES ASSUME NEW e \in Events PROVE Report(e)
    BY DEF ReportIsTrue
  <2>1. 0 <= Allowed
    BY <1>1, AllowedIsPositive
  <2>2. FailedBefore(e, Len(tries[e]))
    BY <1>2 DEF FailedBefore
  <2> QED BY <1>2, <2>1, <2>2 DEF Report
<1> QED BY <1>1, <1>3, <1>4 DEF Inv

LEMMA InvStep == Inv /\ [Next]_vars => Inv'
<1> SUFFICES ASSUME Inv, [Next]_vars PROVE Inv'
  OBVIOUS
<1>0. TypeOK /\ TypeOK'
  BY TypeStep DEF Inv
<1>a. ASSUME NEW e \in Events, webhook' = webhook, cancelled => cancelled',
             accepted \subseteq accepted', tries' = tries, result'[e] = result[e]
      PROVE  Report(e)'
  BY <1>a, ReportKept DEF Inv, ReportIsTrue
<1>1. CASE WriteBegins
  <2>1. /\ current' = current + 1 /\ current' \in Events /\ current \in Nat
        /\ pc = "idle" /\ pc' = "try" /\ attempt' = 1 /\ shouldSend(current + 1)
        /\ UNCHANGED <<webhook, cancelled, tries, result, flight, accepted>>
    BY <1>0, <1>1 DEF WriteBegins, netVars, TypeOK, Events
  <2>2. tries[current'] = <<>> /\ result[current'] = "none"
    <3>1. current' > current
      BY <2>1
    <3> QED BY <2>1, <3>1 DEF Inv, Untouched
  <2>3. InProgress'
    <3>1. Allowed' \in Nat \ {0} /\ Len(tries'[current']) = 0
      BY <1>0, <2>1, <2>2, AllowedIsPositive DEF Allowed
    <3>2. shouldSend(current)'
      BY <2>1 DEF shouldSend
    <3>3. FailedBefore(current, Len(tries[current]))'
      BY <3>1 DEF FailedBefore
    <3> QED BY <2>1, <2>2, <3>1, <3>2, <3>3 DEF InProgress
  <2>4. Untouched'
    <3> SUFFICES ASSUME NEW e \in Events, e > current' PROVE tries[e] = <<>> /\ result[e] = "none"
      BY <2>1 DEF Untouched
    <3>1. e > current
      BY <2>1 DEF Events
    <3> QED BY <3>1 DEF Inv, Untouched
  <2>5. ReportIsTrue'
    BY <1>a, <2>1 DEF ReportIsTrue
  <2>6. FlightIsPosted' /\ DuplicatesOnlyAfterLostAnswers'
    BY <2>1, RequestsFramed
  <2> QED BY <1>0, <2>3, <2>4, <2>5, <2>6 DEF Inv
<1>2. CASE WriteSkips
  <2>1. /\ current' = current + 1 /\ current' \in Events /\ current \in Nat
        /\ pc = "idle" /\ pc' = "idle" /\ ~shouldSend(current + 1)
        /\ result' = [result EXCEPT ![current + 1] = "ok"]
        /\ UNCHANGED <<webhook, cancelled, tries, flight, accepted>>
    BY <1>0, <1>2 DEF WriteSkips, netVars, TypeOK, Events
  <2>2. /\ result'[current'] = "ok"
        /\ \A e \in Events \ {current'} : result'[e] = result[e]
    BY <1>0, <2>1 DEF TypeOK
  <2>3. tries[current'] = <<>>
    <3>1. current' > current
      BY <2>1
    <3> QED BY <2>1, <3>1 DEF Inv, Untouched
  <2>4. Untouched'
    <3> SUFFICES ASSUME NEW e \in Events, e > current' PROVE tries[e] = <<>> /\ result'[e] = "none"
      BY <2>1 DEF Untouched
    <3>1. e > current /\ e # current'
      BY <2>1 DEF Events
    <3> QED BY <2>2, <3>1 DEF Inv, Untouched
  <2>5. ASSUME NEW e \in Events PROVE Report(e)'
    <3>1. CASE e # current'
      BY <1>a, <2>1, <2>2, <3>1
    <3>2. CASE e = current'
      <4>1. ~shouldSend(e)'
        BY <2>1, <3>2 DEF shouldSend
      <4>2. Len(tries'[e]) = 0 /\ result'[e] = "ok"
        BY <2>1, <2>2, <2>3, <3>2
      <4>3. Allowed' \in Nat
        BY <1>0, <2>1, AllowedIsPositive DEF Allowed
      <4> QED BY <4>1, <4>2, <4>3 DEF Report
    <3> QED BY <3>1, <3>2
  <2>6. FlightIsPosted' /\ DuplicatesOnlyAfterLostAnswers'
    BY <2>1, RequestsFramed
  <2>7. InProgress'
    BY <2>1 DEF InProgress
  <2> QED BY <1>0, <2>4, <2>5, <2>6, <2>7 DEF Inv, ReportIsTrue
<1>3. CASE TryCancelled
  <2>1. Len(tries[current]) = attempt - 1 /\ attempt \in Nat \ {0} /\ attempt <= Allowed
    BY <1>0, <1>3 DEF TryCancelled, Inv, InProgress, TypeOK
  <2>2. Allowed \in Nat
    BY <1>0, AllowedIsPositive
  <2>3. CASE attempt > 1
    <3>1. Len(tries[current]) \in 1..(Allowed - 1)
      BY <2>1, <2>2, <2>3
    <3> QED BY <1>0, <1>3, <2>3, <3>1, CancelledEnds DEF TryCancelled, Return, netVars
  <2>4. CASE ~(attempt > 1)
    <3>1. Len(tries[current]) = 0
      BY <2>1, <2>4
    <3> QED BY <1>0, <1>3, <2>4, <3>1, CancelledEnds DEF TryCancelled, Return, netVars
  <2> QED BY <2>3, <2>4
<1>4. CASE Post
  <2>1. /\ pc = "try" /\ pc' = "posting" /\ flight' = flight \union {<<current, attempt>>}
        /\ UNCHANGED <<webhook, cancelled, current, attempt, tries, result, accepted>>
    BY <1>4 DEF Post
  <2>2. /\ current \in Events /\ shouldSend(current) /\ attempt \in Nat
        /\ Len(tries[current]) = attempt - 1
    BY <1>0, <2>1 DEF Inv, InProgress, TypeOK
  <2>3. ReportIsTrue'
    BY <1>a, <2>1 DEF ReportIsTrue
  <2>4. Untouched'
    BY <2>1 DEF Inv, Untouched
  <2>5. InProgress'
    BY <2>1 DEF Inv, InProgress, FailedBefore, shouldSend, Allowed
  <2>6. DuplicatesOnlyAfterLostAnswers'
    BY <2>1 DEF Inv, DuplicatesOnlyAfterLostAnswers, shouldSend
  <2>7. ASSUME NEW r \in flight'
        PROVE  /\ shouldSend(r[1]) /\ r \notin accepted
               /\ r[2] <= Len(tries[r[1]]) => tries[r[1]][r[2]] = "lost"
               /\ r[2] > Len(tries[r[1]]) => r[1] = current /\ r[2] = attempt
    <3>1. CASE r \in flight
      BY <3>1 DEF Inv, FlightIsPosted
    <3>2. CASE r = <<current, attempt>>
      <4>1. r[1] = current /\ r[2] = attempt /\ r \notin accepted
        BY <2>1, <3>2, NotTaken
      <4>2. ~(attempt <= Len(tries[current]))
        BY <2>2
      <4> QED BY <2>2, <4>1, <4>2
    <3> QED BY <2>1, <3>1, <3>2
  <2>8. FlightIsPosted'
    BY <2>1, <2>7 DEF FlightIsPosted, shouldSend
  <2> QED BY <1>0, <2>3, <2>4, <2>5, <2>6, <2>8 DEF Inv
<1>5. CASE Unbuildable
  <2>1. EndOfAttempt("rejected", "permanent")
    BY <1>5, NotTaken DEF Unbuildable, RejectWith, Return, netVars, EndOfAttempt
  <2> QED BY <1>0, <2>1, AttemptEnds DEF Outcomes
<1>6. CASE AnswerOk
  <2>1. EndOfAttempt("ok", "ok")
    BY <1>6, NotTaken DEF AnswerOk, Return, netVars, EndOfAttempt
  <2> QED BY <1>0, <2>1, AttemptEnds DEF Outcomes
<1>7. CASE AnswerBusy
  BY <1>0, <1>7, NotTaken, FailForEnds DEF AnswerBusy, Temporary
<1>8. CASE AnswerRejected
  <2>1. EndOfAttempt("rejected", "permanent")
    BY <1>8, NotTaken DEF AnswerRejected, RejectWith, Return, EndOfAttempt
  <2> QED BY <1>0, <2>1, AttemptEnds DEF Outcomes
<1>9. CASE AnswerLost
  BY <1>0, <1>9, FailForEnds DEF AnswerLost, Temporary, netVars
<1>10. CASE WaitCancelled
  <2>1. Len(tries[current]) = attempt /\ attempt < Allowed /\ attempt \in Nat \ {0}
    BY <1>0, <1>10 DEF WaitCancelled, Inv, InProgress, TypeOK
  <2>2. Len(tries[current]) \in 1..(Allowed - 1)
    BY <1>0, <2>1, AllowedIsPositive
  <2> QED BY <1>0, <1>10, <2>2, CancelledEnds DEF WaitCancelled, Return, netVars
<1>11. CASE TimerFires
  <2>1. /\ pc = "waiting" /\ pc' = "try" /\ attempt' = attempt + 1
        /\ UNCHANGED <<webhook, cancelled, current, tries, result, flight, accepted>>
    BY <1>11 DEF TimerFires, netVars
  <2>2. InProgress'
    <3>1. /\ result[current] = "none" /\ shouldSend(current)
          /\ FailedBefore(current, Len(tries[current]))
      BY <2>1 DEF Inv, InProgress
    <3>2. Len(tries[current]) = attempt /\ attempt < Allowed /\ attempt \in Nat
      BY <1>0, <2>1 DEF Inv, InProgress, TypeOK
    <3>3. Len(tries'[current']) = attempt' - 1 /\ attempt' <= Allowed'
      <4>1. Allowed' = Allowed /\ Allowed \in Nat
        BY <1>0, <2>1, AllowedIsPositive DEF Allowed
      <4> QED BY <2>1, <3>2, <4>1
    <3>4. shouldSend(current)' /\ FailedBefore(current, Len(tries[current]))'
      BY <2>1, <3>1 DEF shouldSend, FailedBefore
    <3> QED BY <2>1, <3>1, <3>3, <3>4 DEF InProgress
  <2>3. ReportIsTrue'
    BY <1>a, <2>1 DEF ReportIsTrue
  <2>4. Untouched'
    BY <2>1 DEF Inv, Untouched
  <2>5. FlightIsPosted' /\ DuplicatesOnlyAfterLostAnswers'
    BY <2>1, RequestsFramed
  <2> QED BY <1>0, <2>2, <2>3, <2>4, <2>5 DEF Inv
<1>12. CASE CancelContext
  <2>1. ReportIsTrue'
    BY <1>a, <1>12 DEF ReportIsTrue, CancelContext, writeVars, netVars
  <2> QED BY <1>0, <1>12, <2>1
      DEF CancelContext, writeVars, netVars, Inv, InProgress, Untouched, FlightIsPosted,
          DuplicatesOnlyAfterLostAnswers, shouldSend, FailedBefore, Allowed
<1>13. CASE EndpointAccepts
  <2>1. PICK r \in flight : accepted' = accepted \union {r} /\ flight' = flight \ {r}
    BY <1>13 DEF EndpointAccepts
  <2>2. UNCHANGED <<webhook, cancelled, current, pc, attempt, tries, result>>
    BY <1>13 DEF EndpointAccepts, writeVars
  <2>3. ReportIsTrue'
    BY <1>a, <2>1, <2>2 DEF ReportIsTrue
  <2>4. InProgress' /\ Untouched'
    BY <2>2 DEF Inv, InProgress, Untouched, FailedBefore, shouldSend, Allowed
  <2>5. FlightIsPosted'
    BY <2>1, <2>2 DEF Inv, FlightIsPosted, shouldSend
  <2>6. DuplicatesOnlyAfterLostAnswers'
    BY <2>1, <2>2 DEF Inv, FlightIsPosted, DuplicatesOnlyAfterLostAnswers, shouldSend
  <2> QED BY <1>0, <2>3, <2>4, <2>5, <2>6 DEF Inv
<1>14. CASE UNCHANGED vars
  <2>1. ReportIsTrue'
    BY <1>a, <1>14 DEF ReportIsTrue, vars, writeVars, netVars
  <2> QED BY <1>0, <1>14, <2>1
      DEF vars, writeVars, netVars, Inv, InProgress, Untouched, FlightIsPosted,
          DuplicatesOnlyAfterLostAnswers, shouldSend, FailedBefore, Allowed
<1> QED
  BY <1>1, <1>2, <1>3, <1>4, <1>5, <1>6, <1>7, <1>8, <1>9, <1>10, <1>11, <1>12, <1>13, <1>14
     DEF Next, Do, Answer

(* What Write returns is what happened to the event, retries and           *)
(* cancellation included.                                                  *)
THEOREM WriteReportsTruly == Spec => []ReportIsTrue
<1>1. Inv => ReportIsTrue
  BY DEF Inv
<1> QED BY <1>1, InvInit, InvStep, PTL DEF Spec

(* The endpoint has an event twice, or one reported as failed, only where  *)
(* an answer was lost, even if requests are processed after they were      *)
(* given up.                                                               *)
THEOREM DuplicatesExplained == Spec => []DuplicatesOnlyAfterLostAnswers
<1>1. Inv => DuplicatesOnlyAfterLostAnswers
  BY DEF Inv
<1> QED BY <1>1, InvInit, InvStep, PTL DEF Spec

-----------------------------------------------------------------------------
(* The schedule. TwoToThe is a recursive function, hence a choice: it      *)
(* satisfies its equation once some function does, and one is built from   *)
(* functions on longer and longer intervals.                               *)

Doubles(g, k) ==
    /\ g \in [0..k -> Nat]
    /\ \A n \in 0..k : g[n] = IF n = 0 THEN 1 ELSE 2 * g[n - 1]

LEMMA DoublesExists == \A k \in Nat : \E g : Doubles(g, k)
<1> DEFINE S == {k \in Nat : \E g : Doubles(g, k)}
<1>1. 0 \in S
  <2>1. Doubles([n \in 0..0 |-> 1], 0)
    BY DEF Doubles
  <2> QED BY <2>1
<1>2. ASSUME NEW k \in Nat, k \in S PROVE k + 1 \in S
  <2>1. PICK g : Doubles(g, k)
    BY <1>2
  <2> DEFINE h == [n \in 0..(k + 1) |-> IF n \in 0..k THEN g[n] ELSE 2 * g[k]]
  <2>2. h \in [0..(k + 1) -> Nat]
    BY <2>1 DEF Doubles
  <2>3. ASSUME NEW n \in 0..(k + 1) PROVE h[n] = IF n = 0 THEN 1 ELSE 2 * h[n - 1]
    <3>1. CASE n \in 0..k
      <4>1. n # 0 => n - 1 \in 0..k
        BY <3>1
      <4> QED BY <2>1, <3>1, <4>1 DEF Doubles
    <3>2. CASE n = k + 1
      BY <2>1, <3>2 DEF Doubles
    <3> QED BY <3>1, <3>2
  <2> HIDE DEF h
  <2>4. Doubles(h, k + 1)
    BY <2>2, <2>3 DEF Doubles
  <2> QED BY <2>4
<1> HIDE DEF S
<1>3. \A k \in Nat : k \in S
  BY <1>1, <1>2, InductionInSet
<1> QED BY <1>3 DEF S

LEMMA DoublesAgree ==
    ASSUME NEW j \in Nat, NEW k \in Nat, NEW g, NEW h, Doubles(g, j), Doubles(h, k)
    PROVE  \A n \in Nat : n <= j /\ n <= k => g[n] = h[n]
<1> DEFINE S == {n \in Nat : n <= j /\ n <= k => g[n] = h[n]}
<1>1. 0 \in S
  BY DEF Doubles
<1>2. ASSUME NEW n \in Nat, n \in S PROVE n + 1 \in S
  <2>1. SUFFICES ASSUME n + 1 <= j, n + 1 <= k PROVE g[n + 1] = h[n + 1]
    OBVIOUS
  <2>2. n + 1 \in 0..j /\ n + 1 \in 0..k /\ n + 1 # 0 /\ (n + 1) - 1 = n
    BY <2>1
  <2>3. g[n] = h[n]
    BY <1>2, <2>1
  <2>4. g[n + 1] = 2 * g[n] /\ h[n + 1] = 2 * h[n]
    BY <2>2 DEF Doubles
  <2> QED BY <2>3, <2>4
<1> HIDE DEF S
<1>3. \A n \in Nat : n \in S
  BY <1>1, <1>2, InductionInSet
<1> QED BY <1>3 DEF S

IsPower(f) == f = [n \in Nat |-> IF n = 0 THEN 1 ELSE 2 * f[n - 1]]

LEMMA PowerExists == \E f : IsPower(f)
<1> DEFINE Up(k) == CHOOSE g : Doubles(g, k)
           f == [n \in Nat |-> Up(n)[n]]
<1>1. \A k \in Nat : Doubles(Up(k), k)
  BY DoublesExists
<1>2. ASSUME NEW n \in Nat PROVE f[n] = IF n = 0 THEN 1 ELSE 2 * f[n - 1]
  <2>1. Up(n)[n] = IF n = 0 THEN 1 ELSE 2 * Up(n)[n - 1]
    <3>1. Doubles(Up(n), n) /\ n \in 0..n
      BY <1>1
    <3> HIDE DEF Up
    <3> QED BY <3>1 DEF Doubles
  <2>2. n # 0 => Up(n)[n - 1] = Up(n - 1)[n - 1]
    <3> SUFFICES ASSUME n # 0 PROVE Up(n)[n - 1] = Up(n - 1)[n - 1]
      OBVIOUS
    <3>1. n - 1 \in Nat /\ n - 1 <= n /\ n - 1 <= n - 1
      OBVIOUS
    <3>2. Doubles(Up(n), n) /\ Doubles(Up(n - 1), n - 1)
      BY <1>1, <3>1
    <3> HIDE DEF Up
    <3> QED BY <3>1, <3>2, DoublesAgree
  <2>3. n # 0 => n - 1 \in Nat
    OBVIOUS
  <2> HIDE DEF Up
  <2> QED BY <2>1, <2>2, <2>3
<1>3. f = [n \in Nat |-> f[n]]
  OBVIOUS
<1> HIDE DEF f
<1>4. IsPower(f)
  BY <1>2, <1>3 DEF IsPower
<1> QED BY <1>4

LEMMA PowerEquation ==
    \A n \in Nat : TwoToThe[n] = IF n = 0 THEN 1 ELSE 2 * TwoToThe[n - 1]
<1>1. IsPower(TwoToThe)
  <2>1. TwoToThe = CHOOSE f : IsPower(f)
    BY DEF TwoToThe, IsPower
  <2> QED BY <2>1, PowerExists
<1> HIDE DEF TwoToThe
<1> QED BY <1>1 DEF IsPower

LEMMA PowerIsNat == \A n \in Nat : TwoToThe[n] \in Nat
<1> DEFINE S == {n \in Nat : TwoToThe[n] \in Nat}
<1>1. 0 \in S
  BY PowerEquation
<1>2. ASSUME NEW n \in Nat, n \in S PROVE n + 1 \in S
  <2>1. n + 1 \in Nat /\ n + 1 # 0 /\ (n + 1) - 1 = n
    OBVIOUS
  <2>2. TwoToThe[n + 1] = 2 * TwoToThe[n]
    BY <2>1, PowerEquation
  <2> QED BY <1>2, <2>2
<1> HIDE DEF S
<1>3. \A n \in Nat : n \in S
  BY <1>1, <1>2, InductionInSet
<1> QED BY <1>3 DEF S

LEMMA TwiceProduct ==
    ASSUME NEW a \in Nat, NEW p \in Nat
    PROVE  a * p \in Nat /\ a * (2 * p) = 2 * (a * p)
OBVIOUS

(* NextDelay goes from one planned delay to the next: a delay at its cap   *)
(* stays there, since what would have been planned only grows.             *)
LEMMA NextIsPlanned ==
    ASSUME TypeOK, NEW k \in Nat \ {0}
    PROVE  NextDelay(PlannedDelay(k)) = PlannedDelay(k + 1)
<1> DEFINE a == webhook.Initial
           p == TwoToThe[k - 1]
           q == a * p
<1>1. a \in Nat /\ webhook.Max \in Nat
  BY DEF TypeOK, Setting
<1>2. k - 1 \in Nat /\ p \in Nat
  BY PowerIsNat
<1>3. TwoToThe[(k + 1) - 1] = 2 * p
  <2>1. (k + 1) - 1 = k /\ k \in Nat /\ k # 0
    OBVIOUS
  <2> QED BY <2>1, PowerEquation
<1>4. q \in Nat /\ a * (2 * p) = 2 * q
  BY <1>1, <1>2, TwiceProduct
<1>5. PlannedDelay(k) = IF k > 1 /\ webhook.Max > 0 /\ q > webhook.Max THEN webhook.Max ELSE q
  BY DEF PlannedDelay
<1>6. PlannedDelay(k + 1) =
        IF k + 1 > 1 /\ webhook.Max > 0 /\ 2 * q > webhook.Max THEN webhook.Max ELSE 2 * q
  BY <1>3, <1>4 DEF PlannedDelay
<1> HIDE DEF q
<1> QED BY <1>1, <1>4, <1>5, <1>6 DEF NextDelay

(* While Do is under way its delay is the planned one. *)
DelayIsPlanned == pc # "idle" => delay = PlannedDelay(attempt)

WaitInv == Inv /\ DelayIsPlanned /\ WaitsFollowTheSchedule

LEMMA FirstIsPlanned ==
    ASSUME TypeOK
    PROVE  PlannedDelay(1) = webhook.Initial
<1>1. TwoToThe[1 - 1] = 1
  BY PowerEquation
<1> QED BY <1>1 DEF PlannedDelay, TypeOK, Setting

(* A timer is set within the jitter of the delay. *)
LEMMA FailForWaits ==
    ASSUME Inv, DelayIsPlanned, pc = "posting", NEW o \in Outcomes, FailFor(o)
    PROVE  DelayIsPlanned' /\ WaitsFollowTheSchedule'
<1>1. UNCHANGED <<webhook, attempt, delay>> /\ delay = PlannedDelay(attempt)
  BY DEF FailFor, DelayIsPlanned
<1>2. PlannedDelay(attempt)' = PlannedDelay(attempt) /\ Allowed' = Allowed
  BY <1>1 DEF PlannedDelay, Allowed
<1>3. ASSUME pc' = "waiting"
      PROVE  attempt < Allowed /\ wait' \in Jittered(delay)
  <2>1. attempt # Allowed /\ wait' \in Jittered(delay)
    BY <1>3 DEF FailFor, Return
  <2>2. attempt <= Allowed /\ attempt \in Nat /\ Allowed \in Nat
    BY AllowedIsPositive DEF Inv, InProgress, TypeOK
  <2> QED BY <2>1, <2>2
<1>4. DelayIsPlanned'
  BY <1>1, <1>2 DEF DelayIsPlanned
<1>5. WaitsFollowTheSchedule'
  BY <1>1, <1>2, <1>3 DEF WaitsFollowTheSchedule, Jittered
<1> QED BY <1>4, <1>5

LEMMA WaitStep == WaitInv /\ [Next]_vars => WaitInv'
<1> SUFFICES ASSUME WaitInv, [Next]_vars PROVE WaitInv'
  OBVIOUS
<1>0. Inv /\ Inv' /\ TypeOK /\ TypeOK'
  BY InvStep DEF WaitInv, Inv
<1> SUFFICES DelayIsPlanned' /\ WaitsFollowTheSchedule'
  BY <1>0 DEF WaitInv
<1>a. UNCHANGED webhook => \A k : PlannedDelay(k)' = PlannedDelay(k)
  BY DEF PlannedDelay
<1>1. CASE WriteBegins
  <2>1. pc' = "try" /\ attempt' = 1 /\ delay' = webhook.Initial /\ UNCHANGED webhook
    BY <1>1 DEF WriteBegins
  <2>2. PlannedDelay(attempt)' = PlannedDelay(1)
    BY <2>1 DEF PlannedDelay
  <2> QED BY <1>0, <2>1, <2>2, FirstIsPlanned DEF DelayIsPlanned, WaitsFollowTheSchedule
<1>2. CASE TimerFires
  <2>1. pc = "waiting" /\ pc' = "try" /\ attempt' = attempt + 1 /\ UNCHANGED webhook
        /\ delay' = NextDelay(delay)
    BY <1>2 DEF TimerFires
  <2>2. delay' = PlannedDelay(attempt + 1)
    BY <1>0, <2>1, NextIsPlanned DEF WaitInv, DelayIsPlanned, TypeOK
  <2>3. PlannedDelay(attempt)' = PlannedDelay(attempt + 1)
    BY <2>1 DEF PlannedDelay
  <2> QED BY <2>1, <2>2, <2>3 DEF DelayIsPlanned, WaitsFollowTheSchedule
<1>3. CASE AnswerBusy \/ AnswerLost
  <2>1. pc = "posting" /\ (FailFor("busy") \/ FailFor("lost"))
    BY <1>3 DEF AnswerBusy, AnswerLost
  <2>2. "busy" \in Outcomes /\ "lost" \in Outcomes
    BY DEF Outcomes, Temporary
  <2> QED BY <1>0, <2>1, <2>2, FailForWaits DEF WaitInv
<1>4. CASE \/ WriteSkips \/ TryCancelled \/ Post \/ Unbuildable \/ WaitCancelled
           \/ AnswerOk \/ AnswerRejected \/ CancelContext \/ EndpointAccepts \/ UNCHANGED vars
  <2>1. /\ UNCHANGED <<webhook, attempt, delay, wait>>
        /\ pc' # "idle" => pc # "idle"
        /\ pc' = "waiting" => pc = "waiting"
    BY <1>4 DEF WriteSkips, TryCancelled, Post, Unbuildable, WaitCancelled, AnswerOk,
       AnswerRejected, RejectWith, Return, CancelContext, EndpointAccepts, vars, writeVars
  <2>2. PlannedDelay(attempt)' = PlannedDelay(attempt) /\ Allowed' = Allowed
    BY <2>1 DEF PlannedDelay, Allowed
  <2>3. DelayIsPlanned'
    BY <2>1, <2>2 DEF WaitInv, DelayIsPlanned
  <2>4. WaitsFollowTheSchedule'
    BY <2>1, <2>2 DEF WaitInv, WaitsFollowTheSchedule
  <2> QED BY <2>3, <2>4
<1> QED BY <1>1, <1>2, <1>3, <1>4 DEF Next, Do, Answer

(* Every wait between two attempts is within the jitter of the delay that  *)
(* doubles from Initial up to Max, and none follows the last attempt, for  *)
(* every schedule.                                                         *)
THEOREM ScheduleIsKept == Spec => []WaitsFollowTheSchedule
<1>1. Init => WaitInv
  BY InvInit DEF Init, WaitInv, DelayIsPlanned, WaitsFollowTheSchedule
<1>2. WaitInv => WaitsFollowTheSchedule
  BY DEF WaitInv
<1> QED BY <1>1, <1>2, WaitStep, PTL DEF Spec
=============================================================================
