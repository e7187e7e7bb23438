------------------------------- MODULE Webhook -------------------------------
(***************************************************************************)
(* The webhook sink and its retries (internal/sinks/webhook.go and         *)
(* retry.go): one worker of the dispatcher calls Write for one event after *)
(* the other, Write posts the event until the endpoint takes it, refuses   *)
(* it for good or the schedule is used up, and the dispatcher's context    *)
(* may be cancelled between any two steps.                                 *)
(*                                                                         *)
(* Events are numbered in the order the worker takes them, and <<e, k>> is *)
(* the k-th request posted for event e. The endpoint and the network are   *)
(* external: a request may be processed although its answer never comes,   *)
(* even long after the proxy has given it up. An endpoint is taken to      *)
(* answer itself: the client of NewWebhook (webhook.go:43) is a plain      *)
(* http.Client, which follows a 301, 302 or 303 with a GET that carries no *)
(* event, so that behind such a redirect a 2xx need not mean that the      *)
(* event was taken.                                                        *)
(***************************************************************************)
EXTENDS Integers, Sequences

CONSTANTS
    NumEvents,   \* bound of the model: events the worker is handed
    Flagged,     \* those of them that carry policy flags
    Configs      \* the webhooks that NewWebhook may have built

Events == 1..NumEvents

Setting == [Attempts : Int, Initial : Nat, Max : Nat, Jitter : 0..100,
            send : {"all", "flagged"}, urlParses : BOOLEAN]

ASSUME WebhookAssumption ==
    /\ NumEvents \in Nat
    /\ Flagged \subseteq Events
    /\ Configs \subseteq Setting

VARIABLES
    webhook,     \* the Webhook: its schedule in units of time, Jitter in percent
    current,     \* calls of Write so far; event number current is the latest
    pc,          \* where that call is
    attempt,     \* Do's loop counter
    delay, wait, \* Do's delay, and the jittered time its timer is set to
    cancelled,   \* ctx is done: the grace period of Close has expired
    tries,       \* history: how each attempt for an event ended
    result,      \* what Write returned for an event
    flight,      \* requests the network still carries
    accepted     \* requests the endpoint has taken

writeVars == <<current, pc, attempt, delay, wait, tries, result>>
netVars == <<flight, accepted>>
vars == <<webhook, cancelled, writeVars, netVars>>

Requests == Events \X (Nat \ {0})

(* "lost" is a network error, the request's own timeout and a cancelled    *)
(* request: client.Do tells Write nothing about what became of it. "busy"  *)
(* is an answer 408, 429 or 5xx, "rejected" any other answer that is no    *)
(* success, and a URL that builds no request.                              *)
Temporary == {"lost", "busy"}
Outcomes == Temporary \union {"ok", "rejected"}

(* Where Do returns: nil, a permanent error, all attempts used, cancelled  *)
(* after a failure, cancelled before the first attempt.                    *)
Results == {"ok", "permanent", "gave up", "giving up", "cancelled"}

Positions == {"idle", "try", "posting", "waiting"}

TypeOK ==
    /\ webhook \in Configs
    /\ current \in 0..NumEvents
    /\ pc \in Positions
    /\ pc # "idle" => current \in Events
    /\ attempt \in Nat \ {0}
    /\ delay \in Nat /\ wait \in Nat
    /\ cancelled \in BOOLEAN
    /\ tries \in [Events -> Seq(Outcomes)]
    /\ result \in [Events -> Results \union {"none"}]
    /\ flight \subseteq Requests
    /\ accepted \subseteq Requests

Init ==
    /\ webhook \in Configs
    /\ current = 0
    /\ pc = "idle"
    /\ attempt = 1
    /\ delay = 0 /\ wait = 0
    /\ cancelled = FALSE
    /\ tries = [e \in Events |-> <<>>]
    /\ result = [e \in Events |-> "none"]
    /\ flight = {}
    /\ accepted = {}

-----------------------------------------------------------------------------
(* Backoff: the schedule *)

MutantAllowed == webhook.Attempts

(* Attempts below 1 are treated as 1. *)
Allowed == IF webhook.Attempts < 1 THEN 1 ELSE webhook.Attempts

MutantNextDelay(d) ==
    IF webhook.Max > 0 /\ d > webhook.Max THEN webhook.Max ELSE 2 * d

NextDelay(d) ==
    IF webhook.Max > 0 /\ 2 * d > webhook.Max THEN webhook.Max ELSE 2 * d

(* What jitter(d, Jitter) can return, in whole units of time: anything     *)
(* within Jitter percent of d. The cap is not applied again.               *)
Jittered(d) ==
    {w \in 0..(2 * d) : 100 * w \in ((100 - webhook.Jitter) * d)..((100 + webhook.Jitter) * d)}

-----------------------------------------------------------------------------
(* Write and Do *)

Return(r) ==
    /\ result' = [result EXCEPT ![current] = r]
    /\ pc' = "idle"

shouldSend(e) == webhook.send = "flagged" => e \in Flagged

(* Counting the attempts from 0. *)
MutantWriteBegins ==
    /\ pc = "idle" /\ current < NumEvents
    /\ current' = current + 1
    /\ shouldSend(current + 1)
    /\ pc' = "try"
    /\ attempt' = 0
    /\ delay' = webhook.Initial
    /\ UNCHANGED <<webhook, cancelled, wait, tries, result, netVars>>

WriteBegins ==
    /\ pc = "idle" /\ current < NumEvents
    /\ current' = current + 1
    /\ shouldSend(current + 1)
    /\ pc' = "try"
    /\ attempt' = 1
    /\ delay' = webhook.Initial
    /\ UNCHANGED <<webhook, cancelled, wait, tries, result, netVars>>

(* An event that the selector leaves out: Write returns nil at once. *)
WriteSkips ==
    /\ pc = "idle" /\ current < NumEvents
    /\ current' = current + 1
    /\ ~shouldSend(current + 1)
    /\ result' = [result EXCEPT ![current + 1] = "ok"]
    /\ UNCHANGED <<webhook, cancelled, pc, attempt, delay, wait, tries, netVars>>

(* The check of ctx at the head of the loop. *)
TryCancelled ==
    /\ pc = "try" /\ cancelled
    /\ Return(IF attempt > 1 THEN "giving up" ELSE "cancelled")
    /\ UNCHANGED <<webhook, cancelled, current, attempt, delay, wait, tries, netVars>>

MutantPost ==
    /\ pc = "try"
    /\ webhook.urlParses
    /\ flight' = flight \union {<<current, attempt>>}
    /\ pc' = "posting"
    /\ UNCHANGED <<webhook, cancelled, current, attempt, delay, wait, tries, result, accepted>>

Post ==
    /\ pc = "try" /\ ~cancelled
    /\ webhook.urlParses
    /\ flight' = flight \union {<<current, attempt>>}
    /\ pc' = "posting"
    /\ UNCHANGED <<webhook, cancelled, current, attempt, delay, wait, tries, result, accepted>>

(* A failed attempt: the last one, or one to wait after. *)
FailFor(outcome) ==
    /\ tries' = [tries EXCEPT ![current] = Append(@, outcome)]
    /\ \/ /\ attempt = Allowed
          /\ Return("gave up")
          /\ UNCHANGED wait
       \/ /\ attempt # Allowed
          /\ pc' = "waiting"
          /\ wait' \in Jittered(delay)
          /\ UNCHANGED result
    /\ UNCHANGED <<webhook, cancelled, current, attempt, delay>>

RejectWith ==
    /\ tries' = [tries EXCEPT ![current] = Append(@, "rejected")]
    /\ Return("permanent")
    /\ UNCHANGED <<webhook, cancelled, current, attempt, delay, wait>>

(* A URL that builds no request: http.NewRequest fails before anything is  *)
(* sent.                                                                   *)
Unbuildable ==
    /\ pc = "try" /\ ~cancelled
    /\ ~webhook.urlParses
    /\ RejectWith
    /\ UNCHANGED netVars

(* Only 200 taken for success. *)
MutantAnswerOk ==
    /\ pc = "posting" /\ <<current, attempt>> \in accepted
    /\ \/ /\ tries' = [tries EXCEPT ![current] = Append(@, "ok")]
          /\ Return("ok")
          /\ UNCHANGED <<webhook, cancelled, current, attempt, delay, wait>>
       \/ FailFor("busy")
    /\ UNCHANGED netVars

AnswerOk ==
    /\ pc = "posting" /\ <<current, attempt>> \in accepted
    /\ tries' = [tries EXCEPT ![current] = Append(@, "ok")]
    /\ Return("ok")
    /\ UNCHANGED <<webhook, cancelled, current, attempt, delay, wait, netVars>>

AnswerBusy ==
    /\ pc = "posting" /\ <<current, attempt>> \in flight
    /\ FailFor("busy")
    /\ flight' = flight \ {<<current, attempt>>}
    /\ UNCHANGED accepted

AnswerRejected ==
    /\ pc = "posting" /\ <<current, attempt>> \in flight
    /\ RejectWith
    /\ flight' = flight \ {<<current, attempt>>}
    /\ UNCHANGED accepted

(* No answer: the request stays wherever it has got to. *)
AnswerLost ==
    /\ pc = "posting"
    /\ FailFor("lost")
    /\ UNCHANGED netVars

(* The select of Do, its two cases. *)
WaitCancelled ==
    /\ pc = "waiting" /\ cancelled
    /\ Return("giving up")
    /\ UNCHANGED <<webhook, cancelled, current, attempt, delay, wait, tries, netVars>>

TimerFires ==
    /\ pc = "waiting"
    /\ delay' = NextDelay(delay)
    /\ attempt' = attempt + 1
    /\ pc' = "try"
    /\ UNCHANGED <<webhook, cancelled, current, wait, tries, result, netVars>>

Do == TryCancelled \/ Post \/ Unbuildable \/ WaitCancelled \/ TimerFires
Answer == AnswerOk \/ AnswerBusy \/ AnswerRejected \/ AnswerLost

-----------------------------------------------------------------------------
(* The surroundings *)

(* GraceExpires and Drained of module Dispatcher. *)
CancelContext ==
    /\ ~cancelled
    /\ cancelled' = TRUE
    /\ UNCHANGED <<webhook, writeVars, netVars>>

(* The endpoint takes a request, answered for or given up long ago. *)
EndpointAccepts ==
    /\ \E r \in flight :
          /\ accepted' = accepted \union {r}
          /\ flight' = flight \ {r}
    /\ UNCHANGED <<webhook, cancelled, writeVars>>

Next == WriteBegins \/ WriteSkips \/ Do \/ Answer \/ CancelContext \/ EndpointAccepts

Spec == Init /\ [][Next]_vars

(* The worker goroutine runs, timers fire, and the client's own timeout    *)
(* ends a request that nobody answers. The endpoint and the network owe    *)
(* the proxy nothing, and Close need not be called.                        *)
FairSpec == Spec /\ WF_vars(Do) /\ WF_vars(Answer)

-----------------------------------------------------------------------------
(* Properties *)

(* Powers of two, by a function that a proof can unfold. *)
TwoToThe[n \in Nat] == IF n = 0 THEN 1 ELSE 2 * TwoToThe[n - 1]

(* The delay after failure number k in closed form: it doubles from        *)
(* Initial and Max caps it, but not the first one.                         *)
PlannedDelay(k) ==
    LET uncapped == webhook.Initial * TwoToThe[k - 1] IN
    IF k > 1 /\ webhook.Max > 0 /\ uncapped > webhook.Max THEN webhook.Max ELSE uncapped

(* Every wait between two attempts is within the jitter of the delay that  *)
(* the schedule plans for it, and there is one fewer than attempts.        *)
WaitsFollowTheSchedule ==
    pc = "waiting" =>
        /\ attempt < Allowed
        /\ 100 * wait \in ((100 - webhook.Jitter) * PlannedDelay(attempt))
                          .. ((100 + webhook.Jitter) * PlannedDelay(attempt))

(* What Write reports is what happened: nil for an event that was taken or *)
(* left out, a permanent error for one that was refused, and otherwise     *)
(* temporary failures alone, either as many as are allowed or fewer and    *)
(* then the context was cancelled. Nothing is tried again after an answer  *)
(* that is final, and nothing is posted that the selector leaves out.      *)
LastOf(e) == tries[e][Len(tries[e])]
FailedBefore(e, n) == \A i \in 1..n : tries[e][i] \in Temporary

Report(e) ==
    LET n == Len(tries[e]) IN
    /\ ~shouldSend(e) => n = 0 /\ result[e] \in {"none", "ok"}
    /\ n <= Allowed
    /\ result[e] = "none" => FailedBefore(e, n)
    /\ result[e] = "ok" /\ shouldSend(e) =>
          /\ n > 0 /\ FailedBefore(e, n - 1) /\ LastOf(e) = "ok"
          /\ <<e, n>> \in accepted
    /\ result[e] = "permanent" =>
          n > 0 /\ FailedBefore(e, n - 1) /\ LastOf(e) = "rejected"
    /\ result[e] = "gave up" => n = Allowed /\ FailedBefore(e, n)
    /\ result[e] = "giving up" => n \in 1..(Allowed - 1) /\ FailedBefore(e, n) /\ cancelled
    /\ result[e] = "cancelled" => n = 0 /\ cancelled

ReportIsTrue == \A e \in Events : Report(e)

(* The endpoint gets an event twice, or gets one that is reported as       *)
(* failed, only where an answer was lost: an answer that came is believed, *)
(* and every request the endpoint has is one that was posted.              *)
DuplicatesOnlyAfterLostAnswers ==
    \A r \in accepted :
        LET e == r[1]  k == r[2] IN
        /\ shouldSend(e)
        /\ k <= Len(tries[e]) => tries[e][k] \in {"ok", "lost"}
        /\ k > Len(tries[e]) => e = current /\ k = attempt /\ pc = "posting"

(* Every Write returns, whatever the endpoint does and although nobody     *)
(* cancels the context: this is why module Dispatcher may rely on the      *)
(* Write of a network sink. Once the context is cancelled, nothing more is *)
(* posted, be it for the event in hand or for a backlog.                   *)
WritesEnd ==
    /\ pc # "idle" ~> pc = "idle"
    /\ [][cancelled => flight' \subseteq flight]_vars
=============================================================================
