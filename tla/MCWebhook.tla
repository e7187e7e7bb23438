------------------------------ MODULE MCWebhook ------------------------------
(* An instance of Webhook for TLC. *)
EXTENDS Webhook

(* A unit of time is 40 ms for the first, 1 ms for the others. *)
DefaultBackoff == [Attempts |-> 4, Initial |-> 5, Max |-> 50, Jitter |-> 20,
                   send |-> "all", urlParses |-> TRUE]

(* The schedules of retry_test.go: capped early, uncapped and without      *)
(* jitter, and the zero value.                                             *)
TestConfigs ==
    {DefaultBackoff,
     [DefaultBackoff EXCEPT !.Initial = 2, !.Max = 5, !.send = "flagged"],
     [DefaultBackoff EXCEPT !.Attempts = 3, !.Max = 0, !.Jitter = 0],
     [DefaultBackoff EXCEPT !.Attempts = 0, !.Initial = 0, !.Max = 0, !.Jitter = 0],
     [DefaultBackoff EXCEPT !.urlParses = FALSE]}
=============================================================================
