---------------------------- MODULE MCDispatcher ----------------------------
(* Instances of Dispatcher for TLC: the JSONL log first and required, the  *)
(* webhook second, optional and on the network, as newPipeline adds them.  *)
EXTENDS Dispatcher, TLC

CONSTANTS t1, t2, c1, c2

TwoThreads == {t1, t2}
TwoClosers == {c1, c2}
OneCloser == {c1}
(* The callers of Close are alike. *)
ClosersAlike == Permutations(TwoClosers)
NoSink == {}
Jsonl == {1}
Webhook == {2}
OneThread == {t1}
Thrice == [t \in OneThread |-> 3]
FirstTwice == [t \in TwoThreads |-> IF t = t1 THEN 2 ELSE 1]
=============================================================================
