----------------------------- MODULE MCToolLock -----------------------------
(* Instances of ToolLock for TLC. *)
EXTENDS ToolLock

CONSTANTS p1, p2, p3, o1, sA, sB, tool1, v1, v2, v3

OneProxy == {p1}
TwoProxies == {p1, p2}
ThreeProxies == {p1, p2, p3}
OneOperator == {o1}
OneServer == {sA}
TwoServers == {sA, sB}
OneTool == {tool1}
TwoVersions == {v1, v2}
ThreeVersions == {v1, v2, v3}

SameServer == [p \in Proxies |-> sA]
(* Each proxy has a server of its own. *)
ServerEach == [p \in Proxies |-> IF p = p1 THEN sA ELSE sB]
(* Two proxies of one server and a third of another. *)
ServerShared == [p \in Proxies |-> IF p \in {p1, p2} THEN sA ELSE sB]

(* One tool, in any version. *)
SingleLists == {<<<<t, v>>>> : t \in Tools, v \in Versions}
(* Also one tool advertised twice in one list, in two versions. *)
DoubledLists == SingleLists \union {<<<<tool1, v1>>, <<tool1, v2>>>>,
                                    <<<<tool1, v2>>, <<tool1, v1>>>>}

TwoListsEach == [p \in Proxies |-> 2]
ThreeListsEach == [p \in Proxies |-> 3]
TwoListsForOne == [p \in Proxies |-> IF p = p1 THEN 2 ELSE 1]

NothingOnRecord == [k \in Keys |-> None]
(* The first tool of the first server, pinned before snapshots were kept.  *)
OldPin == [k \in Keys |-> IF k = <<sA, tool1>> THEN v1 ELSE None]
=============================================================================
