--------------------------- MODULE MCStdioWrapper ---------------------------
(* Instances of StdioWrapper for TLC. *)
EXTENDS StdioWrapper

CONSTANTS i1, list, allowed, denied, sampling

AllCalls == {list, allowed, denied, sampling}
DeniedCalls == {denied}
OneId == {i1}

RefusedOrNot == {allowed, denied}
OnlySampling == {sampling}

Singles == {"single"}
ReadOrNot == {"single", "big", "junk"}
TwoAndOne == [p \in Pumps |-> IF p = "toServer" THEN 2 ELSE 1]
=============================================================================
