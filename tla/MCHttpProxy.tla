---------------------------- MODULE MCHttpProxy ----------------------------
(* Instances of HttpProxy for TLC. *)
EXTENDS HttpProxy

CONSTANTS post, get, bens, anna, ben, i1, allowed, denied

(* Anna posts a request and has an event stream open; Ben posts a request  *)
(* under the same id, and policy allows him nothing. The server answers    *)
(* Anna on either of her exchanges, with noise around it on the stream.    *)
ThreeExchanges == {post, get, bens}
TwoClients == {anna, ben}
BensIsBens == [x \in Exchanges |-> IF x = bens THEN ben ELSE anna]
OneIdForAll == [x \in Exchanges |-> IF x = get THEN {} ELSE {i1}]
TheClientsId == {i1}
AllCalls == {allowed, denied}
NoCalls == {}
DeniedToBen == {ben} \X AllCalls
NoiseOnStream == [x \in Exchanges |-> IF x = get THEN {"single", "big", "junk"} ELSE {"single"}]
StreamOnGet == [x \in Exchanges |-> IF x = get THEN {"sse"} ELSE {"json"}]
=============================================================================
