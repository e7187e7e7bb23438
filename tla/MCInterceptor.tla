--------------------------- MODULE MCInterceptor ---------------------------
(* Instances of Interceptor for TLC. *)
EXTENDS Interceptor, TLC

CONSTANTS g1, g2, i1, i2, i3, m1, m2

TwoGoroutines == {g1, g2}
ThreeIds == {i1, i2, i3}
TwoCalls == {m1, m2}

request(id, call) == [kind |-> "request", id |-> id, call |-> call]
reply(id) == [kind |-> "reply", id |-> id, call |-> NoCall]
junk == [kind |-> "junk", id |-> NoId, call |-> NoCall]

Singles == {<<request(id, c)>> : id \in ThreeIds, c \in TwoCalls}
           \union {<<reply(id)>> : id \in ThreeIds}
Batches == {<<request(i1, m1), junk, request(i2, m1)>>, <<reply(i2), request(NoId, m1)>>}
AllPayloads == Singles \union Batches
Interchangeable == Permutations(TwoGoroutines)
=============================================================================
