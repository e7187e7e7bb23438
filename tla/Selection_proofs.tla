------------------------- MODULE Selection_proofs -------------------------
(***************************************************************************)
(* What FlattenSeq and Select return, one element at a time. A recursive   *)
(* function is a choice: that it satisfies its equations follows once some *)
(* function does, which is an induction over its domain. The lemma on that *)
(* induction serves the proofs about other recursive functions too.        *)
(***************************************************************************)
EXTENDS Selection, SequenceTheorems, WellFoundedInduction, TLAPS

(* Induction, for a property that is a set of numbers. *)
LEMMA InductionInSet ==
    ASSUME NEW S, 0 \in S, \A n \in Nat : n \in S => n + 1 \in S
    PROVE  \A n \in Nat : n \in S
<1> DEFINE T == Nat \ S
<1> SUFFICES ASSUME T # {} PROVE FALSE
  OBVIOUS
<1>1. \E x \in T : \A y \in T : ~(<<y, x>> \in OpToRel(<, Nat))
  BY NatLessThanWellFounded, WFMin
<1>2. PICK x \in T : \A y \in T : ~(y < x)
  BY <1>1 DEF OpToRel
<1> QED BY <1>2

-----------------------------------------------------------------------------
(* FlattenSeq *)

Flattens(g, ss, k) ==
    g = [i \in 1..k |-> IF i = 1 THEN ss[i] ELSE g[i-1] \o ss[i]]

LEMMA FlattensExists ==
    ASSUME NEW ss
    PROVE  \A k \in Nat : \E g : Flattens(g, ss, k)
<1> DEFINE S == {k \in Nat : \E g : Flattens(g, ss, k)}
<1>1. 0 \in S
  <2>1. Flattens([i \in 1..0 |-> ss], ss, 0)
    BY DEF Flattens
  <2> QED BY <2>1
<1>2. ASSUME NEW k \in Nat, k \in S PROVE k + 1 \in S
  <2>1. PICK g : Flattens(g, ss, k)
    BY <1>2
  <2> DEFINE h == [i \in 1..(k+1) |-> IF i \in 1..k THEN g[i] ELSE IF i = 1 THEN ss[i] ELSE g[i-1] \o ss[i]]
  <2>2. \A i \in 1..k : g[i] = IF i = 1 THEN ss[i] ELSE g[i-1] \o ss[i]
    BY <2>1 DEF Flattens
  <2>3. ASSUME NEW i \in 1..(k+1) PROVE h[i] = IF i = 1 THEN ss[i] ELSE h[i-1] \o ss[i]
    <3>1. CASE i = 1
      BY <2>2, <3>1
    <3>2. CASE i # 1
      <4>1. i - 1 \in 1..k /\ i - 1 \in 1..(k+1) /\ h[i-1] = g[i-1]
        BY <3>2
      <4> QED BY <2>2, <3>2, <4>1
    <3> QED BY <3>1, <3>2
  <2>4. h = [i \in 1..(k+1) |-> h[i]]
    OBVIOUS
  <2> HIDE DEF h
  <2>5. Flattens(h, ss, k + 1)
    BY <2>3, <2>4 DEF Flattens
  <2> QED BY <2>5
<1> HIDE DEF S
<1>3. \A k \in Nat : k \in S
  BY <1>1, <1>2, InductionInSet
<1> QED BY <1>3 DEF S

(* The recursive function inside FlattenSeq satisfies its equations. *)
LEMMA FlattenByFunction ==
    ASSUME NEW ss, Len(ss) \in Nat, Len(ss) # 0
    PROVE  \E g : Flattens(g, ss, Len(ss)) /\ FlattenSeq(ss) = g[Len(ss)]
<1> DEFINE c == CHOOSE g : Flattens(g, ss, Len(ss))
<1>1. Flattens(c, ss, Len(ss))
  BY FlattensExists
<1>2. c = CHOOSE g : g = [i \in 1..Len(ss) |-> IF i = 1 THEN ss[i] ELSE g[i-1] \o ss[i]]
  BY DEF Flattens
<1>3. FlattenSeq(ss) = c[Len(ss)]
  BY <1>2 DEF FlattenSeq
<1> QED BY <1>1, <1>3

LEMMA FlattensAgree ==
    ASSUME NEW S, NEW ss \in Seq(Seq(S)), NEW t \in Seq(S),
           NEW g, Flattens(g, ss, Len(ss)), NEW h, Flattens(h, Append(ss, t), Len(ss) + 1)
    PROVE  \A k \in 1..Len(ss) : h[k] = g[k] /\ g[k] \in Seq(S)
<1> DEFINE n == Len(ss)
           us == Append(ss, t)
           A == {k \in Nat : k \in 1..n => h[k] = g[k] /\ g[k] \in Seq(S)}
<1>1. n \in Nat /\ \A i \in 1..n : ss[i] \in Seq(S) /\ us[i] = ss[i]
  OBVIOUS
<1> HIDE DEF n, us
<1>2. /\ \A i \in 1..n : g[i] = IF i = 1 THEN ss[i] ELSE g[i-1] \o ss[i]
      /\ \A i \in 1..n : h[i] = IF i = 1 THEN us[i] ELSE h[i-1] \o us[i]
  <2>1. Flattens(g, ss, n) /\ Flattens(h, us, n + 1)
    BY DEF n, us
  <2>2. \A i \in 1..n : i \in 1..(n+1)
    BY <1>1
  <2> QED BY <2>1, <2>2 DEF Flattens
<1>3. 0 \in A
  OBVIOUS
<1>4. ASSUME NEW k \in Nat, k \in A PROVE k + 1 \in A
  <2> SUFFICES ASSUME k + 1 \in 1..n PROVE h[k+1] = g[k+1] /\ g[k+1] \in Seq(S)
    OBVIOUS
  <2>1. CASE k = 0
    BY <1>1, <1>2, <2>1
  <2>2. CASE k # 0
    <3>1. k \in 1..n /\ (k + 1) - 1 = k /\ k + 1 # 1
      BY <1>1, <2>2
    <3>2. h[k] = g[k] /\ g[k] \in Seq(S)
      BY <1>4, <3>1
    <3>3. g[k+1] = g[k] \o ss[k+1] /\ h[k+1] = h[k] \o us[k+1]
      BY <1>2, <3>1
    <3>4. ss[k+1] \in Seq(S) /\ us[k+1] = ss[k+1]
      BY <1>1
    <3>5. g[k] \o ss[k+1] \in Seq(S)
      BY <3>2, <3>4, ConcatProperties
    <3> QED BY <3>2, <3>3, <3>4, <3>5
  <2> QED BY <2>1, <2>2
<1> HIDE DEF A
<1>5. \A k \in Nat : k \in A
  BY <1>3, <1>4, InductionInSet
<1> QED BY <1>5 DEF A, n

(* One sequence more. *)
LEMMA FlattenMore ==
    ASSUME NEW S, NEW ss \in Seq(Seq(S)), NEW t \in Seq(S)
    PROVE  /\ FlattenSeq(ss) \in Seq(S)
           /\ FlattenSeq(Append(ss, t)) = FlattenSeq(ss) \o t
<1> DEFINE n == Len(ss)
           us == Append(ss, t)
<1>1. n \in Nat /\ Len(us) = n + 1 /\ Len(us) # 0 /\ us[n+1] = t
  OBVIOUS
<1> HIDE DEF us
<1>2. PICK h : Flattens(h, us, n + 1) /\ FlattenSeq(us) = h[n+1]
  BY <1>1, FlattenByFunction
<1>3. \A i \in 1..(n+1) : h[i] = IF i = 1 THEN us[i] ELSE h[i-1] \o us[i]
  <2> HIDE DEF n
  <2> QED BY <1>2 DEF Flattens
<1>4. CASE n = 0
  <2>1. ss = <<>> /\ FlattenSeq(ss) = <<>>
    BY <1>4, EmptySeq DEF FlattenSeq
  <2>2. h[n+1] = t
    BY <1>1, <1>3, <1>4
  <2>3. <<>> \o t = t /\ <<>> \in Seq(S)
    OBVIOUS
  <2>4. FlattenSeq(us) = t
    BY <1>2, <2>2
  <2> QED BY <2>1, <2>3, <2>4 DEF us
<1>5. CASE n # 0
  <2>1. PICK g : Flattens(g, ss, n) /\ FlattenSeq(ss) = g[n]
    BY <1>1, <1>5, FlattenByFunction
  <2>2. n \in 1..n /\ n + 1 \in 1..(n+1) /\ n + 1 # 1 /\ (n + 1) - 1 = n
    BY <1>1, <1>5
  <2>3. h[n] = g[n] /\ g[n] \in Seq(S)
    BY <1>2, <2>1, <2>2, FlattensAgree DEF us
  <2>4. h[n+1] = h[n] \o t
    BY <1>1, <1>3, <2>2
  <2> QED BY <1>2, <2>1, <2>3, <2>4 DEF us
<1> QED BY <1>4, <1>5

LEMMA FlattenNothing == FlattenSeq(<<>>) = <<>>
BY DEF FlattenSeq

LEMMA FlattenOne ==
    ASSUME NEW S, NEW t \in Seq(S)
    PROVE  FlattenSeq(<<t>>) = t
<1>1. <<t>> = Append(<<>>, t) /\ <<>> \in Seq(Seq(S)) /\ <<>> \o t = t
  OBVIOUS
<1> QED BY <1>1, FlattenMore, FlattenNothing

-----------------------------------------------------------------------------
(* Select *)

Pieces(s, set) == [i \in DOMAIN s |-> IF s[i] \in set THEN <<s[i]>> ELSE <<>>]

LEMMA PiecesMore ==
    ASSUME NEW S, NEW s \in Seq(S), NEW e \in S, NEW set
    PROVE  /\ Pieces(s, set) \in Seq(Seq(S))
           /\ Pieces(Append(s, e), set) = Append(Pieces(s, set), IF e \in set THEN <<e>> ELSE <<>>)
<1> DEFINE p == Pieces(s, set)
           t == Append(s, e)
           last == IF e \in set THEN <<e>> ELSE <<>>
           q == Append(p, last)
<1>1. Len(s) \in Nat /\ DOMAIN s = 1..Len(s) /\ \A i \in 1..Len(s) : s[i] \in S
  OBVIOUS
<1>2. Len(t) = Len(s) + 1 /\ DOMAIN t = 1..(Len(s) + 1) /\ t[Len(s) + 1] = e
      /\ \A i \in 1..Len(s) : t[i] = s[i]
  OBVIOUS
<1>3. p = [i \in 1..Len(s) |-> IF s[i] \in set THEN <<s[i]>> ELSE <<>>]
  BY <1>1 DEF Pieces
<1>4. p \in Seq(Seq(S)) /\ Len(p) = Len(s) /\ \A i \in 1..Len(s) : p[i] = IF s[i] \in set THEN <<s[i]>> ELSE <<>>
  <2>1. \A i \in 1..Len(s) : (IF s[i] \in set THEN <<s[i]>> ELSE <<>>) \in Seq(S)
    BY <1>1
  <2> QED BY <1>1, <1>3, <2>1
<1> HIDE DEF p, t
<1>5. last \in Seq(S)
  OBVIOUS
<1>6. q \in Seq(Seq(S)) /\ Len(q) = Len(s) + 1 /\ q[Len(s) + 1] = last /\ \A i \in 1..Len(s) : q[i] = p[i]
  <2> HIDE DEF last
  <2> QED BY <1>1, <1>4, <1>5
<1>7. q = [i \in 1..(Len(s) + 1) |-> q[i]]
  <2> HIDE DEF q
  <2> QED BY <1>1, <1>6
<1> HIDE DEF q
<1>8. \A i \in 1..(Len(s) + 1) : q[i] = IF t[i] \in set THEN <<t[i]>> ELSE <<>>
  <2> SUFFICES ASSUME NEW i \in 1..(Len(s) + 1)
               PROVE  q[i] = IF t[i] \in set THEN <<t[i]>> ELSE <<>>
    OBVIOUS
  <2>1. CASE i = Len(s) + 1
    BY <1>2, <1>6, <2>1
  <2>2. CASE i # Len(s) + 1
    <3>1. i \in 1..Len(s)
      BY <1>1, <2>2
    <3>2. q[i] = p[i] /\ t[i] = s[i]
      BY <1>2, <1>6, <3>1
    <3> QED BY <1>4, <3>1, <3>2
  <2> QED BY <2>1, <2>2
<1>9. Pieces(t, set) = q
  BY <1>2, <1>7, <1>8 DEF Pieces
<1> QED BY <1>4, <1>9 DEF p, q, t

LEMMA SelectNothing == ASSUME NEW set PROVE Select(<<>>, set) = <<>>
<1>1. [i \in DOMAIN <<>> |-> IF <<>>[i] \in set THEN << <<>>[i] >> ELSE <<>>] = <<>>
  OBVIOUS
<1> QED BY <1>1, FlattenNothing DEF Select

One(e, set) == IF e \in set THEN <<e>> ELSE <<>>

(* One element more. *)
LEMMA SelectMore ==
    ASSUME NEW S, NEW s \in Seq(S), NEW e \in S, NEW set
    PROVE  /\ Select(s, set) \in Seq(S) /\ One(e, set) \in Seq(S)
           /\ Select(Append(s, e), set) = Select(s, set) \o One(e, set)
<1>1. One(e, set) \in Seq(S)
  BY DEF One
<1>2. Select(s, set) = FlattenSeq(Pieces(s, set)) /\ Select(Append(s, e), set) = FlattenSeq(Pieces(Append(s, e), set))
  BY DEF Select, Pieces
<1>3. Pieces(s, set) \in Seq(Seq(S)) /\ Pieces(Append(s, e), set) = Append(Pieces(s, set), One(e, set))
  BY PiecesMore DEF One
<1> QED BY <1>1, <1>2, <1>3, FlattenMore

(* The provers take an equality of sequences apart where they see \o or     *)
(* Append. Under these names they do not.                                  *)
Then(a, b) == a \o b
More(s, e) == Append(s, e)
First(e, s) == <<e>> \o s

LEMMA ThenIn ==
    ASSUME NEW S, NEW a \in Seq(S), NEW b \in Seq(S)
    PROVE  Then(a, b) \in Seq(S)
BY DEF Then

LEMMA ThenAgain ==
    ASSUME NEW S, NEW a \in Seq(S), NEW b \in Seq(S), NEW c \in Seq(S)
    PROVE  Then(Then(a, b), c) = Then(a, Then(b, c))
BY ConcatAssociative DEF Then

LEMMA ThenNothing ==
    ASSUME NEW S, NEW a \in Seq(S)
    PROVE  Then(a, <<>>) = a /\ Then(<<>>, a) = a
BY DEF Then

LEMMA MoreIn ==
    ASSUME NEW S, NEW s \in Seq(S), NEW e \in S
    PROVE  More(s, e) \in Seq(S)
BY DEF More

LEMMA MoreIsThen ==
    ASSUME NEW S, NEW s \in Seq(S), NEW e \in S
    PROVE  More(s, e) = Then(s, <<e>>)
<1>1. Append(s, e) = s \o <<e>>
  BY AppendIsConcat, Zenon
<1> QED BY <1>1, Zenon DEF More, Then

LEMMA ThenMore ==
    ASSUME NEW S, NEW s \in Seq(S), NEW t \in Seq(S), NEW e \in S
    PROVE  Then(s, More(t, e)) = More(Then(s, t), e)
<1> DEFINE one == <<e>>
<1>1. one \in Seq(S) /\ Then(s, t) \in Seq(S)
  BY ThenIn
<1>2. More(t, e) = Then(t, one) /\ More(Then(s, t), e) = Then(Then(s, t), one)
  BY <1>1, MoreIsThen
<1> HIDE DEF one
<1>3. Then(Then(s, t), one) = Then(s, Then(t, one))
  BY <1>1, ThenAgain
<1> QED BY <1>2, <1>3

LEMMA MoreOrNothing ==
    ASSUME NEW S, NEW t \in Seq(S)
    PROVE  \/ t = <<>>
           \/ \E u \in Seq(S) : \E e \in S : t = More(u, e) /\ Len(t) = Len(u) + 1
<1> SUFFICES ASSUME t # <<>>
             PROVE  \E u \in Seq(S) : \E e \in S : t = More(u, e) /\ Len(t) = Len(u) + 1
  OBVIOUS
<1>1. PICK u \in Seq(S), e \in S : t = Append(u, e)
  BY SequenceEmptyOrAppend
<1>2. t = More(u, e)
  BY <1>1 DEF More
<1>3. Len(t) = Len(u) + 1
  BY <1>1
<1> QED BY <1>2, <1>3

LEMMA SelectOneMore ==
    ASSUME NEW S, NEW s \in Seq(S), NEW e \in S, NEW set
    PROVE  /\ Select(s, set) \in Seq(S) /\ One(e, set) \in Seq(S)
           /\ Select(More(s, e), set) = Then(Select(s, set), One(e, set))
BY SelectMore DEF More, Then

LEMMA SelectIn ==
    ASSUME NEW S, NEW s \in Seq(S), NEW set
    PROVE  Select(s, set) \in Seq(S)
<1>1. CASE S = {}
  <2>1. s = <<>>
    BY <1>1
  <2> QED BY <2>1, SelectNothing
<1>2. ASSUME NEW e \in S PROVE Select(s, set) \in Seq(S)
  BY SelectOneMore
<1> QED BY <1>1, <1>2

LEMMA SelectThen ==
    ASSUME NEW S, NEW s \in Seq(S), NEW set
    PROVE  \A t \in Seq(S) : Select(Then(s, t), set) = Then(Select(s, set), Select(t, set))
<1> DEFINE Fits(t) == Select(Then(s, t), set) = Then(Select(s, set), Select(t, set))
           A == {n \in Nat : \A t \in Seq(S) : Len(t) = n => Fits(t)}
<1>1. Select(s, set) \in Seq(S)
  BY SelectIn
<1>2. 0 \in A
  <2> SUFFICES ASSUME NEW t \in Seq(S), Len(t) = 0 PROVE Fits(t)
    OBVIOUS
  <2>1. t = <<>>
    BY EmptySeq
  <2>2. Then(s, t) = s /\ Then(Select(s, set), <<>>) = Select(s, set)
    BY <1>1, <2>1, ThenNothing
  <2> QED BY <2>1, <2>2, SelectNothing
<1>3. ASSUME NEW n \in Nat, n \in A PROVE n + 1 \in A
  <2> SUFFICES ASSUME NEW t \in Seq(S), Len(t) = n + 1 PROVE Fits(t)
    OBVIOUS
  <2>1. PICK u \in Seq(S) : \E e \in S : t = More(u, e) /\ Len(t) = Len(u) + 1
    <3>1. t # <<>>
      OBVIOUS
    <3> QED BY <3>1, MoreOrNothing
  <2>2. PICK e \in S : t = More(u, e) /\ Len(t) = Len(u) + 1
    BY <2>1
  <2>3. Fits(u)
    <3>1. Len(u) = n
      BY <2>2
    <3> HIDE DEF Fits
    <3> QED BY <1>3, <3>1
  <2>4. Then(s, u) \in Seq(S) /\ Then(s, t) = More(Then(s, u), e)
    BY <2>2, ThenIn, ThenMore
  <2>5. Select(Then(s, t), set) = Then(Select(Then(s, u), set), One(e, set))
    BY <2>4, SelectOneMore
  <2>6. /\ Select(u, set) \in Seq(S) /\ One(e, set) \in Seq(S)
        /\ Select(t, set) = Then(Select(u, set), One(e, set))
    BY <2>2, SelectOneMore
  <2> QED BY <1>1, <2>3, <2>5, <2>6, ThenAgain
<1> HIDE DEF A
<1>4. \A n \in Nat : n \in A
  BY <1>2, <1>3, InductionInSet
<1> QED BY <1>4, LenProperties DEF A

LEMMA SelectOne ==
    ASSUME NEW e, NEW set
    PROVE  Select(<<e>>, set) = One(e, set)
<1> DEFINE S == {e}
           none == <<>>
<1>1. none \in Seq(S) /\ e \in S
  OBVIOUS
<1>2. <<e>> = More(none, e)
  BY DEF More
<1> HIDE DEF none, S
<1>3. Select(More(none, e), set) = Then(Select(none, set), One(e, set)) /\ One(e, set) \in Seq(S)
  BY <1>1, SelectOneMore
<1>4. Then(<<>>, One(e, set)) = One(e, set)
  BY <1>3, ThenNothing
<1> QED BY <1>2, <1>3, <1>4, SelectNothing DEF none

(* The first element is read off. *)
LEMMA SelectHead ==
    ASSUME NEW S, NEW s \in Seq(S), s # <<>>, NEW set
    PROVE  /\ Head(s) \in S /\ Tail(s) \in Seq(S)
           /\ Select(Tail(s), set) \in Seq(S) /\ One(Head(s), set) \in Seq(S)
           /\ Select(s, set) = Then(One(Head(s), set), Select(Tail(s), set))
<1> DEFINE h == Head(s)
           t == Tail(s)
           single == <<h>>
<1>1. h \in S /\ t \in Seq(S) /\ s = single \o t
  BY HeadTailProperties
<1>2. single \in Seq(S) /\ s = Then(single, t)
  BY <1>1 DEF Then
<1>3. One(h, set) \in Seq(S)
  BY <1>1 DEF One
<1>4. Select(single, set) = One(h, set)
  BY SelectOne
<1> HIDE DEF h, t, single
<1>5. Select(t, set) \in Seq(S) /\ Select(s, set) = Then(Select(single, set), Select(t, set))
  BY <1>1, <1>2, SelectIn, SelectThen
<1> QED BY <1>1, <1>3, <1>4, <1>5 DEF h, t

LEMMA MoreAt ==
    ASSUME NEW S, NEW s \in Seq(S), NEW e \in S
    PROVE  /\ Len(s) \in Nat /\ Len(More(s, e)) = Len(s) + 1 /\ More(s, e)[Len(s) + 1] = e
           /\ \A i \in 1..Len(s) : More(s, e)[i] = s[i]
BY AppendProperties DEF More

LEMMA FirstAt ==
    ASSUME NEW S, NEW t \in Seq(S), NEW e \in S
    PROVE  /\ First(e, t) \in Seq(S) /\ Len(t) \in Nat /\ Len(First(e, t)) = 1 + Len(t)
           /\ First(e, t)[1] = e
           /\ \A i \in 1..Len(t) : First(e, t)[1 + i] = t[i]
<1> DEFINE one == <<e>>
<1>1. one \in Seq(S) /\ Len(one) = 1 /\ one[1] = e /\ Len(t) \in Nat
  OBVIOUS
<1> HIDE DEF one
<1> DEFINE c == one \o t
<1>2. /\ c \in Seq(S) /\ Len(c) = Len(one) + Len(t)
      /\ \A i \in 1..(Len(one) + Len(t)) : c[i] = IF i <= Len(one) THEN one[i] ELSE t[i - Len(one)]
  BY <1>1, ConcatProperties
<1> HIDE DEF c
<1>3. c[1] = e
  BY <1>1, <1>2
<1>4. ASSUME NEW i \in 1..Len(t) PROVE c[1 + i] = t[i]
  <2>1. 1 + i \in 1..(1 + Len(t)) /\ ~(1 + i <= 1) /\ (1 + i) - 1 = i
    BY <1>1
  <2> QED BY <1>1, <1>2, <2>1
<1> QED BY <1>1, <1>2, <1>3, <1>4 DEF one, c, First

(* An element goes from the front of one to the end of the other.          *)
LEMMA ThenFirst ==
    ASSUME NEW S, NEW s \in Seq(S), NEW t \in Seq(S), NEW e \in S
    PROVE  Then(s, First(e, t)) = Then(More(s, e), t)
<1> DEFINE one == <<e>>
<1>1. one \in Seq(S)
  OBVIOUS
<1>2. More(s, e) = Then(s, one)
  BY MoreIsThen
<1>3. First(e, t) = Then(one, t)
  BY DEF First, Then
<1> HIDE DEF one
<1>4. Then(Then(s, one), t) = Then(s, Then(one, t))
  BY <1>1, ThenAgain
<1> QED BY <1>2, <1>3, <1>4

LEMMA FlattenOneMore ==
    ASSUME NEW S, NEW ss \in Seq(Seq(S)), NEW t \in Seq(S)
    PROVE  /\ FlattenSeq(ss) \in Seq(S)
           /\ FlattenSeq(More(ss, t)) = Then(FlattenSeq(ss), t)
BY FlattenMore DEF More, Then

LEMMA ThenIsLonger ==
    ASSUME NEW S, NEW a \in Seq(S), NEW b \in Seq(S)
    PROVE  IsPrefix(a, Then(a, b))
<1> DEFINE c == Then(a, b)
<1>1. /\ c \in Seq(S) /\ Len(c) = Len(a) + Len(b)
      /\ Len(a) \in Nat /\ Len(b) \in Nat
      /\ \A i \in 1..Len(a) : c[i] = a[i]
  BY ConcatProperties DEF Then
<1> HIDE DEF c
<1> DEFINE u == SubSeq(a, 1, Len(a))
           v == SubSeq(c, 1, Len(a))
<1>2. u \in Seq(S) /\ Len(u) = Len(a) /\ \A i \in 1..Len(a) : u[i] = a[i]
  OBVIOUS
<1>3. v \in Seq(S) /\ Len(v) = Len(a) /\ \A i \in 1..Len(a) : v[i] = c[i]
  BY <1>1
<1> HIDE DEF u, v
<1>4. u = v
  BY <1>1, <1>2, <1>3, SeqEqual
<1> QED BY <1>1, <1>4 DEF IsPrefix, u, v, c

-----------------------------------------------------------------------------
(* What the events of a line say, from the n-th on.                        *)
Rest(events, n) == [i \in 1..(Len(events) - n) |-> events[n + i].message]

LEMMA RestIn ==
    ASSUME NEW M, NEW E, \A e \in E : e.message \in M, NEW es \in Seq(E), NEW n \in 0..Len(es)
    PROVE  Rest(es, n) \in Seq(M)
<1>1. Len(es) - n \in Nat /\ \A i \in 1..(Len(es) - n) : n + i \in 1..Len(es)
  OBVIOUS
<1>2. \A i \in 1..Len(es) : es[i].message \in M
  <2>1. \A i \in 1..Len(es) : es[i] \in E
    OBVIOUS
  <2> QED BY <2>1
<1>3. \A i \in 1..(Len(es) - n) : es[n + i].message \in M
  BY <1>1, <1>2
<1> QED BY <1>1, <1>3 DEF Rest

LEMMA RestNothing ==
    ASSUME NEW M, NEW E, \A e \in E : e.message \in M, NEW es \in Seq(E)
    PROVE  Rest(es, Len(es)) = <<>> /\ Rest(<<>>, 0) = <<>>
<1>1. Len(es) \in Nat /\ Len(es) - Len(es) = 0 /\ Len(<<>>) - 0 = 0
  OBVIOUS
<1>2. \A f : [i \in 1..0 |-> f[i].message] = <<>>
  OBVIOUS
<1> QED BY <1>1, <1>2 DEF Rest

LEMMA RestNext ==
    ASSUME NEW M, NEW E, \A e \in E : e.message \in M, NEW es \in Seq(E), NEW n \in Nat, n < Len(es)
    PROVE  /\ es[n+1].message \in M /\ Rest(es, n + 1) \in Seq(M)
           /\ Rest(es, n) = First(es[n+1].message, Rest(es, n + 1))
<1> DEFINE m == es[n+1].message
           r == Rest(es, n)
           t == Rest(es, n + 1)
           c == First(m, t)
<1>1. Len(es) \in Nat /\ n + 1 \in 1..Len(es) /\ n \in 0..Len(es) /\ n + 1 \in 0..Len(es)
  OBVIOUS
<1>2. m \in M
  <2>1. es[n+1] \in E
    BY <1>1
  <2> QED BY <2>1
<1>3. r \in Seq(M) /\ t \in Seq(M)
  BY <1>1, RestIn
<1>4. /\ Len(r) = Len(es) - n /\ \A i \in 1..(Len(es) - n) : r[i] = es[n + i].message
      /\ Len(t) = Len(es) - (n + 1) /\ \A i \in 1..(Len(es) - (n + 1)) : t[i] = es[(n + 1) + i].message
  BY <1>1 DEF Rest
<1>5. r[1] = m
  BY <1>1, <1>4
<1> HIDE DEF r, t, m
<1>6. /\ c \in Seq(M) /\ Len(c) = 1 + Len(t) /\ c[1] = m
      /\ \A i \in 1..Len(t) : c[1 + i] = t[i]
  BY <1>2, <1>3, FirstAt
<1> HIDE DEF c
<1>7. Len(c) = Len(r)
  BY <1>1, <1>4, <1>6
<1>8. ASSUME NEW i \in 1..Len(r) PROVE r[i] = c[i]
  <2>1. CASE i = 1
    BY <1>5, <1>6, <2>1
  <2>2. CASE i # 1
    <3> DEFINE k == i - 1
    <3>1. /\ k \in 1..(Len(es) - (n + 1)) /\ i = 1 + k /\ (n + 1) + k = n + i
          /\ i \in 1..(Len(es) - n)
      BY <1>1, <1>4, <2>2
    <3> HIDE DEF k
    <3>2. c[i] = t[k] /\ t[k] = es[(n + 1) + k].message
      BY <1>4, <1>6, <3>1
    <3>3. r[i] = es[n + i].message
      BY <1>4, <3>1
    <3> QED BY <3>1, <3>2, <3>3
  <2> QED BY <2>1, <2>2
<1>9. r = c
  BY <1>3, <1>6, <1>7, <1>8, SeqEqual
<1> QED BY <1>2, <1>3, <1>9 DEF r, t, m, c

LEMMA RestMore ==
    ASSUME NEW M, NEW E, \A e \in E : e.message \in M, NEW es \in Seq(E), NEW e \in E
    PROVE  /\ e.message \in M /\ Rest(es, 0) \in Seq(M)
           /\ Rest(More(es, e), 0) = More(Rest(es, 0), e.message)
<1> DEFINE fs == More(es, e)
           r == Rest(es, 0)
           t == Rest(fs, 0)
           m == e.message
           c == More(r, m)
<1>1. fs \in Seq(E) /\ Len(fs) = Len(es) + 1 /\ fs[Len(es) + 1] = e
      /\ Len(es) \in Nat /\ \A i \in 1..Len(es) : fs[i] = es[i]
  <2>1. fs \in Seq(E)
    BY MoreIn
  <2>2. Len(fs) = Len(es) + 1 /\ fs[Len(es) + 1] = e /\ \A i \in 1..Len(es) : fs[i] = es[i]
    BY MoreAt
  <2>3. Len(es) \in Nat
    OBVIOUS
  <2> QED BY <2>1, <2>2, <2>3
<1>2. m \in M
  OBVIOUS
<1> HIDE DEF fs
<1>3. r \in Seq(M) /\ t \in Seq(M)
  <2>1. 0 \in 0..Len(es) /\ 0 \in 0..Len(fs)
    BY <1>1
  <2> QED BY <1>1, <2>1, RestIn
<1>4. /\ Len(r) = Len(es) /\ \A i \in 1..Len(es) : r[i] = es[i].message
      /\ Len(t) = Len(es) + 1 /\ \A i \in 1..(Len(es) + 1) : t[i] = fs[i].message
  BY <1>1 DEF Rest
<1> HIDE DEF r, t, m
<1>6. /\ c \in Seq(M) /\ Len(c) = Len(r) + 1 /\ c[Len(r) + 1] = m
      /\ \A i \in 1..Len(r) : c[i] = r[i]
  BY <1>2, <1>3, MoreIn, MoreAt
<1> HIDE DEF c
<1>8. ASSUME NEW i \in 1..Len(t) PROVE t[i] = c[i]
  <2>1. CASE i = Len(es) + 1
    BY <1>1, <1>4, <1>6, <2>1 DEF m
  <2>2. CASE i # Len(es) + 1
    <3>1. i \in 1..Len(es) /\ i \in 1..(Len(es) + 1)
      BY <1>1, <1>4, <2>2
    <3> QED BY <1>1, <1>4, <1>6, <3>1
  <2> QED BY <2>1, <2>2
<1>9. t = c
  BY <1>1, <1>3, <1>4, <1>6, <1>8, SeqEqual
<1> QED BY <1>2, <1>3, <1>9 DEF r, t, m, c, fs

(* The messages of entries of a log.                                       *)
Logs(entries) == [i \in DOMAIN entries |-> entries[i].event.message]

LEMMA LogsIn ==
    ASSUME NEW M, NEW E, \A e \in E : e.event.message \in M, NEW es \in Seq(E)
    PROVE  Logs(es) \in Seq(M) /\ Len(Logs(es)) = Len(es) /\ \A i \in 1..Len(es) : Logs(es)[i] = es[i].event.message
<1>1. DOMAIN es = 1..Len(es) /\ Len(es) \in Nat /\ \A i \in 1..Len(es) : es[i] \in E
  OBVIOUS
<1>2. \A i \in 1..Len(es) : es[i].event.message \in M
  BY <1>1
<1>3. Logs(es) = [i \in 1..Len(es) |-> es[i].event.message]
  BY <1>1 DEF Logs
<1> QED BY <1>1, <1>2, <1>3

LEMMA LogsMore ==
    ASSUME NEW M, NEW E, \A e \in E : e.event.message \in M, NEW es \in Seq(E), NEW e \in E
    PROVE  Logs(More(es, e)) = More(Logs(es), e.event.message)
<1> DEFINE m == e.event.message
           fs == More(es, e)
           r == Logs(es)
           t == Logs(fs)
           c == More(r, m)
<1>2. m \in M
  OBVIOUS
<1>3. fs \in Seq(E) /\ Len(fs) = Len(es) + 1 /\ fs[Len(es) + 1] = e
      /\ Len(es) \in Nat /\ \A i \in 1..Len(es) : fs[i] = es[i]
  <2>1. fs \in Seq(E)
    BY MoreIn
  <2>2. Len(fs) = Len(es) + 1 /\ fs[Len(es) + 1] = e /\ \A i \in 1..Len(es) : fs[i] = es[i]
    BY MoreAt
  <2>3. Len(es) \in Nat
    OBVIOUS
  <2> QED BY <2>1, <2>2, <2>3
<1> HIDE DEF fs
<1>4. /\ r \in Seq(M) /\ Len(r) = Len(es) /\ \A i \in 1..Len(es) : r[i] = es[i].event.message
      /\ t \in Seq(M) /\ Len(t) = Len(es) + 1 /\ \A i \in 1..(Len(es) + 1) : t[i] = fs[i].event.message
  BY <1>3, LogsIn
<1> HIDE DEF r, t, m
<1>5. r \in Seq(M)
  BY <1>4
<1>6. /\ c \in Seq(M) /\ Len(c) = Len(r) + 1 /\ c[Len(r) + 1] = m
      /\ \A i \in 1..Len(r) : c[i] = r[i]
  BY <1>2, <1>5, MoreIn, MoreAt
<1> HIDE DEF c
<1>8. ASSUME NEW i \in 1..Len(t) PROVE t[i] = c[i]
  <2>1. CASE i = Len(es) + 1
    BY <1>3, <1>4, <1>6, <2>1 DEF m
  <2>2. CASE i # Len(es) + 1
    <3>1. i \in 1..Len(es) /\ i \in 1..(Len(es) + 1)
      BY <1>3, <1>4, <2>2
    <3> QED BY <1>3, <1>4, <1>6, <3>1
  <2> QED BY <2>1, <2>2
<1>9. t = c
  BY <1>3, <1>4, <1>6, <1>8, SeqEqual
<1> QED BY <1>9 DEF r, t, m, c, fs

(* The log of those in set, when one entry more is logged.                 *)
Speak(E, M) == \A e \in E : e.event.message \in M

LEMMA SelectedLogs ==
    ASSUME NEW M, NEW E, Speak(E, M), NEW es \in Seq(E), NEW e \in E, NEW set
    PROVE  /\ Logs(Select(es, set)) \in Seq(M) /\ e.event.message \in M
           /\ e \in set => Logs(Select(More(es, e), set)) = More(Logs(Select(es, set)), e.event.message)
           /\ e \notin set => Logs(Select(More(es, e), set)) = Logs(Select(es, set))
<1>0. \A a \in E : a.event.message \in M
  BY DEF Speak
<1>1. Select(es, set) \in Seq(E) /\ Select(More(es, e), set) = Then(Select(es, set), One(e, set))
  BY SelectOneMore
<1>2. Logs(Select(es, set)) \in Seq(M) /\ e.event.message \in M
  BY <1>0, <1>1, LogsIn
<1>3. CASE e \in set
  <2>1. Select(More(es, e), set) = More(Select(es, set), e)
    <3>1. One(e, set) = <<e>>
      BY <1>3 DEF One
    <3>2. More(Select(es, set), e) = Then(Select(es, set), <<e>>)
      BY <1>1, MoreIsThen
    <3> QED BY <1>1, <3>1, <3>2
  <2>2. Logs(More(Select(es, set), e)) = More(Logs(Select(es, set)), e.event.message)
    BY <1>0, <1>1, LogsMore
  <2> QED BY <1>2, <1>3, <2>1, <2>2
<1>4. CASE e \notin set
  <2>1. One(e, set) = <<>>
    BY <1>4 DEF One
  <2>2. Then(Select(es, set), <<>>) = Select(es, set)
    BY <1>1, ThenNothing
  <2> QED BY <1>1, <1>2, <1>4, <2>1, <2>2
<1> QED BY <1>3, <1>4
=============================================================================
