---------------------------- MODULE Policy_proofs ----------------------------
(***************************************************************************)
(* What a policy decides, for every rule, client, tool and event. The      *)
(* heart is matchPattern: that looking for the leftmost occurrence of each *)
(* part, without ever going back, misses no way to read the wildcards.     *)
(***************************************************************************)
EXTENDS Policy, Selection_proofs

(* Extrema of sets of numbers. *)
LEMMA MinIsLeast ==
    ASSUME NEW S \in SUBSET Nat, S # {}
    PROVE  Min(S) \in S /\ \A y \in S : Min(S) <= y
<1>1. \E x \in S : \A y \in S : ~(<<y, x>> \in OpToRel(<, Nat))
  BY NatLessThanWellFounded, WFMin
<1>2. PICK x \in S : \A y \in S : ~(<<y, x>> \in OpToRel(<, Nat))
  BY <1>1
<1>3. ASSUME NEW y \in S PROVE x <= y
  <2>1. x \in Nat /\ y \in Nat /\ ~(y < x)
    BY <1>2 DEF OpToRel
  <2> QED BY <2>1
<1> QED BY <1>3 DEF Min

LEMMA MaxIsGreatest ==
    ASSUME NEW n \in Nat, NEW S \in SUBSET (0..n), S # {}
    PROVE  Max(S) \in S /\ \A y \in S : y <= Max(S)
<1> DEFINE T == {n - x : x \in S}
<1>1. T \in SUBSET Nat /\ T # {}
  <2>1. \A x \in S : x \in 0..n
    OBVIOUS
  <2>2. \A x \in S : n - x \in Nat
    BY <2>1
  <2> QED BY <2>2
<1>2. Min(T) \in T /\ \A y \in T : Min(T) <= y
  BY <1>1, MinIsLeast
<1>3. PICK x \in S : Min(T) = n - x
  BY <1>2
<1>4. \A y \in S : y <= x
  <2>1. \A y \in S : n - y \in T
    OBVIOUS
  <2> HIDE DEF T
  <2> QED BY <1>2, <1>3, <2>1
<1> QED BY <1>4 DEF Max

-----------------------------------------------------------------------------
(* The recursive function of StandsFor satisfies its equation. *)

Row(pattern, s, g, i) ==
    IF i > Len(pattern) THEN {Len(s) + 1}
    ELSE IF pattern[i] = Star THEN {j \in 1..Len(s) + 1 : \E k \in g[i + 1] : j <= k}
    ELSE {j \in 1..Len(s) : s[j] = pattern[i] /\ j + 1 \in g[i + 1]}

IsTable(pattern, s, g, a) ==
    g = [i \in a..(Len(pattern) + 1) |-> Row(pattern, s, g, i)]

LEMMA TableExists ==
    ASSUME NEW pattern, NEW s, Len(pattern) \in Nat
    PROVE  \E g : IsTable(pattern, s, g, 1)
<1> DEFINE n == Len(pattern)
           S == {d \in Nat : d <= n => \E g : IsTable(pattern, s, g, (n + 1) - d)}
<1>1. 0 \in S
  <2> DEFINE g == [i \in (n + 1)..(n + 1) |-> {Len(s) + 1}]
  <2>1. \A i \in (n + 1)..(n + 1) : Row(pattern, s, g, i) = {Len(s) + 1}
    BY DEF Row
  <2>2. g = [i \in (n + 1)..(n + 1) |-> Row(pattern, s, g, i)]
    BY <2>1
  <2>3. IsTable(pattern, s, g, (n + 1) - 0)
    <3>1. (n + 1) - 0 = n + 1
      OBVIOUS
    <3> HIDE DEF g
    <3> QED BY <2>2, <3>1 DEF IsTable
  <2> QED BY <2>3
<1>2. ASSUME NEW d \in Nat, d \in S PROVE d + 1 \in S
  <2> SUFFICES ASSUME d + 1 <= n PROVE \E g : IsTable(pattern, s, g, (n + 1) - (d + 1))
    OBVIOUS
  <2>1. PICK g : IsTable(pattern, s, g, (n + 1) - d)
    BY <1>2
  <2> DEFINE a == n - d
             h == [i \in a..(n + 1) |-> IF i = a THEN Row(pattern, s, g, a) ELSE g[i]]
  <2>2. a \in Nat /\ (n + 1) - d = a + 1 /\ (n + 1) - (d + 1) = a /\ a <= n /\ n \in Nat
    OBVIOUS
  <2> HIDE DEF n
  <2>3. g = [i \in (a + 1)..(n + 1) |-> Row(pattern, s, g, i)]
    BY <2>1, <2>2 DEF IsTable, n
  <2> HIDE DEF a
  <2>4. \A i \in (a + 1)..(n + 1) : h[i] = g[i]
    BY <2>2
  <2>5. \A i \in a..n : h[i + 1] = g[i + 1]
    BY <2>2, <2>4
  <2>6. ASSUME NEW i \in a..(n + 1) PROVE h[i] = Row(pattern, s, h, i)
    <3>1. Row(pattern, s, h, i) = Row(pattern, s, g, i)
      <4>1. CASE i = n + 1
        BY <4>1, <2>2 DEF Row, n
      <4>2. CASE i # n + 1
        <5>1. i \in a..n
          BY <4>2, <2>2
        <5>2. h[i + 1] = g[i + 1]
          BY <5>1, <2>5
        <5> HIDE DEF h
        <5> QED BY <5>2 DEF Row
      <4> QED BY <4>1, <4>2
    <3>2. h[i] = Row(pattern, s, g, i)
      <4>1. CASE i = a
        BY <4>1
      <4>2. CASE i # a
        <5>1. i \in (a + 1)..(n + 1)
          BY <4>2, <2>2
        <5> QED BY <5>1, <2>3, <2>4
      <4> QED BY <4>1, <4>2
    <3> QED BY <3>1, <3>2
  <2>7. h = [i \in a..(n + 1) |-> h[i]]
    OBVIOUS
  <2> HIDE DEF h
  <2>8. h = [i \in a..(n + 1) |-> Row(pattern, s, h, i)]
    BY <2>6, <2>7
  <2>9. IsTable(pattern, s, h, (n + 1) - (d + 1))
    BY <2>2, <2>8 DEF IsTable, n
  <2> QED BY <2>9
<1> HIDE DEF S
<1>3. n \in S
  BY <1>1, <1>2, InductionInSet
<1>4. (n + 1) - n = 1
  OBVIOUS
<1> QED BY <1>3, <1>4 DEF S

Table(pattern, s) == CHOOSE g : IsTable(pattern, s, g, 1)

(* Place j of s is one from which what is left is something that the       *)
(* pattern from i on stands for.                                           *)
At(pattern, s, i, j) == j \in Table(pattern, s)[i]

LEMMA StandsAtOnce ==
    ASSUME NEW pattern, NEW s
    PROVE  StandsFor(pattern, s) <=> At(pattern, s, 1, 1)
<1>1. Table(pattern, s) =
        CHOOSE g : g = [i \in 1..(Len(pattern) + 1) |->
            IF i > Len(pattern) THEN {Len(s) + 1}
            ELSE IF pattern[i] = Star THEN {j \in 1..Len(s) + 1 : \E k \in g[i + 1] : j <= k}
            ELSE {j \in 1..Len(s) : s[j] = pattern[i] /\ j + 1 \in g[i + 1]}]
  BY DEF Table, IsTable, Row
<1> QED BY <1>1 DEF StandsFor, At

LEMMA TableRows ==
    ASSUME NEW pattern, NEW s, Len(pattern) \in Nat, NEW i \in 1..(Len(pattern) + 1)
    PROVE  Table(pattern, s)[i] = Row(pattern, s, Table(pattern, s), i)
<1>1. IsTable(pattern, s, Table(pattern, s), 1)
  BY TableExists DEF Table
<1> DEFINE g == Table(pattern, s)
<1>2. g = [x \in 1..(Len(pattern) + 1) |-> Row(pattern, s, g, x)]
  BY <1>1 DEF IsTable
<1> HIDE DEF g
<1> QED BY <1>2 DEF g

-----------------------------------------------------------------------------
(* From a place of the pattern to the next one, and from a star on *)

LEMMA AtEnd ==
    ASSUME NEW C, NEW pattern \in Seq(C), NEW s \in Seq(C), NEW j
    PROVE  At(pattern, s, Len(pattern) + 1, j) <=> j = Len(s) + 1
<1>1. Len(pattern) \in Nat /\ Len(pattern) + 1 \in 1..(Len(pattern) + 1) /\ Len(pattern) + 1 > Len(pattern)
  OBVIOUS
<1>2. Table(pattern, s)[Len(pattern) + 1] = Row(pattern, s, Table(pattern, s), Len(pattern) + 1)
  BY <1>1, TableRows
<1>3. Row(pattern, s, Table(pattern, s), Len(pattern) + 1) = {Len(s) + 1}
  BY <1>1 DEF Row
<1> QED BY <1>2, <1>3 DEF At

LEMMA AtStar ==
    ASSUME NEW C, NEW pattern \in Seq(C), NEW s \in Seq(C), NEW j, NEW i \in Stars(pattern)
    PROVE  At(pattern, s, i, j) <=>
             j \in 1..(Len(s) + 1) /\ \E k : At(pattern, s, i + 1, k) /\ j <= k
<1>1. Len(pattern) \in Nat /\ i \in 1..(Len(pattern) + 1) /\ ~(i > Len(pattern)) /\ pattern[i] = Star
  BY DEF Stars
<1>2. Table(pattern, s)[i] = Row(pattern, s, Table(pattern, s), i)
  BY <1>1, TableRows
<1>3. Row(pattern, s, Table(pattern, s), i) = 
        {x \in 1..Len(s) + 1 : \E k \in Table(pattern, s)[i + 1] : x <= k}
  BY <1>1 DEF Row
<1> QED BY <1>2, <1>3 DEF At

LEMMA AtLetter ==
    ASSUME NEW C, NEW pattern \in Seq(C), NEW s \in Seq(C), NEW j,
           NEW i \in 1..Len(pattern), i \notin Stars(pattern)
    PROVE  At(pattern, s, i, j) <=>
             j \in 1..Len(s) /\ s[j] = pattern[i] /\ At(pattern, s, i + 1, j + 1)
<1>1. Len(pattern) \in Nat /\ i \in 1..(Len(pattern) + 1) /\ ~(i > Len(pattern)) /\ pattern[i] # Star
  BY DEF Stars
<1>2. Table(pattern, s)[i] = Row(pattern, s, Table(pattern, s), i)
  BY <1>1, TableRows
<1>3. Row(pattern, s, Table(pattern, s), i) = 
        {x \in 1..Len(s) : s[x] = pattern[i] /\ x + 1 \in Table(pattern, s)[i + 1]}
  BY <1>1 DEF Row
<1> QED BY <1>2, <1>3 DEF At

LEMMA AtRange ==
    ASSUME NEW C, NEW pattern \in Seq(C), NEW s \in Seq(C), NEW j,
           NEW i \in 1..(Len(pattern) + 1), At(pattern, s, i, j)
    PROVE  j \in 1..(Len(s) + 1)
<1>1. Len(pattern) \in Nat /\ Len(s) \in Nat
  OBVIOUS
<1>2. CASE i = Len(pattern) + 1
  BY <1>1, <1>2, AtEnd
<1>3. CASE i \in Stars(pattern)
  BY <1>3, AtStar
<1>4. CASE i \in 1..Len(pattern) /\ i \notin Stars(pattern)
  BY <1>1, <1>4, AtLetter
<1> QED BY <1>1, <1>2, <1>3, <1>4

(* Behind a star, less may be skipped. *)
LEMMA StarReachesBack ==
    ASSUME NEW C, NEW pattern \in Seq(C), NEW s \in Seq(C), NEW i \in Stars(pattern),
           NEW k, At(pattern, s, i, k), NEW j \in 1..(Len(s) + 1), j <= k
    PROVE  At(pattern, s, i, j)
<1>1. i \in 1..Len(pattern) /\ i + 1 \in 1..(Len(pattern) + 1) /\ i \in 1..(Len(pattern) + 1)
  BY DEF Stars
<1>2. k \in 1..(Len(s) + 1)
  BY <1>1, AtRange
<1>3. PICK q : At(pattern, s, i + 1, q) /\ k <= q
  BY AtStar
<1>4. q \in 1..(Len(s) + 1)
  BY <1>1, <1>3, AtRange
<1>5. j <= q
  BY <1>2, <1>3, <1>4
<1> QED BY <1>3, <1>5, AtStar

(* Letters that do not include a star stand for themselves. *)
Plain(pattern, a, l) == \A i \in a..(a + l - 1) : i \notin Stars(pattern)

Same(pattern, s, a, j, l) == j + l <= Len(s) + 1 /\ \A x \in 0..(l - 1) : s[j + x] = pattern[a + x]

LEMMA AtLetters ==
    ASSUME NEW C, NEW pattern \in Seq(C), NEW s \in Seq(C)
    PROVE  \A l \in Nat : \A a \in 1..(Len(pattern) + 1), j \in 1..(Len(s) + 1) :
              a + l <= Len(pattern) + 1 /\ Plain(pattern, a, l) =>
              (At(pattern, s, a, j) <=> Same(pattern, s, a, j, l) /\ At(pattern, s, a + l, j + l))
<1> DEFINE n == Len(pattern)
           m == Len(s)
           Holds(a, j, l) == At(pattern, s, a, j) <=> Same(pattern, s, a, j, l) /\ At(pattern, s, a + l, j + l)
           S == {l \in Nat : \A a \in 1..(n + 1), j \in 1..(m + 1) :
                               a + l <= n + 1 /\ Plain(pattern, a, l) => Holds(a, j, l)}
<1>0. n \in Nat /\ m \in Nat
  OBVIOUS
<1>1. 0 \in S
  <2> SUFFICES ASSUME NEW a \in 1..(n + 1), NEW j \in 1..(m + 1) PROVE Holds(a, j, 0)
    OBVIOUS
  <2>1. a + 0 = a /\ j + 0 = j /\ 0..(0 - 1) = {} /\ j <= m + 1
    BY <1>0
  <2> QED BY <2>1 DEF Same
<1>2. ASSUME NEW l \in Nat, l \in S PROVE l + 1 \in S
  <2> SUFFICES ASSUME NEW a \in 1..(n + 1), NEW j \in 1..(m + 1), a + (l + 1) <= n + 1, Plain(pattern, a, l + 1)
               PROVE  Holds(a, j, l + 1)
    OBVIOUS
  <2>1. a \in 1..n /\ a + 1 \in 1..(n + 1) /\ (a + 1) + l = a + (l + 1) /\ (j + 1) + l = j + (l + 1)
        /\ (a + 1) + l <= n + 1
    BY <1>0
  <2>2. a \notin Stars(pattern) /\ Plain(pattern, a + 1, l)
    <3>1. a \in a..(a + (l + 1) - 1) /\ \A i \in (a + 1)..(a + 1 + l - 1) : i \in a..(a + (l + 1) - 1)
      BY <2>1
    <3> QED BY <3>1 DEF Plain
  <2>3. At(pattern, s, a, j) <=> j \in 1..m /\ s[j] = pattern[a] /\ At(pattern, s, a + 1, j + 1)
    BY <2>1, <2>2, AtLetter
  <2>4. Same(pattern, s, a, j, l + 1) <=> j \in 1..m /\ s[j] = pattern[a] /\ Same(pattern, s, a + 1, j + 1, l)
    <3>1. ASSUME Same(pattern, s, a, j, l + 1)
          PROVE  j \in 1..m /\ s[j] = pattern[a] /\ Same(pattern, s, a + 1, j + 1, l)
      <4>1. j + (l + 1) <= m + 1 /\ \A x \in 0..((l + 1) - 1) : s[j + x] = pattern[a + x]
        BY <3>1 DEF Same
      <4>2. 0 \in 0..((l + 1) - 1) /\ j + 0 = j /\ a + 0 = a
        BY <2>1
      <4>3. s[j] = pattern[a]
        BY <4>1, <4>2
      <4>4. ASSUME NEW x \in 0..(l - 1) PROVE s[(j + 1) + x] = pattern[(a + 1) + x]
        <5>1. x + 1 \in 0..((l + 1) - 1) /\ (j + 1) + x = j + (x + 1) /\ (a + 1) + x = a + (x + 1)
          BY <2>1
        <5>2. s[j + (x + 1)] = pattern[a + (x + 1)]
          BY <4>1, <5>1
        <5> QED BY <5>1, <5>2
      <4>5. j \in 1..m /\ (j + 1) + l <= m + 1
        BY <1>0, <4>1
      <4> QED BY <4>3, <4>4, <4>5 DEF Same
    <3>2. ASSUME j \in 1..m, s[j] = pattern[a], Same(pattern, s, a + 1, j + 1, l)
          PROVE  Same(pattern, s, a, j, l + 1)
      <4>1. (j + 1) + l <= m + 1 /\ \A x \in 0..(l - 1) : s[(j + 1) + x] = pattern[(a + 1) + x]
        BY <3>2 DEF Same
      <4>2. ASSUME NEW x \in 0..((l + 1) - 1) PROVE s[j + x] = pattern[a + x]
        <5>1. CASE x = 0
          <6>1. j + x = j /\ a + x = a
            BY <5>1, <2>1
          <6> QED BY <3>2, <6>1
        <5>2. CASE x # 0
          <6>1. x - 1 \in 0..(l - 1) /\ (j + 1) + (x - 1) = j + x /\ (a + 1) + (x - 1) = a + x
            BY <5>2
          <6> QED BY <4>1, <6>1
        <5> QED BY <5>1, <5>2
      <4>3. j + (l + 1) <= m + 1
        BY <4>1
      <4> QED BY <4>2, <4>3 DEF Same
    <3> QED BY <3>1, <3>2
  <2>5. j \in 1..m => Holds(a + 1, j + 1, l)
    <3> SUFFICES ASSUME j \in 1..m PROVE Holds(a + 1, j + 1, l)
      OBVIOUS
    <3>1. j + 1 \in 1..(m + 1)
      BY <1>0
    <3> HIDE DEF Holds
    <3> QED BY <1>2, <2>1, <2>2, <3>1
  <2> HIDE DEF n, m
  <2> QED BY <2>1, <2>3, <2>4, <2>5
<1> HIDE DEF S, n, m
<1>3. \A l \in Nat : l \in S
  BY <1>1, <1>2, InductionInSet
<1> QED BY <1>3 DEF S, n, m

(* The letters in SubSeq form. *)
LEMMA SameIsSubSeq ==
    ASSUME NEW C, NEW pattern \in Seq(C), NEW s \in Seq(C), NEW l \in Nat,
           NEW a \in 1..(Len(pattern) + 1), a + l <= Len(pattern) + 1,
           NEW j \in 1..(Len(s) + 1)
    PROVE  Same(pattern, s, a, j, l) <=>
             j + l <= Len(s) + 1 /\ SubSeq(s, j, j + l - 1) = SubSeq(pattern, a, a + l - 1)
<1> DEFINE n == Len(pattern)
           m == Len(s)
<1>0. n \in Nat /\ m \in Nat /\ a \in Nat /\ j \in Nat
  OBVIOUS
<1> SUFFICES ASSUME j + l <= m + 1
             PROVE  (\A x \in 0..(l - 1) : s[j + x] = pattern[a + x]) <=>
                      SubSeq(s, j, j + l - 1) = SubSeq(pattern, a, a + l - 1)
  BY DEF Same
<1> DEFINE u == SubSeq(s, j, j + l - 1)
           v == SubSeq(pattern, a, a + l - 1)
<1>1. Len(u) = l /\ Len(v) = l /\ u \in Seq(C) /\ v \in Seq(C)
  BY <1>0
<1>2. \A y \in 1..l : u[y] = s[j + (y - 1)] /\ v[y] = pattern[a + (y - 1)]
  BY <1>0
<1> HIDE DEF u, v
<1>3. ASSUME \A x \in 0..(l - 1) : s[j + x] = pattern[a + x] PROVE u = v
  <2>1. ASSUME NEW y \in 1..l PROVE u[y] = v[y]
    <3>1. y - 1 \in 0..(l - 1)
      OBVIOUS
    <3> QED BY <1>2, <1>3, <3>1
  <2> QED BY <1>1, <2>1, SeqEqual
<1>4. ASSUME u = v, NEW x \in 0..(l - 1) PROVE s[j + x] = pattern[a + x]
  <2>1. x + 1 \in 1..l /\ (x + 1) - 1 = x
    OBVIOUS
  <2> QED BY <1>2, <1>4, <2>1
<1> QED BY <1>3, <1>4 DEF u, v

-----------------------------------------------------------------------------
(* The stars of a pattern *)

LEMMA StarsInOrder ==
    ASSUME NEW C, NEW pattern \in Seq(C), Stars(pattern) # {}
    PROVE  LET first == Min(Stars(pattern))
               last  == Max(Stars(pattern))
           IN  /\ Len(pattern) \in Nat /\ Stars(pattern) \subseteq 1..Len(pattern)
               /\ first \in Stars(pattern) /\ last \in Stars(pattern)
               /\ \A i \in Stars(pattern) : first <= i /\ i <= last
<1>1. Len(pattern) \in Nat /\ Stars(pattern) \subseteq 1..Len(pattern)
  BY DEF Stars
<1>2. Stars(pattern) \in SUBSET Nat /\ Stars(pattern) \in SUBSET (0..Len(pattern))
  BY <1>1
<1> QED BY <1>1, <1>2, MinIsLeast, MaxIsGreatest

LEMMA PreviousStar ==
    ASSUME NEW C, NEW pattern \in Seq(C), NEW i \in Stars(pattern), i # Min(Stars(pattern))
    PROVE  LET p == Previous(pattern, i)
           IN  p \in Stars(pattern) /\ p < i /\ \A x \in (p + 1)..(i - 1) : x \notin Stars(pattern)
<1> DEFINE T == {j \in Stars(pattern) : j < i}
           p == Max(T)
<1>1. /\ Len(pattern) \in Nat /\ Stars(pattern) \subseteq 1..Len(pattern)
      /\ Min(Stars(pattern)) \in Stars(pattern) /\ Min(Stars(pattern)) <= i
  BY StarsInOrder
<1>2. Min(Stars(pattern)) \in T
  BY <1>1
<1>3. T \in SUBSET (0..Len(pattern)) /\ T # {}
  BY <1>1, <1>2
<1> HIDE DEF T
<1>4. p \in T /\ \A y \in T : y <= p
  BY <1>1, <1>3, MaxIsGreatest
<1>5. p \in Stars(pattern) /\ p < i
  BY <1>4 DEF T
<1>6. ASSUME NEW x \in (p + 1)..(i - 1), x \in Stars(pattern) PROVE FALSE
  <2>1. x < i /\ ~(x <= p)
    BY <1>1, <1>5, <1>6
  <2>2. x \in T
    BY <1>6, <2>1 DEF T
  <2> QED BY <1>4, <2>1, <2>2
<1> QED BY <1>5, <1>6 DEF Previous, T

(* From any place in front of it, a reading comes to the last star.        *)
LEMMA LastStarReached ==
    ASSUME NEW C, NEW pattern \in Seq(C), NEW s \in Seq(C), Stars(pattern) # {},
           NEW i \in 1..Max(Stars(pattern)), NEW j, At(pattern, s, i, j)
    PROVE  \E k : At(pattern, s, Max(Stars(pattern)), k) /\ j <= k
<1> DEFINE z == Max(Stars(pattern))
           n == Len(pattern)
           Comes(x, y) == \E k : At(pattern, s, z, k) /\ y <= k
           S == {d \in Nat : \A x \in 1..z : x + d = z =>
                                \A y \in 1..(Len(s) + 1) : At(pattern, s, x, y) => Comes(x, y)}
<1>0. n \in Nat /\ z \in 1..n /\ Len(s) \in Nat
  BY StarsInOrder
<1>1. 0 \in S
  <2> SUFFICES ASSUME NEW x \in 1..z, x + 0 = z, NEW y \in 1..(Len(s) + 1), At(pattern, s, x, y)
               PROVE  Comes(x, y)
    OBVIOUS
  <2>1. x = z /\ y <= y
    BY <1>0
  <2> QED BY <2>1
<1> HIDE DEF z
<1>2. ASSUME NEW d \in Nat, d \in S PROVE d + 1 \in S
  <2> SUFFICES ASSUME NEW x \in 1..z, x + (d + 1) = z, NEW y \in 1..(Len(s) + 1), At(pattern, s, x, y)
               PROVE  Comes(x, y)
    OBVIOUS
  <2>1. x \in 1..n /\ x + 1 \in 1..(n + 1) /\ x + 1 \in 1..z /\ (x + 1) + d = z
    BY <1>0
  <2>2. \E q : At(pattern, s, x + 1, q) /\ y <= q
    <3>1. CASE x \in Stars(pattern)
      BY <3>1, AtStar
    <3>2. CASE x \notin Stars(pattern)
      <4>1. At(pattern, s, x + 1, y + 1) /\ y <= y + 1
        BY <2>1, <3>2, AtLetter
      <4> QED BY <4>1
    <3> QED BY <3>1, <3>2
  <2>3. PICK q : At(pattern, s, x + 1, q) /\ y <= q
    BY <2>2
  <2>4. q \in 1..(Len(s) + 1)
    BY <2>1, <2>3, AtRange
  <2>5. Comes(x + 1, q)
    BY <1>2, <2>1, <2>3, <2>4
  <2>6. PICK k : At(pattern, s, z, k) /\ q <= k
    BY <2>5
  <2>7. k \in 1..(Len(s) + 1)
    <3>1. z \in 1..(n + 1)
      BY <1>0
    <3> QED BY <2>6, <3>1, AtRange
  <2>8. y <= k
    BY <2>3, <2>4, <2>6, <2>7
  <2> QED BY <2>6, <2>8
<1> HIDE DEF S
<1>3. \A d \in Nat : d \in S
  BY <1>1, <1>2, InductionInSet
<1>4. z - i \in Nat /\ i + (z - i) = z /\ i \in 1..z /\ i \in 1..(n + 1)
  BY <1>0 DEF z
<1>5. j \in 1..(Len(s) + 1)
  BY <1>4, AtRange
<1>6. Comes(i, j)
  BY <1>3, <1>4, <1>5 DEF S
<1> QED BY <1>6 DEF z

(* Where the trailing part of the pattern has to begin, and that it does.  *)
TailPlace(pattern, s) == (Len(s) + 1) - (Len(pattern) - Max(Stars(pattern)))

TailFits(pattern, s) ==
    LET z == Max(Stars(pattern))
    IN  TailPlace(pattern, s) >= 1 /\ Same(pattern, s, z + 1, TailPlace(pattern, s), Len(pattern) - z)

LEMMA LastStarFits ==
    ASSUME NEW C, NEW pattern \in Seq(C), NEW s \in Seq(C), Stars(pattern) # {}, NEW j
    PROVE  At(pattern, s, Max(Stars(pattern)), j) <=>
             j \in 1..TailPlace(pattern, s) /\ TailFits(pattern, s)
<1> DEFINE z == Max(Stars(pattern))
           n == Len(pattern)
           m == Len(s)
           e == TailPlace(pattern, s)
           l == n - z
<1>1. n \in Nat /\ z \in 1..n /\ z \in Stars(pattern) /\ \A i \in Stars(pattern) : i <= z
  BY StarsInOrder
<1>2. m \in Nat /\ l \in Nat /\ e = (m + 1) - l /\ e \in Int /\ z + 1 \in 1..(n + 1) /\ (z + 1) + l = n + 1
  <2>1. e = (m + 1) - l /\ m \in Nat
    BY DEF TailPlace
  <2> HIDE DEF z, n, m, e
  <2> QED BY <1>1, <2>1
<1>3. Plain(pattern, z + 1, l)
  <2>1. \A i \in (z + 1)..((z + 1) + l - 1) : ~(i <= z)
    BY <1>1
  <2> QED BY <1>1, <2>1 DEF Plain
<1>4. At(pattern, s, z, j) <=> j \in 1..(m + 1) /\ \E k : At(pattern, s, z + 1, k) /\ j <= k
  BY <1>1, AtStar
<1>5. TailFits(pattern, s) <=> e >= 1 /\ Same(pattern, s, z + 1, e, l)
  BY DEF TailFits
<1> HIDE DEF z, e, l
<1>6. ASSUME NEW k \in 1..(m + 1)
      PROVE  At(pattern, s, z + 1, k) <=> k = e /\ TailFits(pattern, s)
  <2>1. At(pattern, s, z + 1, k) <=> Same(pattern, s, z + 1, k, l) /\ At(pattern, s, n + 1, k + l)
    <3>1. (z + 1) + l <= n + 1
      BY <1>2
    <3> QED BY <1>2, <1>3, <3>1, AtLetters
  <2>2. At(pattern, s, n + 1, k + l) <=> k + l = m + 1
    BY AtEnd
  <2>3. k + l = m + 1 <=> k = e
    BY <1>2
  <2>4. k = e => e >= 1
    BY <1>2
  <2> QED BY <1>5, <2>1, <2>2, <2>3, <2>4
<1>7. ASSUME At(pattern, s, z, j) PROVE j \in 1..e /\ TailFits(pattern, s)
  <2>1. PICK k : At(pattern, s, z + 1, k) /\ j <= k
    BY <1>4, <1>7
  <2>2. k \in 1..(m + 1)
    BY <1>2, <2>1, AtRange
  <2>3. k = e /\ TailFits(pattern, s)
    BY <1>6, <2>1, <2>2
  <2>4. j \in 1..(m + 1)
    BY <1>4, <1>7
  <2> QED BY <1>2, <2>1, <2>3, <2>4
<1>8. ASSUME j \in 1..e, TailFits(pattern, s) PROVE At(pattern, s, z, j)
  <2>1. e \in 1..(m + 1) /\ j \in 1..(m + 1) /\ j <= e
    BY <1>2, <1>5, <1>8
  <2>2. At(pattern, s, z + 1, e)
    BY <1>6, <1>8, <2>1
  <2> QED BY <1>4, <2>1, <2>2
<1> QED BY <1>7, <1>8 DEF z, e

-----------------------------------------------------------------------------
(* The recursive function of Behind satisfies its equation. *)

Left(part, texts) ==
    {DropFirst(r, Min(Occurrences(part, r)) + Len(part) - 1) :
        r \in {t \in texts : Occurrences(part, t) # {}}}

RestRow(pattern, s, g, i) ==
    IF i = Min(Stars(pattern)) THEN {s} ELSE Left(Between(pattern, i), g[Previous(pattern, i)])

AreRests(pattern, s, g, D) == g = [i \in D |-> RestRow(pattern, s, g, i)]

UpTo(pattern, k) == {i \in Stars(pattern) : i <= k}

LEMMA RestsExist ==
    ASSUME NEW C, NEW pattern \in Seq(C), NEW s, Stars(pattern) # {}
    PROVE  \E g : AreRests(pattern, s, g, Stars(pattern))
<1> DEFINE n == Len(pattern)
           S == {k \in Nat : \E g : AreRests(pattern, s, g, UpTo(pattern, k))}
<1>0. n \in Nat /\ Stars(pattern) \subseteq 1..n
  BY StarsInOrder
<1>1. 0 \in S
  <2>1. UpTo(pattern, 0) = {}
    BY <1>0 DEF UpTo
  <2>2. \A g : [i \in {} |-> g] = [i \in {} |-> RestRow(pattern, s, [x \in {} |-> g], i)]
    OBVIOUS
  <2>3. AreRests(pattern, s, [i \in {} |-> s], UpTo(pattern, 0))
    BY <2>1, <2>2 DEF AreRests
  <2> QED BY <2>3
<1>2. ASSUME NEW k \in Nat, k \in S PROVE k + 1 \in S
  <2>1. PICK g : AreRests(pattern, s, g, UpTo(pattern, k))
    BY <1>2
  <2> DEFINE D == UpTo(pattern, k + 1)
             h == [i \in D |-> IF i = k + 1 THEN RestRow(pattern, s, g, i) ELSE g[i]]
  <2>2. g = [i \in UpTo(pattern, k) |-> RestRow(pattern, s, g, i)]
    BY <2>1 DEF AreRests
  <2>3. ASSUME NEW i \in D, i # Min(Stars(pattern))
        PROVE  Previous(pattern, i) \in D /\ Previous(pattern, i) # k + 1
    <3>1. Previous(pattern, i) \in Stars(pattern) /\ Previous(pattern, i) < i
      BY <2>3, PreviousStar DEF UpTo
    <3>2. i <= k + 1 /\ i \in Nat /\ Previous(pattern, i) \in Nat
      BY <1>0, <3>1 DEF UpTo
    <3> QED BY <3>1, <3>2 DEF UpTo
  <2>4. ASSUME NEW i \in D PROVE RestRow(pattern, s, h, i) = RestRow(pattern, s, g, i)
    <3>1. CASE i = Min(Stars(pattern))
      BY <3>1 DEF RestRow
    <3>2. CASE i # Min(Stars(pattern))
      <4>1. h[Previous(pattern, i)] = g[Previous(pattern, i)]
        BY <2>3, <3>2
      <4> HIDE DEF h
      <4> QED BY <4>1, <3>2 DEF RestRow
    <3> QED BY <3>1, <3>2
  <2>5. ASSUME NEW i \in D PROVE h[i] = RestRow(pattern, s, g, i)
    <3>1. CASE i = k + 1
      BY <3>1
    <3>2. CASE i # k + 1
      <4>1. i \in UpTo(pattern, k)
        BY <1>0, <3>2 DEF UpTo
      <4> QED BY <2>2, <3>2, <4>1
    <3> QED BY <3>1, <3>2
  <2>6. h = [i \in D |-> h[i]]
    OBVIOUS
  <2> HIDE DEF h
  <2>7. AreRests(pattern, s, h, D)
    BY <2>4, <2>5, <2>6 DEF AreRests
  <2> QED BY <2>7
<1> HIDE DEF S
<1>3. n \in S
  BY <1>0, <1>1, <1>2, InductionInSet
<1>4. UpTo(pattern, n) = Stars(pattern)
  BY <1>0 DEF UpTo
<1> QED BY <1>3, <1>4 DEF S

Rests(pattern, s) == CHOOSE g : AreRests(pattern, s, g, Stars(pattern))

LEMMA BehindIsLastRest ==
    ASSUME NEW pattern, NEW s
    PROVE  Behind(pattern, s) = Rests(pattern, s)[Max(Stars(pattern))]
<1>1. Rests(pattern, s) =
        CHOOSE g : g = [i \in Stars(pattern) |->
            IF i = Min(Stars(pattern)) THEN {s}
            ELSE {DropFirst(r, Min(Occurrences(Between(pattern, i), r)) + Len(Between(pattern, i)) - 1) :
                    r \in {t \in g[Previous(pattern, i)] : Occurrences(Between(pattern, i), t) # {}}}]
  BY DEF Rests, AreRests, RestRow, Left
<1> QED BY <1>1 DEF Behind

LEMMA RestRows ==
    ASSUME NEW C, NEW pattern \in Seq(C), NEW s, NEW i \in Stars(pattern)
    PROVE  Rests(pattern, s)[i] =
             IF i = Min(Stars(pattern)) THEN {s}
             ELSE Left(Between(pattern, i), Rests(pattern, s)[Previous(pattern, i)])
<1>1. AreRests(pattern, s, Rests(pattern, s), Stars(pattern))
  BY RestsExist DEF Rests
<1> DEFINE g == Rests(pattern, s)
<1>2. g = [x \in Stars(pattern) |-> RestRow(pattern, s, g, x)]
  BY <1>1 DEF AreRests
<1> HIDE DEF g
<1>3. g[i] = RestRow(pattern, s, g, i)
  BY <1>2
<1> QED BY <1>3 DEF RestRow, g

-----------------------------------------------------------------------------
(* The leftmost occurrence is enough. The text r that is left of s reaches *)
(* to where the trailing part begins; a reading that has come to a star    *)
(* goes on to the next one if and only if the part between them occurs in  *)
(* r and the reading goes on behind its leftmost occurrence.               *)

(* r is what s has from place j up to the trailing part. *)
LeftOf(pattern, s, r, j) ==
    /\ j \in 1..TailPlace(pattern, s)
    /\ r = SubSeq(s, j, TailPlace(pattern, s) - 1)

LEMMA LeftOfFacts ==
    ASSUME NEW C, NEW pattern \in Seq(C), NEW s \in Seq(C), Stars(pattern) # {},
           NEW r, NEW j, LeftOf(pattern, s, r, j)
    PROVE  /\ TailPlace(pattern, s) \in 1..(Len(s) + 1) /\ Len(s) \in Nat /\ j \in 1..(Len(s) + 1)
           /\ r \in Seq(C) /\ Len(r) = TailPlace(pattern, s) - j
           /\ \A x \in 1..Len(r) : r[x] = s[j + (x - 1)]
<1> DEFINE e == TailPlace(pattern, s)
           z == Max(Stars(pattern))
           n == Len(pattern)
           m == Len(s)
<1>1. n \in Nat /\ z \in 1..n
  BY StarsInOrder
<1>2. e = (m + 1) - (n - z) /\ m \in Nat
  BY DEF TailPlace
<1>3. j \in 1..e /\ r = SubSeq(s, j, e - 1)
  BY DEF LeftOf
<1> HIDE DEF e, z, n
<1>4. e \in 1..(m + 1) /\ j \in 1..(m + 1) /\ e - 1 <= m /\ j \in Nat /\ e \in Nat
  BY <1>1, <1>2, <1>3
<1>5. r \in Seq(C) /\ Len(r) = e - j /\ \A x \in 1..Len(r) : r[x] = s[j + (x - 1)]
  BY <1>3, <1>4
<1> QED BY <1>2, <1>4, <1>5 DEF e

(* An occurrence of a part in r is one in s. *)
LEMMA OccursInBoth ==
    ASSUME NEW C, NEW pattern \in Seq(C), NEW s \in Seq(C), Stars(pattern) # {},
           NEW r, NEW j, LeftOf(pattern, s, r, j),
           NEW a \in 1..(Len(pattern) + 1), NEW l \in Nat, a + l <= Len(pattern) + 1, NEW x \in Nat \ {0}
    PROVE  x \in Occurrences(SubSeq(pattern, a, a + l - 1), r) <=>
             /\ j + (x - 1) + l <= TailPlace(pattern, s)
             /\ Same(pattern, s, a, j + (x - 1), l)
<1> DEFINE e == TailPlace(pattern, s)
           part == SubSeq(pattern, a, a + l - 1)
           q == j + (x - 1)
           m == Len(s)
<1>1. /\ e \in 1..(m + 1) /\ m \in Nat /\ j \in 1..(m + 1) /\ j \in 1..e
      /\ r \in Seq(C) /\ Len(r) = e - j /\ \A y \in 1..Len(r) : r[y] = s[j + (y - 1)]
  <2>1. j \in 1..e
    BY DEF LeftOf
  <2> HIDE DEF e, m
  <2> QED BY <2>1, LeftOfFacts DEF e, m
<1>2. part \in Seq(C) /\ Len(part) = l
  BY SubSeqProperties
<1> HIDE DEF e, part
<1>3. x \in 1..(Len(r) - Len(part) + 1) <=> q + l <= e
  BY <1>1, <1>2
<1>4. ASSUME q + l <= e
      PROVE  SubSeq(r, x, x + l - 1) = part <=> Same(pattern, s, a, q, l)
  <2>1. q \in 1..(m + 1) /\ q + l <= m + 1 /\ x + l - 1 <= Len(r) /\ q + l - 1 <= m /\ q \in Nat
    BY <1>1, <1>4
  <2>2. SubSeq(r, x, x + l - 1) = SubSeq(s, q, q + l - 1)
    <3> DEFINE u == SubSeq(r, x, x + l - 1)
               v == SubSeq(s, q, q + l - 1)
    <3>1. u \in Seq(C) /\ Len(u) = l /\ \A y \in 1..l : u[y] = r[x + (y - 1)]
      BY <1>1, <2>1
    <3>2. v \in Seq(C) /\ Len(v) = l /\ \A y \in 1..l : v[y] = s[q + (y - 1)]
      BY <1>1, <2>1
    <3> HIDE DEF u, v
    <3>3. ASSUME NEW y \in 1..l PROVE u[y] = v[y]
      <4>1. x + (y - 1) \in 1..Len(r) /\ j + ((x + (y - 1)) - 1) = q + (y - 1)
        BY <1>1, <2>1
      <4>2. r[x + (y - 1)] = s[j + ((x + (y - 1)) - 1)]
        BY <1>1, <4>1
      <4> QED BY <3>1, <3>2, <4>1, <4>2
    <3>4. u = v
      BY <3>1, <3>2, <3>3, SeqEqual
    <3> QED BY <3>4 DEF u, v
  <2>3. Same(pattern, s, a, q, l) <=> SubSeq(s, q, q + l - 1) = part
    <3>1. Same(pattern, s, a, q, l) <=>
            q + l <= Len(s) + 1 /\ SubSeq(s, q, q + l - 1) = SubSeq(pattern, a, a + l - 1)
      <4>1. q \in 1..(Len(s) + 1)
        BY <2>1
      <4> HIDE DEF q
      <4> QED BY <4>1, SameIsSubSeq
    <3>2. q + l <= Len(s) + 1
      BY <2>1
    <3> HIDE DEF q
    <3> QED BY <3>1, <3>2 DEF part
  <2> QED BY <2>2, <2>3
<1>5. x \in Occurrences(part, r) <=>
        x \in 1..(Len(r) - Len(part) + 1) /\ SubSeq(r, x, x + Len(part) - 1) = part
  BY DEF Occurrences
<1>6. x \in Occurrences(part, r) <=> q + l <= e /\ SubSeq(r, x, x + l - 1) = part
  BY <1>2, <1>3, <1>5
<1> QED BY <1>4, <1>6 DEF e, part

LEMMA GoesOn ==
    ASSUME NEW C, NEW pattern \in Seq(C), NEW s \in Seq(C),
           NEW i \in Stars(pattern), i # Min(Stars(pattern)), NEW r, NEW j, LeftOf(pattern, s, r, j)
    PROVE  LET part  == Between(pattern, i)
               found == Min(Occurrences(part, r))
               next  == j + (found - 1) + Len(part)
           IN  /\ At(pattern, s, Previous(pattern, i), j) <=>
                    Occurrences(part, r) # {} /\ At(pattern, s, i, next)
               /\ Occurrences(part, r) # {} =>
                    LeftOf(pattern, s, DropFirst(r, found + Len(part) - 1), next)
<1> DEFINE p == Previous(pattern, i)
           n == Len(pattern)
           m == Len(s)
           z == Max(Stars(pattern))
           e == TailPlace(pattern, s)
           a == p + 1
           l == (i - p) - 1
           part == Between(pattern, i)
           O == Occurrences(part, r)
           found == Min(O)
           next == j + (found - 1) + Len(part)
<1>1. /\ n \in Nat /\ Stars(pattern) \subseteq 1..n /\ z \in Stars(pattern)
      /\ \A x \in Stars(pattern) : x <= z
  BY StarsInOrder
<1>2. p \in Stars(pattern) /\ p < i /\ \A x \in (p + 1)..(i - 1) : x \notin Stars(pattern)
  BY PreviousStar
<1>3. /\ e \in 1..(m + 1) /\ m \in Nat /\ j \in 1..(m + 1) /\ j \in 1..e
      /\ r \in Seq(C) /\ Len(r) = e - j /\ r = SubSeq(s, j, e - 1)
  <2>1. j \in 1..e /\ r = SubSeq(s, j, e - 1)
    BY DEF LeftOf
  <2>2. Stars(pattern) # {}
    OBVIOUS
  <2>3. /\ TailPlace(pattern, s) \in 1..(Len(s) + 1) /\ Len(s) \in Nat /\ j \in 1..(Len(s) + 1)
        /\ r \in Seq(C) /\ Len(r) = TailPlace(pattern, s) - j
    BY <2>2, LeftOfFacts
  <2> QED BY <2>1, <2>3
<1> HIDE DEF p, z, e
<1>4. /\ i \in 1..n /\ p \in 1..n /\ l \in Nat /\ a \in 1..(n + 1) /\ a + l = i /\ a + l <= n + 1
      /\ a + l - 1 = i - 1 /\ i <= z /\ z \in 1..n /\ i \in 1..(n + 1) /\ i \in 1..z
  <2>1. i \in 1..n /\ p \in 1..n /\ z \in 1..n /\ p < i /\ i <= z /\ n \in Nat
    BY <1>1, <1>2
  <2> HIDE DEF n
  <2> QED BY <2>1
<1>5. part = SubSeq(pattern, a, a + l - 1) /\ Len(part) = l
  <2>1. part = SubSeq(pattern, a, a + l - 1)
    BY <1>4 DEF Between, p
  <2>2. Len(SubSeq(pattern, a, a + l - 1)) = l
    BY <1>1, <1>4
  <2> QED BY <2>1, <2>2
<1>6. Plain(pattern, a, l)
  BY <1>2, <1>4 DEF Plain
<1> HIDE DEF n, m, a, l, part
<1>7. ASSUME NEW x \in Nat \ {0}
      PROVE  x \in O <=> j + (x - 1) + l <= e /\ Same(pattern, s, a, j + (x - 1), l)
  BY <1>4, <1>5, OccursInBoth DEF n, e
<1>8. O \subseteq Nat \ {0}
  BY DEF Occurrences
<1> HIDE DEF O
<1>9. ASSUME NEW k \in 1..(m + 1)
      PROVE  At(pattern, s, a, k) <=> Same(pattern, s, a, k, l) /\ At(pattern, s, i, k + l)
  BY <1>4, <1>6, AtLetters DEF n, m
<1>10. O # {} => found \in O /\ found \in Nat \ {0} /\ \A y \in O : found <= y
  <2>1. O \in SUBSET Nat
    BY <1>8
  <2> QED BY <1>8, <2>1, MinIsLeast
<1> HIDE DEF found
<1>11. O # {} => /\ next = j + (found - 1) + l /\ next \in 1..e /\ next \in 1..(m + 1)
                 /\ Same(pattern, s, a, j + (found - 1), l)
  <2> SUFFICES ASSUME O # {}
               PROVE  /\ next = j + (found - 1) + l /\ next \in 1..e /\ next \in 1..(m + 1)
                      /\ Same(pattern, s, a, j + (found - 1), l)
    OBVIOUS
  <2>1. j + (found - 1) + l <= e /\ Same(pattern, s, a, j + (found - 1), l)
    BY <1>7, <1>10
  <2>2. next = j + (found - 1) + l
    BY <1>5
  <2>3. next \in 1..e /\ next \in 1..(m + 1)
    <3>1. found \in Nat \ {0} /\ j \in Nat \ {0} /\ e \in Nat /\ e <= m + 1
      BY <1>3, <1>10
    <3> HIDE DEF next
    <3> QED BY <1>3, <1>4, <2>1, <2>2, <3>1
  <2> QED BY <2>1, <2>2, <2>3
<1>12. ASSUME At(pattern, s, p, j) PROVE O # {} /\ At(pattern, s, i, next)
  <2>1. PICK k : At(pattern, s, a, k) /\ j <= k
    BY <1>2, <1>12, AtStar DEF a
  <2>2. k \in 1..(m + 1)
    BY <1>4, <2>1, AtRange DEF n, m
  <2>3. Same(pattern, s, a, k, l) /\ At(pattern, s, i, k + l)
    BY <1>9, <2>1, <2>2
  <2>4. k + l <= e
    <3>1. PICK y : At(pattern, s, z, y) /\ k + l <= y
      BY <1>1, <1>4, <2>3, LastStarReached DEF z
    <3>2. y \in 1..e
      BY <1>1, <3>1, LastStarFits DEF z, e
    <3> QED BY <1>3, <1>4, <2>2, <3>1, <3>2
  <2>5. k - j + 1 \in Nat \ {0} /\ j + ((k - j + 1) - 1) = k
    BY <1>3, <2>1, <2>2
  <2>6. k - j + 1 \in O
    BY <1>7, <2>3, <2>4, <2>5
  <2>7. O # {} /\ found <= k - j + 1 /\ found \in Nat
    BY <1>10, <2>6
  <2>8. next <= k + l /\ next \in 1..(m + 1)
    BY <1>3, <1>4, <1>11, <2>2, <2>7
  <2>9. At(pattern, s, i, next)
    <3> HIDE DEF next
    <3> QED BY <2>3, <2>8, StarReachesBack DEF m
  <2> QED BY <2>7, <2>9
<1>13. ASSUME O # {}, At(pattern, s, i, next) PROVE At(pattern, s, p, j)
  <2> DEFINE q == j + (found - 1)
  <2>1. q + l = next /\ Same(pattern, s, a, q, l) /\ found \in Nat \ {0}
    BY <1>10, <1>11, <1>13
  <2>2. q \in 1..(m + 1) /\ j <= q
    BY <1>3, <1>4, <1>11, <1>13, <2>1
  <2>3. At(pattern, s, a, q)
    <3> HIDE DEF next, q
    <3> QED BY <1>9, <1>13, <2>1, <2>2
  <2> HIDE DEF q
  <2> QED BY <1>2, <1>3, <2>2, <2>3, AtStar DEF a, m
<1>14. ASSUME O # {} PROVE LeftOf(pattern, s, DropFirst(r, found + Len(part) - 1), next)
  <2> DEFINE d == found + Len(part) - 1
             t == DropFirst(r, d)
             v == SubSeq(s, next, e - 1)
  <2>1. next = j + d /\ d \in Nat /\ next \in 1..e /\ next \in 1..(m + 1) /\ d <= Len(r)
    <3>1. next = j + (found - 1) + l /\ next \in 1..e /\ next \in 1..(m + 1)
      BY <1>11, <1>14
    <3>2. found \in Nat \ {0} /\ j \in Nat \ {0} /\ Len(r) = e - j /\ l \in Nat /\ e \in Nat
      BY <1>3, <1>4, <1>10, <1>14
    <3>3. d = found + l - 1
      BY <1>5
    <3> HIDE DEF next, d
    <3> QED BY <3>1, <3>2, <3>3
  <2>2. t = SubSeq(r, d + 1, Len(r))
    BY DEF DropFirst
  <2> HIDE DEF d, t, next
  <2>3. /\ t \in Seq(C) /\ Len(t) = Len(r) - d
        /\ \A y \in 1..(Len(r) - d) : t[y] = r[d + y]
    BY <1>3, <2>1, <2>2
  <2>4. /\ v \in Seq(C) /\ Len(v) = e - next
        /\ \A y \in 1..(e - next) : v[y] = s[next + (y - 1)]
    <3>1. next \in Nat /\ e - 1 <= Len(s) /\ next >= 1 /\ e \in Nat /\ next <= e
      BY <1>3, <2>1 DEF m
    <3> QED BY <3>1
  <2> HIDE DEF v
  <2>5. Len(t) = Len(v) /\ Len(v) = e - next
    BY <1>3, <2>1, <2>3, <2>4
  <2>6. ASSUME NEW y \in 1..Len(t) PROVE t[y] = v[y]
    <3>1. d + y \in 1..Len(r) /\ j + ((d + y) - 1) = next + (y - 1) /\ y \in 1..(e - next) /\ y \in 1..(Len(r) - d)
      BY <1>3, <2>1, <2>3, <2>5
    <3>2. r[d + y] = s[j + ((d + y) - 1)]
      <4>1. Stars(pattern) # {}
        OBVIOUS
      <4>2. \A x \in 1..Len(r) : r[x] = s[j + (x - 1)]
        BY <4>1, LeftOfFacts
      <4> QED BY <3>1, <4>2
    <3> QED BY <2>3, <2>4, <3>1, <3>2
  <2>7. t = v
    BY <2>3, <2>4, <2>5, <2>6, SeqEqual
  <2> QED BY <2>1, <2>7 DEF LeftOf, v, t, d, e
<1> QED BY <1>12, <1>13, <1>14 DEF p, part, O, found

(* The whole search: it finds a place for every part exactly if there is   *)
(* a reading from the first star on.                                       *)
LEMMA BehindDecides ==
    ASSUME NEW C, NEW pattern \in Seq(C), NEW s \in Seq(C), Stars(pattern) # {},
           NEW inner, NEW j, LeftOf(pattern, s, inner, j), TailFits(pattern, s)
    PROVE  At(pattern, s, Min(Stars(pattern)), j) <=> Behind(pattern, inner) # {}
<1> DEFINE n == Len(pattern)
           f == Min(Stars(pattern))
           z == Max(Stars(pattern))
           rests == Rests(pattern, inner)
           Cut(i) == \A r \in rests[i] : \E k : LeftOf(pattern, s, r, k)
           Read(i) == \E r \in rests[i] : \E k : LeftOf(pattern, s, r, k) /\ At(pattern, s, i, k)
           Good(i) == Cut(i) /\ (At(pattern, s, f, j) <=> Read(i))
           S == {x \in Nat : \A i \in Stars(pattern) : i <= x => Good(i)}
<1>1. /\ n \in Nat /\ Stars(pattern) \subseteq 1..n /\ f \in Stars(pattern) /\ z \in Stars(pattern)
      /\ \A i \in Stars(pattern) : f <= i /\ i <= z
  BY StarsInOrder
<1> HIDE DEF n, f, z, rests
<1>a. ASSUME NEW r, NEW k, NEW h, LeftOf(pattern, s, r, k), LeftOf(pattern, s, r, h) PROVE k = h
  <2>1. /\ TailPlace(pattern, s) \in 1..(Len(s) + 1) /\ Len(s) \in Nat
        /\ k \in 1..(Len(s) + 1) /\ Len(r) = TailPlace(pattern, s) - k
    BY <1>a, LeftOfFacts
  <2>2. h \in 1..(Len(s) + 1) /\ Len(r) = TailPlace(pattern, s) - h
    BY <1>a, LeftOfFacts
  <2> QED BY <2>1, <2>2
<1>2. Good(f)
  <2>1. rests[f] = {inner}
    BY <1>1, RestRows DEF f, rests
  <2>2. Cut(f)
    BY <2>1
  <2>3. At(pattern, s, f, j) <=> Read(f)
    BY <2>1, <1>a
  <2> QED BY <2>2, <2>3
<1>3. ASSUME NEW i \in Stars(pattern), i # f, Good(Previous(pattern, i)) PROVE Good(i)
  <2> DEFINE p == Previous(pattern, i)
             part == Between(pattern, i)
             Behind1(r) == DropFirst(r, Min(Occurrences(part, r)) + Len(part) - 1)
             On(r, k) == k + (Min(Occurrences(part, r)) - 1) + Len(part)
  <2>1. rests[i] = {Behind1(r) : r \in {t \in rests[p] : Occurrences(part, t) # {}}}
    <3>1. rests[i] = Left(part, rests[p])
      BY <1>3, RestRows DEF f, rests
    <3> QED BY <3>1 DEF Left
  <2>2. ASSUME NEW r, NEW k, LeftOf(pattern, s, r, k)
        PROVE  /\ At(pattern, s, p, k) <=> Occurrences(part, r) # {} /\ At(pattern, s, i, On(r, k))
               /\ Occurrences(part, r) # {} => LeftOf(pattern, s, Behind1(r), On(r, k))
    BY <1>3, <2>2, GoesOn DEF f
  <2> HIDE DEF p, part, Behind1, On
  <2>3. Cut(p) /\ (At(pattern, s, f, j) <=> Read(p))
    BY <1>3 DEF p
  <2>4. ASSUME NEW t \in rests[i] PROVE \E k : LeftOf(pattern, s, t, k)
    <3>1. PICK r \in rests[p] : Occurrences(part, r) # {} /\ t = Behind1(r)
      BY <2>1
    <3>2. PICK k : LeftOf(pattern, s, r, k)
      BY <2>3
    <3> QED BY <2>2, <3>1, <3>2
  <2>5. ASSUME Read(p) PROVE Read(i)
    <3>1. PICK r \in rests[p] : \E k : LeftOf(pattern, s, r, k) /\ At(pattern, s, p, k)
      BY <2>5
    <3>2. PICK k : LeftOf(pattern, s, r, k) /\ At(pattern, s, p, k)
      BY <3>1
    <3>3. /\ Occurrences(part, r) # {} /\ At(pattern, s, i, On(r, k))
          /\ LeftOf(pattern, s, Behind1(r), On(r, k))
      BY <2>2, <3>2
    <3>4. Behind1(r) \in rests[i]
      BY <2>1, <3>3
    <3> QED BY <3>3, <3>4
  <2>6. ASSUME Read(i) PROVE Read(p)
    <3>1. PICK t \in rests[i] : \E k : LeftOf(pattern, s, t, k) /\ At(pattern, s, i, k)
      BY <2>6
    <3>2. PICK h : LeftOf(pattern, s, t, h) /\ At(pattern, s, i, h)
      BY <3>1
    <3>3. PICK r \in rests[p] : Occurrences(part, r) # {} /\ t = Behind1(r)
      BY <2>1
    <3>4. PICK k : LeftOf(pattern, s, r, k)
      BY <2>3
    <3>5. LeftOf(pattern, s, t, On(r, k))
      BY <2>2, <3>3, <3>4
    <3>6. h = On(r, k)
      BY <1>a, <3>2, <3>5
    <3>7. At(pattern, s, p, k)
      BY <2>2, <3>2, <3>3, <3>4, <3>6
    <3> QED BY <3>4, <3>7
  <2> QED BY <2>3, <2>4, <2>5, <2>6
<1> HIDE DEF Good
<1>4. 0 \in S
  BY <1>1
<1>5. ASSUME NEW x \in Nat, x \in S PROVE x + 1 \in S
  <2> SUFFICES ASSUME NEW i \in Stars(pattern), i <= x + 1 PROVE Good(i)
    OBVIOUS
  <2>1. CASE i = f
    BY <1>2, <2>1
  <2>2. CASE i # f
    <3>1. Previous(pattern, i) \in Stars(pattern) /\ Previous(pattern, i) < i
      BY <2>2, PreviousStar DEF f
    <3>2. Previous(pattern, i) <= x
      BY <1>1, <3>1
    <3>3. Good(Previous(pattern, i))
      BY <1>5, <3>1, <3>2
    <3> QED BY <1>3, <2>2, <3>3
  <2> QED BY <2>1, <2>2
<1> HIDE DEF S
<1>6. n \in S
  BY <1>1, <1>4, <1>5, InductionInSet
<1>7. Good(z)
  <2>1. z <= n
    BY <1>1
  <2> QED BY <1>1, <1>6, <2>1 DEF S
<1>8. Read(z) <=> rests[z] # {}
  <2>1. ASSUME NEW r \in rests[z] PROVE \E k : LeftOf(pattern, s, r, k) /\ At(pattern, s, z, k)
    <3>1. PICK k : LeftOf(pattern, s, r, k)
      BY <1>7 DEF Good
    <3>2. At(pattern, s, z, k)
      BY <3>1, LastStarFits DEF LeftOf, z
    <3> QED BY <3>1, <3>2
  <2> QED BY <2>1
<1>9. Behind(pattern, inner) = rests[z]
  BY BehindIsLastRest DEF rests, z
<1> QED BY <1>7, <1>8, <1>9 DEF Good, f

-----------------------------------------------------------------------------
(* The leading and the trailing part *)

LEMMA SuffixInPlace ==
    ASSUME NEW C, NEW u \in Seq(C), NEW v \in Seq(C)
    PROVE  IsSuffix(u, v) <=>
             Len(u) <= Len(v) /\ \A x \in 1..Len(u) : v[(Len(v) - Len(u)) + x] = u[x]
<1> DEFINE l == Len(u)
           m == Len(v)
           ru == Reverse(u)
           rv == Reverse(v)
<1>1. l \in Nat /\ m \in Nat
  OBVIOUS
<1>2. /\ ru \in Seq(C) /\ Len(ru) = l /\ \A x \in 1..l : ru[x] = u[(l - x) + 1]
      /\ rv \in Seq(C) /\ Len(rv) = m /\ \A x \in 1..m : rv[x] = v[(m - x) + 1]
  <2>1. \A x \in 1..l : u[(l - x) + 1] \in C
    BY <1>1
  <2>2. \A x \in 1..m : v[(m - x) + 1] \in C
    BY <1>1
  <2>3. ru = [x \in 1..l |-> u[(l - x) + 1]] /\ rv = [x \in 1..m |-> v[(m - x) + 1]]
    BY DEF Reverse
  <2> HIDE DEF ru, rv, l, m
  <2> QED BY <1>1, <2>1, <2>2, <2>3
<1>3. IsSuffix(u, v) <=> l <= m /\ SubSeq(ru, 1, l) = SubSeq(rv, 1, l)
  BY <1>2 DEF IsSuffix, IsPrefix
<1> HIDE DEF ru, rv
<1>4. ASSUME l <= m
      PROVE  SubSeq(ru, 1, l) = SubSeq(rv, 1, l) <=> \A x \in 1..l : v[(m - l) + x] = u[x]
  <2> DEFINE a == SubSeq(ru, 1, l)
             b == SubSeq(rv, 1, l)
  <2>1. /\ a \in Seq(C) /\ Len(a) = l /\ \A x \in 1..l : a[x] = u[(l - x) + 1]
        /\ b \in Seq(C) /\ Len(b) = l /\ \A x \in 1..l : b[x] = v[(m - x) + 1]
    BY <1>1, <1>2, <1>4
  <2> HIDE DEF a, b, l, m
  <2>2. ASSUME a = b, NEW x \in 1..l PROVE v[(m - l) + x] = u[x]
    <3>1. (l - x) + 1 \in 1..l /\ (l - ((l - x) + 1)) + 1 = x /\ (m - ((l - x) + 1)) + 1 = (m - l) + x
      BY <1>1
    <3>2. a[(l - x) + 1] = u[x] /\ b[(l - x) + 1] = v[(m - l) + x]
      BY <2>1, <3>1
    <3> QED BY <2>2, <3>2
  <2>3. ASSUME \A x \in 1..l : v[(m - l) + x] = u[x] PROVE a = b
    <3>1. ASSUME NEW x \in 1..l PROVE a[x] = b[x]
      <4>1. (l - x) + 1 \in 1..l /\ (m - l) + ((l - x) + 1) = (m - x) + 1
        BY <1>1
      <4>2. v[(m - l) + ((l - x) + 1)] = u[(l - x) + 1]
        BY <2>3, <4>1
      <4> QED BY <2>1, <4>1, <4>2
    <3> QED BY <2>1, <3>1, SeqEqual
  <2> QED BY <2>2, <2>3 DEF a, b
<1> QED BY <1>3, <1>4

LEMMA LeadingInPlace ==
    ASSUME NEW C, NEW pattern \in Seq(C), NEW s \in Seq(C), Stars(pattern) # {}
    PROVE  LET l == Min(Stars(pattern)) - 1
           IN  /\ Leading(pattern) \in Seq(C) /\ Len(Leading(pattern)) = l /\ l \in Nat
               /\ IsPrefix(Leading(pattern), s) <=> Same(pattern, s, 1, 1, l)
<1> DEFINE f == Min(Stars(pattern))
           l == f - 1
           n == Len(pattern)
           m == Len(s)
           u == Leading(pattern)
<1>1. n \in Nat /\ f \in 1..n /\ m \in Nat
  BY StarsInOrder
<1> HIDE DEF f
<1>2. l \in Nat /\ 1 + l <= n + 1 /\ 1 + l - 1 = l
  BY <1>1
<1>3. u = SubSeq(pattern, 1, l)
  BY DEF Leading, f
<1> HIDE DEF l, u
<1>4. u \in Seq(C) /\ Len(u) = l /\ \A x \in 1..l : u[x] = pattern[x]
  BY <1>1, <1>2, <1>3
<1>5. IsPrefix(u, s) <=> l <= m /\ SubSeq(u, 1, l) = SubSeq(s, 1, l)
  BY <1>4 DEF IsPrefix
<1>6. SubSeq(u, 1, l) = u
  <2> DEFINE w == SubSeq(u, 1, l)
  <2>1. w \in Seq(C) /\ Len(w) = l /\ \A x \in 1..l : w[x] = u[x]
    BY <1>2, <1>4
  <2> HIDE DEF w
  <2>2. w = u
    BY <1>4, <2>1, SeqEqual
  <2> QED BY <2>2 DEF w
<1>7. Same(pattern, s, 1, 1, l) <=> 1 + l <= m + 1 /\ SubSeq(s, 1, 1 + l - 1) = SubSeq(pattern, 1, 1 + l - 1)
  <2>1. 1 \in 1..(Len(pattern) + 1) /\ 1 \in 1..(Len(s) + 1) /\ l \in Nat /\ 1 + l <= Len(pattern) + 1
    BY <1>1, <1>2
  <2>2. Same(pattern, s, 1, 1, l) <=>
          1 + l <= Len(s) + 1 /\ SubSeq(s, 1, 1 + l - 1) = SubSeq(pattern, 1, 1 + l - 1)
    <3> HIDE DEF n, m
    <3> QED BY <2>1, SameIsSubSeq
  <2> QED BY <2>2
<1>8. 1 + l <= m + 1 <=> l <= m
  BY <1>1, <1>2
<1> QED BY <1>2, <1>3, <1>4, <1>5, <1>6, <1>7, <1>8 DEF l, u, f

(* What is left for the trailing part to fit in: rest is s from place j.   *)
LEMMA TrailingInPlace ==
    ASSUME NEW C, NEW pattern \in Seq(C), NEW s \in Seq(C), Stars(pattern) # {},
           NEW l \in Nat, l <= Len(s)
    PROVE  LET rest  == DropFirst(s, l)
               inner == SubSeq(rest, 1, Len(rest) - Len(Trailing(pattern)))
           IN  /\ IsSuffix(Trailing(pattern), rest) <=>
                    l + 1 \in 1..TailPlace(pattern, s) /\ TailFits(pattern, s)
               /\ l + 1 \in 1..TailPlace(pattern, s) => LeftOf(pattern, s, inner, l + 1)
<1> DEFINE z == Max(Stars(pattern))
           n == Len(pattern)
           m == Len(s)
           e == TailPlace(pattern, s)
           k == n - z
           u == Trailing(pattern)
           rest == DropFirst(s, l)
           inner == SubSeq(rest, 1, Len(rest) - Len(u))
<1>1. n \in Nat /\ z \in 1..n /\ m \in Nat
  BY StarsInOrder
<1>2. e = (m + 1) - k /\ u = SubSeq(pattern, z + 1, n) /\ rest = SubSeq(s, l + 1, m)
  BY DEF TailPlace, Trailing, DropFirst
<1>3. TailFits(pattern, s) <=>
        e >= 1 /\ e + k <= m + 1 /\ \A x \in 0..(k - 1) : s[e + x] = pattern[(z + 1) + x]
  BY DEF TailFits, Same
<1> HIDE DEF z, e
<1>4. k \in Nat /\ e \in Int
  BY <1>1, <1>2
<1>5. u \in Seq(C) /\ Len(u) = k /\ \A x \in 1..k : u[x] = pattern[z + x]
  <2> HIDE DEF u
  <2> QED BY <1>1, <1>2
<1>6. rest \in Seq(C) /\ Len(rest) = m - l /\ \A x \in 1..(m - l) : rest[x] = s[l + x]
  <2> HIDE DEF rest
  <2> QED BY <1>1, <1>2
<1> HIDE DEF u, rest, n, m
<1>7. IsSuffix(u, rest) <=>
        k <= m - l /\ \A x \in 1..k : rest[((m - l) - k) + x] = u[x]
  <2>1. IsSuffix(u, rest) <=>
          Len(u) <= Len(rest) /\ \A x \in 1..Len(u) : rest[(Len(rest) - Len(u)) + x] = u[x]
    BY <1>5, <1>6, SuffixInPlace
  <2> HIDE DEF k
  <2> QED BY <1>5, <1>6, <2>1
<1>8. k <= m - l <=> l + 1 \in 1..e
  BY <1>1, <1>2, <1>4
<1> HIDE DEF k
<1>9. ASSUME l + 1 \in 1..e
      PROVE  (\A x \in 1..k : rest[((m - l) - k) + x] = u[x]) <=> TailFits(pattern, s)
  <2>1. e >= 1 /\ e + k <= m + 1 /\ k <= m - l
    BY <1>1, <1>2, <1>4, <1>8, <1>9
  <2>2. ASSUME NEW x \in 1..k
        PROVE  rest[((m - l) - k) + x] = s[e + (x - 1)] /\ u[x] = pattern[(z + 1) + (x - 1)] /\ x - 1 \in 0..(k - 1)
    <3>1. ((m - l) - k) + x \in 1..(m - l) /\ l + (((m - l) - k) + x) = e + (x - 1)
          /\ (z + 1) + (x - 1) = z + x /\ x - 1 \in 0..(k - 1)
      BY <1>1, <1>2, <1>4, <2>1
    <3>2. rest[((m - l) - k) + x] = s[l + (((m - l) - k) + x)]
      BY <1>6, <3>1
    <3> QED BY <1>5, <3>1, <3>2
  <2>3. ASSUME \A x \in 1..k : rest[((m - l) - k) + x] = u[x], NEW y \in 0..(k - 1)
        PROVE  s[e + y] = pattern[(z + 1) + y]
    <3>1. y + 1 \in 1..k /\ (y + 1) - 1 = y
      BY <1>4
    <3>2. rest[((m - l) - k) + (y + 1)] = u[y + 1]
      BY <2>3, <3>1
    <3>3. rest[((m - l) - k) + (y + 1)] = s[e + ((y + 1) - 1)] /\ u[y + 1] = pattern[(z + 1) + ((y + 1) - 1)]
      BY <2>2, <3>1
    <3> QED BY <3>1, <3>2, <3>3
  <2>4. ASSUME \A y \in 0..(k - 1) : s[e + y] = pattern[(z + 1) + y], NEW x \in 1..k
        PROVE  rest[((m - l) - k) + x] = u[x]
    BY <2>2, <2>4
  <2> QED BY <1>3, <2>1, <2>3, <2>4
<1>10. ASSUME l + 1 \in 1..e PROVE LeftOf(pattern, s, inner, l + 1)
  <2> DEFINE v == SubSeq(s, l + 1, e - 1)
             w == e - (l + 1)
  <2>1. w \in Nat /\ Len(rest) - Len(u) = w /\ w <= m - l /\ e - 1 <= m
    BY <1>1, <1>2, <1>4, <1>5, <1>6, <1>10
  <2>2. inner = SubSeq(rest, 1, w)
    BY <2>1
  <2> HIDE DEF inner
  <2>3. inner \in Seq(C) /\ Len(inner) = w /\ \A x \in 1..w : inner[x] = rest[x]
    <3> HIDE DEF w
    <3> QED BY <1>6, <2>1, <2>2
  <2>4. v \in Seq(C) /\ Len(v) = w /\ \A x \in 1..w : v[x] = s[l + x]
    <3>1. l + 1 >= 1 /\ e \in Nat /\ l + 1 <= e /\ e - 1 <= Len(s)
      BY <1>1, <1>4, <1>10, <2>1 DEF m
    <3> QED BY <3>1
  <2> HIDE DEF v
  <2>5. ASSUME NEW x \in 1..w PROVE inner[x] = v[x]
    <3>1. x \in 1..(m - l)
      BY <1>1, <2>1
    <3> QED BY <1>6, <2>3, <2>4, <3>1
  <2>6. inner = v
    <3> HIDE DEF w
    <3> QED BY <2>3, <2>4, <2>5, SeqEqual
  <2> QED BY <1>10, <2>6 DEF LeftOf, v, e
<1> QED BY <1>7, <1>8, <1>9, <1>10 DEF u, rest, e, inner

-----------------------------------------------------------------------------
(* matchPattern accepts exactly the texts the pattern stands for, for      *)
(* every pattern, text and alphabet: what the comment in front of          *)
(* matchPattern promises (rbac.go).                                        *)
THEOREM WildcardsMatch ==
    ASSUME NEW C, NEW pattern \in Seq(C), NEW s \in Seq(C)
    PROVE  matchPattern(pattern, s) <=> StandsFor(pattern, s)
<1> DEFINE n == Len(pattern)
           m == Len(s)
<1>0. n \in Nat /\ m \in Nat /\ 1 \in 1..(n + 1) /\ 1 \in 1..(m + 1)
  OBVIOUS
<1>a. StandsFor(pattern, s) <=> At(pattern, s, 1, 1)
  BY StandsAtOnce
<1>1. CASE Stars(pattern) = {}
  <2>1. At(pattern, s, 1, 1) <=> Same(pattern, s, 1, 1, n) /\ At(pattern, s, 1 + n, 1 + n)
    <3>1. Plain(pattern, 1, n) /\ 1 + n <= n + 1
      BY <1>0, <1>1 DEF Plain
    <3> HIDE DEF n
    <3> QED BY <1>0, <3>1, AtLetters DEF n
  <2>2. At(pattern, s, 1 + n, 1 + n) <=> n = m
    <3>1. 1 + n = n + 1 /\ (n + 1 = m + 1 <=> n = m)
      BY <1>0
    <3>2. At(pattern, s, n + 1, n + 1) <=> n + 1 = m + 1
      BY AtEnd
    <3> QED BY <3>1, <3>2
  <2>3. ASSUME n = m PROVE Same(pattern, s, 1, 1, n) <=> pattern = s
    <3>1. Same(pattern, s, 1, 1, n) <=> \A x \in 0..(n - 1) : s[1 + x] = pattern[1 + x]
      BY <1>0, <2>3 DEF Same
    <3>2. ASSUME \A x \in 0..(n - 1) : s[1 + x] = pattern[1 + x] PROVE pattern = s
      <4>1. ASSUME NEW y \in 1..n PROVE pattern[y] = s[y]
        <5>1. y - 1 \in 0..(n - 1) /\ 1 + (y - 1) = y
          BY <1>0
        <5>2. s[1 + (y - 1)] = pattern[1 + (y - 1)]
          BY <3>2, <5>1
        <5> QED BY <5>1, <5>2
      <4> QED BY <2>3, <4>1, SeqEqual
    <3> QED BY <3>1, <3>2
  <2>4. matchPattern(pattern, s) <=> pattern = s
    BY <1>1 DEF matchPattern
  <2>5. pattern = s => n = m
    OBVIOUS
  <2> QED BY <1>a, <2>1, <2>2, <2>3, <2>4, <2>5
<1>2. CASE Stars(pattern) # {}
  <2> DEFINE f == Min(Stars(pattern))
             z == Max(Stars(pattern))
             l == f - 1
             e == TailPlace(pattern, s)
             rest == DropFirst(s, Len(Leading(pattern)))
             inner == SubSeq(rest, 1, Len(rest) - Len(Trailing(pattern)))
  <2>1. /\ Stars(pattern) \subseteq 1..n /\ f \in Stars(pattern) /\ z \in Stars(pattern)
        /\ \A i \in Stars(pattern) : f <= i /\ i <= z
    BY <1>2, StarsInOrder
  <2>2. l \in Nat /\ Len(Leading(pattern)) = l
        /\ (IsPrefix(Leading(pattern), s) <=> Same(pattern, s, 1, 1, l))
    BY <1>2, LeadingInPlace
  <2>3. matchPattern(pattern, s) <=>
          \/ pattern = <<Star>>
          \/ /\ IsPrefix(Leading(pattern), s) /\ IsSuffix(Trailing(pattern), rest)
             /\ Behind(pattern, inner) # {}
    BY <1>2 DEF matchPattern
  <2>4. rest = DropFirst(s, l)
    BY <2>2
  <2> HIDE DEF rest, f, z, e, n
  <2>5. l <= m => /\ IsSuffix(Trailing(pattern), rest) <=> l + 1 \in 1..e /\ TailFits(pattern, s)
                  /\ l + 1 \in 1..e => LeftOf(pattern, s, inner, l + 1)
    BY <1>2, <2>2, <2>4, TrailingInPlace DEF e
  <2> HIDE DEF inner
  <2>6. At(pattern, s, 1, 1) <=> Same(pattern, s, 1, 1, l) /\ At(pattern, s, f, l + 1)
    <3>1. f \in 1..n /\ 1 + l = f /\ 1 + l = l + 1 /\ 1 + l <= n + 1
      BY <1>0, <2>1
    <3>2. Plain(pattern, 1, l)
      <4>1. \A i \in 1..(1 + l - 1) : ~(f <= i)
        BY <3>1
      <4> QED BY <2>1, <4>1 DEF Plain
    <3>3. At(pattern, s, 1, 1) <=> Same(pattern, s, 1, 1, l) /\ At(pattern, s, 1 + l, 1 + l)
      <4> HIDE DEF l
      <4> QED BY <1>0, <2>2, <3>1, <3>2, AtLetters DEF n
    <3>4. 1 + l = f /\ 1 + l = l + 1
      BY <3>1
    <3> HIDE DEF l
    <3> QED BY <3>3, <3>4
  <2>7. Same(pattern, s, 1, 1, l) => l <= m
    <3>1. Same(pattern, s, 1, 1, l) => 1 + l <= m + 1
      BY DEF Same
    <3> HIDE DEF l
    <3> QED BY <1>0, <2>2, <3>1
  <2>8. At(pattern, s, f, l + 1) => l + 1 \in 1..e /\ TailFits(pattern, s)
    <3> SUFFICES ASSUME At(pattern, s, f, l + 1) PROVE l + 1 \in 1..e /\ TailFits(pattern, s)
      OBVIOUS
    <3>1. f \in 1..z
      BY <1>0, <2>1
    <3>2. PICK k : At(pattern, s, z, k) /\ l + 1 <= k
      <4> HIDE DEF l
      <4> QED BY <1>2, <3>1, LastStarReached DEF z
    <3>3. k \in 1..e /\ TailFits(pattern, s)
      BY <1>2, <3>2, LastStarFits DEF z, e
    <3>4. e \in Int
      <4>1. e = (m + 1) - (n - z) /\ z \in Int
        BY <2>1, <1>0 DEF TailPlace, z, e, n
      <4> QED BY <1>0, <4>1
    <3> HIDE DEF l
    <3> QED BY <2>2, <3>2, <3>3, <3>4
  <2>9. LeftOf(pattern, s, inner, l + 1) /\ TailFits(pattern, s) =>
          (At(pattern, s, f, l + 1) <=> Behind(pattern, inner) # {})
    <3> HIDE DEF l
    <3> QED BY <1>2, BehindDecides DEF f
  <2>10. pattern = <<Star>> => At(pattern, s, 1, 1)
    <3> SUFFICES ASSUME pattern = <<Star>> PROVE At(pattern, s, 1, 1)
      OBVIOUS
    <3>1. 1 \in Stars(pattern) /\ n = 1
      BY DEF Stars, n
    <3>2. At(pattern, s, n + 1, m + 1)
      BY AtEnd DEF n
    <3>3. At(pattern, s, 1 + 1, m + 1) /\ 1 <= m + 1
      BY <1>0, <3>1, <3>2
    <3> QED BY <1>0, <3>1, <3>3, AtStar
  <2> HIDE DEF l
  <2> QED BY <1>a, <2>2, <2>3, <2>5, <2>6, <2>7, <2>8, <2>9, <2>10
<1> QED BY <1>1, <1>2

-----------------------------------------------------------------------------
(* The rules and the engine *)

Rules(C) == [client : Seq(C), allow : SUBSET Seq(C), deny : SUBSET Seq(C)]
Rbacs(C) == [defaultAllow : BOOLEAN, rules : Seq(Rules(C))]

LEMMA ListedMeansNamed ==
    ASSUME NEW C, NEW patterns \in SUBSET Seq(C), NEW tool \in Seq(C)
    PROVE  ListedIn(patterns, tool) <=> \E p \in patterns : StandsFor(p, tool)
<1>1. \A p \in patterns : matchPattern(p, tool) <=> StandsFor(p, tool)
  BY WildcardsMatch
<1> QED BY <1>1 DEF ListedIn

(* What the rules decide about a call is what their comments say: a denial *)
(* by any rule of the client's comes first, then a permission by any, then *)
(* the default, which allow lists turn into a refusal; and a policy in     *)
(* shadow mode refuses nothing. For every policy, client and tool.         *)
THEOREM RulesDecideAsDocumented ==
    ASSUME NEW C, NEW rbac \in Rbacs(C), NEW client \in Seq(C), NEW tool \in Seq(C)
    PROVE  RulesDecide(rbac, client, tool)
<1> DEFINE rules == {r \in ToSet(rbac.rules) : matchPattern(r.client, client)}
           mine  == {r \in ToSet(rbac.rules) : StandsFor(r.client, client)}
           denies == UNION {r.deny : r \in mine}
           allows == UNION {r.allow : r \in mine}
           Names(patterns) == \E p \in patterns : StandsFor(p, tool)
           decided == Check(rbac, client, tool)
<1>1. \A r \in ToSet(rbac.rules) : r \in Rules(C)
  BY DEF Rbacs, ToSet
<1>2. rules = mine
  <2>1. \A r \in ToSet(rbac.rules) : matchPattern(r.client, client) <=> StandsFor(r.client, client)
    BY <1>1, WildcardsMatch DEF Rules
  <2> QED BY <2>1
<1>3. \A r \in mine : r.allow \in SUBSET Seq(C) /\ r.deny \in SUBSET Seq(C)
  BY <1>1 DEF Rules
<1>d. decided = IF \E r \in rules : ListedIn(r.deny, tool) THEN Decided(FALSE, "denied by rule")
                ELSE IF \E r \in rules : ListedIn(r.allow, tool) THEN Decided(TRUE, "allowed by rule")
                ELSE IF \E r \in rules : r.allow # {} THEN Decided(FALSE, "not in the allow list")
                ELSE Decided(rbac.defaultAllow, "default policy")
  BY DEF Check
<1> HIDE DEF rules, mine, decided
<1>4. (\E r \in rules : ListedIn(r.deny, tool)) <=> Names(denies)
  <2>1. \A r \in mine : ListedIn(r.deny, tool) <=> Names(r.deny)
    BY <1>3, ListedMeansNamed
  <2> QED BY <1>2, <2>1
<1>5. (\E r \in rules : ListedIn(r.allow, tool)) <=> Names(allows)
  <2>1. \A r \in mine : ListedIn(r.allow, tool) <=> Names(r.allow)
    BY <1>3, ListedMeansNamed
  <2> QED BY <1>2, <2>1
<1>6. (\E r \in rules : r.allow # {}) <=> allows # {}
  BY <1>2
<1>7. Names(allows) => allows # {}
  OBVIOUS
<1> HIDE DEF denies, allows, Names
<1>8. decided.allowed <=> ~Names(denies) /\ (Names(allows) \/ (allows = {} /\ rbac.defaultAllow))
  <2>1. CASE Names(denies)
    BY <1>d, <1>4, <2>1 DEF Decided
  <2>2. CASE ~Names(denies) /\ Names(allows)
    BY <1>d, <1>4, <1>5, <2>2 DEF Decided
  <2>3. CASE ~Names(denies) /\ ~Names(allows) /\ allows # {}
    BY <1>d, <1>4, <1>5, <1>6, <2>3 DEF Decided
  <2>4. CASE ~Names(denies) /\ ~Names(allows) /\ allows = {}
    <3>1. decided = Decided(rbac.defaultAllow, "default policy")
      BY <1>d, <1>4, <1>5, <1>6, <2>4
    <3>2. decided.allowed = rbac.defaultAllow
      BY <3>1 DEF Decided
    <3> QED BY <2>4, <3>2
  <2> QED BY <2>1, <2>2, <2>3, <2>4
<1>9. ShadowMode(rbac) => decided.allowed
  <2> SUFFICES ASSUME rbac.defaultAllow, rbac.rules = <<>> PROVE decided.allowed
    BY DEF ShadowMode
  <2>1. mine = {}
    BY DEF mine, ToSet
  <2>2. denies = {} /\ allows = {}
    BY <2>1 DEF denies, allows
  <2>3. ~Names(denies) /\ rbac.defaultAllow
    BY <2>2 DEF Names
  <2> QED BY <1>8, <2>2, <2>3
<1> QED BY <1>8, <1>9 DEF RulesDecide, decided, mine, denies, allows, Names

Events(C) ==
    [direction : {"request", "response"}, method : STRING, client : Seq(C), tool : Seq(C),
     parses : BOOLEAN, changed : BOOLEAN, suspect : BOOLEAN]

(* The engine refuses nothing but a call of a tool that the rules deny,    *)
(* flags it, and raises each other flag exactly on its detector's evidence *)
(* (engine.go): for every policy, choice of detectors and event.           *)
THEOREM EngineDecidesAsDocumented ==
    ASSUME NEW C, NEW engine, engine.rbac \in Rbacs(C), NEW ev \in Events(C)
    PROVE  EngineDecides(engine, ev)
<1> DEFINE checked == Check(engine.rbac, ev.client, ev.tool)
           decision == Evaluate(engine, ev)
<1>1. checked.allowed \in BOOLEAN
  BY DEF Check, Decided, Rbacs
<1> HIDE DEF checked
<1>2. CASE ev.direction = "request" /\ ev.method = "tools/call"
  <2>1. decision = IF checked.allowed THEN Pass ELSE [allowed |-> FALSE, flags |-> {"rbac_denied"}]
    BY <1>2 DEF Evaluate, checkRBAC, checked
  <2> HIDE DEF decision
  <2>2. CASE checked.allowed
    <3>1. decision.allowed = TRUE /\ decision.flags = {}
      BY <2>1, <2>2 DEF Pass
    <3> QED BY <1>2, <3>1 DEF EngineDecides, decision
  <2>3. CASE ~checked.allowed
    <3>1. decision.allowed = FALSE /\ decision.flags = {"rbac_denied"}
      BY <2>1, <2>3
    <3> QED BY <1>2, <2>3, <3>1 DEF EngineDecides, decision, checked
  <2> QED BY <2>2, <2>3
<1>3. CASE ev.direction = "response" /\ ev.method = "tools/list"
  <2>1. decision = IF ~ev.parses THEN Pass
                   ELSE [Pass EXCEPT !.flags = Found("rug_pull", ev.changed, engine, "rug_pull")
                                     \union Found("poisoning", ev.suspect, engine, "poisoning_suspect")]
    BY <1>3 DEF Evaluate, inspectToolList
  <2> HIDE DEF decision
  <2>2. /\ decision.allowed = TRUE
        /\ decision.flags = IF ~ev.parses THEN {}
                            ELSE Found("rug_pull", ev.changed, engine, "rug_pull")
                                 \union Found("poisoning", ev.suspect, engine, "poisoning_suspect")
    BY <2>1 DEF Pass
  <2> QED BY <1>3, <2>2 DEF EngineDecides, decision, Found
<1>4. CASE ev.direction = "response" /\ ev.method = "tools/call"
  <2>1. decision = [Pass EXCEPT !.flags = Found("results", ev.suspect, engine, "result_injection_suspect")]
    BY <1>4 DEF Evaluate, inspectToolResult
  <2> HIDE DEF decision
  <2>2. decision.allowed = TRUE /\ decision.flags = Found("results", ev.suspect, engine, "result_injection_suspect")
    BY <2>1 DEF Pass
  <2> QED BY <1>4, <2>2 DEF EngineDecides, decision, Found
<1>5. CASE ev.method # "tools/call" /\ ~(ev.direction = "response" /\ ev.method = "tools/list")
  <2>1. decision = Pass
    BY <1>5 DEF Evaluate
  <2> HIDE DEF decision
  <2>2. decision.allowed = TRUE /\ decision.flags = {}
    BY <2>1 DEF Pass
  <2> QED BY <1>5, <2>2 DEF EngineDecides, decision
<1>6. ev.direction \in {"request", "response"}
  BY DEF Events
<1> QED BY <1>2, <1>3, <1>4, <1>5, <1>6
=============================================================================
