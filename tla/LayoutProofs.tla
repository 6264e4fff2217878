---------------------------- MODULE LayoutProofs ----------------------------
(***************************************************************************)
(* What holds of a dashboard's layouts for any panes, tabs, edits and      *)
(* bounds: they are trees, and edits that follow each other are kept as    *)
(* they are shown.                                                         *)
(*                                                                         *)
(* First what is needed of trees.  They are built level by level, and what *)
(* is said of all of them is proved by induction on the level.  Removing a *)
(* pane commutes with what the server makes of a tree (RemoveSettles), the *)
(* one fact about trees that KeptAsShown rests on.  Then the edits, one    *)
(* lemma for each action.                                                  *)
(***************************************************************************)
EXTENDS LayoutEdits, SequenceTheorems, WellFoundedInduction, TLAPS

-----------------------------------------------------------------------------
(* Numbers.                                                                *)

\* Of numbers one is least.
LEMMA LeastNat ==
  ASSUME NEW T \in SUBSET Nat, T # {}
  PROVE  \E n \in T : \A m \in T : n <= m
<1> DEFINE Less == {ss \in Nat \X Nat : ss[1] < ss[2]}
<1>1. IsWellFoundedOn(Less, Nat)
  BY NatLessThanWellFounded DEF OpToRel
<1>2. \E x \in T : \A y \in T : ~(<<y, x>> \in Less)
  <2> HIDE DEF Less
  <2> QED BY <1>1, WFMin
<1>3. \A x, y \in Nat : <<y, x>> \in Less <=> y < x
  OBVIOUS
<1>4. PICK x \in T : \A y \in T : ~(<<y, x>> \in Less)
  BY <1>2
<1>5. \A y \in T : ~(y < x)
  BY <1>3, <1>4
<1>6. \A y \in T : x <= y
  BY <1>5, T \subseteq Nat
<1> QED BY <1>6

\* Induction: a set with 0 that is closed under the successor has every number.
LEMMA Inductive ==
  ASSUME NEW T \in SUBSET Nat, 0 \in T, \A n \in T : n + 1 \in T
  PROVE  T = Nat
<1> SUFFICES ASSUME Nat \ T # {} PROVE FALSE
  OBVIOUS
<1>1. PICK n \in Nat \ T : \A m \in Nat \ T : n <= m
  BY LeastNat, Nat \ T \in SUBSET Nat
<1>2. n # 0 /\ n \in Nat
  BY <1>1
<1>3. n - 1 \in Nat /\ n - 1 < n
  BY <1>2
<1>4. n - 1 \in T
  BY <1>1, <1>3
<1>5. (n - 1) + 1 \in T
  BY <1>4
<1> QED BY <1>1, <1>2, <1>5

LEMMA InductiveTo ==
  ASSUME NEW n \in Nat, NEW T \in SUBSET (0..n), 0 \in T, \A k \in 0..(n - 1) : k \in T => k + 1 \in T
  PROVE  T = 0..n
<1> DEFINE S == {k \in Nat : k <= n => k \in T}
<1>1. S \in SUBSET Nat /\ 0 \in S
  OBVIOUS
<1>2. \A k \in S : k + 1 \in S
  <2> TAKE k \in S
  <2>1. k \in Nat /\ (k <= n => k \in T)
    OBVIOUS
  <2> SUFFICES ASSUME k + 1 <= n PROVE k + 1 \in T
    BY <2>1
  <2>2. k \in 0..(n - 1) /\ k \in T
    BY <2>1
  <2> QED BY <2>2
<1>3. S = Nat
  <2> HIDE DEF S
  <2> QED BY <1>1, <1>2, Inductive
<1>4. \A k \in 0..n : k \in T
  <2> TAKE k \in 0..n
  <2>1. k \in S
    BY <1>3
  <2> QED BY <2>1
<1> QED BY <1>4

-----------------------------------------------------------------------------
(* What FlattenSeq makes of sequences.                                     *)

IsFlat(g, ss) ==
  /\ g[0] = <<>>
  /\ \A i \in 1..Len(ss) : g[i] = g[i - 1] \o ss[i]
  /\ FlattenSeq(ss) = g[Len(ss)]

\* The sequences so far, one after the other.
LEMMA PartsDefined ==
  ASSUME NEW S, NEW ss \in Seq(Seq(S))
  PROVE  \E f \in [0..Len(ss) -> Seq(S)] :
           f[0] = <<>> /\ \A i \in 1..Len(ss) : f[i] = f[i - 1] \o ss[i]
<1> DEFINE n == Len(ss)
           IsPart(f, k) == f[0] = <<>> /\ \A i \in 1..k : f[i] = f[i - 1] \o ss[i]
           T == {k \in 0..n : \E f \in [0..k -> Seq(S)] : IsPart(f, k)}
<1>1. n \in Nat /\ \A i \in 1..n : ss[i] \in Seq(S)
  OBVIOUS
<1>2. T \in SUBSET (0..n) /\ 0 \in T
  <2>1. [i \in 0..0 |-> <<>>] \in [0..0 -> Seq(S)] /\ IsPart([i \in 0..0 |-> <<>>], 0)
    OBVIOUS
  <2>2. \E f \in [0..0 -> Seq(S)] : IsPart(f, 0)
    <3> HIDE DEF IsPart
    <3> QED BY <2>1
  <2> HIDE DEF IsPart
  <2> QED BY <1>1, <2>2
<1>3. \A k \in 0..(n - 1) : k \in T => k + 1 \in T
  <2> SUFFICES ASSUME NEW k \in 0..(n - 1), k \in T PROVE k + 1 \in T
    OBVIOUS
  <2>0. n \in Nat /\ k \in Nat /\ k + 1 \in 1..n /\ k + 1 \in 0..n /\ k \in 0..k /\ ss[k + 1] \in Seq(S)
    <3> HIDE DEF n
    <3> QED BY <1>1
  <2>1. PICK f \in [0..k -> Seq(S)] : IsPart(f, k)
    OBVIOUS
  <2> DEFINE g == [i \in 0..(k + 1) |-> IF i = k + 1 THEN f[k] \o ss[k + 1] ELSE f[i]]
  <2>2. f[k] \in Seq(S) /\ f[k] \o ss[k + 1] \in Seq(S)
    BY <2>0, <2>1
  <2>3. g \in [0..(k + 1) -> Seq(S)]
    <3> HIDE DEF n, T
    <3>1. \A i \in 0..(k + 1) : i # k + 1 => i \in 0..k
      BY ONLY <2>0
    <3> QED BY <2>0, <2>1, <2>2, <3>1
  <2>4. g[0] = <<>>
    <3> HIDE DEF n, T
    <3>1. 0 \in 0..(k + 1) /\ 0 # k + 1
      BY ONLY <2>0
    <3> QED BY <2>1, <3>1
  <2>5. \A i \in 1..(k + 1) : g[i] = g[i - 1] \o ss[i]
    <3> HIDE DEF n, T
    <3> TAKE i \in 1..(k + 1)
    <3>1. i \in 0..(k + 1) /\ i - 1 \in 0..(k + 1) /\ i - 1 # k + 1 /\ (i # k + 1 => i \in 1..k) /\ (k + 1) - 1 = k
      BY ONLY <2>0, i \in 1..(k + 1)
    <3>2. g[i - 1] = f[i - 1]
      BY <3>1
    <3>3. CASE i = k + 1
      BY <3>1, <3>2, <3>3
    <3>4. CASE i # k + 1
      BY <2>1, <3>1, <3>2, <3>4
    <3> QED BY <3>3, <3>4
  <2>6. IsPart(g, k + 1)
    <3> HIDE DEF g, n, T
    <3> QED BY <2>4, <2>5
  <2> HIDE DEF g, IsPart, n
  <2> QED BY <2>0, <2>3, <2>6
<1>4. n \in T
  <2> HIDE DEF T
  <2>1. T = 0..n
    BY <1>1, <1>2, <1>3, InductiveTo
  <2> QED BY <1>1, <2>1
<1> QED BY <1>4

LEMMA FlatSteps ==
  ASSUME NEW S, NEW ss \in Seq(Seq(S))
  PROVE  \E g \in [0..Len(ss) -> Seq(S)] : IsFlat(g, ss)
<1> DEFINE n == Len(ss)
<1>1. n \in Nat /\ \A i \in 1..n : ss[i] \in Seq(S)
  OBVIOUS
<1>2. PICK f \in [0..n -> Seq(S)] : f[0] = <<>> /\ \A i \in 1..n : f[i] = f[i - 1] \o ss[i]
  BY PartsDefined
<1>3. CASE n = 0
  <2>1. FlattenSeq(ss) = ss /\ ss = <<>>
    BY <1>3 DEF FlattenSeq
  <2> QED BY <1>2, <1>3, <2>1 DEF IsFlat
<1>4. CASE n # 0
  <2>0. f[1] = ss[1]
    <3>1. 1 \in 1..n /\ 1 - 1 = 0 /\ ss[1] \in Seq(S)
      BY <1>1, <1>4
    <3>2. f[1] = f[1 - 1] \o ss[1]
      <4> HIDE DEF n
      <4> QED BY <1>2, <3>1
    <3>3. <<>> \o ss[1] = ss[1]
      BY ONLY <3>1
    <3>4. f[1 - 1] = <<>>
      BY <1>2, <3>1
    <3> QED BY <3>2, <3>3, <3>4
  <2> DEFINE body(h) == [i \in 1..n |-> IF i = 1 THEN ss[i] ELSE h[i - 1] \o ss[i]]
             h0 == CHOOSE h : h = body(h)
  <2>1. FlattenSeq(ss) = h0[n]
    BY <1>4 DEF FlattenSeq
  <2>2. h0 = body(h0)
    <3> DEFINE h == [i \in 1..n |-> f[i]]
    <3>1. h = body(h)
      <4>1. \A i \in 1..n : h[i] = body(h)[i]
        <5> TAKE i \in 1..n
        <5>1. CASE i = 1
          <6> QED BY <2>0, <5>1
        <5>2. CASE i # 1
          <6>1. i - 1 \in 1..n
            BY <1>1, <5>2
          <6> QED BY <1>2, <5>2, <6>1
        <5> QED BY <5>1, <5>2
      <4> QED BY <4>1
    <3> HIDE DEF h, body
    <3> QED BY <3>1
  <2>3. \A i \in 1..n : h0[i] = IF i = 1 THEN ss[i] ELSE h0[i - 1] \o ss[i]
    <3> HIDE DEF h0
    <3> QED BY <2>2
  <2> HIDE DEF h0, body
  <2> DEFINE T == {i \in 0..n : i # 0 => h0[i] = f[i]}
  <2>4. T \in SUBSET (0..n) /\ 0 \in T
    BY <1>1
  <2>5. \A i \in 0..(n - 1) : i \in T => i + 1 \in T
    <3> SUFFICES ASSUME NEW i \in 0..(n - 1), i \in T PROVE i + 1 \in T
      OBVIOUS
    <3>1. i + 1 \in 1..n /\ (i + 1) - 1 = i /\ i + 1 \in 0..n /\ i \in 0..n
      BY <1>1
    <3>2. CASE i = 0
      <4>1. f[1] = ss[1] /\ h0[1] = ss[1]
        BY <2>0, <2>3, <3>1, <3>2
      <4> QED BY <3>1, <3>2, <4>1
    <3>3. CASE i # 0
      <4>1. h0[i + 1] = h0[i] \o ss[i + 1] /\ f[i + 1] = f[i] \o ss[i + 1] /\ h0[i] = f[i]
        <5>1. i + 1 # 1 /\ i \in T
          BY <3>1, <3>3
        <5>2. h0[i + 1] = h0[(i + 1) - 1] \o ss[i + 1] /\ f[i + 1] = f[(i + 1) - 1] \o ss[i + 1]
          <6> HIDE DEF n, T
          <6> QED BY <1>2, <2>3, <3>1, <5>1
        <5> QED BY <3>1, <3>3, <5>1, <5>2
      <4> QED BY <3>1, <4>1
    <3> QED BY <3>2, <3>3
  <2>6. n \in T
    <3> HIDE DEF T
    <3>1. T = 0..n
      BY <1>1, <2>4, <2>5, InductiveTo
    <3> QED BY <1>1, <3>1
  <2>7. FlattenSeq(ss) = f[n]
    BY <1>4, <2>1, <2>6
  <2> QED BY <1>2, <2>7 DEF IsFlat
<1> QED BY <1>3, <1>4

LEMMA FlatType ==
  ASSUME NEW S, NEW ss \in Seq(Seq(S))
  PROVE  FlattenSeq(ss) \in Seq(S)
<1>1. PICK g \in [0..Len(ss) -> Seq(S)] : IsFlat(g, ss)
  BY FlatSteps
<1>2. FlattenSeq(ss) = g[Len(ss)] /\ Len(ss) \in 0..Len(ss)
  BY <1>1 DEF IsFlat
<1> QED BY <1>2

\* Nothing of the parts is lost.
LEMMA FlatHas ==
  ASSUME NEW S, NEW ss \in Seq(Seq(S)), NEW j \in 1..Len(ss), NEW x \in ToSet(ss[j])
  PROVE  x \in ToSet(FlattenSeq(ss))
<1> DEFINE n == Len(ss)
<1>1. PICK g \in [0..Len(ss) -> Seq(S)] : IsFlat(g, ss)
  BY FlatSteps
<1>2. n \in Nat /\ j \in 1..n /\ \A i \in 1..n : ss[i] \in Seq(S)
  OBVIOUS
<1> HIDE DEF n
<1>3. /\ \A i \in 0..n : g[i] \in Seq(S)
      /\ \A i \in 1..n : g[i] = g[i - 1] \o ss[i]
      /\ FlattenSeq(ss) = g[n]
  BY <1>1 DEF IsFlat, n
<1> DEFINE T == {i \in 0..n : j <= i => x \in ToSet(g[i])}
<1>4. T \in SUBSET (0..n) /\ 0 \in T
  BY <1>2
<1>5. \A i \in 0..(n - 1) : i \in T => i + 1 \in T
  <2> SUFFICES ASSUME NEW i \in 0..(n - 1), i \in T, j <= i + 1 PROVE x \in ToSet(g[i + 1])
    <3>1. \A i \in 0..(n - 1) : i + 1 \in 0..n
      BY ONLY <1>2
    <3> QED BY <3>1
  <2>0. j <= i => x \in ToSet(g[i])
    OBVIOUS
  <2>1. i + 1 \in 1..n /\ (i + 1) - 1 = i /\ i \in 0..n
    BY ONLY <1>2, i \in 0..(n - 1)
  <2>2. g[i + 1] = g[i] \o ss[i + 1] /\ g[i] \in Seq(S) /\ ss[i + 1] \in Seq(S)
    BY <1>2, <1>3, <2>1
  <2>3. \A y \in ToSet(g[i]) \cup ToSet(ss[i + 1]) : y \in ToSet(g[i] \o ss[i + 1])
    <3>1. Range(g[i] \o ss[i + 1]) = Range(g[i]) \cup Range(ss[i + 1])
      BY <2>2, RangeConcatenation
    <3> QED BY ONLY <3>1 DEF ToSet, Range
  <2>4. j = i + 1 \/ j <= i
    BY ONLY <1>2, j <= i + 1, i \in 0..(n - 1)
  <2> QED BY <2>0, <2>2, <2>3, <2>4
<1>6. n \in T
  <2> HIDE DEF T
  <2>1. T = 0..n
    BY <1>2, <1>4, <1>5, InductiveTo
  <2> QED BY <1>2, <2>1
<1> QED BY <1>2, <1>3, <1>6

\* Parts of one element each.
LEMMA FlatOnes ==
  ASSUME NEW S, NEW s \in Seq(S)
  PROVE  FlattenSeq([i \in DOMAIN s |-> <<s[i]>>]) = s
<1> DEFINE n == Len(s)
           ss == [i \in DOMAIN s |-> <<s[i]>>]
<1>1. n \in Nat /\ DOMAIN s = 1..n /\ \A i \in 1..n : s[i] \in S
  OBVIOUS
<1>2. ss \in Seq(Seq(S)) /\ Len(ss) = n /\ \A i \in 1..n : ss[i] = <<s[i]>>
  BY <1>1
<1> HIDE DEF ss, n
<1>3. PICK g \in [0..Len(ss) -> Seq(S)] : IsFlat(g, ss)
  BY <1>2, FlatSteps
<1>4. /\ \A i \in 0..n : g[i] \in Seq(S)
      /\ \A i \in 1..n : g[i] = g[i - 1] \o <<s[i]>>
      /\ FlattenSeq(ss) = g[n] /\ g[0] = <<>>
  BY <1>2, <1>3 DEF IsFlat
<1> DEFINE T == {i \in 0..n : Len(g[i]) = i /\ \A k \in 1..i : g[i][k] = s[k]}
<1>5. T \in SUBSET (0..n) /\ 0 \in T
  BY <1>1, <1>4
<1>6. \A i \in 0..(n - 1) : i \in T => i + 1 \in T
  <2> SUFFICES ASSUME NEW i \in 0..(n - 1), Len(g[i]) = i, \A k \in 1..i : g[i][k] = s[k]
               PROVE  Len(g[i + 1]) = i + 1 /\ \A k \in 1..(i + 1) : g[i + 1][k] = s[k]
    BY <1>1
  <2>1. i + 1 \in 1..n /\ (i + 1) - 1 = i /\ i \in 0..n /\ i \in Nat
    BY <1>1
  <2>2. g[i + 1] = g[i] \o <<s[i + 1]>> /\ g[i] \in Seq(S) /\ s[i + 1] \in S
    BY <1>1, <1>4, <2>1
  <2>3. Len(g[i] \o <<s[i + 1]>>) = i + 1
    BY <2>1, <2>2
  <2>4. \A k \in 1..(i + 1) : (g[i] \o <<s[i + 1]>>)[k] = s[k]
    BY <2>1, <2>2
  <2> QED BY <2>2, <2>3, <2>4
<1>7. n \in T
  <2> HIDE DEF T
  <2>1. T = 0..n
    BY <1>1, <1>5, <1>6, InductiveTo
  <2> QED BY <1>1, <2>1
<1>8. g[n] \in Seq(S) /\ Len(g[n]) = n /\ \A k \in 1..n : g[n][k] = s[k]
  BY <1>1, <1>4, <1>7
<1>9. g[n] = s
  BY <1>1, <1>8 DEF n
<1> QED BY <1>4, <1>9 DEF ss

-----------------------------------------------------------------------------
(* Trees.                                                                  *)

NodesOver(K) == Leaves \cup [pane : {NoPane}, dir : Axes \cup {"none"}, kids : K]

LEMMA KidsOf ==
  ASSUME NEW S, NEW t \in NodesOver(Seq(S))
  PROVE  t.kids \in Seq(S)
<1>1. <<>> \in Seq(S)
  OBVIOUS
<1> QED BY <1>1 DEF NodesOver, Leaves

LEMMA NodesDefined ==
  \A n \in 0..MaxDepth : NodesTo[n] = NodesOver(IF n = 0 THEN {<<>>} ELSE Seq(NodesTo[n - 1]))
<1> DEFINE body(f, n) == NodesOver(IF n = 0 THEN {<<>>} ELSE Seq(f[n - 1]))
           IsDef(f, k) == f = [n \in 0..k |-> body(f, n)]
           T == {k \in 0..MaxDepth : \E f : IsDef(f, k)}
<1>0. MaxDepth \in Nat
  BY TreeAssumption
<1>1. T \in SUBSET (0..MaxDepth) /\ 0 \in T
  <2> DEFINE f == [n \in 0..0 |-> body(<<>>, n)]
  <2>1. IsDef(f, 0)
    OBVIOUS
  <2> HIDE DEF f, IsDef
  <2> QED BY <1>0, <2>1
<1>2. \A k \in 0..(MaxDepth - 1) : k \in T => k + 1 \in T
  <2> SUFFICES ASSUME NEW k \in 0..(MaxDepth - 1), k \in T PROVE k + 1 \in T
    OBVIOUS
  <2>1. PICK f : IsDef(f, k)
    OBVIOUS
  <2> DEFINE g == [n \in 0..(k + 1) |-> IF n = k + 1 THEN body(f, k + 1) ELSE f[n]]
  <2>2. k \in Nat /\ k + 1 \in 0..MaxDepth
    BY <1>0
  <2>3. \A n \in 0..(k + 1) : g[n] = body(g, n)
    <3> HIDE DEF T
    <3> TAKE n \in 0..(k + 1)
    <3>1. n \in Nat /\ (n # k + 1 => n \in 0..k)
      BY <2>2
    <3>2. n # 0 => n - 1 \in 0..(k + 1) /\ n - 1 # k + 1
      BY <2>2
    <3>3. n # 0 => g[n - 1] = f[n - 1]
      BY <3>2
    <3>4. body(g, n) = body(f, n)
      <4> HIDE DEF g
      <4> QED BY <3>3
    <3>5. n # k + 1 => f[n] = body(f, n)
      <4>1. \A m \in 0..k : f[m] = body(f, m)
        <5> HIDE DEF body
        <5> QED BY <2>1
      <4> HIDE DEF body, IsDef
      <4> QED BY <3>1, <4>1
    <3>6. g[n] = body(f, n)
      <4> HIDE DEF body, IsDef
      <4> QED BY <3>5
    <3> HIDE DEF g, body
    <3> QED BY <3>4, <3>6
  <2>4. IsDef(g, k + 1)
    <3>1. g = [n \in 0..(k + 1) |-> g[n]]
      OBVIOUS
    <3> HIDE DEF g, body
    <3> QED BY <2>3, <3>1
  <2> HIDE DEF g, IsDef
  <2> QED BY <2>2, <2>4
<1>3. MaxDepth \in T
  <2> HIDE DEF T
  <2>1. T = 0..MaxDepth
    BY <1>0, <1>1, <1>2, InductiveTo
  <2> QED BY <1>0, <2>1
<1>4. \E f : IsDef(f, MaxDepth)
  <2> HIDE DEF IsDef
  <2> QED BY <1>3
<1>5. NodesTo = CHOOSE f : IsDef(f, MaxDepth)
  BY DEF NodesTo, NodesOver
<1>6. IsDef(NodesTo, MaxDepth)
  <2> HIDE DEF IsDef
  <2> QED BY <1>4, <1>5
<1> QED BY <1>6

LEMMA NodesNext ==
  /\ NodesTo[0] = NodesOver({<<>>})
  /\ \A n \in 0..(MaxDepth - 1) : n + 1 \in 0..MaxDepth /\ n \in 0..MaxDepth /\ NodesTo[n + 1] = NodesOver(Seq(NodesTo[n]))
<1>0. MaxDepth \in Nat
  BY TreeAssumption
<1>1. NodesTo[0] = NodesOver({<<>>})
  BY <1>0, NodesDefined
<1>2. ASSUME NEW n \in 0..(MaxDepth - 1)
      PROVE  n + 1 \in 0..MaxDepth /\ n \in 0..MaxDepth /\ NodesTo[n + 1] = NodesOver(Seq(NodesTo[n]))
  <2>1. n + 1 \in 0..MaxDepth /\ n \in 0..MaxDepth /\ n + 1 # 0 /\ (n + 1) - 1 = n
    BY <1>0
  <2> QED BY <2>1, NodesDefined
<1> QED BY <1>1, <1>2

LEMMA NodesGrow == \A n \in 0..(MaxDepth - 1) : NodesTo[n] \subseteq NodesTo[n + 1]
<1> DEFINE T == {n \in 0..(MaxDepth - 1) : NodesTo[n] \subseteq NodesTo[n + 1]}
<1>0. MaxDepth \in Nat \ {0} /\ MaxDepth - 1 \in Nat
  BY TreeAssumption
<1>1. T \in SUBSET (0..(MaxDepth - 1)) /\ 0 \in T
  <2>1. NodesTo[0] \subseteq NodesTo[0 + 1]
    <3>1. NodesTo[0 + 1] = NodesOver(Seq(NodesTo[0])) /\ NodesTo[0] = NodesOver({<<>>}) /\ <<>> \in Seq(NodesTo[0])
      BY <1>0, NodesNext
    <3>2. NodesOver({<<>>}) \subseteq NodesOver(Seq(NodesTo[0]))
      <4>1. {<<>>} \subseteq Seq(NodesTo[0])
        BY <3>1
      <4> QED BY ONLY <4>1 DEF NodesOver, Leaves
    <3> QED BY <3>1, <3>2
  <2> QED BY <1>0, <2>1
<1>2. \A n \in 0..((MaxDepth - 1) - 1) : n \in T => n + 1 \in T
  <2> SUFFICES ASSUME NEW n \in 0..((MaxDepth - 1) - 1), NodesTo[n] \subseteq NodesTo[n + 1]
               PROVE  n + 1 \in 0..(MaxDepth - 1) /\ NodesTo[n + 1] \subseteq NodesTo[(n + 1) + 1]
    OBVIOUS
  <2>1. n \in 0..(MaxDepth - 1) /\ n + 1 \in 0..(MaxDepth - 1)
    BY <1>0
  <2>2. NodesTo[n + 1] = NodesOver(Seq(NodesTo[n])) /\ NodesTo[(n + 1) + 1] = NodesOver(Seq(NodesTo[n + 1]))
    BY <2>1, NodesNext
  <2>3. Seq(NodesTo[n]) \subseteq Seq(NodesTo[n + 1])
    <3> SUFFICES ASSUME NEW s \in Seq(NodesTo[n]) PROVE s \in Seq(NodesTo[n + 1])
      OBVIOUS
    <3> QED OBVIOUS
  <2>4. NodesOver(Seq(NodesTo[n])) \subseteq NodesOver(Seq(NodesTo[n + 1]))
    BY <2>3 DEF NodesOver, Leaves
  <2> QED BY <2>1, <2>2, <2>4
<1>3. T = 0..(MaxDepth - 1)
  <2> HIDE DEF T
  <2> QED BY <1>0, <1>1, <1>2, InductiveTo
<1> QED BY <1>3

LEMMA NodesWithin == \A n \in 0..MaxDepth : NodesTo[n] \subseteq Nodes
<1> DEFINE T == {k \in 0..MaxDepth : NodesTo[MaxDepth - k] \subseteq Nodes}
<1>0. MaxDepth \in Nat
  BY TreeAssumption
<1>1. T \in SUBSET (0..MaxDepth) /\ 0 \in T
  <2>1. MaxDepth - 0 = MaxDepth
    BY <1>0
  <2> QED BY <1>0, <2>1 DEF Nodes
<1>2. \A k \in 0..(MaxDepth - 1) : k \in T => k + 1 \in T
  <2> SUFFICES ASSUME NEW k \in 0..(MaxDepth - 1), NodesTo[MaxDepth - k] \subseteq Nodes PROVE k + 1 \in T
    OBVIOUS
  <2>1. k + 1 \in 0..MaxDepth /\ MaxDepth - (k + 1) \in 0..(MaxDepth - 1) /\ (MaxDepth - (k + 1)) + 1 = MaxDepth - k
    BY <1>0
  <2>2. NodesTo[MaxDepth - (k + 1)] \subseteq NodesTo[MaxDepth - k]
    BY <2>1, NodesGrow
  <2> QED BY <2>1, <2>2
<1>3. T = 0..MaxDepth
  <2> HIDE DEF T
  <2> QED BY <1>0, <1>1, <1>2, InductiveTo
<1>4. ASSUME NEW n \in 0..MaxDepth PROVE NodesTo[n] \subseteq Nodes
  <2>1. MaxDepth - n \in 0..MaxDepth /\ MaxDepth - (MaxDepth - n) = n
    BY <1>0
  <2>2. MaxDepth - n \in T
    <3> HIDE DEF T
    <3> QED BY <1>3, <2>1
  <2> QED BY <2>1, <2>2
<1> QED BY <1>4

\* A node: what is below it is lower.
LEMMA NodeParts ==
  ASSUME NEW t \in Nodes
  PROVE  /\ t.kids \in Seq(Nodes) /\ t.dir \in Axes \cup {"none"}
         /\ (t.pane \in PaneIDs /\ t.kids = <<>>) \/ t.pane = NoPane
         /\ \A kids : [t EXCEPT !.kids = kids] = [pane |-> t.pane, dir |-> t.dir, kids |-> kids]
         /\ [t EXCEPT !.kids = t.kids] = t
<1>1. MaxDepth - 1 \in 0..(MaxDepth - 1) /\ (MaxDepth - 1) + 1 = MaxDepth
  BY TreeAssumption
<1>2. Nodes = NodesOver(Seq(NodesTo[MaxDepth - 1])) /\ NodesTo[MaxDepth - 1] \subseteq Nodes
  BY <1>1, NodesNext, NodesWithin DEF Nodes
<1>3. t.kids \in Seq(NodesTo[MaxDepth - 1])
  BY <1>2, KidsOf
<1>4. t.kids \in Seq(Nodes)
  BY <1>2, <1>3
<1> QED BY <1>2, <1>4 DEF NodesOver, Leaves

\* What is computed of a node and what was computed of what is below it.
PanesOver(t, parts) == IF t.pane # NoPane THEN <<t.pane>> ELSE FlattenSeq(parts)

RemainsOver(gone, t, parts) ==
  LET sub == FlattenSeq(parts)
  IN IF t.pane \in gone THEN <<>>
     ELSE IF t.kids = <<>> THEN <<t>>
     ELSE IF Len(sub) > 1 THEN <<[t EXCEPT !.kids = sub]>>
     ELSE sub

Below(f, t) == [i \in DOMAIN t.kids |-> f[t.kids[i]]]

LEMMA LeafBelow == \A f, g : \A t \in NodesTo[0] : Below(f, t) = Below(g, t)
<1> TAKE f, g
<1> TAKE t \in NodesTo[0]
<1>1. t.kids = <<>>
  BY NodesNext DEF NodesOver, Leaves
<1>2. DOMAIN t.kids = {}
  BY <1>1
<1> QED BY <1>2 DEF Below

LEMMA SameBelow ==
  ASSUME NEW f, NEW g, NEW S, \A x \in S : f[x] = g[x], NEW t, t.kids \in Seq(S)
  PROVE  Below(f, t) = Below(g, t)
<1>1. \A i \in DOMAIN t.kids : t.kids[i] \in S
  OBVIOUS
<1> QED BY <1>1 DEF Below

LEMMA PanesDefined == PanesBelow = [t \in Nodes |-> PanesOver(t, Below(PanesBelow, t))]
<1> DEFINE IsDef(f, k) == f = [t \in NodesTo[k] |-> PanesOver(t, Below(f, t))]
           T == {k \in 0..MaxDepth : \E f : IsDef(f, k)}
<1>0. MaxDepth \in Nat
  BY TreeAssumption
<1>1. T \in SUBSET (0..MaxDepth) /\ 0 \in T
  <2> DEFINE f == [t \in NodesTo[0] |-> PanesOver(t, Below(<<>>, t))]
  <2>1. \A t \in NodesTo[0] : Below(f, t) = Below(<<>>, t)
    BY LeafBelow
  <2>2. IsDef(f, 0)
    <3>1. \A t \in NodesTo[0] : f[t] = PanesOver(t, Below(f, t))
      <4>1. \A t \in NodesTo[0] : f[t] = PanesOver(t, Below(<<>>, t))
        OBVIOUS
      <4> HIDE DEF f
      <4> QED BY <2>1, <4>1
    <3>2. f = [t \in NodesTo[0] |-> f[t]]
      OBVIOUS
    <3> HIDE DEF f
    <3> QED BY <3>1, <3>2
  <2> HIDE DEF f, IsDef
  <2> QED BY <1>0, <2>2
<1>2. \A k \in 0..(MaxDepth - 1) : k \in T => k + 1 \in T
  <2> SUFFICES ASSUME NEW k \in 0..(MaxDepth - 1), k \in T PROVE k + 1 \in T
    OBVIOUS
  <2>1. PICK f : IsDef(f, k)
    OBVIOUS
  <2> DEFINE g == [t \in NodesTo[k + 1] |-> PanesOver(t, Below(f, t))]
  <2>2. k + 1 \in 0..MaxDepth /\ NodesTo[k] \subseteq NodesTo[k + 1] /\ NodesTo[k + 1] = NodesOver(Seq(NodesTo[k]))
    BY NodesNext, NodesGrow
  <2>3. \A t \in NodesTo[k] : f[t] = PanesOver(t, Below(f, t))
    BY <2>1
  <2>4. \A t \in NodesTo[k] : g[t] = f[t]
    BY <2>2, <2>3
  <2>5. \A t \in NodesTo[k + 1] : Below(g, t) = Below(f, t)
    <3> TAKE t \in NodesTo[k + 1]
    <3>1. t.kids \in Seq(NodesTo[k])
      BY <2>2, KidsOf
    <3> HIDE DEF g
    <3> QED BY <2>4, <3>1, SameBelow
  <2>6. \A t \in NodesTo[k + 1] : g[t] = PanesOver(t, Below(g, t))
    <3>1. \A t \in NodesTo[k + 1] : g[t] = PanesOver(t, Below(f, t))
      OBVIOUS
    <3> HIDE DEF g
    <3> QED BY <2>5, <3>1
  <2>7. IsDef(g, k + 1)
    <3>1. g = [t \in NodesTo[k + 1] |-> g[t]]
      OBVIOUS
    <3> HIDE DEF g
    <3> QED BY <2>6, <3>1
  <2> HIDE DEF g, IsDef
  <2> QED BY <2>2, <2>7
<1>3. MaxDepth \in T
  <2> HIDE DEF T
  <2>1. T = 0..MaxDepth
    BY <1>0, <1>1, <1>2, InductiveTo
  <2> QED BY <1>0, <2>1
<1>4. \E f : IsDef(f, MaxDepth)
  <2> HIDE DEF IsDef
  <2> QED BY <1>3
<1>5. PanesBelow = CHOOSE f : IsDef(f, MaxDepth)
  BY DEF PanesBelow, PanesOver, Below, Nodes
<1>6. IsDef(PanesBelow, MaxDepth)
  <2> HIDE DEF IsDef
  <2> QED BY <1>4, <1>5
<1> QED BY <1>6 DEF Nodes

LEMMA RemainsDefined ==
  ASSUME NEW gone
  PROVE  Remains(gone) = [t \in Nodes |-> RemainsOver(gone, t, Below(Remains(gone), t))]
<1> DEFINE IsDef(f, k) == f = [t \in NodesTo[k] |-> RemainsOver(gone, t, Below(f, t))]
           T == {k \in 0..MaxDepth : \E f : IsDef(f, k)}
<1>0. MaxDepth \in Nat
  BY TreeAssumption
<1>1. T \in SUBSET (0..MaxDepth) /\ 0 \in T
  <2> DEFINE f == [t \in NodesTo[0] |-> RemainsOver(gone, t, Below(<<>>, t))]
  <2>1. \A t \in NodesTo[0] : Below(f, t) = Below(<<>>, t)
    BY LeafBelow
  <2>2. IsDef(f, 0)
    <3>1. \A t \in NodesTo[0] : f[t] = RemainsOver(gone, t, Below(f, t))
      <4>1. \A t \in NodesTo[0] : f[t] = RemainsOver(gone, t, Below(<<>>, t))
        OBVIOUS
      <4> HIDE DEF f
      <4> QED BY <2>1, <4>1
    <3>2. f = [t \in NodesTo[0] |-> f[t]]
      OBVIOUS
    <3> HIDE DEF f
    <3> QED BY <3>1, <3>2
  <2> HIDE DEF f, IsDef
  <2> QED BY <1>0, <2>2
<1>2. \A k \in 0..(MaxDepth - 1) : k \in T => k + 1 \in T
  <2> SUFFICES ASSUME NEW k \in 0..(MaxDepth - 1), k \in T PROVE k + 1 \in T
    OBVIOUS
  <2>1. PICK f : IsDef(f, k)
    OBVIOUS
  <2> DEFINE g == [t \in NodesTo[k + 1] |-> RemainsOver(gone, t, Below(f, t))]
  <2>2. k + 1 \in 0..MaxDepth /\ NodesTo[k] \subseteq NodesTo[k + 1] /\ NodesTo[k + 1] = NodesOver(Seq(NodesTo[k]))
    BY NodesNext, NodesGrow
  <2>3. \A t \in NodesTo[k] : f[t] = RemainsOver(gone, t, Below(f, t))
    BY <2>1
  <2>4. \A t \in NodesTo[k] : g[t] = f[t]
    BY <2>2, <2>3
  <2>5. \A t \in NodesTo[k + 1] : Below(g, t) = Below(f, t)
    <3> TAKE t \in NodesTo[k + 1]
    <3>1. t.kids \in Seq(NodesTo[k])
      BY <2>2, KidsOf
    <3> HIDE DEF g
    <3> QED BY <2>4, <3>1, SameBelow
  <2>6. \A t \in NodesTo[k + 1] : g[t] = RemainsOver(gone, t, Below(g, t))
    <3>1. \A t \in NodesTo[k + 1] : g[t] = RemainsOver(gone, t, Below(f, t))
      OBVIOUS
    <3> HIDE DEF g
    <3> QED BY <2>5, <3>1
  <2>7. IsDef(g, k + 1)
    <3>1. g = [t \in NodesTo[k + 1] |-> g[t]]
      OBVIOUS
    <3> HIDE DEF g
    <3> QED BY <2>6, <3>1
  <2> HIDE DEF g, IsDef
  <2> QED BY <2>2, <2>7
<1>3. MaxDepth \in T
  <2> HIDE DEF T
  <2>1. T = 0..MaxDepth
    BY <1>0, <1>1, <1>2, InductiveTo
  <2> QED BY <1>0, <2>1
<1>4. \E f : IsDef(f, MaxDepth)
  <2> HIDE DEF IsDef
  <2> QED BY <1>3
<1>5. Remains(gone) = CHOOSE f : IsDef(f, MaxDepth)
  BY DEF Remains, RemainsOver, Below, Nodes
<1>6. IsDef(Remains(gone), MaxDepth)
  <2> HIDE DEF IsDef
  <2> QED BY <1>4, <1>5
<1> QED BY <1>6 DEF Nodes

\* Induction over the depth of a tree.
LEMMA TreeInduction ==
  ASSUME NEW Good \in SUBSET Nodes,
         \A t \in NodesTo[0] : t \in Good,
         \A k \in 0..(MaxDepth - 1) : \A t \in NodesTo[k + 1] : ToSet(t.kids) \subseteq Good \cap NodesTo[k] => t \in Good
  PROVE  Good = Nodes
<1> DEFINE T == {k \in 0..MaxDepth : NodesTo[k] \subseteq Good}
<1>0. MaxDepth \in Nat
  BY TreeAssumption
<1>1. T \in SUBSET (0..MaxDepth) /\ 0 \in T
  BY <1>0
<1>2. \A k \in 0..(MaxDepth - 1) : k \in T => k + 1 \in T
  <2> SUFFICES ASSUME NEW k \in 0..(MaxDepth - 1), NodesTo[k] \subseteq Good PROVE NodesTo[k + 1] \subseteq Good /\ k + 1 \in 0..MaxDepth
    OBVIOUS
  <2>1. k + 1 \in 0..MaxDepth /\ NodesTo[k + 1] = NodesOver(Seq(NodesTo[k]))
    BY NodesNext
  <2>2. ASSUME NEW t \in NodesTo[k + 1] PROVE ToSet(t.kids) \subseteq NodesTo[k]
    <3>1. t.kids \in Seq(NodesTo[k])
      BY <2>1, KidsOf
    <3> QED BY ONLY <3>1 DEF ToSet
  <2> QED BY <2>1, <2>2
<1>3. MaxDepth \in T
  <2> HIDE DEF T
  <2>1. T = 0..MaxDepth
    BY <1>0, <1>1, <1>2, InductiveTo
  <2> QED BY <1>0, <2>1
<1> QED BY <1>3 DEF Nodes

\* A node of the lowest is without children.
LEMMA LowestParts == \A t \in NodesTo[0] : t \in Nodes /\ t.kids = <<>> /\ ToSet(t.kids) = {}
<1> TAKE t \in NodesTo[0]
<1>1. 0 \in 0..MaxDepth
  BY TreeAssumption
<1>2. t.kids = <<>> /\ t \in Nodes
  BY <1>1, NodesNext, NodesWithin DEF NodesOver, Leaves
<1> QED BY <1>2 DEF ToSet

LEMMA BelowType ==
  ASSUME NEW V, NEW f, NEW t \in Nodes, \A x \in ToSet(t.kids) : f[x] \in V
  PROVE  Below(f, t) \in Seq(V) /\ Len(Below(f, t)) = Len(t.kids)
<1>1. t.kids \in Seq(Nodes)
  BY NodeParts
<1>2. \A i \in 1..Len(t.kids) : t.kids[i] \in ToSet(t.kids)
  BY <1>1 DEF ToSet
<1>3. DOMAIN t.kids = 1..Len(t.kids) /\ Len(t.kids) \in Nat
  BY <1>1
<1> QED BY <1>2, <1>3 DEF Below

LEMMA PanesType == \A t \in Nodes : PanesIn(t) \in Seq(PaneIDs)
<1> DEFINE V == Seq(PaneIDs)
           Good == {t \in Nodes : PanesBelow[t] \in V}
<1>1. ASSUME NEW t \in Nodes, ToSet(t.kids) \subseteq Good PROVE t \in Good
  <2>1. PanesBelow[t] = PanesOver(t, Below(PanesBelow, t))
    BY PanesDefined
  <2>2. CASE t.pane \in PaneIDs
    <3>1. t.pane # NoPane /\ <<t.pane>> \in V
      BY <2>2, TreeAssumption
    <3> QED BY <2>1, <3>1 DEF PanesOver
  <2>3. CASE t.pane = NoPane
    <3>1. Below(PanesBelow, t) \in Seq(V)
      <4> HIDE DEF V
      <4> QED BY <1>1, BelowType
    <3>2. FlattenSeq(Below(PanesBelow, t)) \in Seq(PaneIDs)
      BY <3>1, FlatType
    <3> QED BY <2>1, <2>3, <3>2 DEF PanesOver
  <2> QED BY <2>2, <2>3, NodeParts
<1>2. \A t \in NodesTo[0] : t \in Good
  <2> HIDE DEF Good
  <2> QED BY <1>1, LowestParts
<1>3. \A k \in 0..(MaxDepth - 1) : \A t \in NodesTo[k + 1] : ToSet(t.kids) \subseteq Good \cap NodesTo[k] => t \in Good
  <2> HIDE DEF Good
  <2> QED BY <1>1, NodesNext, NodesWithin
<1>4. Good = Nodes
  <2>1. Good \in SUBSET Nodes
    OBVIOUS
  <2> HIDE DEF Good
  <2> QED BY <1>2, <1>3, <2>1, TreeInduction
<1> QED BY <1>4 DEF PanesIn

LEMMA PanesOfKids ==
  ASSUME NEW t \in Nodes, t.pane = NoPane, NEW x \in ToSet(t.kids)
  PROVE  x \in Nodes /\ ToSet(PanesIn(x)) \subseteq ToSet(PanesIn(t))
<1>1. t.kids \in Seq(Nodes)
  BY NodeParts
<1>2. PICK i \in 1..Len(t.kids) : x = t.kids[i]
  BY <1>1 DEF ToSet
<1>3. x \in Nodes
  BY <1>1, <1>2
<1>4. \A y \in ToSet(t.kids) : PanesBelow[y] \in Seq(PaneIDs)
  BY <1>1, PanesType DEF ToSet, PanesIn
<1>5. Below(PanesBelow, t) \in Seq(Seq(PaneIDs)) /\ Len(Below(PanesBelow, t)) = Len(t.kids)
  BY <1>4, BelowType
<1>6. Below(PanesBelow, t)[i] = PanesBelow[x]
  BY <1>1, <1>2 DEF Below
<1>7. PanesBelow[t] = FlattenSeq(Below(PanesBelow, t))
  <2>1. PanesBelow[t] = PanesOver(t, Below(PanesBelow, t))
    BY PanesDefined
  <2> QED BY <2>1 DEF PanesOver
<1>8. \A p \in ToSet(PanesBelow[x]) : p \in ToSet(PanesBelow[t])
  BY <1>2, <1>5, <1>6, <1>7, FlatHas
<1> QED BY <1>3, <1>8 DEF PanesIn

LEMMA RemainsAt ==
  ASSUME NEW gone, NEW t \in Nodes
  PROVE  Remains(gone)[t] = RemainsOver(gone, t, Below(Remains(gone), t))
<1> DEFINE f == Remains(gone)
<1>1. f = [c \in Nodes |-> RemainsOver(gone, c, Below(f, c))]
  BY RemainsDefined
<1> HIDE DEF f
<1>2. f[t] = RemainsOver(gone, t, Below(f, t))
  BY <1>1
<1> QED BY <1>2 DEF f

\* What is left of a node is no higher, and nothing more is taken from it.
LEMMA RemainsLower ==
  ASSUME NEW gone
  PROVE  \A k \in 0..MaxDepth : \A t \in NodesTo[k] :
           Remains(gone)[t] \in Seq({x \in NodesTo[k] : Remains(gone)[x] = <<x>>})
<1> DEFINE f == Remains(gone)
           Fixed(k) == {x \in NodesTo[k] : f[x] = <<x>>}
           Good(k) == {t \in NodesTo[k] : f[t] \in Seq(Fixed(k))}
           T == {k \in 0..MaxDepth : Good(k) = NodesTo[k]}
<1>0. MaxDepth \in Nat /\ \A t \in Nodes : f[t] = RemainsOver(gone, t, Below(f, t))
  BY TreeAssumption, RemainsAt
<1> HIDE DEF f
<1>1. ASSUME NEW k \in 0..MaxDepth, NEW t \in NodesTo[k], t.pane \in gone \/ t.kids = <<>>
      PROVE  f[t] \in Seq(Fixed(k))
  <2>1. f[t] = RemainsOver(gone, t, Below(f, t))
    BY <1>0, <1>1, NodesWithin
  <2>2. CASE t.pane \in gone
    BY <2>1, <2>2 DEF RemainsOver
  <2>3. CASE t.pane \notin gone
    <3>1. f[t] = <<t>>
      BY <1>1, <2>1, <2>3 DEF RemainsOver
    <3> QED BY <3>1
  <2> QED BY <2>2, <2>3
<1>2. T \in SUBSET (0..MaxDepth) /\ 0 \in T
  <2>1. \A t \in NodesTo[0] : f[t] \in Seq(Fixed(0))
    <3> HIDE DEF Fixed
    <3> QED BY <1>0, <1>1, LowestParts
  <2> HIDE DEF Fixed
  <2> QED BY <1>0, <2>1
<1>3. \A k \in 0..(MaxDepth - 1) : k \in T => k + 1 \in T
  <2> SUFFICES ASSUME NEW k \in 0..(MaxDepth - 1), k \in T, NEW t \in NodesTo[k + 1] PROVE f[t] \in Seq(Fixed(k + 1))
    <3> HIDE DEF Fixed
    <3> QED BY NodesNext
  <2>0. /\ k \in 0..MaxDepth /\ k + 1 \in 0..MaxDepth /\ NodesTo[k + 1] = NodesOver(Seq(NodesTo[k]))
        /\ NodesTo[k] \subseteq NodesTo[k + 1] /\ t \in Nodes
    BY NodesNext, NodesGrow, NodesWithin
  <2>1. CASE t.pane \in gone \/ t.kids = <<>>
    <3> HIDE DEF Fixed
    <3> QED BY <1>1, <2>0, <2>1
  <2>2. CASE ~(t.pane \in gone \/ t.kids = <<>>)
    <3> DEFINE parts == Below(f, t)
               sub == FlattenSeq(parts)
    <3>1. t.kids \in Seq(NodesTo[k])
      BY <2>0, KidsOf
    <3>2. \A x \in ToSet(t.kids) : f[x] \in Seq(Fixed(k))
      <4>1. ToSet(t.kids) \subseteq NodesTo[k]
        BY ONLY <3>1 DEF ToSet
      <4>2. NodesTo[k] = Good(k)
        OBVIOUS
      <4> HIDE DEF Fixed
      <4> QED BY <4>1, <4>2
    <3>3. sub \in Seq(Fixed(k))
      <4>1. parts \in Seq(Seq(Fixed(k)))
        <5> HIDE DEF Fixed
        <5> QED BY <2>0, <3>2, BelowType
      <4> HIDE DEF Fixed, parts
      <4> QED BY <4>1, FlatType
    <3>4. Fixed(k) \subseteq Fixed(k + 1) /\ Fixed(k) \subseteq NodesTo[k]
      BY <2>0
    <3>5. f[t] = IF Len(sub) > 1 THEN <<[t EXCEPT !.kids = sub]>> ELSE sub
      BY <1>0, <2>0, <2>2 DEF RemainsOver
    <3>6. CASE ~(Len(sub) > 1)
      <4> HIDE DEF Fixed, sub
      <4> QED BY <3>3, <3>4, <3>5, <3>6
    <3>7. CASE Len(sub) > 1
      <4> DEFINE x == [t EXCEPT !.kids = sub]
      <4>1. f[t] = <<x>>
        BY <3>5, <3>7
      <4>2. sub \in Seq(NodesTo[k]) /\ sub \in Seq(Nodes)
        <5>1. NodesTo[k] \subseteq Nodes
          BY <2>0, NodesWithin
        <5> HIDE DEF Fixed, sub
        <5> QED BY <3>3, <3>4, <5>1
      <4>3. x = [pane |-> NoPane, dir |-> t.dir, kids |-> sub] /\ t.pane = NoPane /\ t.dir \in Axes \cup {"none"}
        <5> HIDE DEF sub
        <5> QED BY <2>0, <2>2, NodeParts
      <4>4. x \in NodesTo[k + 1] /\ x \in Nodes /\ x.kids = sub /\ x.pane = t.pane
        <5> HIDE DEF sub
        <5>1. x \in NodesOver(Seq(NodesTo[k]))
          BY <4>2, <4>3 DEF NodesOver
        <5> QED BY <2>0, <4>3, <5>1, NodesWithin
      <4>5. Below(f, x) = [i \in DOMAIN sub |-> <<sub[i]>>]
        <5>1. \A i \in DOMAIN sub : f[sub[i]] = <<sub[i]>>
          <6>1. \A y \in Fixed(k) : f[y] = <<y>>
            OBVIOUS
          <6>2. \A i \in DOMAIN sub : sub[i] \in Fixed(k)
            <7> HIDE DEF Fixed, sub
            <7> QED BY <3>3
          <6> HIDE DEF Fixed, sub
          <6> QED BY <6>1, <6>2
        <5> HIDE DEF sub
        <5> QED BY <4>4, <5>1 DEF Below
      <4>6. FlattenSeq(Below(f, x)) = sub
        <5> HIDE DEF sub
        <5> QED BY <4>2, <4>5, FlatOnes
      <4>7. f[x] = <<[x EXCEPT !.kids = sub]>>
        <5>1. x.pane \notin gone /\ x.kids # <<>>
          <6> HIDE DEF sub, x
          <6>1. sub # <<>>
            BY <3>7
          <6> QED BY <2>2, <4>4, <6>1
        <5> HIDE DEF sub, x
        <5> QED BY <1>0, <3>7, <4>4, <4>6, <5>1 DEF RemainsOver
      <4>8. [x EXCEPT !.kids = sub] = x
        <5> HIDE DEF sub, x
        <5> QED BY <4>4, NodeParts
      <4>9. x \in Fixed(k + 1)
        <5> HIDE DEF x
        <5> QED BY <4>4, <4>7, <4>8
      <4> HIDE DEF x, Fixed
      <4> QED BY <4>1, <4>9
    <3> QED BY <3>6, <3>7
  <2> QED BY <2>1, <2>2
<1>4. T = 0..MaxDepth
  <2> HIDE DEF T
  <2> QED BY <1>0, <1>2, <1>3, InductiveTo
<1>5. \A k \in 0..MaxDepth : \A t \in NodesTo[k] : f[t] \in Seq(Fixed(k))
  <2> HIDE DEF Fixed
  <2> QED BY <1>4
<1> QED BY <1>5 DEF f

LEMMA RemainsSettle ==
  ASSUME NEW gone
  PROVE  \A t \in Nodes : Remains(gone)[t] \in Seq({x \in Nodes : Remains(gone)[x] = <<x>>})
BY RemainsLower, TreeAssumption, MaxDepth \in 0..MaxDepth DEF Nodes

LEMMA RemainsType == \A gone : \A t \in Nodes : Remains(gone)[t] \in Seq(Nodes)
<1> TAKE gone
<1> TAKE t \in Nodes
<1> DEFINE S == {x \in Nodes : Remains(gone)[x] = <<x>>}
<1>1. Remains(gone)[t] \in Seq(S) /\ S \subseteq Nodes
  BY RemainsSettle
<1> HIDE DEF S
<1> QED BY <1>1

\* Nothing is taken that is not there.
LEMMA RemainsSame ==
  ASSUME NEW gone \in SUBSET PaneIDs
  PROVE  \A t \in Nodes : ToSet(PanesIn(t)) \cap gone = {} => Remains(gone)[t] = Remains({})[t]
<1> DEFINE Good == {t \in Nodes : ToSet(PanesIn(t)) \cap gone = {} => Remains(gone)[t] = Remains({})[t]}
<1>1. ASSUME NEW t \in Nodes, ToSet(t.kids) \subseteq Good PROVE t \in Good
  <2> SUFFICES ASSUME ToSet(PanesIn(t)) \cap gone = {} PROVE Remains(gone)[t] = Remains({})[t]
    OBVIOUS
  <2>1. t.pane \notin gone
    <3>1. CASE t.pane = NoPane
      BY <3>1, TreeAssumption
    <3>2. CASE t.pane # NoPane
      <4>1. PanesIn(t) = <<t.pane>>
        BY <3>2, PanesDefined DEF PanesIn, PanesOver
      <4>2. t.pane \in ToSet(<<t.pane>>)
        BY DEF ToSet
      <4> QED BY <4>1, <4>2
    <3> QED BY <3>1, <3>2
  <2>2. \A x \in ToSet(t.kids) : Remains(gone)[x] = Remains({})[x]
    <3> TAKE x \in ToSet(t.kids)
    <3>1. t.pane = NoPane
      <4>1. t.kids # <<>>
        BY DEF ToSet
      <4> QED BY <4>1, NodeParts
    <3>2. ToSet(PanesIn(x)) \subseteq ToSet(PanesIn(t))
      BY <3>1, PanesOfKids
    <3>3. ToSet(PanesIn(x)) \cap gone = {}
      BY <3>2
    <3>4. x \in Good
      BY <1>1
    <3> QED BY <3>3, <3>4
  <2>3. Below(Remains(gone), t) = Below(Remains({}), t)
    <3>1. t.kids \in Seq(Nodes)
      BY NodeParts
    <3>2. \A i \in DOMAIN t.kids : t.kids[i] \in ToSet(t.kids)
      BY DEF ToSet
    <3> QED BY <2>2, <3>2 DEF Below
  <2>4. RemainsOver(gone, t, Below(Remains({}), t)) = RemainsOver({}, t, Below(Remains({}), t))
    BY <2>1 DEF RemainsOver
  <2>5. /\ Remains(gone)[t] = RemainsOver(gone, t, Below(Remains(gone), t))
        /\ Remains({})[t] = RemainsOver({}, t, Below(Remains({}), t))
    BY RemainsAt
  <2> QED BY <2>3, <2>4, <2>5
<1>2. \A t \in NodesTo[0] : t \in Good
  <2> HIDE DEF Good
  <2> QED BY <1>1, LowestParts
<1>3. \A k \in 0..(MaxDepth - 1) : \A t \in NodesTo[k + 1] : ToSet(t.kids) \subseteq Good \cap NodesTo[k] => t \in Good
  <2> HIDE DEF Good
  <2> QED BY <1>1, NodesNext, NodesWithin
<1>4. Good = Nodes
  <2>1. Good \in SUBSET Nodes
    OBVIOUS
  <2> HIDE DEF Good
  <2> QED BY <1>2, <1>3, <2>1, TreeInduction
<1> QED BY <1>4

LEMMA RemovedIs == \A gone, kids : RemovedFrom(kids, gone) = FlattenSeq([i \in DOMAIN kids |-> Remains(gone)[kids[i]]])
BY DEF RemovedFrom

\* A tree is settled once: what is left stays.
LEMMA RemovedTwice ==
  ASSUME NEW gone, NEW kids \in Seq(Nodes)
  PROVE  RemovedFrom(kids, gone) \in Seq(Nodes) /\ RemovedFrom(RemovedFrom(kids, gone), gone) = RemovedFrom(kids, gone)
<1> DEFINE f == Remains(gone)
           S == {x \in Nodes : f[x] = <<x>>}
           parts == [i \in DOMAIN kids |-> f[kids[i]]]
           left == RemovedFrom(kids, gone)
<1>1. \A t \in Nodes : f[t] \in Seq(S)
  BY RemainsSettle
<1>2. S \subseteq Nodes /\ \A x \in S : f[x] = <<x>>
  OBVIOUS
<1> HIDE DEF S, f
<1>3. parts \in Seq(Seq(S))
  <2>1. \A i \in 1..Len(kids) : kids[i] \in Nodes
    OBVIOUS
  <2> QED BY <1>1, <2>1
<1>4. left = FlattenSeq(parts)
  BY RemovedIs DEF f
<1>5. left \in Seq(S)
  <2> HIDE DEF left, parts
  <2> QED BY <1>3, <1>4, FlatType
<1>6. left \in Seq(Nodes)
  <2> HIDE DEF left, parts
  <2> QED BY <1>2, <1>5
<1>7. RemovedFrom(left, gone) = FlattenSeq([i \in DOMAIN left |-> f[left[i]]])
  <2> HIDE DEF left
  <2> QED BY RemovedIs DEF f
<1>8. [i \in DOMAIN left |-> f[left[i]]] = [i \in DOMAIN left |-> <<left[i]>>]
  <2>1. \A i \in DOMAIN left : left[i] \in S
    <3> HIDE DEF left
    <3> QED BY <1>5
  <2> HIDE DEF left
  <2> QED BY <1>2, <2>1
<1>9. FlattenSeq([i \in DOMAIN left |-> <<left[i]>>]) = left
  <2> HIDE DEF left
  <2> QED BY <1>6, FlatOnes
<1> HIDE DEF left
<1>10. RemovedFrom(left, gone) = left
  BY <1>7, <1>8, <1>9
<1> QED BY <1>6, <1>10 DEF left

\* Taking a pane from a tree it is not in only settles the tree.
LEMMA RemoveSettles ==
  ASSUME NEW t \in Nodes, NEW p \in PaneIDs, ~ContainsPane(t, p)
  PROVE  Settled(RemovePaneChildren(t, p)) = Settled(t)
<1> DEFINE left == RemovedFrom(t.kids, {})
           r == [t EXCEPT !.kids = left]
<1>0. t.kids \in Seq(Nodes)
  BY NodeParts
<1>1. RemovedFrom(t.kids, {p}) = RemovedFrom(t.kids, {})
  <2>1. \A i \in DOMAIN t.kids : Remains({p})[t.kids[i]] = Remains({})[t.kids[i]]
    <3> TAKE i \in DOMAIN t.kids
    <3>1. t.kids[i] \in ToSet(t.kids) /\ t.kids # <<>>
      BY DEF ToSet
    <3>2. t.kids[i] \in Nodes /\ ToSet(PanesIn(t.kids[i])) \subseteq ToSet(PanesIn(t))
      BY <3>1, NodeParts, PanesOfKids
    <3>3. ToSet(PanesIn(t.kids[i])) \cap {p} = {} /\ {p} \in SUBSET PaneIDs
      BY <3>2 DEF ContainsPane
    <3> QED BY <3>2, <3>3, RemainsSame
  <2>2. [i \in DOMAIN t.kids |-> Remains({p})[t.kids[i]]] = [i \in DOMAIN t.kids |-> Remains({})[t.kids[i]]]
    BY <2>1
  <2> QED BY <2>2, RemovedIs
<1>2. RemovePaneChildren(t, p) = r /\ Settled(t) = r
  BY <1>1 DEF RemovePaneChildren, Settled
<1>3. RemovedFrom(left, {}) = left
  BY <1>0, RemovedTwice
<1> HIDE DEF left
<1>4. r = [pane |-> t.pane, dir |-> t.dir, kids |-> left]
  BY NodeParts
<1>5. r.kids = left /\ [r EXCEPT !.kids = left] = r
  BY <1>4
<1>6. Settled(r) = r
  <2> HIDE DEF r
  <2> QED BY <1>3, <1>5 DEF Settled
<1> QED BY <1>2, <1>6

LEMMA OneType == \A K : \A x \in K : <<x>> \in Seq(K)
OBVIOUS

LEMMA MapType ==
  ASSUME NEW f, NEW K, NEW V, NEW s \in Seq(K), \A x \in K : f[x] \in V
  PROVE  [i \in DOMAIN s |-> f[s[i]]] \in Seq(V)
<1>1. \A i \in 1..Len(s) : f[s[i]] \in V
  OBVIOUS
<1> QED BY <1>1

LEMMA NoTreeIsNode == NoTree \in Nodes
<1>1. MaxDepth - 1 \in 0..(MaxDepth - 1) /\ (MaxDepth - 1) + 1 = MaxDepth
  BY TreeAssumption
<1>2. Nodes = NodesOver(Seq(NodesTo[MaxDepth - 1]))
  BY <1>1, NodesNext DEF Nodes
<1> QED BY <1>2 DEF NoTree, NodesOver

LEMMA TrivialIsNode == \A p \in PaneIDs : Trivial(p) \in Nodes
<1> TAKE p \in PaneIDs
<1>1. MaxDepth - 1 \in 0..(MaxDepth - 1) /\ (MaxDepth - 1) + 1 = MaxDepth /\ 0 \in 0..MaxDepth
  BY TreeAssumption
<1>2. Nodes = NodesOver(Seq(NodesTo[MaxDepth - 1]))
  BY <1>1, NodesNext DEF Nodes
<1>3. Leaf(p) \in Leaves
  BY DEF Leaf, Leaves
<1>4. MaxDepth - 1 \in 0..MaxDepth
  BY <1>1
<1>5. Leaf(p) \in NodesTo[MaxDepth - 1]
  BY <1>3, <1>4, NodesDefined DEF NodesOver
<1>6. <<Leaf(p)>> \in Seq(NodesTo[MaxDepth - 1])
  BY <1>5, OneType
<1> QED BY <1>2, <1>6 DEF Trivial, SplitOf, NodesOver, Axes

\* What is left of a tree is a tree.
LEMMA RemoveType ==
  ASSUME NEW t \in Nodes, NEW p
  PROVE  RemovePaneChildren(t, p) \in Nodes /\ RemovePaneFromTree(t, p) \in Nodes
<1> DEFINE K == NodesTo[MaxDepth - 1]
           S == {x \in K : Remains({p})[x] = <<x>>}
           parts == [i \in DOMAIN t.kids |-> Remains({p})[t.kids[i]]]
           left == RemovedFrom(t.kids, {p})
<1>1. MaxDepth - 1 \in 0..(MaxDepth - 1) /\ (MaxDepth - 1) + 1 = MaxDepth /\ MaxDepth - 1 \in 0..MaxDepth
  BY TreeAssumption
<1>2. Nodes = NodesOver(Seq(K))
  BY <1>1, NodesNext DEF Nodes
<1>3. t.kids \in Seq(K)
  <2> HIDE DEF K
  <2> QED BY <1>2, KidsOf
<1>4. \A x \in K : Remains({p})[x] \in Seq(S)
  BY <1>1, RemainsLower
<1>5. S \subseteq K
  OBVIOUS
<1> HIDE DEF K, S
<1>6. parts \in Seq(Seq(S))
  <2> DEFINE f == Remains({p})
  <2>1. \A x \in K : f[x] \in Seq(S)
    BY <1>4
  <2> HIDE DEF f
  <2>2. [i \in DOMAIN t.kids |-> f[t.kids[i]]] \in Seq(Seq(S))
    BY <1>3, <2>1, MapType
  <2> QED BY <2>2 DEF f
<1>7. left \in Seq(K)
  <2>1. left = FlattenSeq(parts)
    BY RemovedIs
  <2> HIDE DEF left, parts
  <2>2. left \in Seq(S)
    BY <1>6, <2>1, FlatType
  <2> QED BY <1>5, <2>2
<1>8. RemovePaneChildren(t, p) \in Nodes
  <2>0. RemovePaneChildren(t, p) = [t EXCEPT !.kids = left]
    BY DEF RemovePaneChildren
  <2> HIDE DEF left
  <2>1. RemovePaneChildren(t, p) = [pane |-> t.pane, dir |-> t.dir, kids |-> left]
    BY <2>0, NodeParts
  <2>2. CASE t.pane = NoPane
    BY <1>2, <1>7, <2>1, <2>2, NodeParts DEF NodesOver
  <2>3. CASE t.pane \in PaneIDs /\ t.kids = <<>>
    <3>1. left = <<>>
      <4>1. parts = <<>>
        BY <2>3
      <4>2. left = FlattenSeq(<<>>)
        BY <4>1, RemovedIs DEF left
      <4> QED BY <4>2 DEF FlattenSeq
    <3> QED BY <2>0, <2>3, <3>1, NodeParts
  <2> QED BY <2>2, <2>3, NodeParts
<1> QED BY <1>8, NoTreeIsNode DEF RemovePaneFromTree

-----------------------------------------------------------------------------
(* Edits that follow each other.                                           *)

IsView(v) == v \in [DOMAIN v -> Nodes] /\ DOMAIN v \subseteq Tabs

IsCreate(n) ==
  /\ n = [op |-> n.op, pane |-> n.pane, tree |-> n.tree, tab |-> n.tab, chosen |-> n.chosen, view |-> n.view]
  /\ n.pane \in NewPanes /\ n.tree \in Nodes /\ n.tab \in Tabs /\ n.chosen \in BOOLEAN /\ IsView(n.view)

IsMove(n) ==
  /\ n = [op |-> n.op, from |-> n.from, left |-> n.left, tab |-> n.tab, tree |-> n.tree,
          tabs |-> n.tabs, active |-> n.active, layout |-> n.layout]
  /\ n.left \in Nodes /\ n.tree \in Nodes /\ IsView(n.tabs)
  /\ n.from \in DOMAIN n.tabs /\ n.tab \in DOMAIN n.tabs /\ n.active \in DOMAIN n.tabs /\ n.layout \in Nodes

IsEdit(n) ==
  /\ n.op = "none" => n = NoEdit
  /\ n.op \in {"save", "split", "close"} => n.tab \in Tabs /\ n.tree \in Nodes
  /\ n.op \in {"split", "close"} => n.pane \in PaneIDs
  /\ n.op = "activate" => n.tab \in Tabs
  /\ n.op \in {"moveFrom", "moveTo", "moveBack"} => IsMove(n)
  /\ n.op = "choose" => n.pane \in NewPanes /\ n.tab \in Tabs
  /\ n.op \in {"post", "put", "chosen"} => IsCreate(n)
  /\ n.op = "answer" => IsView(n.view) /\ n.tab \in DOMAIN n.view
  /\ n.op = "settings" => n.tree \in Nodes /\ n.field \in {"session", "other"}

ShownTypes == layout \in Nodes /\ IsView(tabs) /\ active \in DOMAIN tabs
SavedTypes == IsView(saved) /\ current \in DOMAIN saved /\ alive \subseteq PaneIDs
TimerTypes == timer # NoSave => timer.tab \in Tabs /\ timer.tree \in Nodes
EditTypes  == edit = [e \in Edits |-> edit[e]] /\ \A e \in Edits : IsEdit(edit[e])
OtherTypes ==
  /\ posted \subseteq NewPanes /\ dialog \in PaneIDs \cup {NoPane} /\ restarted \subseteq {"session", "other"}
  /\ doubted \subseteq Tabs /\ edits \in 0..MaxEdits /\ failures \in 0..MaxFailures

LayoutTypes == ShownTypes /\ SavedTypes /\ TimerTypes /\ EditTypes /\ OtherTypes

\* What is kept is what is shown, of all but some tabs.
Agrees(view, but) ==
  \A w \in DOMAIN saved \ (doubted \cup but) : w \in DOMAIN view /\ Settled(view[w]) = Settled(saved[w])

Alone ==
  /\ \A e, f \in Edits : edit[e] # NoEdit /\ edit[f] # NoEdit => e = f
  /\ timer # NoSave => \A e \in Edits : edit[e] = NoEdit

ShowsItsTab == layout # NoTree => layout = tabs[active]

TimerKnown ==
  timer # NoSave => timer.tab \in DOMAIN tabs /\ (layout # NoTree => tabs[timer.tab] = timer.tree)

IdleAgrees == (\A e \in Edits : edit[e] = NoEdit) /\ layout # NoTree => Agrees(tabs, {})

\* What holds while an edit is under way, and what it knows.
EditKnown(n) ==
  /\ n.op = "save" =>
       n.tab \in DOMAIN tabs /\ (layout # NoTree => tabs[n.tab] = n.tree /\ Agrees(tabs, {n.tab}))
  /\ n.op \in {"split", "close"} => n.tab = active
  /\ n.op \in {"split", "close", "choose", "post", "put", "settings"} => layout # NoTree /\ Agrees(tabs, {})
  /\ n.op = "activate" /\ layout # NoTree => Agrees(tabs, {})
  /\ n.op \in {"moveFrom", "moveTo"} =>
       /\ n.layout = n.tabs[n.active] /\ n.from # n.tab
       /\ tabs = [n.tabs EXCEPT ![n.from] = n.left, ![n.tab] = n.tree]
  /\ n.op = "moveFrom" => Agrees(n.tabs, {})
  /\ n.op = "moveTo" => Agrees(n.tabs, {n.from}) /\ (n.from \in DOMAIN saved => saved[n.from] = n.left)
  /\ n.op = "moveBack" => tabs = n.tabs /\ Agrees(tabs, {n.from})
  /\ n.op \in {"post", "put"} /\ n.chosen => n.view = saved
  /\ n.op = "chosen" =>
       /\ layout # NoTree /\ Agrees(tabs, {n.tab})
       /\ n.tab \in DOMAIN saved => saved[n.tab] = n.tree
       /\ n.chosen => \A w \in DOMAIN saved \ {n.tab} : w \in DOMAIN n.view /\ n.view[w] = saved[w]
  /\ n.op = "answer" => n.view = saved
  /\ n.op = "settings" => n.tree = layout

EditsInOrder == Alone /\ ShowsItsTab /\ TimerKnown /\ IdleAgrees /\ \A e \in Edits : EditKnown(edit[e])

LayoutInv == LayoutTypes /\ (Orderly => EditsInOrder)

-----------------------------------------------------------------------------
\* The panes of a tree.
LEMMA PaneNames == \A t \in Nodes : ToSet(PanesIn(t)) \subseteq PaneIDs
<1> TAKE t \in Nodes
<1>1. PanesIn(t) \in Seq(PaneIDs)
  BY PanesType
<1> QED BY ONLY <1>1 DEF ToSet

LEMMA ViewParts ==
  ASSUME NEW v, IsView(v), NEW w \in DOMAIN v
  PROVE  v[w] \in Nodes /\ w \in Tabs
BY DEF IsView

LEMMA ViewExcept ==
  ASSUME NEW v, IsView(v), NEW w, NEW t \in Nodes
  PROVE  /\ IsView([v EXCEPT ![w] = t]) /\ DOMAIN [v EXCEPT ![w] = t] = DOMAIN v
         /\ w \in DOMAIN v => [v EXCEPT ![w] = t][w] = t
         /\ \A u \in DOMAIN v \ {w} : [v EXCEPT ![w] = t][u] = v[u]
BY DEF IsView

LEMMA ShowTreeGives ==
  ASSUME ShownTypes, NEW t \in Nodes, ShowTree(t)
  PROVE  /\ layout' = t /\ captured' = dialog /\ IsView(tabs') /\ DOMAIN tabs' = DOMAIN tabs
         /\ t # NoTree => tabs'[active] = t
         /\ \A u \in DOMAIN tabs \ {active} : tabs'[u] = tabs[u]
         /\ t = NoTree => tabs' = tabs
<1>1. IsView(tabs) /\ active \in DOMAIN tabs
  BY DEF ShownTypes
<1>2. layout' = t /\ captured' = dialog /\ tabs' = IF t # NoTree THEN [tabs EXCEPT ![active] = t] ELSE tabs
  BY <1>1 DEF ShowTree, Capture
<1> QED BY <1>1, <1>2, ViewExcept

LEMMA PutGives ==
  ASSUME IsView(saved), NEW w, NEW t \in Nodes, Put(w, t)
  PROVE  /\ IsView(saved') /\ DOMAIN saved' = DOMAIN saved
         /\ w \in DOMAIN saved => saved'[w] = t
         /\ \A u \in DOMAIN saved \ {w} : saved'[u] = saved[u]
<1>1. saved' = IF w \in DOMAIN saved THEN [saved EXCEPT ![w] = t] ELSE saved
  BY DEF Put
<1> QED BY <1>1, ViewExcept

LEMMA NoEditKnown == IsEdit(NoEdit) /\ EditKnown(NoEdit)
BY DEF IsEdit, EditKnown, NoEdit

LEMMA StepTypes ==
  ASSUME EditTypes, NEW e \in Edits, NEW n, IsEdit(n), Step(e, n)
  PROVE  EditTypes' /\ edit'[e] = n /\ \A f \in Edits \ {e} : edit'[f] = edit[f]
<1>1. edit = [f \in Edits |-> edit[f]] /\ edit' = [edit EXCEPT ![e] = n] /\ \A f \in Edits : IsEdit(edit[f])
  BY DEF EditTypes, Step
<1>2. edit' = [f \in Edits |-> IF f = e THEN n ELSE edit[f]]
  BY <1>1
<1>3. edit'[e] = n /\ \A f \in Edits \ {e} : edit'[f] = edit[f]
  BY <1>2
<1>4. \A f \in Edits : IsEdit(edit'[f])
  BY <1>1, <1>3
<1>5. edit' = [f \in Edits |-> edit'[f]]
  BY <1>2
<1> QED BY <1>3, <1>4, <1>5 DEF EditTypes, IsEdit, IsMove, IsCreate, IsView

\* An edit goes on, alone.
LEMMA StepInOrder ==
  ASSUME EditTypes, NEW e \in Edits, NEW n, Step(e, n), n # NoEdit, \A f \in Edits \ {e} : edit[f] = NoEdit,
         timer' = NoSave, ShowsItsTab', EditKnown(n)'
  PROVE  EditsInOrder'
<1>1. edit = [f \in Edits |-> edit[f]] /\ edit' = [edit EXCEPT ![e] = n]
  BY DEF EditTypes, Step
<1>2. edit' = [f \in Edits |-> IF f = e THEN n ELSE edit[f]]
  BY <1>1
<1>3. edit'[e] = n /\ \A f \in Edits \ {e} : edit'[f] = NoEdit
  BY <1>2
<1>4. EditKnown(NoEdit)'
  BY NoEditKnown DEF EditKnown, NoEdit
<1>5. Alone'
  BY <1>3 DEF Alone
<1>6. TimerKnown' /\ IdleAgrees'
  BY <1>3 DEF TimerKnown, IdleAgrees
<1>7. \A f \in Edits : EditKnown(edit[f])'
  <2> TAKE f \in Edits
  <2>1. CASE f = e
    BY <1>3, <2>1 DEF EditKnown
  <2>2. CASE f # e
    BY <1>3, <1>4, <2>2 DEF EditKnown
  <2> QED BY <2>1, <2>2
<1> QED BY <1>5, <1>6, <1>7 DEF EditsInOrder

\* Nothing is under way.
LEMMA QuietInOrder ==
  ASSUME \A f \in Edits : edit'[f] = NoEdit, ShowsItsTab', TimerKnown', layout' # NoTree => Agrees(tabs, {})'
  PROVE  EditsInOrder'
<1>1. Alone' /\ IdleAgrees'
  BY DEF Alone, IdleAgrees
<1>2. \A f \in Edits : EditKnown(edit[f])'
  <2>1. EditKnown(NoEdit)'
    BY DEF EditKnown, NoEdit
  <2> QED BY <2>1 DEF EditKnown
<1> QED BY <1>1, <1>2 DEF EditsInOrder

\* What an edit begins with.
LEMMA AtRest ==
  ASSUME LayoutInv, NEW e \in Edits, MayEdit(e)
  PROVE  /\ edits' \in 0..MaxEdits /\ layout # NoTree
         /\ Orderly => /\ \A f \in Edits : edit[f] = NoEdit
                       /\ timer = NoSave /\ Agrees(tabs, {}) /\ layout = tabs[active]
<1>1. edits' \in 0..MaxEdits
  <2>1. edits \in 0..MaxEdits /\ edits < MaxEdits /\ edits' = edits + 1 /\ MaxEdits \in Nat
    BY LayoutAssumption DEF LayoutInv, LayoutTypes, OtherTypes, MayEdit
  <2> QED BY <2>1
<1>2. ASSUME Orderly
      PROVE  (\A f \in Edits : edit[f] = NoEdit) /\ timer = NoSave /\ Agrees(tabs, {}) /\ layout = tabs[active]
  <2>1. (\A f \in Edits : edit[f] = NoEdit) /\ timer = NoSave /\ layout # NoTree
    BY <1>2 DEF MayEdit, Rest
  <2>2. IdleAgrees /\ ShowsItsTab
    BY <1>2 DEF LayoutInv, EditsInOrder
  <2> QED BY <2>1, <2>2 DEF IdleAgrees, ShowsItsTab
<1> QED BY <1>1, <1>2 DEF MayEdit

\* What it goes on with.
LEMMA UnderWay ==
  ASSUME LayoutInv, NEW e \in Edits, edit[e].op # "none"
  PROVE  /\ IsEdit(edit[e])
         /\ Orderly => /\ \A f \in Edits \ {e} : edit[f] = NoEdit
                       /\ timer = NoSave /\ EditKnown(edit[e]) /\ ShowsItsTab
<1>1. IsEdit(edit[e])
  BY DEF LayoutInv, LayoutTypes, EditTypes
<1>2. edit[e] # NoEdit
  BY DEF NoEdit
<1>3. Orderly => Alone /\ ShowsItsTab /\ EditKnown(edit[e])
  BY DEF LayoutInv, EditsInOrder
<1> QED BY <1>1, <1>2, <1>3 DEF Alone

LEMMA SaveGives ==
  ASSUME SavedTypes, OtherTypes, NEW w \in Tabs, NEW t \in Nodes, SaveOrDoubt(w, t)
  PROVE  /\ IsView(saved') /\ DOMAIN saved' = DOMAIN saved
         /\ doubted' \subseteq Tabs /\ failures' \in 0..MaxFailures
         /\ \A u \in DOMAIN saved' \ doubted' :
              IF u = w THEN saved'[u] = t ELSE u \in DOMAIN saved \ doubted /\ saved'[u] = saved[u]
<1>0. IsView(saved) /\ doubted \subseteq Tabs /\ failures \in 0..MaxFailures /\ MaxFailures \in Nat
  BY LayoutAssumption DEF SavedTypes, OtherTypes
<1>1. CASE Put(w, t) /\ doubted' = doubted \ {w} /\ UNCHANGED failures
  BY <1>0, <1>1, PutGives
<1>2. CASE Fails /\ doubted' = doubted \cup {w} /\ UNCHANGED saved
  <2>1. failures' \in 0..MaxFailures
    BY <1>0, <1>2 DEF Fails
  <2> QED BY <1>0, <1>2, <2>1
<1> QED BY <1>1, <1>2 DEF SaveOrDoubt

LEMMA RearrangeKeeps == ASSUME LayoutInv, NEW e \in Edits, NEW t, Rearrange(e, t) PROVE LayoutInv'
<1>0. LayoutTypes /\ MayEdit(e) /\ t \in Nodes /\ ShowTree(t)
  BY DEF LayoutInv, Rearrange, Fits
<1>1. PICK n : n = [op |-> "save", tab |-> active, tree |-> t]
  OBVIOUS
<1>2. /\ Step(e, n)
      /\ UNCHANGED <<active, saved, current, alive, timer, posted, dialog, restarted, doubted, failures>>
  BY <1>1 DEF Rearrange, savedVars
<1>3. /\ layout' = t /\ IsView(tabs') /\ DOMAIN tabs' = DOMAIN tabs
      /\ t # NoTree => tabs'[active] = t
      /\ \A u \in DOMAIN tabs \ {active} : tabs'[u] = tabs[u]
  BY <1>0, ShowTreeGives DEF LayoutTypes
<1>4. active \in DOMAIN tabs /\ active \in Tabs
  BY <1>0 DEF LayoutTypes, ShownTypes, IsView
<1>5. IsEdit(n)
  BY <1>0, <1>1, <1>4 DEF IsEdit
<1>6. LayoutTypes'
  <2>1. EditTypes'
    BY <1>0, <1>2, <1>5, StepTypes DEF LayoutTypes
  <2>2. OtherTypes'
    BY <1>0, <1>2, AtRest DEF LayoutTypes, OtherTypes
  <2>3. ShownTypes' /\ SavedTypes' /\ TimerTypes'
    BY <1>0, <1>2, <1>3, <1>4 DEF LayoutTypes, ShownTypes, SavedTypes, TimerTypes, IsView
  <2> QED BY <2>1, <2>2, <2>3 DEF LayoutTypes
<1>7. ASSUME Orderly PROVE EditsInOrder'
  <2>1. (\A f \in Edits : edit[f] = NoEdit) /\ timer = NoSave /\ Agrees(tabs, {}) /\ layout = tabs[active]
    BY <1>0, <1>7, AtRest
  <2>2. ShowsItsTab'
    BY <1>2, <1>3 DEF ShowsItsTab
  <2>3. Agrees(tabs, {active})'
    BY <1>2, <1>3, <2>1 DEF Agrees
  <2>4. EditKnown(n)'
    BY <1>1, <1>2, <1>3, <1>4, <2>3 DEF EditKnown, Agrees
  <2>5. n # NoEdit
    BY <1>1 DEF NoEdit
  <2> QED BY <1>0, <1>2, <2>1, <2>2, <2>4, <2>5, StepInOrder DEF LayoutTypes
<1> QED BY <1>6, <1>7 DEF LayoutInv

\* An edit is done, and what it showed is kept.
LEMMA SaveLayoutKeeps == ASSUME LayoutInv, NEW e \in Edits, SaveLayout(e) PROVE LayoutInv'
<1> DEFINE w == edit[e].tab
           t == edit[e].tree
<1>0. LayoutTypes /\ edit[e].op = "save" /\ IsEdit(edit[e]) /\ SaveOrDoubt(w, t) /\ Step(e, NoEdit)
  BY UnderWay DEF LayoutInv, SaveLayout, Done
<1>1. w \in Tabs /\ t \in Nodes
  BY <1>0 DEF IsEdit
<1>2. UNCHANGED <<layout, tabs, active, current, alive, timer, posted, edits, dialog, captured, restarted>>
  BY DEF SaveLayout, shownVars, paneSettingVars
<1>3. /\ IsView(saved') /\ DOMAIN saved' = DOMAIN saved
      /\ doubted' \subseteq Tabs /\ failures' \in 0..MaxFailures
      /\ \A u \in DOMAIN saved' \ doubted' :
           IF u = w THEN saved'[u] = t ELSE u \in DOMAIN saved \ doubted /\ saved'[u] = saved[u]
  BY <1>0, <1>1, SaveGives DEF LayoutTypes
<1>4. EditTypes' /\ edit'[e] = NoEdit /\ \A f \in Edits \ {e} : edit'[f] = edit[f]
  BY <1>0, NoEditKnown, StepTypes DEF LayoutTypes
<1>5. LayoutTypes'
  BY <1>0, <1>2, <1>3, <1>4 DEF LayoutTypes, ShownTypes, SavedTypes, TimerTypes, OtherTypes
<1>6. ASSUME Orderly PROVE EditsInOrder'
  <2>1. (\A f \in Edits \ {e} : edit[f] = NoEdit) /\ timer = NoSave /\ EditKnown(edit[e]) /\ ShowsItsTab
    BY <1>0, <1>6, UnderWay DEF LayoutInv
  <2>2. w \in DOMAIN tabs /\ (layout # NoTree => tabs[w] = t /\ Agrees(tabs, {w}))
    BY <1>0, <2>1 DEF EditKnown
  <2>3. ShowsItsTab' /\ TimerKnown'
    BY <1>2, <2>1 DEF ShowsItsTab, TimerKnown
  <2>4. layout' # NoTree => Agrees(tabs, {})'
    BY <1>2, <1>3, <2>2 DEF Agrees
  <2> QED BY <1>4, <2>1, <2>3, <2>4, QuietInOrder
<1> QED BY <1>5, <1>6 DEF LayoutInv

LEMMA SplitPaneKeeps ==
  ASSUME LayoutInv, NEW e \in Edits, NEW p, NEW d, NEW q \in NewPanes, SplitPane(e, p, d, q)
  PROVE  LayoutInv'
<1> DEFINE t == SplitPaneInTree(layout, p, d, q)
<1>0. LayoutTypes /\ MayEdit(e) /\ t \in Nodes /\ q \in PaneIDs
  BY LayoutAssumption DEF LayoutInv, SplitPane, Fits
<1> HIDE DEF t
<1>1. PICK n : n = [op |-> "split", tab |-> active, tree |-> t, pane |-> q]
  OBVIOUS
<1>2. /\ Step(e, n)
      /\ UNCHANGED <<layout, tabs, active, saved, current, alive, timer, posted, dialog, restarted, doubted, failures>>
  BY <1>1 DEF SplitPane, savedVars, shownVars, paneSettingVars, t
<1>3. active \in DOMAIN tabs /\ active \in Tabs
  BY <1>0 DEF LayoutTypes, ShownTypes, IsView
<1>4. IsEdit(n)
  BY <1>0, <1>1, <1>3 DEF IsEdit
<1>5. LayoutTypes'
  <2>1. EditTypes'
    BY <1>0, <1>2, <1>4, StepTypes DEF LayoutTypes
  <2>2. OtherTypes'
    BY <1>0, <1>2, AtRest DEF LayoutTypes, OtherTypes
  <2> QED BY <1>0, <1>2, <2>1, <2>2 DEF LayoutTypes, ShownTypes, SavedTypes, TimerTypes
<1>6. ASSUME Orderly PROVE EditsInOrder'
  <2>1. (\A f \in Edits : edit[f] = NoEdit) /\ timer = NoSave /\ Agrees(tabs, {}) /\ layout = tabs[active] /\ layout # NoTree
    BY <1>0, <1>6, AtRest
  <2>2. ShowsItsTab' /\ Agrees(tabs, {})'
    BY <1>2, <2>1 DEF ShowsItsTab, Agrees
  <2>3. EditKnown(n)'
    BY <1>1, <1>2, <2>1, <2>2 DEF EditKnown, Agrees
  <2>4. n # NoEdit
    BY <1>1 DEF NoEdit
  <2> QED BY <1>0, <1>2, <2>1, <2>2, <2>3, <2>4, StepInOrder DEF LayoutTypes
<1> QED BY <1>5, <1>6 DEF LayoutInv

LEMMA ClosePaneKeeps ==
  ASSUME LayoutInv, NEW e \in Edits, NEW p \in ToSet(PanesIn(layout)), ClosePane(e, p)
  PROVE  LayoutInv'
<1> DEFINE t == RemovePaneFromTree(layout, p)
<1>0. LayoutTypes /\ MayEdit(e) /\ t \in Nodes /\ p \in PaneIDs
  <2>1. layout \in Nodes
    BY DEF LayoutInv, LayoutTypes, ShownTypes
  <2> QED BY <2>1, RemoveType, PaneNames DEF LayoutInv, ClosePane
<1> HIDE DEF t
<1>1. PICK n : n = [op |-> "close", tab |-> active, tree |-> t, pane |-> p]
  OBVIOUS
<1>2. /\ Step(e, n)
      /\ UNCHANGED <<layout, tabs, active, saved, current, alive, timer, posted, dialog, restarted, doubted, failures>>
  BY <1>1 DEF ClosePane, savedVars, shownVars, paneSettingVars, t
<1>3. active \in DOMAIN tabs /\ active \in Tabs
  BY <1>0 DEF LayoutTypes, ShownTypes, IsView
<1>4. IsEdit(n)
  BY <1>0, <1>1, <1>3 DEF IsEdit
<1>5. LayoutTypes'
  <2>1. EditTypes'
    BY <1>0, <1>2, <1>4, StepTypes DEF LayoutTypes
  <2>2. OtherTypes'
    BY <1>0, <1>2, AtRest DEF LayoutTypes, OtherTypes
  <2> QED BY <1>0, <1>2, <2>1, <2>2 DEF LayoutTypes, ShownTypes, SavedTypes, TimerTypes
<1>6. ASSUME Orderly PROVE EditsInOrder'
  <2>1. (\A f \in Edits : edit[f] = NoEdit) /\ timer = NoSave /\ Agrees(tabs, {}) /\ layout = tabs[active] /\ layout # NoTree
    BY <1>0, <1>6, AtRest
  <2>2. ShowsItsTab' /\ Agrees(tabs, {})'
    BY <1>2, <2>1 DEF ShowsItsTab, Agrees
  <2>3. EditKnown(n)'
    BY <1>1, <1>2, <2>1, <2>2 DEF EditKnown, Agrees
  <2>4. n # NoEdit
    BY <1>1 DEF NoEdit
  <2> QED BY <1>0, <1>2, <2>1, <2>2, <2>3, <2>4, StepInOrder DEF LayoutTypes
<1> QED BY <1>5, <1>6 DEF LayoutInv

LEMMA SplitPostedKeeps == ASSUME LayoutInv, NEW e \in Edits, SplitPosted(e) PROVE LayoutInv'
<1> DEFINE t == edit[e].tree
           w == edit[e].tab
<1>0. LayoutTypes /\ edit[e].op = "split" /\ IsEdit(edit[e]) /\ ShowTree(t)
  BY UnderWay DEF LayoutInv, SplitPosted
<1>1. w \in Tabs /\ t \in Nodes /\ edit[e].pane \in PaneIDs
  BY <1>0 DEF IsEdit
<1>2. PICK n : n = [op |-> "save", tab |-> w, tree |-> t]
  OBVIOUS
<1>3. /\ Step(e, n)
      /\ UNCHANGED <<active, saved, current, timer, posted, edits, dialog, restarted, doubted>>
  BY <1>2 DEF SplitPosted
<1>4. alive' \subseteq PaneIDs /\ failures' \in 0..MaxFailures
  <2>1. alive \subseteq PaneIDs /\ failures \in 0..MaxFailures /\ MaxFailures \in Nat
    BY <1>0, LayoutAssumption DEF LayoutTypes, SavedTypes, OtherTypes
  <2>2. \/ alive' = alive \cup {edit[e].pane} /\ failures' = failures
        \/ failures < MaxFailures /\ failures' = failures + 1 /\ alive' = alive
    BY DEF SplitPosted, Fails
  <2> QED BY <1>1, <2>1, <2>2
<1>5. /\ layout' = t /\ IsView(tabs') /\ DOMAIN tabs' = DOMAIN tabs
      /\ t # NoTree => tabs'[active] = t
      /\ \A u \in DOMAIN tabs \ {active} : tabs'[u] = tabs[u]
  BY <1>0, <1>1, ShowTreeGives DEF LayoutTypes
<1>6. active \in DOMAIN tabs /\ active \in Tabs
  BY <1>0 DEF LayoutTypes, ShownTypes, IsView
<1>7. LayoutTypes'
  <2>1. IsEdit(n)
    BY <1>1, <1>2 DEF IsEdit
  <2>2. EditTypes'
    BY <1>0, <1>3, <2>1, StepTypes DEF LayoutTypes
  <2> QED BY <1>0, <1>1, <1>3, <1>4, <1>5, <1>6, <2>2 DEF LayoutTypes, ShownTypes, SavedTypes, TimerTypes, OtherTypes
<1>8. ASSUME Orderly PROVE EditsInOrder'
  <2>1. (\A f \in Edits \ {e} : edit[f] = NoEdit) /\ timer = NoSave /\ EditKnown(edit[e]) /\ ShowsItsTab
    BY <1>0, <1>8, UnderWay
  <2>2. w = active /\ Agrees(tabs, {})
    BY <1>0, <2>1 DEF EditKnown
  <2>3. ShowsItsTab'
    BY <1>3, <1>5 DEF ShowsItsTab
  <2>4. Agrees(tabs, {active})'
    BY <1>3, <1>5, <2>2 DEF Agrees
  <2>5. EditKnown(n)'
    BY <1>2, <1>3, <1>5, <1>6, <2>2, <2>4 DEF EditKnown, Agrees
  <2>6. n # NoEdit
    BY <1>2 DEF NoEdit
  <2> QED BY <1>0, <1>3, <2>1, <2>3, <2>5, <2>6, StepInOrder DEF LayoutTypes
<1> QED BY <1>7, <1>8 DEF LayoutInv

\* The server takes the pane from the other tabs as well.
LEMMA ClosePostedKeeps == ASSUME LayoutInv, NEW e \in Edits, ClosePosted(e) PROVE LayoutInv'
<1> DEFINE t == edit[e].tree
           w == edit[e].tab
           p == edit[e].pane
<1>0. LayoutTypes /\ edit[e].op = "close" /\ IsEdit(edit[e]) /\ ShowTree(t)
  BY UnderWay DEF LayoutInv, ClosePosted
<1>1. w \in Tabs /\ t \in Nodes /\ p \in PaneIDs
  BY <1>0 DEF IsEdit
<1>2. PICK n : n = IF t = NoTree THEN NoEdit ELSE [op |-> "save", tab |-> w, tree |-> t]
  OBVIOUS
<1>3. /\ Step(e, n)
      /\ UNCHANGED <<active, current, timer, posted, edits, dialog, restarted>>
  BY <1>2 DEF ClosePosted, Done
<1>4. /\ IsView(saved) /\ alive \subseteq PaneIDs /\ doubted \subseteq Tabs
      /\ failures \in 0..MaxFailures /\ MaxFailures \in Nat
  BY <1>0, LayoutAssumption DEF LayoutTypes, SavedTypes, OtherTypes
<1>5. \/ /\ alive' = alive \ {p} /\ saved' = [v \in DOMAIN saved |-> RemovePaneChildren(saved[v], p)]
         /\ doubted' = doubted \cup {v \in DOMAIN saved \ {w} : ContainsPane(saved[v], p)} /\ failures' = failures
      \/ /\ (failures' = failures \/ (failures < MaxFailures /\ failures' = failures + 1))
         /\ doubted' = doubted \cup {w} /\ alive' = alive /\ saved' = saved
  <2>1. \/ /\ p \in alive /\ alive' = alive \ {p}
           /\ saved' = [v \in DOMAIN saved |-> RemovePaneChildren(saved[v], p)]
           /\ doubted' = doubted \cup {v \in DOMAIN saved \ {w} : ContainsPane(saved[v], p)} /\ UNCHANGED failures
        \/ p \notin alive /\ doubted' = doubted \cup {w} /\ UNCHANGED <<alive, saved, failures>>
        \/ Fails /\ doubted' = doubted \cup {w} /\ UNCHANGED <<alive, saved>>
    BY DEF ClosePosted
  <2> HIDE DEF p, w
  <2> QED BY <2>1 DEF Fails
<1>6. /\ IsView(saved') /\ DOMAIN saved' = DOMAIN saved /\ alive' \subseteq PaneIDs
      /\ doubted \subseteq doubted' /\ doubted' \subseteq Tabs /\ failures' \in 0..MaxFailures
  <2>1. \A v \in DOMAIN saved : RemovePaneChildren(saved[v], p) \in Nodes /\ v \in Tabs
    BY <1>4, ViewParts, RemoveType
  <2>2. failures' \in 0..MaxFailures
    BY <1>4, <1>5
  <2>3. IsView(saved') /\ DOMAIN saved' = DOMAIN saved
    BY <1>4, <1>5, <2>1 DEF IsView
  <2> QED BY <1>1, <1>4, <1>5, <2>1, <2>2, <2>3
<1>7. \A v \in DOMAIN saved \ (doubted' \cup {w}) : Settled(saved'[v]) = Settled(saved[v])
  <2> TAKE v \in DOMAIN saved \ (doubted' \cup {w})
  <2>1. CASE saved' = saved
    BY <2>1
  <2>2. CASE saved' # saved
    <3>1. saved'[v] = RemovePaneChildren(saved[v], p) /\ ~ContainsPane(saved[v], p)
      BY <1>5, <2>2
    <3>2. saved[v] \in Nodes
      BY <1>4, ViewParts
    <3> QED BY <1>1, <3>1, <3>2, RemoveSettles
  <2> QED BY <2>1, <2>2
<1>8. /\ layout' = t /\ IsView(tabs') /\ DOMAIN tabs' = DOMAIN tabs
      /\ t # NoTree => tabs'[active] = t
      /\ \A u \in DOMAIN tabs \ {active} : tabs'[u] = tabs[u]
  BY <1>0, <1>1, ShowTreeGives DEF LayoutTypes
<1>9. active \in DOMAIN tabs /\ active \in Tabs
  BY <1>0 DEF LayoutTypes, ShownTypes, IsView
<1>10. EditTypes' /\ edit'[e] = n /\ \A f \in Edits \ {e} : edit'[f] = edit[f]
  <2>1. IsEdit(n)
    BY <1>1, <1>2, NoEditKnown DEF IsEdit
  <2> QED BY <1>0, <1>3, <2>1, StepTypes DEF LayoutTypes
<1>11. LayoutTypes'
  BY <1>0, <1>1, <1>3, <1>6, <1>8, <1>9, <1>10 DEF LayoutTypes, ShownTypes, SavedTypes, TimerTypes, OtherTypes
<1>12. ASSUME Orderly PROVE EditsInOrder'
  <2>1. (\A f \in Edits \ {e} : edit[f] = NoEdit) /\ timer = NoSave /\ EditKnown(edit[e]) /\ ShowsItsTab
    BY <1>0, <1>12, UnderWay
  <2>2. w = active /\ Agrees(tabs, {})
    BY <1>0, <2>1 DEF EditKnown
  <2>3. ShowsItsTab' /\ TimerKnown'
    BY <1>3, <1>8, <2>1 DEF ShowsItsTab, TimerKnown
  <2>4. CASE t = NoTree
    <3>1. \A f \in Edits : edit'[f] = NoEdit
      BY <1>2, <1>10, <2>1, <2>4
    <3> QED BY <1>8, <2>3, <2>4, <3>1, QuietInOrder
  <2>5. CASE t # NoTree
    <3>1. Agrees(tabs, {active})'
      <4> SUFFICES ASSUME NEW u \in DOMAIN saved' \ (doubted' \cup {active'}) PROVE u \in DOMAIN tabs' /\ Settled(tabs'[u]) = Settled(saved'[u])
        BY DEF Agrees
      <4>1. u \in DOMAIN saved \ doubted /\ u # active
        BY <1>3, <1>6, <2>2
      <4>2. u \in DOMAIN tabs /\ Settled(tabs[u]) = Settled(saved[u])
        BY <2>2, <4>1 DEF Agrees
      <4>3. Settled(saved'[u]) = Settled(saved[u])
        BY <1>7, <2>2, <4>1
      <4>4. tabs'[u] = tabs[u] /\ DOMAIN tabs' = DOMAIN tabs
        BY <1>8, <4>1, <4>2
      <4> QED BY <4>2, <4>3, <4>4
    <3>2. n = [op |-> "save", tab |-> w, tree |-> t] /\ n # NoEdit
      BY <1>2, <2>5 DEF NoEdit
    <3>3. EditKnown(n)'
      BY <1>8, <1>9, <2>2, <2>5, <3>1, <3>2, <1>3 DEF EditKnown, Agrees
    <3> QED BY <1>0, <1>3, <2>1, <2>3, <3>2, <3>3, StepInOrder DEF LayoutTypes
  <2> QED BY <2>4, <2>5
<1> QED BY <1>11, <1>12 DEF LayoutInv

LEMMA ResizeKeeps == ASSUME LayoutInv, Resize PROVE LayoutInv'
<1>0. LayoutTypes /\ layout \in Nodes /\ layout # NoTree /\ ShowTree(layout)
  BY DEF LayoutInv, LayoutTypes, ShownTypes, Resize, UpdateSizes
<1>1. PICK n : n = [tab |-> active, tree |-> layout]
  OBVIOUS
<1>2. /\ timer' = n /\ edits' \in 0..MaxEdits
      /\ UNCHANGED <<active, saved, current, alive, edit, posted, dialog, restarted, doubted, failures>>
  <2>1. edits \in 0..MaxEdits /\ edits < MaxEdits /\ edits' = edits + 1 /\ MaxEdits \in Nat
    BY <1>0, LayoutAssumption DEF LayoutTypes, OtherTypes, Resize
  <2>2. edits' \in 0..MaxEdits
    BY <2>1
  <2> QED BY <1>1, <2>2 DEF Resize, UpdateSizes, savedVars
<1>3. /\ layout' = layout /\ IsView(tabs') /\ DOMAIN tabs' = DOMAIN tabs
      /\ tabs'[active] = layout
      /\ \A u \in DOMAIN tabs \ {active} : tabs'[u] = tabs[u]
  BY <1>0, ShowTreeGives DEF LayoutTypes
<1>4. active \in DOMAIN tabs /\ active \in Tabs
  BY <1>0 DEF LayoutTypes, ShownTypes, IsView
<1>5. LayoutTypes'
  <2>1. EditTypes'
    BY <1>0, <1>2 DEF LayoutTypes, EditTypes
  <2>2. TimerTypes'
    BY <1>0, <1>1, <1>2, <1>4 DEF TimerTypes
  <2> QED BY <1>0, <1>2, <1>3, <1>4, <2>1, <2>2 DEF LayoutTypes, ShownTypes, SavedTypes, OtherTypes
<1>6. ASSUME Orderly PROVE EditsInOrder'
  <2>1. (\A f \in Edits : edit[f] = NoEdit) /\ Agrees(tabs, {}) /\ layout = tabs[active]
    BY <1>0, <1>6 DEF Resize, Rest, LayoutInv, EditsInOrder, IdleAgrees, ShowsItsTab
  <2>2. ShowsItsTab' /\ TimerKnown'
    BY <1>1, <1>2, <1>3, <1>4 DEF ShowsItsTab, TimerKnown
  <2>3. Agrees(tabs, {})'
    BY <1>2, <1>3, <2>1 DEF Agrees
  <2> QED BY <1>2, <2>1, <2>2, <2>3, QuietInOrder
<1> QED BY <1>5, <1>6 DEF LayoutInv

LEMMA TimerFiresKeeps == ASSUME LayoutInv, TimerFires PROVE LayoutInv'
<1>0. PICK w, t : w = timer.tab /\ t = timer.tree
  OBVIOUS
<1>1. LayoutTypes /\ w \in Tabs /\ t \in Nodes /\ SaveOrDoubt(w, t) /\ timer # NoSave /\ timer' = NoSave
  BY <1>0 DEF LayoutInv, LayoutTypes, TimerTypes, TimerFires
<1>2. UNCHANGED <<layout, tabs, active, current, alive, edit, posted, edits, dialog, captured, restarted>>
  BY DEF TimerFires, shownVars, editVars, paneSettingVars
<1>3. /\ IsView(saved') /\ DOMAIN saved' = DOMAIN saved
      /\ doubted' \subseteq Tabs /\ failures' \in 0..MaxFailures
      /\ \A u \in DOMAIN saved' \ doubted' :
           IF u = w THEN saved'[u] = t ELSE u \in DOMAIN saved \ doubted /\ saved'[u] = saved[u]
  BY <1>1, SaveGives DEF LayoutTypes
<1>4. LayoutTypes'
  <2>1. EditTypes'
    BY <1>1, <1>2 DEF LayoutTypes, EditTypes
  <2> QED BY <1>1, <1>2, <1>3, <2>1 DEF LayoutTypes, ShownTypes, SavedTypes, TimerTypes, OtherTypes
<1>5. ASSUME Orderly PROVE EditsInOrder'
  <2>1. (\A f \in Edits : edit[f] = NoEdit) /\ ShowsItsTab /\ TimerKnown /\ IdleAgrees
    BY <1>1, <1>5 DEF LayoutInv, EditsInOrder, Alone
  <2>2. w \in DOMAIN tabs /\ (layout # NoTree => tabs[w] = t /\ Agrees(tabs, {}))
    BY <1>0, <1>1, <2>1 DEF TimerKnown, IdleAgrees
  <2>3. ShowsItsTab' /\ TimerKnown'
    BY <1>1, <1>2, <2>1 DEF ShowsItsTab, TimerKnown
  <2>4. layout' # NoTree => Agrees(tabs, {})'
    BY <1>2, <1>3, <2>2 DEF Agrees
  <2> QED BY <1>2, <2>1, <2>3, <2>4, QuietInOrder
<1> QED BY <1>4, <1>5 DEF LayoutInv

\* Views are shown as a whole.
LEMMA ShowGives ==
  ASSUME NEW v, NEW w, IsView(v), w \in DOMAIN v, Show(v, w)
  PROVE  /\ ShownTypes' /\ ShowsItsTab'
         /\ tabs' = v /\ active' = w /\ layout' = v[w] /\ captured' = dialog
<1>1. tabs' = v /\ active' = w /\ layout' = v[w] /\ captured' = dialog
  BY DEF Show, Capture
<1>2. layout' \in Nodes
  BY <1>1, ViewParts
<1> QED BY <1>1, <1>2 DEF ShownTypes, ShowsItsTab, IsView

LEMMA SetActiveKeeps == ASSUME LayoutInv, NEW e \in Edits, NEW w, SetActive(e, w) PROVE LayoutInv'
<1>0. LayoutTypes /\ MayEdit(e) /\ w \in DOMAIN tabs \ {active} /\ IsView(tabs) /\ Show(tabs, w)
  BY DEF LayoutInv, LayoutTypes, ShownTypes, SetActive
<1>1. PICK n : n = [op |-> "activate", tab |-> w]
  OBVIOUS
<1>2. /\ Step(e, n)
      /\ UNCHANGED <<saved, current, alive, timer, posted, dialog, restarted, doubted, failures>>
  BY <1>1 DEF SetActive, savedVars
<1>3. ShownTypes' /\ ShowsItsTab' /\ tabs' = tabs /\ active' = w /\ layout' = tabs[w]
  BY <1>0, ShowGives
<1>4. LayoutTypes'
  <2>1. IsEdit(n)
    BY <1>0, <1>1, ViewParts DEF IsEdit
  <2>2. EditTypes'
    BY <1>0, <1>2, <2>1, StepTypes DEF LayoutTypes
  <2>3. OtherTypes'
    BY <1>0, <1>2, AtRest DEF LayoutTypes, OtherTypes
  <2> QED BY <1>0, <1>2, <1>3, <2>2, <2>3 DEF LayoutTypes, SavedTypes, TimerTypes
<1>5. ASSUME Orderly PROVE EditsInOrder'
  <2>1. (\A f \in Edits : edit[f] = NoEdit) /\ timer = NoSave /\ Agrees(tabs, {})
    BY <1>0, <1>5, AtRest
  <2>2. Agrees(tabs, {})'
    BY <1>2, <1>3, <2>1 DEF Agrees
  <2>3. EditKnown(n)'
    BY <1>1, <2>2 DEF EditKnown, Agrees
  <2>4. n # NoEdit
    BY <1>1 DEF NoEdit
  <2> QED BY <1>0, <1>2, <1>3, <2>1, <2>3, <2>4, StepInOrder DEF LayoutTypes
<1> QED BY <1>4, <1>5 DEF LayoutInv

LEMMA ActivatedKeeps == ASSUME LayoutInv, NEW e \in Edits, Activated(e) PROVE LayoutInv'
<1>0. LayoutTypes /\ edit[e].op = "activate" /\ Step(e, NoEdit)
  BY DEF LayoutInv, Activated, Done
<1>1. UNCHANGED <<layout, tabs, active, saved, alive, timer, posted, edits, dialog, captured, restarted, doubted>>
  BY DEF Activated, shownVars, paneSettingVars
<1>2. current' \in DOMAIN saved' /\ failures' \in 0..MaxFailures
  <2>1. current \in DOMAIN saved /\ failures \in 0..MaxFailures /\ MaxFailures \in Nat
    BY <1>0, LayoutAssumption DEF LayoutTypes, SavedTypes, OtherTypes
  <2>2. current' \in DOMAIN saved
    BY <2>1 DEF Activated
  <2>3. failures' = failures \/ (failures < MaxFailures /\ failures' = failures + 1)
    BY DEF Activated, Fails
  <2> QED BY <1>1, <2>1, <2>2, <2>3
<1>3. EditTypes' /\ edit'[e] = NoEdit /\ \A f \in Edits \ {e} : edit'[f] = edit[f]
  BY <1>0, NoEditKnown, StepTypes DEF LayoutTypes
<1>4. LayoutTypes'
  BY <1>0, <1>1, <1>2, <1>3 DEF LayoutTypes, ShownTypes, SavedTypes, TimerTypes, OtherTypes
<1>5. ASSUME Orderly PROVE EditsInOrder'
  <2>1. (\A f \in Edits \ {e} : edit[f] = NoEdit) /\ timer = NoSave /\ EditKnown(edit[e]) /\ ShowsItsTab
    BY <1>0, <1>5, UnderWay
  <2>2. layout # NoTree => Agrees(tabs, {})
    BY <1>0, <2>1 DEF EditKnown
  <2>3. ShowsItsTab' /\ TimerKnown' /\ (layout' # NoTree => Agrees(tabs, {})')
    BY <1>1, <2>1, <2>2 DEF ShowsItsTab, TimerKnown, Agrees
  <2> QED BY <1>3, <2>1, <2>3, QuietInOrder
<1> QED BY <1>4, <1>5 DEF LayoutInv

LEMMA MoveToTabKeeps == ASSUME LayoutInv, NEW e \in Edits, NEW p, NEW w, MoveToTab(e, p, w) PROVE LayoutInv'
<1>0. PICK from : from = CHOOSE v \in DOMAIN tabs : ContainsPane(tabs[v], p)
  OBVIOUS
<1>1. PICK left, put : left = RemovePaneFromTree(tabs[from], p) /\ put = InsertPaneAtWorkspaceEdge(tabs[w], "right", p)
  OBVIOUS
<1>2. PICK view : view = [tabs EXCEPT ![from] = left, ![w] = put]
  OBVIOUS
<1>3. PICK n : n = [op |-> "moveFrom", from |-> from, left |-> left, tab |-> w, tree |-> put,
                    tabs |-> tabs, active |-> active, layout |-> layout]
  OBVIOUS
<1>4. /\ LayoutTypes /\ MayEdit(e) /\ w \in DOMAIN tabs /\ \E v \in DOMAIN tabs : ContainsPane(tabs[v], p)
      /\ w # from /\ put \in Nodes /\ Show(view, w) /\ Step(e, n)
      /\ UNCHANGED <<saved, current, alive, timer, posted, dialog, restarted, doubted, failures>>
  BY <1>0, <1>1, <1>2, <1>3 DEF LayoutInv, MoveToTab, Fits, savedVars
<1>5. IsView(tabs) /\ active \in DOMAIN tabs /\ layout \in Nodes
  BY <1>4 DEF LayoutTypes, ShownTypes
<1>6. from \in DOMAIN tabs
  BY <1>0, <1>4
<1>7. left \in Nodes
  BY <1>1, <1>5, <1>6, ViewParts, RemoveType
<1>8. IsView(view) /\ DOMAIN view = DOMAIN tabs
  <2>1. PICK half : half = [tabs EXCEPT ![from] = left]
    OBVIOUS
  <2>2. IsView(half) /\ DOMAIN half = DOMAIN tabs
    BY <1>5, <1>7, <2>1, ViewExcept
  <2>3. view = [half EXCEPT ![w] = put]
    BY <1>2, <2>1
  <2> QED BY <1>4, <2>2, <2>3, ViewExcept
<1>9. ShownTypes' /\ ShowsItsTab' /\ tabs' = view
  BY <1>4, <1>8, ShowGives
<1>10. LayoutTypes'
  <2>1. IsEdit(n)
    BY <1>3, <1>4, <1>5, <1>6, <1>7 DEF IsEdit, IsMove
  <2>2. EditTypes'
    BY <1>4, <2>1, StepTypes DEF LayoutTypes
  <2>3. OtherTypes'
    BY <1>4, AtRest DEF LayoutTypes, OtherTypes
  <2> QED BY <1>4, <1>9, <2>2, <2>3 DEF LayoutTypes, SavedTypes, TimerTypes
<1>11. ASSUME Orderly PROVE EditsInOrder'
  <2>1. (\A f \in Edits : edit[f] = NoEdit) /\ timer = NoSave /\ Agrees(tabs, {}) /\ layout = tabs[active]
    BY <1>4, <1>11, AtRest
  <2>2. EditKnown(n)'
    <3>1. PICK shown : shown = tabs
      OBVIOUS
    <3>2. n.tabs = shown /\ n.layout = shown[n.active] /\ n.from # n.tab /\ n.op = "moveFrom"
      BY <1>3, <1>4, <2>1, <3>1
    <3>3. view = [n.tabs EXCEPT ![n.from] = n.left, ![n.tab] = n.tree]
      BY <1>2, <1>3
    <3>4. \A u \in DOMAIN saved' \ (doubted' \cup {}) : u \in DOMAIN shown /\ Settled(shown[u]) = Settled(saved'[u])
      BY <1>4, <2>1, <3>1 DEF Agrees
    <3> QED BY <1>9, <3>2, <3>3, <3>4 DEF EditKnown, Agrees
  <2>3. n # NoEdit
    BY <1>3 DEF NoEdit
  <2> QED BY <1>4, <1>9, <2>1, <2>2, <2>3, StepInOrder DEF LayoutTypes
<1> QED BY <1>10, <1>11 DEF LayoutInv

LEMMA MovePut ==
  ASSUME LayoutInv, NEW e \in Edits, edit[e].op = "moveFrom", Put(edit[e].from, edit[e].left),
         Step(e, [edit[e] EXCEPT !.op = "moveTo"]),
         UNCHANGED <<layout, tabs, active, current, alive, timer, posted, edits, dialog, restarted, doubted, failures>>
  PROVE  LayoutInv'
<1>0. PICK m : m = edit[e]
  OBVIOUS
<1>1. PICK n : n = [m EXCEPT !.op = "moveTo"]
  OBVIOUS
<1>2. LayoutTypes /\ IsMove(m) /\ IsEdit(m) /\ m.op = "moveFrom"
  BY <1>0, UnderWay DEF LayoutInv, IsEdit
<1>3. n = [op |-> "moveTo", from |-> m.from, left |-> m.left, tab |-> m.tab, tree |-> m.tree,
           tabs |-> m.tabs, active |-> m.active, layout |-> m.layout]
  BY <1>1, <1>2 DEF IsMove
<1>4. IsEdit(n)
  BY <1>2, <1>3 DEF IsEdit, IsMove
<1>5. /\ IsView(saved') /\ DOMAIN saved' = DOMAIN saved
      /\ m.from \in DOMAIN saved => saved'[m.from] = m.left
      /\ \A u \in DOMAIN saved \ {m.from} : saved'[u] = saved[u]
  <2>1. IsView(saved) /\ m.left \in Nodes
    BY <1>2 DEF LayoutTypes, SavedTypes, IsMove
  <2> QED BY <1>0, <2>1, PutGives
<1>6. LayoutTypes'
  <2>1. EditTypes'
    BY <1>0, <1>1, <1>2, <1>4, StepTypes DEF LayoutTypes
  <2> QED BY <1>2, <1>5, <2>1 DEF LayoutTypes, ShownTypes, SavedTypes, TimerTypes, OtherTypes
<1>7. ASSUME Orderly PROVE EditsInOrder'
  <2>1. (\A f \in Edits \ {e} : edit[f] = NoEdit) /\ timer = NoSave /\ EditKnown(m) /\ ShowsItsTab
    BY <1>0, <1>2, <1>7, UnderWay
  <2>2. /\ m.layout = m.tabs[m.active] /\ m.from # m.tab /\ Agrees(m.tabs, {})
        /\ tabs = [m.tabs EXCEPT ![m.from] = m.left, ![m.tab] = m.tree]
    BY <1>2, <2>1 DEF EditKnown
  <2>3. EditKnown(n)'
    <3>1. \A u \in DOMAIN saved' \ (doubted' \cup {m.from}) : u \in DOMAIN m.tabs /\ Settled(m.tabs[u]) = Settled(saved'[u])
      BY <1>5, <2>2 DEF Agrees
    <3>2. /\ n.op = "moveTo" /\ n.from = m.from /\ n.left = m.left /\ n.tab = m.tab /\ n.tree = m.tree
          /\ n.tabs = m.tabs /\ n.active = m.active /\ n.layout = m.layout
      BY <1>3
    <3> QED BY <1>5, <2>2, <3>1, <3>2 DEF EditKnown, Agrees
  <2>4. n # NoEdit /\ ShowsItsTab'
    BY <1>3, <2>1 DEF NoEdit, ShowsItsTab
  <2> QED BY <1>0, <1>1, <1>2, <2>1, <2>3, <2>4, StepInOrder DEF LayoutTypes
<1> QED BY <1>6, <1>7 DEF LayoutInv

LEMMA MoveDone ==
  ASSUME LayoutInv, NEW e \in Edits, edit[e].op = "moveTo", Put(edit[e].tab, edit[e].tree), Done(e),
         UNCHANGED <<layout, tabs, active, current, alive, timer, posted, edits, dialog, restarted, doubted, failures>>
  PROVE  LayoutInv'
<1>0. PICK m : m = edit[e]
  OBVIOUS
<1>2. LayoutTypes /\ IsMove(m) /\ IsEdit(m) /\ m.op = "moveTo" /\ Step(e, NoEdit)
  BY <1>0, UnderWay DEF LayoutInv, IsEdit, Done
<1>3. /\ IsView(saved') /\ DOMAIN saved' = DOMAIN saved
      /\ m.tab \in DOMAIN saved => saved'[m.tab] = m.tree
      /\ \A u \in DOMAIN saved \ {m.tab} : saved'[u] = saved[u]
  <2>1. IsView(saved) /\ m.tree \in Nodes
    BY <1>2 DEF LayoutTypes, SavedTypes, IsMove
  <2> QED BY <1>0, <2>1, PutGives
<1>4. EditTypes' /\ edit'[e] = NoEdit /\ \A f \in Edits \ {e} : edit'[f] = edit[f]
  BY <1>2, NoEditKnown, StepTypes DEF LayoutTypes
<1>5. LayoutTypes'
  BY <1>2, <1>3, <1>4 DEF LayoutTypes, ShownTypes, SavedTypes, TimerTypes, OtherTypes
<1>6. ASSUME Orderly PROVE EditsInOrder'
  <2>1. (\A f \in Edits \ {e} : edit[f] = NoEdit) /\ timer = NoSave /\ EditKnown(m) /\ ShowsItsTab
    BY <1>0, <1>2, <1>6, UnderWay
  <2>2. /\ m.from # m.tab /\ Agrees(m.tabs, {m.from}) /\ (m.from \in DOMAIN saved => saved[m.from] = m.left)
        /\ tabs = [m.tabs EXCEPT ![m.from] = m.left, ![m.tab] = m.tree]
    BY <1>2, <2>1 DEF EditKnown
  <2>3. m.from \in DOMAIN m.tabs /\ m.tab \in DOMAIN m.tabs
    BY <1>2 DEF IsMove
  <2>4. /\ DOMAIN tabs = DOMAIN m.tabs /\ tabs[m.from] = m.left /\ tabs[m.tab] = m.tree
        /\ \A u \in DOMAIN m.tabs \ {m.from, m.tab} : tabs[u] = m.tabs[u]
    BY <2>2, <2>3
  <2>5. Agrees(tabs, {})'
    <3> SUFFICES ASSUME NEW u \in DOMAIN saved' \ doubted' PROVE u \in DOMAIN tabs' /\ Settled(tabs'[u]) = Settled(saved'[u])
      BY DEF Agrees
    <3>1. CASE u = m.tab
      BY <1>3, <2>3, <2>4, <3>1
    <3>2. CASE u = m.from
      BY <1>3, <2>2, <2>3, <2>4, <3>2
    <3>3. CASE u # m.tab /\ u # m.from
      <4>1. u \in DOMAIN m.tabs /\ Settled(m.tabs[u]) = Settled(saved[u])
        BY <1>3, <2>2, <3>3 DEF Agrees
      <4> QED BY <1>3, <2>4, <3>3, <4>1
    <3> QED BY <3>1, <3>2, <3>3
  <2>6. ShowsItsTab' /\ TimerKnown'
    BY <2>1 DEF ShowsItsTab, TimerKnown
  <2> QED BY <1>4, <2>1, <2>5, <2>6, QuietInOrder
<1> QED BY <1>5, <1>6 DEF LayoutInv

\* A move that failed is undone.
LEMMA MoveFails ==
  ASSUME LayoutInv, NEW e \in Edits, edit[e].op \in {"moveFrom", "moveTo"}, Back(edit[e]), Fails,
         Step(e, [edit[e] EXCEPT !.op = "moveBack"]),
         UNCHANGED <<saved, current, alive, timer, posted, edits, dialog, restarted, doubted>>
  PROVE  LayoutInv'
<1>0. PICK m : m = edit[e]
  OBVIOUS
<1>1. PICK n : n = [m EXCEPT !.op = "moveBack"]
  OBVIOUS
<1>2. LayoutTypes /\ IsMove(m) /\ IsEdit(m) /\ m.op \in {"moveFrom", "moveTo"}
  BY <1>0, UnderWay DEF LayoutInv, IsEdit
<1>3. n = [op |-> "moveBack", from |-> m.from, left |-> m.left, tab |-> m.tab, tree |-> m.tree,
           tabs |-> m.tabs, active |-> m.active, layout |-> m.layout]
  BY <1>1, <1>2 DEF IsMove
<1>4. IsEdit(n)
  BY <1>2, <1>3 DEF IsEdit, IsMove
<1>5. tabs' = m.tabs /\ active' = m.active /\ layout' = m.layout /\ failures' \in 0..MaxFailures
  <2>1. failures \in 0..MaxFailures /\ MaxFailures \in Nat /\ failures < MaxFailures /\ failures' = failures + 1
    BY <1>2, LayoutAssumption DEF LayoutTypes, OtherTypes, Fails
  <2>2. failures' \in 0..MaxFailures
    BY <2>1
  <2> QED BY <1>0, <2>2 DEF Back
<1>6. LayoutTypes'
  <2>1. EditTypes'
    BY <1>0, <1>1, <1>2, <1>4, StepTypes DEF LayoutTypes
  <2>2. ShownTypes'
    BY <1>2, <1>5 DEF IsMove, ShownTypes, IsView
  <2> QED BY <1>2, <1>5, <2>1, <2>2 DEF LayoutTypes, SavedTypes, TimerTypes, OtherTypes
<1>7. ASSUME Orderly PROVE EditsInOrder'
  <2>1. (\A f \in Edits \ {e} : edit[f] = NoEdit) /\ timer = NoSave /\ EditKnown(m)
    BY <1>0, <1>2, <1>7, UnderWay
  <2>2. m.layout = m.tabs[m.active] /\ Agrees(m.tabs, {m.from})
    BY <1>2, <2>1 DEF EditKnown, Agrees
  <2>3. Agrees(tabs, {m.from})'
    BY <1>5, <2>2 DEF Agrees
  <2>4. EditKnown(n)'
    <3>1. n.op = "moveBack" /\ n.tabs = m.tabs /\ n.from = m.from
      BY <1>3
    <3> QED BY <1>5, <2>3, <3>1 DEF EditKnown, Agrees
  <2>5. n # NoEdit /\ ShowsItsTab'
    BY <1>3, <1>5, <2>2 DEF NoEdit, ShowsItsTab
  <2> QED BY <1>0, <1>1, <1>2, <2>1, <2>4, <2>5, StepInOrder DEF LayoutTypes
<1> QED BY <1>6, <1>7 DEF LayoutInv

LEMMA MoveSaveKeeps == ASSUME LayoutInv, NEW e \in Edits, MoveSave(e) PROVE LayoutInv'
<1>1. UNCHANGED <<current, alive, timer, posted, edits, dialog, restarted, doubted>>
  BY DEF MoveSave
<1>2. \/ /\ edit[e].op = "moveFrom" /\ UNCHANGED <<layout, tabs, active, failures>>
         /\ Put(edit[e].from, edit[e].left) /\ Step(e, [edit[e] EXCEPT !.op = "moveTo"])
      \/ /\ edit[e].op = "moveTo" /\ UNCHANGED <<layout, tabs, active, failures>>
         /\ Put(edit[e].tab, edit[e].tree) /\ Done(e)
      \/ /\ edit[e].op \in {"moveFrom", "moveTo"} /\ UNCHANGED saved
         /\ Fails /\ Back(edit[e]) /\ Step(e, [edit[e] EXCEPT !.op = "moveBack"])
  BY DEF MoveSave, shownVars
<1> QED BY <1>1, <1>2, MovePut, MoveDone, MoveFails

LEMMA MoveRollbackKeeps == ASSUME LayoutInv, NEW e \in Edits, MoveRollback(e) PROVE LayoutInv'
<1>0. PICK m, w, t : m = edit[e] /\ w = m.from /\ t = m.tabs[w]
  OBVIOUS
<1>1. LayoutTypes /\ IsMove(m) /\ m.op = "moveBack" /\ SaveOrDoubt(w, t) /\ Step(e, NoEdit)
  BY <1>0, UnderWay DEF LayoutInv, IsEdit, MoveRollback, Done
<1>2. UNCHANGED <<layout, tabs, active, current, alive, timer, posted, edits, dialog, captured, restarted>>
  BY DEF MoveRollback, shownVars, paneSettingVars
<1>3. w \in Tabs /\ t \in Nodes /\ w \in DOMAIN m.tabs
  BY <1>0, <1>1, ViewParts DEF IsMove
<1>4. /\ IsView(saved') /\ DOMAIN saved' = DOMAIN saved
      /\ doubted' \subseteq Tabs /\ failures' \in 0..MaxFailures
      /\ \A u \in DOMAIN saved' \ doubted' :
           IF u = w THEN saved'[u] = t ELSE u \in DOMAIN saved \ doubted /\ saved'[u] = saved[u]
  BY <1>1, <1>3, SaveGives DEF LayoutTypes
<1>5. EditTypes' /\ edit'[e] = NoEdit /\ \A f \in Edits \ {e} : edit'[f] = edit[f]
  BY <1>1, NoEditKnown, StepTypes DEF LayoutTypes
<1>6. LayoutTypes'
  BY <1>1, <1>2, <1>4, <1>5 DEF LayoutTypes, ShownTypes, SavedTypes, TimerTypes, OtherTypes
<1>7. ASSUME Orderly PROVE EditsInOrder'
  <2>1. (\A f \in Edits \ {e} : edit[f] = NoEdit) /\ timer = NoSave /\ EditKnown(m) /\ ShowsItsTab
    BY <1>0, <1>1, <1>7, UnderWay
  <2>2. tabs = m.tabs /\ Agrees(tabs, {w})
    BY <1>0, <1>1, <2>1 DEF EditKnown
  <2>3. Agrees(tabs, {})'
    BY <1>0, <1>2, <1>3, <1>4, <2>2 DEF Agrees
  <2>4. ShowsItsTab' /\ TimerKnown'
    BY <1>2, <2>1 DEF ShowsItsTab, TimerKnown
  <2> QED BY <1>5, <2>1, <2>3, <2>4, QuietInOrder
<1> QED BY <1>6, <1>7 DEF LayoutInv

\* An edit that begins with a request shows nothing yet.
LEMMA EditBegins ==
  ASSUME LayoutInv, NEW e \in Edits, MayEdit(e), NEW n, Step(e, n), IsEdit(n), n # NoEdit,
         UNCHANGED <<layout, tabs, active, saved, current, alive, timer, posted, dialog, restarted, doubted, failures>>,
         Orderly /\ layout' # NoTree /\ Agrees(tabs, {})' => EditKnown(n)'
  PROVE  LayoutInv'
<1>1. LayoutTypes'
  <2>1. EditTypes'
    BY StepTypes DEF LayoutInv, LayoutTypes
  <2>2. OtherTypes'
    BY AtRest DEF LayoutInv, LayoutTypes, OtherTypes
  <2> QED BY <2>1, <2>2 DEF LayoutInv, LayoutTypes, ShownTypes, SavedTypes, TimerTypes
<1>2. ASSUME Orderly PROVE EditsInOrder'
  <2>1. (\A f \in Edits : edit[f] = NoEdit) /\ timer = NoSave /\ Agrees(tabs, {}) /\ layout = tabs[active] /\ layout # NoTree
    BY <1>2, AtRest
  <2>2. ShowsItsTab' /\ Agrees(tabs, {})' /\ layout' # NoTree
    BY <2>1 DEF ShowsItsTab, Agrees
  <2> QED BY <1>2, <2>1, <2>2, StepInOrder DEF LayoutInv, LayoutTypes
<1> QED BY <1>1, <1>2 DEF LayoutInv

LEMMA CreateBesideKeeps ==
  ASSUME LayoutInv, NEW e \in Edits, NEW p \in NewPanes, NEW q, NEW g, CreateBeside(e, p, q, g)
  PROVE  LayoutInv'
<1>0. PICK t, view : t = InsertPaneBesideTargetPane(layout, q, g, p) /\ view = tabs
  OBVIOUS
<1>1. PICK n : n = [op |-> "post", pane |-> p, tree |-> t, tab |-> active, chosen |-> FALSE, view |-> view]
  OBVIOUS
<1>2. /\ MayEdit(e) /\ t \in Nodes /\ Step(e, n)
      /\ UNCHANGED <<layout, tabs, active, saved, current, alive, timer, posted, dialog, restarted, doubted, failures>>
  BY <1>0, <1>1 DEF CreateBeside, CreatePane, Fits, shownVars, savedVars, paneSettingVars
<1>3. IsView(view) /\ active \in Tabs
  BY <1>0 DEF LayoutInv, LayoutTypes, ShownTypes, IsView
<1>4. IsEdit(n) /\ n # NoEdit
  BY <1>1, <1>2, <1>3 DEF IsEdit, IsCreate, NoEdit
<1>5. layout' # NoTree /\ Agrees(tabs, {})' => EditKnown(n)'
  BY <1>1 DEF EditKnown, Agrees
<1> QED BY <1>2, <1>4, <1>5, EditBegins

LEMMA CreateInKeeps ==
  ASSUME LayoutInv, NEW e \in Edits, NEW p \in NewPanes, NEW w \in Tabs, CreateIn(e, p, w) PROVE LayoutInv'
<1>1. PICK n : n = [op |-> "choose", pane |-> p, tab |-> w]
  OBVIOUS
<1>2. /\ MayEdit(e) /\ Step(e, n)
      /\ UNCHANGED <<layout, tabs, active, saved, current, alive, timer, posted, dialog, restarted, doubted, failures>>
  BY <1>1 DEF CreateIn, shownVars, savedVars, paneSettingVars
<1>3. IsEdit(n) /\ n # NoEdit
  BY <1>1 DEF IsEdit, NoEdit
<1>4. layout' # NoTree /\ Agrees(tabs, {})' => EditKnown(n)'
  BY <1>1 DEF EditKnown, Agrees
<1> QED BY <1>2, <1>3, <1>4, EditBegins

LEMMA SaveSettingsKeeps ==
  ASSUME LayoutInv, NEW e \in Edits, NEW field \in {"session", "other"}, SaveSettings(e, field) PROVE LayoutInv'
<1>1. PICK n : n = [op |-> "settings", tree |-> layout, field |-> field, before |-> captured]
  OBVIOUS
<1>2. /\ MayEdit(e) /\ Step(e, n)
      /\ UNCHANGED <<layout, tabs, active, saved, current, alive, timer, posted, dialog, restarted, doubted, failures>>
  BY <1>1 DEF SaveSettings, shownVars, savedVars, paneSettingVars
<1>3. IsEdit(n) /\ n # NoEdit
  <2>1. layout \in Nodes
    BY DEF LayoutInv, LayoutTypes, ShownTypes
  <2> QED BY <1>1, <2>1 DEF IsEdit, NoEdit
<1>4. layout' # NoTree /\ Agrees(tabs, {})' => EditKnown(n)'
  <2>1. layout' = layout
    BY <1>2
  <2>2. n.op = "settings" /\ n.tree = layout
    BY <1>1
  <2> QED BY <2>1, <2>2 DEF EditKnown, Agrees
<1> QED BY <1>2, <1>3, <1>4, EditBegins

\* What a request leaves alone, and the edit it was of.
LEMMA GoesOn ==
  ASSUME LayoutInv, NEW e \in Edits, edit[e].op # "none", NEW n, Step(e, n), IsEdit(n),
         UNCHANGED <<layout, tabs, active, timer, dialog, restarted>>, SavedTypes',
         posted' \subseteq NewPanes, doubted' \subseteq Tabs, edits' = edits, failures' \in 0..MaxFailures,
         Orderly => IF n = NoEdit THEN layout # NoTree => Agrees(tabs, {})' ELSE EditKnown(n)'
  PROVE  LayoutInv'
<1>1. EditTypes' /\ edit'[e] = n /\ \A f \in Edits \ {e} : edit'[f] = edit[f]
  BY StepTypes DEF LayoutInv, LayoutTypes
<1>2. LayoutTypes'
  BY <1>1 DEF LayoutInv, LayoutTypes, ShownTypes, TimerTypes, OtherTypes
<1>3. ASSUME Orderly PROVE EditsInOrder'
  <2>1. (\A f \in Edits \ {e} : edit[f] = NoEdit) /\ timer = NoSave /\ ShowsItsTab
    BY <1>3, UnderWay
  <2>2. ShowsItsTab' /\ TimerKnown'
    BY <2>1 DEF ShowsItsTab, TimerKnown
  <2>3. CASE n = NoEdit
    <3>1. \A f \in Edits : edit'[f] = NoEdit
      BY <1>1, <2>1, <2>3
    <3>2. layout' # NoTree => Agrees(tabs, {})'
      BY <1>3, <2>3
    <3> QED BY <2>2, <3>1, <3>2, QuietInOrder
  <2>4. CASE n # NoEdit
    <3>1. EditKnown(n)'
      BY <1>3, <2>4
    <3>2. EditTypes /\ timer' = NoSave
      BY <2>1 DEF LayoutInv, LayoutTypes
    <3> QED BY <2>1, <2>2, <2>4, <3>1, <3>2, StepInOrder
  <2> QED BY <2>3, <2>4
<1> QED BY <1>2, <1>3 DEF LayoutInv

LEMMA FailsGives == ASSUME LayoutInv, Fails \/ failures' = failures PROVE failures' \in 0..MaxFailures
<1>1. failures \in 0..MaxFailures /\ MaxFailures \in Nat
  BY LayoutAssumption DEF LayoutInv, LayoutTypes, OtherTypes
<1> QED BY <1>1 DEF Fails

LEMMA CreateChooseKeeps == ASSUME LayoutInv, NEW e \in Edits, CreateChoose(e) PROVE LayoutInv'
<1>0. PICK m : m = edit[e]
  OBVIOUS
<1>1. /\ m.op = "choose" /\ IsEdit(m) /\ m.pane \in NewPanes /\ m.tab \in Tabs
      /\ Orderly => layout # NoTree /\ Agrees(tabs, {})
  <2>1. m.op = "choose"
    BY <1>0 DEF CreateChoose
  <2>2. IsEdit(m) /\ (Orderly => EditKnown(m))
    BY <1>0, <2>1, UnderWay
  <2> QED BY <2>1, <2>2 DEF IsEdit, EditKnown
<1>2. UNCHANGED <<layout, tabs, active, saved, current, alive, timer, posted, edits, dialog, restarted, doubted>>
  BY DEF CreateChoose, shownVars, savedVars, paneSettingVars
<1>3. failures' \in 0..MaxFailures
  <2>1. Fails \/ failures' = failures
    BY DEF CreateChoose
  <2> QED BY <2>1, FailsGives
<1>4. SavedTypes' /\ posted' \subseteq NewPanes /\ doubted' \subseteq Tabs /\ IsView(saved)
  BY <1>2 DEF LayoutInv, LayoutTypes, SavedTypes, OtherTypes
<1>5. CASE Done(e)
  <2>1. Step(e, NoEdit) /\ (Orderly => Agrees(tabs, {})')
    BY <1>1, <1>2, <1>5 DEF Done, Agrees
  <2> QED BY <1>0, <1>1, <1>2, <1>3, <1>4, <2>1, NoEditKnown, GoesOn
<1>6. CASE ~Done(e)
  <2>1. PICK op, put, view : /\ op = IF HasIt(saved, m.pane) # {} THEN "chosen" ELSE "post"
                             /\ put = InsertPaneAtWorkspaceEdge(saved[m.tab], "right", m.pane)
                             /\ view = saved
    OBVIOUS
  <2>2. PICK t : t = IF HasIt(saved, m.pane) # {} THEN saved[m.tab] ELSE put
    OBVIOUS
  <2>3. PICK n : n = [op |-> op, pane |-> m.pane, tree |-> t, tab |-> m.tab, chosen |-> TRUE, view |-> view]
    OBVIOUS
  <2>4. m.tab \in DOMAIN saved /\ Step(e, n) /\ put \in Nodes
    BY <1>0, <1>6, <2>1, <2>2, <2>3 DEF CreateChoose, Fits
  <2>5. t \in Nodes
    BY <1>4, <2>2, <2>4, ViewParts
  <2>6. IsEdit(n) /\ n # NoEdit
    BY <1>1, <1>4, <2>1, <2>3, <2>5 DEF IsEdit, IsCreate, NoEdit
  <2>7. ASSUME Orderly PROVE EditKnown(n)'
    <3>1. layout' # NoTree /\ Agrees(tabs, {})' /\ Agrees(tabs, {m.tab})'
      BY <1>1, <1>2, <2>7 DEF Agrees
    <3>2. view = saved' /\ n.view = view /\ n.tab = m.tab /\ n.tree = t /\ n.op = op
      BY <1>2, <2>1, <2>3
    <3>3. op = "post" \/ (op = "chosen" /\ t = saved'[m.tab])
      BY <1>2, <2>1, <2>2
    <3> QED BY <3>1, <3>2, <3>3 DEF EditKnown, Agrees
  <2> QED BY <1>0, <1>1, <1>2, <1>3, <1>4, <2>4, <2>6, <2>7, GoesOn
<1> QED BY <1>5, <1>6

LEMMA CreatePostKeeps == ASSUME LayoutInv, NEW e \in Edits, CreatePost(e) PROVE LayoutInv'
<1>0. PICK m : m = edit[e]
  OBVIOUS
<1>1. /\ m.op = "post" /\ IsEdit(m) /\ IsCreate(m) /\ (Orderly => EditKnown(m))
  <2>1. m.op = "post"
    BY <1>0 DEF CreatePost
  <2>2. IsEdit(m) /\ (Orderly => EditKnown(m))
    BY <1>0, <2>1, UnderWay
  <2> QED BY <2>1, <2>2 DEF IsEdit
<1>2. Orderly => layout # NoTree /\ Agrees(tabs, {}) /\ (m.chosen => m.view = saved)
  BY <1>1 DEF EditKnown
<1>3. UNCHANGED <<layout, tabs, active, saved, current, timer, edits, dialog, restarted, doubted>>
  BY DEF CreatePost, shownVars, paneSettingVars
<1>4. failures' \in 0..MaxFailures
  <2>1. Fails \/ failures' = failures
    BY DEF CreatePost
  <2> QED BY <2>1, FailsGives
<1>5. SavedTypes' /\ posted' \subseteq NewPanes /\ doubted' \subseteq Tabs
  <2>1. m.pane \in NewPanes /\ NewPanes \subseteq PaneIDs
    BY <1>1, LayoutAssumption DEF IsCreate
  <2>2. IsView(saved) /\ current \in DOMAIN saved /\ alive \subseteq PaneIDs /\ posted \subseteq NewPanes /\ doubted \subseteq Tabs
    BY DEF LayoutInv, LayoutTypes, SavedTypes, OtherTypes
  <2>3. (alive' = alive \cup {m.pane} /\ posted' = posted \cup {m.pane}) \/ (alive' = alive /\ posted' = posted)
    BY <1>0 DEF CreatePost
  <2> QED BY <1>3, <2>1, <2>2, <2>3 DEF SavedTypes
<1>6. CASE Done(e)
  <2>1. Step(e, NoEdit) /\ (Orderly => Agrees(tabs, {})')
    BY <1>2, <1>3, <1>6 DEF Done, Agrees
  <2> QED BY <1>0, <1>1, <1>3, <1>4, <1>5, <2>1, NoEditKnown, GoesOn
<1>7. CASE ~Done(e)
  <2>1. PICK n : n = [m EXCEPT !.op = "put"]
    OBVIOUS
  <2>2. n = [op |-> "put", pane |-> m.pane, tree |-> m.tree, tab |-> m.tab, chosen |-> m.chosen, view |-> m.view]
    BY <1>1, <2>1 DEF IsCreate
  <2>3. Step(e, n)
    BY <1>0, <1>7, <2>1 DEF CreatePost
  <2>4. IsEdit(n) /\ n # NoEdit
    BY <1>1, <2>2 DEF IsEdit, IsCreate, NoEdit
  <2>5. ASSUME Orderly PROVE EditKnown(n)'
    <3>1. layout' # NoTree /\ Agrees(tabs, {})' /\ (m.chosen => m.view = saved')
      BY <1>2, <1>3, <2>5 DEF Agrees
    <3>2. n.op = "put" /\ n.chosen = m.chosen /\ n.view = m.view
      BY <2>2
    <3> QED BY <3>1, <3>2 DEF EditKnown, Agrees
  <2> QED BY <1>0, <1>1, <1>3, <1>4, <1>5, <2>3, <2>4, <2>5, GoesOn
<1> QED BY <1>6, <1>7

LEMMA CreatePutKeeps == ASSUME LayoutInv, NEW e \in Edits, CreatePut(e) PROVE LayoutInv'
<1>0. PICK m : m = edit[e]
  OBVIOUS
<1>1. /\ m.op = "put" /\ IsEdit(m) /\ IsCreate(m) /\ (Orderly => EditKnown(m))
  <2>1. m.op = "put"
    BY <1>0 DEF CreatePut
  <2>2. IsEdit(m) /\ (Orderly => EditKnown(m))
    BY <1>0, <2>1, UnderWay
  <2> QED BY <2>1, <2>2 DEF IsEdit
<1>2. Orderly => layout # NoTree /\ Agrees(tabs, {}) /\ (m.chosen => m.view = saved)
  BY <1>1 DEF EditKnown
<1>3. UNCHANGED <<layout, tabs, active, current, alive, timer, posted, edits, dialog, restarted, doubted>>
  BY DEF CreatePut, shownVars, paneSettingVars
<1>4. failures' \in 0..MaxFailures
  <2>1. Fails \/ failures' = failures
    BY DEF CreatePut
  <2> QED BY <2>1, FailsGives
<1>5. /\ IsView(saved) /\ current \in DOMAIN saved /\ alive \subseteq PaneIDs
      /\ posted' \subseteq NewPanes /\ doubted' \subseteq Tabs
  BY <1>3 DEF LayoutInv, LayoutTypes, SavedTypes, OtherTypes
<1>6. CASE Done(e) /\ saved' = saved
  <2>1. Step(e, NoEdit) /\ (Orderly => Agrees(tabs, {})') /\ SavedTypes'
    BY <1>2, <1>3, <1>5, <1>6 DEF Done, Agrees, SavedTypes
  <2> QED BY <1>0, <1>1, <1>3, <1>4, <1>5, <2>1, NoEditKnown, GoesOn
<1>7. CASE ~(Done(e) /\ saved' = saved)
  <2>1. PICK n : n = [m EXCEPT !.op = "chosen"]
    OBVIOUS
  <2>2. n = [op |-> "chosen", pane |-> m.pane, tree |-> m.tree, tab |-> m.tab, chosen |-> m.chosen, view |-> m.view]
    BY <1>1, <2>1 DEF IsCreate
  <2>3. m.tab \in DOMAIN saved /\ Put(m.tab, m.tree) /\ Step(e, n)
    BY <1>0, <1>7, <2>1 DEF CreatePut
  <2>4. IsEdit(n) /\ n # NoEdit
    BY <1>1, <2>2 DEF IsEdit, IsCreate, NoEdit
  <2>5. /\ IsView(saved') /\ DOMAIN saved' = DOMAIN saved
        /\ saved'[m.tab] = m.tree
        /\ \A u \in DOMAIN saved \ {m.tab} : saved'[u] = saved[u]
    <3>1. m.tree \in Nodes
      BY <1>1 DEF IsCreate
    <3> QED BY <1>5, <2>3, <3>1, PutGives
  <2>6. SavedTypes'
    BY <1>3, <1>5, <2>5 DEF SavedTypes
  <2>7. ASSUME Orderly PROVE EditKnown(n)'
    <3>1. layout' # NoTree /\ Agrees(tabs, {m.tab})'
      BY <1>2, <1>3, <2>5, <2>7 DEF Agrees
    <3>2. m.chosen => \A u \in DOMAIN saved' \ {m.tab} : u \in DOMAIN m.view /\ m.view[u] = saved'[u]
      BY <1>2, <2>5, <2>7
    <3>3. n.op = "chosen" /\ n.chosen = m.chosen /\ n.view = m.view /\ n.tab = m.tab /\ n.tree = m.tree
      BY <2>2
    <3> QED BY <2>5, <3>1, <3>2, <3>3 DEF EditKnown, Agrees
  <2> QED BY <1>0, <1>1, <1>3, <1>4, <1>5, <2>3, <2>4, <2>6, <2>7, GoesOn
<1> QED BY <1>6, <1>7

LEMMA CreateShowKeeps == ASSUME LayoutInv, NEW e \in Edits, CreateShow(e) PROVE LayoutInv'
<1>0. PICK m : m = edit[e]
  OBVIOUS
<1>1. m.op = "chosen" /\ IsCreate(m) /\ (Orderly => EditKnown(m)) /\ Step(e, NoEdit)
  <2>1. m.op = "chosen" /\ Step(e, NoEdit)
    BY <1>0 DEF CreateShow, Done
  <2>2. IsEdit(m) /\ (Orderly => EditKnown(m))
    BY <1>0, <2>1, UnderWay
  <2> QED BY <2>1, <2>2 DEF IsEdit
<1>2. UNCHANGED <<saved, alive, timer, edits, dialog, restarted>>
  BY DEF CreateShow
<1>3. failures' \in 0..MaxFailures
  <2>1. Fails \/ failures' = failures
    BY DEF CreateShow
  <2> QED BY <2>1, FailsGives
<1>4. /\ IsView(saved) /\ IsView(tabs) /\ current \in DOMAIN saved /\ doubted \subseteq Tabs /\ posted \subseteq NewPanes
      /\ LayoutTypes /\ m.tab \in Tabs /\ m.tree \in Nodes /\ IsView(m.view)
  BY <1>1 DEF LayoutInv, LayoutTypes, ShownTypes, SavedTypes, OtherTypes, IsCreate
<1>5. EditTypes' /\ edit'[e] = NoEdit /\ \A f \in Edits \ {e} : edit'[f] = edit[f]
  BY <1>1, <1>4, NoEditKnown, StepTypes DEF LayoutTypes
<1>6. Orderly => /\ \A f \in Edits : edit'[f] = NoEdit
                 /\ timer = NoSave /\ ShowsItsTab /\ layout # NoTree /\ Agrees(tabs, {m.tab})
                 /\ m.tab \in DOMAIN saved => saved[m.tab] = m.tree
                 /\ m.chosen => \A u \in DOMAIN saved \ {m.tab} : u \in DOMAIN m.view /\ m.view[u] = saved[u]
  <2>1. Orderly => (\A f \in Edits \ {e} : edit[f] = NoEdit) /\ timer = NoSave /\ ShowsItsTab
    BY <1>0, <1>1, UnderWay
  <2> QED BY <1>1, <1>5, <2>1 DEF EditKnown
<1>7. CASE /\ m.chosen
           /\ doubted' = doubted \cup {m.tab} /\ UNCHANGED <<shownVars, current, posted, captured>>
  <2>1. LayoutTypes'
    BY <1>2, <1>3, <1>4, <1>5, <1>7 DEF LayoutTypes, ShownTypes, SavedTypes, TimerTypes, OtherTypes, shownVars
  <2>2. ASSUME Orderly PROVE EditsInOrder'
    <3>1. ShowsItsTab' /\ TimerKnown' /\ Agrees(tabs, {})'
      BY <1>2, <1>6, <1>7, <2>2 DEF ShowsItsTab, TimerKnown, Agrees, shownVars
    <3> QED BY <1>6, <2>2, <3>1, QuietInOrder
  <2> QED BY <2>1, <2>2 DEF LayoutInv
<1>8. CASE ~(m.chosen /\ doubted' = doubted \cup {m.tab} /\ UNCHANGED <<shownVars, current, posted, captured>>)
  <2>1. PICK source : source = IF m.chosen THEN m.view ELSE tabs
    OBVIOUS
  <2>2. PICK view : view = [v \in DOMAIN source \cup {m.tab} |-> IF v = m.tab THEN m.tree ELSE source[v]]
    OBVIOUS
  <2>3. /\ m.chosen => m.tab \in DOMAIN saved
        /\ current' = (IF m.chosen THEN m.tab ELSE current)
        /\ Show(view, m.tab)
        /\ doubted' = (IF m.chosen THEN {} ELSE doubted \ {m.tab})
        /\ posted' = posted \ {m.pane}
    BY <1>0, <1>8, <2>1, <2>2 DEF CreateShow
  <2>4. IsView(view) /\ m.tab \in DOMAIN view
    <3>1. IsView(source)
      BY <1>4, <2>1
    <3> QED BY <1>4, <2>2, <3>1 DEF IsView
  <2>5. ShownTypes' /\ ShowsItsTab' /\ tabs' = view
    BY <2>3, <2>4, ShowGives
  <2>6. LayoutTypes'
    BY <1>2, <1>3, <1>4, <1>5, <2>3, <2>5 DEF LayoutTypes, SavedTypes, TimerTypes, OtherTypes
  <2>7. ASSUME Orderly PROVE EditsInOrder'
    <3>1. Agrees(tabs, {})'
      <4> SUFFICES ASSUME NEW u \in DOMAIN saved' \ doubted' PROVE u \in DOMAIN view /\ Settled(view[u]) = Settled(saved'[u])
        BY <2>5 DEF Agrees
      <4>1. CASE u = m.tab
        BY <1>2, <1>6, <2>2, <2>7, <4>1
      <4>2. CASE u # m.tab /\ m.chosen
        BY <1>2, <1>6, <2>1, <2>2, <2>7, <4>2
      <4>3. CASE u # m.tab /\ ~m.chosen
        <5>1. u \in DOMAIN saved \ (doubted \cup {m.tab}) /\ source = tabs
          BY <1>2, <2>1, <2>3, <4>3
        <5>2. u \in DOMAIN tabs /\ Settled(tabs[u]) = Settled(saved[u])
          BY <1>6, <2>7, <5>1 DEF Agrees
        <5> QED BY <1>2, <2>2, <4>3, <5>1, <5>2
      <4> QED BY <4>1, <4>2, <4>3
    <3>2. TimerKnown'
      BY <1>2, <1>6, <2>7 DEF TimerKnown
    <3> QED BY <1>6, <2>5, <2>7, <3>1, <3>2, QuietInOrder
  <2> QED BY <2>6, <2>7 DEF LayoutInv
<1> QED BY <1>7, <1>8

LEMMA ChangeTabsKeeps == ASSUME LayoutInv, NEW e \in Edits, ChangeTabs(e) PROVE LayoutInv'
<1>0. /\ MayEdit(e) /\ LayoutTypes /\ IsView(saved) /\ alive \subseteq PaneIDs
      /\ UNCHANGED <<layout, tabs, active, timer, posted, dialog, restarted, doubted, failures>>
  BY DEF LayoutInv, LayoutTypes, SavedTypes, ChangeTabs, shownVars, paneSettingVars
<1>1. PICK v \in Views : /\ v.current \in DOMAIN v.saved
                         /\ saved' = v.saved /\ current' = v.current /\ alive' = (alive \cup v.made) \ v.gone
                         /\ Step(e, [op |-> "answer", view |-> v.saved, tab |-> v.current])
  BY DEF ChangeTabs
<1>2. IsView(v.saved) /\ v.made \subseteq PaneIDs
  <2>1. CASE v = [saved |-> saved, current |-> current, gone |-> {}, made |-> {}]
    BY <1>0, <2>1
  <2>2. CASE \E w \in Tabs :
               v = [saved |-> [u \in DOMAIN saved \cup {w} |-> IF u = w THEN Trivial(PanesOf[w]) ELSE saved[u]],
                    current |-> w, gone |-> {}, made |-> {PanesOf[w]}]
    <3>1. PICK w \in Tabs :
               v = [saved |-> [u \in DOMAIN saved \cup {w} |-> IF u = w THEN Trivial(PanesOf[w]) ELSE saved[u]],
                    current |-> w, gone |-> {}, made |-> {PanesOf[w]}]
      BY <2>2
    <3>2. PanesOf[w] \in PaneIDs
      BY LayoutAssumption
    <3>3. PICK t \in Nodes : t = Trivial(PanesOf[w])
      BY <3>2, TrivialIsNode
    <3>4. v.saved = [u \in DOMAIN saved \cup {w} |-> IF u = w THEN t ELSE saved[u]] /\ v.made = {PanesOf[w]}
      BY <3>1, <3>3
    <3> QED BY <1>0, <3>2, <3>4 DEF IsView
  <2>3. CASE \E w \in DOMAIN saved :
               /\ v.saved = [u \in DOMAIN saved \ {w} |-> saved[u]]
               /\ v.made = {}
    BY <1>0, <2>3 DEF IsView
  <2> DEFINE With(w) == [saved |-> [u \in DOMAIN saved \cup {w} |-> IF u = w THEN Trivial(PanesOf[w]) ELSE saved[u]],
                         current |-> w, gone |-> {}, made |-> {PanesOf[w]}]
             Without(w, c) == [saved |-> [u \in DOMAIN saved \ {w} |-> saved[u]], current |-> c,
                               gone |-> ToSet(PanesIn(saved[w])), made |-> {}]
             unused == {u \in Tabs \ DOMAIN saved : PanesOf[u] \notin alive}
             asis == [saved |-> saved, current |-> current, gone |-> {}, made |-> {}]
  <2>4. Views = {asis} \cup {With(w) : w \in unused} \cup {Without(w, c) : w \in DOMAIN saved, c \in DOMAIN saved}
    BY DEF Views
  <2>5. ASSUME NEW w \in DOMAIN saved, NEW c \in DOMAIN saved, v = Without(w, c)
        PROVE  v.saved = [u \in DOMAIN saved \ {w} |-> saved[u]] /\ v.made = {}
    BY <2>5
  <2>6. ASSUME NEW w \in unused, v = With(w) PROVE IsView(v.saved) /\ v.made \subseteq PaneIDs
    BY <2>2, <2>6
  <2>7. v = asis \/ (\E w \in unused : v = With(w)) \/ (\E w \in DOMAIN saved, c \in DOMAIN saved : v = Without(w, c))
    <3> HIDE DEF With, Without, unused, asis
    <3> QED BY <1>1, <2>4
  <2>8. ASSUME NEW w \in DOMAIN saved, NEW c \in DOMAIN saved, v = Without(w, c)
        PROVE  IsView(v.saved) /\ v.made \subseteq PaneIDs
    BY <2>3, <2>5, <2>8
  <2>9. CASE v = asis
    BY <2>1, <2>9
  <2> HIDE DEF With, Without, unused, asis
  <2> QED BY <2>6, <2>7, <2>8, <2>9
<1>3. PICK view, w : view = v.saved /\ w = v.current
  OBVIOUS
<1>4. PICK n : n = [op |-> "answer", view |-> view, tab |-> w]
  OBVIOUS
<1>5. Step(e, n) /\ IsEdit(n) /\ n # NoEdit
  BY <1>1, <1>2, <1>3, <1>4 DEF IsEdit, NoEdit
<1>6. LayoutTypes'
  <2>1. EditTypes'
    BY <1>0, <1>5, StepTypes DEF LayoutTypes
  <2>2. OtherTypes'
    BY <1>0, AtRest DEF LayoutTypes, OtherTypes
  <2>3. SavedTypes'
    BY <1>0, <1>1, <1>2 DEF SavedTypes
  <2> QED BY <1>0, <2>1, <2>2, <2>3 DEF LayoutTypes, ShownTypes, TimerTypes
<1>7. ASSUME Orderly PROVE EditsInOrder'
  <2>1. (\A f \in Edits : edit[f] = NoEdit) /\ timer = NoSave /\ layout = tabs[active]
    BY <1>0, <1>7, AtRest
  <2>2. ShowsItsTab'
    BY <1>0, <2>1 DEF ShowsItsTab
  <2>3. EditKnown(n)'
    <3>1. n.op = "answer" /\ n.view = saved'
      BY <1>1, <1>3, <1>4
    <3> QED BY <3>1 DEF EditKnown, Agrees
  <2> QED BY <1>0, <1>5, <2>1, <2>2, <2>3, StepInOrder DEF LayoutTypes
<1> QED BY <1>6, <1>7 DEF LayoutInv

LEMMA TabsAnsweredKeeps == ASSUME LayoutInv, NEW e \in Edits, TabsAnswered(e) PROVE LayoutInv'
<1>0. PICK m, view, w : m = edit[e] /\ view = m.view /\ w = m.tab
  OBVIOUS
<1>1. /\ m.op = "answer" /\ Show(view, w) /\ Step(e, NoEdit) /\ doubted' = {}
      /\ UNCHANGED <<saved, current, alive, timer, posted, edits, dialog, restarted, failures>>
  BY <1>0 DEF TabsAnswered, Done, savedVars
<1>2. LayoutTypes /\ IsView(view) /\ w \in DOMAIN view
  BY <1>0, <1>1, UnderWay DEF IsEdit, LayoutInv
<1>3. ShownTypes' /\ ShowsItsTab' /\ tabs' = view
  BY <1>1, <1>2, ShowGives
<1>4. EditTypes' /\ edit'[e] = NoEdit /\ \A f \in Edits \ {e} : edit'[f] = edit[f]
  BY <1>1, <1>2, NoEditKnown, StepTypes DEF LayoutTypes
<1>5. LayoutTypes'
  BY <1>1, <1>2, <1>3, <1>4 DEF LayoutTypes, SavedTypes, TimerTypes, OtherTypes
<1>6. ASSUME Orderly PROVE EditsInOrder'
  <2>1. (\A f \in Edits \ {e} : edit[f] = NoEdit) /\ timer = NoSave /\ EditKnown(m)
    BY <1>0, <1>1, <1>6, UnderWay
  <2>2. view = saved
    BY <1>0, <1>1, <2>1 DEF EditKnown
  <2>3. TimerKnown' /\ Agrees(tabs, {})'
    BY <1>1, <1>3, <2>1, <2>2 DEF TimerKnown, Agrees
  <2> QED BY <1>3, <1>4, <2>1, <2>3, QuietInOrder
<1> QED BY <1>5, <1>6 DEF LayoutInv

\* What is shown, kept and under way does not change.
LEMMA NothingElse ==
  ASSUME LayoutInv, UNCHANGED <<layout, tabs, active, saved, current, alive, timer, edit, posted, edits, restarted, doubted, failures>>,
         dialog' \in PaneIDs \cup {NoPane}
  PROVE  LayoutInv'
<1>1. EditTypes'
  BY DEF LayoutInv, LayoutTypes, EditTypes
<1>2. LayoutTypes'
  BY <1>1 DEF LayoutInv, LayoutTypes, ShownTypes, SavedTypes, TimerTypes, OtherTypes
<1>3. ASSUME Orderly PROVE EditsInOrder'
  <2>1. EditsInOrder
    BY <1>3 DEF LayoutInv
  <2>2. Alone' /\ ShowsItsTab' /\ TimerKnown'
    BY <2>1 DEF EditsInOrder, Alone, ShowsItsTab, TimerKnown
  <2>3. IdleAgrees'
    BY <2>1 DEF EditsInOrder, IdleAgrees, Agrees
  <2>4. \A e \in Edits : EditKnown(edit[e])'
    <3> TAKE e \in Edits
    <3>1. PICK m : m = edit[e]
      OBVIOUS
    <3>2. EditKnown(m)
      BY <2>1, <3>1 DEF EditsInOrder
    <3>3. EditKnown(m)'
      BY <3>2 DEF EditKnown, Agrees
    <3>4. edit'[e] = m
      BY <3>1
    <3> QED BY <3>3, <3>4 DEF EditKnown, Agrees
  <2> QED BY <2>2, <2>3, <2>4 DEF EditsInOrder
<1> QED BY <1>2, <1>3 DEF LayoutInv

LEMMA OpenSettingsKeeps ==
  ASSUME LayoutInv, NEW p \in ToSet(PanesIn(layout)), OpenSettings(p) PROVE LayoutInv'
<1>1. p \in PaneIDs
  BY PaneNames DEF LayoutInv, LayoutTypes, ShownTypes
<1> QED BY <1>1, NothingElse DEF OpenSettings, shownVars, savedVars, editVars

LEMMA CloseSettingsKeeps == ASSUME LayoutInv, CloseSettings PROVE LayoutInv'
BY NothingElse DEF CloseSettings, shownVars, savedVars, editVars

LEMMA SettingsSavedKeeps == ASSUME LayoutInv, NEW e \in Edits, SettingsSaved(e) PROVE LayoutInv'
<1>0. PICK m, t : m = edit[e] /\ t = m.tree
  OBVIOUS
<1>1. m.op = "settings" /\ Step(e, NoEdit) /\ UNCHANGED <<active, current, alive, posted, edits>>
  BY <1>0 DEF SettingsSaved, Done
<1>2. /\ LayoutTypes /\ t \in Nodes /\ m.field \in {"session", "other"} /\ IsView(saved) /\ IsView(tabs)
      /\ active \in DOMAIN tabs /\ active \in Tabs /\ current \in DOMAIN saved /\ current \in Tabs
  BY <1>0, <1>1, UnderWay DEF IsEdit, LayoutInv, LayoutTypes, ShownTypes, SavedTypes, IsView
<1>3. EditTypes' /\ edit'[e] = NoEdit /\ \A f \in Edits \ {e} : edit'[f] = edit[f]
  BY <1>1, <1>2, NoEditKnown, StepTypes DEF LayoutTypes
<1>4. Orderly => /\ \A f \in Edits : edit'[f] = NoEdit
                 /\ timer = NoSave /\ ShowsItsTab /\ layout # NoTree /\ Agrees(tabs, {}) /\ t = layout
  <2>1. Orderly => (\A f \in Edits \ {e} : edit[f] = NoEdit) /\ timer = NoSave /\ EditKnown(m) /\ ShowsItsTab
    BY <1>0, <1>1, UnderWay
  <2> QED BY <1>0, <1>1, <1>3, <2>1 DEF EditKnown
<1>5. failures' \in 0..MaxFailures
  <2>1. Fails \/ failures' = failures
    BY DEF SettingsSaved
  <2> QED BY <2>1, FailsGives
<1>6. CASE UNCHANGED <<shownVars, saved, timer, paneSettingVars, doubted>>
  <2>1. UNCHANGED <<layout, tabs, saved, timer, dialog, restarted, doubted>>
    BY <1>6 DEF shownVars, paneSettingVars
  <2>2. LayoutTypes'
    BY <1>1, <1>2, <1>3, <1>5, <2>1 DEF LayoutTypes, ShownTypes, SavedTypes, TimerTypes, OtherTypes
  <2>3. ASSUME Orderly PROVE EditsInOrder'
    <3>1. ShowsItsTab' /\ TimerKnown' /\ Agrees(tabs, {})'
      BY <1>1, <1>4, <2>1, <2>3 DEF ShowsItsTab, TimerKnown, Agrees
    <3> QED BY <1>4, <2>3, <3>1, QuietInOrder
  <2> QED BY <2>2, <2>3 DEF LayoutInv
<1>7. CASE ~UNCHANGED <<shownVars, saved, timer, paneSettingVars, doubted>>
  <2>1. /\ Put(current, t) /\ layout' = t /\ timer' = [tab |-> active, tree |-> t]
        /\ tabs' = [tabs EXCEPT ![active] = t]
        /\ doubted' = (IF current = active THEN doubted \ {active} ELSE doubted \cup {current})
        /\ dialog' = NoPane
        /\ restarted' = restarted \/ restarted' = restarted \cup {m.field}
    BY <1>0, <1>2, <1>7 DEF SettingsSaved
  <2>2. /\ IsView(saved') /\ DOMAIN saved' = DOMAIN saved /\ saved'[current] = t
        /\ \A u \in DOMAIN saved \ {current} : saved'[u] = saved[u]
    BY <1>2, <2>1, PutGives
  <2>3. /\ IsView(tabs') /\ DOMAIN tabs' = DOMAIN tabs /\ tabs'[active] = t
        /\ \A u \in DOMAIN tabs \ {active} : tabs'[u] = tabs[u]
    BY <1>2, <2>1, ViewExcept
  <2>4. TimerTypes'
    BY <1>2, <2>1 DEF TimerTypes
  <2>5. OtherTypes' /\ SavedTypes' /\ ShownTypes'
    BY <1>1, <1>2, <1>5, <2>1, <2>2, <2>3 DEF LayoutTypes, OtherTypes, SavedTypes, ShownTypes
  <2>6. ASSUME Orderly PROVE EditsInOrder'
    <3>1. tabs[active] = t /\ Agrees(tabs, {})
      BY <1>4, <2>6 DEF ShowsItsTab
    <3>2. Agrees(tabs, {})'
      <4> SUFFICES ASSUME NEW u \in DOMAIN saved' \ doubted' PROVE u \in DOMAIN tabs' /\ Settled(tabs'[u]) = Settled(saved'[u])
        BY DEF Agrees
      <4>1. CASE u = current
        BY <1>2, <2>1, <2>2, <2>3, <4>1
      <4>2. CASE u # current
        <5>1. u \in DOMAIN saved \ doubted /\ saved'[u] = saved[u]
          BY <2>1, <2>2, <4>2
        <5>2. u \in DOMAIN tabs /\ Settled(tabs[u]) = Settled(saved[u])
          BY <3>1, <5>1 DEF Agrees
        <5>3. tabs'[u] = tabs[u]
          BY <2>3, <3>1, <5>2
        <5> QED BY <2>3, <5>1, <5>2, <5>3
      <4> QED BY <4>1, <4>2
    <3>3. ShowsItsTab' /\ TimerKnown'
      BY <1>1, <1>2, <2>1, <2>3 DEF ShowsItsTab, TimerKnown
    <3> QED BY <1>4, <2>6, <3>2, <3>3, QuietInOrder
  <2> QED BY <1>3, <2>4, <2>5, <2>6 DEF LayoutInv, LayoutTypes
<1> QED BY <1>6, <1>7

LEMMA ReloadKeeps == ASSUME LayoutInv, Reload PROVE LayoutInv'
<1>1. /\ Rest /\ Show(saved, current) /\ dialog' = NoPane /\ posted' = {} /\ doubted' = {}
      /\ UNCHANGED <<saved, current, alive, timer, edit, edits, restarted, failures>>
  BY DEF Reload, savedVars
<1>2. LayoutTypes /\ IsView(saved) /\ current \in DOMAIN saved
  BY DEF LayoutInv, LayoutTypes, SavedTypes
<1>3. ShownTypes' /\ ShowsItsTab' /\ tabs' = saved
  BY <1>1, <1>2, ShowGives
<1>4. LayoutTypes'
  <2>1. EditTypes'
    BY <1>1, <1>2 DEF LayoutTypes, EditTypes
  <2> QED BY <1>1, <1>2, <1>3, <2>1 DEF LayoutTypes, SavedTypes, TimerTypes, OtherTypes
<1>5. ASSUME Orderly PROVE EditsInOrder'
  <2>1. \A f \in Edits : edit'[f] = NoEdit
    BY <1>1 DEF Rest
  <2>2. TimerKnown' /\ Agrees(tabs, {})'
    BY <1>1, <1>3 DEF Rest, TimerKnown, Agrees
  <2> QED BY <1>3, <2>1, <2>2, QuietInOrder
<1> QED BY <1>4, <1>5 DEF LayoutInv

LEMMA LayoutInitInv == LayoutInit => LayoutInv
<1> SUFFICES ASSUME LayoutInit PROVE LayoutInv
  OBVIOUS
<1>1. /\ tabs = [w \in FirstTabs |-> Trivial(PanesOf[w])] /\ saved = tabs
      /\ active \in FirstTabs /\ current = active /\ layout = tabs[active]
      /\ alive = {PanesOf[w] : w \in FirstTabs}
      /\ timer = NoSave /\ edit = [e \in Edits |-> NoEdit] /\ posted = {}
      /\ dialog = NoPane /\ restarted = {} /\ doubted = {} /\ edits = 0 /\ failures = 0
  BY DEF LayoutInit
<1>2. \A w \in FirstTabs : w \in Tabs /\ PanesOf[w] \in PaneIDs
  BY LayoutAssumption
<1>3. \A w \in FirstTabs : Trivial(PanesOf[w]) \in Nodes
  BY <1>2, TrivialIsNode
<1>4. DOMAIN tabs = FirstTabs /\ \A w \in FirstTabs : tabs[w] \in Nodes
  BY <1>1, <1>3
<1>5. IsView(tabs)
  BY <1>1, <1>2, <1>4 DEF IsView
<1>6. \A e \in Edits : edit[e] = NoEdit
  BY <1>1
<1>7. EditTypes
  BY <1>1, <1>6, NoEditKnown DEF EditTypes
<1>8. OtherTypes
  <2>1. 0 \in 0..MaxEdits /\ 0 \in 0..MaxFailures
    BY LayoutAssumption
  <2> QED BY <1>1, <2>1 DEF OtherTypes
<1>9. LayoutTypes
  BY <1>1, <1>2, <1>4, <1>5, <1>7, <1>8 DEF LayoutTypes, ShownTypes, SavedTypes, TimerTypes
<1>10. EditsInOrder
  <2>1. Agrees(tabs, {})
    BY <1>1 DEF Agrees
  <2>2. \A e \in Edits : EditKnown(edit[e])
    BY <1>6, NoEditKnown
  <2> QED BY <1>1, <1>6, <2>1, <2>2 DEF EditsInOrder, Alone, ShowsItsTab, TimerKnown, IdleAgrees
<1> QED BY <1>9, <1>10 DEF LayoutInv

LEMMA BeginsKeep == ASSUME LayoutInv, NEW e \in Edits, Begin(e) PROVE LayoutInv'
<1>1. CASE \E t \in Arranged : Rearrange(e, t)
  BY <1>1, RearrangeKeeps
<1>2. CASE \E p \in ToSet(PanesIn(layout)) :
             \/ ClosePane(e, p)
             \/ \E q \in NewPanes : (\E d \in Axes : SplitPane(e, p, d, q)) \/ (\E g \in Edges : CreateBeside(e, q, p, g))
  BY <1>2, ClosePaneKeeps, SplitPaneKeeps, CreateBesideKeeps
<1>3. CASE \E w \in Tabs :
             \/ SetActive(e, w)
             \/ \E p \in NewPanes : CreateIn(e, p, w)
             \/ \E p \in UNION {ToSet(PanesIn(tabs[v])) : v \in DOMAIN tabs} : MoveToTab(e, p, w)
  <2>1. PICK w \in Tabs : SetActive(e, w) \/ (\E p \in NewPanes : CreateIn(e, p, w)) \/ (\E p : MoveToTab(e, p, w))
    BY <1>3
  <2> QED BY <2>1, SetActiveKeeps, CreateInKeeps, MoveToTabKeeps
<1>4. CASE ChangeTabs(e)
  BY <1>4, ChangeTabsKeeps
<1>5. CASE \E field \in {"session", "other"} : SaveSettings(e, field)
  BY <1>5, SaveSettingsKeeps
<1> QED BY <1>1, <1>2, <1>3, <1>4, <1>5 DEF Begin

LEMMA LayoutStep == LayoutInv /\ [LayoutNext]_layoutVars => LayoutInv'
<1> SUFFICES ASSUME LayoutInv, [LayoutNext]_layoutVars PROVE LayoutInv'
  OBVIOUS
<1>1. ASSUME NEW e \in Edits, Begin(e) PROVE LayoutInv'
  BY <1>1, BeginsKeep
<1>2. ASSUME NEW e \in Edits, Goes(e) PROVE LayoutInv'
  BY <1>2, SaveLayoutKeeps, SplitPostedKeeps, ClosePostedKeeps, ActivatedKeeps, MoveSaveKeeps, MoveRollbackKeeps,
     CreateChooseKeeps, CreatePostKeeps, CreatePutKeeps, CreateShowKeeps, TabsAnsweredKeeps, SettingsSavedKeeps
     DEF Goes
<1>3. CASE Resize \/ TimerFires \/ Reload \/ CloseSettings
  BY <1>3, ResizeKeeps, TimerFiresKeeps, ReloadKeeps, CloseSettingsKeeps
<1>4. CASE \E p \in ToSet(PanesIn(layout)) : OpenSettings(p)
  BY <1>4, OpenSettingsKeeps
<1>5. CASE UNCHANGED layoutVars
  <2>1. UNCHANGED <<layout, tabs, active, saved, current, alive, timer, edit, posted, edits, dialog, restarted, doubted, failures>>
    BY <1>5 DEF layoutVars, shownVars, savedVars, editVars, paneSettingVars
  <2>2. dialog' \in PaneIDs \cup {NoPane}
    BY <2>1 DEF LayoutInv, LayoutTypes, OtherTypes
  <2> QED BY <2>1, <2>2, NothingElse
<1> QED BY <1>1, <1>2, <1>3, <1>4, <1>5 DEF LayoutNext

LEMMA LayoutShows == LayoutInv => LayoutTypeOK /\ (Orderly => KeptAsShown)
<1> SUFFICES ASSUME LayoutInv PROVE LayoutTypeOK /\ (Orderly => KeptAsShown)
  OBVIOUS
<1>1. LayoutTypeOK
  BY DEF LayoutInv, LayoutTypes, ShownTypes, SavedTypes, OtherTypes, IsView, LayoutTypeOK
<1>2. ASSUME Orderly PROVE KeptAsShown
  BY <1>2 DEF LayoutInv, EditsInOrder, IdleAgrees, ShowsItsTab, Agrees, Rest, KeptAsShown
<1> QED BY <1>1, <1>2

\* However edits overlap, what the dashboard and the server hold has its type.
THEOREM LayoutTypeCorrect == LayoutSpec => []LayoutTypeOK
<1>1. LayoutSpec => []LayoutInv
  BY LayoutInitInv, LayoutStep, PTL DEF LayoutSpec
<1> QED BY <1>1, LayoutShows, PTL

\* Edits that follow each other are kept as they are shown.
THEOREM KeptAsShownCorrect == ASSUME Orderly PROVE LayoutSpec => []KeptAsShown
<1>1. LayoutSpec => []LayoutInv
  BY LayoutInitInv, LayoutStep, PTL DEF LayoutSpec
<1>2. LayoutInv => KeptAsShown
  BY LayoutShows
<1> QED BY <1>1, <1>2, PTL

=============================================================================
