------------------------------ MODULE CanvasProofs ------------------------------
(***************************************************************************)
(* Proofs about the canvas and the graph behind it.                        *)
(*                                                                         *)
(* The graph, for every graph that wires can make, loops included: what    *)
(* the sorted list holds, and in which order.  What holds after every turn *)
(* of the sort is Turned; a turn sorts one node or none is left, so the    *)
(* sort is over after as many turns as there are nodes.                    *)
(*                                                                         *)
(* The canvas, for any shapes of devices, any patches and any bounds: the  *)
(* graph, the wires, the input pointers and the counts of the buttons of   *)
(* inputs stay in step.  Wires are counted: Number(ws, W) is how many of   *)
(* the list ws are in W, and every edit of one of the four records is an   *)
(* equation between such numbers.  Linked ties the wires to the graph,     *)
(* Shown to the buttons, Pointed to the pointers.  The last part puts the  *)
(* two together: every edit sorts again what it has changed.               *)
(***************************************************************************)
EXTENDS Canvas, GraphEdits, FiniteSetTheorems, SequenceTheorems,
        WellFoundedInduction, NaturalsInduction, TLAPS

-----------------------------------------------------------------------------
(* Induction over the naturals, and what a fold over a sequence computes.  *)

\* A set of naturals has a least member.
LEMMA LeastNumber ==
    ASSUME NEW S \in SUBSET Nat, S # {}
    PROVE  \E n \in S : \A m \in S : n <= m
<1>1. PICK n \in S : \A m \in S : ~(<<m, n>> \in OpToRel(<, Nat))
  BY NatLessThanWellFounded, WFMin
<1>2. ASSUME NEW m \in S PROVE n <= m
  <2>1. ~(m < n)
    BY <1>1 DEF OpToRel
  <2> QED BY <2>1
<1>3. QED BY <1>2

\* Induction, about a set.
LEMMA SetInduction ==
    ASSUME NEW S, 0 \in S, \A n \in Nat : n \in S => n + 1 \in S
    PROVE  Nat \subseteq S
<1> DEFINE T == Nat \ S
<1>1. SUFFICES ASSUME T # {} PROVE FALSE
  OBVIOUS
<1>2. PICK n \in T : \A m \in T : n <= m
  BY <1>1, LeastNumber
<1>3. n # 0 /\ n - 1 \in Nat
  BY <1>2
<1>4. n - 1 \in S
  BY <1>2, <1>3
<1>5. n \in S
  BY <1>3, <1>4
<1>6. QED BY <1>2, <1>5

\* What FoldLeft chooses first.
LEMMA MaxOfPrefix ==
    ASSUME NEW n \in Nat
    PROVE  /\ Max(1..n+1) = n + 1
           /\ \A t \in SUBSET (1..n+1) : n + 1 \in t => Max(t) = n + 1
<1>1. ASSUME NEW t \in SUBSET (1..n+1), n + 1 \in t PROVE Max(t) = n + 1
  <2>1. \A x \in t : n + 1 >= x
    BY <1>1
  <2>2. \A x \in t : (\A y \in t : x >= y) => x = n + 1
    BY <1>1
  <2>3. QED BY <1>1, <2>1, <2>2 DEF Max
<1>2. 1..n+1 \in SUBSET (1..n+1) /\ n + 1 \in 1..n+1
  OBVIOUS
<1>3. QED BY <1>1, <1>2

LEMMA MaxIsMember ==
    ASSUME NEW n \in Nat, NEW t \in SUBSET (1..n), t # {}
    PROVE  Max(t) \in t
<1> DEFINE U == {n - x : x \in t}
<1>1. U \in SUBSET Nat /\ U # {}
  <2>1. \A x \in t : n - x \in Nat
    OBVIOUS
  <2>2. QED BY <2>1
<1>2. PICK u \in U : \A v \in U : u <= v
  BY <1>1, LeastNumber
<1>3. PICK x \in t : u = n - x
  BY <1>2
<1>4. \A y \in t : n - x <= n - y
  BY <1>2, <1>3
<1>5. \A y \in t : x >= y
  BY <1>4
<1>6. QED BY <1>5 DEF Max

\* h is the table of the fold of F over the first n members of s
Solves(h, n, T, F, b, s) ==
    /\ h \in [SUBSET (1..n) -> T]
    /\ \A t \in SUBSET (1..n) :
          h[t] = IF t = {} THEN b ELSE F[<<h[t \ {Max(t)}], s[Max(t)]>>]

\* The recursive function inside a fold exists.
LEMMA FoldSolution ==
    ASSUME NEW T, NEW X, NEW F \in [T \X X -> T], NEW b \in T, NEW s \in Seq(X)
    PROVE  \E h : Solves(h, Len(s), T, F, b, s)
<1> DEFINE Good == {n \in Nat : n <= Len(s) => \E h : Solves(h, n, T, F, b, s)}
<1>1. 0 \in Good
  <2> DEFINE h == [t \in SUBSET (1..0) |-> b]
  <2>1. Solves(h, 0, T, F, b, s)
    BY DEF Solves
  <2>2. QED BY <2>1
<1>2. ASSUME NEW n \in Nat, n \in Good PROVE n + 1 \in Good
  <2>1. SUFFICES ASSUME n + 1 <= Len(s)
                 PROVE  \E h : Solves(h, n + 1, T, F, b, s)
    OBVIOUS
  <2>2. PICK g : Solves(g, n, T, F, b, s)
    BY <1>2, <2>1
  <2> DEFINE h == [t \in SUBSET (1..n+1) |->
                     IF n + 1 \in t THEN F[<<g[t \ {n + 1}], s[n + 1]>>] ELSE g[t]]
  <2>3. \A t \in SUBSET (1..n+1) : n + 1 \in t => t \ {n + 1} \in SUBSET (1..n)
    OBVIOUS
  <2>4. \A t \in SUBSET (1..n+1) : n + 1 \notin t => t \in SUBSET (1..n)
    OBVIOUS
  <2>5. s[n + 1] \in X
    BY <2>1
  <2>6. h \in [SUBSET (1..n+1) -> T]
    BY <2>2, <2>3, <2>4, <2>5 DEF Solves
  <2>7. ASSUME NEW t \in SUBSET (1..n+1)
        PROVE  h[t] = IF t = {} THEN b ELSE F[<<h[t \ {Max(t)}], s[Max(t)]>>]
    <3>1. CASE n + 1 \in t
      <4>1. Max(t) = n + 1
        BY <3>1, MaxOfPrefix
      <4>2. h[t \ {n + 1}] = g[t \ {n + 1}]
        BY <2>3, <3>1
      <4>3. h[t] = F[<<g[t \ {n + 1}], s[n + 1]>>] /\ t # {}
        BY <3>1
      <4>4. QED BY <4>1, <4>2, <4>3
    <3>2. CASE n + 1 \notin t
      <4>1. t \in SUBSET (1..n) /\ h[t] = g[t]
        BY <2>4, <3>2
      <4>2. CASE t = {}
        BY <4>1, <4>2, <2>2 DEF Solves
      <4>3. CASE t # {}
        <5>1. t \ {Max(t)} \in SUBSET (1..n)
          BY <4>1
        <5>2. t \ {Max(t)} \in SUBSET (1..n+1) /\ n + 1 \notin t \ {Max(t)}
          BY <5>1, <4>1
        <5>3. h[t \ {Max(t)}] = g[t \ {Max(t)}]
          BY <5>2
        <5>4. g[t] = F[<<g[t \ {Max(t)}], s[Max(t)]>>]
          BY <2>2, <4>1, <4>3 DEF Solves
        <5>5. QED BY <4>1, <4>3, <5>3, <5>4
      <4>4. QED BY <4>2, <4>3
    <3>3. QED BY <3>1, <3>2
  <2>8. Solves(h, n + 1, T, F, b, s)
    <3> HIDE DEF h
    <3> QED BY <2>6, <2>7 DEF Solves
  <2>9. QED BY <2>8
<1>3. Nat \subseteq Good
  <2> HIDE DEF Good
  <2>1. QED BY <1>1, <1>2, SetInduction
<1>4. Len(s) \in Nat /\ DOMAIN s = 1..Len(s)
  OBVIOUS
<1>5. Len(s) \in Good
  BY <1>3, <1>4
<1>6. QED BY <1>4, <1>5


\* The steps that such a table takes from one prefix to the next.
LEMMA PrefixTable ==
    ASSUME NEW n \in Nat, NEW i \in 1..n
    PROVE  /\ 1..i \in SUBSET (1..n) /\ 1..i # {} /\ Max(1..i) = i
           /\ (1..i) \ {i} = 1..(i-1)
<1>1. i - 1 \in Nat /\ (i - 1) + 1 = i
  OBVIOUS
<1>2. Max(1..i) = i
  BY <1>1, MaxOfPrefix
<1>3. (1..i) \ {i} = 1..(i-1)
  BY <1>1
<1>4. 1..i \in SUBSET (1..n)
  BY <1>1
<1>5. i \in 1..i
  BY <1>1
<1>6. QED BY <1>2, <1>3, <1>4, <1>5

-----------------------------------------------------------------------------
(* Lists.                                                                  *)

LEMMA CountIsNatural ==
    ASSUME NEW S, NEW s \in Seq(S), NEW x
    PROVE  /\ Count(s, x) \in Nat
           /\ IsFiniteSet({i \in DOMAIN s : s[i] = x})
           /\ Count(s, x) = 0 <=> x \notin ToSet(s)
<1>1. IsFiniteSet({i \in DOMAIN s : s[i] = x})
  <2>1. IsFiniteSet(1..Len(s))
    BY FS_Interval
  <2>2. {i \in DOMAIN s : s[i] = x} \in SUBSET (1..Len(s))
    OBVIOUS
  <2>3. QED BY <2>1, <2>2, FS_Subset
<1>2. QED BY <1>1, FS_CardinalityType, FS_EmptySet DEF Count, ToSet

LEMMA CountAppend ==
    ASSUME NEW S, NEW s \in Seq(S), NEW y \in S, NEW x
    PROVE  Count(Append(s, y), x) = Count(s, x) + IF x = y THEN 1 ELSE 0
<1> DEFINE A == {i \in DOMAIN s : s[i] = x}
           B == {i \in DOMAIN Append(s, y) : Append(s, y)[i] = x}
<1>1. DOMAIN s = 1..Len(s) /\ DOMAIN Append(s, y) = 1..Len(s)+1 /\ Len(s) \in Nat
  OBVIOUS
<1>2. IsFiniteSet(A) /\ Cardinality(A) \in Nat
  BY CountIsNatural DEF Count
<1>3. \A i \in 1..Len(s) : Append(s, y)[i] = s[i]
  OBVIOUS
<1>4. Append(s, y)[Len(s)+1] = y
  OBVIOUS
<1>5. CASE x = y
  <2>1. B = A \cup {Len(s)+1} /\ Len(s)+1 \notin A
    BY <1>1, <1>3, <1>4, <1>5
  <2>2. Cardinality(B) = Cardinality(A) + 1
    BY <2>1, <1>2, FS_AddElement
  <2>3. QED BY <2>2, <1>5 DEF Count
<1>6. CASE x # y
  <2>1. B = A
    BY <1>1, <1>3, <1>4, <1>6
  <2>2. Count(Append(s, y), x) = Cardinality(B) /\ Count(s, x) = Cardinality(A)
    BY DEF Count
  <2> HIDE DEF A, B
  <2>3. QED BY <2>1, <2>2, <1>2, <1>6
<1>7. QED BY <1>5, <1>6

LEMMA SetAppend ==
    ASSUME NEW S, NEW s \in Seq(S), NEW y \in S
    PROVE  /\ ToSet(Append(s, y)) = ToSet(s) \cup {y}
           /\ ToSet(s) \subseteq S
           /\ IsInjective(s) /\ y \notin ToSet(s) => IsInjective(Append(s, y))
<1>1. DOMAIN s = 1..Len(s) /\ DOMAIN Append(s, y) = 1..Len(s)+1 /\ Len(s) \in Nat
  OBVIOUS
<1>2. \A i \in 1..Len(s) : Append(s, y)[i] = s[i] /\ s[i] \in S
  OBVIOUS
<1>3. Append(s, y)[Len(s)+1] = y
  OBVIOUS
<1>4. QED BY <1>1, <1>2, <1>3 DEF ToSet, IsInjective

\* Where the entry that RemoveFirst takes was, and what is left of the list.
LEMMA RemoveFirstShifts ==
    ASSUME NEW S, NEW s \in Seq(S), NEW e \in ToSet(s)
    PROVE  \E i \in 1..Len(s) :
             /\ s[i] = e
             /\ RemoveFirst(s, e) \in Seq(S)
             /\ Len(RemoveFirst(s, e)) = Len(s) - 1
             /\ \A j \in 1..Len(s)-1 :
                   RemoveFirst(s, e)[j] = IF j < i THEN s[j] ELSE s[j + 1]
<1> DEFINE I == {i \in 1..Len(s) : s[i] = e}
           k == Min(I)
<1>1. I \in SUBSET Nat /\ I # {} /\ Len(s) \in Nat
  BY DEF ToSet
<1>2. k \in I
  <2>1. PICK n \in I : \A m \in I : n <= m
    BY <1>1, LeastNumber
  <2>2. QED BY <2>1 DEF Min
<1>3. \E i \in 1..Len(s) : s[i] = e
  BY <1>1
<1>4. RemoveFirst(s, e) = SubSeq(s, 1, k-1) \o SubSeq(s, k+1, Len(s))
  BY <1>3, <1>1 DEF RemoveFirst, RemoveAt, SelectInSeq
<1> HIDE DEF k
<1>5. k \in 1..Len(s) /\ s[k] = e
  BY <1>2
<1> DEFINE a == SubSeq(s, 1, k-1)
           b == SubSeq(s, k+1, Len(s))
<1>6. /\ a \in Seq(S) /\ Len(a) = k - 1
      /\ \A j \in 1..k-1 : a[j] = s[j]
  BY <1>5
<1>7. /\ b \in Seq(S) /\ Len(b) = Len(s) - k
      /\ \A j \in 1..Len(s)-k : b[j] = s[k + j]
  BY <1>5
<1> HIDE DEF a, b
<1>8. /\ a \o b \in Seq(S) /\ Len(a \o b) = Len(s) - 1
      /\ \A j \in 1..Len(s)-1 : (a \o b)[j] = IF j < k THEN s[j] ELSE s[j + 1]
  <2>1. a \o b \in Seq(S) /\ Len(a \o b) = Len(s) - 1
    <3>1. a \o b \in Seq(S) /\ Len(a \o b) = Len(a) + Len(b)
      BY <1>6, <1>7, ConcatProperties
    <3>2. QED BY <3>1, <1>5, <1>6, <1>7
  <2>2. ASSUME NEW j \in 1..Len(s)-1
        PROVE  (a \o b)[j] = IF j < k THEN s[j] ELSE s[j + 1]
    <3>1. (a \o b)[j] = IF j <= Len(a) THEN a[j] ELSE b[j - Len(a)]
      BY <1>5, <1>6, <1>7, ConcatProperties
    <3>2. CASE j < k
      BY <3>1, <3>2, <1>5, <1>6
    <3>3. CASE ~(j < k)
      <4>1. j - (k - 1) \in 1..Len(s)-k /\ k + (j - (k - 1)) = j + 1
        BY <3>3, <1>5, <1>1
      <4>2. b[j - (k - 1)] = s[j + 1]
        BY <4>1, <1>7
      <4>3. QED BY <3>1, <3>3, <4>2, <1>5, <1>6
    <3>4. QED BY <3>2, <3>3
  <2>3. QED BY <2>1, <2>2
<1>9. RemoveFirst(s, e) = a \o b
  BY <1>4 DEF a, b
<1>10. QED BY <1>5, <1>8, <1>9

LEMMA SetRemoveFirst ==
    ASSUME NEW S, NEW s \in Seq(S), NEW e \in ToSet(s), IsInjective(s)
    PROVE  /\ RemoveFirst(s, e) \in Seq(S)
           /\ ToSet(RemoveFirst(s, e)) = ToSet(s) \ {e}
           /\ IsInjective(RemoveFirst(s, e))
<1> DEFINE r == RemoveFirst(s, e)
<1>1. PICK i \in 1..Len(s) :
             /\ s[i] = e
             /\ r \in Seq(S)
             /\ Len(r) = Len(s) - 1
             /\ \A j \in 1..Len(s)-1 : r[j] = IF j < i THEN s[j] ELSE s[j + 1]
  BY RemoveFirstShifts
<1> HIDE DEF r
<1>2. DOMAIN s = 1..Len(s) /\ DOMAIN r = 1..Len(s)-1 /\ Len(s) \in Nat
  BY <1>1
<1>3. \A j, k \in DOMAIN s : s[j] = s[k] => j = k
  BY DEF IsInjective
<1>4. ToSet(r) \subseteq ToSet(s) \ {e}
  <2>1. ASSUME NEW j \in DOMAIN r PROVE r[j] \in ToSet(s) \ {e}
    <3>1. CASE j < i
      BY <3>1, <1>1, <1>2, <1>3, SMTT(30) DEF ToSet
    <3>2. CASE ~(j < i)
      <4>1. j + 1 \in DOMAIN s /\ r[j] = s[j+1] /\ j + 1 # i
        BY <3>2, <1>1, <1>2
      <4>2. QED BY <4>1, <1>1, <1>2, <1>3 DEF ToSet
    <3>3. QED BY <3>1, <3>2
  <2>2. QED BY <2>1 DEF ToSet
<1>5. ToSet(s) \ {e} \subseteq ToSet(r)
  <2>1. ASSUME NEW j \in DOMAIN s, s[j] # e PROVE s[j] \in ToSet(r)
    <3>1. CASE j < i
      <4>1. j \in DOMAIN r /\ r[j] = s[j]
        BY <3>1, <1>1, <1>2
      <4>2. QED BY <4>1 DEF ToSet
    <3>2. CASE ~(j < i)
      <4>1. j - 1 \in DOMAIN r /\ r[j-1] = s[j]
        BY <3>2, <2>1, <1>1, <1>2
      <4>2. QED BY <4>1 DEF ToSet
    <3>3. QED BY <3>1, <3>2
  <2>2. QED BY <2>1 DEF ToSet
<1>6. IsInjective(r)
  <2>1. ASSUME NEW j \in DOMAIN r, NEW k \in DOMAIN r, r[j] = r[k] PROVE j = k
    <3>1. j \in Int /\ k \in Int /\ j \in DOMAIN s /\ k \in DOMAIN s /\ j+1 \in DOMAIN s /\ k+1 \in DOMAIN s
      BY <1>2
    <3>2. QED BY <2>1, <3>1, <1>1, <1>2, <1>3, SMTT(30)
  <2>2. QED BY <2>1 DEF IsInjective
<1>7. QED BY <1>1, <1>4, <1>5, <1>6 DEF r

LEMMA CountRemoveFirst ==
    ASSUME NEW S, NEW s \in Seq(S), NEW e \in ToSet(s), NEW x
    PROVE  /\ RemoveFirst(s, e) \in Seq(S)
           /\ ToSet(RemoveFirst(s, e)) \subseteq ToSet(s)
           /\ Count(RemoveFirst(s, e), x) = Count(s, x) - IF x = e THEN 1 ELSE 0
<1> DEFINE r == RemoveFirst(s, e)
<1>1. PICK i \in 1..Len(s) :
             /\ s[i] = e
             /\ r \in Seq(S)
             /\ Len(r) = Len(s) - 1
             /\ \A j \in 1..Len(s)-1 : r[j] = IF j < i THEN s[j] ELSE s[j + 1]
  BY RemoveFirstShifts
<1> HIDE DEF r
<1>2. DOMAIN s = 1..Len(s) /\ DOMAIN r = 1..Len(s)-1 /\ Len(s) \in Nat
  BY <1>1
<1> DEFINE A == {j \in DOMAIN s : s[j] = x}
           B == {j \in DOMAIN r : r[j] = x}
           f == [j \in B |-> IF j < i THEN j ELSE j + 1]
<1>3. IsFiniteSet(A) /\ Cardinality(A) \in Nat /\ IsFiniteSet(B)
  <2>1. IsFiniteSet(B)
    <3>1. IsFiniteSet(1..Len(s)) /\ B \in SUBSET (1..Len(s))
      BY <1>2, FS_Interval, SMTT(30)
    <3>2. QED BY <3>1, FS_Subset
  <2>2. IsFiniteSet(A)
    BY CountIsNatural
  <2>3. QED BY <2>1, <2>2, FS_CardinalityType
<1>4. \A j \in B : f[j] \in A \ {i}
  BY <1>1, <1>2
<1>5. \A j, k \in B : f[j] = f[k] => j = k
  BY <1>2
<1>6. \A k \in A \ {i} : \E j \in B : f[j] = k
  <2>1. ASSUME NEW k \in A \ {i} PROVE \E j \in B : f[j] = k
    <3>1. CASE k < i
      <4>1. k \in B
        BY <3>1, <1>1, <1>2
      <4>2. QED BY <3>1, <4>1
    <3>2. CASE ~(k < i)
      <4>1. k - 1 \in B /\ ~(k - 1 < i) /\ (k - 1) + 1 = k
        BY <3>2, <1>1, <1>2
      <4>2. QED BY <4>1
    <3>3. QED BY <3>1, <3>2
  <2>2. QED BY <2>1
<1>7. f \in Bijection(B, A \ {i})
  <2>1. f \in [B -> A \ {i}]
    BY <1>4
  <2>2. QED BY <2>1, <1>5, <1>6 DEF Bijection, Injection, Surjection, IsInjective
<1>8. Cardinality(B) = Cardinality(A \ {i})
  BY <1>3, <1>7, FS_Bijection DEF ExistsBijection
<1>9. Cardinality(A \ {i}) = IF x = e THEN Cardinality(A) - 1 ELSE Cardinality(A)
  <2>1. i \in A <=> x = e
    BY <1>1, <1>2
  <2>2. QED BY <2>1, <1>3, FS_RemoveElement
<1>10. Count(r, x) = Count(s, x) - IF x = e THEN 1 ELSE 0
  BY <1>3, <1>8, <1>9 DEF Count
<1>11. ToSet(r) \subseteq ToSet(s)
  BY <1>1, <1>2 DEF ToSet
<1>12. QED BY <1>1, <1>10, <1>11 DEF r
-----------------------------------------------------------------------------
(* Graphs that wires make.                                                 *)

Node == [Inputs : Seq(Nat), Outputs : Seq(Nat), IsTerminal : BOOLEAN]
AnyGraph == UNION {[D -> Node] : D \in SUBSET Nat}

\* A wire is in the lists of both of its ends, as often as it was made.
Paired(g) == \A m, n \in DOMAIN g :
                Count(g[m].Outputs, n) = Count(g[n].Inputs, m)
\* Nobody is fed by, or feeds, a device that has no node.
Contained(g) == \A n \in DOMAIN g : /\ ToSet(g[n].Inputs) \subseteq DOMAIN g
                                    /\ ToSet(g[n].Outputs) \subseteq DOMAIN g
Used(g) == \A n \in DOMAIN g : g[n].Inputs # << >> \/ g[n].Outputs # << >>
WellFormed(g) == /\ g \in AnyGraph /\ IsFiniteSet(DOMAIN g)
                 /\ Paired(g) /\ Contained(g) /\ Used(g)

LEMMA GraphTypes ==
    ASSUME NEW g \in AnyGraph
    PROVE  /\ DOMAIN g \in SUBSET Nat
           /\ g \in [DOMAIN g -> Node]
           /\ \A n \in DOMAIN g : g[n].Inputs \in Seq(Nat) /\ g[n].Outputs \in Seq(Nat)
                                  /\ g[n].IsTerminal \in BOOLEAN
BY DEF AnyGraph, Node

\* A list of numbers from a set is a list of members of the set.
LEMMA SeqOfMembers ==
    ASSUME NEW S, NEW R, NEW s \in Seq(S), ToSet(s) \subseteq R
    PROVE  s \in Seq(R)
<1>1. DOMAIN s = 1..Len(s) /\ Len(s) \in Nat /\ s = [i \in 1..Len(s) |-> s[i]]
  OBVIOUS
<1>2. \A i \in 1..Len(s) : s[i] \in R
  BY <1>1 DEF ToSet
<1>3. s \in [1..Len(s) -> R]
  BY <1>1, <1>2
<1>4. QED BY <1>1, <1>3, SeqDef

\* Who feeds whom is the same in both lists.
LEMMA BothLists ==
    ASSUME NEW g, WellFormed(g), NEW m \in DOMAIN g, NEW n \in DOMAIN g
    PROVE  m \in ToSet(g[n].Inputs) <=> n \in ToSet(g[m].Outputs)
<1>1. g[n].Inputs \in Seq(Nat) /\ g[m].Outputs \in Seq(Nat)
  BY GraphTypes DEF WellFormed
<1>2. Count(g[n].Inputs, m) = 0 <=> m \notin ToSet(g[n].Inputs)
  BY <1>1, CountIsNatural
<1>3. Count(g[m].Outputs, n) = 0 <=> n \notin ToSet(g[m].Outputs)
  BY <1>1, CountIsNatural
<1>4. Count(g[m].Outputs, n) = Count(g[n].Inputs, m)
  BY DEF WellFormed, Paired
<1>5. QED BY <1>2, <1>3, <1>4

-----------------------------------------------------------------------------
(* What a device feeds.                                                    *)

LEMMA FedClosed ==
    ASSUME NEW g, WellFormed(g), NEW n \in DOMAIN g
    PROVE  /\ Fed(g, n) \subseteq DOMAIN g
           /\ ToSet(g[n].Outputs) \subseteq Fed(g, n)
           /\ Closed(g, Fed(g, n))
<1>1. Fed(g, n) \subseteq DOMAIN g /\ ToSet(g[n].Outputs) \subseteq Fed(g, n)
  BY DEF Fed, WellFormed, Contained
<1>2. ASSUME NEW m \in Fed(g, n), NEW k \in ToSet(g[m].Outputs) PROVE k \in Fed(g, n)
  <2>1. k \in DOMAIN g
    BY <1>1 DEF WellFormed, Contained
  <2>2. ASSUME NEW S \in SUBSET DOMAIN g, ToSet(g[n].Outputs) \subseteq S, Closed(g, S)
        PROVE  k \in S
    <3>1. m \in S
      BY <2>2 DEF Fed
    <3>2. QED BY <2>2, <3>1 DEF Closed
  <2>3. QED BY <2>1, <2>2 DEF Fed
<1>3. QED BY <1>1, <1>2 DEF Closed

LEMMA FedLeast ==
    ASSUME NEW g, NEW n, NEW S \in SUBSET DOMAIN g,
           ToSet(g[n].Outputs) \subseteq S, Closed(g, S)
    PROVE  Fed(g, n) \subseteq S
BY DEF Fed

\* What a device feeds, feeds nothing that the device does not.
LEMMA FedShrinks ==
    ASSUME NEW g, WellFormed(g), NEW n \in DOMAIN g, NEW m \in Fed(g, n)
    PROVE  Fed(g, m) \subseteq Fed(g, n)
<1>1. Fed(g, n) \in SUBSET DOMAIN g /\ Closed(g, Fed(g, n)) /\ m \in DOMAIN g
  BY FedClosed
<1>2. ToSet(g[m].Outputs) \subseteq Fed(g, n)
  BY <1>1 DEF Closed
<1>3. QED BY <1>1, <1>2, FedLeast

\* A device that feeds a device that is heard is heard.
LEMMA HeardThrough ==
    ASSUME NEW g, WellFormed(g), NEW m \in DOMAIN g, NEW n \in Heard(g),
           n \in ToSet(g[m].Outputs)
    PROVE  m \in Heard(g)
<1>1. n \in DOMAIN g /\ n \in Fed(g, m)
  BY FedClosed DEF Heard
<1>2. Fed(g, n) \subseteq Fed(g, m)
  BY <1>1, FedShrinks
<1>3. QED BY <1>1, <1>2 DEF Heard

\* A set that has the exits, and with a device those that feed it, has all that
\* is heard.
LEMMA HeardIsLeast ==
    ASSUME NEW g, WellFormed(g), NEW S \in SUBSET DOMAIN g, Exits(g) \subseteq S,
           \A n \in S : ToSet(g[n].Inputs) \subseteq S
    PROVE  Heard(g) \subseteq S
<1> DEFINE R == DOMAIN g \ S
<1>1. Closed(g, R)
  <2>1. ASSUME NEW n \in R, NEW m \in ToSet(g[n].Outputs) PROVE m \in R
    <3>1. m \in DOMAIN g
      BY DEF WellFormed, Contained
    <3>2. n \in ToSet(g[m].Inputs)
      BY <3>1, BothLists
    <3>3. QED BY <3>1, <3>2
  <2>2. QED BY <2>1 DEF Closed
<1>2. ASSUME NEW n \in R PROVE n \notin Heard(g)
  <2>1. ToSet(g[n].Outputs) \subseteq R
    BY <1>1 DEF Closed
  <2>2. Fed(g, n) \subseteq R
    BY <1>1, <2>1, FedLeast
  <2>3. QED BY <2>2 DEF Heard
<1>3. QED BY <1>2 DEF Heard

\* A device that feeds no loop: what it feeds does not either.
LEMMA NoCyclePassesOn ==
    ASSUME NEW g, WellFormed(g), NEW n \in DOMAIN g, FeedsNoCycle(g, n), NEW m \in Fed(g, n)
    PROVE  FeedsNoCycle(g, m) /\ m \in DOMAIN g /\ Fed(g, m) \subseteq Fed(g, n)
<1>1. Fed(g, m) \subseteq Fed(g, n) /\ m \in DOMAIN g
  BY FedShrinks, FedClosed
<1>2. QED BY <1>1 DEF FeedsNoCycle

\* In a set of devices that feed no loop, one feeds none of the others.
LEMMA SomeoneIsLast ==
    ASSUME NEW g, WellFormed(g), NEW S \in SUBSET DOMAIN g, S # {},
           \A n \in S : FeedsNoCycle(g, n)
    PROVE  \E n \in S : Fed(g, n) \cap S = {}
<1> DEFINE T == {Fed(g, n) : n \in S}
<1>1. T \in SUBSET FiniteSubsetsOf(DOMAIN g) /\ T # {}
  <2>1. FiniteSubsetsOf(DOMAIN g) = SUBSET DOMAIN g
    BY FS_FiniteSubsetsOfFinite DEF WellFormed
  <2>2. QED BY <2>1, FedClosed
<1>2. PICK x \in T : \A y \in T : ~(<<y, x>> \in StrictSubsetOrdering(DOMAIN g))
  <2>1. IsWellFoundedOn(StrictSubsetOrdering(DOMAIN g), FiniteSubsetsOf(DOMAIN g))
    BY FS_StrictSubsetOrderingWellFounded
  <2>2. QED BY <1>1, <2>1, WFMin
<1>3. PICK n \in S : x = Fed(g, n)
  BY <1>2
<1>4. ASSUME NEW m \in S, m \in Fed(g, n) PROVE FALSE
  <2>1. Fed(g, m) \subseteq Fed(g, n) /\ Fed(g, n) \subseteq DOMAIN g
    BY <1>4, NoCyclePassesOn, FedClosed
  <2>2. m \notin Fed(g, m)
    BY DEF FeedsNoCycle, OnCycle
  <2>3. <<Fed(g, m), Fed(g, n)>> \in StrictSubsetOrdering(DOMAIN g)
    BY <2>1, <2>2, <1>4 DEF StrictSubsetOrdering
  <2>4. QED BY <2>3, <1>2, <1>3
<1>5. QED BY <1>4

-----------------------------------------------------------------------------
(* The steps of TestSort.                                                  *)

\* The map is walked in the order of the IDs, each once.
LEMMA InOrderLists ==
    ASSUME NEW S \in SUBSET Nat, IsFiniteSet(S)
    PROVE  /\ InOrder(S) \in Seq(S)
           /\ IsInjective(InOrder(S))
           /\ ToSet(InOrder(S)) = S
<1> DEFINE below(x) == {m \in S : m < x}
           n == Cardinality(S)
           r == [x \in S |-> Cardinality(below(x)) + 1]
<1>1. n \in Nat
  BY FS_CardinalityType
<1>2. ASSUME NEW x \in S
      PROVE  IsFiniteSet(below(x)) /\ Cardinality(below(x)) \in Nat /\ Cardinality(below(x)) < n
  <2>1. below(x) \in SUBSET S /\ below(x) # S
    OBVIOUS
  <2>2. IsFiniteSet(below(x)) /\ Cardinality(below(x)) <= n /\ (n = Cardinality(below(x)) => S = below(x))
    BY <2>1, FS_Subset
  <2>3. Cardinality(below(x)) \in Nat
    BY <2>2, FS_CardinalityType
  <2>4. QED BY <1>1, <2>1, <2>2, <2>3
<1>3. ASSUME NEW x \in S, NEW y \in S, x < y
      PROVE  Cardinality(below(x)) < Cardinality(below(y))
  <2>1. below(x) \in SUBSET below(y) /\ x \in below(y) /\ x \notin below(x)
    <3>1. \A m \in S : m < x => m < y
      BY <1>3
    <3>2. ~(x < x)
      OBVIOUS
    <3>3. QED BY <3>1, <3>2, <1>3
  <2>2. Cardinality(below(x)) <= Cardinality(below(y))
        /\ (Cardinality(below(y)) = Cardinality(below(x)) => below(y) = below(x))
    BY <2>1, <1>2, FS_Subset
  <2>3. QED BY <2>1, <2>2, <1>2
<1>4. r \in Injection(S, 1..n)
  <2>1. r \in [S -> 1..n]
    BY <1>1, <1>2
  <2>2. ASSUME NEW x \in S, NEW y \in S, r[x] = r[y] PROVE x = y
    <3> HIDE DEF below
    <3>1. Cardinality(below(x)) = Cardinality(below(y))
      BY <2>2, <1>2
    <3>2. ~(x < y) /\ ~(y < x)
      BY <3>1, <1>2, <1>3
    <3>3. QED BY <3>2
  <2>3. QED BY <2>1, <2>2 DEF Injection, IsInjective
<1>5. r \in Surjection(S, 1..n)
  <2>1. IsFiniteSet(1..n) /\ Cardinality(1..n) = n
    BY <1>1, FS_Interval
  <2>2. QED BY <2>1, <1>4, FS_Injection
<1> DEFINE At(k, x) == Cardinality(below(x)) = k - 1
<1>6. ASSUME NEW k \in 1..n PROVE \E x \in S : At(k, x)
  <2>1. PICK x \in S : r[x] = k
    BY <1>5 DEF Surjection
  <2>2. QED BY <2>1, <1>2
<1>7. ASSUME NEW k \in 1..n, NEW x \in S, NEW y \in S, At(k, x), At(k, y) PROVE x = y
  <2> HIDE DEF below
  <2>1. ~(x < y) /\ ~(y < x)
    BY <1>7, <1>2, <1>3
  <2>2. QED BY <2>1
<1> DEFINE q == [k \in 1..n |-> CHOOSE x \in S : At(k, x)]
<1>8. InOrder(S) = q
  BY DEF InOrder
<1>9. ASSUME NEW k \in 1..n PROVE q[k] \in S /\ At(k, q[k])
  <2> HIDE DEF At
  <2>1. QED BY <1>6
<1>10. q \in Seq(S)
  <2>1. q \in [1..n -> S]
    BY <1>9
  <2>2. QED BY <2>1, <1>1, SeqDef
<1>11. DOMAIN q = 1..n
  OBVIOUS
<1> HIDE DEF q
<1>12. IsInjective(q)
  <2>1. ASSUME NEW j \in 1..n, NEW k \in 1..n, q[j] = q[k] PROVE j = k
    <3>1. j - 1 = k - 1
      BY <2>1, <1>9
    <3>2. QED BY <3>1
  <2>2. QED BY <2>1, <1>11 DEF IsInjective
<1>13. ToSet(q) = S
  <2>1. ASSUME NEW x \in S PROVE \E k \in 1..n : q[k] = x
    <3> DEFINE k == r[x]
    <3>1. k \in 1..n /\ At(k, x)
      BY <1>1, <1>2
    <3>2. q[k] = x
      BY <3>1, <1>7, <1>9
    <3>3. QED BY <3>1, <3>2
  <2>2. QED BY <2>1, <1>9, <1>11 DEF ToSet
<1>14. QED BY <1>8, <1>10, <1>12, <1>13

SortState(N) == [candidates : Seq(N), sorted : Seq(N), UnsatisfiedOutputs : [N -> Int]]

\* Each device is a candidate, or sorted, or neither, and once in its list.
Distinct(s) == /\ IsInjective(s.candidates) /\ IsInjective(s.sorted)
               /\ ToSet(s.candidates) \cap ToSet(s.sorted) = {}

LEMMA FeedStep ==
    ASSUME NEW N, NEW s \in SortState(N), NEW m \in N
    PROVE  /\ Feed(s, m) \in SortState(N)
           /\ Feed(s, m).sorted = s.sorted
           /\ Feed(s, m).UnsatisfiedOutputs =
                 [s.UnsatisfiedOutputs EXCEPT ![m] = s.UnsatisfiedOutputs[m] - 1]
           /\ ToSet(Feed(s, m).candidates) =
                 ToSet(s.candidates) \cup ({m} \ ToSet(s.sorted))
           /\ Distinct(s) => Distinct(Feed(s, m))
<1>1. s.candidates \in Seq(N) /\ s.sorted \in Seq(N) /\ s.UnsatisfiedOutputs \in [N -> Int]
  BY DEF SortState
<1>2. Contains(s.candidates, m) <=> m \in ToSet(s.candidates)
  BY <1>1 DEF Contains, ToSet
<1>3. Contains(s.sorted, m) <=> m \in ToSet(s.sorted)
  BY <1>1 DEF Contains, ToSet
<1>4. /\ Promoted(s, m) \in Seq(N)
      /\ ToSet(Promoted(s, m)) = ToSet(s.candidates) \cup ({m} \ ToSet(s.sorted))
      /\ IsInjective(s.candidates) => IsInjective(Promoted(s, m))
  <2>1. CASE m \in ToSet(s.candidates) \/ m \in ToSet(s.sorted)
    BY <2>1, <1>1, <1>2, <1>3 DEF Promoted
  <2>2. CASE ~(m \in ToSet(s.candidates) \/ m \in ToSet(s.sorted))
    <3>1. Promoted(s, m) = Append(s.candidates, m)
      BY <2>2, <1>2, <1>3 DEF Promoted
    <3>2. QED BY <2>2, <3>1, <1>1, SetAppend
  <2>3. QED BY <2>1, <2>2
<1>5. Feed(s, m) = [candidates |-> Promoted(s, m), sorted |-> s.sorted,
                    UnsatisfiedOutputs |-> [s.UnsatisfiedOutputs EXCEPT ![m] = s.UnsatisfiedOutputs[m] - 1]]
  <2>1. s = [candidates |-> s.candidates, sorted |-> s.sorted,
             UnsatisfiedOutputs |-> s.UnsatisfiedOutputs]
    BY DEF SortState
  <2> DEFINE q == Promoted(s, m)
             u == [s.UnsatisfiedOutputs EXCEPT ![m] = s.UnsatisfiedOutputs[m] - 1]
  <2>2. Feed(s, m) = [[s EXCEPT !.UnsatisfiedOutputs = u] EXCEPT !.candidates = q]
    BY <2>1 DEF Feed
  <2> HIDE DEF q, u
  <2> DEFINE t == [s EXCEPT !.UnsatisfiedOutputs = u]
  <2>3. t = [candidates |-> s.candidates, sorted |-> s.sorted, UnsatisfiedOutputs |-> u]
    BY <2>1
  <2> HIDE DEF t
  <2>4. [t EXCEPT !.candidates = q]
        = [candidates |-> q, sorted |-> s.sorted, UnsatisfiedOutputs |-> u]
    BY <2>3
  <2>5. QED BY <2>2, <2>4 DEF q, u, t
<1>6. [s.UnsatisfiedOutputs EXCEPT ![m] = s.UnsatisfiedOutputs[m] - 1] \in [N -> Int]
  BY <1>1
<1>7. Feed(s, m) \in SortState(N)
  BY <1>1, <1>4, <1>5, <1>6 DEF SortState
<1>8. Distinct(s) => Distinct(Feed(s, m))
  BY <1>4, <1>5 DEF Distinct
<1>9. QED BY <1>4, <1>5, <1>7, <1>8

\* What the inner loop of a turn makes of s.
AllFed(s, list) == FoldLeft(Feed, s, list)

LEMMA FeedUnfolds ==
    ASSUME NEW N, NEW b \in SortState(N), NEW s \in Seq(N)
    PROVE  \E p : /\ p[0] = b
                  /\ \A i \in 1..Len(s) : p[i] = Feed(p[i - 1], s[i])
                  /\ AllFed(b, s) = p[Len(s)]
<1> DEFINE T == SortState(N)
           F == [x \in T \X N |-> Feed(x[1], x[2])]
           Eq(f) == f = [t \in SUBSET DOMAIN s |->
                          IF t = {} THEN b ELSE Feed(f[t \ {Max(t)}], s[Max(t)])]
           c == CHOOSE f : Eq(f)
<1>1. AllFed(b, s) = c[DOMAIN s]
  BY DEF AllFed, FoldLeft, MapThenFoldSet
<1>2. DOMAIN s = 1..Len(s) /\ Len(s) \in Nat /\ \A i \in 1..Len(s) : s[i] \in N
  OBVIOUS
<1>3. F \in [T \X N -> T]
  BY FeedStep
<1>4. \E h : Eq(h)
  <2> HIDE DEF F, T
  <2>1. PICK h : Solves(h, Len(s), T, F, b, s)
    BY <1>3, FoldSolution DEF T
  <2>2. ASSUME NEW t \in SUBSET (1..Len(s)), t # {}
        PROVE  F[<<h[t \ {Max(t)}], s[Max(t)]>>] = Feed(h[t \ {Max(t)}], s[Max(t)])
    <3>1. h[t \ {Max(t)}] \in T
      BY <2>1 DEF Solves
    <3>2. Max(t) \in t
      BY <2>2, <1>2, MaxIsMember
    <3>3. s[Max(t)] \in N
      BY <3>2, <1>2
    <3>4. QED BY <3>1, <3>3 DEF F
  <2>3. Eq(h)
    BY <2>1, <2>2, <1>2 DEF Solves
  <2>4. QED BY <2>3
<1>5. Eq(c)
  <2> HIDE DEF Eq
  <2>1. QED BY <1>4
<1> DEFINE p == [i \in 0..Len(s) |-> c[1..i]]
<1> HIDE DEF c
<1>6. c[{}] = b
  BY <1>5
<1>7. ASSUME NEW i \in 1..Len(s) PROVE c[1..i] = Feed(c[1..(i-1)], s[i])
  <2>1. 1..i \in SUBSET DOMAIN s /\ 1..i # {} /\ Max(1..i) = i /\ (1..i) \ {i} = 1..(i-1)
    BY <1>2, PrefixTable
  <2>2. QED BY <1>5, <2>1
<1>8. p[0] = b /\ \A i \in 1..Len(s) : p[i] = Feed(p[i - 1], s[i])
  BY <1>2, <1>6, <1>7
<1>9. p[Len(s)] = c[DOMAIN s]
  BY <1>2
<1>10. QED BY <1>1, <1>8, <1>9

\* The wires into a device that has just been sorted, all of them.
LEMMA FeedAll ==
    ASSUME NEW N, NEW b \in SortState(N), NEW list \in Seq(N), Distinct(b),
           NEW r, r = AllFed(b, list)
    PROVE  /\ r \in SortState(N) /\ Distinct(r)
           /\ r.sorted = b.sorted
           /\ ToSet(r.candidates) = ToSet(b.candidates) \cup (ToSet(list) \ ToSet(b.sorted))
           /\ \A m \in N : r.UnsatisfiedOutputs[m] = b.UnsatisfiedOutputs[m] - Count(list, m)
<1> DEFINE at(i, m) == {j \in 1..i : list[j] = m}
           seen(i) == {list[j] : j \in 1..i}
           Done(i, s) ==
               /\ s \in SortState(N) /\ Distinct(s)
               /\ s.sorted = b.sorted
               /\ ToSet(s.candidates) = ToSet(b.candidates) \cup (seen(i) \ ToSet(b.sorted))
               /\ \A m \in N : s.UnsatisfiedOutputs[m] =
                                 b.UnsatisfiedOutputs[m] - Cardinality(at(i, m))
<1>1. PICK p : /\ p[0] = b
               /\ \A i \in 1..Len(list) : p[i] = Feed(p[i - 1], list[i])
               /\ AllFed(b, list) = p[Len(list)]
  BY FeedUnfolds
<1>2. DOMAIN list = 1..Len(list) /\ Len(list) \in Nat /\ \A i \in 1..Len(list) : list[i] \in N
  OBVIOUS
<1>3. \A i \in Nat : \A m : IsFiniteSet(at(i, m)) /\ Cardinality(at(i, m)) \in Nat
  <2>1. ASSUME NEW i \in Nat, NEW m PROVE IsFiniteSet(at(i, m)) /\ Cardinality(at(i, m)) \in Nat
    <3>1. IsFiniteSet(1..i) /\ at(i, m) \in SUBSET (1..i)
      BY FS_Interval
    <3>2. QED BY <3>1, FS_Subset, FS_CardinalityType
  <2>2. QED BY <2>1
<1> DEFINE Good == {i \in Nat : i <= Len(list) => Done(i, p[i])}
<1>4. 0 \in Good
  <2>1. seen(0) = {} /\ \A m : at(0, m) = {}
    OBVIOUS
  <2>2. \A m : Cardinality(at(0, m)) = 0
    BY <2>1, FS_EmptySet
  <2>3. \A m \in N : b.UnsatisfiedOutputs[m] \in Int
    BY DEF SortState
  <2> HIDE DEF at, seen
  <2>4. \A m \in N : b.UnsatisfiedOutputs[m] = b.UnsatisfiedOutputs[m] - Cardinality(at(0, m))
    BY <2>2, <2>3
  <2>5. Done(0, b)
    BY <2>1, <2>4
  <2>6. QED BY <2>5, <1>1
<1>5. ASSUME NEW i \in Nat, i \in Good PROVE i + 1 \in Good
  <2>1. SUFFICES ASSUME i + 1 <= Len(list) PROVE Done(i + 1, p[i + 1])
    OBVIOUS
  <2> DEFINE s == p[i]
             x == list[i + 1]
             t == p[i + 1]
  <2>2. Done(i, s)
    BY <1>5, <2>1, <1>2
  <2>3. x \in N /\ t = Feed(s, x)
    BY <2>1, <1>1, <1>2
  <2> HIDE DEF s, x, t
  <2>4. /\ t \in SortState(N) /\ Distinct(t) /\ t.sorted = s.sorted
        /\ t.UnsatisfiedOutputs = [s.UnsatisfiedOutputs EXCEPT ![x] = s.UnsatisfiedOutputs[x] - 1]
        /\ ToSet(t.candidates) = ToSet(s.candidates) \cup ({x} \ ToSet(s.sorted))
    <3>1. s \in SortState(N) /\ Distinct(s)
      BY <2>2
    <3> HIDE DEF Done, at, seen, Good
    <3>2. x \in N
      BY <2>3
    <3>3. /\ Feed(s, x) \in SortState(N)
          /\ Feed(s, x).sorted = s.sorted
          /\ Feed(s, x).UnsatisfiedOutputs =
                [s.UnsatisfiedOutputs EXCEPT ![x] = s.UnsatisfiedOutputs[x] - 1]
          /\ ToSet(Feed(s, x).candidates) = ToSet(s.candidates) \cup ({x} \ ToSet(s.sorted))
          /\ Distinct(s) => Distinct(Feed(s, x))
      BY <3>1, <3>2, FeedStep, Zenon
    <3>4. QED BY <3>1, <2>3, <3>3
  <2>5. seen(i + 1) = seen(i) \cup {x}
    BY <2>1, <1>2 DEF x
  <2>6. ToSet(t.candidates) = ToSet(b.candidates) \cup (seen(i + 1) \ ToSet(b.sorted))
    <3> HIDE DEF seen
    <3>1. QED BY <2>2, <2>4, <2>5
  <2>7. ASSUME NEW m \in N
        PROVE  t.UnsatisfiedOutputs[m] = b.UnsatisfiedOutputs[m] - Cardinality(at(i + 1, m))
    <3>1. s.UnsatisfiedOutputs \in [N -> Int] /\ b.UnsatisfiedOutputs \in [N -> Int]
      BY <2>2 DEF SortState
    <3>2. s.UnsatisfiedOutputs[m] = b.UnsatisfiedOutputs[m] - Cardinality(at(i, m))
      BY <2>2
    <3>3. Cardinality(at(i, m)) \in Nat /\ IsFiniteSet(at(i, m))
      BY <1>3
    <3>4. CASE m = x
      <4>1. at(i + 1, m) = at(i, m) \cup {i + 1} /\ i + 1 \notin at(i, m)
        BY <3>4 DEF x
      <4> HIDE DEF at
      <4>2. Cardinality(at(i + 1, m)) = Cardinality(at(i, m)) + 1
        BY <4>1, <3>3, FS_AddElement
      <4>3. t.UnsatisfiedOutputs[m] = s.UnsatisfiedOutputs[m] - 1
        BY <2>4, <3>1, <3>4
      <4>4. s.UnsatisfiedOutputs[m] \in Int /\ b.UnsatisfiedOutputs[m] \in Int
        BY <3>1
      <4>5. QED BY <4>2, <4>3, <4>4, <3>2, <3>3
    <3>5. CASE m # x
      <4>1. at(i + 1, m) = at(i, m)
        BY <3>5 DEF x
      <4> HIDE DEF at
      <4>2. t.UnsatisfiedOutputs[m] = s.UnsatisfiedOutputs[m]
        BY <2>4, <3>1, <3>5
      <4>3. QED BY <4>1, <4>2, <3>2
    <3>6. QED BY <3>4, <3>5
  <2>8. t.sorted = b.sorted
    BY <2>2, <2>4
  <2> HIDE DEF at, seen
  <2>9. Done(i + 1, t)
    BY <2>4, <2>6, <2>7, <2>8
  <2>10. QED BY <2>9 DEF t
<1>6. Nat \subseteq Good
  <2> HIDE DEF Good
  <2>1. QED BY <1>4, <1>5, SetInduction
<1>7. Done(Len(list), r)
  BY <1>1, <1>2, <1>6
<1>8. seen(Len(list)) = ToSet(list)
  BY <1>2 DEF ToSet
<1>9. \A m : at(Len(list), m) = {j \in DOMAIN list : list[j] = m}
  BY <1>2
<1>10. \A m \in N : r.UnsatisfiedOutputs[m] = b.UnsatisfiedOutputs[m] - Count(list, m)
  <2> HIDE DEF at, seen
  <2>1. \A m : Cardinality(at(Len(list), m)) = Count(list, m)
    BY <1>9 DEF Count
  <2>2. QED BY <1>7, <2>1
<1> HIDE DEF at, seen
<1>11. QED BY <1>7, <1>8, <1>10

LEMMA PickIsCandidate ==
    ASSUME NEW N, NEW s \in SortState(N), s.candidates # << >>
    PROVE  /\ Pick(s) \in ToSet(s.candidates) /\ Pick(s) \in N
           /\ Ideal(s) # {} => s.UnsatisfiedOutputs[Pick(s)] = 0
<1>1. s.candidates \in Seq(N)
  BY DEF SortState
<1>2. DOMAIN s.candidates = 1..Len(s.candidates) /\ Len(s.candidates) \in Nat /\ 1 \in DOMAIN s.candidates
      /\ \A i \in DOMAIN s.candidates : s.candidates[i] \in N
  BY <1>1
<1>3. CASE Ideal(s) = {}
  BY <1>2, <1>3 DEF Pick, ToSet
<1>4. CASE Ideal(s) # {}
  <2>1. Ideal(s) \in SUBSET Nat
    BY <1>2 DEF Ideal
  <2>2. PICK k \in Ideal(s) : \A j \in Ideal(s) : k <= j
    BY <2>1, <1>4, LeastNumber
  <2> DEFINE c == CHOOSE i \in Ideal(s) : \A j \in Ideal(s) : i <= j
  <2>3. c \in Ideal(s)
    BY <2>2
  <2>4. Pick(s) = s.candidates[c]
    BY <1>4 DEF Pick
  <2> HIDE DEF c
  <2>5. c \in DOMAIN s.candidates /\ s.UnsatisfiedOutputs[s.candidates[c]] = 0
    BY <2>3 DEF Ideal
  <2>6. QED BY <2>4, <2>5, <1>2 DEF ToSet
<1>5. QED BY <1>3, <1>4

\* One turn: the device that is picked leaves the candidates for the list, and
\* the devices that feed it are candidates, unless they are sorted.
LEMMA Turn ==
    ASSUME NEW g, WellFormed(g), NEW s \in SortState(DOMAIN g), Distinct(s),
           s.candidates # << >>, NEW p, p = Pick(s), NEW r, r = SortOne(g, s)
    PROVE  /\ r \in SortState(DOMAIN g) /\ Distinct(r)
           /\ p \in ToSet(s.candidates) /\ p \in DOMAIN g /\ p \notin ToSet(s.sorted)
           /\ r.sorted = Append(s.sorted, p)
           /\ ToSet(r.sorted) = ToSet(s.sorted) \cup {p}
           /\ ToSet(r.candidates) = (ToSet(s.candidates) \ {p})
                                    \cup (ToSet(g[p].Inputs) \ ToSet(r.sorted))
           /\ \A m \in DOMAIN g : r.UnsatisfiedOutputs[m] =
                 s.UnsatisfiedOutputs[m] - Count(g[p].Inputs, m)
<1> DEFINE N == DOMAIN g
           c == RemoveFirst(s.candidates, p)
           d == Append(s.sorted, p)
           b == [candidates |-> c, sorted |-> d, UnsatisfiedOutputs |-> s.UnsatisfiedOutputs]
<1>1. p \in ToSet(s.candidates) /\ p \in N
  BY PickIsCandidate
<1>2. p \notin ToSet(s.sorted) /\ IsInjective(s.candidates) /\ IsInjective(s.sorted)
  BY <1>1 DEF Distinct
<1>3. s.candidates \in Seq(N) /\ s.sorted \in Seq(N) /\ s.UnsatisfiedOutputs \in [N -> Int]
  BY DEF SortState
<1>4. c \in Seq(N) /\ ToSet(c) = ToSet(s.candidates) \ {p} /\ IsInjective(c)
  BY <1>1, <1>2, <1>3, SetRemoveFirst
<1>5. d \in Seq(N) /\ ToSet(d) = ToSet(s.sorted) \cup {p} /\ IsInjective(d)
  BY <1>1, <1>2, <1>3, SetAppend
<1>6. [s EXCEPT !.candidates = RemoveFirst(@, Pick(s)), !.sorted = Append(@, Pick(s))] = b
  <2>1. s = [candidates |-> s.candidates, sorted |-> s.sorted,
             UnsatisfiedOutputs |-> s.UnsatisfiedOutputs]
    BY DEF SortState
  <2>2. [s EXCEPT !.candidates = RemoveFirst(@, Pick(s)), !.sorted = Append(@, Pick(s))]
        = [[s EXCEPT !.candidates = c] EXCEPT !.sorted = d]
    BY <2>1
  <2> HIDE DEF c, d
  <2> DEFINE t == [s EXCEPT !.candidates = c]
  <2>3. t = [candidates |-> c, sorted |-> s.sorted, UnsatisfiedOutputs |-> s.UnsatisfiedOutputs]
    BY <2>1
  <2> HIDE DEF t
  <2>4. [t EXCEPT !.sorted = d] = b
    BY <2>3
  <2>5. QED BY <2>2, <2>4 DEF t
<1> HIDE DEF c, d
<1>7. b \in SortState(N) /\ Distinct(b)
  <2>1. b \in SortState(N)
    BY <1>3, <1>4, <1>5 DEF SortState
  <2>2. Distinct(b)
    BY <1>2, <1>4, <1>5 DEF Distinct
  <2>3. QED BY <2>1, <2>2
<1>8. g[p].Inputs \in Seq(N)
  <2>1. g[p].Inputs \in Seq(Nat) /\ ToSet(g[p].Inputs) \subseteq N
    BY <1>1, GraphTypes DEF WellFormed, Contained
  <2>2. QED BY <2>1, SeqOfMembers
<1>9. r = AllFed(b, g[p].Inputs)
  BY <1>6 DEF SortOne, AllFed
<1>10. b.candidates = c /\ b.sorted = d /\ b.UnsatisfiedOutputs = s.UnsatisfiedOutputs
  OBVIOUS
<1> HIDE DEF b
<1>11. /\ r \in SortState(N) /\ Distinct(r) /\ r.sorted = d
       /\ ToSet(r.candidates) = ToSet(c) \cup (ToSet(g[p].Inputs) \ ToSet(d))
       /\ \A m \in N : r.UnsatisfiedOutputs[m] = s.UnsatisfiedOutputs[m] - Count(g[p].Inputs, m)
  <2> HIDE DEF N
  <2>1. /\ r \in SortState(N) /\ Distinct(r) /\ r.sorted = b.sorted
        /\ ToSet(r.candidates) = ToSet(b.candidates) \cup (ToSet(g[p].Inputs) \ ToSet(b.sorted))
        /\ \A m \in N : r.UnsatisfiedOutputs[m] =
              b.UnsatisfiedOutputs[m] - Count(g[p].Inputs, m)
    <3> DEFINE l == g[p].Inputs
    <3>1. l \in Seq(N) /\ r = AllFed(b, l)
      BY <1>8, <1>9
    <3> HIDE DEF l
    <3> DEFINE z == AllFed(b, l)
    <3>2. /\ z \in SortState(N) /\ Distinct(z)
          /\ z.sorted = b.sorted
          /\ ToSet(z.candidates) = ToSet(b.candidates) \cup (ToSet(l) \ ToSet(b.sorted))
          /\ \A m \in N : z.UnsatisfiedOutputs[m] = b.UnsatisfiedOutputs[m] - Count(l, m)
      BY <1>7, <3>1, FeedAll, SMTT(30)
    <3> HIDE DEF z
    <3>3. r = z
      BY <3>1 DEF z
    <3>4. QED BY <3>2, <3>3 DEF l
  <2>2. QED BY <2>1, <1>10
<1>12. QED BY <1>1, <1>2, <1>4, <1>5, <1>11 DEF d

-----------------------------------------------------------------------------
(* What holds after any number of turns.                                   *)

\* The devices that the sort has come to.
Reached(s) == ToSet(s.candidates) \cup ToSet(s.sorted)

\* How many wires lead from m to a device outside of D.
Pending(g, D, m) ==
    Cardinality({i \in DOMAIN g[m].Outputs : g[m].Outputs[i] \notin D})

Behind(list, m, n) == \E i, j \in DOMAIN list :
                         i < j /\ list[i] = m /\ list[j] = n

\* The sort has come to the exits and to all that feeds what it has sorted, and
\* to nothing that is not heard; it counts the wires to devices that are not
\* sorted; and the sorted devices stand behind those they feed.
Turned(g, s) ==
    /\ s \in SortState(DOMAIN g) /\ Distinct(s)
    /\ Exits(g) \subseteq Reached(s)
    /\ \A n \in ToSet(s.sorted) : ToSet(g[n].Inputs) \subseteq Reached(s)
    /\ Reached(s) \subseteq Heard(g)
    /\ \A m \in DOMAIN g : s.UnsatisfiedOutputs[m] = Pending(g, ToSet(s.sorted), m)
    /\ \A n \in ToSet(s.sorted) : FeedsNoCycle(g, n) =>
          \A m \in ToSet(g[n].Outputs) : Behind(s.sorted, m, n)

LEMMA PendingIsNatural ==
    ASSUME NEW g, WellFormed(g), NEW m \in DOMAIN g, NEW D
    PROVE  /\ IsFiniteSet({i \in DOMAIN g[m].Outputs : g[m].Outputs[i] \notin D})
           /\ Pending(g, D, m) \in Nat
           /\ Pending(g, D, m) = 0 <=> ToSet(g[m].Outputs) \subseteq D
<1> DEFINE A == {i \in DOMAIN g[m].Outputs : g[m].Outputs[i] \notin D}
<1>1. g[m].Outputs \in Seq(Nat)
  BY GraphTypes DEF WellFormed
<1>2. IsFiniteSet(A)
  <2>1. Len(g[m].Outputs) \in Nat /\ DOMAIN g[m].Outputs = 1..Len(g[m].Outputs)
    BY <1>1
  <2>2. A \in SUBSET (1..Len(g[m].Outputs))
    BY <2>1
  <2>3. IsFiniteSet(1..Len(g[m].Outputs))
    BY ONLY <2>1, FS_Interval
  <2>4. QED BY ONLY <2>2, <2>3, FS_Subset
<1>3. Cardinality(A) \in Nat /\ (Cardinality(A) = 0 <=> A = {})
  BY <1>2, FS_CardinalityType, FS_EmptySet
<1>4. A = {} <=> ToSet(g[m].Outputs) \subseteq D
  BY DEF ToSet
<1>5. Pending(g, D, m) = Cardinality(A)
  BY DEF Pending
<1> HIDE DEF A
<1>6. Pending(g, D, m) = 0 <=> ToSet(g[m].Outputs) \subseteq D
  BY <1>3, <1>4, <1>5
<1>7. QED BY <1>2, <1>3, <1>5, <1>6 DEF A

\* Sorting p satisfies the wires from m to p.
LEMMA PendingDrops ==
    ASSUME NEW g, WellFormed(g), NEW m \in DOMAIN g, NEW p \in DOMAIN g,
           NEW D, p \notin D
    PROVE  Pending(g, D \cup {p}, m) = Pending(g, D, m) - Count(g[p].Inputs, m)
<1> DEFINE A == {i \in DOMAIN g[m].Outputs : g[m].Outputs[i] \notin D}
           B == {i \in DOMAIN g[m].Outputs : g[m].Outputs[i] \notin D \cup {p}}
           C == {i \in DOMAIN g[m].Outputs : g[m].Outputs[i] = p}
<1>1. g[m].Outputs \in Seq(Nat)
  BY GraphTypes DEF WellFormed
<1>2. IsFiniteSet(A) /\ IsFiniteSet(C)
  <2>1. IsFiniteSet(A)
    BY PendingIsNatural
  <2>2. IsFiniteSet(C)
    BY <1>1, CountIsNatural
  <2>3. QED BY <2>1, <2>2
<1>3. B = A \ C /\ A \cap C = C
  OBVIOUS
<1>4. Cardinality(A \ C) = Cardinality(A) - Cardinality(A \cap C)
  <2> HIDE DEF A, C
  <2>1. QED BY <1>2, FS_Difference
<1>5. Cardinality(C) = Count(g[p].Inputs, m)
  BY DEF WellFormed, Paired, Count
<1>6. Pending(g, D, m) = Cardinality(A) /\ Pending(g, D \cup {p}, m) = Cardinality(B)
  BY DEF Pending
<1> HIDE DEF A, B, C
<1>7. QED BY <1>3, <1>4, <1>5, <1>6

\* A device that feeds no loop is picked when all that it feeds is sorted: there
\* is an ideal candidate as long as such a device is among the candidates.
LEMMA PickIsReady ==
    ASSUME NEW g, WellFormed(g), NEW s, Turned(g, s), s.candidates # << >>,
           FeedsNoCycle(g, Pick(s))
    PROVE  ToSet(g[Pick(s)].Outputs) \subseteq ToSet(s.sorted)
<1> DEFINE p == Pick(s)
           D == ToSet(s.sorted)
<1>1. s \in SortState(DOMAIN g) /\ Distinct(s)
  BY DEF Turned
<1>2. p \in ToSet(s.candidates) /\ p \in DOMAIN g /\ p \notin D
  BY <1>1, PickIsCandidate DEF Distinct
<1>3. CASE Ideal(s) # {}
  <2>1. s.UnsatisfiedOutputs[p] = 0
    BY <1>1, <1>3, PickIsCandidate
  <2>2. Pending(g, D, p) = 0
    BY <2>1, <1>2 DEF Turned
  <2>3. QED BY <2>2, <1>2, PendingIsNatural
<1>4. CASE Ideal(s) = {}
  <2> HIDE DEF p, D
  <2> DEFINE R == (Fed(g, p) \cup {p}) \ D
  <2>1. R \in SUBSET DOMAIN g /\ R # {}
    BY <1>2, FedClosed
  <2>2. ASSUME NEW n \in R PROVE FeedsNoCycle(g, n) /\ Fed(g, n) \subseteq Fed(g, p)
    <3>1. FeedsNoCycle(g, p)
      BY DEF p
    <3>2. QED BY <3>1, <1>2, NoCyclePassesOn
  <2> HIDE DEF R
  <2>3. PICK q \in R : Fed(g, q) \cap R = {}
    BY ONLY WellFormed(g), <2>1, <2>2, SomeoneIsLast
  <2> USE DEF R
  <2>4. q \in DOMAIN g /\ q \notin D
    BY <2>1
  <2>5. ToSet(g[q].Outputs) \subseteq D
    <3>1. ToSet(g[q].Outputs) \subseteq Fed(g, q)
      BY <2>4, FedClosed
    <3>2. QED BY <3>1, <2>2, <2>3
  <2>6. q \in Reached(s)
    <3>1. CASE g[q].Outputs = << >>
      BY <3>1, <2>4 DEF Turned, Exits
    <3>2. CASE g[q].Outputs # << >>
      <4>1. g[q].Outputs \in Seq(Nat)
        BY <2>4, GraphTypes DEF WellFormed
      <4>2. 1 \in DOMAIN g[q].Outputs
        BY <4>1, <3>2
      <4>3. PICK m : m \in ToSet(g[q].Outputs)
        BY <4>2 DEF ToSet
      <4>4. m \in D /\ m \in DOMAIN g
        BY <4>3, <2>4, <2>5 DEF WellFormed, Contained
      <4>5. q \in ToSet(g[m].Inputs)
        BY <4>3, <4>4, <2>4, BothLists
      <4>6. QED BY <4>4, <4>5 DEF Turned, D
    <3>3. QED BY <3>1, <3>2
  <2>7. PICK i \in DOMAIN s.candidates : s.candidates[i] = q
    BY <2>4, <2>6 DEF Reached, ToSet, D
  <2>8. s.UnsatisfiedOutputs[q] = 0
    BY <2>4, <2>5, PendingIsNatural DEF Turned, D
  <2>9. i \in Ideal(s)
    BY <2>7, <2>8 DEF Ideal
  <2>10. QED BY <2>9, <1>4
<1>5. QED BY <1>3, <1>4

LEMMA StartIsTurned ==
    ASSUME NEW g, WellFormed(g)
    PROVE  Turned(g, Start(g)) /\ Start(g).sorted = << >>
<1> DEFINE N == DOMAIN g
           c == InOrder(Seeds(g))
           u == [n \in N |-> Len(g[n].Outputs)]
<1>1. Seeds(g) = Exits(g) /\ Exits(g) \subseteq N
  BY DEF Seeds, Exits
<1>2. c \in Seq(N) /\ IsInjective(c) /\ ToSet(c) = Exits(g)
  <2>1. N \in SUBSET Nat /\ IsFiniteSet(N)
    BY GraphTypes DEF WellFormed
  <2>2. Exits(g) \in SUBSET Nat /\ IsFiniteSet(Exits(g))
    BY <1>1, <2>1, FS_Subset
  <2>3. c \in Seq(Exits(g)) /\ IsInjective(c) /\ ToSet(c) = Exits(g)
    BY <1>1, <2>2, InOrderLists
  <2> HIDE DEF c
  <2>4. QED BY <2>3, <1>1, SeqOfMembers
<1>3. ASSUME NEW n \in N PROVE Len(g[n].Outputs) \in Nat /\ Len(g[n].Outputs) = Pending(g, {}, n)
  <2>1. g[n].Outputs \in Seq(Nat)
    BY GraphTypes DEF WellFormed
  <2>2. {i \in DOMAIN g[n].Outputs : g[n].Outputs[i] \notin {}} = 1..Len(g[n].Outputs)
    BY <2>1
  <2>3. Len(g[n].Outputs) \in Nat
    BY <2>1
  <2>4. Cardinality(1..Len(g[n].Outputs)) = Len(g[n].Outputs)
    BY <2>3, FS_Interval
  <2>5. QED BY <2>2, <2>3, <2>4 DEF Pending
<1>4. Start(g) = [candidates |-> c, sorted |-> << >>, UnsatisfiedOutputs |-> u]
  BY DEF Start
<1>5. u \in [N -> Int]
  BY <1>3
<1> HIDE DEF c, u
<1>6. /\ Start(g).candidates = c /\ Start(g).sorted = << >>
      /\ Start(g).UnsatisfiedOutputs = u
  BY <1>4
<1>7. ToSet(<< >>) = {} /\ IsInjective(<< >>)
  BY DEF ToSet, IsInjective
<1>8. Start(g) \in SortState(N)
  BY <1>2, <1>4, <1>5 DEF SortState
<1>9. Distinct(Start(g))
  BY <1>2, <1>6, <1>7 DEF Distinct
<1>10. Reached(Start(g)) = Exits(g) /\ Exits(g) \subseteq Heard(g)
  BY <1>2, <1>6, <1>7 DEF Reached, Heard, Exits
<1>11. \A m \in N : u[m] = Pending(g, {}, m)
  BY <1>3 DEF u
<1>12. QED BY <1>6, <1>7, <1>8, <1>9, <1>10, <1>11 DEF Turned

\* A turn with a candidate sorts one more device and keeps what holds.
LEMMA TurnKeeps ==
    ASSUME NEW g, WellFormed(g), NEW s, Turned(g, s), s.candidates # << >>
    PROVE  /\ Turned(g, SortOne(g, s))
           /\ Len(SortOne(g, s).sorted) = Len(s.sorted) + 1
<1> DEFINE N == DOMAIN g
           p == Pick(s)
           r == SortOne(g, s)
           D == ToSet(s.sorted)
<1>1. s \in SortState(N) /\ Distinct(s)
  BY DEF Turned
<1>2. /\ r \in SortState(N) /\ Distinct(r)
      /\ p \in ToSet(s.candidates) /\ p \in N /\ p \notin D
      /\ r.sorted = Append(s.sorted, p)
      /\ ToSet(r.sorted) = D \cup {p}
      /\ ToSet(r.candidates) = (ToSet(s.candidates) \ {p})
                               \cup (ToSet(g[p].Inputs) \ ToSet(r.sorted))
      /\ \A m \in N : r.UnsatisfiedOutputs[m] =
            s.UnsatisfiedOutputs[m] - Count(g[p].Inputs, m)
  BY <1>1, Turn, SMTT(30)
<1> HIDE DEF r
<1>3. s.sorted \in Seq(N)
  BY <1>1 DEF SortState
<1>4. Len(r.sorted) = Len(s.sorted) + 1
  BY <1>2, <1>3
<1>5. Reached(r) = Reached(s) \cup ToSet(g[p].Inputs)
  BY <1>2 DEF Reached
<1>6. Exits(g) \subseteq Reached(r)
  BY <1>5 DEF Turned
<1>7. \A n \in ToSet(r.sorted) : ToSet(g[n].Inputs) \subseteq Reached(r)
  BY <1>2, <1>5 DEF Turned
<1>8. Reached(r) \subseteq Heard(g)
  <2>1. p \in Heard(g)
    BY <1>2 DEF Turned, Reached
  <2>2. ASSUME NEW m \in ToSet(g[p].Inputs) PROVE m \in Heard(g)
    <3>1. m \in N
      BY <1>2 DEF WellFormed, Contained
    <3>2. p \in ToSet(g[m].Outputs)
      BY <3>1, <1>2, BothLists
    <3>3. QED BY <2>1, <3>1, <3>2, HeardThrough
  <2>3. QED BY <2>2, <1>5 DEF Turned
<1>9. ASSUME NEW m \in N PROVE r.UnsatisfiedOutputs[m] = Pending(g, ToSet(r.sorted), m)
  <2>1. s.UnsatisfiedOutputs[m] = Pending(g, D, m)
    BY DEF Turned
  <2>2. Pending(g, D \cup {p}, m) = Pending(g, D, m) - Count(g[p].Inputs, m)
    BY <1>2, PendingDrops
  <2>3. QED BY <2>1, <2>2, <1>2
<1>10. ASSUME NEW n \in ToSet(r.sorted), FeedsNoCycle(g, n), NEW m \in ToSet(g[n].Outputs)
       PROVE  Behind(r.sorted, m, n)
  <2>1. /\ DOMAIN s.sorted = 1..Len(s.sorted) /\ Len(s.sorted) \in Nat
        /\ DOMAIN r.sorted = 1..Len(s.sorted)+1
        /\ \A i \in DOMAIN s.sorted : r.sorted[i] = s.sorted[i]
        /\ r.sorted[Len(s.sorted)+1] = p
    BY <1>2, <1>3
  <2>2. CASE n \in D
    <3>1. Behind(s.sorted, m, n)
      BY <2>2, <1>10 DEF Turned
    <3>2. QED BY <3>1, <2>1 DEF Behind
  <2>3. CASE n = p
    <3>1. m \in D
      BY <2>3, <1>10, PickIsReady
    <3>2. PICK i \in DOMAIN s.sorted : s.sorted[i] = m
      BY <3>1 DEF ToSet
    <3>3. QED BY <2>1, <2>3, <3>2 DEF Behind
  <2>4. QED BY <2>2, <2>3, <1>2
<1>11. Turned(g, r)
  BY <1>2, <1>6, <1>7, <1>8, <1>9, <1>10 DEF Turned
<1>12. QED BY <1>4, <1>11 DEF r
-----------------------------------------------------------------------------
(* All the turns, and what the list holds after them.                      *)

\* The loop of TestSort, turn by turn.
LEMMA TurnsUnfold ==
    ASSUME NEW g, WellFormed(g), NEW k \in Nat
    PROVE  \E q : /\ q[0] = Start(g)
                  /\ \A i \in 1..k : q[i] = SortOne(g, q[i - 1])
                  /\ AfterTurns(g, k) = q[k]
<1> DEFINE T == {s \in SortState(DOMAIN g) : Turned(g, s)}
           b == Start(g)
           l == [i \in 1..k |-> i]
           F == [x \in T \X Nat |-> SortOne(g, x[1])]
           Eq(f) == f = [t \in SUBSET DOMAIN l |->
                          IF t = {} THEN b ELSE SortOne(g, f[t \ {Max(t)}])]
           c == CHOOSE f : Eq(f)
<1>1. AfterTurns(g, k) = c[DOMAIN l]
  BY DEF AfterTurns, FoldLeft, MapThenFoldSet
<1>2. DOMAIN l = 1..k /\ l \in Seq(Nat) /\ Len(l) = k
  <2>1. l \in [1..k -> Nat]
    OBVIOUS
  <2>2. QED BY <2>1
<1>3. F \in [T \X Nat -> T] /\ b \in T
  <2>1. ASSUME NEW s \in T PROVE SortOne(g, s) \in T
    <3>1. CASE s.candidates = << >>
      BY <3>1 DEF SortOne
    <3>2. CASE s.candidates # << >>
      BY <3>2, TurnKeeps DEF Turned
    <3>3. QED BY <3>1, <3>2
  <2>2. b \in T
    BY StartIsTurned DEF Turned
  <2> HIDE DEF T, b
  <2>3. F \in [T \X Nat -> T]
    BY <2>1
  <2>4. QED BY <2>2, <2>3
<1> HIDE DEF l
<1>4. \E h : Eq(h)
  <2> HIDE DEF F, T, b
  <2>1. PICK h : Solves(h, Len(l), T, F, b, l)
    BY <1>2, <1>3, FoldSolution
  <2>2. ASSUME NEW t \in SUBSET (1..k), t # {}
        PROVE  F[<<h[t \ {Max(t)}], l[Max(t)]>>] = SortOne(g, h[t \ {Max(t)}])
    <3>1. h[t \ {Max(t)}] \in T
      BY <2>1, <1>2 DEF Solves
    <3>2. Max(t) \in t
      BY <2>2, MaxIsMember
    <3>3. l[Max(t)] \in Nat
      <4>1. Max(t) \in 1..Len(l)
        BY <3>2, <1>2
      <4>2. QED BY <4>1, <1>2
    <3>4. QED BY <3>1, <3>3 DEF F
  <2>3. Eq(h)
    BY <2>1, <2>2, <1>2 DEF Solves
  <2>4. QED BY <2>3
<1>5. Eq(c)
  <2> HIDE DEF Eq
  <2>1. QED BY <1>4
<1> DEFINE q == [i \in 0..k |-> c[1..i]]
<1> HIDE DEF c
<1>6. c[{}] = b
  BY <1>5
<1>7. ASSUME NEW i \in 1..k PROVE c[1..i] = SortOne(g, c[1..(i-1)])
  <2>1. 1..i \in SUBSET DOMAIN l /\ 1..i # {} /\ Max(1..i) = i /\ (1..i) \ {i} = 1..(i-1)
    BY <1>2, PrefixTable
  <2>2. QED BY <1>5, <2>1
<1>8. q[0] = b /\ \A i \in 1..k : q[i] = SortOne(g, q[i - 1])
  BY <1>6, <1>7
<1>9. q[k] = c[DOMAIN l]
  BY <1>2
<1>10. QED BY <1>1, <1>8, <1>9

\* A list of all the members of a set, each once, has them all.
LEMMA FullList ==
    ASSUME NEW S, IsFiniteSet(S), NEW s \in Seq(S), IsInjective(s),
           Len(s) = Cardinality(S)
    PROVE  ToSet(s) = S
<1>1. DOMAIN s = 1..Len(s) /\ Len(s) \in Nat /\ s \in [1..Len(s) -> S]
  OBVIOUS
<1>2. s \in Injection(1..Len(s), S)
  BY <1>1 DEF Injection, IsInjective
<1>3. IsFiniteSet(1..Len(s)) /\ Cardinality(1..Len(s)) = Len(s)
  BY <1>1, FS_Interval
<1>4. s \in Surjection(1..Len(s), S)
  BY <1>2, <1>3, FS_Injection
<1>5. QED BY <1>1, <1>4 DEF Surjection, ToSet

\* The loop turns once per node and that is enough: it ends without candidates.
LEMMA NoCandidateLeft ==
    ASSUME NEW g, WellFormed(g), NEW s, s = AfterTurns(g, Cardinality(DOMAIN g))
    PROVE  Turned(g, s) /\ s.candidates = << >>
<1> DEFINE N == DOMAIN g
           k == Cardinality(N)
<1>1. k \in Nat /\ IsFiniteSet(N)
  BY FS_CardinalityType DEF WellFormed
<1>2. PICK q : /\ q[0] = Start(g)
               /\ \A i \in 1..k : q[i] = SortOne(g, q[i - 1])
               /\ AfterTurns(g, k) = q[k]
  BY <1>1, TurnsUnfold
<1> HIDE DEF k
<1> DEFINE Done(i) == /\ Turned(g, q[i])
                      /\ Len(q[i].sorted) = i \/ q[i].candidates = << >>
           Good == {i \in Nat : i <= k => Done(i)}
<1>3. 0 \in Good
  <2>1. Turned(g, Start(g)) /\ Start(g).sorted = << >>
    BY StartIsTurned
  <2>2. QED BY <1>2, <2>1
<1>4. ASSUME NEW i \in Nat, i \in Good PROVE i + 1 \in Good
  <2>1. SUFFICES ASSUME i + 1 <= k PROVE Done(i + 1)
    OBVIOUS
  <2>2. Done(i)
    BY <1>1, <1>4, <2>1
  <2>3. q[i + 1] = SortOne(g, q[i])
    BY <1>1, <1>2, <2>1
  <2>4. CASE q[i].candidates = << >>
    BY <2>2, <2>3, <2>4 DEF SortOne
  <2>5. CASE q[i].candidates # << >>
    <3>1. Turned(g, q[i]) /\ Len(q[i].sorted) = i
      BY <2>2, <2>5
    <3>2. Turned(g, SortOne(g, q[i])) /\ Len(SortOne(g, q[i]).sorted) = Len(q[i].sorted) + 1
      BY <3>1, <2>5, TurnKeeps
    <3>3. QED BY <3>1, <3>2, <2>3
  <2>6. QED BY <2>4, <2>5
<1>5. Nat \subseteq Good
  <2> HIDE DEF Good
  <2>1. QED BY <1>3, <1>4, SetInduction
<1>6. Turned(g, s) /\ (Len(s.sorted) = k \/ s.candidates = << >>)
  BY <1>1, <1>2, <1>5 DEF k
<1>7. CASE Len(s.sorted) = k
  <2>1. s \in SortState(N) /\ Distinct(s)
    BY <1>6 DEF Turned
  <2>2. s.sorted \in Seq(N) /\ s.candidates \in Seq(N) /\ IsInjective(s.sorted)
    BY <2>1 DEF SortState, Distinct
  <2>3. ToSet(s.sorted) = N
    BY <2>2, <1>1, <1>7, FullList DEF k
  <2>4. ToSet(s.candidates) = {}
    <3>1. ToSet(s.candidates) \subseteq N
      BY <2>2 DEF ToSet
    <3>2. QED BY <3>1, <2>1, <2>3 DEF Distinct
  <2>5. s.candidates = << >>
    <3>1. SUFFICES ASSUME s.candidates # << >> PROVE FALSE
      OBVIOUS
    <3>2. 1 \in DOMAIN s.candidates
      BY <2>2, <3>1
    <3>3. QED BY <3>2, <2>4 DEF ToSet
  <2>6. QED BY <1>6, <2>5
<1>8. QED BY <1>6, <1>7

LEMMA NoCycleIsHeard ==
    ASSUME NEW g, WellFormed(g), NEW n \in DOMAIN g, FeedsNoCycle(g, n)
    PROVE  n \in Heard(g)
<1> DEFINE R == Fed(g, n) \cup {n}
<1>1. R \in SUBSET DOMAIN g /\ R # {}
  BY FedClosed
<1>2. \A m \in R : FeedsNoCycle(g, m) /\ Fed(g, m) \subseteq Fed(g, n)
  BY NoCyclePassesOn
<1>3. PICK q \in R : Fed(g, q) \cap R = {}
  BY <1>1, <1>2, SomeoneIsLast
<1>4. ToSet(g[q].Outputs) \subseteq Fed(g, q) /\ q \in DOMAIN g
  BY <1>1, FedClosed
<1>5. ToSet(g[q].Outputs) = {}
  BY <1>2, <1>3, <1>4
<1>6. g[q].Outputs = << >>
  <2>1. g[q].Outputs \in Seq(Nat)
    BY <1>4, GraphTypes DEF WellFormed
  <2>2. SUFFICES ASSUME g[q].Outputs # << >> PROVE FALSE
    OBVIOUS
  <2>3. 1 \in DOMAIN g[q].Outputs
    BY <2>1, <2>2
  <2>4. QED BY <2>3, <1>5 DEF ToSet
<1>7. q \in Exits(g)
  BY <1>4, <1>6 DEF Exits
<1>8. QED BY <1>7, <1>3 DEF Heard

\* What the list of a graph is: all that is heard, once, and a device that
\* feeds no loop behind all that it feeds.
IsSorting(g, list) ==
    /\ IsInjective(list)
    /\ ToSet(list) = Heard(g)
    /\ \A n \in DOMAIN g : FeedsNoCycle(g, n) =>
          \A m \in ToSet(g[n].Outputs) : Behind(list, m, n)

\* TestSort makes such a list of every graph, loops or not.
THEOREM TestSortSorts ==
    ASSUME NEW g, WellFormed(g)
    PROVE  IsSorting(g, TestSort(g))
<1> DEFINE s == AfterTurns(g, Cardinality(DOMAIN g))
           list == TestSort(g)
<1>1. Turned(g, s) /\ s.candidates = << >>
  BY NoCandidateLeft
<1>2. list = s.sorted
  BY DEF TestSort
<1> HIDE DEF s, list
<1>3. s \in SortState(DOMAIN g) /\ Distinct(s)
  BY <1>1 DEF Turned
<1>4. list \in Seq(DOMAIN g) /\ IsInjective(list)
  BY <1>2, <1>3 DEF SortState, Distinct
<1>5. Reached(s) = ToSet(list) /\ ToSet(list) \in SUBSET DOMAIN g
  BY <1>1, <1>2, <1>4 DEF Reached, ToSet
<1>6. ToSet(list) = Heard(g)
  <2>1. Exits(g) \subseteq ToSet(list) /\ ToSet(list) \subseteq Heard(g)
        /\ \A n \in ToSet(list) : ToSet(g[n].Inputs) \subseteq ToSet(list)
    BY <1>1, <1>2, <1>5 DEF Turned
  <2>2. QED BY <2>1, <1>5, HeardIsLeast
<1>7. ASSUME NEW n \in DOMAIN g, FeedsNoCycle(g, n), NEW m \in ToSet(g[n].Outputs)
      PROVE  Behind(list, m, n)
  <2>1. n \in ToSet(list)
    BY <1>6, <1>7, NoCycleIsHeard
  <2>2. QED BY <2>1, <1>1, <1>2, <1>7 DEF Turned
<1>8. QED BY <1>4, <1>6, <1>7 DEF IsSorting, list
-----------------------------------------------------------------------------
(* What an operation does to the lists.                                    *)

\* How many wires lead from m to n.
Wired(g, m, n) == IF n \in DOMAIN g THEN Count(g[n].Inputs, m) ELSE 0

\* A graph whose nodes may have lost their last wire.
Consistent(g) == g \in AnyGraph /\ IsFiniteSet(DOMAIN g) /\ Paired(g) /\ Contained(g)

\* h is g with other lists at two nodes.
Edited(g, h, a, outputs, d, inputs) ==
    /\ DOMAIN h = DOMAIN g
    /\ \A n \in DOMAIN g : /\ h[n] \in Node
                           /\ h[n].Outputs = IF n = a THEN outputs ELSE g[n].Outputs
                           /\ h[n].Inputs = IF n = d THEN inputs ELSE g[n].Inputs
                           /\ h[n].IsTerminal = g[n].IsTerminal

EditOf(g, a, outputs, d, inputs) ==
    [g EXCEPT ![a].Outputs = outputs, ![d].Inputs = inputs]

LEMMA EditsOf ==
    ASSUME NEW g \in AnyGraph, NEW a \in DOMAIN g, NEW d \in DOMAIN g,
           NEW outputs \in Seq(Nat), NEW inputs \in Seq(Nat)
    PROVE  /\ EditOf(g, a, outputs, d, inputs) \in [DOMAIN g -> Node]
           /\ Edited(g, EditOf(g, a, outputs, d, inputs), a, outputs, d, inputs)
<1>1. g \in [DOMAIN g -> Node]
  BY GraphTypes
<1> DEFINE v == [g[a] EXCEPT !.Outputs = outputs]
           e == [g EXCEPT ![a] = v]
           w == [e[d] EXCEPT !.Inputs = inputs]
           h == EditOf(g, a, outputs, d, inputs)
<1>2. h = [e EXCEPT ![d] = w]
  BY DEF EditOf
<1> HIDE DEF h
<1>3. v \in Node /\ v.Outputs = outputs /\ v.Inputs = g[a].Inputs /\ v.IsTerminal = g[a].IsTerminal
  BY <1>1 DEF Node
<1> HIDE DEF v
<1>4. e \in [DOMAIN g -> Node] /\ e[a] = v /\ \A n \in DOMAIN g : n # a => e[n] = g[n]
  BY <1>1, <1>3
<1> HIDE DEF e
<1>5. w \in Node /\ w.Inputs = inputs /\ w.Outputs = e[d].Outputs /\ w.IsTerminal = e[d].IsTerminal
  BY <1>4 DEF Node
<1> HIDE DEF w
<1>6. h \in [DOMAIN g -> Node] /\ h[d] = w /\ \A n \in DOMAIN g : n # d => h[n] = e[n]
  BY <1>2, <1>4, <1>5
<1>7. ASSUME NEW n \in DOMAIN g
      PROVE  /\ h[n] \in Node
             /\ h[n].Outputs = IF n = a THEN outputs ELSE g[n].Outputs
             /\ h[n].Inputs = IF n = d THEN inputs ELSE g[n].Inputs
             /\ h[n].IsTerminal = g[n].IsTerminal
  <2>1. e[n].Outputs = (IF n = a THEN outputs ELSE g[n].Outputs)
        /\ e[n].Inputs = g[n].Inputs /\ e[n].IsTerminal = g[n].IsTerminal
    BY <1>3, <1>4
  <2>2. CASE n = d
    <3>1. h[n] = w /\ e[n] = e[d]
      BY <2>2, <1>6
    <3>2. h[n].Outputs = e[n].Outputs /\ h[n].IsTerminal = e[n].IsTerminal
      BY <3>1, <1>5
    <3>3. h[n] \in Node /\ h[n].Inputs = inputs
      BY <3>1, <1>5
    <3>4. QED BY <2>1, <2>2, <3>2, <3>3
  <2>3. CASE n # d
    BY <2>1, <2>3, <1>4, <1>6
  <2>4. QED BY <2>2, <2>3
<1>8. QED BY <1>6, <1>7 DEF Edited, h

\* The nodes that AddConnection makes.
LEMMA NodesMade ==
    ASSUME NEW g, WellFormed(g), NEW a \in Nat, NEW d \in Nat,
           NEW ta \in BOOLEAN, NEW td \in BOOLEAN,
           NEW h, h = WithNode(WithNode(g, a, ta), d, td)
    PROVE  /\ Consistent(h) /\ DOMAIN h = DOMAIN g \cup {a, d}
           /\ \A n \in DOMAIN g : h[n] = g[n]
           /\ \A m, n : Wired(h, m, n) = Wired(g, m, n)
<1>1. g \in [DOMAIN g -> Node] /\ DOMAIN g \in SUBSET Nat /\ IsFiniteSet(DOMAIN g)
  BY GraphTypes DEF WellFormed
<1>2. /\ DOMAIN h = DOMAIN g \cup {a, d}
      /\ h = [n \in DOMAIN h |-> IF n \in DOMAIN g THEN g[n]
                                 ELSE IF n = a THEN NewNode(ta) ELSE NewNode(td)]
  BY <1>1 DEF WithNode
<1>3. NewNode(ta) \in Node /\ NewNode(td) \in Node
  BY DEF NewNode, Node
<1>4. h \in [DOMAIN h -> Node]
  BY <1>1, <1>2, <1>3
<1>5. DOMAIN h \in SUBSET Nat /\ IsFiniteSet(DOMAIN h)
  <2>1. IsFiniteSet(DOMAIN g \cup {a})
    BY <1>1, FS_AddElement
  <2>2. IsFiniteSet((DOMAIN g \cup {a}) \cup {d})
    BY <2>1, FS_AddElement
  <2>3. DOMAIN h = (DOMAIN g \cup {a}) \cup {d}
    BY <1>2
  <2>4. QED BY <1>1, <1>2, <2>2, <2>3
<1>6. \A n \in DOMAIN g : h[n] = g[n]
  BY <1>2
<1>7. \A n \in DOMAIN h \ DOMAIN g : h[n].Inputs = << >> /\ h[n].Outputs = << >>
  BY <1>2 DEF NewNode
<1>8. \A x : Count(<< >>, x) = 0 /\ ToSet(<< >>) = {}
  <2>1. << >> \in Seq(Nat) /\ ToSet(<< >>) = {}
    BY DEF ToSet
  <2>2. QED BY <2>1, CountIsNatural
<1>9. ASSUME NEW m \in DOMAIN h, NEW n \in DOMAIN h
      PROVE  Count(h[m].Outputs, n) = Count(h[n].Inputs, m)
  <2>1. CASE m \in DOMAIN g /\ n \in DOMAIN g
    BY <2>1, <1>6 DEF WellFormed, Paired
  <2>2. CASE m \in DOMAIN g /\ n \notin DOMAIN g
    <3>1. n \notin ToSet(g[m].Outputs) /\ g[m].Outputs \in Seq(Nat)
      BY <2>2, GraphTypes DEF WellFormed, Contained
    <3>2. Count(g[m].Outputs, n) = 0
      BY <3>1, CountIsNatural
    <3>3. QED BY <2>2, <3>2, <1>6, <1>7, <1>8
  <2>3. CASE m \notin DOMAIN g /\ n \in DOMAIN g
    <3>1. m \notin ToSet(g[n].Inputs) /\ g[n].Inputs \in Seq(Nat)
      BY <2>3, GraphTypes DEF WellFormed, Contained
    <3>2. Count(g[n].Inputs, m) = 0
      BY <3>1, CountIsNatural
    <3>3. QED BY <2>3, <3>2, <1>6, <1>7, <1>8
  <2>4. CASE m \notin DOMAIN g /\ n \notin DOMAIN g
    BY <2>4, <1>7, <1>8
  <2>5. QED BY <2>1, <2>2, <2>3, <2>4
<1>10. Contained(h)
  BY <1>2, <1>6, <1>7, <1>8 DEF WellFormed, Contained
<1>11. ASSUME NEW m, NEW n PROVE Wired(h, m, n) = Wired(g, m, n)
  BY <1>2, <1>6, <1>7, <1>8 DEF Wired
<1>12. Consistent(h)
  BY <1>4, <1>5, <1>9, <1>10 DEF Consistent, AnyGraph, Paired
<1>13. QED BY <1>2, <1>6, <1>11, <1>12

\* r has one wire more than g, from a to d.
OneMore(g, r, a, d) ==
    \A m, n : Wired(r, m, n) = Wired(g, m, n) + IF m = a /\ n = d THEN 1 ELSE 0

\* A wire is added.
LEMMA AddedKeeps ==
    ASSUME NEW g, WellFormed(g), NEW a \in Nat, NEW d \in Nat,
           NEW ta \in BOOLEAN, NEW td \in BOOLEAN,
           NEW r, r = Added(g, a, ta, d, td)
    PROVE  /\ WellFormed(r) /\ DOMAIN r = DOMAIN g \cup {a, d}
           /\ OneMore(g, r, a, d)
<1> DEFINE h == WithNode(WithNode(g, a, ta), d, td)
           outputs == Append(h[a].Outputs, d)
           inputs == Append(h[d].Inputs, a)
<1>1. /\ Consistent(h) /\ DOMAIN h = DOMAIN g \cup {a, d}
      /\ \A n \in DOMAIN g : h[n] = g[n]
      /\ \A m, n : Wired(h, m, n) = Wired(g, m, n)
  BY NodesMade
<1>2. r = EditOf(h, a, outputs, d, inputs)
  BY DEF Added, EditOf
<1> HIDE DEF h
<1>3. h \in AnyGraph /\ IsFiniteSet(DOMAIN h) /\ DOMAIN h \in SUBSET Nat
      /\ \A n \in DOMAIN h : h[n].Inputs \in Seq(Nat) /\ h[n].Outputs \in Seq(Nat)
  BY <1>1, GraphTypes DEF Consistent
<1>4. outputs \in Seq(Nat) /\ inputs \in Seq(Nat)
  BY <1>1, <1>3
<1>5. \A x : Count(outputs, x) = Count(h[a].Outputs, x) + IF x = d THEN 1 ELSE 0
  BY <1>1, <1>3, CountAppend, SMTT(30)
<1>6. \A x : Count(inputs, x) = Count(h[d].Inputs, x) + IF x = a THEN 1 ELSE 0
  BY <1>1, <1>3, CountAppend
<1>7. /\ ToSet(outputs) = ToSet(h[a].Outputs) \cup {d}
      /\ ToSet(inputs) = ToSet(h[d].Inputs) \cup {a}
  <2>1. h[a].Outputs \in Seq(Nat) /\ h[d].Inputs \in Seq(Nat)
    BY <1>1, <1>3
  <2>2. ToSet(outputs) = ToSet(h[a].Outputs) \cup {d}
    BY <2>1, SetAppend
  <2>3. ToSet(inputs) = ToSet(h[d].Inputs) \cup {a}
    BY <2>1, SetAppend
  <2>4. QED BY <2>2, <2>3
<1>8. outputs # << >> /\ inputs # << >>
  BY <1>1, <1>3
<1> HIDE DEF outputs, inputs
<1>9. r \in [DOMAIN h -> Node] /\ Edited(h, r, a, outputs, d, inputs)
  <2>1. h \in AnyGraph /\ a \in DOMAIN h /\ d \in DOMAIN h
    BY <1>1, <1>3
  <2>2. QED BY <2>1, <1>2, <1>4, EditsOf
<1>10. ASSUME NEW m \in DOMAIN h, NEW n \in DOMAIN h
       PROVE  Count(r[m].Outputs, n) = Count(r[n].Inputs, m)
  <2>1. Count(h[m].Outputs, n) = Count(h[n].Inputs, m)
    BY <1>1 DEF Consistent, Paired
  <2>2. Count(r[m].Outputs, n) = Count(h[m].Outputs, n) + IF m = a /\ n = d THEN 1 ELSE 0
    <3>1. Count(h[m].Outputs, n) \in Nat
      BY <1>3, CountIsNatural
    <3>2. QED BY <3>1, <1>5, <1>9 DEF Edited
  <2>3. Count(r[n].Inputs, m) = Count(h[n].Inputs, m) + IF m = a /\ n = d THEN 1 ELSE 0
    <3>1. Count(h[n].Inputs, m) \in Nat
      BY <1>3, CountIsNatural
    <3>2. QED BY <3>1, <1>6, <1>9 DEF Edited
  <2>4. QED BY <2>1, <2>2, <2>3
<1>11. ASSUME NEW m, NEW n
       PROVE  Wired(r, m, n) = Wired(g, m, n) + IF m = a /\ n = d THEN 1 ELSE 0
  <2>1. Wired(h, m, n) = Wired(g, m, n) /\ DOMAIN r = DOMAIN h
    BY <1>1, <1>9
  <2>2. CASE n \in DOMAIN h
    <3>1. Count(h[n].Inputs, m) \in Nat
      BY <2>2, <1>3, CountIsNatural
    <3>2. QED BY <3>1, <2>1, <2>2, <1>6, <1>9 DEF Edited, Wired
  <2>3. CASE n \notin DOMAIN h
    BY <2>1, <2>3, <1>1 DEF Wired
  <2>4. QED BY <2>2, <2>3
<1>12. Contained(r)
  BY <1>1, <1>7, <1>9 DEF Consistent, Contained, Edited
<1>13. Used(r)
  BY <1>1, <1>8, <1>9 DEF WellFormed, Used, Edited
<1>14. r \in AnyGraph /\ DOMAIN r = DOMAIN h
  BY <1>3, <1>9 DEF AnyGraph
<1>15. Paired(r)
  BY <1>10, <1>14 DEF Paired
<1>16. QED BY <1>1, <1>3, <1>11, <1>12, <1>13, <1>14, <1>15 DEF WellFormed, OneMore

\* A wire is removed.
LEMMA RemovedKeeps ==
    ASSUME NEW g, WellFormed(g), NEW a \in DOMAIN g, NEW d \in DOMAIN g,
           d \in ToSet(g[a].Outputs), NEW r, r = Removed(g, a, d)
    PROVE  /\ WellFormed(r) /\ DOMAIN r \subseteq DOMAIN g
           /\ \A m, n : Wired(r, m, n) =
                 Wired(g, m, n) - IF m = a /\ n = d THEN 1 ELSE 0
<1> DEFINE outputs == RemoveFirst(g[a].Outputs, d)
           inputs == RemoveFirst(g[d].Inputs, a)
<1>0. PICK h : h = EditOf(g, a, outputs, d, inputs)
  OBVIOUS
<1>1. r = Pruned(h, {a, d})
  BY <1>0 DEF Removed, EditOf
<1>2. g \in AnyGraph /\ IsFiniteSet(DOMAIN g) /\ DOMAIN g \in SUBSET Nat
      /\ \A n \in DOMAIN g : g[n].Inputs \in Seq(Nat) /\ g[n].Outputs \in Seq(Nat)
  BY GraphTypes DEF WellFormed
<1>3. a \in ToSet(g[d].Inputs)
  BY BothLists
<1>4. /\ outputs \in Seq(Nat) /\ ToSet(outputs) \subseteq ToSet(g[a].Outputs)
      /\ \A x : Count(outputs, x) = Count(g[a].Outputs, x) - IF x = d THEN 1 ELSE 0
  <2>1. g[a].Outputs \in Seq(Nat)
    BY <1>2
  <2>2. QED BY <2>1, CountRemoveFirst
<1>5. /\ inputs \in Seq(Nat) /\ ToSet(inputs) \subseteq ToSet(g[d].Inputs)
      /\ \A x : Count(inputs, x) = Count(g[d].Inputs, x) - IF x = a THEN 1 ELSE 0
  <2>1. g[d].Inputs \in Seq(Nat)
    BY <1>2
  <2>2. QED BY <2>1, <1>3, CountRemoveFirst
<1> HIDE DEF outputs, inputs
<1>6. h \in [DOMAIN g -> Node] /\ Edited(g, h, a, outputs, d, inputs)
  <2>1. g \in AnyGraph /\ outputs \in Seq(Nat) /\ inputs \in Seq(Nat)
    BY <1>2, <1>4, <1>5
  <2>2. QED BY <2>1, <1>0, EditsOf
<1>7. DOMAIN h = DOMAIN g
      /\ \A n \in DOMAIN g : h[n].Inputs \in Seq(Nat) /\ h[n].Outputs \in Seq(Nat)
  BY <1>6 DEF Node
<1>8. ASSUME NEW m, NEW n \in DOMAIN g
      PROVE  Count(h[n].Inputs, m) = Count(g[n].Inputs, m) - IF m = a /\ n = d THEN 1 ELSE 0
  <2>1. Count(g[n].Inputs, m) \in Nat
    BY <1>2, CountIsNatural
  <2>2. QED BY <2>1, <1>5, <1>6 DEF Edited
<1>9. ASSUME NEW m \in DOMAIN g, NEW n
      PROVE  Count(h[m].Outputs, n) = Count(g[m].Outputs, n) - IF m = a /\ n = d THEN 1 ELSE 0
  <2>1. Count(g[m].Outputs, n) \in Nat
    BY <1>2, CountIsNatural
  <2>2. QED BY <2>1, <1>4, <1>6 DEF Edited
<1>10. \A m, n \in DOMAIN g : Count(h[m].Outputs, n) = Count(h[n].Inputs, m)
  <2>1. ASSUME NEW m \in DOMAIN g, NEW n \in DOMAIN g
        PROVE  Count(h[m].Outputs, n) = Count(h[n].Inputs, m)
    <3>1. Count(g[m].Outputs, n) = Count(g[n].Inputs, m)
      BY DEF WellFormed, Paired
    <3> DEFINE one == IF m = a /\ n = d THEN 1 ELSE 0
    <3>2. Count(h[m].Outputs, n) = Count(g[m].Outputs, n) - one
      BY <1>9
    <3>3. Count(h[n].Inputs, m) = Count(g[n].Inputs, m) - one
      BY <1>8
    <3> HIDE DEF one
    <3>4. QED BY <3>1, <3>2, <3>3
  <2>2. QED BY <2>1
<1>11. \A n \in DOMAIN g : /\ ToSet(h[n].Inputs) \subseteq DOMAIN g
                           /\ ToSet(h[n].Outputs) \subseteq DOMAIN g
  BY <1>4, <1>5, <1>6 DEF WellFormed, Contained, Edited
<1> DEFINE K == {m \in DOMAIN g : m \in {a, d} => h[m].Outputs # << >> \/ h[m].Inputs # << >>}
<1>12. r = [n \in K |-> h[n]]
  BY <1>1, <1>7 DEF Pruned
<1>13. \A n \in DOMAIN g \ K : h[n].Inputs = << >> /\ h[n].Outputs = << >>
  OBVIOUS
<1>14. K \subseteq DOMAIN g
  OBVIOUS
<1>15. \A n \in K : h[n].Inputs # << >> \/ h[n].Outputs # << >>
  BY <1>6 DEF WellFormed, Used, Edited
<1> HIDE DEF K
<1>16. DOMAIN r = K /\ \A n \in K : r[n] = h[n]
  BY <1>12
<1>17. \A x : Count(<< >>, x) = 0 /\ ToSet(<< >>) = {}
  <2>1. << >> \in Seq(Nat) /\ ToSet(<< >>) = {}
    BY DEF ToSet
  <2>2. QED BY <2>1, CountIsNatural
<1>18. Paired(r)
  BY <1>10, <1>14, <1>16 DEF Paired
<1>19. ASSUME NEW n \in K PROVE ToSet(h[n].Inputs) \subseteq K /\ ToSet(h[n].Outputs) \subseteq K
  <2>1. ASSUME NEW m \in ToSet(h[n].Inputs) PROVE m \in K
    <3>1. m \in DOMAIN g
      BY <1>11, <1>14
    <3>2. Count(h[n].Inputs, m) # 0
      BY <1>7, <1>14, CountIsNatural
    <3>3. Count(h[m].Outputs, n) # 0
      BY <3>1, <3>2, <1>10, <1>14
    <3>4. QED BY <3>1, <3>3, <1>13, <1>17
  <2>2. ASSUME NEW m \in ToSet(h[n].Outputs) PROVE m \in K
    <3>1. m \in DOMAIN g
      BY <1>11, <1>14
    <3>2. Count(h[n].Outputs, m) # 0
      BY <1>7, <1>14, CountIsNatural
    <3>3. Count(h[m].Inputs, n) # 0
      BY <3>1, <3>2, <1>10, <1>14
    <3>4. QED BY <3>1, <3>3, <1>13, <1>17
  <2>3. QED BY <2>1, <2>2
<1>20. Contained(r)
  BY <1>16, <1>19 DEF Contained
<1>21. Used(r)
  BY <1>15, <1>16 DEF Used
<1>22. r \in AnyGraph /\ IsFiniteSet(DOMAIN r)
  <2>1. K \in SUBSET Nat /\ IsFiniteSet(K)
    BY <1>2, <1>14, FS_Subset
  <2>2. r \in [K -> Node]
    BY <1>6, <1>12, <1>14
  <2>3. QED BY <2>1, <2>2, <1>16 DEF AnyGraph
<1>23. ASSUME NEW m, NEW n
       PROVE  Wired(r, m, n) = Wired(g, m, n) - IF m = a /\ n = d THEN 1 ELSE 0
  <2>1. CASE n \in K
    BY <2>1, <1>8, <1>14, <1>16 DEF Wired
  <2>2. CASE n \in DOMAIN g \ K
    <3>1. Count(h[n].Inputs, m) = 0
      BY <2>2, <1>13, <1>17
    <3>2. QED BY <3>1, <2>2, <1>8, <1>16 DEF Wired
  <2>3. CASE n \notin DOMAIN g
    BY <2>3, <1>14, <1>16 DEF Wired
  <2>4. QED BY <2>1, <2>2, <2>3
<1>24. QED BY <1>14, <1>16, <1>18, <1>20, <1>21, <1>22, <1>23 DEF WellFormed
-----------------------------------------------------------------------------
(* The invariant: the graph is one that wires make, and the list is its    *)
(* sorting, unless the graph was cleared and nothing has sorted it since.  *)

GraphIInv == /\ WellFormed(m_Graph)
             /\ IsInjective(m_Sorted)
             /\ DOMAIN m_Graph # {} => IsSorting(m_Graph, m_Sorted)

LEMMA EmptyGraph == WellFormed(<< >>) /\ DOMAIN << >> = {}
<1>1. DOMAIN << >> = {} /\ << >> \in [{} -> Node]
  OBVIOUS
<1>2. << >> \in AnyGraph
  BY <1>1 DEF AnyGraph
<1>3. IsFiniteSet(DOMAIN << >>)
  BY <1>1, FS_EmptySet
<1>4. QED BY <1>1, <1>2, <1>3 DEF WellFormed, Paired, Contained, Used

LEMMA GraphInitHolds == GraphInit => GraphIInv
<1>1. SUFFICES ASSUME GraphInit PROVE GraphIInv
  OBVIOUS
<1>2. IsInjective(<< >>)
  BY DEF IsInjective
<1>3. QED BY <1>1, <1>2, EmptyGraph DEF GraphInit, GraphIInv

\* AddConnection, for any two devices.
LEMMA AddConnectionKeeps ==
    ASSUME GraphIInv, NEW s \in Nat, NEW d \in Nat, NEW ts \in BOOLEAN, NEW td \in BOOLEAN,
           AddConnection(s, ts, d, td)
    PROVE  GraphIInv'
<1>1. WellFormed(m_Graph')
  BY AddedKeeps DEF GraphIInv, AddConnection
<1>2. IsSorting(m_Graph', m_Sorted')
  BY <1>1, TestSortSorts DEF AddConnection
<1>3. QED BY <1>1, <1>2 DEF GraphIInv, IsSorting

\* RemoveConnection, of a wire that is there.
LEMMA RemoveConnectionKeeps ==
    ASSUME GraphIInv, NEW s, NEW d, RemoveConnection(s, d),
           d \in ToSet(m_Graph[s].Outputs)
    PROVE  GraphIInv'
<1>1. s \in DOMAIN m_Graph /\ d \in DOMAIN m_Graph
  BY DEF RemoveConnection
<1>2. WellFormed(m_Graph')
  BY <1>1, RemovedKeeps DEF GraphIInv, RemoveConnection
<1>3. IsSorting(m_Graph', m_Sorted')
  BY <1>2, TestSortSorts DEF RemoveConnection
<1>4. QED BY <1>2, <1>3 DEF GraphIInv, IsSorting

LEMMA ClearKeeps ==
    ASSUME GraphIInv, Clear
    PROVE  GraphIInv'
BY EmptyGraph DEF GraphIInv, Clear

LEMMA GraphNextKeeps == GraphIInv /\ [GraphNext]_graphvars => GraphIInv'
<1>1. SUFFICES ASSUME GraphIInv, [GraphNext]_graphvars PROVE GraphIInv'
  OBVIOUS
<1>2. ASSUME NEW s \in Nodes, NEW d \in Nodes, Add(s, d) PROVE GraphIInv'
  <2>1. PICK known \in BOOLEAN : AddConnection(s, known /\ s \in Terminals,
                                               d, known /\ d \in Terminals)
    BY <1>2 DEF Add
  <2>2. s \in Nat /\ d \in Nat
    BY NodesAssumption
  <2> DEFINE ts == known /\ s \in Terminals
             td == known /\ d \in Terminals
  <2>3. ts \in BOOLEAN /\ td \in BOOLEAN /\ AddConnection(s, ts, d, td)
    BY <2>1
  <2> HIDE DEF ts, td
  <2>4. QED BY <1>1, <2>2, <2>3, AddConnectionKeeps
<1>3. ASSUME NEW s \in Nodes, NEW d \in Nodes, Drop(s, d) PROVE GraphIInv'
  BY <1>1, <1>3, RemoveConnectionKeeps DEF Drop
<1>4. CASE Forget
  BY <1>1, <1>4, ClearKeeps DEF Forget
<1>5. CASE UNCHANGED graphvars
  BY <1>1, <1>5 DEF GraphIInv, graphvars
<1>6. QED BY <1>1, <1>2, <1>3, <1>4, <1>5 DEF GraphNext

LEMMA GraphInvariant == GraphSpec => []GraphIInv
<1>1. QED BY GraphInitHolds, GraphNextKeeps, PTL DEF GraphSpec

\* What the invariant says of the list.
LEMMA InvariantHears == GraphIInv => RunsWhatIsHeard
<1>1. SUFFICES ASSUME GraphIInv PROVE RunsWhatIsHeard
  OBVIOUS
<1>2. QED BY <1>1 DEF GraphIInv, IsSorting, WellFormed, Paired, Used, ListsAgree, RunsWhatIsHeard

LEMMA InvariantOrders == GraphIInv => SourcesRunFirst
<1>1. SUFFICES ASSUME GraphIInv PROVE SourcesRunFirst
  OBVIOUS
<1>2. QED BY <1>1 DEF GraphIInv, IsSorting, SourcesRunFirst, Before, Behind

\* The engine's list has every device that a terminal, or a device that feeds
\* nothing, can hear, once, and no other; the two lists of every wire agree.
\* AddConnection, RemoveConnection and Clear in any order, loops included.
THEOREM ListIsWhatIsHeard == GraphSpec => []RunsWhatIsHeard
<1>1. QED BY GraphInvariant, InvariantHears, PTL

\* A device that feeds no loop stands behind all that it feeds, so that the
\* engine, which walks the list from its back, runs it first.
THEOREM SourcesStandBehind == GraphSpec => []SourcesRunFirst
<1>1. QED BY GraphInvariant, InvariantOrders, PTL

-----------------------------------------------------------------------------
(* Wires in lists.                                                         *)

\* How many of the wires ws are in W.
Number(ws, W) == Cardinality({k \in DOMAIN ws : ws[k] \in W})

LEMMA FinitePlaces ==
    ASSUME NEW S, NEW ws \in Seq(S), NEW P \in SUBSET DOMAIN ws
    PROVE  IsFiniteSet(P)
<1>1. DOMAIN ws = 1..Len(ws) /\ Len(ws) \in Nat
  OBVIOUS
<1>2. IsFiniteSet(DOMAIN ws)
  BY <1>1, FS_Interval
<1>3. QED BY <1>2, FS_Subset

LEMMA NumberIsNatural ==
    ASSUME NEW S, NEW ws \in Seq(S), NEW W
    PROVE  /\ IsFiniteSet({k \in DOMAIN ws : ws[k] \in W})
           /\ Number(ws, W) \in Nat
           /\ Number(ws, W) = 0 <=> ToSet(ws) \cap W = {}
<1> DEFINE A == {k \in DOMAIN ws : ws[k] \in W}
<1>1. IsFiniteSet(A)
  <2>1. IsFiniteSet(1..Len(ws)) /\ A \in SUBSET (1..Len(ws))
    BY FS_Interval
  <2>2. QED BY <2>1, FS_Subset
<1>2. Cardinality(A) \in Nat /\ (Cardinality(A) = 0 <=> A = {})
  BY <1>1, FS_CardinalityType, FS_EmptySet
<1>3. A = {} <=> ToSet(ws) \cap W = {}
  BY DEF ToSet
<1>4. Number(ws, W) = Cardinality(A)
  BY DEF Number
<1> HIDE DEF A
<1>5. Number(ws, W) = 0 <=> ToSet(ws) \cap W = {}
  BY <1>2, <1>3, <1>4
<1>6. QED BY <1>1, <1>2, <1>4, <1>5 DEF A

\* f takes the places in ws of members of V to those in vs of members of W.
Corresponds(f, ws, V, vs, W) ==
    /\ \A i \in DOMAIN ws : ws[i] \in V => f[i] \in DOMAIN vs /\ vs[f[i]] \in W
    /\ \A i, j \in DOMAIN ws : ws[i] \in V /\ ws[j] \in V /\ f[i] = f[j] => i = j
    /\ \A k \in DOMAIN vs : vs[k] \in W => \E i \in DOMAIN ws : ws[i] \in V /\ f[i] = k

LEMMA NumberMapped ==
    ASSUME NEW S, NEW T, NEW ws \in Seq(S), NEW vs \in Seq(T), NEW V, NEW W, NEW f,
           Corresponds(f, ws, V, vs, W)
    PROVE  Number(ws, V) = Number(vs, W)
<1> DEFINE A == {k \in DOMAIN ws : ws[k] \in V}
           B == {k \in DOMAIN vs : vs[k] \in W}
           h == [i \in A |-> f[i]]
<1>1. IsFiniteSet(A) /\ IsFiniteSet(B)
  <2>1. A \in SUBSET DOMAIN ws /\ B \in SUBSET DOMAIN vs
    OBVIOUS
  <2> HIDE DEF A, B
  <2>2. QED BY <2>1, FinitePlaces
<1>2. \A i \in A : h[i] \in B
  BY DEF Corresponds
<1>3. \A i, j \in A : h[i] = h[j] => i = j
  BY DEF Corresponds
<1>4. \A k \in B : \E i \in A : h[i] = k
  BY DEF Corresponds
<1>5. h \in Bijection(A, B)
  <2>1. h \in [A -> B]
    BY <1>2
  <2>2. QED BY <2>1, <1>3, <1>4 DEF Bijection, Injection, Surjection, IsInjective
<1>6. Cardinality(A) = Cardinality(B)
  BY <1>1, <1>5, FS_Bijection DEF ExistsBijection
<1>7. QED BY <1>6 DEF Number

\* A part of a list: its entries, and their places in the whole.
LEMMA AmongIs ==
    ASSUME NEW S, NEW ws \in Seq(S), NEW W
    PROVE  \E at : /\ Among(ws, W) \in Seq(S)
                   /\ \A i \in DOMAIN Among(ws, W) :
                         at[i] \in DOMAIN ws /\ Among(ws, W)[i] = ws[at[i]] /\ ws[at[i]] \in W
                   /\ \A i, j \in DOMAIN Among(ws, W) : at[i] = at[j] => i = j
                   /\ \A k \in DOMAIN ws : ws[k] \in W =>
                         \E i \in DOMAIN Among(ws, W) : at[i] = k
<1> DEFINE K == {k \in DOMAIN ws : ws[k] \in W}
           at == InOrder(K)
           r == [i \in DOMAIN at |-> ws[at[i]]]
<1>1. Among(ws, W) = r
  BY DEF Among
<1>2. DOMAIN ws = 1..Len(ws) /\ Len(ws) \in Nat /\ \A k \in DOMAIN ws : ws[k] \in S
  OBVIOUS
<1>3. K \in SUBSET Nat /\ IsFiniteSet(K)
  <2>1. K \in SUBSET DOMAIN ws /\ K \in SUBSET Nat
    BY <1>2
  <2> HIDE DEF K
  <2>2. QED BY <2>1, FinitePlaces
<1>4. at \in Seq(K) /\ IsInjective(at) /\ ToSet(at) = K
  BY <1>3, InOrderLists
<1> HIDE DEF at
<1>5. \A i \in DOMAIN at : at[i] \in K
  BY <1>4
<1>6. DOMAIN r = DOMAIN at
  OBVIOUS
<1>7. r \in Seq(S)
  <2>1. DOMAIN at = 1..Len(at) /\ Len(at) \in Nat
    BY <1>4
  <2>2. r \in [1..Len(at) -> S]
    BY <2>1, <1>2, <1>5
  <2>3. QED BY <2>1, <2>2, SeqDef
<1>8. \A i, j \in DOMAIN at : at[i] = at[j] => i = j
  BY <1>4 DEF IsInjective
<1>9. \A k \in K : \E i \in DOMAIN at : at[i] = k
  BY <1>4 DEF ToSet
<1>10. \A i \in DOMAIN at : r[i] = ws[at[i]]
  OBVIOUS
<1> HIDE DEF r
<1>11. QED BY <1>1, <1>5, <1>6, <1>7, <1>8, <1>9, <1>10

LEMMA AmongCounts ==
    ASSUME NEW S, NEW ws \in Seq(S), NEW W
    PROVE  /\ Among(ws, W) \in Seq(S)
           /\ ToSet(Among(ws, W)) = ToSet(ws) \cap W
           /\ \A V : Number(Among(ws, W), V) = Number(ws, V \cap W)
<1> DEFINE r == Among(ws, W)
<1>1. PICK at : /\ r \in Seq(S)
                /\ \A i \in DOMAIN r :
                      at[i] \in DOMAIN ws /\ r[i] = ws[at[i]] /\ ws[at[i]] \in W
                /\ \A i, j \in DOMAIN r : at[i] = at[j] => i = j
                /\ \A k \in DOMAIN ws : ws[k] \in W => \E i \in DOMAIN r : at[i] = k
  BY AmongIs, SMTT(30)
<1> HIDE DEF r
<1>2. ToSet(r) = ToSet(ws) \cap W
  BY <1>1 DEF ToSet
<1>3. ASSUME NEW V PROVE Number(r, V) = Number(ws, V \cap W)
  <2> DEFINE U == V \cap W
  <2>1. \A i \in DOMAIN r : r[i] \in V => at[i] \in DOMAIN ws /\ ws[at[i]] \in U
    BY <1>1
  <2>2. \A i, j \in DOMAIN r : r[i] \in V /\ r[j] \in V /\ at[i] = at[j] => i = j
    BY <1>1
  <2>3. \A k \in DOMAIN ws : ws[k] \in U => \E i \in DOMAIN r : r[i] \in V /\ at[i] = k
    BY <1>1
  <2> HIDE DEF U
  <2>4. Number(r, V) = Number(ws, U)
    <3>1. r \in Seq(S)
      BY <1>1
    <3>2. Corresponds(at, r, V, ws, U)
      BY <2>1, <2>2, <2>3 DEF Corresponds
    <3>3. QED BY <3>1, <3>2, NumberMapped
  <2>5. QED BY <2>4 DEF U
<1>4. QED BY <1>1, <1>2, <1>3 DEF r

\* A list and its two parts.
LEMMA Parted ==
    ASSUME NEW S, NEW ws \in Seq(S), NEW W, NEW gone, gone = Among(ws, W),
           NEW kept, kept = Among(ws, ToSet(ws) \ ToSet(gone))
    PROVE  /\ gone \in Seq(S) /\ ToSet(gone) = ToSet(ws) \cap W
           /\ kept \in Seq(S) /\ ToSet(kept) = ToSet(ws) \ W
           /\ \A V : Number(ws, V) = Number(gone, V) + Number(kept, V)
<1>1. gone \in Seq(S) /\ ToSet(gone) = ToSet(ws) \cap W
      /\ \A V : Number(gone, V) = Number(ws, V \cap W)
  BY AmongCounts
<1> DEFINE R == ToSet(ws) \ ToSet(gone)
<1>2. R = ToSet(ws) \ W
  BY <1>1
<1>3. kept \in Seq(S) /\ ToSet(kept) = ToSet(ws) \cap R
      /\ \A V : Number(kept, V) = Number(ws, V \cap R)
  BY AmongCounts
<1>4. ASSUME NEW V PROVE Number(ws, V) = Number(gone, V) + Number(kept, V)
  <2> DEFINE A == {k \in DOMAIN ws : ws[k] \in V}
             B == {k \in DOMAIN ws : ws[k] \in V \cap W}
             C == {k \in DOMAIN ws : ws[k] \in V \cap R}
  <2>1. IsFiniteSet(A) /\ IsFiniteSet(B) /\ IsFiniteSet(C)
    <3>1. A \in SUBSET DOMAIN ws /\ B \in SUBSET DOMAIN ws /\ C \in SUBSET DOMAIN ws
      OBVIOUS
    <3> HIDE DEF A, B, C
    <3>2. QED BY <3>1, FinitePlaces
  <2>2. A = B \cup C /\ B \cap C = {}
    BY <1>2 DEF ToSet
  <2>3. Number(ws, V) = Cardinality(A) /\ Number(gone, V) = Cardinality(B)
        /\ Number(kept, V) = Cardinality(C)
    BY <1>1, <1>3 DEF Number
  <2> HIDE DEF A, B, C
  <2>4. Cardinality(B \cup C) = Cardinality(B) + Cardinality(C)
    <3>1. Cardinality(B \cup C) = Cardinality(B) + Cardinality(C) - Cardinality(B \cap C)
      BY <2>1, FS_Union
    <3>2. Cardinality(B) \in Nat /\ Cardinality(C) \in Nat
      BY <2>1, FS_CardinalityType
    <3>3. Cardinality(B \cap C) = 0
      BY <2>2, FS_EmptySet
    <3>4. QED BY <3>1, <3>2, <3>3
  <2>5. QED BY <2>2, <2>3, <2>4
<1>5. QED BY <1>1, <1>2, <1>3, <1>4

LEMMA NumberAppend ==
    ASSUME NEW S, NEW ws \in Seq(S), NEW w \in S, NEW W
    PROVE  /\ Append(ws, w) \in Seq(S) /\ ToSet(Append(ws, w)) = ToSet(ws) \cup {w}
           /\ Number(Append(ws, w), W) = Number(ws, W) + IF w \in W THEN 1 ELSE 0
<1> DEFINE A == {i \in DOMAIN ws : ws[i] \in W}
           B == {i \in DOMAIN Append(ws, w) : Append(ws, w)[i] \in W}
<1>1. DOMAIN ws = 1..Len(ws) /\ DOMAIN Append(ws, w) = 1..Len(ws)+1 /\ Len(ws) \in Nat
  OBVIOUS
<1>2. IsFiniteSet(A) /\ Cardinality(A) \in Nat
  BY NumberIsNatural DEF Number
<1>3. \A i \in 1..Len(ws) : Append(ws, w)[i] = ws[i]
  OBVIOUS
<1>4. Append(ws, w)[Len(ws)+1] = w
  OBVIOUS
<1>5. Number(Append(ws, w), W) = Cardinality(B) /\ Number(ws, W) = Cardinality(A)
  BY DEF Number
<1>6. CASE w \in W
  <2>1. B = A \cup {Len(ws)+1} /\ Len(ws)+1 \notin A
    BY <1>1, <1>3, <1>4, <1>6
  <2>2. Cardinality(B) = Cardinality(A) + 1
    BY <2>1, <1>2, FS_AddElement
  <2> HIDE DEF A, B
  <2>3. QED BY <2>2, <1>2, <1>5, <1>6, SetAppend
<1>7. CASE w \notin W
  <2>1. B = A
    BY <1>1, <1>3, <1>4, <1>7
  <2> HIDE DEF A, B
  <2>2. QED BY <2>1, <1>2, <1>5, <1>7, SetAppend
<1>8. QED BY <1>6, <1>7

LEMMA NumberConcat ==
    ASSUME NEW S, NEW ws \in Seq(S), NEW vs \in Seq(S), NEW W
    PROVE  /\ ws \o vs \in Seq(S) /\ ToSet(ws \o vs) = ToSet(ws) \cup ToSet(vs)
           /\ Number(ws \o vs, W) = Number(ws, W) + Number(vs, W)
<1> DEFINE r == ws \o vs
           n == Len(ws)
           A == {k \in DOMAIN ws : ws[k] \in W}
           B == {k \in DOMAIN vs : vs[k] \in W}
           C == {k \in DOMAIN r : r[k] \in W}
           D == {k \in DOMAIN r : r[k] \in W /\ k > n}
<1>1. /\ r \in Seq(S) /\ Len(r) = n + Len(vs) /\ n \in Nat /\ Len(vs) \in Nat
      /\ DOMAIN r = 1..n+Len(vs) /\ DOMAIN ws = 1..n /\ DOMAIN vs = 1..Len(vs)
      /\ \A i \in 1..n : r[i] = ws[i]
      /\ \A i \in 1..Len(vs) : r[n + i] = vs[i]
  <2>1. r \in Seq(S) /\ Len(r) = n + Len(vs) /\ n \in Nat /\ Len(vs) \in Nat
        /\ \A i \in 1..n+Len(vs) : r[i] = IF i <= n THEN ws[i] ELSE vs[i - n]
    BY ConcatProperties
  <2>2. \A i \in 1..Len(vs) : n + i \in 1..n+Len(vs) /\ ~(n + i <= n) /\ (n + i) - n = i
    BY <2>1
  <2> HIDE DEF r, n
  <2>3. DOMAIN r = 1..n+Len(vs)
    BY <2>1
  <2>4. \A i \in 1..n : i \in 1..n+Len(vs) /\ i <= n
    BY <2>1
  <2>5. DOMAIN ws = 1..n /\ DOMAIN vs = 1..Len(vs)
    BY DEF n
  <2>6. QED BY <2>1, <2>2, <2>3, <2>4, <2>5
<1> HIDE DEF r, n
<1>2. ToSet(r) = ToSet(ws) \cup ToSet(vs)
  <2>1. \A i \in DOMAIN r : r[i] \in ToSet(ws) \cup ToSet(vs)
    <3>1. ASSUME NEW i \in DOMAIN r PROVE r[i] \in ToSet(ws) \cup ToSet(vs)
      <4>1. CASE i <= n
        <5>1. i \in DOMAIN ws /\ r[i] = ws[i]
          BY <4>1, <1>1
        <5>2. QED BY <5>1 DEF ToSet
      <4>2. CASE ~(i <= n)
        <5>1. i - n \in 1..Len(vs) /\ n + (i - n) = i
          BY <4>2, <1>1
        <5>2. i - n \in DOMAIN vs /\ r[i] = vs[i - n]
          BY <5>1, <1>1
        <5>3. QED BY <5>2 DEF ToSet
      <4>3. QED BY <4>1, <4>2
    <3>2. QED BY <3>1
  <2>2. \A i \in DOMAIN ws : i \in DOMAIN r /\ r[i] = ws[i]
    BY <1>1
  <2>3. \A i \in DOMAIN vs : n + i \in DOMAIN r /\ r[n + i] = vs[i]
    BY <1>1
  <2>4. QED BY <2>1, <2>2, <2>3 DEF ToSet
<1>3. IsFiniteSet(A) /\ IsFiniteSet(B) /\ IsFiniteSet(C)
  <2>1. A \in SUBSET DOMAIN ws /\ B \in SUBSET DOMAIN vs /\ C \in SUBSET DOMAIN r
    OBVIOUS
  <2> HIDE DEF A, B, C
  <2>2. QED BY <1>1, <2>1, FinitePlaces
<1>4. C = A \cup D /\ A \cap D = {}
  <2>1. \A k \in DOMAIN r : k > n \/ k \in DOMAIN ws
    BY <1>1
  <2>2. \A k \in DOMAIN ws : k \in DOMAIN r /\ r[k] = ws[k] /\ ~(k > n)
    BY <1>1
  <2>3. QED BY <2>1, <2>2
<1>5. IsFiniteSet(D)
  BY <1>3, <1>4, FS_Subset
<1>6. Cardinality(B) = Cardinality(D)
  <2> DEFINE f == [i \in B |-> n + i]
  <2>1. f \in [B -> D]
    BY <1>1
  <2>2. \A i, j \in B : f[i] = f[j] => i = j
    BY <1>1
  <2>3. \A k \in D : \E i \in B : f[i] = k
    <3>1. ASSUME NEW k \in D PROVE k - n \in B /\ f[k - n] = k
      <4>1. k - n \in 1..Len(vs) /\ n + (k - n) = k
        BY <1>1
      <4>2. vs[k - n] = r[k]
        BY <4>1, <1>1
      <4>3. k - n \in B
        BY <4>1, <4>2, <1>1
      <4>4. QED BY <4>1, <4>3
    <3>2. QED BY <3>1
  <2>4. f \in Bijection(B, D)
    BY <2>1, <2>2, <2>3 DEF Bijection, Injection, Surjection, IsInjective
  <2>5. QED BY <2>4, <1>3, <1>5, FS_Bijection DEF ExistsBijection
<1>7. Number(r, W) = Cardinality(C) /\ Number(ws, W) = Cardinality(A)
      /\ Number(vs, W) = Cardinality(B)
  BY DEF Number
<1> HIDE DEF A, B, C, D
<1>8. Cardinality(A \cup D) = Cardinality(A) + Cardinality(D)
  <2>1. Cardinality(A \cup D) = Cardinality(A) + Cardinality(D) - Cardinality(A \cap D)
    BY <1>3, <1>5, FS_Union
  <2>2. Cardinality(A) \in Nat /\ Cardinality(D) \in Nat
    BY <1>3, <1>5, FS_CardinalityType
  <2>3. Cardinality(A \cap D) = 0
    BY <1>4, FS_EmptySet
  <2>4. QED BY <2>1, <2>2, <2>3
<1>9. QED BY <1>1, <1>2, <1>4, <1>6, <1>7, <1>8 DEF r
-----------------------------------------------------------------------------
(* The graph follows a list of wires.                                      *)

\* The wires from m to n.
Link(m, n) == {w \in Wire : w.OutputID = m /\ w.InputID = n}

Linked(g, ws) == WellFormed(g) /\ \A m, n : Wired(g, m, n) = Number(ws, Link(m, n))

\* How many of the first i wires are in W.
Upto(ws, i, W) == Cardinality({j \in 1..i : ws[j] \in W})

LEMMA UptoSteps ==
    ASSUME NEW S, NEW ws \in Seq(S), NEW W
    PROVE  /\ Upto(ws, 0, W) = 0
           /\ Upto(ws, Len(ws), W) = Number(ws, W)
           /\ \A i \in 0..Len(ws) : Upto(ws, i, W) \in Nat /\ Upto(ws, i, W) <= Number(ws, W)
<1> DEFINE at(i) == {j \in 1..i : ws[j] \in W}
<1>1. DOMAIN ws = 1..Len(ws) /\ Len(ws) \in Nat
  OBVIOUS
<1>2. \A i : Upto(ws, i, W) = Cardinality(at(i))
  BY DEF Upto
<1>3. ASSUME NEW i \in 0..Len(ws) PROVE IsFiniteSet(at(i)) /\ Cardinality(at(i)) \in Nat
  <2>1. at(i) \in SUBSET DOMAIN ws
    BY <1>1
  <2> HIDE DEF at
  <2>2. QED BY <2>1, FinitePlaces, FS_CardinalityType
<1>4. at(0) = {} /\ at(Len(ws)) = {k \in DOMAIN ws : ws[k] \in W}
  BY <1>1
<1>5. Upto(ws, 0, W) = 0
  <2>1. Cardinality(at(0)) = 0
    BY <1>4, FS_EmptySet
  <2>2. QED BY <1>2, <2>1
<1>6. Upto(ws, Len(ws), W) = Number(ws, W)
  BY <1>2, <1>4 DEF Number
<1>7. ASSUME NEW i \in 0..Len(ws) PROVE Upto(ws, i, W) \in Nat /\ Upto(ws, i, W) <= Number(ws, W)
  <2>1. at(i) \in SUBSET at(Len(ws)) /\ Len(ws) \in 0..Len(ws)
    BY <1>1
  <2>2. IsFiniteSet(at(Len(ws)))
    BY <2>1, <1>3
  <2> HIDE DEF at
  <2>3. Cardinality(at(i)) <= Cardinality(at(Len(ws)))
    BY <2>1, <2>2, FS_Subset
  <2>4. QED BY <2>3, <1>2, <1>3, <1>6
<1>8. QED BY <1>5, <1>6, <1>7

LEMMA UptoNext ==
    ASSUME NEW S, NEW ws \in Seq(S), NEW W, NEW i \in 0..Len(ws)-1
    PROVE  Upto(ws, i + 1, W) = Upto(ws, i, W) + IF ws[i + 1] \in W THEN 1 ELSE 0
<1> DEFINE at(k) == {j \in 1..k : ws[j] \in W}
<1>1. i \in 0..Len(ws) /\ i + 1 \in 0..Len(ws) /\ i \in Nat /\ DOMAIN ws = 1..Len(ws)
  OBVIOUS
<1>2. \A k : Upto(ws, k, W) = Cardinality(at(k))
  BY DEF Upto
<1>3. IsFiniteSet(at(i)) /\ Cardinality(at(i)) \in Nat
  <2>1. at(i) \in SUBSET DOMAIN ws
    BY <1>1
  <2> HIDE DEF at
  <2>2. QED BY <2>1, FinitePlaces, FS_CardinalityType
<1>4. CASE ws[i + 1] \in W
  <2>1. at(i + 1) = at(i) \cup {i + 1} /\ i + 1 \notin at(i)
    BY <1>1, <1>4
  <2> HIDE DEF at
  <2>2. Cardinality(at(i) \cup {i + 1}) = Cardinality(at(i)) + 1
    BY <2>1, <1>1, <1>3, FS_AddElement
  <2>3. QED BY <2>1, <2>2, <1>2, <1>4
<1>5. CASE ws[i + 1] \notin W
  <2>1. at(i + 1) = at(i)
    BY <1>1, <1>5
  <2> HIDE DEF at
  <2>2. QED BY <2>1, <1>2, <1>3, <1>5
<1>6. QED BY <1>4, <1>5

LEMMA RemovedIsGraph ==
    ASSUME NEW g \in AnyGraph, NEW a, NEW d
    PROVE  Removed(g, a, d) \in AnyGraph
<1>1. CASE ~({a, d} \subseteq DOMAIN g)
  BY <1>1 DEF Removed
<1>2. CASE {a, d} \subseteq DOMAIN g
  <2> DEFINE outputs == RemoveFirst(g[a].Outputs, d)
             inputs == RemoveFirst(g[d].Inputs, a)
  <2>1. a \in DOMAIN g /\ d \in DOMAIN g /\ g[a].Outputs \in Seq(Nat) /\ g[d].Inputs \in Seq(Nat)
    BY <1>2, GraphTypes
  <2>2. ASSUME NEW s \in Seq(Nat), NEW e PROVE RemoveFirst(s, e) \in Seq(Nat)
    <3>1. CASE e \in ToSet(s)
      BY <3>1, CountRemoveFirst
    <3>2. CASE e \notin ToSet(s)
      <4>1. ~\E i \in 1..Len(s) : s[i] = e
        BY <3>2 DEF ToSet
      <4>2. RemoveFirst(s, e) = s
        BY <4>1 DEF RemoveFirst
      <4>3. QED BY <4>2
    <3>3. QED BY <3>1, <3>2
  <2>3. outputs \in Seq(Nat) /\ inputs \in Seq(Nat)
    BY <2>1, <2>2
  <2> HIDE DEF outputs, inputs
  <2>4. PICK h : h = EditOf(g, a, outputs, d, inputs)
    OBVIOUS
  <2>5. h \in [DOMAIN g -> Node]
    BY <2>1, <2>3, <2>4, EditsOf
  <2>6. Removed(g, a, d) = Pruned(h, {a, d})
    BY <1>2, <2>4 DEF Removed, EditOf, outputs, inputs
  <2>7. DOMAIN h \in SUBSET Nat
    BY <2>5, GraphTypes
  <2> DEFINE K == {m \in DOMAIN h : m \in {a, d} => h[m].Outputs # << >> \/ h[m].Inputs # << >>}
  <2>8. Pruned(h, {a, d}) = [n \in K |-> h[n]] /\ K \in SUBSET Nat /\ K \subseteq DOMAIN h
    BY <2>7 DEF Pruned
  <2> HIDE DEF K
  <2>9. Pruned(h, {a, d}) \in [K -> Node]
    BY <2>5, <2>8
  <2>10. QED BY <2>6, <2>8, <2>9 DEF AnyGraph
<1>3. QED BY <1>1, <1>2

\* The graph without the wires ws.
UnwiredOf(g, ws) == FoldLeft(LAMBDA h, w : Removed(h, w.OutputID, w.InputID), g, ws)

LEMMA UnwiredUnfolds ==
    ASSUME NEW g \in AnyGraph, NEW ws \in Seq(Wire)
    PROVE  \E p : /\ p[0] = g
                  /\ \A i \in 1..Len(ws) : p[i] = Removed(p[i - 1], ws[i].OutputID, ws[i].InputID)
                  /\ UnwiredOf(g, ws) = p[Len(ws)]
<1> DEFINE Op(h, w) == Removed(h, w.OutputID, w.InputID)
           F == [x \in AnyGraph \X Wire |-> Op(x[1], x[2])]
           Eq(f) == f = [t \in SUBSET DOMAIN ws |->
                          IF t = {} THEN g ELSE Op(f[t \ {Max(t)}], ws[Max(t)])]
           c == CHOOSE f : Eq(f)
<1>1. UnwiredOf(g, ws) = c[DOMAIN ws]
  BY DEF UnwiredOf, FoldLeft, MapThenFoldSet
<1>2. DOMAIN ws = 1..Len(ws) /\ Len(ws) \in Nat /\ \A i \in 1..Len(ws) : ws[i] \in Wire
  OBVIOUS
<1>3. F \in [AnyGraph \X Wire -> AnyGraph]
  BY RemovedIsGraph
<1> HIDE DEF Op
<1>4. \E h : Eq(h)
  <2> HIDE DEF F
  <2>1. PICK h : Solves(h, Len(ws), AnyGraph, F, g, ws)
    BY <1>3, FoldSolution
  <2>2. ASSUME NEW t \in SUBSET (1..Len(ws)), t # {}
        PROVE  F[<<h[t \ {Max(t)}], ws[Max(t)]>>] = Op(h[t \ {Max(t)}], ws[Max(t)])
    <3>1. h[t \ {Max(t)}] \in AnyGraph
      BY <2>1 DEF Solves
    <3>2. Max(t) \in t
      BY <2>2, <1>2, MaxIsMember
    <3>3. ws[Max(t)] \in Wire
      BY <3>2, <1>2
    <3>4. QED BY <3>1, <3>3 DEF F
  <2>3. Eq(h)
    BY <2>1, <2>2, <1>2 DEF Solves
  <2>4. QED BY <2>3
<1>5. Eq(c)
  <2> HIDE DEF Eq
  <2>1. QED BY <1>4
<1> DEFINE p == [i \in 0..Len(ws) |-> c[1..i]]
<1> HIDE DEF c
<1>6. c[{}] = g
  BY <1>5
<1>7. ASSUME NEW i \in 1..Len(ws) PROVE c[1..i] = Op(c[1..(i-1)], ws[i])
  <2>1. 1..i \in SUBSET DOMAIN ws /\ 1..i # {} /\ Max(1..i) = i /\ (1..i) \ {i} = 1..(i-1)
    BY <1>2, PrefixTable
  <2>2. QED BY <1>5, <2>1
<1>8. p[0] = g /\ \A i \in 1..Len(ws) : p[i] = Op(p[i - 1], ws[i])
  BY <1>2, <1>6, <1>7
<1>9. p[Len(ws)] = c[DOMAIN ws]
  BY <1>2
<1>10. QED BY <1>1, <1>8, <1>9 DEF Op

\* A list and the two parts that it falls into.
Splits(ws, gone, kept) == \A V : Number(ws, V) = Number(gone, V) + Number(kept, V)

\* The wires that are gone from the list are gone from the graph.
LEMMA UnwiredKeeps ==
    ASSUME NEW g, NEW ws \in Seq(Wire), NEW gone \in Seq(Wire), NEW kept \in Seq(Wire),
           Linked(g, ws), Splits(ws, gone, kept), NEW r, r = UnwiredOf(g, gone)
    PROVE  Linked(r, kept)
<1>1. WellFormed(g) /\ g \in AnyGraph
  BY DEF Linked, WellFormed
<1>2. PICK p : /\ p[0] = g
               /\ \A i \in 1..Len(gone) :
                     p[i] = Removed(p[i - 1], gone[i].OutputID, gone[i].InputID)
               /\ UnwiredOf(g, gone) = p[Len(gone)]
  BY <1>1, UnwiredUnfolds
<1>3. Len(gone) \in Nat
  OBVIOUS
<1> DEFINE Done(i) == /\ WellFormed(p[i])
                      /\ \A m, n : Wired(p[i], m, n) =
                            Number(ws, Link(m, n)) - Upto(gone, i, Link(m, n))
           Good == {i \in Nat : i <= Len(gone) => Done(i)}
<1>4. \A V : Number(ws, V) \in Nat /\ Number(gone, V) \in Nat /\ Number(kept, V) \in Nat
             /\ Number(ws, V) = Number(gone, V) + Number(kept, V)
  BY NumberIsNatural DEF Splits
<1>5. 0 \in Good
  <2>1. \A m, n : Wired(g, m, n) = Number(ws, Link(m, n)) /\ Upto(gone, 0, Link(m, n)) = 0
    BY UptoSteps DEF Linked
  <2>2. \A m, n : Wired(g, m, n) = Number(ws, Link(m, n)) - Upto(gone, 0, Link(m, n))
    BY <2>1, <1>4
  <2>3. QED BY <2>2, <1>1, <1>2
<1>6. ASSUME NEW i \in Nat, i \in Good PROVE i + 1 \in Good
  <2>1. SUFFICES ASSUME i + 1 <= Len(gone) PROVE Done(i + 1)
    OBVIOUS
  <2>2. Done(i) /\ i \in 0..Len(gone)-1 /\ i \in 0..Len(gone) /\ i + 1 \in 0..Len(gone)
    BY <1>3, <1>6, <2>1
  <2> DEFINE w == gone[i + 1]
             a == w.OutputID
             d == w.InputID
  <2>3. w \in Wire
    BY <1>3, <2>1
  <2>4. p[i + 1] = Removed(p[i], a, d)
    BY <1>2, <1>3, <2>1
  <2>5. \A m, n : w \in Link(m, n) <=> m = a /\ n = d
    BY <2>3 DEF Link
  <2> HIDE DEF w
  <2>6. \A W : Upto(gone, i + 1, W) = Upto(gone, i, W) + IF w \in W THEN 1 ELSE 0
    <3>1. i \in 0..Len(gone)-1
      BY <2>2
    <3>2. ASSUME NEW W
          PROVE  Upto(gone, i + 1, W) = Upto(gone, i, W) + IF gone[i + 1] \in W THEN 1 ELSE 0
      BY <3>1, UptoNext
    <3>3. QED BY <3>2 DEF w
  <2>7. \A W : Upto(gone, i, W) \in Nat /\ Upto(gone, i + 1, W) <= Number(gone, W)
    BY <2>2, UptoSteps
  <2> HIDE DEF a, d
  <2>8. Wired(p[i], a, d) > 0
    <3> DEFINE W == Link(a, d)
    <3>1. Upto(gone, i + 1, W) = Upto(gone, i, W) + 1
      BY <2>5, <2>6
    <3>2. Wired(p[i], a, d) = Number(ws, W) - Upto(gone, i, W)
      BY <2>2
    <3> HIDE DEF W
    <3>3. QED BY <3>1, <3>2, <2>7, <1>4
  <2>9. a \in DOMAIN p[i] /\ d \in DOMAIN p[i] /\ d \in ToSet(p[i][a].Outputs)
    <3>1. d \in DOMAIN p[i] /\ Count(p[i][d].Inputs, a) # 0
      BY <2>8 DEF Wired
    <3>2. p[i][d].Inputs \in Seq(Nat)
      BY <3>1, <2>2, GraphTypes DEF WellFormed
    <3>3. a \in ToSet(p[i][d].Inputs)
      BY <3>1, <3>2, CountIsNatural
    <3>4. a \in DOMAIN p[i]
      BY <3>1, <3>3, <2>2 DEF WellFormed, Contained
    <3>5. QED BY <3>1, <3>3, <3>4, <2>2, BothLists
  <2>10. /\ WellFormed(p[i + 1])
         /\ \A m, n : Wired(p[i + 1], m, n) =
               Wired(p[i], m, n) - IF m = a /\ n = d THEN 1 ELSE 0
    BY <2>2, <2>4, <2>9, RemovedKeeps
  <2>11. ASSUME NEW m, NEW n
         PROVE  Wired(p[i + 1], m, n) = Number(ws, Link(m, n)) - Upto(gone, i + 1, Link(m, n))
    <3> DEFINE W == Link(m, n)
    <3>1. Wired(p[i], m, n) = Number(ws, W) - Upto(gone, i, W)
      BY <2>2
    <3>2. w \in W <=> m = a /\ n = d
      BY <2>5
    <3>3. Wired(p[i + 1], m, n) = Wired(p[i], m, n) - IF w \in W THEN 1 ELSE 0
      BY <3>2, <2>10
    <3> HIDE DEF W
    <3>4. Wired(p[i + 1], m, n) = Number(ws, W) - Upto(gone, i + 1, W)
      BY <3>1, <3>3, <2>6, <2>7, <1>4
    <3>5. QED BY <3>4 DEF W
  <2>12. QED BY <2>10, <2>11
<1>7. Nat \subseteq Good
  <2> HIDE DEF Good
  <2>1. QED BY <1>5, <1>6, SetInduction
<1>8. Done(Len(gone)) /\ r = p[Len(gone)]
  BY <1>2, <1>3, <1>7
<1>9. \A W : Upto(gone, Len(gone), W) = Number(gone, W)
  BY UptoSteps
<1>10. ASSUME NEW m, NEW n PROVE Wired(r, m, n) = Number(kept, Link(m, n))
  <2> DEFINE W == Link(m, n)
  <2>1. Wired(r, m, n) = Number(ws, W) - Number(gone, W)
    BY <1>8, <1>9
  <2> HIDE DEF W
  <2>2. Wired(r, m, n) = Number(kept, W)
    BY <2>1, <1>4
  <2>3. QED BY <2>2 DEF W
<1>11. QED BY <1>8, <1>10 DEF Linked

LEMMA AddedIsGraph ==
    ASSUME NEW g \in AnyGraph, NEW a \in Nat, NEW d \in Nat, NEW ta \in BOOLEAN, NEW td \in BOOLEAN
    PROVE  Added(g, a, ta, d, td) \in AnyGraph
<1> DEFINE h == WithNode(WithNode(g, a, ta), d, td)
           outputs == Append(h[a].Outputs, d)
           inputs == Append(h[d].Inputs, a)
<1>1. g \in [DOMAIN g -> Node] /\ DOMAIN g \in SUBSET Nat
  BY GraphTypes
<1>2. NewNode(ta) \in Node /\ NewNode(td) \in Node
  BY DEF NewNode, Node
<1>3. h \in [DOMAIN g \cup {a, d} -> Node] /\ DOMAIN g \cup {a, d} \in SUBSET Nat
  BY <1>1, <1>2 DEF WithNode
<1>4. Added(g, a, ta, d, td) = EditOf(h, a, outputs, d, inputs)
  BY DEF Added, EditOf
<1> HIDE DEF h
<1>5. h \in AnyGraph /\ a \in DOMAIN h /\ d \in DOMAIN h
  BY <1>3 DEF AnyGraph
<1>6. outputs \in Seq(Nat) /\ inputs \in Seq(Nat)
  BY <1>5, GraphTypes
<1> HIDE DEF outputs, inputs
<1>7. EditOf(h, a, outputs, d, inputs) \in [DOMAIN h -> Node]
  BY <1>5, <1>6, EditsOf
<1>8. DOMAIN h \in SUBSET Nat
  BY <1>5, GraphTypes
<1>9. QED BY <1>4, <1>7, <1>8 DEF AnyGraph

\* The graph with the wires ws between devices of news.
AddedOf(g, news, ws) == FoldLeft(LAMBDA h, w :
                            Added(h, w.OutputID, news[w.OutputID].IsTerminal,
                                  w.InputID, news[w.InputID].IsTerminal), g, ws)

Boxed(news) == {w \in Wire : w.OutputID \in DOMAIN news /\ w.InputID \in DOMAIN news}

LEMMA BoxedWire ==
    ASSUME NEW news, DOMAIN news \in SUBSET Nat, news \in [DOMAIN news -> Shape],
           NEW w \in Boxed(news)
    PROVE  /\ w \in Wire /\ w.OutputID \in Nat /\ w.InputID \in Nat
           /\ news[w.OutputID].IsTerminal \in BOOLEAN /\ news[w.InputID].IsTerminal \in BOOLEAN
BY DEF Boxed, Shape, Wire

LEMMA AddedUnfolds ==
    ASSUME NEW g \in AnyGraph, NEW news, DOMAIN news \in SUBSET Nat,
           news \in [DOMAIN news -> Shape], NEW ws \in Seq(Boxed(news))
    PROVE  \E p : /\ p[0] = g
                  /\ \A i \in 1..Len(ws) : p[i] =
                        Added(p[i - 1], ws[i].OutputID, news[ws[i].OutputID].IsTerminal,
                              ws[i].InputID, news[ws[i].InputID].IsTerminal)
                  /\ AddedOf(g, news, ws) = p[Len(ws)]
<1> DEFINE X == Boxed(news)
           Op(h, w) == Added(h, w.OutputID, news[w.OutputID].IsTerminal,
                             w.InputID, news[w.InputID].IsTerminal)
           F == [x \in AnyGraph \X X |-> Op(x[1], x[2])]
           Eq(f) == f = [t \in SUBSET DOMAIN ws |->
                          IF t = {} THEN g ELSE Op(f[t \ {Max(t)}], ws[Max(t)])]
           c == CHOOSE f : Eq(f)
<1>1. AddedOf(g, news, ws) = c[DOMAIN ws]
  BY DEF AddedOf, FoldLeft, MapThenFoldSet
<1>2. DOMAIN ws = 1..Len(ws) /\ Len(ws) \in Nat /\ \A i \in 1..Len(ws) : ws[i] \in X
  OBVIOUS
<1>3. F \in [AnyGraph \X X -> AnyGraph]
  <2>1. ASSUME NEW h \in AnyGraph, NEW w \in X PROVE Op(h, w) \in AnyGraph
    BY BoxedWire, AddedIsGraph
  <2> HIDE DEF Op, X
  <2>2. QED BY <2>1
<1> HIDE DEF Op, X
<1>4. \E h : Eq(h)
  <2> HIDE DEF F
  <2>1. PICK h : Solves(h, Len(ws), AnyGraph, F, g, ws)
    BY <1>3, FoldSolution DEF X
  <2>2. ASSUME NEW t \in SUBSET (1..Len(ws)), t # {}
        PROVE  F[<<h[t \ {Max(t)}], ws[Max(t)]>>] = Op(h[t \ {Max(t)}], ws[Max(t)])
    <3>1. h[t \ {Max(t)}] \in AnyGraph
      BY <2>1 DEF Solves
    <3>2. Max(t) \in t
      BY <2>2, <1>2, MaxIsMember
    <3>3. ws[Max(t)] \in X
      BY <3>2, <1>2
    <3>4. QED BY <3>1, <3>3 DEF F
  <2>3. Eq(h)
    BY <2>1, <2>2, <1>2 DEF Solves
  <2>4. QED BY <2>3
<1>5. Eq(c)
  <2> HIDE DEF Eq
  <2>1. QED BY <1>4
<1> DEFINE p == [i \in 0..Len(ws) |-> c[1..i]]
<1> HIDE DEF c
<1>6. c[{}] = g
  BY <1>5
<1>7. ASSUME NEW i \in 1..Len(ws) PROVE c[1..i] = Op(c[1..(i-1)], ws[i])
  <2>1. 1..i \in SUBSET DOMAIN ws /\ 1..i # {} /\ Max(1..i) = i /\ (1..i) \ {i} = 1..(i-1)
    BY <1>2, PrefixTable
  <2>2. QED BY <1>5, <2>1
<1>8. p[0] = g /\ \A i \in 1..Len(ws) : p[i] = Op(p[i - 1], ws[i])
  BY <1>2, <1>6, <1>7
<1>9. p[Len(ws)] = c[DOMAIN ws]
  BY <1>2
<1>10. QED BY <1>1, <1>8, <1>9 DEF Op

\* The graph gets the wires that the canvas gets.
LEMMA AddedFollows ==
    ASSUME NEW g, NEW ws \in Seq(Wire), Linked(g, ws),
           NEW news, DOMAIN news \in SUBSET Nat, news \in [DOMAIN news -> Shape],
           NEW good \in Seq(Boxed(news)), NEW r, r = AddedOf(g, news, good)
    PROVE  Linked(r, ws \o good)
<1>1. WellFormed(g) /\ g \in AnyGraph
  BY DEF Linked, WellFormed
<1>2. PICK p : /\ p[0] = g
               /\ \A i \in 1..Len(good) : p[i] =
                     Added(p[i - 1], good[i].OutputID, news[good[i].OutputID].IsTerminal,
                           good[i].InputID, news[good[i].InputID].IsTerminal)
               /\ AddedOf(g, news, good) = p[Len(good)]
  BY <1>1, AddedUnfolds, SMTT(30)
<1>3. Len(good) \in Nat /\ good \in Seq(Wire)
  <2>1. ToSet(good) \subseteq Wire
    BY DEF ToSet, Boxed
  <2>2. QED BY <2>1, SeqOfMembers
<1> DEFINE Done(i) == /\ WellFormed(p[i])
                      /\ \A m, n : Wired(p[i], m, n) =
                            Number(ws, Link(m, n)) + Upto(good, i, Link(m, n))
           Good == {i \in Nat : i <= Len(good) => Done(i)}
<1>4. \A V : Number(ws, V) \in Nat
  BY NumberIsNatural
<1>5. 0 \in Good
  <2>1. \A m, n : Wired(g, m, n) = Number(ws, Link(m, n)) /\ Upto(good, 0, Link(m, n)) = 0
    BY UptoSteps DEF Linked
  <2>2. \A m, n : Wired(g, m, n) = Number(ws, Link(m, n)) + Upto(good, 0, Link(m, n))
    BY <2>1, <1>4
  <2>3. QED BY <2>2, <1>1, <1>2
<1>6. ASSUME NEW i \in Nat, i \in Good PROVE i + 1 \in Good
  <2>1. SUFFICES ASSUME i + 1 <= Len(good) PROVE Done(i + 1)
    OBVIOUS
  <2>2. Done(i) /\ i \in 0..Len(good)-1 /\ i \in 0..Len(good)
    BY <1>3, <1>6, <2>1
  <2> DEFINE w == good[i + 1]
             a == w.OutputID
             d == w.InputID
             ta == news[a].IsTerminal
             td == news[d].IsTerminal
  <2>3. w \in Boxed(news)
    BY <1>3, <2>1
  <2>4. p[i + 1] = Added(p[i], a, ta, d, td)
    BY <1>2, <1>3, <2>1, SMTT(30)
  <2>5. \A W : Upto(good, i + 1, W) = Upto(good, i, W) + IF w \in W THEN 1 ELSE 0
    <3>1. i \in 0..Len(good)-1
      BY <2>2
    <3>2. ASSUME NEW W
          PROVE  Upto(good, i + 1, W) = Upto(good, i, W) + IF good[i + 1] \in W THEN 1 ELSE 0
      BY <3>1, <1>3, UptoNext
    <3>3. QED BY <3>2 DEF w
  <2> HIDE DEF w
  <2>6. w \in Wire /\ a \in Nat /\ d \in Nat /\ ta \in BOOLEAN /\ td \in BOOLEAN
    BY <2>3, BoxedWire
  <2>7. \A m, n : w \in Link(m, n) <=> m = a /\ n = d
    BY <2>6 DEF Link
  <2>8. \A W : Upto(good, i, W) \in Nat
    BY <2>2, <1>3, UptoSteps
  <2> HIDE DEF a, d, ta, td
  <2>9. /\ WellFormed(p[i + 1])
        /\ \A m, n : Wired(p[i + 1], m, n) =
              Wired(p[i], m, n) + IF m = a /\ n = d THEN 1 ELSE 0
    <3>1. WellFormed(p[i])
      BY <2>2
    <3>2. PICK h, k : h = p[i] /\ k = p[i + 1]
      OBVIOUS
    <3>3. WellFormed(h) /\ k = Added(h, a, ta, d, td)
      BY <2>4, <3>1, <3>2
    <3> HIDE DEF Done, Good
    <3>4. /\ WellFormed(k)
          /\ \A m, n : Wired(k, m, n) = Wired(h, m, n) + IF m = a /\ n = d THEN 1 ELSE 0
      <4>1. a \in Nat /\ d \in Nat /\ ta \in BOOLEAN /\ td \in BOOLEAN
        BY <2>6
      <4>2. WellFormed(h)
        BY <3>3
      <4>3. k = Added(h, a, ta, d, td)
        BY <3>3
      <4>4. WellFormed(k) /\ OneMore(h, k, a, d)
        BY <4>1, <4>2, <4>3, AddedKeeps
      <4>5. QED BY <4>4 DEF OneMore
    <3>5. QED BY <3>2, <3>4
  <2>10. ASSUME NEW m, NEW n
         PROVE  Wired(p[i + 1], m, n) = Number(ws, Link(m, n)) + Upto(good, i + 1, Link(m, n))
    <3> DEFINE W == Link(m, n)
    <3>1. Wired(p[i], m, n) = Number(ws, W) + Upto(good, i, W)
      BY <2>2
    <3>2. w \in W <=> m = a /\ n = d
      BY <2>7
    <3>3. Wired(p[i + 1], m, n) = Wired(p[i], m, n) + IF w \in W THEN 1 ELSE 0
      BY <3>2, <2>9
    <3> HIDE DEF W
    <3>4. Wired(p[i + 1], m, n) = Number(ws, W) + Upto(good, i + 1, W)
      BY <3>1, <3>3, <2>5, <2>8, <1>4
    <3>5. QED BY <3>4 DEF W
  <2>11. QED BY <2>9, <2>10
<1>7. Nat \subseteq Good
  <2> HIDE DEF Good
  <2>1. QED BY <1>5, <1>6, SetInduction
<1>8. Done(Len(good)) /\ r = p[Len(good)]
  BY <1>2, <1>3, <1>7
<1>9. \A W : Upto(good, Len(good), W) = Number(good, W)
  BY <1>3, UptoSteps
<1>10. ASSUME NEW m, NEW n PROVE Wired(r, m, n) = Number(ws \o good, Link(m, n))
  BY <1>3, <1>8, <1>9, NumberConcat
<1>11. QED BY <1>8, <1>10 DEF Linked

-----------------------------------------------------------------------------
(* The invariant of the canvas.                                            *)

\* The wires to an input, and those whose ends are ports of the boxes.
Into(id, p) == {w \in Wire : w.InputID = id /\ w.InputPort = p}
Between(info) == {w \in Wire : Available(info, w)}

\* What an input of a device can point to.
Output == {NULL} \cup (Nat \X Nat)

\* Every box has its buttons and its device's inputs.
Boxes(info, counts, inputs) ==
    /\ info \in [DOMAIN info -> Shape] /\ DOMAIN info \subseteq Nat
    /\ DOMAIN counts = DOMAIN info /\ DOMAIN inputs = DOMAIN info
    /\ \A id \in DOMAIN info : /\ counts[id] \in [Buttons(info[id]) -> Nat]
                               /\ inputs[id] \in [Inputs(info[id]) -> Output]

\* No input has two wires.
Alone(ws) == \A id, p : Number(ws, Into(id, p)) <= 1

\* The input's button is lit while a wire leads to it.
Shown(info, counts, ws) ==
    \A id \in DOMAIN info : \A p \in Inputs(info[id]) :
        counts[id][p] = Number(ws, Into(id, p))

\* The input points where its wire comes from.
Pointed(info, inputs, ws) ==
    \A id \in DOMAIN info : \A p \in Inputs(info[id]) :
        /\ \A w \in ToSet(ws) : w \in Into(id, p) =>
              inputs[id][p] = <<w.OutputID, w.OutputPort>>
        /\ ToSet(ws) \cap Into(id, p) = {} => inputs[id][p] = NULL

Agreed(info, counts, inputs, ws) == /\ ToSet(ws) \subseteq Between(info)
                                    /\ Alone(ws)
                                    /\ Shown(info, counts, ws)
                                    /\ Pointed(info, inputs, ws)

\* The wire being drawn has one end or none.
FromOutput(id, p) == [OutputID |-> id, OutputPort |-> p,
                      InputID |-> None, InputPort |-> None]
FromInput(id, p) == [OutputID |-> None, OutputPort |-> None,
                     InputID |-> id, InputPort |-> p]
Begun(w) == \/ w = NoWire
            \/ /\ w.OutputID \in Nat /\ w.OutputPort \in Nat
               /\ w = FromOutput(w.OutputID, w.OutputPort)
            \/ /\ w.InputID \in Nat /\ w.InputPort \in Nat
               /\ w = FromInput(w.InputID, w.InputPort)

\* Its end is a port of a box, and no wire leads to it.
AtPort(info, counts, w) ==
    /\ w.OutputID # None => /\ w.OutputID \in DOMAIN info
                            /\ w.OutputPort < info[w.OutputID].NumOutputs
    /\ w.InputID # None => /\ w.InputID \in DOMAIN info
                           /\ w.InputPort < info[w.InputID].NumInputs
                           /\ counts[w.InputID][w.InputPort] = 0

Typed == /\ Boxes(m_Info, m_PortVec, m_Input)
         /\ m_NextID \in Nat /\ \A id \in DOMAIN m_Info : id < m_NextID
         /\ m_WireVec \in Seq(Wire)
         /\ Begun(m_IncompleteWire)
         /\ orphaned \in BOOLEAN /\ broken \in BOOLEAN

InStep == /\ Agreed(m_Info, m_PortVec, m_Input, m_WireVec)
          /\ AtPort(m_Info, m_PortVec, m_IncompleteWire)

CanvasIInv == /\ Typed
              /\ ~broken => Linked(m_Graph, m_WireVec)
              /\ ~orphaned => Alone(m_WireVec)
              /\ ~orphaned /\ ~broken => InStep

-----------------------------------------------------------------------------
(* Taking wires away.                                                      *)

LEMMA BoxAt ==
    ASSUME NEW info, NEW counts, NEW inputs, Boxes(info, counts, inputs), NEW id \in DOMAIN info
    PROVE  /\ info[id] \in Shape /\ id \in Nat
           /\ info[id].NumInputs \in Nat /\ info[id].NumOutputs \in Nat
           /\ info[id].IsTerminal \in BOOLEAN
           /\ id \in DOMAIN counts /\ id \in DOMAIN inputs
           /\ DOMAIN counts[id] = Buttons(info[id]) /\ DOMAIN inputs[id] = Inputs(info[id])
           /\ \A b \in Buttons(info[id]) : b \in Nat /\ counts[id][b] \in Nat
           /\ \A p \in Inputs(info[id]) : /\ p \in Nat /\ p \in Buttons(info[id])
                                          /\ p < info[id].NumInputs
                                          /\ inputs[id][p] \in Output
<1>1. info[id] \in Shape
  BY DEF Boxes
<1>2. info[id].NumInputs \in Nat /\ info[id].NumOutputs \in Nat /\ info[id].IsTerminal \in BOOLEAN
  BY <1>1 DEF Shape
<1>3. id \in DOMAIN counts /\ id \in DOMAIN inputs /\ id \in Nat
  BY DEF Boxes
<1>4. counts[id] \in [Buttons(info[id]) -> Nat] /\ inputs[id] \in [Inputs(info[id]) -> Output]
  BY DEF Boxes
<1>5. \A b \in Buttons(info[id]) : b \in Nat
  BY <1>2 DEF Buttons
<1>6. \A p \in Inputs(info[id]) : p \in Nat /\ p \in Buttons(info[id]) /\ p < info[id].NumInputs
  BY <1>2 DEF Buttons, Inputs
<1>7. QED BY <1>1, <1>2, <1>3, <1>4, <1>5, <1>6

LEMMA LeadToIs ==
    ASSUME NEW ws \in Seq(Wire), NEW id, NEW p
    PROVE  /\ LeadTo(ws, id, p) = {k \in DOMAIN ws : ws[k] \in Into(id, p)}
           /\ Number(ws, Into(id, p)) = Cardinality(LeadTo(ws, id, p))
           /\ Number(ws, Into(id, p)) \in Nat
           /\ LeadTo(ws, id, p) = {} <=> ToSet(ws) \cap Into(id, p) = {}
           /\ LeadTo(ws, id, p) = {} <=> Number(ws, Into(id, p)) = 0
<1>1. \A k \in DOMAIN ws : ws[k] \in Wire
  OBVIOUS
<1>2. LeadTo(ws, id, p) = {k \in DOMAIN ws : ws[k] \in Into(id, p)}
  BY <1>1 DEF LeadTo, Into
<1>3. Number(ws, Into(id, p)) = Cardinality(LeadTo(ws, id, p))
  BY <1>2 DEF Number
<1>4. Number(ws, Into(id, p)) \in Nat
      /\ (Number(ws, Into(id, p)) = 0 <=> ToSet(ws) \cap Into(id, p) = {})
  BY NumberIsNatural
<1>5. LeadTo(ws, id, p) = {} <=> ToSet(ws) \cap Into(id, p) = {}
  BY <1>2 DEF ToSet
<1>6. QED BY <1>2, <1>3, <1>4, <1>5

LEMMA UsesIs ==
    ASSUME NEW ws \in Seq(Wire), NEW info \in Shape, NEW id, NEW b \in Nat
    PROVE  /\ Uses(ws, info, id, b) \in Nat
           /\ b \in Inputs(info) => Uses(ws, info, id, b) = Number(ws, Into(id, b))
<1> DEFINE A == {k \in DOMAIN ws : \/ ws[k].InputID = id /\ ws[k].InputPort = b
                                   \/ ws[k].OutputID = id /\ ws[k].OutputPort + info.NumInputs = b}
<1>1. Uses(ws, info, id, b) = Cardinality(A)
  BY DEF Uses
<1>2. IsFiniteSet(A)
  <2>1. A \in SUBSET DOMAIN ws
    OBVIOUS
  <2> HIDE DEF A
  <2>2. QED BY <2>1, FinitePlaces
<1>3. Cardinality(A) \in Nat
  <2> HIDE DEF A
  <2>1. QED BY <1>2, FS_CardinalityType
<1>4. ASSUME b \in Inputs(info) PROVE A = LeadTo(ws, id, b)
  <2>1. info.NumInputs \in Nat
    BY DEF Shape
  <2>2. b < info.NumInputs
    BY <1>4, <2>1 DEF Inputs
  <2>3. ASSUME NEW k \in DOMAIN ws PROVE ws[k].OutputPort + info.NumInputs # b
    <3>0. ws[k] \in Wire
      OBVIOUS
    <3>1. ws[k].OutputPort \in Nat
      BY <3>0 DEF Wire
    <3>2. QED BY <3>1, <2>1, <2>2
  <2>4. QED BY <2>3 DEF LeadTo
<1>5. QED BY <1>1, <1>3, <1>4, LeadToIs

LEMMA GivenIsNatural == ASSUME NEW e PROVE Given(e) \in Nat
BY DEF Given

LEMMA MinusIsNatural == ASSUME NEW m \in Nat, NEW n \in Nat PROVE Minus(m, n) \in Nat
BY DEF Minus

\* What is taken off the count of a button.
Off(ws, info, id, b, givenup) ==
    Uses(ws, info, id, b) + IF givenup THEN Given(<<id, b>>) ELSE 0

LEMMA ReleasedAt ==
    ASSUME Boxes(m_Info, m_PortVec, m_Input), NEW ws \in Seq(Wire), NEW givenup,
           NEW id \in DOMAIN m_Info
    PROVE  /\ DOMAIN Released(ws, givenup) = DOMAIN m_Info
           /\ DOMAIN Released(ws, givenup)[id] = Buttons(m_Info[id])
           /\ Released(ws, givenup)[id] \in [Buttons(m_Info[id]) -> Nat]
           /\ \A b \in Buttons(m_Info[id]) :
                 /\ Off(ws, m_Info[id], id, b, givenup) \in Nat
                 /\ Released(ws, givenup)[id][b] =
                       Minus(m_PortVec[id][b], Off(ws, m_Info[id], id, b, givenup))
<1>1. DOMAIN m_PortVec = DOMAIN m_Info
  BY DEF Boxes
<1>2. m_Info[id] \in Shape /\ DOMAIN m_PortVec[id] = Buttons(m_Info[id])
      /\ \A b \in Buttons(m_Info[id]) : b \in Nat /\ m_PortVec[id][b] \in Nat
  BY BoxAt
<1>3. Released(ws, givenup)[id] =
         [b \in Buttons(m_Info[id]) |->
             Minus(m_PortVec[id][b], Off(ws, m_Info[id], id, b, givenup))]
  BY <1>1, <1>2 DEF Released, Off
<1>4. \A b \in Buttons(m_Info[id]) : Off(ws, m_Info[id], id, b, givenup) \in Nat
  <2>1. ASSUME NEW b \in Buttons(m_Info[id]) PROVE Off(ws, m_Info[id], id, b, givenup) \in Nat
    <3>1. Uses(ws, m_Info[id], id, b) \in Nat
      BY <1>2, UsesIs
    <3>2. Given(<<id, b>>) \in Nat
      BY GivenIsNatural
    <3>3. QED BY <3>1, <3>2 DEF Off
  <2>2. QED BY <2>1
<1>5. \A b \in Buttons(m_Info[id]) :
          Minus(m_PortVec[id][b], Off(ws, m_Info[id], id, b, givenup)) \in Nat
  BY <1>2, <1>4, MinusIsNatural
<1>6. DOMAIN Released(ws, givenup) = DOMAIN m_Info
  BY <1>1 DEF Released
<1>7. QED BY <1>3, <1>4, <1>5, <1>6

LEMMA PointersAt ==
    ASSUME Boxes(m_Info, m_PortVec, m_Input), NEW ws, NEW id \in DOMAIN m_Info
    PROVE  /\ DOMAIN Pointers(ws) = DOMAIN m_Info
           /\ Pointers(ws)[id] \in [Inputs(m_Info[id]) -> Output]
           /\ \A p \in Inputs(m_Info[id]) :
                 Pointers(ws)[id][p] = IF LeadTo(ws, id, p) # {} THEN NULL ELSE m_Input[id][p]
<1>1. DOMAIN m_Input = DOMAIN m_Info
  BY DEF Boxes
<1>2. DOMAIN m_Input[id] = Inputs(m_Info[id])
      /\ \A p \in Inputs(m_Info[id]) : m_Input[id][p] \in Output
  BY BoxAt
<1>3. Pointers(ws)[id] = [p \in Inputs(m_Info[id]) |->
                             IF LeadTo(ws, id, p) # {} THEN NULL ELSE m_Input[id][p]]
  BY <1>1, <1>2 DEF Pointers
<1>4. NULL \in Output
  BY DEF Output
<1>5. DOMAIN Pointers(ws) = DOMAIN m_Info
  BY <1>1 DEF Pointers
<1>6. QED BY <1>2, <1>3, <1>4, <1>5

LEMMA ReleasedBoxes ==
    ASSUME Boxes(m_Info, m_PortVec, m_Input), NEW ws \in Seq(Wire), NEW givenup
    PROVE  Boxes(m_Info, Released(ws, givenup), Pointers(ws))
<1>1. DOMAIN Released(ws, givenup) = DOMAIN m_Info /\ DOMAIN Pointers(ws) = DOMAIN m_Info
  BY DEF Released, Pointers, Boxes
<1>2. \A id \in DOMAIN m_Info : /\ Released(ws, givenup)[id] \in [Buttons(m_Info[id]) -> Nat]
                                /\ Pointers(ws)[id] \in [Inputs(m_Info[id]) -> Output]
  BY ReleasedAt, PointersAt
<1>3. QED BY <1>1, <1>2 DEF Boxes

\* A list of wires is divided into those that go and those that stay.
Divided(ws, gone, kept) == /\ gone \in Seq(Wire) /\ kept \in Seq(Wire)
                           /\ ToSet(ws) = ToSet(gone) \cup ToSet(kept)
                           /\ Splits(ws, gone, kept)

LEMMA AloneStays ==
    ASSUME NEW ws \in Seq(Wire), NEW gone, NEW kept, Divided(ws, gone, kept), Alone(ws)
    PROVE  Alone(kept)
<1>1. ASSUME NEW id, NEW p PROVE Number(kept, Into(id, p)) <= 1
  <2>1. gone \in Seq(Wire) /\ kept \in Seq(Wire)
    BY DEF Divided
  <2>2. Number(ws, Into(id, p)) = Number(gone, Into(id, p)) + Number(kept, Into(id, p))
    BY DEF Divided, Splits
  <2>3. Number(gone, Into(id, p)) \in Nat /\ Number(kept, Into(id, p)) \in Nat
    BY <2>1, LeadToIs
  <2>4. Number(ws, Into(id, p)) <= 1
    BY DEF Alone
  <2>5. QED BY <2>2, <2>3, <2>4
<1>2. QED BY <1>1 DEF Alone

\* A count that is taken off nothing stays nothing.
LEMMA NothingOff == ASSUME NEW n \in Nat PROVE Minus(0, n) = 0
BY DEF Minus

\* The end of the wire being drawn is no button that is lit.
LEMMA GivenUnlit ==
    ASSUME Boxes(m_Info, m_PortVec, m_Input), Begun(m_IncompleteWire),
           AtPort(m_Info, m_PortVec, m_IncompleteWire),
           NEW id \in DOMAIN m_Info, NEW p \in Inputs(m_Info[id]), Given(<<id, p>>) # 0
    PROVE  m_PortVec[id][p] = 0
<1>1. <<id, p>> \in DrawnEnds
  BY DEF Given
<1>2. id \in Nat /\ p \in Nat /\ p < m_Info[id].NumInputs /\ m_Info[id].NumInputs \in Nat
  BY BoxAt
<1>3. CASE id = m_IncompleteWire.InputID /\ p = m_IncompleteWire.InputPort
  BY <1>2, <1>3 DEF AtPort, None
<1>4. CASE id = m_IncompleteWire.OutputID /\ p = OutButton(m_IncompleteWire)
  <2>1. m_IncompleteWire.OutputPort \in Nat
    BY <1>2, <1>4 DEF Begun, NoWire, FromInput, None
  <2>2. FALSE
    BY <1>2, <1>4, <2>1 DEF OutButton
  <2>3. QED BY <2>2
<1>5. QED BY <1>1, <1>2, <1>3, <1>4 DEF DrawnEnds, HasBox

LEMMA TakenShows ==
    ASSUME Boxes(m_Info, m_PortVec, m_Input), Begun(m_IncompleteWire), InStep,
           m_WireVec \in Seq(Wire), NEW gone, NEW kept, Divided(m_WireVec, gone, kept),
           NEW givenup
    PROVE  Shown(m_Info, Released(gone, givenup), kept)
<1>1. gone \in Seq(Wire) /\ kept \in Seq(Wire)
  BY DEF Divided
<1>2. ASSUME NEW id \in DOMAIN m_Info, NEW p \in Inputs(m_Info[id])
      PROVE  Released(gone, givenup)[id][p] = Number(kept, Into(id, p))
  <2> DEFINE n == Number(gone, Into(id, p))
             k == Number(kept, Into(id, p))
             m == m_PortVec[id][p]
             off == Off(gone, m_Info[id], id, p, givenup)
  <2>1. p \in Nat /\ p \in Buttons(m_Info[id]) /\ m_Info[id] \in Shape
    BY BoxAt
  <2>2. Released(gone, givenup)[id][p] = Minus(m, off) /\ off \in Nat
    BY <1>1, <2>1, ReleasedAt
  <2>3. n \in Nat /\ k \in Nat
    BY <1>1, LeadToIs
  <2>4. m = n + k
    <3>1. m = Number(m_WireVec, Into(id, p))
      BY DEF InStep, Agreed, Shown
    <3>2. Number(m_WireVec, Into(id, p)) = n + k
      BY DEF Divided, Splits
    <3>3. QED BY <3>1, <3>2
  <2>5. Uses(gone, m_Info[id], id, p) = n
    BY <1>1, <2>1, UsesIs
  <2>6. CASE m = 0
    <3> HIDE DEF n, k, m, off
    <3>1. k = 0
      BY <2>3, <2>4, <2>6
    <3>2. Minus(m, off) = 0
      BY <2>2, <2>6, NothingOff
    <3>3. QED BY <2>2, <3>1, <3>2 DEF k
  <2>7. CASE m # 0
    <3>1. Given(<<id, p>>) = 0
      BY <2>7, GivenUnlit DEF InStep
    <3>2. off = n
      BY <3>1, <2>3, <2>5 DEF Off
    <3> HIDE DEF n, k, m, off
    <3>3. Minus(m, off) = k
      BY <2>3, <2>4, <3>2 DEF Minus
    <3>4. QED BY <2>2, <3>3 DEF k
  <2>8. QED BY <2>6, <2>7
<1>3. QED BY <1>2 DEF Shown

LEMMA TakenPoints ==
    ASSUME Boxes(m_Info, m_PortVec, m_Input), InStep,
           m_WireVec \in Seq(Wire), NEW gone, NEW kept, Divided(m_WireVec, gone, kept)
    PROVE  Pointed(m_Info, Pointers(gone), kept)
<1>1. gone \in Seq(Wire) /\ kept \in Seq(Wire) /\ ToSet(m_WireVec) = ToSet(gone) \cup ToSet(kept)
  BY DEF Divided
<1>2. ASSUME NEW id \in DOMAIN m_Info, NEW p \in Inputs(m_Info[id])
      PROVE  /\ \A w \in ToSet(kept) : w \in Into(id, p) =>
                   Pointers(gone)[id][p] = <<w.OutputID, w.OutputPort>>
             /\ ToSet(kept) \cap Into(id, p) = {} => Pointers(gone)[id][p] = NULL
  <2>1. Pointers(gone)[id][p] = IF LeadTo(gone, id, p) # {} THEN NULL ELSE m_Input[id][p]
    BY PointersAt
  <2>2. /\ \A w \in ToSet(m_WireVec) : w \in Into(id, p) =>
              m_Input[id][p] = <<w.OutputID, w.OutputPort>>
        /\ ToSet(m_WireVec) \cap Into(id, p) = {} => m_Input[id][p] = NULL
    BY DEF InStep, Agreed, Pointed
  <2>3. LeadTo(gone, id, p) = {} <=> ToSet(gone) \cap Into(id, p) = {}
    BY <1>1, LeadToIs
  <2>4. ASSUME NEW w \in ToSet(kept), w \in Into(id, p)
        PROVE  Pointers(gone)[id][p] = <<w.OutputID, w.OutputPort>>
    <3>1. Number(kept, Into(id, p)) \in Nat \ {0}
      BY <1>1, <2>4, LeadToIs
    <3>2. Number(m_WireVec, Into(id, p)) = Number(gone, Into(id, p)) + Number(kept, Into(id, p))
      BY DEF Divided, Splits
    <3>3. Number(m_WireVec, Into(id, p)) <= 1
      BY DEF InStep, Agreed, Alone
    <3>4. Number(gone, Into(id, p)) \in Nat
          /\ (LeadTo(gone, id, p) = {} <=> Number(gone, Into(id, p)) = 0)
      BY <1>1, LeadToIs
    <3>5. LeadTo(gone, id, p) = {}
      BY <3>1, <3>2, <3>3, <3>4
    <3>6. m_Input[id][p] = <<w.OutputID, w.OutputPort>>
      BY <1>1, <2>2, <2>4
    <3>7. QED BY <2>1, <3>5, <3>6
  <2>5. ASSUME ToSet(kept) \cap Into(id, p) = {} PROVE Pointers(gone)[id][p] = NULL
    BY <1>1, <2>1, <2>2, <2>3, <2>5
  <2>6. QED BY <2>4, <2>5
<1>3. QED BY <1>2 DEF Pointed

\* Buttons and pointers are right again for the wires that stay.
LEMMA TakenAgrees ==
    ASSUME Boxes(m_Info, m_PortVec, m_Input), Begun(m_IncompleteWire), InStep,
           m_WireVec \in Seq(Wire), NEW gone, NEW kept, Divided(m_WireVec, gone, kept),
           NEW givenup
    PROVE  Agreed(m_Info, Released(gone, givenup), Pointers(gone), kept)
<1>1. Shown(m_Info, Released(gone, givenup), kept)
  BY TakenShows
<1>2. Pointed(m_Info, Pointers(gone), kept)
  BY TakenPoints
<1>3. Alone(kept)
  BY AloneStays DEF InStep, Agreed
<1>4. ToSet(kept) \subseteq Between(m_Info)
  BY DEF InStep, Agreed, Divided
<1>5. QED BY <1>1, <1>2, <1>3, <1>4 DEF Agreed

\* A wire being drawn whose end stays has that end as it was.
LEMMA TakenAtPort ==
    ASSUME Boxes(m_Info, m_PortVec, m_Input), Begun(m_IncompleteWire), InStep,
           NEW gone \in Seq(Wire), NEW givenup
    PROVE  AtPort(m_Info, Released(gone, givenup), m_IncompleteWire)
<1> DEFINE id == m_IncompleteWire.InputID
           p == m_IncompleteWire.InputPort
<1>1. AtPort(m_Info, m_PortVec, m_IncompleteWire)
  BY DEF InStep
<1>2. ASSUME id # None PROVE Released(gone, givenup)[id][p] = 0
  <2>1. id \in DOMAIN m_Info /\ p < m_Info[id].NumInputs /\ m_PortVec[id][p] = 0
    BY <1>1, <1>2 DEF AtPort
  <2>2. p \in Nat
    BY <1>2 DEF Begun, NoWire, FromOutput
  <2>3. p \in Buttons(m_Info[id])
    BY <2>1, <2>2, BoxAt DEF Buttons
  <2>4. Released(gone, givenup)[id][p] =
           Minus(m_PortVec[id][p], Off(gone, m_Info[id], id, p, givenup))
        /\ Off(gone, m_Info[id], id, p, givenup) \in Nat
    BY <2>1, <2>3, ReleasedAt
  <2>5. QED BY <2>1, <2>4, NothingOff
<1>3. QED BY <1>1, <1>2 DEF AtPort

LEMMA AmongDivides ==
    ASSUME NEW ws \in Seq(Wire), NEW W, NEW gone, gone = Among(ws, W),
           NEW kept, kept = Among(ws, ToSet(ws) \ ToSet(gone))
    PROVE  Divided(ws, gone, kept) /\ ToSet(kept) = ToSet(ws) \ W
<1>1. gone \in Seq(Wire) /\ ToSet(gone) = ToSet(ws) \cap W
      /\ kept \in Seq(Wire) /\ ToSet(kept) = ToSet(ws) \ W
      /\ \A V : Number(ws, V) = Number(gone, V) + Number(kept, V)
  BY Parted
<1>2. QED BY <1>1 DEF Divided, Splits

LEMMA NothingGone ==
    ASSUME NEW ws \in Seq(Wire)
    PROVE  Divided(ws, << >>, ws)
<1>1. << >> \in Seq(Wire) /\ ToSet(<< >>) = {}
  BY DEF ToSet
<1>2. \A V : Number(<< >>, V) = 0
  BY <1>1, NumberIsNatural
<1>3. \A V : Number(ws, V) \in Nat
  BY NumberIsNatural
<1>4. QED BY <1>1, <1>2, <1>3 DEF Divided, Splits

LEMMA NothingDrawn ==
    ASSUME NEW info, NEW counts
    PROVE  Begun(NoWire) /\ AtPort(info, counts, NoWire)
BY DEF Begun, AtPort, NoWire, None

LEMMA UnwireGraphKeeps ==
    ASSUME m_WireVec \in Seq(Wire), Linked(m_Graph, m_WireVec),
           NEW gone, NEW kept, Divided(m_WireVec, gone, kept), UnwireGraph(gone)
    PROVE  Linked(m_Graph', kept)
<1>1. m_Graph' = UnwiredOf(m_Graph, gone)
  BY DEF UnwireGraph, UnwiredOf
<1>2. gone \in Seq(Wire) /\ kept \in Seq(Wire) /\ Splits(m_WireVec, gone, kept)
  BY DEF Divided
<1>3. QED BY <1>1, <1>2, UnwiredKeeps

LEMMA ClearIncompleteWireKeeps ==
    ASSUME CanvasIInv, ~broken, ClearIncompleteWire
    PROVE  CanvasIInv'
<1>1. /\ m_Info' = m_Info /\ m_Input' = m_Input /\ m_NextID' = m_NextID
      /\ m_WireVec' = m_WireVec /\ m_Graph' = m_Graph /\ orphaned' = orphaned
      /\ m_IncompleteWire' = NoWire
  BY DEF ClearIncompleteWire, wires
<1>2. CASE EndMissing
  <2>1. broken' = TRUE /\ m_PortVec' = m_PortVec
    BY <1>2 DEF ClearIncompleteWire
  <2>2. Begun(NoWire)
    BY NothingDrawn
  <2>3. Typed'
    BY <1>1, <2>1, <2>2 DEF CanvasIInv, Typed
  <2>4. QED BY <1>1, <2>1, <2>3 DEF CanvasIInv
<1>3. CASE ~EndMissing
  <2>1. broken' = broken /\ m_PortVec' = Released(<< >>, TRUE)
    BY <1>3 DEF ClearIncompleteWire
  <2>2. Typed
    BY DEF CanvasIInv
  <2>3. Begun(NoWire) /\ AtPort(m_Info, m_PortVec', NoWire)
    BY NothingDrawn
  <2>4. Divided(m_WireVec, << >>, m_WireVec)
    BY <2>2, NothingGone DEF Typed
  <2>5. Boxes(m_Info, m_PortVec', m_Input)
    <3>0. << >> \in Seq(Wire)
      OBVIOUS
    <3>1. Boxes(m_Info, Released(<< >>, TRUE), Pointers(<< >>))
      BY <2>2, <3>0, ReleasedBoxes DEF Typed
    <3>2. QED BY <2>1, <2>2, <3>1 DEF Typed, Boxes
  <2>6. Typed'
    BY <1>1, <2>1, <2>2, <2>3, <2>5 DEF Typed
  <2>7. ASSUME InStep PROVE InStep'
    <3>1. Shown(m_Info, m_PortVec', m_WireVec)
      BY <2>1, <2>2, <2>4, <2>7, TakenShows DEF Typed
    <3>2. Agreed(m_Info, m_PortVec', m_Input, m_WireVec)
      BY <2>7, <3>1 DEF InStep, Agreed
    <3>3. QED BY <1>1, <2>3, <3>2 DEF InStep
  <2>8. QED BY <1>1, <2>1, <2>6, <2>7 DEF CanvasIInv
<1>4. QED BY <1>2, <1>3

\* The right button.
LEMMA DisconnectKeeps ==
    ASSUME CanvasIInv, ~broken, NEW id \in DOMAIN m_Info, NEW b, Disconnect(id, b)
    PROVE  CanvasIInv'
<1> DEFINE used == {w \in ToSet(m_WireVec) : \/ w.InputID = id /\ w.InputPort = b
                                             \/ w.OutputID = id /\ OutButton(w) = b}
           gone == Among(m_WireVec, used)
           kept == Among(m_WireVec, ToSet(m_WireVec) \ ToSet(gone))
<1>1. /\ m_Info' = m_Info /\ m_NextID' = m_NextID /\ orphaned' = orphaned
      /\ m_IncompleteWire' = NoWire
      /\ m_WireVec' = kept
      /\ m_PortVec' = Released(gone, FALSE) /\ m_Input' = Pointers(gone)
      /\ UnwireGraph(gone)
      /\ broken' = Break(gone, FALSE)
  BY DEF Disconnect
<1>2. broken' \in BOOLEAN
  BY <1>1 DEF Break
<1>3. Typed /\ Linked(m_Graph, m_WireVec) /\ (~orphaned => InStep /\ Alone(m_WireVec))
  BY DEF CanvasIInv
<1>4. Divided(m_WireVec, gone, kept) /\ m_WireVec \in Seq(Wire)
  <2> HIDE DEF used
  <2>1. m_WireVec \in Seq(Wire)
    BY <1>3 DEF Typed
  <2>2. QED BY <2>1, AmongDivides
<1> HIDE DEF used, gone, kept
<1>5. gone \in Seq(Wire) /\ kept \in Seq(Wire)
  BY <1>4 DEF Divided
<1>6. Typed'
  <2>1. Boxes(m_Info, m_PortVec', m_Input')
    BY <1>1, <1>3, <1>5, ReleasedBoxes DEF Typed
  <2>2. QED BY <1>1, <1>2, <1>3, <1>5, <2>1, NothingDrawn DEF Typed
<1>7. Linked(m_Graph', m_WireVec')
  BY <1>1, <1>3, <1>4, UnwireGraphKeeps
<1>8. ASSUME ~orphaned PROVE InStep' /\ Alone(m_WireVec')
  <2>1. Agreed(m_Info, m_PortVec', m_Input', m_WireVec')
    BY <1>1, <1>3, <1>4, <1>8, TakenAgrees DEF Typed
  <2>2. AtPort(m_Info, m_PortVec', m_IncompleteWire')
    BY <1>1, NothingDrawn
  <2>3. QED BY <1>1, <2>1, <2>2 DEF InStep, Agreed
<1>9. QED BY <1>1, <1>6, <1>7, <1>8 DEF CanvasIInv

\* The wires that are left when those of W are gone, with buttons, pointers
\* and graph, after a device is removed or changed.
LEMMA PruneKeeps ==
    ASSUME CanvasIInv, ~broken, NEW id \in DOMAIN m_Info, NEW W,
           NEW gone, gone = Among(m_WireVec, W), Prune(id, gone)
    PROVE  /\ m_WireVec' \in Seq(Wire) /\ ToSet(m_WireVec') = ToSet(m_WireVec) \ W
           /\ Linked(m_Graph', m_WireVec')
           /\ broken' \in BOOLEAN
           /\ Begun(m_IncompleteWire')
           /\ m_IncompleteWire'.OutputID # id /\ m_IncompleteWire'.InputID # id
           /\ Boxes(m_Info, Released(gone, DrawnFrom(id)), Pointers(gone))
           /\ ~orphaned => /\ Agreed(m_Info, Released(gone, DrawnFrom(id)),
                                     Pointers(gone), m_WireVec')
                           /\ AtPort(m_Info, Released(gone, DrawnFrom(id)), m_IncompleteWire')
<1> DEFINE kept == Among(m_WireVec, ToSet(m_WireVec) \ ToSet(gone))
<1>1. /\ m_WireVec' = kept /\ UnwireGraph(gone)
      /\ m_IncompleteWire' = IF DrawnFrom(id) THEN NoWire ELSE m_IncompleteWire
      /\ broken' = Break(gone, DrawnFrom(id))
  BY DEF Prune
<1>2. broken' \in BOOLEAN
  BY <1>1 DEF Break
<1>3. Typed /\ Linked(m_Graph, m_WireVec) /\ (~orphaned => InStep)
  BY DEF CanvasIInv
<1>4. m_WireVec \in Seq(Wire) /\ Begun(m_IncompleteWire) /\ Boxes(m_Info, m_PortVec, m_Input)
  BY <1>3 DEF Typed
<1>5. Divided(m_WireVec, gone, kept) /\ ToSet(kept) = ToSet(m_WireVec) \ W
  BY <1>4, AmongDivides
<1> HIDE DEF kept
<1>6. gone \in Seq(Wire) /\ kept \in Seq(Wire)
  BY <1>5 DEF Divided
<1>7. Linked(m_Graph', m_WireVec')
  BY <1>1, <1>3, <1>4, <1>5, UnwireGraphKeeps
<1>8. Begun(m_IncompleteWire')
  BY <1>1, <1>4, NothingDrawn
<1>9. m_IncompleteWire'.OutputID # id /\ m_IncompleteWire'.InputID # id
  <2>1. id \in Nat
    BY <1>4 DEF Boxes
  <2>2. CASE DrawnFrom(id)
    BY <1>1, <2>1, <2>2 DEF NoWire, None
  <2>3. CASE ~DrawnFrom(id)
    BY <1>1, <2>3 DEF DrawnFrom
  <2>4. QED BY <2>2, <2>3
<1>10. PICK givenup : givenup = DrawnFrom(id)
  OBVIOUS
<1>11. Boxes(m_Info, Released(gone, givenup), Pointers(gone))
  BY <1>4, <1>6, ReleasedBoxes
<1>12. ASSUME ~orphaned
       PROVE  /\ Agreed(m_Info, Released(gone, givenup), Pointers(gone), m_WireVec')
              /\ AtPort(m_Info, Released(gone, givenup), m_IncompleteWire')
  <2>1. Agreed(m_Info, Released(gone, givenup), Pointers(gone), kept)
    BY <1>3, <1>4, <1>5, <1>12, TakenAgrees
  <2>2. AtPort(m_Info, Released(gone, givenup), m_IncompleteWire)
    BY <1>3, <1>4, <1>6, <1>12, TakenAtPort
  <2>3. AtPort(m_Info, Released(gone, givenup), NoWire)
    BY NothingDrawn
  <2>4. QED BY <1>1, <2>1, <2>2, <2>3
<1>13. QED BY <1>1, <1>2, <1>5, <1>6, <1>7, <1>8, <1>9, <1>10, <1>11, <1>12

\* A box without wires is taken off the canvas.
LEMMA CutBox ==
    ASSUME NEW info, NEW counts, NEW inputs, Boxes(info, counts, inputs), NEW id
    PROVE  /\ DOMAIN Cut(info, id) = DOMAIN info \ {id}
           /\ Boxes(Cut(info, id), Cut(counts, id), Cut(inputs, id))
<1>1. DOMAIN counts = DOMAIN info /\ DOMAIN inputs = DOMAIN info /\ DOMAIN info \subseteq Nat
  BY DEF Boxes
<1>2. \A j \in DOMAIN info \ {id} : /\ Cut(info, id)[j] = info[j]
                                    /\ Cut(counts, id)[j] = counts[j]
                                    /\ Cut(inputs, id)[j] = inputs[j]
  BY <1>1 DEF Cut
<1>3. DOMAIN Cut(info, id) = DOMAIN info \ {id} /\ DOMAIN Cut(counts, id) = DOMAIN info \ {id}
      /\ DOMAIN Cut(inputs, id) = DOMAIN info \ {id}
  BY <1>1 DEF Cut
<1>4. \A j \in DOMAIN info : /\ info[j] \in Shape
                             /\ counts[j] \in [Buttons(info[j]) -> Nat]
                             /\ inputs[j] \in [Inputs(info[j]) -> Output]
  BY DEF Boxes
<1>5. Cut(info, id) \in [DOMAIN info \ {id} -> Shape]
  BY <1>4 DEF Cut
<1>6. QED BY <1>1, <1>2, <1>3, <1>4, <1>5 DEF Boxes

LEMMA CutAgrees ==
    ASSUME NEW info, NEW counts, NEW inputs, Boxes(info, counts, inputs), NEW id,
           NEW ws, Agreed(info, counts, inputs, ws),
           \A w \in ToSet(ws) : w.OutputID # id /\ w.InputID # id
    PROVE  Agreed(Cut(info, id), Cut(counts, id), Cut(inputs, id), ws)
<1>1. DOMAIN counts = DOMAIN info /\ DOMAIN inputs = DOMAIN info
  BY DEF Boxes
<1>2. \A j \in DOMAIN info \ {id} : /\ Cut(info, id)[j] = info[j]
                                    /\ Cut(counts, id)[j] = counts[j]
                                    /\ Cut(inputs, id)[j] = inputs[j]
  BY <1>1 DEF Cut
<1>3. DOMAIN Cut(info, id) = DOMAIN info \ {id}
  BY DEF Cut
<1>4. ToSet(ws) \subseteq Between(Cut(info, id))
  <2>1. ASSUME NEW w \in ToSet(ws) PROVE w \in Between(Cut(info, id))
    <3>1. w \in Wire /\ Available(info, w)
      BY DEF Agreed, Between
    <3>2. QED BY <3>1, <1>2, <1>3 DEF Between, Available
  <2>2. QED BY <2>1
<1>5. Shown(Cut(info, id), Cut(counts, id), ws)
  BY <1>2, <1>3 DEF Agreed, Shown
<1>6. Pointed(Cut(info, id), Cut(inputs, id), ws)
  BY <1>2, <1>3 DEF Agreed, Pointed
<1>7. QED BY <1>4, <1>5, <1>6 DEF Agreed

LEMMA CutAtPort ==
    ASSUME NEW info, NEW counts, NEW inputs, Boxes(info, counts, inputs), NEW id,
           NEW w, AtPort(info, counts, w), w.OutputID # id, w.InputID # id
    PROVE  AtPort(Cut(info, id), Cut(counts, id), w)
<1>1. DOMAIN counts = DOMAIN info
  BY DEF Boxes
<1>2. \A j \in DOMAIN info \ {id} : /\ j \in DOMAIN Cut(info, id)
                                    /\ Cut(info, id)[j] = info[j]
                                    /\ Cut(counts, id)[j] = counts[j]
  BY <1>1 DEF Cut
<1>3. QED BY <1>2 DEF AtPort

\* The wires at ports that a device will not have.
Dropped(ws, id, ins, outs) == {w \in ToSet(ws) : \/ w.OutputID = id /\ w.OutputPort >= outs
                                                 \/ w.InputID = id /\ w.InputPort >= ins}

LEMMA NotDropped ==
    ASSUME NEW ws \in Seq(Wire), NEW id, NEW ins \in Nat, NEW outs \in Nat,
           NEW w \in ToSet(ws) \ Dropped(ws, id, ins, outs)
    PROVE  /\ w.OutputID = id => w.OutputPort < outs
           /\ w.InputID = id => w.InputPort < ins
           /\ w.OutputPort \in Nat /\ w.InputPort \in Nat
<1>1. w \in Wire
  BY DEF ToSet
<1>2. w.OutputPort \in Nat /\ w.InputPort \in Nat
  BY <1>1 DEF Wire
<1>3. QED BY <1>2 DEF Dropped

LEMMA RemoveDeviceKeeps ==
    ASSUME CanvasIInv, ~broken, NEW id \in DOMAIN m_Info, RemoveDevice(id)
    PROVE  CanvasIInv'
<1> DEFINE W == Dropped(m_WireVec, id, 0, 0)
           gone == Lost(id, 0, 0)
           counts == Released(gone, DrawnFrom(id))
           inputs == Pointers(gone)
<1>1. /\ Prune(id, gone)
      /\ m_PortVec' = Cut(counts, id) /\ m_Input' = Cut(inputs, id) /\ m_Info' = Cut(m_Info, id)
      /\ m_NextID' = m_NextID /\ orphaned' = orphaned
  BY DEF RemoveDevice
<1>2. gone = Among(m_WireVec, W)
  BY DEF Lost, Dropped
<1> HIDE DEF W, gone
<1>3. /\ m_WireVec' \in Seq(Wire) /\ ToSet(m_WireVec') = ToSet(m_WireVec) \ W
      /\ Linked(m_Graph', m_WireVec')
      /\ broken' \in BOOLEAN
      /\ Begun(m_IncompleteWire')
      /\ m_IncompleteWire'.OutputID # id /\ m_IncompleteWire'.InputID # id
      /\ Boxes(m_Info, counts, inputs)
      /\ ~orphaned => /\ Agreed(m_Info, counts, inputs, m_WireVec')
                      /\ AtPort(m_Info, counts, m_IncompleteWire')
  BY <1>1, <1>2, PruneKeeps
<1> HIDE DEF counts, inputs
<1>4. Typed
  BY DEF CanvasIInv
<1>5. Boxes(m_Info', m_PortVec', m_Input') /\ DOMAIN m_Info' = DOMAIN m_Info \ {id}
  BY <1>1, <1>3, CutBox
<1>6. Typed'
  BY <1>1, <1>3, <1>4, <1>5 DEF Typed
<1>7. \A w \in ToSet(m_WireVec') : w.OutputID # id /\ w.InputID # id
  <2>1. ASSUME NEW w \in ToSet(m_WireVec) \ W PROVE w.OutputID # id /\ w.InputID # id
    <3>1. m_WireVec \in Seq(Wire)
      BY <1>4 DEF Typed
    <3>2. /\ w.OutputID = id => w.OutputPort < 0
          /\ w.InputID = id => w.InputPort < 0
          /\ w.OutputPort \in Nat /\ w.InputPort \in Nat
      BY <3>1, NotDropped DEF W
    <3>3. QED BY <3>2
  <2>2. QED BY <1>3, <2>1
<1>8. ASSUME ~orphaned PROVE InStep' /\ Alone(m_WireVec')
  <2>1. Agreed(m_Info', m_PortVec', m_Input', m_WireVec')
    BY <1>1, <1>3, <1>7, <1>8, CutAgrees
  <2>2. AtPort(m_Info', m_PortVec', m_IncompleteWire')
    BY <1>1, <1>3, <1>8, CutAtPort
  <2>3. QED BY <2>1, <2>2 DEF InStep, Agreed
<1>9. QED BY <1>1, <1>3, <1>6, <1>8 DEF CanvasIInv

\* A device gets other ports, with the wires ws that are left.
NewInfo(info, id, shape) == [info EXCEPT ![id] = shape]
NewCounts(counts, id, shape, ws) ==
    [counts EXCEPT ![id] = [b \in Buttons(shape) |-> Uses(ws, shape, id, b)]]
NewInputs(inputs, id, shape) ==
    [inputs EXCEPT ![id] = [p \in Inputs(shape) |-> IF p \in DOMAIN @ THEN @[p] ELSE NULL]]

LEMMA NewBoxAt ==
    ASSUME NEW info, NEW counts, NEW inputs, Boxes(info, counts, inputs),
           NEW id \in DOMAIN info, NEW shape \in Shape, NEW ws
    PROVE  /\ DOMAIN NewInfo(info, id, shape) = DOMAIN info
           /\ DOMAIN NewCounts(counts, id, shape, ws) = DOMAIN info
           /\ DOMAIN NewInputs(inputs, id, shape) = DOMAIN info
           /\ NewInfo(info, id, shape)[id] = shape
           /\ NewCounts(counts, id, shape, ws)[id] =
                 [b \in Buttons(shape) |-> Uses(ws, shape, id, b)]
           /\ NewInputs(inputs, id, shape)[id] =
                 [p \in Inputs(shape) |-> IF p \in Inputs(info[id]) THEN inputs[id][p] ELSE NULL]
           /\ \A j \in DOMAIN info \ {id} :
                 /\ NewInfo(info, id, shape)[j] = info[j]
                 /\ NewCounts(counts, id, shape, ws)[j] = counts[j]
                 /\ NewInputs(inputs, id, shape)[j] = inputs[j]
<1>1. DOMAIN counts = DOMAIN info /\ DOMAIN inputs = DOMAIN info
  BY DEF Boxes
<1>2. DOMAIN inputs[id] = Inputs(info[id])
  BY BoxAt
<1>3. QED BY <1>1, <1>2 DEF NewInfo, NewCounts, NewInputs

LEMMA NewBox ==
    ASSUME NEW info, NEW counts, NEW inputs, Boxes(info, counts, inputs),
           NEW id \in DOMAIN info, NEW shape \in Shape, NEW ws \in Seq(Wire)
    PROVE  Boxes(NewInfo(info, id, shape), NewCounts(counts, id, shape, ws),
                 NewInputs(inputs, id, shape))
<1> DEFINE i2 == NewInfo(info, id, shape)
           c2 == NewCounts(counts, id, shape, ws)
           p2 == NewInputs(inputs, id, shape)
<1>1. /\ DOMAIN i2 = DOMAIN info /\ DOMAIN c2 = DOMAIN info /\ DOMAIN p2 = DOMAIN info
      /\ i2[id] = shape
      /\ c2[id] = [b \in Buttons(shape) |-> Uses(ws, shape, id, b)]
      /\ p2[id] = [p \in Inputs(shape) |-> IF p \in Inputs(info[id]) THEN inputs[id][p] ELSE NULL]
      /\ \A j \in DOMAIN info \ {id} : i2[j] = info[j] /\ c2[j] = counts[j] /\ p2[j] = inputs[j]
  BY NewBoxAt
<1>2. DOMAIN info \subseteq Nat /\ \A j \in DOMAIN info : /\ info[j] \in Shape
                                /\ counts[j] \in [Buttons(info[j]) -> Nat]
                                /\ inputs[j] \in [Inputs(info[j]) -> Output]
  BY DEF Boxes
<1>3. i2 \in [DOMAIN info -> Shape]
  BY <1>2 DEF NewInfo
<1> HIDE DEF i2, c2, p2
<1>4. c2[id] \in [Buttons(shape) -> Nat]
  <2>1. \A b \in Buttons(shape) : b \in Nat
    BY DEF Buttons, Shape
  <2>2. \A b \in Buttons(shape) : Uses(ws, shape, id, b) \in Nat
    BY <2>1, UsesIs
  <2>3. QED BY <1>1, <2>2
<1>5. p2[id] \in [Inputs(shape) -> Output]
  <2>1. NULL \in Output
    BY DEF Output
  <2>2. \A p \in Inputs(info[id]) : inputs[id][p] \in Output
    BY <1>2
  <2>3. QED BY <1>1, <2>1, <2>2
<1>6. ASSUME NEW j \in DOMAIN info
      PROVE  c2[j] \in [Buttons(i2[j]) -> Nat] /\ p2[j] \in [Inputs(i2[j]) -> Output]
  <2>1. CASE j = id
    BY <1>1, <1>4, <1>5, <2>1
  <2>2. CASE j # id
    BY <1>1, <1>2, <2>2
  <2>3. QED BY <2>1, <2>2
<1>7. Boxes(i2, c2, p2)
  BY <1>1, <1>2, <1>3, <1>6 DEF Boxes
<1>8. QED BY <1>7 DEF i2, c2, p2

\* None of the wires is at a port that the device will not have.
Fits(ws, id, shape) ==
    \A w \in ToSet(ws) : /\ w.OutputID = id => w.OutputPort < shape.NumOutputs
                         /\ w.InputID = id => w.InputPort < shape.NumInputs

LEMMA NewBoxAgrees ==
    ASSUME NEW info, NEW counts, NEW inputs, Boxes(info, counts, inputs),
           NEW id \in DOMAIN info, NEW shape \in Shape, NEW ws \in Seq(Wire),
           Agreed(info, counts, inputs, ws), Fits(ws, id, shape)
    PROVE  Agreed(NewInfo(info, id, shape), NewCounts(counts, id, shape, ws),
                  NewInputs(inputs, id, shape), ws)
<1> DEFINE i2 == NewInfo(info, id, shape)
           c2 == NewCounts(counts, id, shape, ws)
           p2 == NewInputs(inputs, id, shape)
<1>1. /\ DOMAIN i2 = DOMAIN info
      /\ i2[id] = shape
      /\ c2[id] = [b \in Buttons(shape) |-> Uses(ws, shape, id, b)]
      /\ p2[id] = [p \in Inputs(shape) |-> IF p \in Inputs(info[id]) THEN inputs[id][p] ELSE NULL]
      /\ \A j \in DOMAIN info \ {id} : i2[j] = info[j] /\ c2[j] = counts[j] /\ p2[j] = inputs[j]
  BY NewBoxAt
<1> HIDE DEF i2, c2, p2
<1>2. ToSet(ws) \subseteq Between(i2)
  <2>1. ASSUME NEW w \in ToSet(ws) PROVE w \in Between(i2)
    <3>1. w \in Wire /\ Available(info, w)
      BY DEF Agreed, Between
    <3>2. /\ w.OutputID = id => w.OutputPort < shape.NumOutputs
          /\ w.InputID = id => w.InputPort < shape.NumInputs
      BY DEF Fits
    <3>3. QED BY <3>1, <3>2, <1>1 DEF Between, Available
  <2>2. QED BY <2>1
<1>3. Shown(i2, c2, ws)
  <2>1. ASSUME NEW j \in DOMAIN info, NEW p \in Inputs(i2[j])
        PROVE  c2[j][p] = Number(ws, Into(j, p))
    <3>1. CASE j = id
      <4>1. p \in Nat /\ p \in Inputs(shape) /\ p \in Buttons(shape)
        BY <1>1, <3>1 DEF Inputs, Buttons, Shape
      <4>2. Uses(ws, shape, id, p) = Number(ws, Into(id, p))
        BY <4>1, UsesIs
      <4>3. QED BY <1>1, <3>1, <4>1, <4>2
    <3>2. CASE j # id
      BY <1>1, <3>2 DEF Agreed, Shown
    <3>3. QED BY <3>1, <3>2
  <2>2. QED BY <1>1, <2>1 DEF Shown
<1>4. Pointed(i2, p2, ws)
  <2>1. ASSUME NEW j \in DOMAIN info, NEW p \in Inputs(i2[j])
        PROVE  /\ \A w \in ToSet(ws) : w \in Into(j, p) =>
                     p2[j][p] = <<w.OutputID, w.OutputPort>>
               /\ ToSet(ws) \cap Into(j, p) = {} => p2[j][p] = NULL
    <3>1. CASE j = id
      <4>1. p \in Inputs(shape)
        BY <1>1, <3>1
      <4>2. CASE p \in Inputs(info[id])
        <5>1. p2[j][p] = inputs[j][p]
          BY <1>1, <3>1, <4>1, <4>2
        <5>2. QED BY <3>1, <4>2, <5>1 DEF Agreed, Pointed
      <4>3. CASE p \notin Inputs(info[id])
        <5>1. p2[j][p] = NULL
          BY <1>1, <3>1, <4>1, <4>3
        <5>2. ASSUME NEW w \in ToSet(ws), w \in Into(j, p) PROVE FALSE
          <6>1. w \in Wire /\ Available(info, w)
            BY DEF Agreed, Between
          <6>2. w.InputPort \in Nat /\ w.InputID = id /\ w.InputPort = p
            BY <3>1, <5>2, <6>1 DEF Into, Wire
          <6>3. p < info[id].NumInputs /\ info[id].NumInputs \in Nat
            BY <6>1, <6>2, BoxAt DEF Available
          <6>4. QED BY <6>2, <6>3, <4>3 DEF Inputs
        <5>3. QED BY <5>1, <5>2
      <4>4. QED BY <4>2, <4>3
    <3>2. CASE j # id
      <4>1. p \in Inputs(info[j]) /\ p2[j] = inputs[j]
        BY <1>1, <3>2
      <4>2. QED BY <4>1 DEF Agreed, Pointed
    <3>3. QED BY <3>1, <3>2
  <2>2. QED BY <1>1, <2>1 DEF Pointed
<1>5. Agreed(i2, c2, p2, ws)
  BY <1>2, <1>3, <1>4 DEF Agreed
<1>6. QED BY <1>5 DEF i2, c2, p2

LEMMA NewBoxAtPort ==
    ASSUME NEW info, NEW counts, NEW inputs, Boxes(info, counts, inputs),
           NEW id \in DOMAIN info, NEW shape \in Shape, NEW ws,
           NEW w, AtPort(info, counts, w), w.OutputID # id, w.InputID # id
    PROVE  AtPort(NewInfo(info, id, shape), NewCounts(counts, id, shape, ws), w)
<1>1. /\ DOMAIN NewInfo(info, id, shape) = DOMAIN info
      /\ \A j \in DOMAIN info \ {id} :
            /\ NewInfo(info, id, shape)[j] = info[j]
            /\ NewCounts(counts, id, shape, ws)[j] = counts[j]
  <2>1. DOMAIN counts = DOMAIN info
    BY DEF Boxes
  <2>2. QED BY <2>1 DEF NewInfo, NewCounts
<1>2. QED BY <1>1 DEF AtPort

LEMMA SetupPortsKeeps ==
    ASSUME CanvasIInv, ~broken, NEW id \in DOMAIN m_Info, NEW info \in Shapes,
           NEW stable \in BOOLEAN, SetupPorts(id, info, stable)
    PROVE  CanvasIInv'
<1> DEFINE ins == IF stable THEN info.NumInputs ELSE 0
           outs == IF stable THEN info.NumOutputs ELSE 0
           W == Dropped(m_WireVec, id, ins, outs)
           gone == IF stable THEN Lost(id, info.NumInputs, info.NumOutputs) ELSE Lost(id, 0, 0)
           counts == Released(gone, DrawnFrom(id))
           inputs == Pointers(gone)
<1>0. info \in Shape
  BY CanvasAssumption
<1>1. /\ Prune(id, gone)
      /\ m_PortVec' = NewCounts(counts, id, info, m_WireVec')
      /\ m_Input' = NewInputs(inputs, id, info)
      /\ m_Info' = NewInfo(m_Info, id, info)
      /\ m_NextID' = m_NextID /\ orphaned' = orphaned
  BY DEF SetupPorts, NewCounts, NewInputs, NewInfo
<1>2. gone = Among(m_WireVec, W)
  BY DEF Lost, Dropped
<1>3. ins \in Nat /\ outs \in Nat /\ ins <= info.NumInputs /\ outs <= info.NumOutputs
      /\ info.NumInputs \in Nat /\ info.NumOutputs \in Nat
  BY <1>0 DEF Shape
<1> HIDE DEF ins, outs, W, gone
<1>4. /\ m_WireVec' \in Seq(Wire) /\ ToSet(m_WireVec') = ToSet(m_WireVec) \ W
      /\ Linked(m_Graph', m_WireVec')
      /\ broken' \in BOOLEAN
      /\ Begun(m_IncompleteWire')
      /\ m_IncompleteWire'.OutputID # id /\ m_IncompleteWire'.InputID # id
      /\ Boxes(m_Info, counts, inputs)
      /\ ~orphaned => /\ Agreed(m_Info, counts, inputs, m_WireVec')
                      /\ AtPort(m_Info, counts, m_IncompleteWire')
  BY <1>1, <1>2, PruneKeeps
<1> HIDE DEF counts, inputs
<1>5. Typed
  BY DEF CanvasIInv
<1>6. Boxes(m_Info', m_PortVec', m_Input') /\ DOMAIN m_Info' = DOMAIN m_Info
  <2>1. PICK ws : ws = m_WireVec'
    OBVIOUS
  <2>2. ws \in Seq(Wire) /\ Boxes(m_Info, counts, inputs)
    BY <1>4, <2>1
  <2>3. Boxes(NewInfo(m_Info, id, info), NewCounts(counts, id, info, ws),
              NewInputs(inputs, id, info))
    BY <1>0, <2>2, NewBox
  <2>4. DOMAIN NewInfo(m_Info, id, info) = DOMAIN m_Info
    BY DEF NewInfo
  <2>5. QED BY <1>1, <2>1, <2>3, <2>4
<1>7. Typed'
  BY <1>1, <1>4, <1>5, <1>6 DEF Typed
<1>8. Fits(m_WireVec', id, info)
  <2>1. ASSUME NEW w \in ToSet(m_WireVec) \ W
        PROVE  /\ w.OutputID = id => w.OutputPort < info.NumOutputs
               /\ w.InputID = id => w.InputPort < info.NumInputs
    <3>1. m_WireVec \in Seq(Wire)
      BY <1>5 DEF Typed
    <3>2. /\ w.OutputID = id => w.OutputPort < outs
          /\ w.InputID = id => w.InputPort < ins
          /\ w.OutputPort \in Nat /\ w.InputPort \in Nat
      BY <3>1, <1>3, NotDropped DEF W
    <3>3. QED BY <3>2, <1>3
  <2>2. QED BY <1>4, <2>1 DEF Fits
<1>9. ASSUME ~orphaned PROVE InStep' /\ Alone(m_WireVec')
  <2>1. Agreed(m_Info', m_PortVec', m_Input', m_WireVec')
    BY <1>0, <1>1, <1>4, <1>8, <1>9, NewBoxAgrees
  <2>2. AtPort(m_Info', m_PortVec', m_IncompleteWire')
    BY <1>0, <1>1, <1>4, <1>9, NewBoxAtPort
  <2>3. QED BY <2>1, <2>2 DEF InStep, Agreed
<1>10. QED BY <1>1, <1>4, <1>7, <1>9 DEF CanvasIInv

-----------------------------------------------------------------------------
(* Drawing a wire.                                                         *)

\* One more on the count of a button, if there is such a button.
Bumped(info, before, after, id, b) ==
    \A j \in DOMAIN info : \A c \in Buttons(info[j]) :
        after[j][c] = before[j][c] + IF j = id /\ c = b THEN 1 ELSE 0

LEMMA BumpAt ==
    ASSUME NEW info, NEW counts, NEW inputs, Boxes(info, counts, inputs),
           NEW id \in DOMAIN info, NEW b \in Nat
    PROVE  /\ Boxes(info, Bump(counts, id, b), inputs)
           /\ Bumped(info, counts, Bump(counts, id, b), id, b)
<1> DEFINE r == Bump(counts, id, b)
<1>1. DOMAIN counts = DOMAIN info /\ \A j \in DOMAIN info : counts[j] \in [Buttons(info[j]) -> Nat]
  BY DEF Boxes
<1>2. CASE b \notin DOMAIN counts[id]
  <2>1. r = counts
    BY <1>2 DEF Bump
  <2>2. \A j \in DOMAIN info : \A c \in Buttons(info[j]) :
            counts[j][c] \in Nat /\ ~(j = id /\ c = b)
    BY <1>1, <1>2
  <2>3. QED BY <2>1, <2>2 DEF Bumped
<1>3. CASE b \in DOMAIN counts[id]
  <2>1. b \in Buttons(info[id])
    BY <1>1, <1>3
  <2>2. DOMAIN r = DOMAIN info
        /\ r[id] = [counts[id] EXCEPT ![b] = @ + 1]
        /\ \A j \in DOMAIN info : j # id => r[j] = counts[j]
    BY <1>1, <1>3 DEF Bump
  <2> HIDE DEF r
  <2>3. r[id] \in [Buttons(info[id]) -> Nat]
        /\ \A c \in Buttons(info[id]) :
              r[id][c] = counts[id][c] + IF c = b THEN 1 ELSE 0
    <3>1. counts[id] \in [Buttons(info[id]) -> Nat]
      BY <1>1
    <3> DEFINE f == counts[id]
               B == Buttons(info[id])
    <3> HIDE DEF f, B
    <3>2. f \in [B -> Nat] /\ b \in B
      BY <2>1, <3>1 DEF f, B
    <3>3. [f EXCEPT ![b] = @ + 1] \in [B -> Nat]
          /\ \A c \in B : [f EXCEPT ![b] = @ + 1][c] = f[c] + IF c = b THEN 1 ELSE 0
      BY <3>2
    <3>4. QED BY <2>2, <3>3 DEF f, B
  <2>4. \A j \in DOMAIN info : j # id => \A c \in Buttons(info[j]) : counts[j][c] \in Nat
    BY <1>1
  <2>5. \A j \in DOMAIN info : r[j] \in [Buttons(info[j]) -> Nat]
    BY <1>1, <2>2, <2>3
  <2>6. Boxes(info, r, inputs)
    BY <2>2, <2>5 DEF Boxes
  <2>7. \A j \in DOMAIN info : \A c \in Buttons(info[j]) :
            r[j][c] = counts[j][c] + IF j = id /\ c = b THEN 1 ELSE 0
    BY <2>2, <2>3, <2>4
  <2>8. QED BY <2>6, <2>7 DEF r, Bumped
<1>4. QED BY <1>2, <1>3

\* The pointer of an input.
Repointed(info, before, after, id, p, o) ==
    \A j \in DOMAIN info : \A q \in Inputs(info[j]) :
        after[j][q] = IF j = id /\ q = p THEN o ELSE before[j][q]

Repoint(inputs, id, p, o) == [inputs EXCEPT ![id][p] = o]

LEMMA PointAt ==
    ASSUME NEW info, NEW counts, NEW inputs, Boxes(info, counts, inputs),
           NEW id \in DOMAIN info, NEW p \in Inputs(info[id]), NEW o \in Output
    PROVE  /\ Boxes(info, counts, Repoint(inputs, id, p, o))
           /\ Repointed(info, inputs, Repoint(inputs, id, p, o), id, p, o)
<1> DEFINE r == Repoint(inputs, id, p, o)
<1>1. DOMAIN inputs = DOMAIN info /\ \A j \in DOMAIN info : inputs[j] \in [Inputs(info[j]) -> Output]
  BY DEF Boxes
<1>2. DOMAIN r = DOMAIN info
      /\ r[id] = [inputs[id] EXCEPT ![p] = o]
      /\ \A j \in DOMAIN info : j # id => r[j] = inputs[j]
  BY <1>1 DEF Repoint
<1> HIDE DEF r
<1>3. r[id] \in [Inputs(info[id]) -> Output]
      /\ \A q \in Inputs(info[id]) : r[id][q] = IF q = p THEN o ELSE inputs[id][q]
  BY <1>1, <1>2
<1>4. \A j \in DOMAIN info : r[j] \in [Inputs(info[j]) -> Output]
  BY <1>1, <1>2, <1>3
<1>5. Boxes(info, counts, r)
  BY <1>2, <1>4 DEF Boxes
<1>6. \A j \in DOMAIN info : \A q \in Inputs(info[j]) :
          r[j][q] = IF j = id /\ q = p THEN o ELSE inputs[j][q]
  BY <1>2, <1>3
<1>7. QED BY <1>5, <1>6 DEF r, Repointed

\* The wire may be made: its ends are ports, and the input has no wire.
Free(w) == w \in Between(m_Info) /\ m_PortVec[w.InputID][w.InputPort] = 0

LEMMA WireTypes ==
    ASSUME NEW w \in Wire
    PROVE  w.OutputID \in Nat /\ w.OutputPort \in Nat /\ w.InputID \in Nat /\ w.InputPort \in Nat
BY DEF Wire

\* The graph has the new wire as well.
LEMMA AppendLinks ==
    ASSUME NEW ws \in Seq(Wire), NEW g, Linked(g, ws), NEW w \in Wire,
           NEW ta \in BOOLEAN, NEW td \in BOOLEAN
    PROVE  Linked(Added(g, w.OutputID, ta, w.InputID, td), Append(ws, w))
<1> DEFINE a == w.OutputID
           d == w.InputID
           h == Added(g, a, ta, d, td)
<1>1. a \in Nat /\ d \in Nat
  BY WireTypes
<1>2. WellFormed(g) /\ \A m, n : Wired(g, m, n) = Number(ws, Link(m, n))
  BY DEF Linked
<1> HIDE DEF a, d
<1>3. WellFormed(h) /\ OneMore(g, h, a, d)
  BY <1>1, <1>2, AddedKeeps
<1> HIDE DEF h
<1>4. ASSUME NEW m, NEW n PROVE Wired(h, m, n) = Number(Append(ws, w), Link(m, n))
  <2>1. w \in Link(m, n) <=> m = a /\ n = d
    BY DEF Link, a, d
  <2>2. Wired(h, m, n) = Wired(g, m, n) + IF m = a /\ n = d THEN 1 ELSE 0
    BY <1>3 DEF OneMore
  <2>3. Wired(g, m, n) = Number(ws, Link(m, n))
    BY <1>2
  <2> DEFINE L == Link(m, n)
  <2> HIDE DEF L
  <2>4. Number(Append(ws, w), L) = Number(ws, L) + IF w \in L THEN 1 ELSE 0
    BY NumberAppend
  <2>5. QED BY <2>1, <2>2, <2>3, <2>4 DEF L
<1>5. Linked(h, Append(ws, w))
  BY <1>3, <1>4 DEF Linked
<1>6. QED BY <1>5 DEF h, a, d

\* One wire more into an input that had none.
LEMMA AppendCounts ==
    ASSUME NEW ws \in Seq(Wire), NEW w \in Wire, NEW id, NEW p
    PROVE  /\ Append(ws, w) \in Seq(Wire) /\ ToSet(Append(ws, w)) = ToSet(ws) \cup {w}
           /\ Number(ws, Into(id, p)) \in Nat
           /\ Number(Append(ws, w), Into(id, p)) =
                 Number(ws, Into(id, p)) + IF id = w.InputID /\ p = w.InputPort THEN 1 ELSE 0
<1> DEFINE L == Into(id, p)
<1>1. w \in L <=> id = w.InputID /\ p = w.InputPort
  BY DEF Into
<1> HIDE DEF L
<1>2. Append(ws, w) \in Seq(Wire) /\ ToSet(Append(ws, w)) = ToSet(ws) \cup {w}
      /\ Number(Append(ws, w), L) = Number(ws, L) + IF w \in L THEN 1 ELSE 0
  BY NumberAppend
<1>3. Number(ws, L) \in Nat
  BY NumberIsNatural
<1>4. QED BY <1>1, <1>2, <1>3 DEF L

LEMMA ConnectAgrees ==
    ASSUME Boxes(m_Info, m_PortVec, m_Input), m_WireVec \in Seq(Wire),
           NEW w \in Wire, Free(w), InStep,
           NEW inputs, inputs = [m_Input EXCEPT ![w.InputID][w.InputPort] =
                                                   <<w.OutputID, w.OutputPort>>]
    PROVE  Agreed(m_Info, Bump(Bump(m_PortVec, w.OutputID, OutButton(w)),
                               w.InputID, w.InputPort),
                  inputs, Append(m_WireVec, w))
<1> DEFINE a == w.OutputID
           d == w.InputID
           p == w.InputPort
           o == <<w.OutputID, w.OutputPort>>
           once == Bump(m_PortVec, a, OutButton(w))
           counts == Bump(once, d, p)
           ws == Append(m_WireVec, w)
<1>1. /\ a \in DOMAIN m_Info /\ d \in DOMAIN m_Info /\ p \in Nat /\ OutButton(w) \in Nat
      /\ w.OutputPort \in Nat /\ p < m_Info[d].NumInputs
      /\ OutButton(w) = w.OutputPort + m_Info[a].NumInputs
  <2>1. Available(m_Info, w)
    BY DEF Free, Between
  <2>2. a \in DOMAIN m_Info /\ d \in DOMAIN m_Info /\ p < m_Info[d].NumInputs
    BY <2>1 DEF Available
  <2>3. m_Info[a].NumInputs \in Nat
    BY <2>2, BoxAt
  <2>4. QED BY <2>2, <2>3, WireTypes DEF OutButton
<1>2. p \in Inputs(m_Info[d])
  BY <1>1, BoxAt DEF Inputs
<1>3. o \in Output
  BY WireTypes DEF Output
<1>4. Boxes(m_Info, once, m_Input)
      /\ \A j \in DOMAIN m_Info : \A c \in Buttons(m_Info[j]) :
             once[j][c] = m_PortVec[j][c] + IF j = a /\ c = OutButton(w) THEN 1 ELSE 0
  BY <1>1, BumpAt, SMTT(30) DEF Bumped
<1> HIDE DEF once
<1>5. Boxes(m_Info, counts, m_Input)
      /\ \A j \in DOMAIN m_Info : \A c \in Buttons(m_Info[j]) :
             counts[j][c] = once[j][c] + IF j = d /\ c = p THEN 1 ELSE 0
  <2> HIDE DEF d, p
  <2>1. Boxes(m_Info, counts, m_Input) /\ Bumped(m_Info, once, counts, d, p)
    <3>1. Boxes(m_Info, once, m_Input) /\ d \in DOMAIN m_Info /\ p \in Nat
      BY <1>1, <1>4
    <3>2. QED BY <3>1, BumpAt
  <2>2. QED BY <2>1 DEF Bumped
<1> HIDE DEF counts
<1>6. \A j \in DOMAIN m_Info : \A q \in Inputs(m_Info[j]) :
          inputs[j][q] = IF j = d /\ q = p THEN o ELSE m_Input[j][q]
  <2>1. inputs = Repoint(m_Input, d, p, o)
    BY DEF Repoint
  <2> HIDE DEF d, p, o
  <2>2. Repointed(m_Info, m_Input, Repoint(m_Input, d, p, o), d, p, o)
    BY <1>1, <1>2, <1>3, PointAt
  <2>3. QED BY <2>1, <2>2 DEF Repointed
<1>7. /\ ws \in Seq(Wire) /\ ToSet(ws) = ToSet(m_WireVec) \cup {w}
      /\ \A j, q : /\ Number(m_WireVec, Into(j, q)) \in Nat
                   /\ Number(ws, Into(j, q)) =
                        Number(m_WireVec, Into(j, q)) + IF j = d /\ q = p THEN 1 ELSE 0
  BY AppendCounts
<1> HIDE DEF ws
<1>8. Agreed(m_Info, m_PortVec, m_Input, m_WireVec)
  BY DEF InStep
<1>9. Number(m_WireVec, Into(d, p)) = 0
  BY <1>1, <1>2, <1>8 DEF Agreed, Shown, Free
<1>10. ToSet(m_WireVec) \cap Into(d, p) = {}
  BY <1>9, NumberIsNatural
<1>11. ToSet(ws) \subseteq Between(m_Info)
  BY <1>7, <1>8 DEF Agreed, Free
<1>12. Alone(ws)
  <2>1. ASSUME NEW j, NEW q PROVE Number(ws, Into(j, q)) <= 1
    <3>1. Number(m_WireVec, Into(j, q)) <= 1
      BY <1>8 DEF Agreed, Alone
    <3>2. QED BY <3>1, <1>7, <1>9
  <2>2. QED BY <2>1 DEF Alone
<1>13. Shown(m_Info, counts, ws)
  <2>1. ASSUME NEW j \in DOMAIN m_Info, NEW q \in Inputs(m_Info[j])
        PROVE  counts[j][q] = Number(ws, Into(j, q))
    <3>1. q \in Buttons(m_Info[j]) /\ q \in Nat /\ q < m_Info[j].NumInputs
          /\ m_Info[j].NumInputs \in Nat /\ m_PortVec[j][q] \in Nat
      BY BoxAt
    <3>2. ~(j = a /\ q = OutButton(w))
      BY <3>1, <1>1
    <3>3. once[j][q] = m_PortVec[j][q]
      BY <1>4, <3>1, <3>2
    <3>4. m_PortVec[j][q] = Number(m_WireVec, Into(j, q))
      BY <1>8 DEF Agreed, Shown
    <3>5. counts[j][q] = once[j][q] + IF j = d /\ q = p THEN 1 ELSE 0
      BY <1>5, <3>1
    <3>6. QED BY <1>7, <3>3, <3>4, <3>5
  <2>2. QED BY <2>1 DEF Shown
<1>14. Pointed(m_Info, inputs, ws)
  <2>1. ASSUME NEW j \in DOMAIN m_Info, NEW q \in Inputs(m_Info[j])
        PROVE  /\ \A v \in ToSet(ws) : v \in Into(j, q) =>
                     inputs[j][q] = <<v.OutputID, v.OutputPort>>
               /\ ToSet(ws) \cap Into(j, q) = {} => inputs[j][q] = NULL
    <3>1. CASE j = d /\ q = p
      <4>1. inputs[j][q] = o /\ w \in Into(j, q) /\ w \in ToSet(ws)
        BY <1>6, <1>7, <3>1 DEF Into
      <4>2. \A v \in ToSet(ws) : v \in Into(j, q) => v = w
        BY <1>7, <1>10, <3>1
      <4>3. QED BY <4>1, <4>2
    <3>2. CASE ~(j = d /\ q = p)
      <4>1. inputs[j][q] = m_Input[j][q]
        BY <1>6, <3>2
      <4>2. w \notin Into(j, q)
        BY <3>2 DEF Into
      <4>3. /\ \A v \in ToSet(m_WireVec) : v \in Into(j, q) =>
                  m_Input[j][q] = <<v.OutputID, v.OutputPort>>
            /\ ToSet(m_WireVec) \cap Into(j, q) = {} => m_Input[j][q] = NULL
        BY <1>8 DEF Agreed, Pointed
      <4>4. QED BY <1>7, <4>1, <4>2, <4>3
    <3>3. QED BY <3>1, <3>2
  <2>2. QED BY <2>1 DEF Pointed
<1>15. Agreed(m_Info, counts, inputs, ws)
  BY <1>11, <1>12, <1>13, <1>14 DEF Agreed
<1>16. QED BY <1>15 DEF counts, once, ws

LEMMA ConnectKeeps ==
    ASSUME CanvasIInv, ~broken, NEW w \in Wire, Connect(w), ~orphaned => Free(w)
    PROVE  CanvasIInv'
<1> DEFINE a == w.OutputID
           d == w.InputID
<1>1. /\ m_Info' = m_Info /\ m_NextID' = m_NextID /\ orphaned' = orphaned
      /\ m_IncompleteWire' = NoWire
  BY DEF Connect
<1>2. Typed /\ Linked(m_Graph, m_WireVec) /\ (~orphaned => InStep /\ Alone(m_WireVec))
  BY DEF CanvasIInv
<1>3. m_WireVec \in Seq(Wire) /\ Boxes(m_Info, m_PortVec, m_Input)
  BY <1>2 DEF Typed
<1>4. Begun(NoWire) /\ AtPort(m_Info, m_PortVec', NoWire)
  BY NothingDrawn
<1>5. CASE ~(HasBox(a) /\ HasBox(d))
  <2>1. broken' = TRUE /\ m_PortVec' = m_PortVec /\ m_Input' = m_Input
        /\ m_WireVec' = m_WireVec
    BY <1>5 DEF Connect, wires
  <2>2. Typed'
    BY <1>1, <1>2, <1>4, <2>1 DEF Typed
  <2>3. QED BY <1>1, <1>2, <2>1, <2>2 DEF CanvasIInv
<1>6. CASE HasBox(a) /\ HasBox(d)
  <2> DEFINE ported == /\ w.OutputPort < m_Info[a].NumOutputs
                       /\ w.InputPort < m_Info[d].NumInputs
             ta == m_Info[a].IsTerminal
             td == m_Info[d].IsTerminal
             inputs == [m_Input EXCEPT ![w.InputID][w.InputPort] =
                                          <<w.OutputID, w.OutputPort>>]
             counts == Bump(Bump(m_PortVec, w.OutputID, OutButton(w)), w.InputID, w.InputPort)
  <2>1. /\ m_WireVec' = Append(m_WireVec, w)
        /\ m_Input' = IF ported THEN inputs ELSE m_Input
        /\ m_Graph' = Added(m_Graph, a, ta, d, td)
        /\ m_PortVec' = counts
        /\ broken' = broken
    BY <1>6 DEF Connect, AddConnection
  <2>2. /\ a \in DOMAIN m_Info /\ d \in DOMAIN m_Info
        /\ w.OutputPort \in Nat /\ w.InputPort \in Nat /\ OutButton(w) \in Nat
        /\ ta \in BOOLEAN /\ td \in BOOLEAN
    <3>1. a \in DOMAIN m_Info /\ d \in DOMAIN m_Info
      BY <1>6 DEF HasBox
    <3>2. QED BY <1>3, <3>1, WireTypes, BoxAt DEF OutButton
  <2> HIDE DEF ta, td
  <2>3. Linked(m_Graph', m_WireVec')
    BY <1>2, <1>3, <2>1, <2>2, AppendLinks
  <2>4. m_WireVec' \in Seq(Wire)
    BY <1>3, <2>1, NumberAppend
  <2>5. Boxes(m_Info, counts, m_Input)
    <3>1. Boxes(m_Info, Bump(m_PortVec, w.OutputID, OutButton(w)), m_Input)
      BY <1>3, <2>2, BumpAt
    <3>2. PICK once : once = Bump(m_PortVec, w.OutputID, OutButton(w))
      OBVIOUS
    <3>3. Boxes(m_Info, Bump(once, w.InputID, w.InputPort), m_Input)
      BY <2>2, <3>1, <3>2, BumpAt
    <3>4. QED BY <3>2, <3>3
  <2> HIDE DEF counts
  <2>6. ported => Boxes(m_Info, counts, inputs)
    <3>1. SUFFICES ASSUME ported PROVE Boxes(m_Info, counts, inputs)
      OBVIOUS
    <3>2. w.InputPort \in Inputs(m_Info[d])
      BY <1>3, <2>2, <3>1, BoxAt DEF Inputs
    <3>3. <<w.OutputID, w.OutputPort>> \in Output
      BY WireTypes DEF Output
    <3>4. Boxes(m_Info, counts, Repoint(m_Input, d, w.InputPort, <<w.OutputID, w.OutputPort>>))
      BY <2>2, <2>5, <3>2, <3>3, PointAt
    <3>5. QED BY <3>4 DEF Repoint
  <2>7. Typed'
    <3>1. Boxes(m_Info', m_PortVec', m_Input')
      BY <1>1, <2>1, <2>5, <2>6
    <3>2. QED BY <1>1, <1>2, <1>4, <2>1, <2>4, <3>1 DEF Typed
  <2>8. ASSUME ~orphaned PROVE InStep' /\ Alone(m_WireVec')
    <3>1. Free(w) /\ ported
      BY <2>8 DEF Free, Between, Available
    <3>2. PICK i2 : i2 = inputs
      OBVIOUS
    <3>3. Agreed(m_Info, counts, i2, Append(m_WireVec, w))
      BY <1>2, <1>3, <2>8, <3>1, <3>2, ConnectAgrees DEF counts
    <3>4. QED BY <1>1, <1>4, <2>1, <3>1, <3>2, <3>3 DEF InStep, Agreed
  <2>9. QED BY <1>1, <2>1, <2>3, <2>7, <2>8 DEF CanvasIInv
<1>7. QED BY <1>5, <1>6

\* The wire being drawn with its second end.
OutputDrawn(w, id, p) == [w EXCEPT !.OutputID = id, !.OutputPort = p]
InputDrawn(w, id, p) == [w EXCEPT !.InputID = id, !.InputPort = p]

\* An end is added to the wire being drawn.
LEMMA EndDrawn ==
    ASSUME NEW w, Begun(w), NEW id \in Nat, NEW p \in Nat
    PROVE  /\ w.OutputID = None =>
                 \/ w = NoWire /\ OutputDrawn(w, id, p) = FromOutput(id, p)
                 \/ /\ w.InputID \in Nat /\ w.InputPort \in Nat
                    /\ OutputDrawn(w, id, p) =
                          [OutputID |-> id, OutputPort |-> p,
                           InputID |-> w.InputID, InputPort |-> w.InputPort]
           /\ w.InputID = None =>
                 \/ w = NoWire /\ InputDrawn(w, id, p) = FromInput(id, p)
                 \/ /\ w.OutputID \in Nat /\ w.OutputPort \in Nat
                    /\ InputDrawn(w, id, p) =
                          [OutputID |-> w.OutputID, OutputPort |-> w.OutputPort,
                           InputID |-> id, InputPort |-> p]
<1>1. w = [OutputID |-> w.OutputID, OutputPort |-> w.OutputPort,
           InputID |-> w.InputID, InputPort |-> w.InputPort]
  BY DEF Begun, NoWire, FromOutput, FromInput
<1>2. OutputDrawn(w, id, p) =
         [OutputID |-> id, OutputPort |-> p, InputID |-> w.InputID, InputPort |-> w.InputPort]
  <2>1. PICK a, b, c, d : /\ a = w.OutputID /\ b = w.OutputPort
                          /\ c = w.InputID /\ d = w.InputPort
    OBVIOUS
  <2>2. w = [OutputID |-> a, OutputPort |-> b, InputID |-> c, InputPort |-> d]
    BY <1>1, <2>1
  <2>3. [w EXCEPT !.OutputID = id, !.OutputPort = p] = [OutputID |-> id, OutputPort |-> p, InputID |-> c, InputPort |-> d]
    <3>1. PICK v : v = [w EXCEPT !.OutputID = id]
      OBVIOUS
    <3>2. v = [OutputID |-> id, OutputPort |-> b, InputID |-> c, InputPort |-> d]
      BY <2>2, <3>1
    <3>3. [v EXCEPT !.OutputPort = p] = [OutputID |-> id, OutputPort |-> p, InputID |-> c, InputPort |-> d]
      BY <3>2
    <3>4. [w EXCEPT !.OutputID = id, !.OutputPort = p] = [v EXCEPT !.OutputPort = p]
      BY <3>1
    <3>5. QED BY <3>3, <3>4
  <2>4. QED BY <2>1, <2>3 DEF OutputDrawn
<1>3. InputDrawn(w, id, p) =
         [OutputID |-> w.OutputID, OutputPort |-> w.OutputPort, InputID |-> id, InputPort |-> p]
  <2>1. PICK a, b, c, d : /\ a = w.OutputID /\ b = w.OutputPort
                          /\ c = w.InputID /\ d = w.InputPort
    OBVIOUS
  <2>2. w = [OutputID |-> a, OutputPort |-> b, InputID |-> c, InputPort |-> d]
    BY <1>1, <2>1
  <2>3. [w EXCEPT !.InputID = id, !.InputPort = p] = [OutputID |-> a, OutputPort |-> b, InputID |-> id, InputPort |-> p]
    <3>1. PICK v : v = [w EXCEPT !.InputID = id]
      OBVIOUS
    <3>2. v = [OutputID |-> a, OutputPort |-> b, InputID |-> id, InputPort |-> d]
      BY <2>2, <3>1
    <3>3. [v EXCEPT !.InputPort = p] = [OutputID |-> a, OutputPort |-> b, InputID |-> id, InputPort |-> p]
      BY <3>2
    <3>4. [w EXCEPT !.InputID = id, !.InputPort = p] = [v EXCEPT !.InputPort = p]
      BY <3>1
    <3>5. QED BY <3>3, <3>4
  <2>4. QED BY <2>1, <2>3 DEF InputDrawn
<1>4. ASSUME w.OutputID = None
      PROVE  w = NoWire \/ (w.InputID \in Nat /\ w.InputPort \in Nat)
  BY <1>4 DEF Begun, FromOutput, None
<1>5. ASSUME w.InputID = None
      PROVE  w = NoWire \/ (w.OutputID \in Nat /\ w.OutputPort \in Nat)
  BY <1>5 DEF Begun, FromInput, None
<1>6. w = NoWire => w.OutputID = None /\ w.OutputPort = None
                    /\ w.InputID = None /\ w.InputPort = None
  BY DEF NoWire
<1>7. QED BY <1>2, <1>3, <1>4, <1>5, <1>6 DEF FromOutput, FromInput

LEMMA DrawOnKeeps ==
    ASSUME CanvasIInv, ~broken, NEW w, DrawOn(w),
           \/ w \in Wire /\ (~orphaned => Free(w))
           \/ Begun(w) /\ (~orphaned => AtPort(m_Info, m_PortVec, w))
    PROVE  CanvasIInv'
<1>1. CASE w \in Wire /\ (~orphaned => Free(w))
  <2>1. w.OutputID # None /\ w.InputID # None
    BY <1>1, WireTypes DEF None
  <2>2. Connect(w)
    BY <2>1 DEF DrawOn
  <2>3. QED BY <1>1, <2>2, ConnectKeeps
<1>2. CASE Begun(w) /\ (~orphaned => AtPort(m_Info, m_PortVec, w))
  <2>1. w.OutputID = None \/ w.InputID = None
    BY <1>2 DEF Begun, NoWire, FromOutput, FromInput
  <2>2. /\ m_IncompleteWire' = w
        /\ m_Info' = m_Info /\ m_PortVec' = m_PortVec /\ m_Input' = m_Input
        /\ m_NextID' = m_NextID /\ m_WireVec' = m_WireVec /\ m_Graph' = m_Graph
        /\ orphaned' = orphaned /\ broken' = broken
    BY <2>1 DEF DrawOn, boxes, wires
  <2>3. Typed'
    BY <1>2, <2>2 DEF CanvasIInv, Typed
  <2>4. ~orphaned => InStep'
    BY <1>2, <2>2 DEF CanvasIInv, InStep
  <2>5. QED BY <2>2, <2>3, <2>4 DEF CanvasIInv
<1>3. QED BY <1>1, <1>2

\* The left button on an output.
LEMMA PressOutputKeeps ==
    ASSUME CanvasIInv, ~broken, NEW id \in DOMAIN m_Info, NEW p \in Buttons(m_Info[id]),
           PressOutput(id, p)
    PROVE  CanvasIInv'
<1> DEFINE m == m_IncompleteWire
           w == OutputDrawn(m, id, p)
<1>1. Typed /\ (~orphaned => AtPort(m_Info, m_PortVec, m))
  BY DEF CanvasIInv, InStep
<1>2. id \in Nat /\ p \in Nat /\ p < m_Info[id].NumOutputs
  BY <1>1, BoxAt DEF Typed, PressOutput
<1>3. CASE m.OutputID # None
  BY <1>3, ClearIncompleteWireKeeps DEF PressOutput
<1>4. CASE m.OutputID = None
  <2>1. DrawOn(w)
    BY <1>4 DEF PressOutput, OutputDrawn
  <2>2. \/ m = NoWire /\ w = FromOutput(id, p)
        \/ /\ m.InputID \in Nat /\ m.InputPort \in Nat
           /\ w = [OutputID |-> id, OutputPort |-> p,
                    InputID |-> m.InputID, InputPort |-> m.InputPort]
    <3>1. Begun(m)
      BY <1>1 DEF Typed
    <3>2. id \in Nat /\ p \in Nat
      BY <1>2
    <3>3. QED BY ONLY <3>1, <3>2, <1>4, EndDrawn
  <2> HIDE DEF m, w
  <2>3. CASE w = FromOutput(id, p)
    <3>1. Begun(w) /\ AtPort(m_Info, m_PortVec, w)
      BY <1>2, <2>3 DEF Begun, FromOutput, AtPort, None
    <3>2. QED BY <2>1, <3>1, DrawOnKeeps
  <2>4. CASE /\ m.InputID \in Nat /\ m.InputPort \in Nat
             /\ w = [OutputID |-> id, OutputPort |-> p,
                      InputID |-> m.InputID, InputPort |-> m.InputPort]
    <3>1. w \in Wire
      BY <1>2, <2>4 DEF Wire
    <3>2. m.InputID # None
      BY <2>4 DEF None
    <3>3. ~orphaned => Free(w)
      BY <1>1, <1>2, <2>4, <3>1, <3>2 DEF AtPort, Free, Between, Available
    <3>4. QED BY <2>1, <3>1, <3>3, DrawOnKeeps
  <2>5. QED BY <2>2, <2>3, <2>4
<1>5. QED BY <1>3, <1>4

\* On an input, whose button is not lit.
LEMMA PressInputKeeps ==
    ASSUME CanvasIInv, ~broken, NEW id \in DOMAIN m_Info, NEW p \in Buttons(m_Info[id]),
           PressInput(id, p)
    PROVE  CanvasIInv'
<1> DEFINE m == m_IncompleteWire
           w == InputDrawn(m, id, p)
<1>1. Typed /\ (~orphaned => AtPort(m_Info, m_PortVec, m))
  BY DEF CanvasIInv, InStep
<1>2. id \in Nat /\ p \in Nat /\ p < m_Info[id].NumInputs /\ m_PortVec[id][p] = 0
  BY <1>1, BoxAt DEF Typed, PressInput
<1>3. CASE m.InputID # None
  BY <1>3, ClearIncompleteWireKeeps DEF PressInput
<1>4. CASE m.InputID = None
  <2>1. DrawOn(w)
    BY <1>4 DEF PressInput, InputDrawn
  <2>2. \/ m = NoWire /\ w = FromInput(id, p)
        \/ /\ m.OutputID \in Nat /\ m.OutputPort \in Nat
           /\ w = [OutputID |-> m.OutputID, OutputPort |-> m.OutputPort,
                    InputID |-> id, InputPort |-> p]
    <3>1. Begun(m)
      BY <1>1 DEF Typed
    <3>2. id \in Nat /\ p \in Nat
      BY <1>2
    <3>3. QED BY ONLY <3>1, <3>2, <1>4, EndDrawn
  <2> HIDE DEF m, w
  <2>3. CASE w = FromInput(id, p)
    <3>1. Begun(w) /\ AtPort(m_Info, m_PortVec, w)
      BY <1>2, <2>3 DEF Begun, FromInput, AtPort, None
    <3>2. QED BY <2>1, <3>1, DrawOnKeeps
  <2>4. CASE /\ m.OutputID \in Nat /\ m.OutputPort \in Nat
             /\ w = [OutputID |-> m.OutputID, OutputPort |-> m.OutputPort,
                      InputID |-> id, InputPort |-> p]
    <3>1. w \in Wire
      BY <1>2, <2>4 DEF Wire
    <3>2. m.OutputID # None
      BY <2>4 DEF None
    <3>3. ~orphaned => Free(w)
      BY <1>1, <1>2, <2>4, <3>1, <3>2 DEF AtPort, Free, Between, Available
    <3>4. QED BY <2>1, <3>1, <3>3, DrawOnKeeps
  <2>5. QED BY <2>2, <2>3, <2>4
<1>5. QED BY <1>3, <1>4

-----------------------------------------------------------------------------
(* New devices and the wires between them.                                 *)

LEMMA OneOnly ==
    ASSUME NEW ws \in Seq(Wire), NEW id, NEW p, Number(ws, Into(id, p)) <= 1,
           NEW j \in LeadTo(ws, id, p), NEW k \in LeadTo(ws, id, p)
    PROVE  j = k
<1> DEFINE A == LeadTo(ws, id, p)
<1>1. A \in SUBSET DOMAIN ws /\ Number(ws, Into(id, p)) = Cardinality(A)
  BY LeadToIs
<1> HIDE DEF A
<1>2. IsFiniteSet(A)
  BY <1>1, FinitePlaces
<1>3. SUFFICES ASSUME j # k PROVE FALSE
  OBVIOUS
<1>4. IsFiniteSet({j}) /\ Cardinality({j}) = 1
  BY FS_Singleton
<1> DEFINE B == {j} \cup {k}
<1>5. Cardinality(B) = 2 /\ B \in SUBSET A
  <2>1. k \notin {j}
    BY <1>3
  <2>2. Cardinality({j} \cup {k}) = Cardinality({j}) + 1
    BY <1>4, <2>1, FS_AddElement
  <2>3. Cardinality({j} \cup {k}) = 2
    <3>1. Cardinality({j} \cup {k}) = 1 + 1
      BY ONLY <1>4, <2>2, Zenon
    <3>2. 1 + 1 = 2
      OBVIOUS
    <3>3. QED BY ONLY <3>1, <3>2, Zenon
  <2>4. B \in SUBSET A
    BY DEF A
  <2>5. QED BY <2>3, <2>4
<1> HIDE DEF B
<1>6. Cardinality(B) <= Cardinality(A)
  BY <1>2, <1>5, FS_Subset
<1>7. Number(ws, Into(id, p)) \in Nat
  BY LeadToIs
<1>8. QED BY <1>1, <1>5, <1>6, <1>7

\* Where the last of the wires to an input comes from.
Source(ws, id, p) == LET to == LeadTo(ws, id, p)
                     IN  IF to = {} THEN NULL
                         ELSE <<ws[Max(to)].OutputID, ws[Max(to)].OutputPort>>

LEMMA SourceIs ==
    ASSUME NEW ws \in Seq(Wire), NEW id, NEW p
    PROVE  /\ Source(ws, id, p) \in Output
           /\ ToSet(ws) \cap Into(id, p) = {} => Source(ws, id, p) = NULL
           /\ Number(ws, Into(id, p)) <= 1 =>
                 \A w \in ToSet(ws) : w \in Into(id, p) =>
                     Source(ws, id, p) = <<w.OutputID, w.OutputPort>>
<1> DEFINE to == LeadTo(ws, id, p)
<1>1. /\ to = {k \in DOMAIN ws : ws[k] \in Into(id, p)}
      /\ to = {} <=> ToSet(ws) \cap Into(id, p) = {}
  BY LeadToIs
<1>2. Source(ws, id, p) = IF to = {} THEN NULL
                          ELSE <<ws[Max(to)].OutputID, ws[Max(to)].OutputPort>>
  BY DEF Source
<1> HIDE DEF to
<1>3. NULL \in Output
  BY DEF Output
<1>4. ASSUME to # {} PROVE Max(to) \in to /\ <<ws[Max(to)].OutputID, ws[Max(to)].OutputPort>> \in Output
  <2>1. to \in SUBSET (1..Len(ws)) /\ Len(ws) \in Nat
    BY <1>1
  <2>2. Max(to) \in to
    BY <1>4, <2>1, MaxIsMember
  <2>3. ws[Max(to)] \in Wire
    <3>1. PICK n : n = Max(to)
      OBVIOUS
    <3>2. n \in 1..Len(ws)
      BY <2>1, <2>2, <3>1
    <3>3. QED BY <3>1, <3>2
  <2>4. QED BY <2>2, <2>3, WireTypes DEF Output
<1>5. ASSUME Number(ws, Into(id, p)) <= 1, NEW w \in ToSet(ws), w \in Into(id, p)
      PROVE  Source(ws, id, p) = <<w.OutputID, w.OutputPort>>
  <2>1. PICK k \in DOMAIN ws : ws[k] = w
    BY DEF ToSet
  <2>2. k \in to
    BY <1>1, <1>5, <2>1
  <2>3. Max(to) \in to
    BY <1>4, <2>2
  <2>4. Max(to) = k
    BY <1>5, <2>2, <2>3, OneOnly DEF to
  <2>5. QED BY <1>2, <2>1, <2>2, <2>4
<1>6. QED BY <1>1, <1>2, <1>3, <1>4, <1>5

\* Boxes of two sets of devices.
LEMMA JoinBoxes ==
    ASSUME NEW i1, NEW c1, NEW p1, Boxes(i1, c1, p1), NEW i2, NEW c2, NEW p2, Boxes(i2, c2, p2)
    PROVE  /\ DOMAIN Joined(i1, i2) = DOMAIN i1 \cup DOMAIN i2
           /\ Boxes(Joined(i1, i2), Joined(c1, c2), Joined(p1, p2))
<1>1. DOMAIN c1 = DOMAIN i1 /\ DOMAIN p1 = DOMAIN i1 /\ DOMAIN c2 = DOMAIN i2 /\ DOMAIN p2 = DOMAIN i2
  BY DEF Boxes
<1>2. /\ \A j \in DOMAIN i1 : i1[j] \in Shape /\ j \in Nat
      /\ \A j \in DOMAIN i2 : i2[j] \in Shape /\ j \in Nat
  BY DEF Boxes
<1>3. DOMAIN Joined(i1, i2) = DOMAIN i1 \cup DOMAIN i2
      /\ Joined(i1, i2) \in [DOMAIN i1 \cup DOMAIN i2 -> Shape]
  BY <1>2 DEF Joined
<1>4. DOMAIN Joined(c1, c2) = DOMAIN i1 \cup DOMAIN i2
      /\ DOMAIN Joined(p1, p2) = DOMAIN i1 \cup DOMAIN i2
  BY <1>1 DEF Joined
<1>5. ASSUME NEW j \in DOMAIN i1 \cup DOMAIN i2
      PROVE  /\ Joined(c1, c2)[j] \in [Buttons(Joined(i1, i2)[j]) -> Nat]
             /\ Joined(p1, p2)[j] \in [Inputs(Joined(i1, i2)[j]) -> Output]
  <2>1. CASE j \in DOMAIN i1
    <3>1. Joined(i1, i2)[j] = i1[j] /\ Joined(c1, c2)[j] = c1[j] /\ Joined(p1, p2)[j] = p1[j]
      BY <1>1, <2>1 DEF Joined
    <3>2. QED BY <2>1, <3>1 DEF Boxes
  <2>2. CASE j \notin DOMAIN i1
    <3>1. Joined(i1, i2)[j] = i2[j] /\ Joined(c1, c2)[j] = c2[j] /\ Joined(p1, p2)[j] = p2[j]
      BY <1>1, <2>2 DEF Joined
    <3>2. QED BY <2>2, <3>1 DEF Boxes
  <2>3. QED BY <2>1, <2>2
<1>6. DOMAIN i1 \cup DOMAIN i2 \subseteq Nat
  BY <1>2
<1>7. QED BY <1>3, <1>4, <1>5, <1>6 DEF Boxes

\* Wires between boxes lead to none of the others.
LEMMA NoneInto ==
    ASSUME NEW info, NEW ws \in Seq(Wire), ToSet(ws) \subseteq Between(info),
           NEW id, id \notin DOMAIN info, NEW p
    PROVE  Number(ws, Into(id, p)) = 0 /\ ToSet(ws) \cap Into(id, p) = {}
<1>1. ToSet(ws) \cap Into(id, p) = {}
  BY DEF Between, Available, Into
<1>2. QED BY <1>1, NumberIsNatural

LEMMA JoinAgrees ==
    ASSUME NEW i1, NEW c1, NEW p1, Boxes(i1, c1, p1), NEW i2, NEW c2, NEW p2, Boxes(i2, c2, p2),
           DOMAIN i1 \cap DOMAIN i2 = {},
           NEW ws \in Seq(Wire), Agreed(i1, c1, p1, ws), NEW vs \in Seq(Wire), Agreed(i2, c2, p2, vs)
    PROVE  Agreed(Joined(i1, i2), Joined(c1, c2), Joined(p1, p2), ws \o vs)
<1> DEFINE i == Joined(i1, i2)
           c == Joined(c1, c2)
           q == Joined(p1, p2)
           xs == ws \o vs
<1>1. DOMAIN c1 = DOMAIN i1 /\ DOMAIN p1 = DOMAIN i1 /\ DOMAIN c2 = DOMAIN i2 /\ DOMAIN p2 = DOMAIN i2
  BY DEF Boxes
<1>2. DOMAIN i = DOMAIN i1 \cup DOMAIN i2
  BY DEF Joined
<1>3. \A j \in DOMAIN i1 : i[j] = i1[j] /\ c[j] = c1[j] /\ q[j] = p1[j]
  BY <1>1 DEF Joined
<1>4. \A j \in DOMAIN i2 : j \notin DOMAIN i1 /\ i[j] = i2[j] /\ c[j] = c2[j] /\ q[j] = p2[j]
  BY <1>1 DEF Joined
<1>5. xs \in Seq(Wire) /\ ToSet(xs) = ToSet(ws) \cup ToSet(vs)
      /\ \A W : Number(xs, W) = Number(ws, W) + Number(vs, W)
  BY NumberConcat
<1>6. \A id, p : Number(ws, Into(id, p)) \in Nat /\ Number(vs, Into(id, p)) \in Nat
  BY LeadToIs
<1> HIDE DEF i, c, q, xs
<1>7. ToSet(ws) \subseteq Between(i1) /\ ToSet(vs) \subseteq Between(i2)
  BY DEF Agreed
<1>8. ASSUME NEW id, id \notin DOMAIN i1, NEW p
      PROVE  Number(ws, Into(id, p)) = 0 /\ ToSet(ws) \cap Into(id, p) = {}
  BY <1>7, <1>8, NoneInto
<1>9. ASSUME NEW id, id \notin DOMAIN i2, NEW p
      PROVE  Number(vs, Into(id, p)) = 0 /\ ToSet(vs) \cap Into(id, p) = {}
  BY <1>7, <1>9, NoneInto
<1>10. ToSet(xs) \subseteq Between(i)
  <2>1. ASSUME NEW w \in ToSet(ws) PROVE w \in Between(i)
    <3>1. w \in Wire /\ Available(i1, w)
      BY <1>7 DEF Between
    <3>2. QED BY <3>1, <1>2, <1>3 DEF Between, Available
  <2>2. ASSUME NEW w \in ToSet(vs) PROVE w \in Between(i)
    <3>1. w \in Wire /\ Available(i2, w)
      BY <1>7 DEF Between
    <3>2. QED BY <3>1, <1>2, <1>4 DEF Between, Available
  <2>3. QED BY <1>5, <2>1, <2>2
<1>11. Alone(xs)
  <2>1. ASSUME NEW id, NEW p PROVE Number(xs, Into(id, p)) <= 1
    <3>1. Number(ws, Into(id, p)) <= 1 /\ Number(vs, Into(id, p)) <= 1
      BY DEF Agreed, Alone
    <3>2. Number(ws, Into(id, p)) = 0 \/ Number(vs, Into(id, p)) = 0
      BY <1>8, <1>9
    <3>3. Number(xs, Into(id, p)) = Number(ws, Into(id, p)) + Number(vs, Into(id, p))
      BY <1>5
    <3>4. QED BY <1>6, <3>1, <3>2, <3>3
  <2>2. QED BY <2>1 DEF Alone
<1>12. ASSUME NEW id \in DOMAIN i1
       PROVE  /\ id \notin DOMAIN i2
              /\ \A p : ToSet(vs) \cap Into(id, p) = {}
                        /\ Number(xs, Into(id, p)) = Number(ws, Into(id, p))
  <2>1. id \notin DOMAIN i2
    OBVIOUS
  <2>2. \A p : Number(vs, Into(id, p)) = 0 /\ ToSet(vs) \cap Into(id, p) = {}
    BY <1>9, <2>1
  <2>3. QED BY <1>5, <1>6, <2>1, <2>2
<1>13. ASSUME NEW id \in DOMAIN i2
       PROVE  \A p : ToSet(ws) \cap Into(id, p) = {}
                     /\ Number(xs, Into(id, p)) = Number(vs, Into(id, p))
  <2>1. id \notin DOMAIN i1
    OBVIOUS
  <2>2. \A p : Number(ws, Into(id, p)) = 0 /\ ToSet(ws) \cap Into(id, p) = {}
    BY <1>8, <2>1
  <2>3. QED BY <1>5, <1>6, <2>1, <2>2
<1>14. Shown(i, c, xs)
  <2>1. ASSUME NEW id \in DOMAIN i, NEW p \in Inputs(i[id])
        PROVE  c[id][p] = Number(xs, Into(id, p))
    <3>1. CASE id \in DOMAIN i1
      <4>1. p \in Inputs(i1[id]) /\ c[id] = c1[id]
        BY <1>3, <3>1
      <4>2. c1[id][p] = Number(ws, Into(id, p))
        BY <3>1, <4>1 DEF Agreed, Shown
      <4>3. QED BY <1>12, <3>1, <4>1, <4>2
    <3>2. CASE id \in DOMAIN i2
      <4>1. p \in Inputs(i2[id]) /\ c[id] = c2[id]
        BY <1>4, <3>2
      <4>2. c2[id][p] = Number(vs, Into(id, p))
        BY <3>2, <4>1 DEF Agreed, Shown
      <4>3. QED BY <1>13, <3>2, <4>1, <4>2
    <3>3. QED BY <1>2, <3>1, <3>2
  <2>2. QED BY <2>1 DEF Shown
<1>15. Pointed(i, q, xs)
  <2>1. ASSUME NEW id \in DOMAIN i, NEW p \in Inputs(i[id])
        PROVE  /\ \A w \in ToSet(xs) : w \in Into(id, p) =>
                     q[id][p] = <<w.OutputID, w.OutputPort>>
               /\ ToSet(xs) \cap Into(id, p) = {} => q[id][p] = NULL
    <3>1. CASE id \in DOMAIN i1
      <4>1. p \in Inputs(i1[id]) /\ q[id] = p1[id]
        BY <1>3, <3>1
      <4>2. /\ \A w \in ToSet(ws) : w \in Into(id, p) =>
                  p1[id][p] = <<w.OutputID, w.OutputPort>>
            /\ ToSet(ws) \cap Into(id, p) = {} => p1[id][p] = NULL
        BY <3>1, <4>1 DEF Agreed, Pointed
      <4>3. ToSet(vs) \cap Into(id, p) = {}
        BY <1>12, <3>1
      <4>4. QED BY <1>5, <4>1, <4>2, <4>3
    <3>2. CASE id \in DOMAIN i2
      <4>1. p \in Inputs(i2[id]) /\ q[id] = p2[id]
        BY <1>4, <3>2
      <4>2. /\ \A w \in ToSet(vs) : w \in Into(id, p) =>
                  p2[id][p] = <<w.OutputID, w.OutputPort>>
            /\ ToSet(vs) \cap Into(id, p) = {} => p2[id][p] = NULL
        BY <3>2, <4>1 DEF Agreed, Pointed
      <4>3. ToSet(ws) \cap Into(id, p) = {}
        BY <1>13, <3>2
      <4>4. QED BY <1>5, <4>1, <4>2, <4>3
    <3>3. QED BY <1>2, <3>1, <3>2
  <2>2. QED BY <2>1 DEF Pointed
<1>16. Agreed(i, c, q, xs)
  BY <1>10, <1>11, <1>14, <1>15 DEF Agreed
<1>17. QED BY <1>16 DEF i, c, q, xs

LEMMA NewGraph ==
    ASSUME NEW g, NEW ws \in Seq(Wire), Linked(g, ws),
           NEW news, NEW c, NEW p, Boxes(news, c, p),
           NEW good \in Seq(Wire), ToSet(good) \subseteq Between(news)
    PROVE  Linked(AddedOf(g, news, good), ws \o good)
<1>1. DOMAIN news \in SUBSET Nat /\ news \in [DOMAIN news -> Shape]
  BY DEF Boxes
<1>2. good \in Seq(Boxed(news))
  <2>1. ToSet(good) \subseteq Boxed(news)
    BY DEF Between, Available, Boxed
  <2>2. QED BY <2>1, SeqOfMembers
<1>3. PICK r : r = AddedOf(g, news, good)
  OBVIOUS
<1>4. Linked(r, ws \o good)
  BY <1>1, <1>2, <1>3, AddedFollows
<1>5. QED BY <1>3, <1>4

\* The buttons and the inputs of new devices, lit and pointed by their wires.
FreshCounts(news, good) ==
    [id \in DOMAIN news |-> [b \in Buttons(news[id]) |-> Uses(good, news[id], id, b)]]
FreshInputs(news, good) ==
    [id \in DOMAIN news |-> [p \in Inputs(news[id]) |-> Source(good, id, p)]]

LEMMA FreshBoxes ==
    ASSUME NEW news, news \in [DOMAIN news -> Shape], DOMAIN news \subseteq Nat,
           NEW good \in Seq(Wire)
    PROVE  Boxes(news, FreshCounts(news, good), FreshInputs(news, good))
<1>1. ASSUME NEW id \in DOMAIN news
      PROVE  /\ FreshCounts(news, good)[id] \in [Buttons(news[id]) -> Nat]
             /\ FreshInputs(news, good)[id] \in [Inputs(news[id]) -> Output]
  <2>1. news[id] \in Shape
    OBVIOUS
  <2>2. \A b \in Buttons(news[id]) : b \in Nat
    BY <2>1 DEF Buttons, Shape
  <2>3. \A b \in Buttons(news[id]) : Uses(good, news[id], id, b) \in Nat
    BY <2>1, <2>2, UsesIs
  <2>4. \A p \in Inputs(news[id]) : Source(good, id, p) \in Output
    BY SourceIs
  <2>5. QED BY <2>3, <2>4 DEF FreshCounts, FreshInputs
<1>2. DOMAIN FreshCounts(news, good) = DOMAIN news /\ DOMAIN FreshInputs(news, good) = DOMAIN news
  BY DEF FreshCounts, FreshInputs
<1>3. QED BY <1>1, <1>2 DEF Boxes

LEMMA FreshAgrees ==
    ASSUME NEW news, news \in [DOMAIN news -> Shape], DOMAIN news \subseteq Nat,
           NEW good \in Seq(Wire), ToSet(good) \subseteq Between(news), Alone(good)
    PROVE  Agreed(news, FreshCounts(news, good), FreshInputs(news, good), good)
<1>1. ASSUME NEW id \in DOMAIN news, NEW p \in Inputs(news[id])
      PROVE  FreshCounts(news, good)[id][p] = Number(good, Into(id, p))
  <2>1. news[id] \in Shape
    OBVIOUS
  <2>2. p \in Nat /\ p \in Buttons(news[id])
    BY <2>1 DEF Inputs, Buttons, Shape
  <2>3. Uses(good, news[id], id, p) = Number(good, Into(id, p))
    BY <2>1, <2>2, UsesIs
  <2>4. QED BY <2>2, <2>3 DEF FreshCounts
<1>2. ASSUME NEW id \in DOMAIN news, NEW p \in Inputs(news[id])
      PROVE  /\ \A w \in ToSet(good) : w \in Into(id, p) =>
                   FreshInputs(news, good)[id][p] = <<w.OutputID, w.OutputPort>>
             /\ ToSet(good) \cap Into(id, p) = {} => FreshInputs(news, good)[id][p] = NULL
  <2>1. FreshInputs(news, good)[id][p] = Source(good, id, p)
    BY DEF FreshInputs
  <2>2. Number(good, Into(id, p)) <= 1
    BY DEF Alone
  <2>3. QED BY <2>1, <2>2, SourceIs
<1>3. QED BY <1>1, <1>2 DEF Agreed, Shown, Pointed

LEMMA GoodWires ==
    ASSUME NEW file \in Seq(Wire), NEW news,
           NEW good, good = Among(file, {w \in ToSet(file) : Available(news, w)})
    PROVE  good \in Seq(Wire) /\ ToSet(good) \subseteq Between(news)
           /\ (Alone(file) => Alone(good))
<1> DEFINE W == {w \in ToSet(file) : Available(news, w)}
           rest == Among(file, ToSet(file) \ ToSet(good))
<1>1. good = Among(file, W)
  OBVIOUS
<1>2. ToSet(file) \subseteq Wire
  BY DEF ToSet
<1> HIDE DEF W, rest
<1>3. good \in Seq(Wire) /\ ToSet(good) = ToSet(file) \cap W
  <2>1. Among(file, W) \in Seq(Wire) /\ ToSet(Among(file, W)) = ToSet(file) \cap W
    BY AmongCounts
  <2>2. QED BY <1>1, <2>1
<1>4. ToSet(good) \subseteq Between(news)
  BY <1>2, <1>3 DEF W, Between
<1>5. rest \in Seq(Wire) /\ \A V : Number(file, V) = Number(good, V) + Number(rest, V)
  <2>1. PICK other : other = rest
    OBVIOUS
  <2>2. Divided(file, good, other)
    BY <1>1, <2>1, AmongDivides DEF rest
  <2>3. QED BY <2>1, <2>2 DEF Divided, Splits
<1>6. ASSUME Alone(file), NEW id, NEW p PROVE Number(good, Into(id, p)) <= 1
  <2>1. Number(good, Into(id, p)) \in Nat /\ Number(rest, Into(id, p)) \in Nat
    BY <1>3, <1>5, LeadToIs
  <2>2. Number(file, Into(id, p)) <= 1
    BY <1>6 DEF Alone
  <2>3. Number(file, Into(id, p)) = Number(good, Into(id, p)) + Number(rest, Into(id, p))
    BY <1>5
  <2>4. QED BY <2>1, <2>2, <2>3
<1>7. QED BY <1>3, <1>4, <1>6 DEF Alone

LEMMA StreamInKeeps ==
    ASSUME NEW info, NEW counts, NEW inputs, Boxes(info, counts, inputs),
           NEW ws \in Seq(Wire), NEW g, Linked(g, ws),
           NEW news, news \in [DOMAIN news -> Shape], DOMAIN news \subseteq Nat,
           DOMAIN info \cap DOMAIN news = {},
           NEW file \in Seq(Wire), StreamIn(info, counts, inputs, ws, g, news, file)
    PROVE  /\ Boxes(m_Info', m_PortVec', m_Input')
           /\ DOMAIN m_Info' = DOMAIN info \cup DOMAIN news
           /\ m_WireVec' \in Seq(Wire)
           /\ Linked(m_Graph', m_WireVec')
           /\ m_IncompleteWire' = m_IncompleteWire /\ broken' = broken
           /\ \A id \in DOMAIN info : m_Info'[id] = info[id] /\ m_PortVec'[id] = counts[id]
           /\ Agreed(info, counts, inputs, ws) /\ Alone(file) =>
                 Agreed(m_Info', m_PortVec', m_Input', m_WireVec')
<1>1. PICK good : good = Among(file, {w \in ToSet(file) : Available(news, w)})
  OBVIOUS
<1>2. good \in Seq(Wire) /\ ToSet(good) \subseteq Between(news) /\ (Alone(file) => Alone(good))
  BY <1>1, GoodWires
<1> DEFINE c == FreshCounts(news, good)
           p == FreshInputs(news, good)
<1>3. /\ m_Info' = Joined(info, news)
      /\ m_PortVec' = Joined(counts, c)
      /\ m_Input' = Joined(inputs, p)
      /\ m_WireVec' = ws \o good
      /\ m_Graph' = AddedOf(g, news, good)
      /\ m_IncompleteWire' = m_IncompleteWire /\ broken' = broken
  BY <1>1 DEF StreamIn, FreshCounts, FreshInputs, Source, Lit, AddedOf
<1>4. Boxes(news, c, p)
  BY <1>2, FreshBoxes
<1>5. Alone(file) => Agreed(news, c, p, good)
  BY <1>2, FreshAgrees
<1> HIDE DEF c, p
<1>6. Boxes(m_Info', m_PortVec', m_Input') /\ DOMAIN m_Info' = DOMAIN info \cup DOMAIN news
  BY <1>3, <1>4, JoinBoxes
<1>7. m_WireVec' \in Seq(Wire)
  BY <1>2, <1>3, NumberConcat
<1>8. Linked(m_Graph', m_WireVec')
  BY <1>2, <1>3, <1>4, NewGraph
<1>9. \A id \in DOMAIN info : m_Info'[id] = info[id] /\ m_PortVec'[id] = counts[id]
  <2>1. DOMAIN counts = DOMAIN info
    BY DEF Boxes
  <2>2. QED BY <1>3, <2>1 DEF Joined
<1>10. ASSUME Agreed(info, counts, inputs, ws), Alone(file)
       PROVE  Agreed(m_Info', m_PortVec', m_Input', m_WireVec')
  <2>1. Agreed(news, c, p, good)
    BY <1>5, <1>10
  <2>2. Agreed(Joined(info, news), Joined(counts, c), Joined(inputs, p), ws \o good)
    BY <1>2, <1>4, <1>10, <2>1, JoinAgrees
  <2>3. QED BY <1>3, <2>2
<1>11. QED BY <1>3, <1>6, <1>7, <1>8, <1>9, <1>10

LEMMA NoWires == << >> \in Seq(Wire) /\ ToSet(<< >>) = {} /\ Alone(<< >>)
<1>1. << >> \in Seq(Wire) /\ ToSet(<< >>) = {}
  BY DEF ToSet
<1>2. \A V : Number(<< >>, V) = 0
  BY <1>1, NumberIsNatural
<1>3. QED BY <1>1, <1>2 DEF Alone

\* Devices with new IDs, and wires between them, one at an input.
LEMMA GrownKeeps ==
    ASSUME CanvasIInv, ~broken, NEW news, NEW file \in Seq(Wire),
           StreamIn(m_Info, m_PortVec, m_Input, m_WireVec, m_Graph, news, file),
           news \in [DOMAIN news -> Shape], DOMAIN news \subseteq Nat,
           \A id \in DOMAIN news : id >= m_NextID /\ id < m_NextID',
           m_NextID' \in Nat, m_NextID <= m_NextID', orphaned' = orphaned,
           ~orphaned => Alone(file)
    PROVE  CanvasIInv'
<1>1. Typed /\ Linked(m_Graph, m_WireVec) /\ (~orphaned => InStep /\ Alone(m_WireVec))
  BY DEF CanvasIInv
<1>2. Boxes(m_Info, m_PortVec, m_Input) /\ m_WireVec \in Seq(Wire) /\ m_NextID \in Nat
      /\ \A id \in DOMAIN m_Info : id < m_NextID /\ id \in Nat
  BY <1>1 DEF Typed, Boxes
<1>3. DOMAIN m_Info \cap DOMAIN news = {}
  BY <1>2
<1>4. /\ Boxes(m_Info', m_PortVec', m_Input')
      /\ DOMAIN m_Info' = DOMAIN m_Info \cup DOMAIN news
      /\ m_WireVec' \in Seq(Wire)
      /\ Linked(m_Graph', m_WireVec')
      /\ m_IncompleteWire' = m_IncompleteWire /\ broken' = broken
      /\ \A id \in DOMAIN m_Info : m_Info'[id] = m_Info[id] /\ m_PortVec'[id] = m_PortVec[id]
      /\ Agreed(m_Info, m_PortVec, m_Input, m_WireVec) /\ Alone(file) =>
            Agreed(m_Info', m_PortVec', m_Input', m_WireVec')
  BY <1>1, <1>2, <1>3, StreamInKeeps
<1>5. Typed'
  <2>1. \A id \in DOMAIN m_Info' : id < m_NextID'
    BY <1>2, <1>4
  <2>2. QED BY <1>1, <1>4, <2>1 DEF Typed
<1>6. ASSUME ~orphaned PROVE InStep' /\ Alone(m_WireVec')
  <2>1. Agreed(m_Info', m_PortVec', m_Input', m_WireVec')
    BY <1>1, <1>4, <1>6 DEF InStep
  <2>2. AtPort(m_Info', m_PortVec', m_IncompleteWire')
    BY <1>1, <1>4, <1>6 DEF InStep, AtPort
  <2>3. QED BY <2>1, <2>2 DEF InStep, Agreed
<1>7. QED BY <1>4, <1>5, <1>6 DEF CanvasIInv

LEMMA AddDeviceKeeps ==
    ASSUME CanvasIInv, ~broken, NEW shape \in Shapes, AddDevice(shape)
    PROVE  CanvasIInv'
<1>1. PICK news : news = [id \in {m_NextID} |-> shape]
  OBVIOUS
<1>2. PICK file : file = << >>
  OBVIOUS
<1>3. /\ StreamIn(m_Info, m_PortVec, m_Input, m_WireVec, m_Graph, news, file)
      /\ m_NextID' = m_NextID + 1 /\ orphaned' = orphaned
  BY <1>1, <1>2 DEF AddDevice
<1>4. m_NextID \in Nat
  BY DEF CanvasIInv, Typed
<1>5. shape \in Shape
  BY CanvasAssumption
<1>6. /\ news \in [DOMAIN news -> Shape] /\ DOMAIN news = {m_NextID} /\ DOMAIN news \subseteq Nat
  BY <1>1, <1>4, <1>5
<1>7. file \in Seq(Wire) /\ Alone(file)
  BY <1>2, NoWires
<1>8. /\ \A id \in DOMAIN news : id >= m_NextID /\ id < m_NextID'
      /\ m_NextID' \in Nat /\ m_NextID <= m_NextID'
  BY <1>3, <1>4, <1>6
<1>9. QED BY <1>3, <1>6, <1>7, <1>8, GrownKeeps

\* The wires that a patch file has.
LEMMA FileAlone ==
    ASSUME NEW patch \in Patches
    PROVE  patch.wires \in Seq(Wire) /\ patch.shapes \in Seq(Shape) /\ Alone(patch.wires)
<1>1. patch.wires \in Seq(Wire) /\ patch.shapes \in Seq(Shape)
  BY CanvasAssumption
<1>2. PICK ws : ws = patch.wires
  OBVIOUS
<1>3. ws \in Seq(Wire)
  BY <1>1, <1>2
<1>4. \A j, k \in DOMAIN ws :
         /\ ws[j].InputID = ws[k].InputID
         /\ ws[j].InputPort = ws[k].InputPort
         => j = k
  BY <1>2, CanvasAssumption
<1>5. ASSUME NEW id, NEW p PROVE Number(ws, Into(id, p)) <= 1
  <2> DEFINE A == {k \in DOMAIN ws : ws[k] \in Into(id, p)}
  <2>1. \A j, k \in A : j = k
    BY <1>4 DEF Into
  <2>2. Number(ws, Into(id, p)) = Cardinality(A)
    BY DEF Number
  <2> HIDE DEF A
  <2>3. CASE A = {}
    <3>1. Cardinality(A) = 0
      BY <2>3, FS_EmptySet
    <3>2. QED BY <2>2, <3>1
  <2>4. CASE A # {}
    <3>1. PICK k : A = {k}
      BY <2>1, <2>4
    <3>2. Cardinality(A) = 1
      BY <3>1, FS_Singleton
    <3>3. QED BY <2>2, <3>2
  <2>5. QED BY <2>3, <2>4
<1>6. QED BY <1>1, <1>2, <1>5 DEF Alone

LEMMA NoBoxes ==
    /\ Boxes(<< >>, << >>, << >>) /\ DOMAIN << >> = {}
    /\ Linked(<< >>, << >>) /\ Agreed(<< >>, << >>, << >>, << >>)
<1>1. Boxes(<< >>, << >>, << >>) /\ DOMAIN << >> = {}
  BY DEF Boxes
<1>2. ASSUME NEW m, NEW n PROVE Wired(<< >>, m, n) = Number(<< >>, Link(m, n))
  <2>1. Number(<< >>, Link(m, n)) = 0
    BY NoWires, NumberIsNatural
  <2>2. Wired(<< >>, m, n) = 0
    BY <1>1 DEF Wired
  <2>3. QED BY <2>1, <2>2
<1>3. Linked(<< >>, << >>)
  BY <1>2, EmptyGraph DEF Linked
<1>4. Agreed(<< >>, << >>, << >>, << >>)
  BY <1>1, NoWires DEF Agreed, Shown, Pointed
<1>5. QED BY <1>1, <1>3, <1>4

\* New, or Open.
LEMMA OpenKeeps ==
    ASSUME CanvasIInv, ~broken, NEW patch \in Patches, Open(patch)
    PROVE  CanvasIInv'
<1>1. PICK news : news = [id \in 0..Len(patch.shapes) - 1 |-> patch.shapes[id + 1]]
  OBVIOUS
<1>2. PICK file : file = patch.wires
  OBVIOUS
<1>3. PICK e : e = << >>
  OBVIOUS
<1>4. /\ StreamIn(e, e, e, e, e, news, file)
      /\ m_NextID' = Len(patch.shapes) /\ orphaned' = (orphaned \/ Drawing)
  BY <1>1, <1>2, <1>3 DEF Open, NextAfter
<1>5. file \in Seq(Wire) /\ patch.shapes \in Seq(Shape) /\ Alone(file)
  BY <1>2, FileAlone
<1>6. /\ DOMAIN news = 0..Len(patch.shapes) - 1 /\ DOMAIN news \subseteq Nat
      /\ news \in [DOMAIN news -> Shape]
      /\ Len(patch.shapes) \in Nat
  <2>1. Len(patch.shapes) \in Nat
    BY <1>5
  <2>2. \A id \in 0..Len(patch.shapes) - 1 : patch.shapes[id + 1] \in Shape
    BY <1>5
  <2>3. QED BY <1>1, <2>1, <2>2
<1>7. e \in Seq(Wire) /\ Boxes(e, e, e) /\ DOMAIN e = {} /\ Linked(e, e) /\ Agreed(e, e, e, e)
  BY <1>3, NoBoxes, NoWires
<1>8. /\ Boxes(m_Info', m_PortVec', m_Input')
      /\ DOMAIN m_Info' = DOMAIN e \cup DOMAIN news
      /\ m_WireVec' \in Seq(Wire)
      /\ Linked(m_Graph', m_WireVec')
      /\ m_IncompleteWire' = m_IncompleteWire /\ broken' = broken
      /\ Agreed(e, e, e, e) /\ Alone(file) =>
            Agreed(m_Info', m_PortVec', m_Input', m_WireVec')
  <2>1. DOMAIN e \cap DOMAIN news = {}
    BY <1>7
  <2>2. QED BY <1>4, <1>5, <1>6, <1>7, <2>1, StreamInKeeps
<1>9. Typed /\ orphaned \in BOOLEAN /\ broken \in BOOLEAN /\ Begun(m_IncompleteWire)
  BY DEF CanvasIInv, Typed
<1>10. orphaned' \in BOOLEAN
  BY <1>4
<1>11. Typed'
  BY <1>4, <1>6, <1>7, <1>8, <1>9, <1>10 DEF Typed
<1>12. Agreed(m_Info', m_PortVec', m_Input', m_WireVec')
  BY <1>5, <1>7, <1>8
<1>13. ~orphaned' => AtPort(m_Info', m_PortVec', m_IncompleteWire')
  BY <1>4, <1>8, NothingDrawn DEF Drawing
<1>14. QED BY <1>8, <1>11, <1>12, <1>13 DEF CanvasIInv, InStep, Agreed

\* The place of a device in the selection ids, and the ID of its copy.
Place(ids, id) == CHOOSE k \in DOMAIN ids : ids[k] = id
CopyID(ids, next, id) == next + Place(ids, id) - 1
Copies(ids, next) == [k \in 1..Len(ids) |-> next + k - 1]

LEMMA CopyIDs ==
    ASSUME NEW D, NEW ids \in Seq(D), NEW next \in Nat
    PROVE  /\ ToSet(Copies(ids, next)) = next..next + Len(ids) - 1
           /\ \A c \in ToSet(Copies(ids, next)) : c \in Nat /\ c >= next /\ c < next + Len(ids)
                                     /\ ids[c - next + 1] \in D
           /\ \A x \in ToSet(ids) : /\ Copies(ids, next)[Place(ids, x)] = CopyID(ids, next, x)
                                    /\ CopyID(ids, next, x) \in ToSet(Copies(ids, next))
           /\ \A x, y \in ToSet(ids) : CopyID(ids, next, x) = CopyID(ids, next, y) => x = y
<1>0. PICK copy : copy = Copies(ids, next)
  OBVIOUS
<1>a. copy = [k \in 1..Len(ids) |-> next + k - 1]
  BY <1>0 DEF Copies
<1>1. DOMAIN ids = 1..Len(ids) /\ Len(ids) \in Nat /\ \A k \in 1..Len(ids) : ids[k] \in D
  OBVIOUS
<1>2. ToSet(copy) = next..next + Len(ids) - 1
  <2>1. \A k \in 1..Len(ids) : copy[k] \in next..next + Len(ids) - 1
    BY <1>1, <1>a
  <2>2. \A c \in next..next + Len(ids) - 1 : c - next + 1 \in 1..Len(ids) /\ copy[c - next + 1] = c
    BY <1>1, <1>a
  <2>3. DOMAIN copy = 1..Len(ids)
    BY <1>a
  <2>4. ToSet(copy) = {copy[k] : k \in 1..Len(ids)}
    BY <2>3 DEF ToSet
  <2>5. \A c \in next..next + Len(ids) - 1 : \E k \in 1..Len(ids) : copy[k] = c
    BY <2>2
  <2> DEFINE R == next..next + Len(ids) - 1
             I == 1..Len(ids)
  <2>6. /\ \A k \in I : copy[k] \in R
        /\ \A c \in R : \E k \in I : copy[k] = c
        /\ ToSet(copy) = {copy[k] : k \in I}
    BY <2>1, <2>4, <2>5
  <2> HIDE DEF R, I
  <2>7. ToSet(copy) = R
    <3>1. \A c : c \in {copy[k] : k \in I} <=> c \in R
      BY <2>6
    <3>2. \A c : c \in ToSet(copy) <=> c \in R
      BY <3>1, <2>6
    <3>3. QED BY <3>2, Zenon
  <2>8. QED BY <2>7 DEF R
<1>3. \A c \in ToSet(copy) : c \in Nat /\ c >= next /\ c < next + Len(ids)
                             /\ ids[c - next + 1] \in D
  BY <1>1, <1>2
<1>4. \A x \in ToSet(ids) : Place(ids, x) \in DOMAIN ids /\ ids[Place(ids, x)] = x
  BY DEF ToSet, Place
<1>5. \A x : CopyID(ids, next, x) = next + Place(ids, x) - 1
  BY DEF CopyID
<1>6. \A x \in ToSet(ids) : copy[Place(ids, x)] = CopyID(ids, next, x) /\ CopyID(ids, next, x) \in ToSet(copy)
  BY <1>1, <1>2, <1>4, <1>5, <1>a
<1>7. ASSUME NEW x \in ToSet(ids), NEW y \in ToSet(ids), CopyID(ids, next, x) = CopyID(ids, next, y)
      PROVE  x = y
  <2>1. Place(ids, x) \in Nat /\ Place(ids, y) \in Nat
    BY <1>1, <1>4
  <2>2. Place(ids, x) = Place(ids, y)
    BY <1>5, <1>7, <2>1
  <2>3. QED BY <1>4, <2>2
<1>8. QED BY <1>0, <1>2, <1>3, <1>6, <1>7

\* A wire of the selection, between the copies.
CopyOf(ids, next, w) ==
    [OutputID |-> CopyID(ids, next, w.OutputID), OutputPort |-> w.OutputPort,
     InputID |-> CopyID(ids, next, w.InputID), InputPort |-> w.InputPort]

LEMMA CopiedWire ==
    ASSUME NEW w \in Wire, NEW a, NEW d
    PROVE  [w EXCEPT !.OutputID = a, !.InputID = d] =
              [OutputID |-> a, OutputPort |-> w.OutputPort,
               InputID |-> d, InputPort |-> w.InputPort]
<1>1. PICK b, c : b = w.OutputPort /\ c = w.InputPort
  OBVIOUS
<1>2. PICK x, y : x = w.OutputID /\ y = w.InputID
  OBVIOUS
<1>3. w = [OutputID |-> x, OutputPort |-> b, InputID |-> y, InputPort |-> c]
  BY <1>1, <1>2 DEF Wire
<1>4. PICK v : v = [w EXCEPT !.OutputID = a]
  OBVIOUS
<1>5. v = [OutputID |-> a, OutputPort |-> b, InputID |-> y, InputPort |-> c]
  BY <1>3, <1>4
<1>6. [v EXCEPT !.InputID = d] = [OutputID |-> a, OutputPort |-> b, InputID |-> d, InputPort |-> c]
  BY <1>5
<1>7. [w EXCEPT !.OutputID = a, !.InputID = d] = [v EXCEPT !.InputID = d]
  BY <1>4
<1>8. QED BY <1>1, <1>6, <1>7

CopiesOf(ids, next, ws) == [k \in DOMAIN ws |-> CopyOf(ids, next, ws[k])]

\* The copies of wires that are alone at their inputs are alone.
LEMMA CopiesAlone ==
    ASSUME NEW D, NEW ids \in Seq(D), NEW next \in Nat,
           NEW ws \in Seq(Wire),
           \A w \in ToSet(ws) : w.InputID \in ToSet(ids) /\ w.OutputID \in ToSet(ids)
    PROVE  /\ CopiesOf(ids, next, ws) \in Seq(Wire)
           /\ Alone(ws) => Alone(CopiesOf(ids, next, ws))
<1>1. PICK vs : vs = CopiesOf(ids, next, ws)
  OBVIOUS
<1>2. \A x \in ToSet(ids) : CopyID(ids, next, x) \in Nat
  <2>1. \A c \in ToSet(Copies(ids, next)) : c \in Nat
    BY CopyIDs
  <2>2. \A x \in ToSet(ids) : CopyID(ids, next, x) \in ToSet(Copies(ids, next))
    BY CopyIDs
  <2>3. QED BY <2>1, <2>2
<1>3. \A x, y \in ToSet(ids) : CopyID(ids, next, x) = CopyID(ids, next, y) => x = y
  BY CopyIDs
<1>4. DOMAIN ws = 1..Len(ws) /\ Len(ws) \in Nat /\ DOMAIN vs = DOMAIN ws
      /\ \A k \in DOMAIN ws : ws[k] \in Wire /\ ws[k] \in ToSet(ws) /\ vs[k] = CopyOf(ids, next, ws[k])
  BY <1>1 DEF ToSet, CopiesOf
<1>5. \A k \in DOMAIN ws : vs[k] \in Wire
  <2>1. ASSUME NEW w \in ToSet(ws), w \in Wire PROVE CopyOf(ids, next, w) \in Wire
    <3>1. CopyID(ids, next, w.OutputID) \in Nat /\ CopyID(ids, next, w.InputID) \in Nat
      BY <1>2
    <3>2. QED BY <2>1, <3>1, WireTypes DEF CopyOf, Wire
  <2>2. QED BY <1>4, <2>1
<1>6. vs \in Seq(Wire)
  <2>1. vs \in [1..Len(ws) -> Wire]
    BY <1>1, <1>4, <1>5 DEF CopiesOf
  <2>2. QED BY <1>4, <2>1, SeqDef
<1>7. ASSUME Alone(ws), NEW c, NEW p PROVE Number(vs, Into(c, p)) <= 1
  <2>1. CASE LeadTo(vs, c, p) = {}
    <3>1. LeadTo(vs, c, p) = {} <=> Number(vs, Into(c, p)) = 0
      BY <1>6, LeadToIs
    <3>2. QED BY <2>1, <3>1
  <2>2. CASE LeadTo(vs, c, p) # {}
    <3>1. PICK j : j \in LeadTo(vs, c, p)
      BY <2>2
    <3>2. j \in DOMAIN ws /\ vs[j].InputID = c
      BY <1>4, <3>1 DEF LeadTo
    <3> DEFINE x == ws[j].InputID
    <3>3. x \in ToSet(ids) /\ CopyID(ids, next, x) = c
      BY <1>4, <3>2 DEF CopyOf
    <3> HIDE DEF x
    <3>4. ASSUME NEW k \in DOMAIN ws
          PROVE  /\ vs[k].InputID = CopyID(ids, next, ws[k].InputID)
                 /\ vs[k].InputPort = ws[k].InputPort
                 /\ ws[k].InputID \in ToSet(ids)
      BY <1>4 DEF CopyOf
    <3>5. LeadTo(vs, c, p) = LeadTo(ws, x, p)
      BY <1>3, <1>4, <3>3, <3>4 DEF LeadTo
    <3>6. Number(vs, Into(c, p)) = Number(ws, Into(x, p))
      BY <1>6, <3>5, LeadToIs
    <3>7. QED BY <1>7, <3>6 DEF Alone
  <2>3. QED BY <2>1, <2>2
<1>8. QED BY <1>1, <1>6, <1>7 DEF Alone

\* Copy and paste.
LEMMA PasteKeeps ==
    ASSUME CanvasIInv, ~broken, NEW ids \in Seq(DOMAIN m_Info), Paste(ids)
    PROVE  CanvasIInv'
<1> DEFINE W == {w \in ToSet(m_WireVec) : {w.OutputID, w.InputID} \subseteq ToSet(ids)}
<1>1. PICK copy : copy = Copies(ids, m_NextID)
  OBVIOUS
<1>2. PICK inside : inside = Among(m_WireVec, W)
  OBVIOUS
<1>3. PICK news : news = [id \in ToSet(copy) |-> m_Info[ids[id - m_NextID + 1]]]
  OBVIOUS
<1>4. Typed /\ (~orphaned => Alone(m_WireVec))
  BY DEF CanvasIInv
<1>5. m_NextID \in Nat /\ m_WireVec \in Seq(Wire) /\ Boxes(m_Info, m_PortVec, m_Input)
      /\ Len(ids) \in Nat
  BY <1>4 DEF Typed
<1>6. /\ \A c \in ToSet(copy) : c \in Nat /\ c >= m_NextID /\ c < m_NextID + Len(ids)
                                /\ ids[c - m_NextID + 1] \in DOMAIN m_Info
      /\ \A x \in ToSet(ids) :
            copy[Place(ids, x)] = CopyID(ids, m_NextID, x)
  <2>1. PICK next, D : next = m_NextID /\ D = DOMAIN m_Info
    OBVIOUS
  <2>2. next \in Nat /\ ids \in Seq(D) /\ copy = Copies(ids, next)
    BY <1>1, <1>5, <2>1
  <2>3. /\ \A c \in ToSet(copy) : c \in Nat /\ c >= next /\ c < next + Len(ids)
                                  /\ ids[c - next + 1] \in D
        /\ \A x \in ToSet(ids) : copy[Place(ids, x)] = CopyID(ids, next, x)
    BY <2>2, CopyIDs
  <2>4. QED BY <2>1, <2>3
<1>7. /\ DOMAIN news = ToSet(copy) /\ DOMAIN news \subseteq Nat
      /\ news \in [DOMAIN news -> Shape]
      /\ \A id \in DOMAIN news : id >= m_NextID /\ id < m_NextID + Len(ids)
  <2>1. \A id \in DOMAIN m_Info : m_Info[id] \in Shape
    BY <1>5 DEF Boxes
  <2>2. QED BY <1>3, <1>6, <2>1
<1> HIDE DEF W
<1>8. inside \in Seq(Wire) /\ ToSet(inside) = ToSet(m_WireVec) \cap W
      /\ (Alone(m_WireVec) => Alone(inside))
  <2>1. PICK rest : rest = Among(m_WireVec, ToSet(m_WireVec) \ ToSet(inside))
    OBVIOUS
  <2>2. /\ inside \in Seq(Wire) /\ ToSet(inside) = ToSet(m_WireVec) \cap W
        /\ rest \in Seq(Wire)
        /\ \A V : Number(m_WireVec, V) = Number(inside, V) + Number(rest, V)
    BY <1>2, <1>5, <2>1, Parted
  <2>3. ASSUME Alone(m_WireVec), NEW id, NEW p PROVE Number(inside, Into(id, p)) <= 1
    <3>1. Number(inside, Into(id, p)) \in Nat /\ Number(rest, Into(id, p)) \in Nat
      BY <2>2, LeadToIs
    <3>2. Number(m_WireVec, Into(id, p)) <= 1
      BY <2>3 DEF Alone
    <3>3. Number(m_WireVec, Into(id, p)) = Number(inside, Into(id, p)) + Number(rest, Into(id, p))
      BY <2>2
    <3>4. QED BY <3>1, <3>2, <3>3
  <2>4. QED BY <2>2, <2>3 DEF Alone
<1>9. \A w \in ToSet(inside) : w.InputID \in ToSet(ids) /\ w.OutputID \in ToSet(ids) /\ w \in Wire
  BY <1>8 DEF W, ToSet
<1>10. PICK file : file = [k \in DOMAIN Among(m_WireVec, W) |->
                              [Among(m_WireVec, W)[k] EXCEPT
                                  !.OutputID = [l \in 1..Len(ids) |-> m_NextID + l - 1]
                                                  [CHOOSE j \in DOMAIN ids : ids[j] = @],
                                  !.InputID = [l \in 1..Len(ids) |-> m_NextID + l - 1]
                                                  [CHOOSE j \in DOMAIN ids : ids[j] = @]]]
  OBVIOUS
<1>11. ASSUME NEW k \in DOMAIN inside
       PROVE  file[k] = CopyOf(ids, m_NextID, inside[k])
  <2>1. PICK w, a, d : w = inside[k] /\ a = copy[Place(ids, w.OutputID)]
                       /\ d = copy[Place(ids, w.InputID)]
    OBVIOUS
  <2>2. file[k] = [w EXCEPT !.OutputID = a, !.InputID = d]
    <3>1. k \in DOMAIN Among(m_WireVec, W) /\ w = Among(m_WireVec, W)[k]
      BY <1>2, <2>1
    <3>2. copy = [l \in 1..Len(ids) |-> m_NextID + l - 1]
      BY <1>1 DEF Copies
    <3>3. file[k] = [w EXCEPT
                        !.OutputID = [l \in 1..Len(ids) |-> m_NextID + l - 1]
                                        [CHOOSE j \in DOMAIN ids : ids[j] = @],
                        !.InputID = [l \in 1..Len(ids) |-> m_NextID + l - 1]
                                        [CHOOSE j \in DOMAIN ids : ids[j] = @]]
      BY <1>10, <3>1
    <3>4. /\ a = [l \in 1..Len(ids) |-> m_NextID + l - 1]
                    [CHOOSE j \in DOMAIN ids : ids[j] = w.OutputID]
          /\ d = [l \in 1..Len(ids) |-> m_NextID + l - 1]
                    [CHOOSE j \in DOMAIN ids : ids[j] = w.InputID]
      BY <2>1, <3>2, Zenon DEF Place
    <3>5. QED BY <3>3, <3>4
  <2>3. w \in Wire /\ w.OutputID \in ToSet(ids) /\ w.InputID \in ToSet(ids)
    BY <1>8, <1>9, <2>1 DEF ToSet
  <2>4. a = CopyID(ids, m_NextID, w.OutputID) /\ d = CopyID(ids, m_NextID, w.InputID)
    BY <1>6, <2>1, <2>3
  <2>5. [w EXCEPT !.OutputID = a, !.InputID = d] =
           [OutputID |-> a, OutputPort |-> w.OutputPort,
            InputID |-> d, InputPort |-> w.InputPort]
    BY <2>3, CopiedWire
  <2>6. QED BY <2>1, <2>2, <2>4, <2>5 DEF CopyOf
<1>12. file = CopiesOf(ids, m_NextID, inside)
  <2> DEFINE of(k) == [Among(m_WireVec, W)[k] EXCEPT
                          !.OutputID = [l \in 1..Len(ids) |-> m_NextID + l - 1]
                                          [CHOOSE j \in DOMAIN ids : ids[j] = @],
                          !.InputID = [l \in 1..Len(ids) |-> m_NextID + l - 1]
                                          [CHOOSE j \in DOMAIN ids : ids[j] = @]]
             all == Among(m_WireVec, W)
  <2>0. file = [k \in DOMAIN all |-> of(k)]
    BY <1>10, Zenon
  <2> HIDE DEF of, all
  <2>4. DOMAIN file = DOMAIN all /\ file = [k \in DOMAIN file |-> file[k]]
    BY <2>0
  <2>1. /\ DOMAIN file = DOMAIN Among(m_WireVec, W)
        /\ file = [k \in DOMAIN file |-> file[k]]
    BY <2>4 DEF all
  <2>3. file = [k \in DOMAIN inside |-> file[k]]
    BY <1>2, <2>1
  <2>2. QED BY <1>11, <2>3 DEF CopiesOf
<1>13. file \in Seq(Wire) /\ (~orphaned => Alone(file))
  <2>1. PICK next, D : next = m_NextID /\ D = DOMAIN m_Info
    OBVIOUS
  <2>2. next \in Nat /\ ids \in Seq(D) /\ file = CopiesOf(ids, next, inside)
    BY <1>5, <1>12, <2>1
  <2>3. CopiesOf(ids, next, inside) \in Seq(Wire)
        /\ (Alone(inside) => Alone(CopiesOf(ids, next, inside)))
    BY <1>8, <1>9, <2>2, CopiesAlone
  <2>4. QED BY <1>4, <1>8, <2>2, <2>3
<1>14. StreamIn(m_Info, m_PortVec, m_Input, m_WireVec, m_Graph, news, file)
  <2>1. StreamIn(m_Info, m_PortVec, m_Input, m_WireVec, m_Graph,
                 [id \in ToSet([k \in 1..Len(ids) |-> m_NextID + k - 1]) |->
                     m_Info[ids[id - m_NextID + 1]]],
                 [k \in DOMAIN Among(m_WireVec, W) |->
                     [Among(m_WireVec, W)[k] EXCEPT
                         !.OutputID = [l \in 1..Len(ids) |-> m_NextID + l - 1]
                                         [CHOOSE j \in DOMAIN ids : ids[j] = @],
                         !.InputID = [l \in 1..Len(ids) |-> m_NextID + l - 1]
                                         [CHOOSE j \in DOMAIN ids : ids[j] = @]]])
    BY Zenon DEF Paste, W
  <2>2. news = [id \in ToSet([k \in 1..Len(ids) |-> m_NextID + k - 1]) |->
                   m_Info[ids[id - m_NextID + 1]]]
    BY <1>1, <1>3 DEF Copies
  <2>3. QED BY <1>10, <2>1, <2>2, Zenon
<1>15. m_NextID' = m_NextID + Len(ids) /\ orphaned' = orphaned
  BY DEF Paste
<1>16. /\ \A id \in DOMAIN news : id >= m_NextID /\ id < m_NextID'
       /\ m_NextID' \in Nat /\ m_NextID <= m_NextID'
  BY <1>5, <1>7, <1>15
<1>17. QED BY <1>7, <1>13, <1>14, <1>15, <1>16, GrownKeeps

-----------------------------------------------------------------------------
(* The canvas.                                                             *)

LEMMA CanvasBegins == Init => CanvasIInv
<1> SUFFICES ASSUME Init PROVE CanvasIInv
  OBVIOUS
<1>1. PICK e : e = << >>
  OBVIOUS
<1>2. /\ Boxes(e, e, e) /\ DOMAIN e = {} /\ Linked(e, e) /\ Agreed(e, e, e, e)
      /\ e \in Seq(Wire) /\ Alone(e)
  BY <1>1, NoBoxes, NoWires
<1>3. /\ m_Info = e /\ m_PortVec = e /\ m_Input = e /\ m_WireVec = e /\ m_Graph = e
      /\ m_NextID = 0 /\ m_IncompleteWire = NoWire /\ orphaned = FALSE /\ broken = FALSE
  BY <1>1 DEF Init
<1>4. Begun(m_IncompleteWire) /\ AtPort(m_Info, m_PortVec, m_IncompleteWire)
  BY <1>3, NothingDrawn
<1>5. Typed
  <2>1. m_NextID \in Nat /\ orphaned \in BOOLEAN /\ broken \in BOOLEAN
    BY <1>3
  <2>2. \A id \in DOMAIN m_Info : id < m_NextID
    BY <1>2, <1>3
  <2>3. Boxes(m_Info, m_PortVec, m_Input) /\ m_WireVec \in Seq(Wire)
    BY <1>2, <1>3
  <2>4. QED BY <1>4, <2>1, <2>2, <2>3 DEF Typed
<1>6. Linked(m_Graph, m_WireVec) /\ Alone(m_WireVec) /\ InStep
  BY <1>2, <1>3, <1>4 DEF InStep
<1>7. QED BY <1>5, <1>6 DEF CanvasIInv

LEMMA CanvasNextKeeps == CanvasIInv /\ [Next]_vars => CanvasIInv'
<1> SUFFICES ASSUME CanvasIInv, [Next]_vars PROVE CanvasIInv'
  OBVIOUS
<1>1. CASE UNCHANGED vars
  BY <1>1 DEF CanvasIInv, Typed, InStep, vars, boxes, wires
<1>2. CASE Next
  <2>0. ~broken
    BY <1>2 DEF Next
  <2>1. CASE \E shape \in Shapes : AddDevice(shape)
    BY <2>0, <2>1, AddDeviceKeeps
  <2>2. CASE \E id \in DOMAIN m_Info : Paste(<<id>>)
    <3>1. PICK id \in DOMAIN m_Info : Paste(<<id>>)
      BY <2>2
    <3>2. PICK ids : ids = <<id>>
      OBVIOUS
    <3>3. ids \in Seq(DOMAIN m_Info) /\ Paste(ids)
      BY <3>1, <3>2
    <3>4. QED BY <2>0, <3>3, PasteKeeps
  <2>3. CASE \E id, id2 \in DOMAIN m_Info : id # id2 /\ Paste(<<id, id2>>)
    <3>1. PICK id \in DOMAIN m_Info, id2 \in DOMAIN m_Info : Paste(<<id, id2>>)
      BY <2>3
    <3>2. PICK ids : ids = <<id, id2>>
      OBVIOUS
    <3>3. ids \in Seq(DOMAIN m_Info) /\ Paste(ids)
      BY <3>1, <3>2
    <3>4. QED BY <2>0, <3>3, PasteKeeps
  <2>4. CASE \E patch \in Patches : Open(patch)
    BY <2>0, <2>4, OpenKeeps
  <2>5. CASE ClearIncompleteWire
    BY <2>0, <2>5, ClearIncompleteWireKeeps
  <2>6. ASSUME NEW id \in DOMAIN m_Info, NEW p \in Buttons(m_Info[id]), PressOutput(id, p)
        PROVE  CanvasIInv'
    BY <2>0, <2>6, PressOutputKeeps
  <2>7. ASSUME NEW id \in DOMAIN m_Info, NEW p \in Buttons(m_Info[id]), PressInput(id, p)
        PROVE  CanvasIInv'
    BY <2>0, <2>7, PressInputKeeps
  <2>8. ASSUME NEW id \in DOMAIN m_Info, NEW p \in Buttons(m_Info[id]), Disconnect(id, p)
        PROVE  CanvasIInv'
    BY <2>0, <2>8, DisconnectKeeps
  <2>9. ASSUME NEW id \in DOMAIN m_Info, RemoveDevice(id)
        PROVE  CanvasIInv'
    BY <2>0, <2>9, RemoveDeviceKeeps
  <2>10. ASSUME NEW id \in DOMAIN m_Info, NEW shape \in Shapes, NEW stable \in BOOLEAN,
                SetupPorts(id, shape, stable)
         PROVE  CanvasIInv'
    BY <2>0, <2>10, SetupPortsKeeps
  <2>11. QED
    BY <1>2, <2>1, <2>2, <2>3, <2>4, <2>5, <2>6, <2>7, <2>8, <2>9, <2>10 DEF Next
<1>3. QED BY <1>1, <1>2

LEMMA CanvasInvariant == Spec => []CanvasIInv
BY CanvasBegins, CanvasNextKeeps, PTL DEF Spec

LEMMA HasMember == ASSUME NEW s \in Seq(Nat), s # << >> PROVE \E m : m \in ToSet(s)
<1>1. Len(s) \in Nat /\ Len(s) # 0 /\ DOMAIN s = 1..Len(s)
  OBVIOUS
<1>2. s[1] \in ToSet(s)
  BY <1>1 DEF ToSet
<1>3. QED BY <1>2

\* The wires of the canvas and the entries of the graph's lists.
LEMMA GraphFollows == CanvasIInv => GraphFollowsWires
<1> SUFFICES ASSUME CanvasIInv, ~broken PROVE GraphFollowsWires
  BY DEF GraphFollowsWires
<1>1. PICK g, ws : g = m_Graph /\ ws = m_WireVec
  OBVIOUS
<1>2. WellFormed(g) /\ ws \in Seq(Wire)
      /\ \A m, n : Wired(g, m, n) = Number(ws, Link(m, n))
  BY <1>1 DEF CanvasIInv, Typed, Linked
<1>3. \A m, n : Number(ws, Link(m, n)) \in Nat
                /\ (Number(ws, Link(m, n)) = 0 <=> ToSet(ws) \cap Link(m, n) = {})
  BY <1>2, NumberIsNatural
<1>4. \A k \in DOMAIN ws : ws[k] \in Wire /\ ws[k] \in ToSet(ws)
  BY <1>2 DEF ToSet
<1>5. ASSUME NEW n \in DOMAIN g
      PROVE  \E k \in DOMAIN ws : n = ws[k].OutputID \/ n = ws[k].InputID
  <2>1. /\ g[n].Inputs \in Seq(Nat) /\ g[n].Outputs \in Seq(Nat)
        /\ ToSet(g[n].Inputs) \subseteq DOMAIN g /\ ToSet(g[n].Outputs) \subseteq DOMAIN g
        /\ g[n].Inputs # << >> \/ g[n].Outputs # << >>
    BY <1>2, GraphTypes DEF WellFormed, Contained, Used
  <2>2. ASSUME NEW a, NEW d, ToSet(ws) \cap Link(a, d) # {}
        PROVE  \E k \in DOMAIN ws : a = ws[k].OutputID /\ d = ws[k].InputID
    BY <2>2 DEF ToSet, Link
  <2>3. CASE g[n].Inputs # << >>
    <3>1. PICK m : m \in ToSet(g[n].Inputs)
      BY <2>1, <2>3, HasMember
    <3>2. Count(g[n].Inputs, m) \in Nat /\ Count(g[n].Inputs, m) # 0
      BY <2>1, <3>1, CountIsNatural
    <3>3. Wired(g, m, n) # 0
      BY <3>2 DEF Wired
    <3>4. QED BY <1>2, <1>3, <2>2, <3>3
  <2>4. CASE g[n].Outputs # << >>
    <3>1. PICK m : m \in ToSet(g[n].Outputs)
      BY <2>1, <2>4, HasMember
    <3>2. m \in DOMAIN g /\ n \in ToSet(g[m].Inputs) /\ g[m].Inputs \in Seq(Nat)
      BY <1>2, <2>1, <3>1, BothLists, GraphTypes DEF WellFormed
    <3>3. Count(g[m].Inputs, n) \in Nat /\ Count(g[m].Inputs, n) # 0
      BY <3>2, CountIsNatural
    <3>4. Wired(g, n, m) # 0
      BY <3>2, <3>3 DEF Wired
    <3>5. QED BY <1>2, <1>3, <2>2, <3>4
  <2>5. QED BY <2>1, <2>3, <2>4
<1>6. ASSUME NEW k \in DOMAIN ws
      PROVE  ws[k].OutputID \in DOMAIN g /\ ws[k].InputID \in DOMAIN g
  <2>1. PICK a, d : a = ws[k].OutputID /\ d = ws[k].InputID
    OBVIOUS
  <2>2. ws[k] \in ToSet(ws) \cap Link(a, d)
    BY <1>4, <2>1 DEF Link
  <2>3. Wired(g, a, d) # 0
    BY <1>2, <1>3, <2>2
  <2>4. d \in DOMAIN g /\ Count(g[d].Inputs, a) # 0
    BY <2>3 DEF Wired
  <2>5. g[d].Inputs \in Seq(Nat) /\ ToSet(g[d].Inputs) \subseteq DOMAIN g
    BY <1>2, <2>4, GraphTypes DEF WellFormed, Contained
  <2>6. a \in ToSet(g[d].Inputs)
    BY <2>4, <2>5, CountIsNatural
  <2>7. QED BY <2>1, <2>4, <2>5, <2>6
<1>7. DOMAIN g = {ws[k].OutputID : k \in DOMAIN ws} \cup {ws[k].InputID : k \in DOMAIN ws}
  BY <1>5, <1>6
<1>8. ASSUME NEW m \in DOMAIN g, NEW n \in DOMAIN g
      PROVE  Count(g[n].Inputs, m) = Cardinality({k \in DOMAIN ws : /\ ws[k].OutputID = m
                                                                   /\ ws[k].InputID = n})
  <2>1. {k \in DOMAIN ws : ws[k] \in Link(m, n)} =
           {k \in DOMAIN ws : ws[k].OutputID = m /\ ws[k].InputID = n}
    BY <1>4 DEF Link
  <2>2. Count(g[n].Inputs, m) = Number(ws, Link(m, n))
    BY <1>2 DEF Wired
  <2>3. QED BY <2>1, <2>2 DEF Number
<1>9. QED BY <1>1, <1>7, <1>8 DEF GraphFollowsWires

\* What the invariant says of an input, in terms of the places of its wires.
LEMMA InputsFollow == CanvasIInv => InputsFollowWires
<1> SUFFICES ASSUME CanvasIInv, ~orphaned, ~broken PROVE InputsFollowWires
  BY DEF InputsFollowWires
<1>1. m_WireVec \in Seq(Wire) /\ Pointed(m_Info, m_Input, m_WireVec)
  BY DEF CanvasIInv, Typed, InStep, Agreed
<1>2. ASSUME NEW id \in DOMAIN m_Info, NEW p \in Inputs(m_Info[id])
      PROVE  /\ LeadTo(m_WireVec, id, p) = {} => m_Input[id][p] = NULL
             /\ \A k \in LeadTo(m_WireVec, id, p) :
                   m_Input[id][p] = <<m_WireVec[k].OutputID, m_WireVec[k].OutputPort>>
  <2>1. LeadTo(m_WireVec, id, p) = {k \in DOMAIN m_WireVec : m_WireVec[k] \in Into(id, p)}
        /\ (LeadTo(m_WireVec, id, p) = {} <=> ToSet(m_WireVec) \cap Into(id, p) = {})
    BY <1>1, LeadToIs
  <2>2. /\ \A w \in ToSet(m_WireVec) : w \in Into(id, p) =>
              m_Input[id][p] = <<w.OutputID, w.OutputPort>>
        /\ ToSet(m_WireVec) \cap Into(id, p) = {} => m_Input[id][p] = NULL
    BY <1>1 DEF Pointed
  <2>3. \A k \in DOMAIN m_WireVec : m_WireVec[k] \in ToSet(m_WireVec)
    BY <1>1 DEF ToSet
  <2>4. QED BY <2>1, <2>2, <2>3
<1>3. QED BY <1>2 DEF InputsFollowWires

LEMMA OneWireEach == CanvasIInv => OneWirePerInput
<1> SUFFICES ASSUME CanvasIInv, ~orphaned PROVE OneWirePerInput
  BY DEF OneWirePerInput
<1>1. m_WireVec \in Seq(Wire) /\ Alone(m_WireVec)
  BY DEF CanvasIInv, Typed
<1>2. ASSUME NEW id, NEW p PROVE Cardinality(LeadTo(m_WireVec, id, p)) <= 1
  <2>1. Number(m_WireVec, Into(id, p)) <= 1
    BY <1>1 DEF Alone
  <2>2. QED BY <1>1, <2>1, LeadToIs
<1>3. QED BY <1>2 DEF OneWirePerInput

\* However devices and wires come and go, a wire is in the graph, in the
\* pointer of the device it leads to and on the canvas, or in none of them, and
\* no input has two (Fl_Canvas.C, SpiralSynthModular.C, GraphSort.cpp).
THEOREM WiresAreKeptTogether == Spec => []RecordsAgree
<1>1. CanvasIInv => RecordsAgree
  BY GraphFollows, InputsFollow, OneWireEach DEF RecordsAgree
<1>2. QED BY <1>1, CanvasInvariant, PTL

\* The button of an input, which lets the next wire be drawn to it or not, is
\* lit while a wire leads to the input (Fl_Canvas::PortClicked).
THEOREM LitWhileWired == Spec => []InputsLit
<1>1. CanvasIInv => InputsLit
  <2> SUFFICES ASSUME CanvasIInv, ~orphaned, ~broken PROVE InputsLit
    BY DEF InputsLit
  <2>1. m_WireVec \in Seq(Wire) /\ Shown(m_Info, m_PortVec, m_WireVec)
    BY DEF CanvasIInv, Typed, InStep, Agreed
  <2>2. ASSUME NEW id \in DOMAIN m_Info, NEW p \in Inputs(m_Info[id])
        PROVE  m_PortVec[id][p] = Cardinality(LeadTo(m_WireVec, id, p))
    <3>1. m_PortVec[id][p] = Number(m_WireVec, Into(id, p))
      BY <2>1 DEF Shown
    <3>2. QED BY <2>1, <3>1, LeadToIs
  <2>3. QED BY <2>2 DEF InputsLit
<1>2. QED BY <1>1, CanvasInvariant, PTL

-----------------------------------------------------------------------------
(* The list that the engine walks.                                         *)

\* What an edit of the canvas may do to the list.
Resorted == \/ m_Graph' = m_Graph /\ m_Sorted' = m_Sorted
            \/ m_Graph' = << >> /\ m_Sorted' = m_Sorted
            \/ m_Sorted' = TestSort(m_Graph')

LEMMA UnwireGraphResorts ==
    ASSUME m_Graph \in AnyGraph, NEW ws \in Seq(Wire), UnwireGraph(ws)
    PROVE  Resorted
<1>1. m_Graph' = UnwiredOf(m_Graph, ws)
  BY DEF UnwireGraph, UnwiredOf
<1>2. CASE ws = << >>
  <2>1. PICK p : p[0] = m_Graph /\ UnwiredOf(m_Graph, ws) = p[Len(ws)]
    BY UnwiredUnfolds
  <2>2. m_Graph' = m_Graph
    BY <1>1, <1>2, <2>1
  <2>3. m_Sorted' = m_Sorted
    BY <1>2 DEF UnwireGraph
  <2>4. QED BY <2>2, <2>3 DEF Resorted
<1>3. CASE ws # << >>
  BY <1>3 DEF UnwireGraph, Resorted
<1>4. QED BY <1>2, <1>3

\* AddConnection of the graph, or nothing.
LEMMA DrawOnResorts == ASSUME NEW w, DrawOn(w) PROVE Resorted
BY DEF DrawOn, Connect, AddConnection, Resorted, wires

LEMMA AddedNothing ==
    ASSUME NEW g \in AnyGraph, NEW news, DOMAIN news \in SUBSET Nat,
           news \in [DOMAIN news -> Shape]
    PROVE  AddedOf(g, news, << >>) = g
<1>1. PICK ws : ws = << >>
  OBVIOUS
<1>2. PICK X : X = Boxed(news)
  OBVIOUS
<1>3. ws \in Seq(X) /\ Len(ws) = 0
  BY <1>1
<1>4. ws \in Seq(Boxed(news))
  BY <1>2, <1>3
<1>5. PICK p : /\ p[0] = g
               /\ \A i \in 1..Len(ws) : p[i] =
                     Added(p[i - 1], ws[i].OutputID, news[ws[i].OutputID].IsTerminal,
                           ws[i].InputID, news[ws[i].InputID].IsTerminal)
               /\ AddedOf(g, news, ws) = p[Len(ws)]
  BY <1>4, AddedUnfolds
<1>6. QED BY <1>1, <1>3, <1>5

LEMMA StreamInResorts ==
    ASSUME NEW info, NEW counts, NEW inputs, NEW ws, NEW g \in AnyGraph,
           NEW news, DOMAIN news \in SUBSET Nat, news \in [DOMAIN news -> Shape],
           NEW file, StreamIn(info, counts, inputs, ws, g, news, file),
           g = m_Graph \/ g = << >>
    PROVE  Resorted
<1>1. PICK good : good = Among(file, {w \in ToSet(file) : Available(news, w)})
  OBVIOUS
<1>2. CASE good = << >>
  <2>1. m_Sorted' = m_Sorted
    BY <1>1, <1>2, Zenon DEF StreamIn
  <2>2. m_Graph' = AddedOf(g, news, good)
    BY <1>1, Zenon DEF StreamIn, AddedOf
  <2>5. m_Graph' = g
    BY <1>2, <2>2, AddedNothing
  <2>6. QED BY <2>1, <2>5 DEF Resorted
<1>3. CASE good # << >>
  <2>1. m_Sorted' = TestSort(m_Graph')
    BY <1>1, <1>3, Zenon DEF StreamIn
  <2>2. QED BY <2>1 DEF Resorted
<1>4. QED BY <1>2, <1>3

LEMMA NextResorts == ASSUME CanvasIInv, ~broken, Next PROVE Resorted
<1>1. m_WireVec \in Seq(Wire) /\ m_Graph \in AnyGraph /\ Boxes(m_Info, m_PortVec, m_Input)
      /\ m_NextID \in Nat
  BY DEF CanvasIInv, Typed, Linked, WellFormed
<1>2. \A W : Among(m_WireVec, W) \in Seq(Wire)
  BY <1>1, AmongDivides DEF Divided
<1>3. PICK e : e = << >>
  OBVIOUS
<1>4. e \in AnyGraph
  BY <1>3, EmptyGraph DEF WellFormed
<1>5. ASSUME NEW news, news \in [DOMAIN news -> Shape], DOMAIN news \subseteq Nat, NEW file,
             StreamIn(m_Info, m_PortVec, m_Input, m_WireVec, m_Graph, news, file)
      PROVE  Resorted
  BY <1>1, <1>5, StreamInResorts
<1>6. ASSUME NEW shape \in Shapes, AddDevice(shape) PROVE Resorted
  <2>1. PICK news, file : news = [id \in {m_NextID} |-> shape] /\ file = << >>
    OBVIOUS
  <2>2. StreamIn(m_Info, m_PortVec, m_Input, m_WireVec, m_Graph, news, file)
    BY <1>6, <2>1 DEF AddDevice
  <2>3. news \in [DOMAIN news -> Shape] /\ DOMAIN news \subseteq Nat
    BY <1>1, <2>1, CanvasAssumption
  <2>4. QED BY <1>5, <2>2, <2>3
<1>7. ASSUME NEW ids \in Seq(DOMAIN m_Info), Paste(ids) PROVE Resorted
  <2>1. PICK news, file :
           /\ news = [id \in ToSet(Copies(ids, m_NextID)) |-> m_Info[ids[id - m_NextID + 1]]]
           /\ StreamIn(m_Info, m_PortVec, m_Input, m_WireVec, m_Graph, news, file)
    BY <1>7, Zenon DEF Paste, Copies
  <2>2. \A c \in ToSet(Copies(ids, m_NextID)) :
            c \in Nat /\ ids[c - m_NextID + 1] \in DOMAIN m_Info
    <3>1. PICK next, D : next = m_NextID /\ D = DOMAIN m_Info
      OBVIOUS
    <3>2. \A c \in ToSet(Copies(ids, next)) : c \in Nat /\ ids[c - next + 1] \in D
      BY <1>1, <1>7, <3>1, CopyIDs
    <3>3. QED BY <3>1, <3>2
  <2>3. \A id \in DOMAIN m_Info : m_Info[id] \in Shape
    BY <1>1 DEF Boxes
  <2>4. news \in [DOMAIN news -> Shape] /\ DOMAIN news \subseteq Nat
    BY <2>1, <2>2, <2>3
  <2>5. QED BY <1>5, <2>1, <2>4
<1>8. ASSUME NEW patch \in Patches, Open(patch) PROVE Resorted
  <2>1. PICK news, file :
           news = [id \in 0..Len(patch.shapes) - 1 |-> patch.shapes[id + 1]]
           /\ file = patch.wires
    OBVIOUS
  <2>2. StreamIn(e, e, e, e, e, news, file)
    BY <1>3, <1>8, <2>1 DEF Open
  <2>3. patch.shapes \in Seq(Shape) /\ Len(patch.shapes) \in Nat
    BY FileAlone
  <2>4. \A id \in 0..Len(patch.shapes) - 1 : patch.shapes[id + 1] \in Shape /\ id \in Nat
    BY <2>3
  <2>5. news \in [DOMAIN news -> Shape] /\ DOMAIN news \subseteq Nat
    BY <2>1, <2>4
  <2>6. QED BY <1>3, <1>4, <2>2, <2>5, StreamInResorts
<1>9. ASSUME ClearIncompleteWire PROVE Resorted
  BY <1>9 DEF ClearIncompleteWire, wires, Resorted
<1>10. ASSUME NEW id, NEW p, PressOutput(id, p) \/ PressInput(id, p) PROVE Resorted
  BY <1>9, <1>10, DrawOnResorts DEF PressOutput, PressInput
<1>11. ASSUME NEW W, UnwireGraph(Among(m_WireVec, W)) PROVE Resorted
  BY <1>1, <1>2, <1>11, UnwireGraphResorts
<1>12. ASSUME NEW id, NEW b, Disconnect(id, b) PROVE Resorted
  BY <1>11, <1>12 DEF Disconnect
<1>13. ASSUME NEW id, NEW ins, NEW outs, Prune(id, Lost(id, ins, outs)) PROVE Resorted
  BY <1>11, <1>13 DEF Prune, Lost
<1>14. ASSUME NEW id, RemoveDevice(id) PROVE Resorted
  BY <1>13, <1>14 DEF RemoveDevice
<1>15. ASSUME NEW id, NEW info, NEW stable, SetupPorts(id, info, stable) PROVE Resorted
  <2>1. \/ Prune(id, Lost(id, info.NumInputs, info.NumOutputs))
        \/ Prune(id, Lost(id, 0, 0))
    BY <1>15 DEF SetupPorts
  <2>2. QED BY <1>13, <2>1
<1>16. ASSUME NEW id \in DOMAIN m_Info, Paste(<<id>>) PROVE Resorted
  <2>1. PICK ids : ids = <<id>>
    OBVIOUS
  <2>2. ids \in Seq(DOMAIN m_Info) /\ Paste(ids)
    BY <1>16, <2>1
  <2>3. QED BY <1>7, <2>2
<1>17. ASSUME NEW id \in DOMAIN m_Info, NEW id2 \in DOMAIN m_Info, Paste(<<id, id2>>)
       PROVE  Resorted
  <2>1. PICK ids : ids = <<id, id2>>
    OBVIOUS
  <2>2. ids \in Seq(DOMAIN m_Info) /\ Paste(ids)
    BY <1>17, <2>1
  <2>3. QED BY <1>7, <2>2
<1>18. QED
  BY <1>6, <1>8, <1>9, <1>10, <1>12, <1>14, <1>15, <1>16, <1>17 DEF Next

\* The list is a sorting of the graph, unless New has emptied the graph.
SortedIInv == CanvasIInv /\ (~broken => GraphIInv)

LEMMA SortedBegins == Init => SortedIInv
<1> SUFFICES ASSUME Init PROVE GraphIInv
  BY CanvasBegins DEF SortedIInv
<1>1. GraphInit
  BY DEF Init, GraphInit
<1>2. QED BY <1>1, GraphInitHolds

LEMMA SortedKeeps == SortedIInv /\ [Next]_vars => SortedIInv'
<1> SUFFICES ASSUME SortedIInv, [Next]_vars PROVE SortedIInv'
  OBVIOUS
<1>1. CanvasIInv /\ CanvasIInv' /\ (~broken => GraphIInv)
  BY CanvasNextKeeps DEF SortedIInv
<1>2. CASE UNCHANGED vars
  BY <1>1, <1>2 DEF SortedIInv, GraphIInv, vars, boxes, wires
<1>3. ASSUME Next, ~broken' PROVE GraphIInv'
  <2>1. ~broken
    BY <1>3 DEF Next
  <2>2. GraphIInv /\ Resorted
    BY <1>1, <1>3, <2>1, NextResorts
  <2>3. WellFormed(m_Graph')
    BY <1>1, <1>3 DEF CanvasIInv, Linked
  <2>4. CASE m_Graph' = m_Graph /\ m_Sorted' = m_Sorted
    BY <2>2, <2>4 DEF GraphIInv
  <2>5. CASE m_Graph' = << >> /\ m_Sorted' = m_Sorted
    BY <2>2, <2>3, <2>5, EmptyGraph DEF GraphIInv
  <2>6. CASE m_Sorted' = TestSort(m_Graph')
    <3>1. IsSorting(m_Graph', m_Sorted')
      BY <2>3, <2>6, TestSortSorts
    <3>2. QED BY <2>3, <3>1 DEF GraphIInv, IsSorting
  <2>7. QED BY <2>2, <2>4, <2>5, <2>6 DEF Resorted
<1>4. QED BY <1>1, <1>2, <1>3 DEF SortedIInv

\* The engine's list is the one for the wires as they are after every edit of
\* the canvas: all that is heard, once, and sources first (Fl_Canvas.C with
\* GraphSort.cpp).
THEOREM ListIsOfTheCanvas == Spec => []ListFollowsEdits
<1>1. SortedIInv => ListFollowsEdits
  BY InvariantHears, InvariantOrders DEF SortedIInv, ListFollowsEdits
<1>2. QED BY <1>1, SortedBegins, SortedKeeps, PTL DEF Spec
=============================================================================
