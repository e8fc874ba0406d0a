------------------------------ MODULE Folding ------------------------------
(***************************************************************************)
(* Induction over the naturals, and what a fold from the left computes.    *)
(*                                                                         *)
(* The induction principles of the library have an operator as parameter,  *)
(* which the provers cannot instantiate. Here Step is a constant of the    *)
(* module, and a module that folds takes an instance for its own step;     *)
(* Induction is about a set, whose definition is what is to be shown.      *)
(***************************************************************************)
EXTENDS Integers, SequencesExt, WellFoundedInduction, TLAPS

CONSTANT Step(_, _)     \* the value so far and an element give the next value

\* Every inhabited set of naturals has a least element.
LEMMA LeastElement ==
  ASSUME NEW T, T \subseteq Nat, T # {}
  PROVE  \E x \in T : \A y \in T : x <= y
<1> DEFINE R == OpToRel(<, Nat)
<1>1. IsWellFoundedOn(R, Nat)
  BY NatLessThanWellFounded
<1>2. \A x, y \in Nat : x < y => <<x, y>> \in R
  BY DEF OpToRel
<1> HIDE DEF R
<1>3. PICK x \in T : \A y \in T : ~ (<<y, x>> \in R)
  BY <1>1, WFMin
<1>4. \A y \in T : ~ (y < x)
  BY <1>2, <1>3
<1> QED  BY <1>3, <1>4

\* A set that has 0 and the successors of its members has all naturals.
LEMMA Induction ==
  ASSUME NEW T, 0 \in T, \A n \in Nat : n \in T => n + 1 \in T
  PROVE  Nat \subseteq T
<1> DEFINE B == Nat \ T
<1> SUFFICES ASSUME B # {} PROVE FALSE
  OBVIOUS
<1>1. PICK x \in B : \A y \in B : x <= y
  BY LeastElement
<1>2. x - 1 \in Nat /\ x - 1 \in T
  BY <1>1
<1>3. x = (x - 1) + 1
  BY <1>1
<1> QED  BY <1>1, <1>2, <1>3

\* The greatest member of an inhabited set of positions.
LEMMA MaxOfSubset ==
  ASSUME NEW n \in Nat, NEW s \in SUBSET (1..n), s # {}
  PROVE  Max(s) \in s /\ \A x \in s : x <= Max(s)
<1> DEFINE T == {y \in Nat : n - y \in s}
<1>0. \A x \in s : x \in Int /\ 1 <= x /\ x <= n
  OBVIOUS
<1>1. T \subseteq Nat /\ T # {}
  <2>1. PICK x \in s : TRUE
    OBVIOUS
  <2>2. n - x \in Nat /\ n - (n - x) = x
    BY <1>0
  <2> QED  BY <2>1, <2>2
<1>2. PICK t \in T : \A y \in T : t <= y
  BY <1>1, LeastElement
<1>3. n - t \in s
  BY <1>2
<1>4. ASSUME NEW x \in s PROVE n - t >= x
  <2>1. n - x \in Nat /\ n - (n - x) = x
    BY <1>0
  <2>2. n - x \in T
    BY <2>1
  <2>3. t <= n - x
    BY <1>2, <2>2
  <2>4. t \in Int /\ x \in Int
    BY <1>0, <1>2
  <2> HIDE DEF T
  <2> QED  BY <2>3, <2>4
<1> HIDE DEF T
<1> DEFINE x0 == n - t
<1>5. x0 \in s
  BY <1>3
<1>7. \A y \in s : x0 >= y
  BY <1>4
<1> HIDE DEF x0
<1>6. \A y \in s : y \in Int
  OBVIOUS
<1> QED  BY <1>5, <1>6, <1>7 DEF Max

\* g is the function by which MapThenFoldSet goes through sets of positions.
IsFold(g, base, seq, k) ==
  g = [s \in SUBSET (1..k) |->
         IF s = {} THEN base ELSE Step(g[s \ {Max(s)}], seq[Max(s)])]

LEMMA FoldExists ==
  ASSUME NEW base, NEW seq
  PROVE  \A k \in Nat : \E g : IsFold(g, base, seq, k)
<1> DEFINE T == {k \in Nat : \E g : IsFold(g, base, seq, k)}
<1>1. 0 \in T
  <2> DEFINE g == [s \in SUBSET (1..0) |-> base]
  <2>1. \A s \in SUBSET (1..0) : s = {}
    OBVIOUS
  <2>2. IsFold(g, base, seq, 0)
    BY <2>1 DEF IsFold
  <2> QED  BY <2>2
<1>2. ASSUME NEW k \in Nat, k \in T PROVE k + 1 \in T
  <2>1. PICK g : IsFold(g, base, seq, k)
    BY <1>2
  <2> DEFINE h == [s \in SUBSET (1..(k+1)) |->
                     IF k + 1 \in s THEN Step(g[s \ {k + 1}], seq[k + 1]) ELSE g[s]]
  <2>2. ASSUME NEW s \in SUBSET (1..(k+1))
        PROVE  h[s] = IF s = {} THEN base ELSE Step(h[s \ {Max(s)}], seq[Max(s)])
    <3>1. CASE k + 1 \in s
      <4>1. Max(s) = k + 1
        <5>1. k + 1 \in Nat
          OBVIOUS
        <5>2. Max(s) \in s /\ \A x \in s : x <= Max(s)
          BY <3>1, <5>1, MaxOfSubset
        <5>3. \A x \in s : x \in Int /\ x <= k + 1
          OBVIOUS
        <5> DEFINE m == Max(s)
        <5>4. m \in Int /\ m <= k + 1 /\ k + 1 <= m
          BY <3>1, <5>2, <5>3
        <5> HIDE DEF m
        <5>5. m = k + 1
          BY <5>4
        <5> QED  BY <5>5 DEF m
      <4>2. s \ {k + 1} \in SUBSET (1..k) /\ s \ {k+1} \in SUBSET (1..(k+1))
        OBVIOUS
      <4>3. h[s \ {k + 1}] = g[s \ {k + 1}]
        BY <4>2
      <4> QED  BY <3>1, <4>1, <4>3
    <3>2. CASE k + 1 \notin s
      <4>1. s \in SUBSET (1..k)
        BY <3>2
      <4>2. g[s] = IF s = {} THEN base ELSE Step(g[s \ {Max(s)}], seq[Max(s)])
        BY <2>1, <4>1 DEF IsFold
      <4>3. h[s] = g[s]
        BY <3>2
      <4>4. s # {} => h[s \ {Max(s)}] = g[s \ {Max(s)}]
        BY <3>2
      <4> QED  BY <4>2, <4>3, <4>4
    <3> QED  BY <3>1, <3>2
  <2>3. h = [s \in SUBSET (1..(k+1)) |-> h[s]]
    OBVIOUS
  <2> HIDE DEF h
  <2>4. IsFold(h, base, seq, k + 1)
    BY <2>2, <2>3 DEF IsFold
  <2> QED  BY <2>4
<1> HIDE DEF T
<1>3. Nat \subseteq T
  BY <1>1, <1>2, Induction
<1> QED  BY <1>3 DEF T

Folded(base, seq) == FoldLeft(Step, base, seq)

\* f takes the fold from one prefix to the next.
ByPrefix(f, base, seq, n) == f[0] = base /\ \A k \in 1..n : f[k] = Step(f[k-1], seq[k])

\* FoldLeft as the value of a function on the prefixes.
LEMMA FoldLeftByPrefix ==
  ASSUME NEW base, NEW seq, NEW n \in Nat, DOMAIN seq = 1..n
  PROVE  \E f : ByPrefix(f, base, seq, n) /\ Folded(base, seq) = f[n]
<1> DEFINE F(g) == g = [s \in SUBSET (DOMAIN seq) |->
         IF s = {} THEN base ELSE Step(g[s \ {Max(s)}], seq[Max(s)])]
<1> DEFINE G == CHOOSE g : F(g)
<1>1. \E g : F(g)
  <2>1. \E g : IsFold(g, base, seq, n)
    BY FoldExists
  <2> QED  BY <2>1 DEF IsFold
<1>2. F(G)
  BY <1>1
<1>3. FoldLeft(Step, base, seq) = G[1..n]
  BY DEF FoldLeft, MapThenFoldSet
<1> DEFINE f == [k \in 0..n |-> G[1..k]]
<1>4. f[0] = base
  <2>1. 1..0 = {} /\ {} \in SUBSET (1..n) /\ 0 \in 0..n
    OBVIOUS
  <2> HIDE DEF G
  <2>2. G[{}] = base
    BY <1>2, <2>1
  <2> QED  BY <2>1, <2>2
<1>5. ASSUME NEW k \in 1..n PROVE f[k] = Step(f[k-1], seq[k])
  <2>0. k \in Int /\ 1 <= k /\ k <= n /\ k \in Nat
    OBVIOUS
  <2>1. 1..k \in SUBSET (1..n) /\ 1..k # {} /\ k \in 1..k
    BY <2>0
  <2>2. Max(1..k) = k
    <3>1. Max(1..k) \in 1..k /\ \A x \in 1..k : x <= Max(1..k)
      BY <2>0, <2>1, MaxOfSubset
    <3> QED  BY <2>0, <2>1, <3>1
  <2>3. (1..k) \ {k} = 1..(k-1)
    OBVIOUS
  <2> HIDE DEF G
  <2>4. G[1..k] = Step(G[1..(k-1)], seq[k])
    BY <1>2, <2>1, <2>2, <2>3
  <2> QED  BY <2>4
<1>6. f[n] = G[1..n]
  OBVIOUS
<1> HIDE DEF f, G
<1> QED  BY <1>3, <1>4, <1>5, <1>6 DEF Folded, ByPrefix

=============================================================================
