------------------------------ MODULE FoldInduction ------------------------------
(***************************************************************************)
(* What holds of a fold, whatever is folded.  SequencesExt defines         *)
(* FoldLeft by recursion on the places of the sequence that are left; the  *)
(* induction over them is done here, once for every operator.  A module of *)
(* proofs takes Op to be the operator that a definition of the model folds *)
(* and J what is to be shown of the results on the way.  Both take a       *)
(* parameter p, which is the same during one fold.                         *)
(***************************************************************************)
EXTENDS Naturals, Sequences, WellFoundedInduction, TLAPS

CONSTANTS
    Op(_, _, _),        \* Op(p, r, x): the result after x, when it was r before x
    J(_, _, _, _, _)    \* J(p, base, s, n, r): r may be the result after n items of s

\* FoldLeft(LAMBDA r, x : Op(p, r, x), base, s), expanded.
Fold(p, base, s) ==
    LET iter[t \in SUBSET DOMAIN s] ==
            IF t = {} THEN base
            ELSE LET i == CHOOSE i \in t : \A j \in t : i >= j
                 IN  Op(p, iter[t \ {i}], s[i])
    IN  iter[DOMAIN s]

--------------------------------------------------------------------------------
(* Induction, in a form without operators. *)

\* A set that has 0 and with every number the next one has all numbers.
THEOREM SetInduction ==
    ASSUME NEW T, 0 \in T, \A n \in Nat : n \in T => n + 1 \in T
    PROVE  Nat \subseteq T
<1> SUFFICES ASSUME NEW k \in Nat, k \notin T PROVE FALSE
  OBVIOUS
<1> DEFINE U == Nat \ T
           R == OpToRel(<, Nat)
<1>1. IsWellFoundedOn(R, Nat)
  BY NatLessThanWellFounded
<1>2. PICK x \in U : \A y \in U : ~(<<y, x>> \in R)
  BY <1>1, WFMin
<1>3. x - 1 \in Nat /\ (x - 1) + 1 = x
  OBVIOUS
<1>4. x - 1 \in U
  BY <1>3
<1>5. <<x - 1, x>> \in R
  BY <1>3 DEF OpToRel
<1> QED BY <1>2, <1>4, <1>5

--------------------------------------------------------------------------------
(* The recursion is well-defined. *)

Greatest(t) == CHOOSE i \in t : \A j \in t : i >= j

Iteration(p, base, s, D, iter) ==
    iter = [t \in SUBSET D |->
               IF t = {} THEN base
               ELSE Op(p, iter[t \ {Greatest(t)}], s[Greatest(t)])]

LEMMA GreatestTop ==
    ASSUME NEW k \in Nat, NEW t \in SUBSET (1 .. k + 1), k + 1 \in t
    PROVE  Greatest(t) = k + 1
<1>1. \A j \in t : k + 1 >= j
  OBVIOUS
<1>2. \E i \in t : \A j \in t : i >= j
  BY <1>1
<1>3. Greatest(t) \in t /\ \A j \in t : Greatest(t) >= j
  BY <1>2 DEF Greatest
<1>4. Greatest(t) \in 1 .. k + 1 /\ Greatest(t) >= k + 1
  BY <1>3
<1> HIDE DEF Greatest
<1> QED BY <1>4

\* One more place extends a function that iterates over the places before it.
LEMMA Extension ==
    ASSUME NEW p, NEW base, NEW s, NEW k \in Nat, NEW f, Iteration(p, base, s, 1 .. k, f)
    PROVE  \E g : Iteration(p, base, s, 1 .. k + 1, g)
<1> DEFINE g == [t \in SUBSET (1 .. k + 1) |->
                   IF t \in SUBSET (1 .. k) THEN f[t] ELSE Op(p, f[t \ {k + 1}], s[k + 1])]
<1>1. ASSUME NEW t \in SUBSET (1 .. k + 1)
      PROVE  g[t] = IF t = {} THEN base ELSE Op(p, g[t \ {Greatest(t)}], s[Greatest(t)])
  <2>1. CASE t \in SUBSET (1 .. k)
    <3>1. t \ {Greatest(t)} \in SUBSET (1 .. k)
      BY <2>1
    <3>2. g[t] = f[t] /\ g[t \ {Greatest(t)}] = f[t \ {Greatest(t)}]
      BY <2>1, <3>1
    <3> HIDE DEF g
    <3> QED BY <2>1, <3>2 DEF Iteration
  <2>2. CASE t \notin SUBSET (1 .. k)
    <3>1. k + 1 \in t
      BY <2>2
    <3>2. Greatest(t) = k + 1
      BY <3>1, GreatestTop
    <3>3. t \ {k + 1} \in SUBSET (1 .. k) /\ t # {} /\ t \ {k + 1} \in SUBSET (1 .. k + 1)
      BY <3>1
    <3>4. g[t] = Op(p, f[t \ {k + 1}], s[k + 1]) /\ g[t \ {k + 1}] = f[t \ {k + 1}]
      BY <2>2, <3>3
    <3> HIDE DEF g
    <3> QED BY <3>2, <3>3, <3>4
  <2> QED BY <2>1, <2>2
<1>2. g = [t \in SUBSET (1 .. k + 1) |-> g[t]]
  OBVIOUS
<1> HIDE DEF g
<1>3. Iteration(p, base, s, 1 .. k + 1, g)
  BY <1>1, <1>2 DEF Iteration
<1> QED BY <1>3

LEMMA Existence ==
    ASSUME NEW p, NEW base, NEW s, NEW n \in Nat
    PROVE  \E f : Iteration(p, base, s, 1 .. n, f)
<1> DEFINE T == {k \in Nat : \E f : Iteration(p, base, s, 1 .. k, f)}
<1>1. 0 \in T
  <2> DEFINE g == [t \in SUBSET (1 .. 0) |-> base]
  <2>1. \A t \in SUBSET (1 .. 0) : t = {}
    OBVIOUS
  <2>2. Iteration(p, base, s, 1 .. 0, g)
    BY <2>1 DEF Iteration
  <2> QED BY <2>2
<1>2. \A k \in Nat : k \in T => k + 1 \in T
  BY Extension
<1> HIDE DEF T
<1>3. Nat \subseteq T
  BY <1>1, <1>2, SetInduction
<1> QED BY <1>3 DEF T

\* What the fold is: the last value of a function that iterates.
LEMMA FoldIterates ==
    ASSUME NEW p, NEW base, NEW s, NEW n \in Nat, DOMAIN s = 1 .. n
    PROVE  \E f : Iteration(p, base, s, 1 .. n, f) /\ Fold(p, base, s) = f[1 .. n]
<1> DEFINE f == CHOOSE f : Iteration(p, base, s, 1 .. n, f)
<1>1. Iteration(p, base, s, 1 .. n, f)
  BY Existence
<1>2. Fold(p, base, s) = f[1 .. n]
  BY DEF Fold, Iteration, Greatest
<1> HIDE DEF f
<1> QED BY <1>1, <1>2

\* It begins with the base.
LEMMA IterationFirst ==
    ASSUME NEW p, NEW base, NEW s, NEW n \in Nat, NEW f, Iteration(p, base, s, 1 .. n, f)
    PROVE  f[1 .. 0] = base
<1>1. f[{}] = base /\ 1 .. 0 = {}
  BY DEF Iteration
<1> QED BY <1>1

\* The value at the first k + 1 places comes from that at the first k.
LEMMA IterationStep ==
    ASSUME NEW p, NEW base, NEW s, NEW n \in Nat, NEW f, Iteration(p, base, s, 1 .. n, f),
           NEW k \in Nat, k + 1 <= n
    PROVE  f[1 .. k + 1] = Op(p, f[1 .. k], s[k + 1])
<1>1. Greatest(1 .. k + 1) = k + 1 /\ (1 .. k + 1) \ {k + 1} = 1 .. k
  BY GreatestTop
<1>2. k + 1 \in 1 .. k + 1
  OBVIOUS
<1>3. \A i \in 1 .. k + 1 : i \in 1 .. n
  OBVIOUS
<1>4. 1 .. k + 1 \in SUBSET (1 .. n) /\ 1 .. k + 1 # {}
  BY <1>2, <1>3
<1> QED BY <1>1, <1>4 DEF Iteration

--------------------------------------------------------------------------------
(* What is used of it. *)

\* What holds of the base, and after each item if it did before, holds at the end.
THEOREM FoldKeeps ==
    ASSUME NEW p, NEW base, NEW s, NEW n \in Nat, DOMAIN s = 1 .. n,
           J(p, base, s, 0, base),
           \A i \in 1 .. n : \A r : J(p, base, s, i - 1, r) => J(p, base, s, i, Op(p, r, s[i]))
    PROVE  J(p, base, s, n, Fold(p, base, s))
<1>1. PICK f : Iteration(p, base, s, 1 .. n, f) /\ Fold(p, base, s) = f[1 .. n]
  BY FoldIterates
<1> DEFINE T == {k \in Nat : k <= n => J(p, base, s, k, f[1 .. k])}
<1>2. 0 \in T
  BY <1>1, IterationFirst
<1>3. ASSUME NEW k \in Nat, k \in T, k + 1 <= n PROVE J(p, base, s, k + 1, f[1 .. k + 1])
  <2>1. J(p, base, s, k, f[1 .. k])
    BY <1>3
  <2>2. (k + 1) - 1 = k /\ k + 1 \in 1 .. n
    BY <1>3
  <2>3. f[1 .. k + 1] = Op(p, f[1 .. k], s[k + 1])
    BY <1>1, <1>3, IterationStep
  <2> QED BY <2>1, <2>2, <2>3
<1>4. \A k \in Nat : k \in T => k + 1 \in T
  BY <1>3
<1> HIDE DEF T
<1>5. n \in T
  BY <1>2, <1>4, SetInduction
<1> QED BY <1>1, <1>5 DEF T

THEOREM FoldEmpty ==
    ASSUME NEW p, NEW base, NEW s, DOMAIN s = 1 .. 0
    PROVE  Fold(p, base, s) = base
<1>1. PICK f : Iteration(p, base, s, 1 .. 0, f) /\ Fold(p, base, s) = f[1 .. 0]
  BY FoldIterates
<1> QED BY <1>1, IterationFirst

\* The last item is folded last.
THEOREM FoldLast ==
    ASSUME NEW p, NEW base, NEW s, NEW t, NEW n \in Nat,
           DOMAIN s = 1 .. n, DOMAIN t = 1 .. n + 1, \A i \in 1 .. n : t[i] = s[i]
    PROVE  Fold(p, base, t) = Op(p, Fold(p, base, s), t[n + 1])
<1>1. PICK f : Iteration(p, base, s, 1 .. n, f) /\ Fold(p, base, s) = f[1 .. n]
  BY FoldIterates
<1>2. PICK g : Iteration(p, base, t, 1 .. n + 1, g) /\ Fold(p, base, t) = g[1 .. n + 1]
  BY FoldIterates
<1>3. f[1 .. 0] = base /\ g[1 .. 0] = base
  BY <1>1, <1>2, IterationFirst
<1>4. ASSUME NEW k \in Nat, k + 1 <= n + 1
      PROVE  g[1 .. k + 1] = Op(p, g[1 .. k], t[k + 1])
  BY <1>2, <1>4, IterationStep
<1> DEFINE T == {k \in Nat : k <= n => f[1 .. k] = g[1 .. k]}
<1>5. 0 \in T
  BY <1>3
<1>6. ASSUME NEW k \in Nat, k \in T, k + 1 <= n PROVE f[1 .. k + 1] = g[1 .. k + 1]
  <2>1. f[1 .. k] = g[1 .. k] /\ k + 1 \in 1 .. n /\ k + 1 <= n + 1
    BY <1>6
  <2>2. f[1 .. k + 1] = Op(p, f[1 .. k], s[k + 1])
    BY <1>1, <1>6, IterationStep
  <2> QED BY <1>4, <2>1, <2>2
<1>7. \A k \in Nat : k \in T => k + 1 \in T
  BY <1>6
<1> HIDE DEF T
<1>8. n \in T
  BY <1>5, <1>7, SetInduction
<1>9. f[1 .. n] = g[1 .. n]
  BY <1>8 DEF T
<1>10. n + 1 <= n + 1
  OBVIOUS
<1> QED BY <1>1, <1>2, <1>4, <1>9, <1>10
================================================================================
