------------------------------ MODULE SequenceFacts ------------------------------
(***************************************************************************)
(* What holds of the operators of Document that look something up in a     *)
(* sequence or select from it, whatever they look for.  A module of proofs *)
(* takes Of to be what is looked up; p is what it depends on besides the   *)
(* item.                                                                   *)
(***************************************************************************)
EXTENDS Naturals, Sequences, SequencesExt, SequenceTheorems, FiniteSetTheorems, TLAPS

CONSTANTS
    Of(_, _)            \* Of(p, x): {} or what x gives

\* FirstGiven(list, LAMBDA x : Of(p, x)), and LastGiven.
First(p, list) ==
    LET i == SelectInSeq(list, LAMBDA x : Of(p, x) # {})
    IN  IF i = 0 THEN {} ELSE Of(p, list[i])
Latest(p, list) ==
    LET i == SelectLastInSeq(list, LAMBDA x : Of(p, x) # {})
    IN  IF i = 0 THEN {} ELSE Of(p, list[i])

Gives(p, list) == {i \in 1 .. Len(list) : Of(p, list[i]) # {}}

\* Picked of Document.
Picked(those, list) ==
    FoldLeft(LAMBDA kept, x : IF x \in those THEN Append(kept, x) ELSE kept, <<>>, list)

Keep(those, kept, x) == IF x \in those THEN Append(kept, x) ELSE kept

\* kept has those of the first n items of s that pass, in their order: f[k] is
\* where the k-th of them was.
SelectionOf(those, s, n, kept, f) ==
    /\ f \in [1 .. Len(kept) -> 1 .. n]
    /\ \A k, l \in 1 .. Len(kept) : k < l => f[k] < f[l]
    /\ \A k \in 1 .. Len(kept) : kept[k] = s[f[k]]
    /\ \A i \in 1 .. n : s[i] \in those <=> \E k \in 1 .. Len(kept) : f[k] = i

IsSelection(those, base, s, n, kept) ==
    kept \in Seq({s[i] : i \in DOMAIN s}) /\ \E f : SelectionOf(those, s, n, kept, f)

F == INSTANCE FoldInduction WITH Op <- Keep, J <- IsSelection

--------------------------------------------------------------------------------
(* Lists: sequences of whatever their items are. *)

IsList(x) == x \in Seq(Range(x))

LEMMA ListFacts ==
    ASSUME NEW s, IsList(s)
    PROVE  Len(s) \in Nat /\ DOMAIN s = 1 .. Len(s) /\ Range(s) = {s[i] : i \in 1 .. Len(s)}
BY DEF IsList, Range

\* Any sequence is a list, whatever its items are.
LEMMA ListOf ==
    ASSUME NEW T, NEW s \in Seq(T)
    PROVE  IsList(s)
<1>1. s \in [1 .. Len(s) -> T] /\ Len(s) \in Nat
  OBVIOUS
<1>2. s \in [1 .. Len(s) -> Range(s)]
  BY <1>1 DEF Range
<1> QED BY <1>1, <1>2, SeqDef DEF IsList

LEMMA AppendList ==
    ASSUME NEW s, IsList(s), NEW x
    PROVE  /\ IsList(Append(s, x)) /\ Len(Append(s, x)) = Len(s) + 1
           /\ \A i \in 1 .. Len(s) : Append(s, x)[i] = s[i]
           /\ Append(s, x)[Len(s) + 1] = x
           /\ Range(Append(s, x)) = Range(s) \cup {x}
<1> DEFINE T == Range(s) \cup {x}
           a == Append(s, x)
<1>1. s \in Seq(T)
  BY DEF IsList
<1>2. a \in Seq(T) /\ Len(a) = Len(s) + 1 /\ Len(s) \in Nat
  BY <1>1
<1>3. \A i \in 1 .. Len(s) : a[i] = s[i]
  BY <1>1
<1>4. a[Len(s) + 1] = x
  BY <1>1
<1>5. IsList(a)
  BY <1>2, ListOf
<1> HIDE DEF a
<1>6. Range(a) = Range(s) \cup {x}
  BY <1>2, <1>3, <1>4, <1>5, ListFacts
<1> QED BY <1>2, <1>3, <1>4, <1>5, <1>6 DEF a

LEMMA ConcatList ==
    ASSUME NEW a, NEW b, IsList(a), IsList(b)
    PROVE  /\ IsList(a \o b) /\ Len(a \o b) = Len(a) + Len(b)
           /\ \A i \in 1 .. Len(a) : (a \o b)[i] = a[i]
           /\ \A i \in 1 .. Len(b) : (a \o b)[Len(a) + i] = b[i]
           /\ Range(a \o b) = Range(a) \cup Range(b)
<1> DEFINE T == Range(a) \cup Range(b)
           c == a \o b
<1>1. a \in Seq(T) /\ b \in Seq(T)
  BY DEF IsList
<1>2. /\ c \in Seq(T) /\ Len(c) = Len(a) + Len(b) /\ Len(a) \in Nat /\ Len(b) \in Nat
      /\ \A i \in 1 .. Len(a) : c[i] = a[i]
      /\ \A i \in 1 .. Len(b) : c[Len(a) + i] = b[i]
  BY <1>1
<1>3. IsList(c)
  BY <1>2, ListOf
<1> HIDE DEF c
<1>4. Range(c) = Range(a) \cup Range(b)
  <2>1. Range(c) \subseteq Range(a) \cup Range(b)
    BY <1>2 DEF Range
  <2>2. Range(a) \subseteq Range(c)
    <3>1. \A i \in 1 .. Len(a) : i \in 1 .. Len(c)
      BY <1>2
    <3> QED BY <1>2, <1>3, <3>1, ListFacts
  <2>3. Range(b) \subseteq Range(c)
    <3> SUFFICES ASSUME NEW i \in 1 .. Len(b) PROVE b[i] \in Range(c)
      BY ListFacts
    <3>1. Len(a) + i \in 1 .. Len(c) /\ c[Len(a) + i] = b[i]
      BY <1>2
    <3> QED BY <1>3, <3>1, ListFacts
  <2> QED BY <2>1, <2>2, <2>3
<1> QED BY <1>2, <1>3, <1>4 DEF c

--------------------------------------------------------------------------------
(* Looking up. *)

\* Of some numbers, bounded and not zero, one is the least and one the greatest.
LEMMA Extremes ==
    ASSUME NEW n \in Nat, NEW S \in SUBSET (1 .. n), S # {}
    PROVE  /\ \E i \in S : \A j \in S : i <= j
           /\ \E i \in S : \A j \in S : j <= i
<1>1. \E i \in S : \A j \in S : i <= j
  <2> SUFFICES ASSUME \A i \in S : \E j \in S : j < i PROVE FALSE
    OBVIOUS
  <2> DEFINE T == {k \in Nat : \A i \in S : i > k}
  <2>1. 0 \in T
    OBVIOUS
  <2>2. \A k \in Nat : k \in T => k + 1 \in T
    OBVIOUS
  <2> HIDE DEF T
  <2>3. n \in T
    BY <2>1, <2>2, F!SetInduction
  <2>4. \A i \in S : i > n
    BY <2>3 DEF T
  <2>5. PICK i : i \in S
    OBVIOUS
  <2>6. i \in 1 .. n /\ i > n
    BY <2>4, <2>5
  <2> QED BY <2>6
<1>2. \E i \in S : \A j \in S : j <= i
  <2> SUFFICES ASSUME \A i \in S : \E j \in S : i < j PROVE FALSE
    OBVIOUS
  <2> DEFINE T == {k \in Nat : \A i \in S : i + k <= n}
  <2>1. 0 \in T
    OBVIOUS
  <2>2. ASSUME NEW k \in Nat, k \in T PROVE k + 1 \in T
    <3>1. ASSUME NEW i \in S PROVE i + (k + 1) <= n
      <4>1. PICK j \in S : i < j
        OBVIOUS
      <4>2. j + k <= n
        BY <2>2
      <4> QED BY <4>1, <4>2
    <3> QED BY <3>1
  <2>3. \A k \in Nat : k \in T => k + 1 \in T
    BY <2>2
  <2> HIDE DEF T
  <2>4. n \in T
    BY <2>1, <2>3, F!SetInduction
  <2>5. \A i \in S : i + n <= n
    BY <2>4 DEF T
  <2>6. PICK i : i \in S
    OBVIOUS
  <2>7. i \in 1 .. n /\ i + n <= n
    BY <2>5, <2>6
  <2> QED BY <2>7
<1> QED BY <1>1, <1>2

\* Either nothing gives anything, or the first that does is what is found.
THEOREM FirstIs ==
    ASSUME NEW p, NEW list, Len(list) \in Nat
    PROVE  \/ Gives(p, list) = {} /\ First(p, list) = {}
           \/ \E i \in Gives(p, list) :
                 (\A j \in Gives(p, list) : i <= j) /\ First(p, list) = Of(p, list[i])
<1>1. CASE Gives(p, list) = {}
  BY <1>1 DEF First, SelectInSeq, Gives
<1>2. CASE Gives(p, list) # {}
  <2> DEFINE I == Gives(p, list)
             i == CHOOSE i \in I : \A j \in I : i <= j
  <2>1. \E k \in I : \A j \in I : k <= j
    BY <1>2, Extremes DEF Gives
  <2>2. i \in I /\ \A j \in I : i <= j
    BY <2>1
  <2>3. First(p, list) = IF i = 0 THEN {} ELSE Of(p, list[i])
    BY <1>2 DEF First, SelectInSeq, Min, Gives
  <2> HIDE DEF i
  <2>4. i \in 1 .. Len(list)
    BY <2>2 DEF Gives
  <2>5. i # 0
    BY <2>4
  <2> QED BY <2>2, <2>3, <2>5
<1> QED BY <1>1, <1>2

THEOREM LatestIs ==
    ASSUME NEW p, NEW list, Len(list) \in Nat
    PROVE  \/ Gives(p, list) = {} /\ Latest(p, list) = {}
           \/ \E i \in Gives(p, list) :
                 (\A j \in Gives(p, list) : j <= i) /\ Latest(p, list) = Of(p, list[i])
<1>1. CASE Gives(p, list) = {}
  BY <1>1 DEF Latest, SelectLastInSeq, Gives
<1>2. CASE Gives(p, list) # {}
  <2> DEFINE I == Gives(p, list)
             i == CHOOSE i \in I : \A j \in I : i >= j
  <2>1. \E k \in I : \A j \in I : k >= j
    BY <1>2, Extremes DEF Gives
  <2>2. i \in I /\ \A j \in I : i >= j
    BY <2>1
  <2>3. Latest(p, list) = IF i = 0 THEN {} ELSE Of(p, list[i])
    BY <1>2 DEF Latest, SelectLastInSeq, Max, Gives
  <2> HIDE DEF i
  <2>4. i \in 1 .. Len(list)
    BY <2>2 DEF Gives
  <2>5. i # 0
    BY <2>4
  <2>6. \A j \in I : j <= i
    BY <2>2 DEF Gives
  <2> QED BY <2>2, <2>3, <2>5, <2>6
<1> QED BY <1>1, <1>2

\* The places of a concatenation c that give something.
GivenIn(p, a, b, c) ==
    /\ \A i \in 1 .. Len(a) : i \in Gives(p, c) <=> i \in Gives(p, a)
    /\ \A i \in 1 .. Len(b) : Len(a) + i \in Gives(p, c) <=> i \in Gives(p, b)
    /\ \A i \in Gives(p, c) :
          i \in 1 .. Len(a) \/ \E j \in 1 .. Len(b) : i = Len(a) + j

LEMMA GivesConcat ==
    ASSUME NEW p, NEW T, NEW a \in Seq(T), NEW b \in Seq(T)
    PROVE  GivenIn(p, a, b, a \o b)
<1> DEFINE m == Len(a)
           n == Len(b)
           c == a \o b
<1>1. /\ m \in Nat /\ n \in Nat /\ Len(c) = m + n
      /\ \A i \in 1 .. m : c[i] = a[i]
      /\ \A i \in 1 .. n : c[m + i] = b[i]
  OBVIOUS
<1> HIDE DEF m, n, c
<1>2. ASSUME NEW i \in 1 .. m PROVE i \in Gives(p, c) <=> i \in Gives(p, a)
  <2>1. i \in 1 .. Len(c)
    BY <1>1
  <2> QED BY <1>1, <2>1 DEF Gives, m
<1>3. ASSUME NEW i \in 1 .. n PROVE m + i \in Gives(p, c) <=> i \in Gives(p, b)
  <2>1. m + i \in 1 .. Len(c)
    BY <1>1
  <2> QED BY <1>1, <2>1 DEF Gives, n
<1>4. ASSUME NEW i \in Gives(p, c), i \notin 1 .. m PROVE \E j \in 1 .. n : i = m + j
  <2>1. i \in 1 .. m + n
    BY <1>1 DEF Gives
  <2>2. i - m \in 1 .. n /\ i = m + (i - m)
    BY <1>1, <1>4, <2>1
  <2> QED BY <2>2
<1> QED BY <1>2, <1>3, <1>4 DEF m, n, c, GivenIn

\* What the first of two lists gives is found first.
THEOREM FirstConcat ==
    ASSUME NEW p, NEW T, NEW a \in Seq(T), NEW b \in Seq(T)
    PROVE  First(p, a \o b) = IF First(p, a) # {} THEN First(p, a) ELSE First(p, b)
<1> DEFINE m == Len(a)
           n == Len(b)
           c == a \o b
<1>1. /\ m \in Nat /\ n \in Nat /\ Len(c) = m + n /\ Len(c) \in Nat
      /\ \A i \in 1 .. m : c[i] = a[i]
      /\ \A i \in 1 .. n : c[m + i] = b[i]
  OBVIOUS
<1> HIDE DEF c
<1>2. /\ \A i \in 1 .. m : i \in Gives(p, c) <=> i \in Gives(p, a)
      /\ \A i \in 1 .. n : m + i \in Gives(p, c) <=> i \in Gives(p, b)
      /\ \A i \in Gives(p, c) : i \in 1 .. m \/ \E j \in 1 .. n : i = m + j
  <2>1. GivenIn(p, a, b, c)
    BY GivesConcat DEF c
  <2> QED BY <2>1 DEF GivenIn
<1>4. CASE Gives(p, a) # {}
  <2>1. PICK i \in Gives(p, a) : (\A j \in Gives(p, a) : i <= j) /\ First(p, a) = Of(p, a[i])
    BY <1>1, <1>4, FirstIs
  <2>2. i \in 1 .. m /\ i \in Gives(p, c) /\ Of(p, a[i]) # {} /\ c[i] = a[i]
    BY <1>1, <1>2, <2>1 DEF Gives
  <2>3. PICK k \in Gives(p, c) : (\A j \in Gives(p, c) : k <= j) /\ First(p, c) = Of(p, c[k])
    BY <1>1, <2>2, FirstIs
  <2>4. k <= i /\ k \in 1 .. m + n
    BY <1>1, <2>2, <2>3 DEF Gives
  <2>5. k \in 1 .. m
    BY <1>1, <2>2, <2>4
  <2>6. k \in Gives(p, a)
    BY <1>2, <2>3, <2>5
  <2>7. i <= k
    BY <2>1, <2>6
  <2>8. i = k
    BY <1>1, <2>2, <2>4, <2>5, <2>7
  <2> QED BY <2>1, <2>2, <2>3, <2>8 DEF c
<1>5. CASE Gives(p, a) = {} /\ Gives(p, b) # {}
  <2>1. PICK i \in Gives(p, b) : (\A j \in Gives(p, b) : i <= j) /\ First(p, b) = Of(p, b[i])
    BY <1>1, <1>5, FirstIs
  <2>2. i \in 1 .. n /\ m + i \in Gives(p, c) /\ c[m + i] = b[i]
    BY <1>1, <1>2, <2>1 DEF Gives
  <2>3. PICK k \in Gives(p, c) : (\A j \in Gives(p, c) : k <= j) /\ First(p, c) = Of(p, c[k])
    BY <1>1, <2>2, FirstIs
  <2>4. PICK j \in 1 .. n : k = m + j
    BY <1>2, <1>5, <2>3
  <2>5. i <= j /\ m + j <= m + i
    BY <1>2, <2>1, <2>2, <2>3, <2>4
  <2>6. i = j
    BY <1>1, <2>2, <2>5
  <2>7. First(p, a) = {}
    BY <1>1, <1>5, FirstIs
  <2> QED BY <2>1, <2>2, <2>3, <2>4, <2>6, <2>7 DEF c
<1>6. CASE Gives(p, a) = {} /\ Gives(p, b) = {}
  <2>1. Gives(p, c) = {}
    BY <1>2, <1>6
  <2>2. First(p, a) = {} /\ First(p, b) = {} /\ First(p, c) = {}
    BY <1>1, <1>6, <2>1, FirstIs
  <2> QED BY <2>2 DEF c
<1> QED BY <1>4, <1>5, <1>6

\* What the last of two lists gives is found last.
THEOREM LatestConcat ==
    ASSUME NEW p, NEW T, NEW a \in Seq(T), NEW b \in Seq(T)
    PROVE  Latest(p, a \o b) = IF Latest(p, b) # {} THEN Latest(p, b) ELSE Latest(p, a)
<1> DEFINE m == Len(a)
           n == Len(b)
           c == a \o b
<1>1. /\ m \in Nat /\ n \in Nat /\ Len(c) = m + n /\ Len(c) \in Nat
      /\ \A i \in 1 .. m : c[i] = a[i]
      /\ \A i \in 1 .. n : c[m + i] = b[i]
  OBVIOUS
<1> HIDE DEF c
<1>2. /\ \A i \in 1 .. m : i \in Gives(p, c) <=> i \in Gives(p, a)
      /\ \A i \in 1 .. n : m + i \in Gives(p, c) <=> i \in Gives(p, b)
      /\ \A i \in Gives(p, c) : i \in 1 .. m \/ \E j \in 1 .. n : i = m + j
  <2>1. GivenIn(p, a, b, c)
    BY GivesConcat DEF c
  <2> QED BY <2>1 DEF GivenIn
<1>4. CASE Gives(p, b) # {}
  <2>1. PICK i \in Gives(p, b) : (\A j \in Gives(p, b) : j <= i) /\ Latest(p, b) = Of(p, b[i])
    BY <1>1, <1>4, LatestIs
  <2>2. i \in 1 .. n /\ m + i \in Gives(p, c) /\ Of(p, b[i]) # {} /\ c[m + i] = b[i]
    BY <1>1, <1>2, <2>1 DEF Gives
  <2>r. Gives(p, c) # {} /\ Len(c) \in Nat
    BY <1>1, <2>2
  <2>3. PICK k \in Gives(p, c) : (\A j \in Gives(p, c) : j <= k) /\ Latest(p, c) = Of(p, c[k])
    BY <2>r, LatestIs
  <2>4. m + i <= k
    BY <2>2, <2>3
  <2>5. PICK j \in 1 .. n : k = m + j
    <3>1. k \notin 1 .. m
      BY <1>1, <2>2, <2>4
    <3> QED BY <1>2, <2>3, <3>1
  <2>6. j <= i
    BY <1>2, <2>1, <2>3, <2>5
  <2>7. i = j
    BY <1>1, <2>2, <2>4, <2>5, <2>6
  <2> QED BY <2>1, <2>2, <2>3, <2>5, <2>7 DEF c
<1>5. CASE Gives(p, b) = {} /\ Gives(p, a) # {}
  <2>1. PICK i \in Gives(p, a) : (\A j \in Gives(p, a) : j <= i) /\ Latest(p, a) = Of(p, a[i])
    BY <1>1, <1>5, LatestIs
  <2>2. i \in 1 .. m /\ i \in Gives(p, c) /\ c[i] = a[i]
    BY <1>1, <1>2, <2>1 DEF Gives
  <2>r. Gives(p, c) # {} /\ Len(c) \in Nat
    BY <1>1, <2>2
  <2>3. PICK k \in Gives(p, c) : (\A j \in Gives(p, c) : j <= k) /\ Latest(p, c) = Of(p, c[k])
    BY <2>r, LatestIs
  <2>4. k \in 1 .. m /\ k \in Gives(p, a)
    BY <1>2, <1>5, <2>3
  <2>5. k <= i /\ i <= k
    BY <2>1, <2>2, <2>3, <2>4
  <2>6. i = k
    BY <1>1, <2>2, <2>4, <2>5
  <2>7. Latest(p, b) = {}
    BY <1>1, <1>5, LatestIs
  <2> QED BY <2>1, <2>2, <2>3, <2>6, <2>7 DEF c
<1>6. CASE Gives(p, a) = {} /\ Gives(p, b) = {}
  <2>1. Gives(p, c) = {}
    BY <1>2, <1>6
  <2>2. Latest(p, a) = {} /\ Latest(p, b) = {} /\ Latest(p, c) = {}
    BY <1>1, <1>6, <2>1, LatestIs
  <2> QED BY <2>2 DEF c
<1> QED BY <1>4, <1>5, <1>6

\* Of an empty list nothing is found, of one item what it gives.
THEOREM Shortest ==
    ASSUME NEW p, NEW x
    PROVE  /\ First(p, <<>>) = {} /\ Latest(p, <<>>) = {}
           /\ First(p, <<x>>) = Of(p, x) /\ Latest(p, <<x>>) = Of(p, x)
<1>1. Gives(p, <<>>) = {} /\ Len(<<>>) \in Nat
  BY DEF Gives
<1>2. First(p, <<>>) = {} /\ Latest(p, <<>>) = {}
  BY <1>1, FirstIs, LatestIs
<1>3. Len(<<x>>) = 1 /\ Len(<<x>>) \in Nat /\ <<x>>[1] = x /\ \A i \in 1 .. 1 : i = 1
  OBVIOUS
<1>4. \A i \in Gives(p, <<x>>) : i = 1 /\ Of(p, x) # {}
  BY <1>3 DEF Gives
<1>5. Of(p, x) # {} => 1 \in Gives(p, <<x>>)
  BY <1>3 DEF Gives
<1>6. First(p, <<x>>) = Of(p, x) /\ Latest(p, <<x>>) = Of(p, x)
  <2>1. CASE Of(p, x) = {}
    BY <1>3, <1>4, <2>1, FirstIs, LatestIs
  <2>2. CASE Of(p, x) # {}
    BY <1>3, <1>4, <1>5, <2>2, FirstIs, LatestIs
  <2> QED BY <2>1, <2>2
<1> QED BY <1>2, <1>6

\* One more item at the end is the last that is found, and the first when nothing
\* before it gives anything.
THEOREM GivenByAppend ==
    ASSUME NEW p, NEW T, NEW s \in Seq(T), NEW x
    PROVE  /\ Latest(p, Append(s, x)) = IF Of(p, x) # {} THEN Of(p, x) ELSE Latest(p, s)
           /\ First(p, Append(s, x)) = IF First(p, s) # {} THEN First(p, s) ELSE Of(p, x)
<1> DEFINE U == T \cup {x}
           b == <<x>>
<1>1. s \in Seq(U) /\ b \in Seq(U) /\ x \in U
  OBVIOUS
<1>2. Append(s, x) = s \o b
  <2> HIDE DEF U
  <2> QED BY <1>1, AppendIsConcat
<1>3. Latest(p, b) = Of(p, x) /\ First(p, b) = Of(p, x)
  BY Shortest
<1> HIDE DEF U, b
<1>4. Latest(p, s \o b) = IF Latest(p, b) # {} THEN Latest(p, b) ELSE Latest(p, s)
  BY <1>1, LatestConcat
<1>5. First(p, s \o b) = IF First(p, s) # {} THEN First(p, s) ELSE First(p, b)
  BY <1>1, FirstConcat
<1> QED BY <1>2, <1>3, <1>4, <1>5

--------------------------------------------------------------------------------
(* Selection. *)

LEMMA PickedIsFold == \A those, list : Picked(those, list) = F!Fold(those, <<>>, list)
BY DEF Picked, FoldLeft, MapThenFoldSet, Max, F!Fold, Keep

THEOREM PickedEmpty == \A those : Picked(those, <<>>) = <<>>
<1>1. DOMAIN <<>> = 1 .. 0
  OBVIOUS
<1> QED BY <1>1, PickedIsFold, F!FoldEmpty

\* One more item is added at the end when it is selected.
THEOREM PickedAppend ==
    ASSUME NEW those, NEW T, NEW s \in Seq(T), NEW x
    PROVE  Picked(those, Append(s, x)) =
              IF x \in those THEN Append(Picked(those, s), x) ELSE Picked(those, s)
<1> DEFINE t == Append(s, x)
           n == Len(s)
<1>1. n \in Nat /\ DOMAIN s = 1 .. n
  OBVIOUS
<1>2. DOMAIN t = 1 .. n + 1 /\ t[n + 1] = x /\ \A i \in 1 .. n : t[i] = s[i]
  OBVIOUS
<1> HIDE DEF t, n
<1>3. F!Fold(those, <<>>, t) = Keep(those, F!Fold(those, <<>>, s), t[n + 1])
  BY <1>1, <1>2, F!FoldLast
<1> QED BY <1>2, <1>3, PickedIsFold DEF Keep, t

LEMMA SelectionStep ==
    ASSUME NEW those, NEW s, NEW n \in Nat, DOMAIN s = 1 .. n, NEW i \in 1 .. n, NEW r,
           IsSelection(those, <<>>, s, i - 1, r)
    PROVE  IsSelection(those, <<>>, s, i, Keep(those, r, s[i]))
<1> DEFINE D == {s[j] : j \in DOMAIN s}
           m == Len(r)
<1>1. PICK f : SelectionOf(those, s, i - 1, r, f)
  BY DEF IsSelection
<1>2. r \in Seq(D) /\ m \in Nat /\ s[i] \in D
  <2>1. r \in Seq(D)
    BY DEF IsSelection
  <2>2. s[i] \in D
    OBVIOUS
  <2> HIDE DEF D
  <2> QED BY <2>1, <2>2
<1>3. i \in Nat /\ i - 1 \in Nat /\ (\A j \in 1 .. i : j \in 1 .. i - 1 \/ j = i)
      /\ (\A j \in 1 .. i - 1 : j \in 1 .. i /\ j < i) /\ i \in 1 .. i
  OBVIOUS
<1> HIDE DEF D
<1>4. CASE s[i] \notin those
  <2>1. Keep(those, r, s[i]) = r
    BY <1>4 DEF Keep
  <2>2. SelectionOf(those, s, i, r, f)
    BY <1>1, <1>3, <1>4 DEF SelectionOf
  <2> QED BY <1>2, <2>1, <2>2 DEF IsSelection, D
<1>5. CASE s[i] \in those
  <2> DEFINE t == Append(r, s[i])
             g == [k \in 1 .. m + 1 |-> IF k = m + 1 THEN i ELSE f[k]]
  <2>1. /\ Keep(those, r, s[i]) = t /\ t \in Seq(D) /\ Len(t) = m + 1 /\ t[m + 1] = s[i]
        /\ \A k \in 1 .. m : t[k] = r[k]
    BY <1>2, <1>5 DEF Keep
  <2> HIDE DEF t
  <2>2. /\ \A k \in 1 .. m + 1 : k \in 1 .. m \/ k = m + 1
        /\ \A k \in 1 .. m : k \in 1 .. m + 1 /\ k # m + 1 /\ k < m + 1
        /\ m + 1 \in 1 .. m + 1
    BY <1>2
  <2>3. g[m + 1] = i /\ \A k \in 1 .. m : g[k] = f[k] /\ f[k] \in 1 .. i - 1
    BY <1>1, <2>2 DEF SelectionOf
  <2>4. g \in [1 .. m + 1 -> 1 .. i]
    BY <1>3, <2>2, <2>3
  <2> HIDE DEF g
  <2>5. ASSUME NEW k \in 1 .. m + 1, NEW l \in 1 .. m + 1, k < l PROVE g[k] < g[l]
    <3>1. k \in 1 .. m
      BY <1>2, <2>5
    <3>2. CASE l = m + 1
      BY <1>3, <2>3, <3>1, <3>2
    <3>3. CASE l \in 1 .. m
      BY <1>1, <2>3, <2>5, <3>1, <3>3 DEF SelectionOf
    <3> QED BY <2>2, <3>2, <3>3
  <2>6. \A k \in 1 .. m + 1 : t[k] = s[g[k]]
    BY <1>1, <2>1, <2>2, <2>3 DEF SelectionOf
  <2>7. ASSUME NEW j \in 1 .. i PROVE s[j] \in those <=> \E k \in 1 .. m + 1 : g[k] = j
    <3>1. CASE j = i
      BY <1>5, <2>2, <2>3, <3>1
    <3>2. CASE j \in 1 .. i - 1
      <4>1. s[j] \in those <=> \E k \in 1 .. m : f[k] = j
        BY <1>1, <3>2 DEF SelectionOf
      <4>2. j # i
        BY <1>3, <3>2
      <4> QED BY <2>2, <2>3, <4>1, <4>2
    <3> QED BY <1>3, <3>1, <3>2
  <2>8. SelectionOf(those, s, i, t, g)
    BY <2>1, <2>4, <2>5, <2>6, <2>7 DEF SelectionOf
  <2> QED BY <2>1, <2>8 DEF IsSelection, D
<1> QED BY <1>4, <1>5

\* Those that are selected, in their order, and nothing else.
THEOREM Choosing ==
    ASSUME NEW those, NEW s, NEW n \in Nat, DOMAIN s = 1 .. n
    PROVE  IsSelection(those, <<>>, s, n, Picked(those, s))
<1>1. IsSelection(those, <<>>, s, 0, <<>>)
  <2> DEFINE f == [k \in 1 .. 0 |-> 0]
  <2>1. SelectionOf(those, s, 0, <<>>, f)
    BY DEF SelectionOf
  <2> QED BY <2>1 DEF IsSelection
<1>2. \A i \in 1 .. n : \A r : IsSelection(those, <<>>, s, i - 1, r)
                              => IsSelection(those, <<>>, s, i, Keep(those, r, s[i]))
  BY SelectionStep
<1> QED BY <1>1, <1>2, F!FoldKeeps, PickedIsFold

\* What this says of the items.
THEOREM PickedItems ==
    ASSUME NEW those, NEW T, NEW s \in Seq(T)
    PROVE  /\ Picked(those, s) \in Seq({s[i] : i \in 1 .. Len(s)})
           /\ Len(Picked(those, s)) \in Nat
           /\ \A k \in 1 .. Len(Picked(those, s)) :
                 \E i \in 1 .. Len(s) : Picked(those, s)[k] = s[i] /\ s[i] \in those
           /\ \A i \in 1 .. Len(s) : s[i] \in those =>
                 \E k \in 1 .. Len(Picked(those, s)) : Picked(those, s)[k] = s[i]
<1>1. DOMAIN s = 1 .. Len(s) /\ Len(s) \in Nat
  OBVIOUS
<1>2. IsSelection(those, <<>>, s, Len(s), Picked(those, s))
  BY <1>1, Choosing
<1>3. PICK f : SelectionOf(those, s, Len(s), Picked(those, s), f)
  BY <1>2 DEF IsSelection
<1>4. Picked(those, s) \in Seq({s[i] : i \in 1 .. Len(s)}) /\ Len(Picked(those, s)) \in Nat
  BY <1>1, <1>2 DEF IsSelection
<1>5. ASSUME NEW k \in 1 .. Len(Picked(those, s))
      PROVE  \E i \in 1 .. Len(s) : Picked(those, s)[k] = s[i] /\ s[i] \in those
  BY <1>3, <1>5 DEF SelectionOf
<1>6. ASSUME NEW i \in 1 .. Len(s), s[i] \in those
      PROVE  \E k \in 1 .. Len(Picked(those, s)) : Picked(those, s)[k] = s[i]
  BY <1>3, <1>6 DEF SelectionOf
<1> QED BY <1>4, <1>5, <1>6

\* The same, to be cited where the items are of a kind of their own.
PickedFrom(those, s, kept) ==
    /\ Len(kept) \in Nat
    /\ \A k \in 1 .. Len(kept) : \E i \in 1 .. Len(s) : kept[k] = s[i] /\ s[i] \in those

LEMMA PickedAre ==
    ASSUME NEW those, NEW T, NEW s \in Seq(T)
    PROVE  PickedFrom(those, s, Picked(those, s))
BY PickedItems DEF PickedFrom

LEMMA PickedRange ==
    ASSUME NEW those, NEW s, IsList(s)
    PROVE  /\ IsList(Picked(those, s)) /\ Len(Picked(those, s)) \in Nat
           /\ Range(Picked(those, s)) = Range(s) \cap those
<1> DEFINE kept == Picked(those, s)
<1>1. Range(s) = {s[i] : i \in 1 .. Len(s)}
  BY ListFacts
<1>2. /\ kept \in Seq({s[i] : i \in 1 .. Len(s)})
      /\ \A k \in 1 .. Len(kept) : \E i \in 1 .. Len(s) : kept[k] = s[i] /\ s[i] \in those
      /\ \A i \in 1 .. Len(s) : s[i] \in those => \E k \in 1 .. Len(kept) : kept[k] = s[i]
  <2>1. DOMAIN s = 1 .. Len(s) /\ Len(s) \in Nat /\ {s[i] : i \in DOMAIN s} = {s[i] : i \in 1 .. Len(s)}
    BY ListFacts
  <2>2. IsSelection(those, <<>>, s, Len(s), kept)
    BY <2>1, Choosing
  <2>3. PICK f : SelectionOf(those, s, Len(s), kept, f)
    BY <2>2 DEF IsSelection
  <2> HIDE DEF kept
  <2>4. kept \in Seq({s[i] : i \in 1 .. Len(s)})
    BY <2>1, <2>2 DEF IsSelection
  <2>5. ASSUME NEW k \in 1 .. Len(kept)
        PROVE  \E i \in 1 .. Len(s) : kept[k] = s[i] /\ s[i] \in those
    BY <2>3 DEF SelectionOf
  <2>6. ASSUME NEW i \in 1 .. Len(s), s[i] \in those
        PROVE  \E k \in 1 .. Len(kept) : kept[k] = s[i]
    BY <2>3, <2>6 DEF SelectionOf
  <2> QED BY <2>4, <2>5, <2>6
<1> HIDE DEF kept
<1>3. IsList(kept)
  BY <1>2, ListOf
<1>4. Len(kept) \in Nat /\ Range(kept) = {kept[k] : k \in 1 .. Len(kept)}
  BY <1>3, ListFacts
<1>5. Range(kept) = Range(s) \cap those
  BY <1>1, <1>2, <1>4
<1> QED BY <1>3, <1>4, <1>5 DEF kept

\* Either nothing is selected, or the first item that can be is the first.
LEMMA PickedFirst ==
    ASSUME NEW those, NEW s, IsList(s)
    PROVE  \/ Picked(those, s) = <<>> /\ \A i \in 1 .. Len(s) : s[i] \notin those
           \/ /\ Picked(those, s) # <<>>
              /\ \E i \in 1 .. Len(s) : /\ Picked(those, s)[1] = s[i] /\ s[i] \in those
                                        /\ \A j \in 1 .. Len(s) : s[j] \in those => i <= j
<1> DEFINE kept == Picked(those, s)
           n == Len(s)
<1>1. n \in Nat /\ DOMAIN s = 1 .. n
  BY ListFacts
<1>2. IsSelection(those, <<>>, s, n, kept)
  BY <1>1, Choosing
<1>3. PICK f : SelectionOf(those, s, n, kept, f)
  BY <1>2 DEF IsSelection
<1>4. IsList(kept) /\ Len(kept) \in Nat
  BY PickedRange
<1> HIDE DEF kept, n
<1>5. /\ f \in [1 .. Len(kept) -> 1 .. n]
      /\ \A k, l \in 1 .. Len(kept) : k < l => f[k] < f[l]
      /\ \A k \in 1 .. Len(kept) : kept[k] = s[f[k]]
      /\ \A i \in 1 .. n : s[i] \in those <=> \E k \in 1 .. Len(kept) : f[k] = i
  BY <1>3 DEF SelectionOf
<1>6. kept = <<>> <=> Len(kept) = 0
  BY <1>4 DEF IsList
<1>7. CASE Len(kept) = 0
  BY <1>5, <1>6, <1>7 DEF kept, n
<1>8. CASE Len(kept) # 0
  <2>1. 1 \in 1 .. Len(kept)
    BY <1>4, <1>8
  <2>2. f[1] \in 1 .. n /\ kept[1] = s[f[1]] /\ s[f[1]] \in those
    BY <1>5, <2>1
  <2>3. ASSUME NEW j \in 1 .. n, s[j] \in those PROVE f[1] <= j
    <3>1. PICK k \in 1 .. Len(kept) : f[k] = j
      BY <1>5, <2>3
    <3>2. CASE k = 1
      BY <1>1, <3>1, <3>2
    <3>3. CASE k # 1
      <4>1. 1 < k
        BY <1>4, <3>3
      <4>2. f[1] < f[k]
        BY <1>5, <2>1, <4>1
      <4> QED BY <1>1, <2>2, <3>1, <4>2
    <3> QED BY <3>2, <3>3
  <2> QED BY <1>6, <1>8, <2>2, <2>3 DEF kept, n
<1> QED BY <1>7, <1>8

\* And of their number.
THEOREM PickedCount ==
    ASSUME NEW those, NEW T, NEW s \in Seq(T)
    PROVE  Cardinality({i \in 1 .. Len(s) : s[i] \notin those}) = Len(s) - Len(Picked(those, s))
<1> DEFINE n == Len(s)
           m == Len(Picked(those, s))
           I == {i \in 1 .. n : s[i] \in those}
           J == {i \in 1 .. n : s[i] \notin those}
<1>1. DOMAIN s = 1 .. n /\ n \in Nat /\ m \in Nat
  BY PickedItems
<1>2. PICK f : SelectionOf(those, s, n, Picked(those, s), f)
  BY <1>1, Choosing DEF IsSelection
<1> HIDE DEF n, m
<1>3. f \in Bijection(1 .. m, I)
  <2>1. f \in [1 .. m -> I]
    BY <1>2 DEF SelectionOf, m
  <2>2. \A k, l \in 1 .. m : f[k] = f[l] => k = l
    <3>1. \A k, l \in 1 .. m : k < l => f[k] < f[l]
      BY <1>2 DEF SelectionOf, m
    <3>2. \A k \in 1 .. m : f[k] \in Nat
      BY <1>1, <2>1
    <3> QED BY <1>1, <3>1, <3>2
  <2>3. \A i \in I : \E k \in 1 .. m : f[k] = i
    BY <1>2 DEF SelectionOf, m
  <2> QED BY <2>1, <2>2, <2>3 DEF Bijection, Injection, IsInjective, Surjection
<1>4. Cardinality(1 .. n) = n /\ Cardinality(1 .. m) = m
      /\ IsFiniteSet(1 .. n) /\ IsFiniteSet(1 .. m)
  BY <1>1, FS_Interval
<1>5. Cardinality(I) = m /\ IsFiniteSet(I)
  BY <1>3, <1>4, FS_Bijection DEF ExistsBijection
<1>6. IsFiniteSet(J) /\ Cardinality(J) \in Nat
  BY <1>4, FS_Subset, FS_CardinalityType
<1>7. I \cup J = 1 .. n /\ I \cap J = {}
  OBVIOUS
<1> HIDE DEF I, J
<1>8. Cardinality(I \cup J) = Cardinality(I) + Cardinality(J)
  <2>1. Cardinality(I \cup J) = Cardinality(I) + Cardinality(J) - Cardinality(I \cap J)
    BY <1>5, <1>6, FS_Union
  <2>2. Cardinality(I \cap J) = 0
    BY <1>7, FS_EmptySet
  <2> QED BY <1>1, <1>5, <1>6, <2>1, <2>2
<1>9. Cardinality(J) = n - m
  <2>1. Cardinality(I \cup J) = n
    BY <1>4, <1>7
  <2> QED BY <1>1, <1>5, <1>6, <1>8, <2>1
<1> QED BY <1>9 DEF J, n, m

--------------------------------------------------------------------------------
(* The first items of a list. *)

LEMMA PrefixFacts ==
    ASSUME NEW s, IsList(s), NEW k \in 0 .. Len(s)
    PROVE  /\ IsList(SubSeq(s, 1, k)) /\ Len(SubSeq(s, 1, k)) = k
           /\ \A i \in 1 .. k : SubSeq(s, 1, k)[i] = s[i]
           /\ k = Len(s) => SubSeq(s, 1, k) = s
           /\ k = 0 => SubSeq(s, 1, k) = <<>>
<1> DEFINE S == Range(s)
<1>1. s \in Seq(S) /\ Len(s) \in Nat /\ \A i \in 1 .. Len(s) : s[i] \in S
  BY ListFacts DEF IsList
<1>2. k \in Int /\ \A i \in 1 .. k : s[i] \in S
  BY <1>1
<1>3. /\ SubSeq(s, 1, k) \in Seq(S) /\ Len(SubSeq(s, 1, k)) = k
      /\ \A i \in 1 .. k : SubSeq(s, 1, k)[i] = s[i]
  <2> HIDE DEF S
  <2> QED BY <1>1, <1>2, SubSeqProperties
<1>4. k = Len(s) => SubSeq(s, 1, k) = s
  <2> HIDE DEF S
  <2> QED BY <1>1, SubSeqFull
<1>5. k = 0 => SubSeq(s, 1, k) = <<>>
  BY SubSeqEmpty
<1>6. IsList(SubSeq(s, 1, k))
  BY <1>3, ListOf
<1> QED BY <1>3, <1>4, <1>5, <1>6

LEMMA PrefixGrows ==
    ASSUME NEW s, IsList(s), NEW k \in 0 .. Len(s), k # Len(s)
    PROVE  /\ k + 1 \in 0 .. Len(s)
           /\ SubSeq(s, 1, k + 1) = Append(SubSeq(s, 1, k), s[k + 1])
<1> DEFINE S == Range(s)
           before == SubSeq(s, 1, k)
           x == s[k + 1]
<1>1. s \in Seq(S) /\ Len(s) \in Nat /\ x \in S
  BY ListFacts DEF IsList
<1>2. k + 1 \in 0 .. Len(s) /\ k + 1 \in 1 .. Len(s) /\ (k + 1) - 1 = k
  BY <1>1
<1>3. before \in Seq(S)
  <2>1. k \in Int /\ \A i \in 1 .. k : s[i] \in S
    BY <1>1
  <2> QED BY <1>1, <2>1, SubSeqProperties
<1>4. SubSeq(s, 1, k + 1) = before \o <<x>>
  <2>1. 1 \in 1 .. Len(s)
    BY <1>1, <1>2
  <2> HIDE DEF S
  <2> QED BY <1>1, <1>2, <2>1, SubSeqRecursiveSecond
<1> HIDE DEF S, before, x
<1>5. Append(before, x) = before \o <<x>>
  BY <1>1, <1>3, AppendIsConcat
<1> QED BY <1>2, <1>4, <1>5 DEF before, x

--------------------------------------------------------------------------------
(* Selections that agree. *)

LEMMA PickedOneMore ==
    ASSUME NEW those, NEW s, IsList(s), NEW k \in 0 .. Len(s), k # Len(s)
    PROVE  /\ k + 1 \in 0 .. Len(s) /\ s[k + 1] \in Range(s)
           /\ SubSeq(s, 1, k + 1) = Append(SubSeq(s, 1, k), s[k + 1])
           /\ Picked(those, SubSeq(s, 1, k + 1)) =
                 IF s[k + 1] \in those THEN Append(Picked(those, SubSeq(s, 1, k)), s[k + 1])
                 ELSE Picked(those, SubSeq(s, 1, k))
<1> DEFINE t == SubSeq(s, 1, k)
<1>1. k + 1 \in 0 .. Len(s) /\ SubSeq(s, 1, k + 1) = Append(t, s[k + 1])
  BY PrefixGrows
<1>2. t \in Seq(Range(t))
  BY PrefixFacts DEF IsList
<1> HIDE DEF t
<1>3. Picked(those, Append(t, s[k + 1])) =
          IF s[k + 1] \in those THEN Append(Picked(those, t), s[k + 1]) ELSE Picked(those, t)
  BY <1>2, PickedAppend
<1>4. s[k + 1] \in Range(s)
  <2>1. k + 1 \in 1 .. Len(s)
    BY <1>1, ListFacts
  <2> QED BY <2>1, ListFacts
<1> QED BY <1>1, <1>3, <1>4 DEF t

\* What is selected depends on the items alone.
LEMMA PickedSame ==
    ASSUME NEW a, NEW b, NEW s, IsList(s), \A x \in Range(s) : x \in a <=> x \in b
    PROVE  Picked(a, s) = Picked(b, s)
<1> DEFINE n == Len(s)
           T == {k \in Nat : k <= n => Picked(a, SubSeq(s, 1, k)) = Picked(b, SubSeq(s, 1, k))}
<1>1. n \in Nat /\ n \in 0 .. n
  BY ListFacts
<1>2. SubSeq(s, 1, 0) = <<>> /\ SubSeq(s, 1, n) = s
  <2>1. 0 \in 0 .. n
    BY <1>1
  <2> QED BY <1>1, <2>1, PrefixFacts
<1>3. 0 \in T
  BY <1>2, PickedEmpty
<1>4. ASSUME NEW k \in Nat, k \in T PROVE k + 1 \in T
  <2>1. CASE k + 1 <= n
    <3>1. k \in 0 .. n /\ k # n /\ k <= n
      BY <1>1, <2>1
    <3>2. Picked(a, SubSeq(s, 1, k)) = Picked(b, SubSeq(s, 1, k))
      BY <1>4, <3>1
    <3>3. /\ s[k + 1] \in Range(s)
          /\ Picked(a, SubSeq(s, 1, k + 1)) =
                IF s[k + 1] \in a THEN Append(Picked(a, SubSeq(s, 1, k)), s[k + 1])
                ELSE Picked(a, SubSeq(s, 1, k))
      BY <3>1, PickedOneMore
    <3>4. Picked(b, SubSeq(s, 1, k + 1)) =
              IF s[k + 1] \in b THEN Append(Picked(b, SubSeq(s, 1, k)), s[k + 1])
              ELSE Picked(b, SubSeq(s, 1, k))
      BY <3>1, PickedOneMore
    <3>5. Picked(a, SubSeq(s, 1, k + 1)) = Picked(b, SubSeq(s, 1, k + 1))
      BY <3>2, <3>3, <3>4
    <3> QED BY <3>5
  <2>2. CASE ~(k + 1 <= n)
    BY <2>2
  <2> QED BY <2>1, <2>2
<1>5. Nat \subseteq T
  <2> HIDE DEF T
  <2> QED BY <1>3, <1>4, F!SetInduction
<1>6. n \in T /\ n <= n
  BY <1>1, <1>5
<1> QED BY <1>2, <1>6

\* When all items are selected they are the selection.
LEMMA PickedAll ==
    ASSUME NEW those, NEW s, IsList(s), Range(s) \subseteq those
    PROVE  Picked(those, s) = s
<1> DEFINE n == Len(s)
           T == {k \in Nat : k <= n => Picked(those, SubSeq(s, 1, k)) = SubSeq(s, 1, k)}
<1>1. n \in Nat /\ n \in 0 .. n
  BY ListFacts
<1>2. SubSeq(s, 1, 0) = <<>> /\ SubSeq(s, 1, n) = s
  <2>1. 0 \in 0 .. n
    BY <1>1
  <2> QED BY <1>1, <2>1, PrefixFacts
<1>3. 0 \in T
  BY <1>2, PickedEmpty
<1>4. ASSUME NEW k \in Nat, k \in T PROVE k + 1 \in T
  <2>1. CASE k + 1 <= n
    <3>1. k \in 0 .. n /\ k # n /\ k <= n
      BY <1>1, <2>1
    <3>2. Picked(those, SubSeq(s, 1, k)) = SubSeq(s, 1, k)
      BY <1>4, <3>1
    <3>3. /\ s[k + 1] \in those /\ SubSeq(s, 1, k + 1) = Append(SubSeq(s, 1, k), s[k + 1])
          /\ Picked(those, SubSeq(s, 1, k + 1)) =
                IF s[k + 1] \in those THEN Append(Picked(those, SubSeq(s, 1, k)), s[k + 1])
                ELSE Picked(those, SubSeq(s, 1, k))
      BY <3>1, PickedOneMore
    <3>4. Picked(those, SubSeq(s, 1, k + 1)) = SubSeq(s, 1, k + 1)
      BY <3>2, <3>3
    <3> QED BY <3>4
  <2>2. CASE ~(k + 1 <= n)
    BY <2>2
  <2> QED BY <2>1, <2>2
<1>5. Nat \subseteq T
  <2> HIDE DEF T
  <2> QED BY <1>3, <1>4, F!SetInduction
<1>6. n \in T /\ n <= n
  BY <1>1, <1>5
<1> QED BY <1>2, <1>6

--------------------------------------------------------------------------------
(* Chains of lists. *)

Chained(lists) == FoldLeft(LAMBDA chain, list : chain \o list, <<>>, lists)

Link(p, chain, list) == chain \o list

ChainOf(p, base, s, n, chain) ==
    IsList(chain) /\ Range(chain) = UNION {Range(s[i]) : i \in 1 .. n}

C == INSTANCE FoldInduction WITH Op <- Link, J <- ChainOf

LEMMA ChainedIsFold == \A lists : Chained(lists) = C!Fold({}, <<>>, lists)
BY DEF Chained, FoldLeft, MapThenFoldSet, Max, C!Fold, Link

LEMMA EmptyIs == IsList(<<>>) /\ Len(<<>>) = 0 /\ Range(<<>>) = {}
<1>1. <<>> \in Seq({}) /\ Len(<<>>) = 0
  OBVIOUS
<1>2. IsList(<<>>)
  BY <1>1, ListOf
<1> QED BY <1>1, <1>2, ListFacts

THEOREM ChainedEmpty == Chained(<<>>) = <<>>
<1>1. DOMAIN <<>> = 1 .. 0
  OBVIOUS
<1> QED BY <1>1, ChainedIsFold, C!FoldEmpty

\* A chain has the items of its links.
THEOREM ChainedItems ==
    ASSUME NEW s, IsList(s), \A i \in 1 .. Len(s) : IsList(s[i])
    PROVE  /\ IsList(Chained(s))
           /\ Range(Chained(s)) = UNION {Range(s[i]) : i \in 1 .. Len(s)}
<1> DEFINE n == Len(s)
<1>1. n \in Nat /\ DOMAIN s = 1 .. n
  BY ListFacts
<1>2. ChainOf({}, <<>>, s, 0, <<>>)
  BY EmptyIs DEF ChainOf
<1>3. ASSUME NEW i \in 1 .. n, NEW r, ChainOf({}, <<>>, s, i - 1, r)
      PROVE  ChainOf({}, <<>>, s, i, Link({}, r, s[i]))
  <2>1. IsList(r) /\ IsList(s[i]) /\ Range(r) = UNION {Range(s[j]) : j \in 1 .. i - 1}
    BY <1>3 DEF ChainOf
  <2>2. IsList(r \o s[i]) /\ Range(r \o s[i]) = Range(r) \cup Range(s[i])
    BY <2>1, ConcatList
  <2>3. \A j : j \in 1 .. i <=> j \in 1 .. i - 1 \/ j = i
    BY <1>1
  <2>4. UNION {Range(s[j]) : j \in 1 .. i}
           = (UNION {Range(s[j]) : j \in 1 .. i - 1}) \cup Range(s[i])
    BY <2>3
  <2> QED BY <2>1, <2>2, <2>4 DEF ChainOf, Link
<1> HIDE DEF n
<1>4. ChainOf({}, <<>>, s, n, C!Fold({}, <<>>, s))
  BY <1>1, <1>2, <1>3, C!FoldKeeps
<1> QED BY <1>4, ChainedIsFold DEF ChainOf, n

THEOREM ChainedAppend ==
    ASSUME NEW s, IsList(s), NEW x
    PROVE  Chained(Append(s, x)) = Chained(s) \o x
<1> DEFINE t == Append(s, x)
           n == Len(s)
<1>1. n \in Nat /\ DOMAIN s = 1 .. n
  BY ListFacts
<1>2. DOMAIN t = 1 .. n + 1 /\ t[n + 1] = x /\ \A i \in 1 .. n : t[i] = s[i]
  BY AppendList, ListFacts
<1> HIDE DEF t, n
<1>3. C!Fold({}, <<>>, t) = Link({}, C!Fold({}, <<>>, s), t[n + 1])
  BY <1>1, <1>2, C!FoldLast
<1> QED BY <1>2, <1>3, ChainedIsFold DEF Link, t

LEMMA ConcatAssociates ==
    ASSUME NEW a, NEW b, NEW c, IsList(a), IsList(b), IsList(c)
    PROVE  (a \o b) \o c = a \o (b \o c)
<1> DEFINE T == Range(a) \cup Range(b) \cup Range(c)
<1>1. a \in Seq(T) /\ b \in Seq(T) /\ c \in Seq(T)
  BY DEF IsList
<1> HIDE DEF T
<1> QED BY <1>1, ConcatAssociative

LEMMA ConcatItem ==
    ASSUME NEW a, NEW b, NEW x, IsList(a), IsList(b)
    PROVE  a \o Append(b, x) = Append(a \o b, x)
<1> DEFINE T == Range(a) \cup Range(b) \cup {x}
<1>1. a \in Seq(T) /\ b \in Seq(T) /\ x \in T
  BY DEF IsList
<1> HIDE DEF T
<1>2. <<x>> \in Seq(T) /\ a \o b \in Seq(T)
  BY <1>1
<1>3. Append(b, x) = b \o <<x>> /\ Append(a \o b, x) = (a \o b) \o <<x>>
  BY <1>1, <1>2, AppendIsConcat
<1>4. (a \o b) \o <<x>> = a \o (b \o <<x>>)
  BY <1>1, <1>2, ConcatAssociative
<1> QED BY <1>3, <1>4

LEMMA ConcatEmpty ==
    ASSUME NEW a, IsList(a)
    PROVE  a \o <<>> = a /\ <<>> \o a = a
<1>1. a \in Seq(Range(a))
  BY DEF IsList
<1> QED BY <1>1, ConcatEmptySeq

================================================================================
