-------------------------------- MODULE PatchProofs --------------------------------
(***************************************************************************)
(* What merging, combining and applying patches do, for lists of any       *)
(* length.                                                                 *)
(***************************************************************************)
EXTENDS Patch, SequenceTheorems, TLAPS

\* What is asked of the items of a list in turn: is it that of a name, is it a rule
\* for some traffic; of patches, what their rules say of some traffic, how they
\* define a name in a section, and what they give for a part.
OfName(n) == [ask |-> "name", of |-> n]
Matching(t) == [ask |-> "match", of |-> t]
Ruling(t) == [ask |-> "rule", of |-> t]
Defining(section, n) == [ask |-> "entry", in |-> section, of |-> n]
Giving(part) == [ask |-> "part", of |-> part]

Found(asked, x) ==
    CASE asked.ask = "name" -> IF x.name = asked.of THEN {x} ELSE {}
      [] asked.ask = "match" -> IF asked.of \in x.match THEN {x} ELSE {}
      [] asked.ask = "rule" -> Deciding(x.rules, asked.of)
      [] asked.ask = "entry" -> Definition(x[asked.in], asked.of)
      [] asked.ask = "part" -> x[asked.of]

L == INSTANCE SequenceFacts WITH Of <- Found

LEMMA FoundIs ==
    /\ \A n, x : Found(OfName(n), x) = IF x.name = n THEN {x} ELSE {}
    /\ \A t, x : Found(Matching(t), x) = IF t \in x.match THEN {x} ELSE {}
    /\ \A t, x : Found(Ruling(t), x) = Deciding(x.rules, t)
    /\ \A section, n, x : Found(Defining(section, n), x) = Definition(x[section], n)
    /\ \A part, x : Found(Giving(part), x) = x[part]
BY DEF Found, OfName, Matching, Ruling, Defining, Giving

--------------------------------------------------------------------------------
(* Lists. *)

LEMMA ListsAgree == \A x : (L!IsList(x) <=> IsList(x)) /\ L!Range(x) = Range(x)
BY DEF IsList, L!IsList, Range, L!Range

LEMMA ListFacts ==
    ASSUME NEW s, IsList(s)
    PROVE  Len(s) \in Nat /\ DOMAIN s = 1 .. Len(s) /\ Range(s) = {s[i] : i \in 1 .. Len(s)}
BY ListsAgree, L!ListFacts

\* Any sequence is a list, whatever its items are.
LEMMA ListOf ==
    ASSUME NEW T, NEW s \in Seq(T)
    PROVE  IsList(s)
BY ListsAgree, L!ListOf

LEMMA AppendList ==
    ASSUME NEW s, IsList(s), NEW x
    PROVE  /\ IsList(Append(s, x)) /\ Len(Append(s, x)) = Len(s) + 1
           /\ \A i \in 1 .. Len(s) : Append(s, x)[i] = s[i]
           /\ Append(s, x)[Len(s) + 1] = x
           /\ Range(Append(s, x)) = Range(s) \cup {x}
BY ListsAgree, L!AppendList

LEMMA ConcatList ==
    ASSUME NEW a, NEW b, IsList(a), IsList(b)
    PROVE  /\ IsList(a \o b) /\ Len(a \o b) = Len(a) + Len(b)
           /\ \A i \in 1 .. Len(a) : (a \o b)[i] = a[i]
           /\ \A i \in 1 .. Len(b) : (a \o b)[Len(a) + i] = b[i]
           /\ Range(a \o b) = Range(a) \cup Range(b)
BY ListsAgree, L!ConcatList

--------------------------------------------------------------------------------
(* Looking up. *)

LEMMA DefinitionIsLatest ==
    \A list, n : Definition(list, n) = L!Latest(OfName(n), list)
<1> SUFFICES ASSUME NEW list, NEW n
             PROVE  Definition(list, n) = L!Latest(OfName(n), list)
  OBVIOUS
<1> DEFINE asked == OfName(n)
           I == {i \in 1 .. Len(list) : (IF list[i].name = n THEN {list[i]} ELSE {}) # {}}
           J == {i \in 1 .. Len(list) : Found(asked, list[i]) # {}}
           Extreme(K) == CHOOSE k \in K : \A j \in K : k >= j
           i == IF I # {} THEN Extreme(I) ELSE 0
           j == IF J # {} THEN Extreme(J) ELSE 0
<1>1. Definition(list, n) = IF i = 0 THEN {} ELSE (IF list[i].name = n THEN {list[i]} ELSE {})
  BY DEF Definition, LastGiven, SelectLastInSeq, Max
<1>2. \A x : Found(asked, x) = (IF x.name = n THEN {x} ELSE {})
  BY FoundIs
<1> HIDE DEF asked
<1>3. L!Latest(asked, list) = IF j = 0 THEN {} ELSE Found(asked, list[j])
  BY DEF L!Latest, L!SelectLastInSeq, L!Max
<1>4. I = J
  BY <1>2
<1>5. i = j
  <2> HIDE DEF I, J
  <2> QED BY <1>4
<1> HIDE DEF i, j
<1> QED BY <1>1, <1>2, <1>3, <1>5 DEF asked

LEMMA DecidingIsFirst ==
    \A list, t : Deciding(list, t) = L!First(Matching(t), list)
<1> SUFFICES ASSUME NEW list, NEW t
             PROVE  Deciding(list, t) = L!First(Matching(t), list)
  OBVIOUS
<1> DEFINE asked == Matching(t)
           I == {i \in 1 .. Len(list) : (IF t \in list[i].match THEN {list[i]} ELSE {}) # {}}
           J == {i \in 1 .. Len(list) : Found(asked, list[i]) # {}}
           Extreme(K) == CHOOSE k \in K : \A j \in K : k =< j
           i == IF I # {} THEN Extreme(I) ELSE 0
           j == IF J # {} THEN Extreme(J) ELSE 0
<1>1. Deciding(list, t) = IF i = 0 THEN {} ELSE (IF t \in list[i].match THEN {list[i]} ELSE {})
  BY DEF Deciding, FirstGiven, SelectInSeq, Min
<1>2. \A x : Found(asked, x) = (IF t \in x.match THEN {x} ELSE {})
  BY FoundIs
<1> HIDE DEF asked
<1>3. L!First(asked, list) = IF j = 0 THEN {} ELSE Found(asked, list[j])
  BY DEF L!First, L!SelectInSeq, L!Min
<1>4. I = J
  BY <1>2
<1>5. i = j
  <2> HIDE DEF I, J
  <2> QED BY <1>4
<1> HIDE DEF i, j
<1> QED BY <1>1, <1>2, <1>3, <1>5 DEF asked

\* The last item of a name is found when there is one, and is one of the items.
LEMMA DefinitionFacts ==
    ASSUME NEW items, IsList(items), NEW n
    PROVE  /\ n \notin Names(items) => Definition(items, n) = {}
           /\ n \in Names(items) =>
                 \E i \in 1 .. Len(items) :
                    /\ items[i].name = n /\ Definition(items, n) = {items[i]}
                    /\ \A j \in 1 .. Len(items) : items[j].name = n => j <= i
<1>1. Len(items) \in Nat
  BY ListFacts
<1>2. L!Gives(OfName(n), items) = {i \in 1 .. Len(items) : items[i].name = n}
  BY FoundIs DEF L!Gives
<1>3. n \in Names(items) <=> L!Gives(OfName(n), items) # {}
  BY <1>2 DEF Names
<1>4. CASE L!Gives(OfName(n), items) = {}
  BY <1>1, <1>3, <1>4, L!LatestIs, DefinitionIsLatest
<1>5. CASE L!Gives(OfName(n), items) # {}
  <2>1. PICK i \in L!Gives(OfName(n), items) :
           /\ \A j \in L!Gives(OfName(n), items) : j <= i
           /\ L!Latest(OfName(n), items) = Found(OfName(n), items[i])
    BY <1>1, <1>5, L!LatestIs
  <2>2. i \in 1 .. Len(items) /\ items[i].name = n
    BY <1>2, <2>1
  <2>3. Definition(items, n) = {items[i]}
    BY <2>1, <2>2, DefinitionIsLatest, FoundIs
  <2> QED BY <1>2, <1>3, <1>5, <2>1, <2>2, <2>3
<1> QED BY <1>4, <1>5

\* A name is that of an item if and only if it has a definition.
LEMMA NamesAreDefined ==
    ASSUME NEW items, IsList(items), NEW n
    PROVE  n \in Names(items) <=> Definition(items, n) # {}
BY DefinitionFacts

LEMMA NamesOfRange ==
    ASSUME NEW items, IsList(items)
    PROVE  Names(items) = {x.name : x \in Range(items)}
BY ListFacts DEF Names

--------------------------------------------------------------------------------
(* Merging. *)

\* No two items have the name n.
OnceOf(items, n) ==
    \A i, j \in 1 .. Len(items) : items[i].name = n /\ items[j].name = n => i = j

LEMMA OnceOfAll ==
    ASSUME NEW items
    PROVE  NamedOnce(items) <=> \A n : OnceOf(items, n)
BY DEF NamedOnce, OnceOf

\* One item: it takes the last place of its name, or a new one.
OneMerged(items, x, r) ==
    /\ IsList(r)
    /\ Range(r) \subseteq Range(items) \cup {x}
    /\ \A n : Definition(r, n) = IF n = x.name THEN {x} ELSE Definition(items, n)
    /\ \A n : OnceOf(items, n) => OnceOf(r, n)

LEMMA MergeOneFacts ==
    ASSUME NEW items, IsList(items), NEW x
    PROVE  OneMerged(items, x, MergeOne(items, x))
<1> DEFINE r == MergeOne(items, x)
           m == Len(items)
<1>1. m \in Nat /\ DOMAIN items = 1 .. m /\ Range(items) = {items[i] : i \in 1 .. m}
  BY ListFacts
<1>2. CASE x.name \in Names(items)
  <2>1. PICK k \in 1 .. m :
           /\ items[k].name = x.name
           /\ \A j \in 1 .. m : items[j].name = x.name => j <= k
    BY <1>2, DefinitionFacts
  <2>2. SelectLastInSeq(items, LAMBDA y : y.name = x.name) = k
    <3> DEFINE I == {i \in 1 .. m : items[i].name = x.name}
    <3>1. k \in I /\ \A j \in I : k >= j
      BY <2>1
    <3>2. \A i \in I : (\A j \in I : i >= j) => i = k
      BY <2>1, <3>1
    <3> HIDE DEF I
    <3>3. Max(I) = k
      BY <3>1, <3>2 DEF Max
    <3> QED BY <3>1, <3>3 DEF SelectLastInSeq, I
  <2>3. r = [items EXCEPT ![k] = x]
    BY <1>2, <2>2 DEF MergeOne
  <2>4. items \in Seq(Range(items) \cup {x})
    BY DEF IsList
  <2>5. r \in Seq(Range(items) \cup {x}) /\ Len(r) = m
    BY <2>1, <2>3, <2>4
  <2>6. r[k] = x /\ \A i \in 1 .. m : i # k => r[i] = items[i]
    BY <1>1, <2>1, <2>3
  <2>7. IsList(r)
    BY <2>5, ListOf
  <2> HIDE DEF r
  <2>8. Range(r) \subseteq Range(items) \cup {x}
    BY <1>1, <2>5, <2>6, <2>7, ListFacts
  <2>9. \A i \in 1 .. m : r[i].name = items[i].name
    BY <2>1, <2>6
  <2>10. ASSUME NEW n PROVE Definition(r, n) = IF n = x.name THEN {x} ELSE Definition(items, n)
    <3>1. Names(r) = Names(items)
      BY <2>5, <2>9 DEF Names
    <3>2. CASE n \notin Names(items)
      BY <1>2, <2>7, <3>1, <3>2, DefinitionFacts
    <3>3. CASE n \in Names(items)
      <4>1. PICK i \in 1 .. m :
               /\ items[i].name = n /\ Definition(items, n) = {items[i]}
               /\ \A j \in 1 .. m : items[j].name = n => j <= i
        BY <3>3, DefinitionFacts
      <4>2. PICK l \in 1 .. m :
               /\ r[l].name = n /\ Definition(r, n) = {r[l]}
               /\ \A j \in 1 .. m : r[j].name = n => j <= l
        BY <2>5, <2>7, <3>1, <3>3, DefinitionFacts
      <4>3. i = l
        <5>1. i <= l /\ l <= i
          BY <2>9, <4>1, <4>2
        <5> QED BY <1>1, <5>1
      <4>4. CASE n = x.name
        <5>1. i <= k /\ k <= i
          BY <2>1, <4>1, <4>4
        <5>2. i = k
          BY <1>1, <5>1
        <5> QED BY <2>6, <4>2, <4>3, <4>4, <5>2
      <4>5. CASE n # x.name
        BY <2>1, <2>6, <4>1, <4>2, <4>3, <4>5
      <4> QED BY <4>4, <4>5
    <3> QED BY <3>2, <3>3
  <2>11. \A n : OnceOf(items, n) => OnceOf(r, n)
    BY <2>5, <2>9 DEF OnceOf
  <2> QED BY <2>7, <2>8, <2>10, <2>11 DEF r, OneMerged
<1>3. CASE x.name \notin Names(items)
  <2>1. r = Append(items, x)
    BY <1>3 DEF MergeOne
  <2>2. /\ IsList(r) /\ Len(r) = m + 1 /\ Range(r) = Range(items) \cup {x}
        /\ r[m + 1] = x /\ \A i \in 1 .. m : r[i] = items[i]
    BY <2>1, AppendList
  <2> HIDE DEF r
  <2>3. \A i \in 1 .. m + 1 : i = m + 1 \/ i \in 1 .. m
    BY <1>1
  <2>4. \A i \in 1 .. m : items[i].name # x.name
    BY <1>3 DEF Names
  <2>5. ASSUME NEW n PROVE Definition(r, n) = IF n = x.name THEN {x} ELSE Definition(items, n)
    <3>1. CASE n = x.name
      <4>1. n \in Names(r)
        <5>1. m + 1 \in 1 .. Len(r)
          BY <1>1, <2>2
        <5> QED BY <2>2, <3>1, <5>1 DEF Names
      <4>2. PICK l \in 1 .. Len(r) : r[l].name = n /\ Definition(r, n) = {r[l]}
        BY <2>2, <4>1, DefinitionFacts
      <4>3. l = m + 1
        BY <2>2, <2>3, <2>4, <3>1, <4>2
      <4> QED BY <2>2, <3>1, <4>2, <4>3
    <3>2. CASE n # x.name /\ n \in Names(items)
      <4>1. PICK i \in 1 .. m :
               /\ items[i].name = n /\ Definition(items, n) = {items[i]}
               /\ \A j \in 1 .. m : items[j].name = n => j <= i
        BY <3>2, DefinitionFacts
      <4>2. i \in 1 .. Len(r) /\ r[i].name = n
        BY <1>1, <2>2, <4>1
      <4>3. PICK l \in 1 .. Len(r) :
               /\ r[l].name = n /\ Definition(r, n) = {r[l]}
               /\ \A j \in 1 .. Len(r) : r[j].name = n => j <= l
        BY <2>2, <4>2, DefinitionFacts DEF Names
      <4>4. l \in 1 .. m /\ items[l].name = n
        BY <2>2, <2>3, <3>2, <4>3
      <4>5. i <= l /\ l <= i
        BY <4>1, <4>2, <4>3, <4>4
      <4>6. i = l
        BY <1>1, <4>4, <4>5
      <4> QED BY <2>2, <3>2, <4>1, <4>3, <4>4, <4>6
    <3>3. CASE n # x.name /\ n \notin Names(items)
      <4>1. n \notin Names(r)
        BY <2>2, <2>3, <3>3 DEF Names
      <4> QED BY <2>2, <3>3, <4>1, DefinitionFacts
    <3> QED BY <3>1, <3>2, <3>3
  <2>6. ASSUME NEW n, OnceOf(items, n), NEW i \in 1 .. m + 1, NEW j \in 1 .. m + 1,
               r[i].name = n, r[j].name = n
        PROVE  i = j
    BY <2>2, <2>3, <2>4, <2>6 DEF OnceOf
  <2>7. \A n : OnceOf(items, n) => OnceOf(r, n)
    BY <2>2, <2>6 DEF OnceOf
  <2> QED BY <2>2, <2>5, <2>7 DEF r, OneMerged
<1> QED BY <1>2, <1>3

\* A list of them: the definitions of the list, where it has none those of the base.
OverriddenBy(base, s, r) ==
    /\ IsList(r)
    /\ Range(r) \subseteq Range(base) \cup Range(s)
    /\ \A n : Definition(r, n) =
               IF Definition(s, n) # {} THEN Definition(s, n) ELSE Definition(base, n)
    /\ \A n : OnceOf(base, n) => OnceOf(r, n)

MergedUpTo(p, base, s, k, r) ==
    IsList(base) /\ IsList(s) /\ k \in 0 .. Len(s) => OverriddenBy(base, SubSeq(s, 1, k), r)

M == INSTANCE FoldInduction WITH Op <- LAMBDA p, r, x : MergeOne(r, x), J <- MergedUpTo

\* The first items of a list.
LEMMA WholePrefix ==
    ASSUME NEW s, IsList(s)
    PROVE  SubSeq(s, 1, Len(s)) = s
<1>1. s \in Seq(Range(s))
  BY DEF IsList
<1> QED BY <1>1, SubSeqFull

LEMMA LongerPrefix ==
    ASSUME NEW s, IsList(s), NEW k \in 1 .. Len(s)
    PROVE  /\ IsList(SubSeq(s, 1, k - 1))
           /\ SubSeq(s, 1, k) = Append(SubSeq(s, 1, k - 1), s[k])
<1> DEFINE S == Range(s)
           before == SubSeq(s, 1, k - 1)
           x == s[k]
<1>1. s \in Seq(S) /\ Len(s) \in Nat /\ x \in S
  BY ListFacts DEF IsList
<1>2. before \in Seq(S)
  <2>1. k - 1 \in Int /\ \A i \in 1 .. k - 1 : s[i] \in S
    BY <1>1
  <2> QED BY <1>1, <2>1, SubSeqProperties
<1>3. SubSeq(s, 1, k) = before \o <<x>>
  <2>1. 1 \in 1 .. Len(s)
    BY <1>1
  <2> HIDE DEF S
  <2> QED BY <1>1, <2>1, SubSeqRecursiveSecond
<1>4. IsList(before)
  BY <1>2, ListOf
<1> HIDE DEF S, before, x
<1>5. Append(before, x) = before \o <<x>>
  BY <1>1, <1>2, AppendIsConcat
<1> QED BY <1>3, <1>4, <1>5 DEF before, x

LEMMA DefinitionAppend ==
    ASSUME NEW s, IsList(s), NEW x, NEW n
    PROVE  Definition(Append(s, x), n) = IF x.name = n THEN {x} ELSE Definition(s, n)
<1>1. s \in Seq(Range(s))
  BY DEF IsList
<1>2. L!Latest(OfName(n), Append(s, x)) =
         IF Found(OfName(n), x) # {} THEN Found(OfName(n), x) ELSE L!Latest(OfName(n), s)
  BY <1>1, L!GivenByAppend
<1> QED BY <1>2, DefinitionIsLatest, FoundIs

LEMMA NothingDefined == \A n : Definition(<<>>, n) = {}
BY L!Shortest, DefinitionIsLatest

\* mergeNodes, mergeGroups, mergeRuleSets: what a later list defines replaces what
\* was defined, everything else stays, and no name is added twice.
THEOREM Merging ==
    ASSUME NEW base, NEW overrides, IsList(base), IsList(overrides)
    PROVE  OverriddenBy(base, overrides, MergeByName(base, overrides))
<1> DEFINE m == Len(overrides)
<1>1. m \in Nat /\ DOMAIN overrides = 1 .. m
  BY ListFacts
<1>2. MergedUpTo(0, base, overrides, 0, base)
  <2>1. SubSeq(overrides, 1, 0) = <<>>
    BY SubSeqEmpty
  <2> QED BY <2>1, NothingDefined DEF MergedUpTo, OverriddenBy
<1>3. ASSUME NEW k \in 1 .. m, NEW r, MergedUpTo(0, base, overrides, k - 1, r)
      PROVE  MergedUpTo(0, base, overrides, k, MergeOne(r, overrides[k]))
  <2> DEFINE before == SubSeq(overrides, 1, k - 1)
             now == SubSeq(overrides, 1, k)
             x == overrides[k]
             q == MergeOne(r, x)
  <2>1. k - 1 \in 0 .. m /\ IsList(before) /\ now = Append(before, x)
    BY <1>1, LongerPrefix
  <2>2. OverriddenBy(base, before, r)
    BY <1>3, <2>1 DEF MergedUpTo
  <2> HIDE DEF before, now, x
  <2>3. OneMerged(r, x, q)
    BY <2>2, MergeOneFacts DEF OverriddenBy
  <2> HIDE DEF q
  <2>4. Range(now) = Range(before) \cup {x}
    BY <2>1, AppendList
  <2>5. \A n : Definition(now, n) = IF x.name = n THEN {x} ELSE Definition(before, n)
    BY <2>1, DefinitionAppend
  <2>6. OverriddenBy(base, now, q)
    BY <2>2, <2>3, <2>4, <2>5 DEF OverriddenBy, OneMerged
  <2> QED BY <2>6 DEF MergedUpTo, q, now, x
<1>4. MergedUpTo(0, base, overrides, m, M!Fold(0, base, overrides))
  BY <1>1, <1>2, <1>3, M!FoldKeeps
<1>5. M!Fold(0, base, overrides) = MergeByName(base, overrides)
  BY DEF M!Fold, MergeByName, FoldLeft, MapThenFoldSet, Max
<1>6. m \in 0 .. m
  BY <1>1
<1> QED BY <1>4, <1>5, <1>6, WholePrefix DEF MergedUpTo

\* Merging adds names and removes none.
LEMMA MergedNames ==
    ASSUME NEW base, NEW overrides, IsList(base), IsList(overrides)
    PROVE  Names(MergeByName(base, overrides)) = Names(base) \cup Names(overrides)
<1> DEFINE r == MergeByName(base, overrides)
<1>1. OverriddenBy(base, overrides, r)
  BY Merging
<1> HIDE DEF r
<1>2. \A n : n \in Names(r) <=> n \in Names(base) \/ n \in Names(overrides)
  BY <1>1, NamesAreDefined DEF OverriddenBy
<1> QED BY <1>2 DEF r

--------------------------------------------------------------------------------
(* Combining. *)

Sections == {"nodes", "groups", "ruleSets"}

Section(c, section) == c[section]

FirstRule(list, t) == FirstGiven(list, LAMBDA c : Deciding(c.rules, t))
LastEntry(list, section, n) == LastGiven(list, LAMBDA c : Definition(c[section], n))
LastPart(list, part) == LastGiven(list, LAMBDA c : c[part])

LEMMA FirstRuleIsFirst ==
    \A list, t : FirstRule(list, t) = L!First(Ruling(t), list)
<1> SUFFICES ASSUME NEW list, NEW t
             PROVE  FirstRule(list, t) = L!First(Ruling(t), list)
  OBVIOUS
<1> DEFINE asked == Ruling(t)
           I == {i \in 1 .. Len(list) : Deciding(list[i].rules, t) # {}}
           J == {i \in 1 .. Len(list) : Found(asked, list[i]) # {}}
           Extreme(K) == CHOOSE k \in K : \A j \in K : k =< j
           i == IF I # {} THEN Extreme(I) ELSE 0
           j == IF J # {} THEN Extreme(J) ELSE 0
<1>1. FirstRule(list, t) = IF i = 0 THEN {} ELSE Deciding(list[i].rules, t)
  BY DEF FirstRule, FirstGiven, SelectInSeq, Min
<1>2. \A x : Found(asked, x) = Deciding(x.rules, t)
  BY FoundIs
<1> HIDE DEF asked
<1>3. L!First(asked, list) = IF j = 0 THEN {} ELSE Found(asked, list[j])
  BY DEF L!First, L!SelectInSeq, L!Min
<1>4. I = J
  BY <1>2
<1>5. i = j
  <2> HIDE DEF I, J
  <2> QED BY <1>4
<1> HIDE DEF i, j
<1> QED BY <1>1, <1>2, <1>3, <1>5 DEF asked

LEMMA LastEntryIsLatest ==
    \A list, section, n : LastEntry(list, section, n) = L!Latest(Defining(section, n), list)
<1> SUFFICES ASSUME NEW list, NEW section, NEW n
             PROVE  LastEntry(list, section, n) = L!Latest(Defining(section, n), list)
  OBVIOUS
<1> DEFINE asked == Defining(section, n)
           I == {i \in 1 .. Len(list) : Definition(list[i][section], n) # {}}
           J == {i \in 1 .. Len(list) : Found(asked, list[i]) # {}}
           Extreme(K) == CHOOSE k \in K : \A j \in K : k >= j
           i == IF I # {} THEN Extreme(I) ELSE 0
           j == IF J # {} THEN Extreme(J) ELSE 0
<1>1. LastEntry(list, section, n) = IF i = 0 THEN {} ELSE Definition(list[i][section], n)
  BY DEF LastEntry, LastGiven, SelectLastInSeq, Max
<1>2. \A x : Found(asked, x) = Definition(x[section], n)
  BY FoundIs
<1> HIDE DEF asked
<1>3. L!Latest(asked, list) = IF j = 0 THEN {} ELSE Found(asked, list[j])
  BY DEF L!Latest, L!SelectLastInSeq, L!Max
<1>4. I = J
  BY <1>2
<1>5. i = j
  <2> HIDE DEF I, J
  <2> QED BY <1>4
<1> HIDE DEF i, j
<1> QED BY <1>1, <1>2, <1>3, <1>5 DEF asked

LEMMA LastPartIsLatest ==
    \A list, part : LastPart(list, part) = L!Latest(Giving(part), list)
<1> SUFFICES ASSUME NEW list, NEW part
             PROVE  LastPart(list, part) = L!Latest(Giving(part), list)
  OBVIOUS
<1> DEFINE asked == Giving(part)
           I == {i \in 1 .. Len(list) : list[i][part] # {}}
           J == {i \in 1 .. Len(list) : Found(asked, list[i]) # {}}
           Extreme(K) == CHOOSE k \in K : \A j \in K : k >= j
           i == IF I # {} THEN Extreme(I) ELSE 0
           j == IF J # {} THEN Extreme(J) ELSE 0
<1>1. LastPart(list, part) = IF i = 0 THEN {} ELSE list[i][part]
  BY DEF LastPart, LastGiven, SelectLastInSeq, Max
<1>2. \A x : Found(asked, x) = x[part]
  BY FoundIs
<1> HIDE DEF asked
<1>3. L!Latest(asked, list) = IF j = 0 THEN {} ELSE Found(asked, list[j])
  BY DEF L!Latest, L!SelectLastInSeq, L!Max
<1>4. I = J
  BY <1>2
<1>5. i = j
  <2> HIDE DEF I, J
  <2> QED BY <1>4
<1> HIDE DEF i, j
<1> QED BY <1>1, <1>2, <1>3, <1>5 DEF asked

\* One more patch, last.
LEMMA OneMoreRule ==
    ASSUME NEW T, NEW list \in Seq(T), NEW c, NEW t
    PROVE  FirstRule(Append(list, c), t) =
              IF FirstRule(list, t) # {} THEN FirstRule(list, t) ELSE Deciding(c.rules, t)
<1> DEFINE more == Append(list, c)
<1>1. L!First(Ruling(t), more) =
         IF L!First(Ruling(t), list) # {} THEN L!First(Ruling(t), list) ELSE Found(Ruling(t), c)
  BY L!GivenByAppend
<1> QED BY <1>1, FirstRuleIsFirst, FoundIs

LEMMA OneMoreEntry ==
    ASSUME NEW T, NEW list \in Seq(T), NEW c, NEW section, NEW n
    PROVE  LastEntry(Append(list, c), section, n) =
              IF Definition(Section(c, section), n) # {} THEN Definition(Section(c, section), n)
              ELSE LastEntry(list, section, n)
<1> DEFINE more == Append(list, c)
           p == Defining(section, n)
<1>1. Found(p, c) = Definition(Section(c, section), n)
  BY FoundIs DEF Section
<1> HIDE DEF p
<1>2. L!Latest(p, more) = IF Found(p, c) # {} THEN Found(p, c) ELSE L!Latest(p, list)
  BY L!GivenByAppend
<1> QED BY <1>1, <1>2, LastEntryIsLatest DEF p

LEMMA OneMorePart ==
    ASSUME NEW T, NEW list \in Seq(T), NEW c, NEW part
    PROVE  LastPart(Append(list, c), part) = IF c[part] # {} THEN c[part] ELSE LastPart(list, part)
<1> DEFINE more == Append(list, c)
<1>1. L!Latest(Giving(part), more) =
         IF Found(Giving(part), c) # {} THEN Found(Giving(part), c) ELSE L!Latest(Giving(part), list)
  BY L!GivenByAppend
<1> QED BY <1>1, LastPartIsLatest, FoundIs

\* Two lists of patches, one after the other.
LEMMA MorePatches ==
    ASSUME NEW T, NEW list \in Seq(T), NEW more \in Seq(T)
    PROVE  /\ \A t : FirstRule(list \o more, t) =
                 IF FirstRule(list, t) # {} THEN FirstRule(list, t) ELSE FirstRule(more, t)
           /\ \A section, n : LastEntry(list \o more, section, n) =
                 IF LastEntry(more, section, n) # {} THEN LastEntry(more, section, n)
                 ELSE LastEntry(list, section, n)
           /\ \A part : LastPart(list \o more, part) =
                 IF LastPart(more, part) # {} THEN LastPart(more, part) ELSE LastPart(list, part)
<1>1. ASSUME NEW t
      PROVE  L!First(Ruling(t), list \o more) =
                IF L!First(Ruling(t), list) # {} THEN L!First(Ruling(t), list)
                ELSE L!First(Ruling(t), more)
  BY L!FirstConcat
<1>2. ASSUME NEW p
      PROVE  L!Latest(p, list \o more) =
                IF L!Latest(p, more) # {} THEN L!Latest(p, more) ELSE L!Latest(p, list)
  BY L!LatestConcat
<1>3. ASSUME NEW part
      PROVE  L!Latest(Giving(part), list \o more) =
                IF L!Latest(Giving(part), more) # {} THEN L!Latest(Giving(part), more)
                ELSE L!Latest(Giving(part), list)
  BY L!LatestConcat
<1> QED BY <1>1, <1>2, <1>3, FirstRuleIsFirst, LastEntryIsLatest, LastPartIsLatest

LEMMA NoPatches ==
    /\ \A t : FirstRule(<<>>, t) = {}
    /\ \A section, n : LastEntry(<<>>, section, n) = {}
    /\ \A part : LastPart(<<>>, part) = {}
BY L!Shortest, FirstRuleIsFirst, LastEntryIsLatest, LastPartIsLatest

\* p says what the patches of the list say together: of the rules for some traffic the
\* first, of the definitions of a name and of the parts that are given the last.
Amounts(p, list) ==
    /\ IsPatch(p)
    /\ \A t : Deciding(p.rules, t) = FirstRule(list, t)
    /\ \A section \in Sections : \A n : Definition(p[section], n) = LastEntry(list, section, n)
    /\ \A part \in {"final", "dns", "inbounds"} : p[part] = LastPart(list, part)

\* Rules that follow others decide where these do not.
LEMMA DecidingConcat ==
    ASSUME NEW a, NEW b, IsList(a), IsList(b), NEW t
    PROVE  Deciding(a \o b, t) = IF Deciding(a, t) # {} THEN Deciding(a, t) ELSE Deciding(b, t)
<1> DEFINE T == Range(a) \cup Range(b)
<1>1. a \in Seq(T) /\ b \in Seq(T)
  BY DEF IsList
<1> HIDE DEF T
<1>2. L!First(Matching(t), a \o b) =
         IF L!First(Matching(t), a) # {} THEN L!First(Matching(t), a) ELSE L!First(Matching(t), b)
  BY <1>1, L!FirstConcat
<1> QED BY <1>2, DecidingIsFirst

LEMMA NothingDecides == \A t : Deciding(<<>>, t) = {}
BY L!Shortest, DecidingIsFirst

\* The patch to begin with says nothing.
THEOREM NothingToCombine == Amounts(EmptyPatch, <<>>)
<1>1. IsList(<<>>)
  BY DEF IsList
<1>2. IsPatch(EmptyPatch)
  BY <1>1 DEF IsPatch, EmptyPatch, AtMostOne
<1>3. \A section \in Sections : EmptyPatch[section] = <<>>
  BY DEF EmptyPatch, Sections
<1>4. /\ EmptyPatch.rules = <<>>
      /\ \A part \in {"final", "dns", "inbounds"} : EmptyPatch[part] = {}
  BY DEF EmptyPatch
<1> QED BY <1>2, <1>3, <1>4, NoPatches, NothingDefined, NothingDecides DEF Amounts

\* The parts of a combination.
LEMMA CombineParts ==
    ASSUME NEW p, NEW c, IsPatch(p)
    PROVE  LET q == Combine(p, c)
           IN  /\ DOMAIN q = DOMAIN p
               /\ q.route = IF c.route THEN TRUE ELSE p.route
               /\ q.nodes = MergeByName(p.nodes, c.nodes)
               /\ q.groups = MergeByName(p.groups, c.groups)
               /\ q.ruleSets = IF c.route THEN MergeByName(p.ruleSets, c.ruleSets) ELSE p.ruleSets
               /\ q.rules = IF c.route THEN p.rules \o c.rules ELSE p.rules
               /\ q.final = IF c.route /\ c.final # {} THEN c.final ELSE p.final
               /\ q.dns = IF c.dns = {} THEN p.dns ELSE c.dns
               /\ q.inbounds = IF c.inbounds = {} THEN p.inbounds ELSE c.inbounds
<1>1. {"inbounds", "dns", "nodes", "groups", "route", "rules", "ruleSets", "final"} \subseteq DOMAIN p
  BY DEF IsPatch, EmptyPatch
<1>2. CASE c.route
  BY <1>1, <1>2 DEF Combine, Override, Listening
<1>3. CASE ~c.route
  BY <1>1, <1>3 DEF Combine, Override, Listening
<1> QED BY <1>2, <1>3

\* combineDocumentPatch: a combination with one more patch says what the patches with
\* that one say.
THEOREM Combining ==
    ASSUME NEW T, NEW list \in Seq(T), NEW p, Amounts(p, list), NEW c, IsPatch(c)
    PROVE  Amounts(Combine(p, c), Append(list, c))
<1> DEFINE q == Combine(p, c)
           more == Append(list, c)
<1>1. IsPatch(p)
  BY DEF Amounts
<1>2. /\ DOMAIN q = DOMAIN p
      /\ q.route = IF c.route THEN TRUE ELSE p.route
      /\ q.nodes = MergeByName(p.nodes, c.nodes)
      /\ q.groups = MergeByName(p.groups, c.groups)
      /\ q.ruleSets = IF c.route THEN MergeByName(p.ruleSets, c.ruleSets) ELSE p.ruleSets
      /\ q.rules = IF c.route THEN p.rules \o c.rules ELSE p.rules
      /\ q.final = IF c.route /\ c.final # {} THEN c.final ELSE p.final
      /\ q.dns = IF c.dns = {} THEN p.dns ELSE c.dns
      /\ q.inbounds = IF c.inbounds = {} THEN p.inbounds ELSE c.inbounds
  BY <1>1, CombineParts
<1>3. /\ IsList(p.nodes) /\ IsList(c.nodes) /\ IsList(p.groups) /\ IsList(c.groups)
      /\ IsList(p.ruleSets) /\ IsList(c.ruleSets) /\ IsList(p.rules) /\ IsList(c.rules)
      /\ ~c.route => c.rules = <<>> /\ c.ruleSets = <<>> /\ c.final = {}
  BY <1>1 DEF IsPatch
<1> HIDE DEF q, more
<1>4. /\ OverriddenBy(p.nodes, c.nodes, q.nodes)
      /\ OverriddenBy(p.groups, c.groups, q.groups)
      /\ c.route => OverriddenBy(p.ruleSets, c.ruleSets, q.ruleSets)
  BY <1>2, <1>3, Merging
<1>5. IsPatch(q)
  <2>1. IsList(q.nodes) /\ IsList(q.groups) /\ IsList(q.ruleSets)
    BY <1>2, <1>3, <1>4 DEF OverriddenBy
  <2>2. IsList(q.rules)
    BY <1>2, <1>3, ConcatList
  <2>3. AtMostOne(q.final) /\ AtMostOne(q.dns)
    BY <1>1, <1>2 DEF IsPatch
  <2>4. ~q.route => q.rules = <<>> /\ q.ruleSets = <<>> /\ q.final = {}
    BY <1>1, <1>2 DEF IsPatch
  <2> QED BY <1>1, <1>2, <2>1, <2>2, <2>3, <2>4 DEF IsPatch
<1>6. ASSUME NEW t PROVE Deciding(q.rules, t) = FirstRule(more, t)
  <2>1. FirstRule(more, t) =
           IF Deciding(p.rules, t) # {} THEN Deciding(p.rules, t) ELSE Deciding(c.rules, t)
    BY OneMoreRule DEF Amounts, more
  <2>2. CASE c.route
    BY <1>2, <1>3, <2>1, <2>2, DecidingConcat
  <2>3. CASE ~c.route
    BY <1>2, <1>3, <2>1, <2>3, NothingDecides
  <2> QED BY <2>2, <2>3
<1>7. ASSUME NEW section \in Sections, NEW n
      PROVE  Definition(q[section], n) = LastEntry(more, section, n)
  <2>1. LastEntry(more, section, n) =
           IF Definition(c[section], n) # {} THEN Definition(c[section], n)
           ELSE Definition(p[section], n)
    <3>1. LastEntry(more, section, n) =
             IF Definition(c[section], n) # {} THEN Definition(c[section], n)
             ELSE LastEntry(list, section, n)
      <4>1. LastEntry(more, section, n) =
               IF Definition(Section(c, section), n) # {} THEN Definition(Section(c, section), n)
               ELSE LastEntry(list, section, n)
        BY OneMoreEntry DEF more
      <4> QED BY <4>1 DEF Section
    <3>2. Definition(p[section], n) = LastEntry(list, section, n)
      BY DEF Amounts
    <3> QED BY <3>1, <3>2
  <2>2. CASE section # "ruleSets" \/ c.route
    <3>1. OverriddenBy(p[section], c[section], q[section])
      BY <1>4, <2>2 DEF Sections
    <3> QED BY <2>1, <3>1 DEF OverriddenBy
  <2>3. CASE section = "ruleSets" /\ ~c.route
    BY <1>2, <1>3, <2>1, <2>3, NothingDefined
  <2> QED BY <2>2, <2>3
<1>8. ASSUME NEW part \in {"final", "dns", "inbounds"}
      PROVE  q[part] = LastPart(more, part)
  <2>1. LastPart(more, part) = IF c[part] # {} THEN c[part] ELSE p[part]
    BY OneMorePart DEF Amounts, more
  <2> QED BY <1>2, <1>3, <2>1
<1> QED BY <1>5, <1>6, <1>7, <1>8 DEF Amounts, q, more

--------------------------------------------------------------------------------
(* Applying. *)

\* A name that is not {} of the first, else of the second.
Else(last, given) == IF last = {} THEN given ELSE last

\* d is what the document read has become after the patches of redefining, where rules
\* are consulted in the order of consulted: no definition was lost, and nothing dangles
\* that did not before.
Describes(d, read, redefining, consulted) ==
    /\ IsDocument(d)
    /\ \A t : Deciding(d.rules, t) = FirstRule(consulted, t)
    /\ \A section \in Sections :
          /\ \A n : Definition(d[section], n) =
                       Else(LastEntry(redefining, section, n), Definition(read[section], n))
          /\ \A n : OnceOf(read[section], n) => OnceOf(d[section], n)
    /\ {d.final} = Else(LastPart(redefining, "final"), {read.final})
    /\ {d.dns} = Else(LastPart(redefining, "dns"), {read.dns})
    /\ d.inbounds = Else(LastPart(redefining, "inbounds"), read.inbounds)
    /\ DanglingPolicies(d) \subseteq DanglingPolicies(read)
    /\ DanglingSets(d) \subseteq DanglingSets(read)

\* The parts of the document that a patch leads to.
LEMMA AppliedParts ==
    ASSUME NEW d, IsDocument(d), NEW p, IsPatch(p)
    PROVE  LET a == Applied(d, p)
           IN  /\ DOMAIN a = DOMAIN d
               /\ a.nodes = MergeByName(d.nodes, p.nodes)
               /\ a.groups = MergeByName(d.groups, p.groups)
               /\ a.ruleSets = IF p.route THEN MergeByName(d.ruleSets, p.ruleSets) ELSE d.ruleSets
               /\ a.rules = IF p.route THEN p.rules \o d.rules ELSE d.rules
               /\ {a.final} = Else(p.final, {d.final})
               /\ {a.dns} = Else(p.dns, {d.dns})
               /\ a.inbounds = Else(p.inbounds, d.inbounds)
               /\ /\ Candidate(d, p).nodes = a.nodes /\ Candidate(d, p).groups = a.groups
                  /\ Candidate(d, p).ruleSets = d.ruleSets
<1>1. {"nodes", "groups", "ruleSets", "rules", "final", "dns", "resolver", "inbounds"}
         \subseteq DOMAIN d
  BY DEF IsDocument
<1>2. /\ p.final # {} => p.final = {The(p.final)}
      /\ p.dns # {} => p.dns = {The(p.dns)}
  BY DEF IsPatch, AtMostOne, The
<1>3. ~p.route => p.final = {}
  BY DEF IsPatch
<1> DEFINE k == Candidate(d, p)
<1>4. /\ DOMAIN k = DOMAIN d
      /\ k.nodes = MergeByName(d.nodes, p.nodes) /\ k.groups = MergeByName(d.groups, p.groups)
      /\ k.ruleSets = d.ruleSets /\ k.rules = d.rules /\ k.final = d.final
      /\ k.inbounds = d.inbounds
      /\ k.dns = IF p.dns = {} THEN d.dns ELSE The(p.dns)
  BY <1>1 DEF Candidate
<1> HIDE DEF k
<1> DEFINE a == Applied(d, p)
<1>5. /\ DOMAIN a = DOMAIN k /\ a.nodes = k.nodes /\ a.groups = k.groups /\ a.dns = k.dns
      /\ a.ruleSets = IF p.route THEN MergeByName(k.ruleSets, p.ruleSets) ELSE k.ruleSets
      /\ a.rules = IF p.route THEN p.rules \o k.rules ELSE k.rules
      /\ a.final = IF p.route /\ p.final # {} THEN The(p.final) ELSE k.final
      /\ a.inbounds = IF p.inbounds = {} THEN k.inbounds ELSE p.inbounds
  BY <1>1, <1>4 DEF Applied, Listening, k
<1> HIDE DEF a
<1>6. {a.final} = Else(p.final, {d.final}) /\ {a.dns} = Else(p.dns, {d.dns})
  BY <1>2, <1>3, <1>4, <1>5 DEF Else
<1> QED BY <1>4, <1>5, <1>6 DEF Else, a, k

\* Nothing that the patch brings dangles: it was validated with what it adds.
LEMMA NothingNewDangles ==
    ASSUME NEW d, IsDocument(d), NEW p, IsPatch(p), Applicable(d, p)
    PROVE  /\ DanglingPolicies(Applied(d, p)) \subseteq DanglingPolicies(d)
           /\ DanglingSets(Applied(d, p)) \subseteq DanglingSets(d)
<1> DEFINE a == Applied(d, p)
           k == Candidate(d, p)
<1>1. /\ a.nodes = MergeByName(d.nodes, p.nodes)
      /\ a.groups = MergeByName(d.groups, p.groups)
      /\ a.ruleSets = IF p.route THEN MergeByName(d.ruleSets, p.ruleSets) ELSE d.ruleSets
      /\ a.rules = IF p.route THEN p.rules \o d.rules ELSE d.rules
      /\ {a.final} = Else(p.final, {d.final})
      /\ k.nodes = a.nodes /\ k.groups = a.groups /\ k.ruleSets = d.ruleSets
  BY AppliedParts
<1>2. /\ IsList(d.nodes) /\ IsList(d.groups) /\ IsList(d.ruleSets) /\ IsList(d.rules)
      /\ IsList(p.nodes) /\ IsList(p.groups) /\ IsList(p.ruleSets) /\ IsList(p.rules)
      /\ ~p.route => p.final = {}
  BY DEF IsDocument, IsPatch
<1>3. p.route => ValidRoute(k, p)
  BY DEF Applicable
<1> HIDE DEF a, k
<1>4. /\ Names(a.nodes) = Names(d.nodes) \cup Names(p.nodes)
      /\ Names(a.groups) = Names(d.groups) \cup Names(p.groups)
  BY <1>1, <1>2, MergedNames
<1>5. Policies(k) = Policies(a) /\ Policies(d) \subseteq Policies(a)
  BY <1>1, <1>4 DEF Policies
<1>6. CASE ~p.route
  <2>1. a.ruleSets = d.ruleSets /\ a.rules = d.rules /\ a.final = d.final
    BY <1>1, <1>2, <1>6 DEF Else
  <2> QED BY <1>5, <2>1 DEF DanglingPolicies, DanglingSets, a
<1>7. CASE p.route
  <2>1. /\ Range(a.rules) = Range(p.rules) \cup Range(d.rules)
        /\ Range(a.ruleSets) \subseteq Range(d.ruleSets) \cup Range(p.ruleSets)
        /\ Names(a.ruleSets) = Names(d.ruleSets) \cup Names(p.ruleSets)
    <3>1. Range(p.rules \o d.rules) = Range(p.rules) \cup Range(d.rules)
      BY <1>2, ConcatList
    <3>2. OverriddenBy(d.ruleSets, p.ruleSets, a.ruleSets)
      BY <1>1, <1>2, <1>7, Merging
    <3>3. Names(a.ruleSets) = Names(d.ruleSets) \cup Names(p.ruleSets)
      BY <1>1, <1>2, <1>7, MergedNames
    <3> QED BY <1>1, <1>7, <3>1, <3>2, <3>3 DEF OverriddenBy
  <2>2. /\ \A set \in Range(p.ruleSets) :
              /\ set.detour # "" => set.detour \in Policies(a)
              /\ Range(set.refs) \subseteq Names(a.ruleSets)
        /\ \A rule \in Range(p.rules) :
              /\ Range(rule.refs) \subseteq Names(a.ruleSets)
              /\ rule.action = "route" => rule.target \in Policies(a)
        /\ p.final \subseteq Policies(a)
    <3>1. ValidRoute(k, p)
      BY <1>3, <1>7
    <3>2. /\ {p.ruleSets[i] : i \in 1 .. Len(p.ruleSets)} = Range(p.ruleSets)
          /\ {p.rules[i] : i \in 1 .. Len(p.rules)} = Range(p.rules)
      BY <1>2, ListFacts
    <3> QED BY <1>1, <1>5, <2>1, <3>1, <3>2 DEF ValidRoute
  <2>3. a.final \in Policies(a) \/ a.final = d.final
    <3>1. CASE p.final = {}
      BY <1>1, <3>1 DEF Else
    <3>2. CASE p.final # {}
      <4>1. a.final \in p.final
        BY <1>1, <3>2 DEF Else
      <4> QED BY <2>2, <4>1
    <3> QED BY <3>1, <3>2
  <2>4. DanglingPolicies(a) \subseteq DanglingPolicies(d)
    <3> SUFFICES ASSUME NEW x \in DanglingPolicies(a) PROVE x \in DanglingPolicies(d)
      OBVIOUS
    <3>1. x \notin Policies(a) /\ x \notin Policies(d)
      BY <1>5 DEF DanglingPolicies
    <3>2. CASE \E rule \in Range(a.rules) : rule.action = "route" /\ x = rule.target
      BY <2>1, <2>2, <3>1, <3>2 DEF DanglingPolicies
    <3>3. CASE x = a.final
      BY <2>3, <3>1, <3>3 DEF DanglingPolicies
    <3>4. CASE \E set \in Range(a.ruleSets) : x = set.detour /\ x # ""
      BY <2>1, <2>2, <3>1, <3>4 DEF DanglingPolicies
    <3> QED BY <3>2, <3>3, <3>4 DEF DanglingPolicies
  <2>5. DanglingSets(a) \subseteq DanglingSets(d)
    <3> SUFFICES ASSUME NEW x \in DanglingSets(a) PROVE x \in DanglingSets(d)
      OBVIOUS
    <3>1. x \notin Names(a.ruleSets) /\ x \notin Names(d.ruleSets)
      BY <2>1 DEF DanglingSets
    <3>2. CASE \E rule \in Range(a.rules) : x \in Range(rule.refs)
      BY <2>1, <2>2, <3>1, <3>2 DEF DanglingSets
    <3>3. CASE \E set \in Range(a.ruleSets) : x \in Range(set.refs)
      BY <2>1, <2>2, <3>1, <3>3 DEF DanglingSets
    <3> QED BY <3>2, <3>3 DEF DanglingSets
  <2> QED BY <2>4, <2>5 DEF a
<1> QED BY <1>6, <1>7

\* A document as it was read.
THEOREM NothingApplied ==
    ASSUME NEW d, IsDocument(d)
    PROVE  Describes(d, d, <<>>, <<d>>)
<1>1. \A t : FirstRule(<<d>>, t) = Deciding(d.rules, t)
  BY L!Shortest, FirstRuleIsFirst, FoundIs
<1> QED BY <1>1, NoPatches DEF Describes, Else

\* ApplyPatch: after the patches that were combined as p the document says what those
\* before them and those after them say, rules in the one order and definitions in the
\* other.
THEOREM Applying ==
    ASSUME NEW T, NEW redefining \in Seq(T), NEW consulted \in Seq(T), NEW list \in Seq(T),
           NEW d, NEW read, Describes(d, read, redefining, consulted),
           NEW p, Amounts(p, list), Applicable(d, p)
    PROVE  Describes(Applied(d, p), read, redefining \o list, list \o consulted)
<1> DEFINE a == Applied(d, p)
           later == redefining \o list
           first == list \o consulted
<1>1. IsDocument(d) /\ IsPatch(p)
  BY DEF Describes, Amounts
<1>2. /\ DOMAIN a = DOMAIN d
      /\ a.nodes = MergeByName(d.nodes, p.nodes)
      /\ a.groups = MergeByName(d.groups, p.groups)
      /\ a.ruleSets = IF p.route THEN MergeByName(d.ruleSets, p.ruleSets) ELSE d.ruleSets
      /\ a.rules = IF p.route THEN p.rules \o d.rules ELSE d.rules
      /\ {a.final} = Else(p.final, {d.final})
      /\ {a.dns} = Else(p.dns, {d.dns})
      /\ a.inbounds = Else(p.inbounds, d.inbounds)
  BY <1>1, AppliedParts
<1>3. DanglingPolicies(a) \subseteq DanglingPolicies(d) /\ DanglingSets(a) \subseteq DanglingSets(d)
  BY <1>1, NothingNewDangles
<1>4. /\ IsList(d.nodes) /\ IsList(d.groups) /\ IsList(d.ruleSets) /\ IsList(d.rules)
      /\ IsList(p.nodes) /\ IsList(p.groups) /\ IsList(p.ruleSets) /\ IsList(p.rules)
      /\ ~p.route => p.rules = <<>> /\ p.ruleSets = <<>> /\ p.final = {}
  BY <1>1 DEF IsDocument, IsPatch
<1> HIDE DEF a
<1>5. /\ OverriddenBy(d.nodes, p.nodes, a.nodes)
      /\ OverriddenBy(d.groups, p.groups, a.groups)
      /\ p.route => OverriddenBy(d.ruleSets, p.ruleSets, a.ruleSets)
  BY <1>2, <1>4, Merging
<1>6. IsDocument(a)
  <2>1. IsList(a.nodes) /\ IsList(a.groups) /\ IsList(a.ruleSets)
    BY <1>2, <1>4, <1>5 DEF OverriddenBy
  <2>2. IsList(a.rules)
    BY <1>2, <1>4, ConcatList
  <2> QED BY <1>1, <1>2, <2>1, <2>2 DEF IsDocument
<1>7. ASSUME NEW t PROVE Deciding(a.rules, t) = FirstRule(first, t)
  <2>1. FirstRule(first, t) =
           IF FirstRule(list, t) # {} THEN FirstRule(list, t) ELSE FirstRule(consulted, t)
    BY MorePatches
  <2>2. FirstRule(list, t) = Deciding(p.rules, t) /\ FirstRule(consulted, t) = Deciding(d.rules, t)
    BY DEF Amounts, Describes
  <2>3. CASE p.route
    BY <1>2, <1>4, <2>1, <2>2, <2>3, DecidingConcat
  <2>4. CASE ~p.route
    BY <1>2, <1>4, <2>1, <2>2, <2>4, NothingDecides
  <2> HIDE DEF first
  <2> QED BY <2>3, <2>4
<1>8. ASSUME NEW section \in Sections
      PROVE  /\ \A n : Definition(a[section], n) =
                          Else(LastEntry(later, section, n), Definition(read[section], n))
             /\ \A n : OnceOf(read[section], n) => OnceOf(a[section], n)
  <2>1. ASSUME NEW n
        PROVE  LastEntry(later, section, n) =
                  IF Definition(p[section], n) # {} THEN Definition(p[section], n)
                  ELSE LastEntry(redefining, section, n)
    <3>1. LastEntry(later, section, n) =
             IF LastEntry(list, section, n) # {} THEN LastEntry(list, section, n)
             ELSE LastEntry(redefining, section, n)
      BY MorePatches
    <3>2. Definition(p[section], n) = LastEntry(list, section, n)
      BY DEF Amounts
    <3> HIDE DEF later
    <3> QED BY <3>1, <3>2
  <2>2. ASSUME NEW n
        PROVE  Definition(a[section], n) = Else(Definition(p[section], n), Definition(d[section], n))
    <3>1. CASE section # "ruleSets" \/ p.route
      <4>1. OverriddenBy(d[section], p[section], a[section])
        BY <1>5, <3>1 DEF Sections
      <4> QED BY <4>1 DEF OverriddenBy, Else
    <3>2. CASE section = "ruleSets" /\ ~p.route
      BY <1>2, <1>4, <3>2, NothingDefined DEF Else
    <3> QED BY <3>1, <3>2
  <2>3. ASSUME NEW n
        PROVE  Definition(d[section], n) =
                  Else(LastEntry(redefining, section, n), Definition(read[section], n))
    BY DEF Describes
  <2>4. ASSUME NEW n
        PROVE  Definition(a[section], n) =
                  Else(LastEntry(later, section, n), Definition(read[section], n))
    <3> HIDE DEF later
    <3> QED BY <2>1, <2>2, <2>3 DEF Else
  <2>5. \A n : OnceOf(d[section], n) => OnceOf(a[section], n)
    <3>1. CASE section # "ruleSets" \/ p.route
      <4>1. OverriddenBy(d[section], p[section], a[section])
        BY <1>5, <3>1 DEF Sections
      <4> QED BY <4>1 DEF OverriddenBy
    <3>2. CASE section = "ruleSets" /\ ~p.route
      BY <1>2, <3>2
    <3> QED BY <3>1, <3>2
  <2>6. \A n : OnceOf(read[section], n) => OnceOf(d[section], n)
    BY DEF Describes
  <2> QED BY <2>4, <2>5, <2>6
<1>9. \A n : LastPart(later, n) = IF LastPart(list, n) # {} THEN LastPart(list, n)
                                  ELSE LastPart(redefining, n)
  BY MorePatches
<1>10. /\ p.final = LastPart(list, "final") /\ p.dns = LastPart(list, "dns")
       /\ p.inbounds = LastPart(list, "inbounds")
  BY DEF Amounts
<1>11. /\ {a.final} = Else(LastPart(later, "final"), {read.final})
       /\ {a.dns} = Else(LastPart(later, "dns"), {read.dns})
       /\ a.inbounds = Else(LastPart(later, "inbounds"), read.inbounds)
  BY <1>2, <1>9, <1>10 DEF Else, Describes
<1>12. /\ DanglingPolicies(a) \subseteq DanglingPolicies(read)
       /\ DanglingSets(a) \subseteq DanglingSets(read)
  BY <1>3 DEF Describes
<1> QED BY <1>6, <1>7, <1>8, <1>11, <1>12 DEF Describes, a
================================================================================
