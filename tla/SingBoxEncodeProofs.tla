--------------------------- MODULE SingBoxEncodeProofs ---------------------------
(***************************************************************************)
(* Theorems about Encode as SingBoxEncode models it, for all documents.    *)
(* The tags come first; then the loop invariant EncodeInv, which says what *)
(* outbounds, rules and warnings the items so far have left behind; then   *)
(* what the last action makes of it, and the properties one by one.        *)
(***************************************************************************)
EXTENDS SingBoxEncode, FiniteSetTheorems, TLAPS

--------------------------------------------------------------------------------
(* Tags are distinct. *)

\* The steps that have nothing to do with tags leave them as they are.
LEMMA QuietStep ==
    ASSUME \/ CheckInbounds \/ KnownName \/ Collide \/ AllNamed \/ ConvertNode
           \/ AllNodes \/ ConvertGroup \/ AllGroups \/ ConvertRule \/ AllRules
           \/ Finished \/ UNCHANGED vars
    PROVE  UNCHANGED tags
  BY DEF CheckInbounds, KnownName, Collide, AllNamed, ConvertNode, AllNodes,
         ConvertGroup, AllGroups, ConvertRule, AllRules, Finished, vars

\* What a new name brings: one more tag, which was in nobody's use.
LEMMA AllocatedTag ==
    ASSUME Allocate
    PROVE  /\ DOMAIN tags' = DOMAIN tags \cup {NameAt(next + 1)}
           /\ NameAt(next + 1) \notin DOMAIN tags
           /\ tags'[NameAt(next + 1)] = Candidate
           /\ Candidate \notin Used
           /\ \A n \in DOMAIN tags : tags'[n] = tags[n]
  BY DEF Allocate

LEMMA AllocatedTagsDistinct ==
    ASSUME TagsDistinct, Allocate
    PROVE  TagsDistinct'
<1>1. \A n \in DOMAIN tags : tags'[n] \in Used /\ tags'[n] \notin Reserved
  BY AllocatedTag DEF TagsDistinct, Used
<1>2. Candidate \notin Reserved
  BY AllocatedTag DEF Used
<1> QED BY <1>1, <1>2, AllocatedTag DEF TagsDistinct

\* Every name gets a tag of its own, and none that the encoder uses itself
\* (buildTags): the generated outbounds are never shadowed.
THEOREM TagsAreDistinct == Spec => []TagsDistinct
<1>1. Init => TagsDistinct
  BY DEF Init, Idle, TagsDistinct
<1>2. ASSUME TagsDistinct, [Next]_vars PROVE TagsDistinct'
  <2>1. CASE Allocate
    BY <1>2, <2>1, AllocatedTagsDistinct
  <2>2. CASE ~Allocate
    <3>1. UNCHANGED tags
      BY <1>2, <2>2, QuietStep DEF Next
    <3> QED BY <1>2, <3>1 DEF TagsDistinct
  <2> QED BY <2>1, <2>2
<1> QED BY <1>1, <1>2, PTL DEF Spec

--------------------------------------------------------------------------------
(* The search for a free tag ends. *)

\* What spelling guarantees: an index changes the tag, and two indices change
\* it differently ("%s-%d").
IndicesTell ==
    \A n \in Tags : \A i, j \in Nat \ {0, 1} :
        /\ Numbered(Base(n), i) # Base(n)
        /\ Numbered(Base(n), i) = Numbered(Base(n), j) => i = j

\* The candidate of attempt i.
Tried(i) ==
    LET base == Base(NameAt(next + 1))
    IN  IF i = 1 THEN base ELSE Numbered(base, i)

\* While a search goes on, all earlier candidates are tags in use.
Searching ==
    /\ pc = "tags" /\ next + 1 \in Named
    /\ NameAt(next + 1) \notin DOMAIN tags
    /\ \A i \in 1 .. attempt - 1 : Tried(i) \in Used

SearchInv ==
    /\ Encodable(doc) /\ Nameable(doc) /\ next \in Nat /\ attempt \in Nat \ {0}
    /\ IsFiniteSet(Used)
    /\ attempt > 1 => Searching

\* Before the first name, only the encoder's own tags are in use.
LEMMA InitSearch == Init => SearchInv
<1> SUFFICES ASSUME Init PROVE SearchInv
  OBVIOUS
<1>1. Used = ((({} \cup {"direct"}) \cup {"proxy"}) \cup {"reject"})
  BY DEF Init, Idle, Used, Reserved
<1>2. IsFiniteSet(({} \cup {"direct"}) \cup {"proxy"})
  BY FS_EmptySet, FS_AddElement
<1>3. IsFiniteSet(Used)
  BY <1>1, <1>2, FS_AddElement
<1>4. Encodable(doc) /\ Nameable(doc) /\ next = 0 /\ attempt = 1
  BY DocumentAssumption DEF Init, Idle
<1> QED BY <1>3, <1>4 DEF SearchInv

\* Names are tags, so what spelling guarantees applies to them.
LEMMA NamesAreTags ==
    ASSUME Encodable(doc), Nameable(doc), NEW i \in Named PROVE NameAt(i) \in Tags
<1>1. /\ doc.nodes \in Seq(Range(doc.nodes)) /\ doc.groups \in Seq(Range(doc.groups))
      /\ Len(doc.nodes) \in Nat /\ Len(doc.groups) \in Nat
  BY DEF Encodable, IsList
<1>2. CASE i <= Len(doc.nodes)
  <2>1. i \in 1 .. Len(doc.nodes)
    BY <1>1, <1>2 DEF Named
  <2>2. doc.nodes[i] \in Range(doc.nodes)
    BY <1>1, <2>1
  <2> QED BY <1>2, <2>2 DEF NameAt, Nameable
<1>3. CASE ~(i <= Len(doc.nodes))
  <2> DEFINE m == Len(doc.nodes)
             n == Len(doc.groups)
  <2>1. m \in Nat /\ n \in Nat /\ i \in 1 .. m + n /\ ~(i <= m)
    BY <1>1, <1>3 DEF Named
  <2> HIDE DEF m, n
  <2>2. i - m \in 1 .. n
    BY <2>1
  <2>3. i - Len(doc.nodes) \in 1 .. Len(doc.groups)
    BY <2>2 DEF m, n
  <2>4. doc.groups[i - Len(doc.nodes)] \in Range(doc.groups)
    BY <1>1, <2>3
  <2> QED BY <1>3, <2>4 DEF NameAt, Nameable
<1> QED BY <1>2, <1>3

\* A collision adds one tried candidate; a new tag ends its search.
LEMMA StepSearch == SearchInv /\ [Next]_vars => SearchInv'
<1> SUFFICES ASSUME SearchInv, [Next]_vars PROVE SearchInv'
  OBVIOUS
<1>1. CASE Collide
  <2>1. /\ UNCHANGED <<doc, pc, next, tags>> /\ attempt' = attempt + 1
        /\ Candidate \in Used /\ pc = "tags" /\ next + 1 \in Named
        /\ NameAt(next + 1) \notin DOMAIN tags
    BY <1>1 DEF Collide
  <2>2. Used' = Used /\ Named' = Named /\ NameAt(next + 1)' = NameAt(next + 1)
    BY <2>1 DEF Used, Named, NameAt
  <2>3. Tried(attempt) \in Used
    BY <2>1 DEF Tried, Candidate
  <2>4. \A i \in 1 .. attempt : Tried(i) \in Used
    BY <2>3 DEF SearchInv, Searching
  <2>5. \A i : Tried(i)' = Tried(i)
    BY <2>2 DEF Tried, Base
  <2>6. attempt' - 1 = attempt /\ attempt' \in Nat \ {0}
    BY <2>1 DEF SearchInv
  <2>7. \A i \in 1 .. attempt' - 1 : Tried(i)' \in Used'
    BY <2>2, <2>4, <2>5, <2>6
  <2> QED BY <2>1, <2>2, <2>6, <2>7 DEF SearchInv, Searching
<1>2. CASE Allocate
  <2>1. Used' = Used \cup {Candidate}
    BY <1>2, AllocatedTag DEF Used
  <2>2. IsFiniteSet(Used')
    BY <2>1, FS_AddElement DEF SearchInv
  <2> QED BY <1>2, <2>2 DEF Allocate, SearchInv
<1>3. CASE KnownName \/ AllNamed \/ CheckInbounds
  <2>1. UNCHANGED <<doc, attempt, tags>> /\ next' \in Nat /\ ~Searching
    BY <1>3 DEF KnownName, AllNamed, CheckInbounds, SearchInv, Searching
  <2>2. Used' = Used
    BY <2>1 DEF Used
  <2> QED BY <2>1, <2>2 DEF SearchInv
<1>4. CASE ConvertNode \/ AllNodes \/ ConvertGroup \/ AllGroups \/ ConvertRule \/ AllRules
  <2>1. UNCHANGED <<doc, attempt, tags>> /\ next' \in {0, next + 1} /\ pc # "tags"
    <3>1. CASE ConvertNode \/ ConvertGroup \/ ConvertRule
      BY <3>1 DEF ConvertNode, ConvertGroup, ConvertRule
    <3>2. CASE AllNodes \/ AllGroups \/ AllRules
      BY <3>2 DEF AllNodes, AllGroups, AllRules
    <3> QED BY <1>4, <3>1, <3>2
  <2>2. Used' = Used
    BY <2>1 DEF Used
  <2> QED BY <2>1, <2>2 DEF SearchInv, Searching
<1>5. CASE Finished \/ UNCHANGED vars
  <2>1. UNCHANGED <<doc, pc, next, attempt, tags>>
    BY <1>5 DEF Finished, vars
  <2>2. Used' = Used /\ Named' = Named /\ NameAt(next + 1)' = NameAt(next + 1)
    BY <2>1 DEF Used, Named, NameAt
  <2>3. \A i : Tried(i)' = Tried(i)
    BY <2>2 DEF Tried, Base
  <2> QED BY <2>1, <2>2, <2>3 DEF SearchInv, Searching
<1> QED BY <1>1, <1>2, <1>3, <1>4, <1>5 DEF Next

\* The candidates tried so far are different tags in use: there are no more
\* of them than tags.
LEMMA SearchBound == IndicesTell /\ SearchInv => SearchEnds
<1> SUFFICES ASSUME IndicesTell, SearchInv PROVE SearchEnds
  OBVIOUS
<1>1. IsFiniteSet(Used) /\ Cardinality(Used) \in Nat /\ attempt \in Nat \ {0}
  BY FS_CardinalityType DEF SearchInv
<1>2. CASE attempt = 1
  BY <1>1, <1>2 DEF SearchEnds
<1>3. CASE attempt > 1
  <2> DEFINE tried == [i \in 1 .. attempt - 1 |-> Tried(i)]
  <2>1. Searching /\ NameAt(next + 1) \in Tags
    BY <1>3, NamesAreTags DEF SearchInv, Searching
  <2>2. \A i, j \in 1 .. attempt - 1 : Tried(i) = Tried(j) => i = j
    BY <1>1, <2>1 DEF IndicesTell, Tried
  <2>3. tried \in Injection(1 .. attempt - 1, Used)
    BY <2>1, <2>2 DEF Searching, Injection, IsInjective
  <2>4. Cardinality(1 .. attempt - 1) <= Cardinality(Used)
    BY <1>1, <2>3, FS_Injection
  <2>5. Cardinality(1 .. attempt - 1) = attempt - 1
    BY <1>1, <1>3, FS_Interval
  <2> QED BY <1>1, <2>4, <2>5 DEF SearchEnds
<1> QED BY <1>1, <1>2, <1>3

\* The unbounded loop of buildTags gives up no name and runs no longer than
\* there are tags in use.
THEOREM SearchIsBounded == IndicesTell => (Spec => []SearchEnds)
<1> SUFFICES ASSUME IndicesTell PROVE Spec => []SearchEnds
  OBVIOUS
<1>1. SearchInv => SearchEnds
  BY SearchBound
<1> QED BY <1>1, InitSearch, StepSearch, PTL DEF Spec

--------------------------------------------------------------------------------
(* Lists and selections. *)

\* The members that a group keeps when names is the set of names with a tag, and
\* the nodes that are converted.
KnownIn(names, m) == m \in DirectNames \cup RejectNames \cup names
KnownOf(names, g) == {m \in Range(g.members) : KnownIn(names, m)}
SupportedIn(d) == {node \in Range(d.nodes) : node.supported}

K == INSTANCE SequenceFacts WITH Of <- LAMBDA p, x : {}

LEMMA ListsAgree == \A x : (K!IsList(x) <=> IsList(x)) /\ K!Range(x) = Range(x)
BY DEF IsList, K!IsList, Range, K!Range

LEMMA ListFacts ==
    ASSUME NEW s, IsList(s)
    PROVE  Len(s) \in Nat /\ DOMAIN s = 1 .. Len(s) /\ Range(s) = {s[i] : i \in 1 .. Len(s)}
BY ListsAgree, K!ListFacts

\* Any sequence is a list, whatever its items are.
LEMMA ListOf ==
    ASSUME NEW T, NEW s \in Seq(T)
    PROVE  IsList(s)
BY ListsAgree, K!ListOf

LEMMA AppendList ==
    ASSUME NEW s, IsList(s), NEW x
    PROVE  /\ IsList(Append(s, x)) /\ Len(Append(s, x)) = Len(s) + 1
           /\ \A i \in 1 .. Len(s) : Append(s, x)[i] = s[i]
           /\ Append(s, x)[Len(s) + 1] = x
           /\ Range(Append(s, x)) = Range(s) \cup {x}
BY ListsAgree, K!AppendList

LEMMA ConcatList ==
    ASSUME NEW a, NEW b, IsList(a), IsList(b)
    PROVE  /\ IsList(a \o b) /\ Len(a \o b) = Len(a) + Len(b)
           /\ \A i \in 1 .. Len(a) : (a \o b)[i] = a[i]
           /\ \A i \in 1 .. Len(b) : (a \o b)[Len(a) + i] = b[i]
           /\ Range(a \o b) = Range(a) \cup Range(b)
BY ListsAgree, K!ConcatList

--------------------------------------------------------------------------------
(* After buildTags: each name has a tag, and keeps it. *)

\* What a name may be given as its tag.
Spellings == {Base(n) : n \in Tags} \cup {Numbered(Base(n), i) : n \in Tags, i \in Nat}

\* What is assumed of spelling ("%s-proxy", "%s-%d", "%s-hop-%d"): no tag is empty,
\* and the tag of a hop tells the relay, the index, and that it is one.
Spelled ==
    /\ "" \notin Spellings
    /\ \A t \in Spellings, i \in Nat : Hop(t, i) \notin Reserved \cup {""}
    /\ \A t, u \in Spellings, i, j \in Nat : Hop(t, i) = Hop(u, j) => t = u /\ i = j

HopsTell ==
    /\ \A t \in Spellings, i \in Nat : Hop(t, i) \notin Reserved
    /\ \A t, u \in Spellings, i, j \in Nat : Hop(t, i) = Hop(u, j) => t = u /\ i = j

LEMMA SpelledHops == Spelled => HopsTell
BY DEF Spelled, HopsTell

AfterTags == {"nodes", "groups", "rules", "done"}

\* Numbers and names of a document d; NameIn is NameAt.
NodesIn(d) == Len(d.nodes)
GroupsIn(d) == Len(d.groups)
RulesIn(d) == Len(d.rules)
Total(d) == NodesIn(d) + GroupsIn(d)
NameIn(d, i) ==
    IF i <= Len(d.nodes) THEN d.nodes[i].name ELSE d.groups[i - Len(d.nodes)].name

\* The first n names have a tag, and no others.
TaggedUpTo(d, given, n) ==
    /\ \A i \in 1 .. n : NameIn(d, i) \in DOMAIN given
    /\ \A m \in DOMAIN given : \E i \in 1 .. n : NameIn(d, i) = m

TagTypes ==
    /\ Encodable(doc) /\ next \in Nat /\ attempt \in Nat \ {0}
    /\ pc \in {"inbounds", "tags", "failed"} \cup AfterTags

TagsGiven ==
    /\ pc = "inbounds" => next = 0 /\ TaggedUpTo(doc, tags, 0)
    /\ pc = "tags" => next <= Total(doc) /\ TaggedUpTo(doc, tags, next)
    /\ pc \in AfterTags => TaggedUpTo(doc, tags, Total(doc))

TagInv == TagTypes /\ TagsGiven /\ TagsDistinct

LEMMA NameIsAt == \A i : NameAt(i) = NameIn(doc, i)
BY DEF NameAt, NameIn

LEMMA DocFacts ==
    ASSUME NEW d, Encodable(d)
    PROVE  /\ IsList(d.nodes) /\ NodesIn(d) \in Nat
           /\ IsList(d.groups) /\ GroupsIn(d) \in Nat
           /\ IsList(d.rules) /\ RulesIn(d) \in Nat
           /\ Total(d) \in Nat
<1>1. IsList(d.nodes) /\ IsList(d.groups) /\ IsList(d.rules)
  BY DEF Encodable
<1>2. NodesIn(d) \in Nat /\ GroupsIn(d) \in Nat /\ RulesIn(d) \in Nat
  BY <1>1, ListFacts DEF NodesIn, GroupsIn, RulesIn
<1>3. Total(d) \in Nat
  BY <1>2 DEF Total
<1> QED BY <1>1, <1>2, <1>3

LEMMA InitTags == Encodable(doc) /\ Idle => TagInv
<1> SUFFICES ASSUME Encodable(doc), Idle PROVE TagInv
  OBVIOUS
<1>1. /\ Encodable(doc) /\ pc = "inbounds" /\ next = 0 /\ attempt = 1
      /\ tags = [n \in {} |-> ""]
  BY DEF Idle
<1>2. DOMAIN tags = {}
  BY <1>1
<1>3. TaggedUpTo(doc, tags, 0)
  BY <1>2 DEF TaggedUpTo
<1> QED BY <1>1, <1>2, <1>3 DEF TagInv, TagTypes, TagsGiven, AfterTags, TagsDistinct

\* One more name has a tag.
LEMMA OneMoreTagged ==
    ASSUME NEW d, NEW given, NEW now, NEW n \in Nat, TaggedUpTo(d, given, n),
           DOMAIN now = DOMAIN given \cup {NameIn(d, n + 1)}
    PROVE  TaggedUpTo(d, now, n + 1)
<1>1. /\ \A i \in 1 .. n + 1 : i \in 1 .. n \/ i = n + 1
      /\ \A i \in 1 .. n : i \in 1 .. n + 1
      /\ n + 1 \in 1 .. n + 1
  OBVIOUS
<1>2. \A i \in 1 .. n + 1 : NameIn(d, i) \in DOMAIN now
  BY <1>1 DEF TaggedUpTo
<1>3. \A m \in DOMAIN now : \E i \in 1 .. n + 1 : NameIn(d, i) = m
  BY <1>1 DEF TaggedUpTo
<1> QED BY <1>2, <1>3 DEF TaggedUpTo

LEMMA StepTags ==
    ASSUME TagInv, [Next]_vars
    PROVE  TagInv'
<1>t. TagTypes /\ TagsGiven /\ TagsDistinct
  BY DEF TagInv
<1>d. Total(doc) \in Nat /\ next \in Nat /\ Named = 1 .. Total(doc)
  <2>1. Encodable(doc) /\ next \in Nat
    BY <1>t DEF TagTypes
  <2>2. Named = 1 .. Total(doc)
    BY DEF Named, Total, NodesIn, GroupsIn
  <2> QED BY <2>1, <2>2, DocFacts
<1>f. ASSUME UNCHANGED <<tags>> PROVE TagsDistinct'
  BY <1>t, <1>f DEF TagsDistinct
<1>1. CASE CheckInbounds
  <2>1. UNCHANGED <<doc, next, attempt, tags>> /\ pc = "inbounds" /\ pc' \in {"tags", "failed"}
    BY <1>1 DEF CheckInbounds
  <2>2. TagsGiven'
    BY <1>d, <1>t, <2>1 DEF TagsGiven, AfterTags
  <2>3. TagTypes'
    BY <1>t, <2>1 DEF TagTypes
  <2> QED BY <1>f, <2>1, <2>2, <2>3 DEF TagInv
<1>2. CASE KnownName
  <2>1. /\ UNCHANGED <<doc, pc, attempt, tags>> /\ pc = "tags" /\ next' = next + 1
        /\ next + 1 \in Named /\ NameIn(doc, next + 1) \in DOMAIN tags
    BY <1>2, NameIsAt DEF KnownName
  <2>2. DOMAIN tags = DOMAIN tags \cup {NameIn(doc, next + 1)}
    BY <2>1
  <2>3. TaggedUpTo(doc, tags, next)
    BY <1>t, <2>1 DEF TagsGiven
  <2>4. TaggedUpTo(doc, tags, next + 1)
    BY <1>d, <2>2, <2>3, OneMoreTagged
  <2>5. next + 1 <= Total(doc)
    BY <1>d, <2>1
  <2>6. TagsGiven'
    BY <2>1, <2>4, <2>5 DEF TagsGiven, AfterTags
  <2>7. TagTypes'
    BY <1>d, <1>t, <2>1 DEF TagTypes
  <2> QED BY <1>f, <2>1, <2>6, <2>7 DEF TagInv
<1>3. CASE Collide
  <2>1. UNCHANGED <<doc, pc, next, tags>> /\ attempt' = attempt + 1
    BY <1>3 DEF Collide
  <2>2. TagsGiven'
    BY <1>t, <2>1 DEF TagsGiven
  <2>3. TagTypes'
    BY <1>t, <2>1 DEF TagTypes
  <2> QED BY <1>f, <2>1, <2>2, <2>3 DEF TagInv
<1>4. CASE Allocate
  <2>1. /\ UNCHANGED <<doc, pc>> /\ attempt' = 1 /\ pc = "tags" /\ next' = next + 1
        /\ next + 1 \in Named
    BY <1>4 DEF Allocate
  <2>2. DOMAIN tags' = DOMAIN tags \cup {NameIn(doc, next + 1)}
    BY <1>4, AllocatedTag, NameIsAt
  <2>3. TaggedUpTo(doc, tags, next)
    BY <1>t, <2>1 DEF TagsGiven
  <2>4. TaggedUpTo(doc, tags', next + 1)
    BY <1>d, <2>2, <2>3, OneMoreTagged
  <2>5. next + 1 <= Total(doc)
    BY <1>d, <2>1
  <2>6. TagsGiven'
    BY <2>1, <2>4, <2>5 DEF TagsGiven, AfterTags
  <2>7. TagTypes'
    BY <1>d, <1>t, <2>1 DEF TagTypes
  <2>8. TagsDistinct'
    BY <1>4, <1>t, AllocatedTagsDistinct
  <2> QED BY <2>6, <2>7, <2>8 DEF TagInv
<1>5. CASE AllNamed
  <2>1. UNCHANGED <<doc, attempt, tags>> /\ pc = "tags" /\ pc' = "nodes" /\ next' = 0
        /\ next + 1 \notin Named
    BY <1>5 DEF AllNamed
  <2>2. next = Total(doc) /\ TaggedUpTo(doc, tags, next)
    BY <1>d, <1>t, <2>1 DEF TagsGiven
  <2>3. TagsGiven'
    BY <2>1, <2>2 DEF TagsGiven, AfterTags
  <2>4. TagTypes'
    BY <1>t, <2>1 DEF TagTypes, AfterTags
  <2> QED BY <1>f, <2>1, <2>3, <2>4 DEF TagInv
<1>6. CASE ConvertNode \/ AllNodes \/ ConvertGroup \/ AllGroups \/ ConvertRule \/ AllRules
           \/ Finished \/ UNCHANGED vars
  <2>1. /\ UNCHANGED <<doc, attempt, tags>>
        /\ \/ UNCHANGED <<pc, next>>
           \/ pc \in AfterTags /\ pc' \in AfterTags \cup {"failed"} /\ next' \in {0, next + 1}
    <3>1. CASE ConvertNode \/ ConvertGroup \/ ConvertRule
      BY <3>1 DEF ConvertNode, ConvertGroup, ConvertRule, AfterTags
    <3>2. CASE AllNodes \/ AllGroups \/ AllRules
      BY <3>2 DEF AllNodes, AllGroups, AllRules, AfterTags
    <3>3. CASE Finished \/ UNCHANGED vars
      BY <3>3 DEF Finished, vars
    <3> QED BY <1>6, <3>1, <3>2, <3>3
  <2>2. TagsGiven'
    BY <1>t, <2>1 DEF TagsGiven, AfterTags
  <2>3. TagTypes'
    BY <1>d, <1>t, <2>1 DEF TagTypes
  <2> QED BY <1>f, <2>1, <2>2, <2>3 DEF TagInv
<1> QED BY <1>1, <1>2, <1>3, <1>4, <1>5, <1>6 DEF Next

\* If all names are in Tags, what they were given is spelled like that.
NamesInv == Nameable(doc) /\ \A n \in DOMAIN tags : tags[n] \in Spellings

LEMMA CandidateSpelled ==
    ASSUME TagTypes, Nameable(doc), next + 1 \in Named
    PROVE  Candidate \in Spellings
<1>1. NameAt(next + 1) \in Tags /\ attempt \in Nat
  BY NamesAreTags DEF TagTypes
<1> QED BY <1>1 DEF Candidate, Spellings

LEMMA StepNames ==
    ASSUME TagInv, NamesInv, [Next]_vars
    PROVE  NamesInv'
<1>1. TagTypes
  BY DEF TagInv
<1>2. CASE Allocate
  <2>1. UNCHANGED doc /\ next + 1 \in Named
    BY <1>2 DEF Allocate
  <2>2. Candidate \in Spellings
    BY <1>1, <2>1, CandidateSpelled DEF NamesInv
  <2>3. \A n \in DOMAIN tags' : tags'[n] \in Spellings
    BY <1>2, <2>2, AllocatedTag DEF NamesInv
  <2> QED BY <2>1, <2>3 DEF NamesInv
<1>3. CASE ~Allocate
  <2>1. UNCHANGED <<doc, tags>>
    BY <1>3 DEF Next, vars, CheckInbounds, KnownName, Collide, AllNamed, ConvertNode, AllNodes,
        ConvertGroup, AllGroups, ConvertRule, AllRules, Finished
  <2> QED BY <2>1 DEF NamesInv
<1> QED BY <1>2, <1>3

--------------------------------------------------------------------------------
(* Nodes and groups.  The operators of SingBoxEncode, with the document, the tags *)
(* and the names of converted nodes as parameters.                               *)

DNSIn(d) == IF d.dns.servers = <<>> THEN DefaultDNS ELSE d.dns
DefaultResolverIn(d) ==
    FirstNonEmpty(d.resolver, FirstNonEmpty(DNSIn(d).final, DNSIn(d).servers[1].tag))
ResolverIn(d, node) == IF node.named THEN DefaultResolverIn(d) ELSE ""

NodeOut(d, given, i) ==
    Outbound("node", given[d.nodes[i].name], d.nodes[i].name, <<>>, "",
             ResolverIn(d, d.nodes[i]))

MemberTagIn(given, m) ==
    IF m \in DirectNames THEN "direct"
    ELSE IF m \in RejectNames THEN "reject"
    ELSE given[m]

MembersIn(given, g) ==
    LET known == K!Picked(KnownOf(DOMAIN given, g), g.members)
    IN  [i \in 1 .. Len(known) |-> MemberTagIn(given, known[i])]

HopTagIn(given, g, i) ==
    IF i = Len(g.members) THEN given[g.name] ELSE Hop(given[g.name], i)

Carries(d, n, i) == d.nodes[i].supported /\ d.nodes[i].name = n
NodeCalled(d, n) ==
    LET I == {i \in 1 .. Len(d.nodes) : Carries(d, n, i)}
    IN  IF I # {} THEN CHOOSE i \in I : \A j \in I : i >= j ELSE 0

HopOut(d, given, g, i) ==
    Outbound("node", HopTagIn(given, g, i), g.members[i], <<>>,
             IF i = 1 THEN "" ELSE HopTagIn(given, g, i - 1),
             ResolverIn(d, d.nodes[NodeCalled(d, g.members[i])]))

ConvertedIn(d, given, made, g) ==
    IF g.type = "relay"
    THEN IF Range(g.members) \subseteq made
         THEN [i \in 1 .. Len(g.members) |-> HopOut(d, given, g, i)] ELSE <<>>
    ELSE IF MembersIn(given, g) = <<>> \/ g.type = "other" THEN <<>>
         ELSE <<Outbound(TypeOf(g), given[g.name], "", MembersIn(given, g), "", "")>>

LEMMA ResolverIsIn == \A node : ResolverOf(node) = ResolverIn(doc, node)
BY DEF ResolverOf, Resolver, EffectiveDNS, ResolverIn, DefaultResolverIn, DNSIn

LEMMA MembersAreIn == \A g : Members(g) = MembersIn(tags, g)
<1> SUFFICES ASSUME NEW g PROVE Members(g) = MembersIn(tags, g)
  OBVIOUS
<1> DEFINE known == Selected(g.members, LAMBDA m : KnownMember(m))
           chosen == K!Picked(KnownOf(DOMAIN tags, g), g.members)
<1>1. known = chosen
  BY DEF Selected, Picked, KnownMember, K!Picked, KnownOf, KnownIn, FoldLeft, K!FoldLeft,
         MapThenFoldSet, K!MapThenFoldSet, Max, K!Max
<1>2. Members(g) = [i \in 1 .. Len(known) |-> MemberTag(known[i])]
  BY DEF Members
<1>3. MembersIn(tags, g) = [i \in 1 .. Len(chosen) |-> MemberTagIn(tags, chosen[i])]
  BY DEF MembersIn
<1> HIDE DEF known, chosen
<1>4. \A m : MemberTag(m) = MemberTagIn(tags, m)
  BY DEF MemberTag, MemberTagIn
<1> QED BY <1>1, <1>2, <1>3, <1>4

LEMMA HopsAreIn ==
    \A g : Hops(g) = [i \in 1 .. Len(g.members) |-> HopOut(doc, tags, g, i)]
<1> SUFFICES ASSUME NEW g
             PROVE  Hops(g) = [i \in 1 .. Len(g.members) |-> HopOut(doc, tags, g, i)]
  OBVIOUS
<1> DEFINE called(m) == SelectLastInSeq(doc.nodes, LAMBDA n : n.supported /\ n.name = m)
           hop(i) == Outbound("node", HopTag(g, i), g.members[i], <<>>,
                              IF i = 1 THEN "" ELSE HopTag(g, i - 1),
                              ResolverOf(doc.nodes[called(g.members[i])]))
           n == Len(g.members)
<1>1. \A i : HopTag(g, i) = HopTagIn(tags, g, i)
  BY DEF HopTag, HopTagIn
<1>2. \A m : called(m) = NodeCalled(doc, m)
  BY DEF SelectLastInSeq, NodeCalled, Carries, Max
<1>3. Hops(g) = [i \in 1 .. n |-> hop(i)]
  BY DEF Hops
<1> HIDE DEF called
<1>4. \A i : hop(i) = HopOut(doc, tags, g, i)
  <2> SUFFICES ASSUME NEW i PROVE hop(i) = HopOut(doc, tags, g, i)
    OBVIOUS
  <2>1. called(g.members[i]) = NodeCalled(doc, g.members[i])
    BY <1>2
  <2>2. ResolverOf(doc.nodes[called(g.members[i])])
           = ResolverIn(doc, doc.nodes[NodeCalled(doc, g.members[i])])
    BY <2>1, ResolverIsIn
  <2>3. HopTag(g, i) = HopTagIn(tags, g, i) /\ HopTag(g, i - 1) = HopTagIn(tags, g, i - 1)
    BY <1>1
  <2> QED BY <2>2, <2>3, Zenon DEF HopOut
<1> HIDE DEF hop, n
<1>5. Hops(g) = [i \in 1 .. n |-> HopOut(doc, tags, g, i)]
  BY <1>3, <1>4
<1> QED BY <1>5 DEF n

LEMMA ConvertedIsIn == \A g : Converted(g) = ConvertedIn(doc, tags, nodeOutbounds, g)
BY MembersAreIn, HopsAreIn DEF Converted, ConvertedIn

\* What there is once the first a nodes are converted: made are the names of those
\* with an outbound, outs the outbounds, told the warnings.
NodesMade(d, given, made, outs, told, a) ==
    /\ \A i \in 1 .. a :
          IF d.nodes[i].supported
          THEN d.nodes[i].name \in made /\ NodeOut(d, given, i) \in outs
          ELSE <<"node", i>> \in told
    /\ \A n \in made : \E i \in 1 .. a : Carries(d, n, i)

\* The same of the first b groups; tagged are the tags of those with an outbound.
GroupMade(d, given, made, tagged, outs, told, i) ==
    LET group == d.groups[i]
        converted == ConvertedIn(d, given, made, group)
    IN  IF converted = <<>> THEN <<"group", i>> \in told
        ELSE Range(converted) \subseteq outs /\ given[group.name] \in tagged

GroupsMade(d, given, made, tagged, outs, told, b) ==
    /\ \A i \in 1 .. b : GroupMade(d, given, made, tagged, outs, told, i)
    /\ \A t \in tagged : \E i \in 1 .. b :
          /\ t = given[d.groups[i].name]
          /\ ConvertedIn(d, given, made, d.groups[i]) # <<>>

\* No outbound comes from anywhere else.
Origins(d, given, made, outs, a, b, fixed) ==
    \A o \in outs :
        \/ o \in fixed
        \/ \E i \in 1 .. a : d.nodes[i].supported /\ o = NodeOut(d, given, i)
        \/ \E i \in 1 .. b : o \in Range(ConvertedIn(d, given, made, d.groups[i]))

\* outs2 has nothing but outs and what comes from a nodes, b groups and what is fixed.
Added(d, given, made, outs, outs2, a, b, fixed) ==
    \A o \in outs2 :
        \/ o \in outs
        \/ o \in fixed
        \/ \E i \in 1 .. a : d.nodes[i].supported /\ o = NodeOut(d, given, i)
        \/ \E i \in 1 .. b : o \in Range(ConvertedIn(d, given, made, d.groups[i]))

LEMMA MoreNodes ==
    ASSUME NEW d, NEW given, NEW made, NEW outs, NEW told, NEW a \in Nat,
           NodesMade(d, given, made, outs, told, a),
           NEW made2, NEW outs2, NEW told2, outs \subseteq outs2, told \subseteq told2,
           \/ /\ d.nodes[a + 1].supported
              /\ made2 = made \cup {d.nodes[a + 1].name} /\ NodeOut(d, given, a + 1) \in outs2
           \/ ~d.nodes[a + 1].supported /\ made2 = made /\ <<"node", a + 1>> \in told2
    PROVE  NodesMade(d, given, made2, outs2, told2, a + 1)
<1>1. /\ \A i \in 1 .. a + 1 : i \in 1 .. a \/ i = a + 1
      /\ \A i \in 1 .. a : i \in 1 .. a + 1
      /\ a + 1 \in 1 .. a + 1
  OBVIOUS
<1>2. ASSUME NEW i \in 1 .. a + 1
      PROVE  IF d.nodes[i].supported
             THEN d.nodes[i].name \in made2 /\ NodeOut(d, given, i) \in outs2
             ELSE <<"node", i>> \in told2
  <2>1. CASE i = a + 1
    BY <2>1
  <2>2. CASE i \in 1 .. a
    BY <2>2 DEF NodesMade
  <2> QED BY <1>1, <2>1, <2>2
<1>3. ASSUME NEW n \in made2 PROVE \E i \in 1 .. a + 1 : Carries(d, n, i)
  <2>1. CASE n \in made
    BY <1>1, <2>1 DEF NodesMade
  <2>2. CASE n \notin made
    <3>1. Carries(d, n, a + 1)
      BY <2>2 DEF Carries
    <3> QED BY <1>1, <3>1
  <2> QED BY <2>1, <2>2
<1> QED BY <1>2, <1>3 DEF NodesMade

LEMMA NodesStay ==
    ASSUME NEW d, NEW given, NEW made, NEW outs, NEW told, NEW a,
           NodesMade(d, given, made, outs, told, a),
           NEW outs2, NEW told2, outs \subseteq outs2, told \subseteq told2
    PROVE  NodesMade(d, given, made, outs2, told2, a)
BY DEF NodesMade

LEMMA MoreGroups ==
    ASSUME NEW d, NEW given, NEW made, NEW tagged, NEW outs, NEW told, NEW b \in Nat,
           GroupsMade(d, given, made, tagged, outs, told, b),
           NEW tagged2, NEW outs2, NEW told2, outs \subseteq outs2, told \subseteq told2,
           LET converted == ConvertedIn(d, given, made, d.groups[b + 1])
           IN  IF converted = <<>> THEN tagged2 = tagged /\ <<"group", b + 1>> \in told2
               ELSE /\ tagged2 = tagged \cup {given[d.groups[b + 1].name]}
                    /\ Range(converted) \subseteq outs2
    PROVE  GroupsMade(d, given, made, tagged2, outs2, told2, b + 1)
<1>1. /\ \A i \in 1 .. b + 1 : i \in 1 .. b \/ i = b + 1
      /\ \A i \in 1 .. b : i \in 1 .. b + 1
      /\ b + 1 \in 1 .. b + 1
  OBVIOUS
<1>2. tagged \subseteq tagged2
  OBVIOUS
<1>3. ASSUME NEW i \in 1 .. b + 1 PROVE GroupMade(d, given, made, tagged2, outs2, told2, i)
  <2>1. CASE i = b + 1
    BY <2>1 DEF GroupMade
  <2>2. CASE i \in 1 .. b
    <3>1. GroupMade(d, given, made, tagged, outs, told, i)
      BY <2>2 DEF GroupsMade
    <3> QED BY <1>2, <3>1 DEF GroupMade
  <2> QED BY <1>1, <2>1, <2>2
<1>4. ASSUME NEW t \in tagged2
      PROVE  \E i \in 1 .. b + 1 : /\ t = given[d.groups[i].name]
                                   /\ ConvertedIn(d, given, made, d.groups[i]) # <<>>
  <2>1. CASE t \in tagged
    BY <1>1, <2>1 DEF GroupsMade
  <2>2. CASE t \notin tagged
    BY <1>1, <2>2
  <2> QED BY <2>1, <2>2
<1> QED BY <1>3, <1>4 DEF GroupsMade

LEMMA GroupsStay ==
    ASSUME NEW d, NEW given, NEW made, NEW tagged, NEW outs, NEW told, NEW b,
           GroupsMade(d, given, made, tagged, outs, told, b),
           NEW outs2, NEW told2, outs \subseteq outs2, told \subseteq told2
    PROVE  GroupsMade(d, given, made, tagged, outs2, told2, b)
<1>1. ASSUME NEW i \in 1 .. b PROVE GroupMade(d, given, made, tagged, outs2, told2, i)
  <2>1. GroupMade(d, given, made, tagged, outs, told, i)
    BY DEF GroupsMade
  <2> QED BY <2>1 DEF GroupMade
<1> QED BY <1>1 DEF GroupsMade

\* The outbounds that are added come from the next node, the next group, or are fixed.
LEMMA MoreOrigins ==
    ASSUME NEW d, NEW given, NEW made, NEW outs, NEW a \in Nat, NEW b \in Nat, NEW fixed,
           Origins(d, given, made, outs, a, b, fixed),
           NEW outs2, NEW a2 \in Nat, NEW b2 \in Nat, NEW fixed2, NEW made2,
           a <= a2, b <= b2, fixed \subseteq fixed2, b = 0 \/ made2 = made,
           Added(d, given, made2, outs, outs2, a2, b2, fixed2)
    PROVE  Origins(d, given, made2, outs2, a2, b2, fixed2)
<1> SUFFICES ASSUME NEW o \in outs2, o \in outs
             PROVE  \/ o \in fixed2
                    \/ \E i \in 1 .. a2 : d.nodes[i].supported /\ o = NodeOut(d, given, i)
                    \/ \E i \in 1 .. b2 :
                          o \in Range(ConvertedIn(d, given, made2, d.groups[i]))
  BY DEF Origins, Added
<1>1. (\A i \in 1 .. a : i \in 1 .. a2) /\ (\A i \in 1 .. b : i \in 1 .. b2)
  OBVIOUS
<1>2. b = 0 => 1 .. b = {}
  OBVIOUS
<1> QED BY <1>1, <1>2 DEF Origins

--------------------------------------------------------------------------------
(* The outbounds that there are at each point.                                *)

BuiltinOuts(d) ==
    {Outbound("direct", "direct", "", <<>>, "", DNSIn(d).directResolver),
     Outbound("block", "reject", "", <<>>, "", "")}

NodeTagsIn(d, given) ==
    LET supported == K!Picked(SupportedIn(d), d.nodes)
    IN  [i \in 1 .. Len(supported) |-> given[supported[i].name]]

SelectableIn(d, given, gts) == IF gts # <<>> THEN gts ELSE NodeTagsIn(d, given)

\* The selector of all groups, or of all nodes.
ProxyOut(d, given, gts) == Outbound("selector", "proxy", "", SelectableIn(d, given, gts), "", "")

Fixed(d, given, gts) == BuiltinOuts(d) \cup {ProxyOut(d, given, gts)}

AllMade(d, given, made, gts, outs, told) ==
    /\ NodesMade(d, given, made, outs, told, NodesIn(d))
    /\ GroupsMade(d, given, made, Range(gts), outs, told, GroupsIn(d))
    /\ Fixed(d, given, gts) \subseteq outs
    /\ Origins(d, given, made, outs, NodesIn(d), GroupsIn(d), Fixed(d, given, gts))
    /\ SelectableIn(d, given, gts) # <<>>

OutLists == IsList(outbounds) /\ IsList(groupTags)

BeforeOuts ==
    pc \in {"inbounds", "tags"} => outbounds = <<>> /\ nodeOutbounds = {} /\ groupTags = <<>>

AmidNodes ==
    pc = "nodes" =>
        /\ next <= NodesIn(doc) /\ groupTags = <<>>
        /\ NodesMade(doc, tags, nodeOutbounds, Range(outbounds), warnings, next)
        /\ Origins(doc, tags, nodeOutbounds, Range(outbounds), next, 0, {})

AmidGroups ==
    pc = "groups" =>
        /\ next <= GroupsIn(doc)
        /\ NodesMade(doc, tags, nodeOutbounds, Range(outbounds), warnings, NodesIn(doc))
        /\ GroupsMade(doc, tags, nodeOutbounds, Range(groupTags), Range(outbounds),
                      warnings, next)
        /\ BuiltinOuts(doc) \subseteq Range(outbounds)
        /\ Origins(doc, tags, nodeOutbounds, Range(outbounds), NodesIn(doc), next,
                   BuiltinOuts(doc))

AfterOuts ==
    pc \in {"rules", "done"} =>
        AllMade(doc, tags, nodeOutbounds, groupTags, Range(outbounds), warnings)

OutsInv == OutLists /\ BeforeOuts /\ AmidNodes /\ AmidGroups /\ AfterOuts

LEMMA SelectableIsIn == Selectable = SelectableIn(doc, tags, groupTags)
<1> DEFINE supported == Selected(doc.nodes, LAMBDA node : node.supported)
           chosen == K!Picked(SupportedIn(doc), doc.nodes)
<1>1. supported = chosen
  BY DEF Selected, Picked, K!Picked, SupportedIn, FoldLeft, K!FoldLeft, MapThenFoldSet,
         K!MapThenFoldSet, Max, K!Max
<1>2. NodeTags = [i \in 1 .. Len(supported) |-> tags[supported[i].name]]
  BY DEF NodeTags
<1>3. NodeTagsIn(doc, tags) = [i \in 1 .. Len(chosen) |-> tags[chosen[i].name]]
  BY DEF NodeTagsIn
<1> HIDE DEF supported, chosen
<1>4. NodeTags = NodeTagsIn(doc, tags)
  BY <1>1, <1>2, <1>3
<1> QED BY <1>4 DEF Selectable, SelectableIn

\* What each action adds.
LEMMA NodeStep ==
    ASSUME ConvertNode
    PROVE  /\ UNCHANGED <<doc, pc, tags, groupTags>> /\ pc = "nodes"
           /\ next < NodesIn(doc) /\ next' = next + 1
           /\ \/ /\ doc.nodes[next + 1].supported
                 /\ outbounds' = Append(outbounds, NodeOut(doc, tags, next + 1))
                 /\ nodeOutbounds' = nodeOutbounds \cup {doc.nodes[next + 1].name}
                 /\ warnings' = warnings
              \/ /\ ~doc.nodes[next + 1].supported
                 /\ outbounds' = outbounds /\ nodeOutbounds' = nodeOutbounds
                 /\ warnings' = warnings \cup {<<"node", next + 1>>}
BY ResolverIsIn DEF ConvertNode, NodesIn, NodeOut

LEMMA AllNodesStep ==
    ASSUME AllNodes
    PROVE  /\ UNCHANGED <<doc, tags, nodeOutbounds, groupTags, warnings>>
           /\ pc = "nodes" /\ next = NodesIn(doc) /\ pc' = "groups" /\ next' = 0
           /\ \E direct, block :
                 /\ BuiltinOuts(doc) = {direct, block}
                 /\ outbounds' = outbounds \o <<direct, block>>
BY DEF AllNodes, NodesIn, BuiltinOuts, EffectiveDNS, DNSIn

LEMMA GroupStep ==
    ASSUME ConvertGroup
    PROVE  LET group == doc.groups[next + 1]
               converted == ConvertedIn(doc, tags, nodeOutbounds, group)
           IN  /\ UNCHANGED <<doc, pc, tags, nodeOutbounds>> /\ pc = "groups"
               /\ next < GroupsIn(doc) /\ next' = next + 1
               /\ outbounds' = outbounds \o converted
               /\ groupTags' = IF converted = <<>> THEN groupTags
                               ELSE Append(groupTags, tags[group.name])
               /\ warnings \subseteq warnings'
               /\ converted = <<>> => <<"group", next + 1>> \in warnings'
BY ConvertedIsIn DEF ConvertGroup, GroupsIn, GroupWarnings

LEMMA AllGroupsStep ==
    ASSUME AllGroups
    PROVE  /\ UNCHANGED <<doc, tags, nodeOutbounds, groupTags, warnings>>
           /\ pc = "groups" /\ next = GroupsIn(doc) /\ next' = 0
           /\ \/ pc' = "failed" /\ outbounds' = outbounds /\ routeRules' = routeRules
              \/ /\ pc' = "rules" /\ SelectableIn(doc, tags, groupTags) # <<>>
                 /\ outbounds' = Append(outbounds, ProxyOut(doc, tags, groupTags))
                 /\ routeRules' = BuiltinRules
BY SelectableIsIn DEF AllGroups, GroupsIn, ProxyOut

LEMMA FunctionList ==
    ASSUME NEW n \in Nat, NEW T, NEW f \in [1 .. n -> T]
    PROVE  IsList(f) /\ Len(f) = n /\ Range(f) = {f[i] : i \in 1 .. n}
<1>1. f \in Seq(T) /\ Len(f) = n
  OBVIOUS
<1>2. IsList(f)
  BY <1>1, ListOf
<1> QED BY <1>1, <1>2, ListFacts

LEMMA GroupFacts ==
    ASSUME NEW d, Encodable(d), NEW i \in 1 .. GroupsIn(d)
    PROVE  Group(d.groups[i]) /\ IsList(d.groups[i].members)
           /\ Len(d.groups[i].members) \in Nat
<1>1. d.groups[i] \in Range(d.groups)
  BY DocFacts, ListFacts DEF GroupsIn
<1>2. Group(d.groups[i])
  BY <1>1 DEF Encodable
<1>3. IsList(d.groups[i].members)
  BY <1>2 DEF Group
<1> QED BY <1>2, <1>3, ListFacts

LEMMA SingleList == \A x : IsList(<<x>>) /\ Len(<<x>>) = 1 /\ Range(<<x>>) = {x} /\ <<x>> # <<>>
<1> SUFFICES ASSUME NEW x
             PROVE IsList(<<x>>) /\ Len(<<x>>) = 1 /\ Range(<<x>>) = {x} /\ <<x>> # <<>>
  OBVIOUS
<1>1. <<x>> \in Seq({x}) /\ Len(<<x>>) = 1 /\ <<x>>[1] = x
  OBVIOUS
<1>2. IsList(<<x>>)
  BY <1>1, ListOf
<1>3. Range(<<x>>) = {<<x>>[i] : i \in 1 .. 1}
  BY <1>1, <1>2, ListFacts
<1>4. \A i \in 1 .. 1 : i = 1
  OBVIOUS
<1> QED BY <1>1, <1>2, <1>3, <1>4

LEMMA PairList ==
    ASSUME NEW x, NEW y
    PROVE  /\ IsList(<<x, y>>) /\ Len(<<x, y>>) = 2 /\ Range(<<x, y>>) = {x, y}
           /\ <<x, y>>[1] = x /\ <<x, y>>[2] = y
<1> DEFINE f == <<x, y>>
<1>1. f \in [1 .. 2 -> {x, y}] /\ f[1] = x /\ f[2] = y /\ 2 \in Nat
  OBVIOUS
<1> HIDE DEF f
<1>2. IsList(f) /\ Len(f) = 2 /\ Range(f) = {f[i] : i \in 1 .. 2}
  BY <1>1, FunctionList
<1>3. \A i : i \in 1 .. 2 <=> i = 1 \/ i = 2
  OBVIOUS
<1>4. Range(f) = {x, y}
  BY <1>1, <1>2, <1>3
<1> QED BY <1>1, <1>2, <1>4 DEF f

LEMMA EmptyList == IsList(<<>>) /\ Len(<<>>) = 0 /\ Range(<<>>) = {}
<1>1. <<>> \in Seq({}) /\ Len(<<>>) = 0
  OBVIOUS
<1>2. IsList(<<>>)
  BY <1>1, ListOf
<1>3. Range(<<>>) = {<<>>[i] : i \in 1 .. 0}
  BY <1>1, <1>2, ListFacts
<1> QED BY <1>1, <1>2, <1>3

LEMMA ConvertedList ==
    ASSUME NEW d, Encodable(d), NEW i \in 1 .. GroupsIn(d), NEW given, NEW made
    PROVE  IsList(ConvertedIn(d, given, made, d.groups[i]))
<1> DEFINE g == d.groups[i]
           hops == [k \in 1 .. Len(g.members) |-> HopOut(d, given, g, k)]
           one == Outbound(TypeOf(g), given[g.name], "", MembersIn(given, g), "", "")
<1>1. IsList(hops)
  <2> DEFINE T == {HopOut(d, given, g, k) : k \in 1 .. Len(g.members)}
             n == Len(g.members)
  <2>1. n \in Nat
    BY GroupFacts
  <2>2. hops \in [1 .. n -> T]
    OBVIOUS
  <2> HIDE DEF hops, T, n
  <2> QED BY <2>1, <2>2, FunctionList
<1>2. ConvertedIn(d, given, made, g) \in {hops, <<>>, <<one>>}
  BY DEF ConvertedIn
<1> HIDE DEF hops, one
<1> QED BY <1>1, <1>2, SingleList, EmptyList

LEMMA InitOuts == Idle => OutsInv
<1> SUFFICES ASSUME Idle PROVE OutsInv
  OBVIOUS
<1>1. pc = "inbounds" /\ outbounds = <<>> /\ nodeOutbounds = {} /\ groupTags = <<>>
  BY DEF Idle
<1>2. OutLists
  BY <1>1, EmptyList DEF OutLists
<1> QED BY <1>1, <1>2 DEF OutsInv, BeforeOuts, AmidNodes, AmidGroups, AfterOuts

\* One conversion at a time, everything that was said of the outbounds stays true.
LEMMA NodeOuts ==
    ASSUME TagInv, OutsInv, ConvertNode
    PROVE  OutsInv'
<1> DEFINE outs == Range(outbounds)
<1>1. /\ UNCHANGED <<doc, pc, tags, groupTags>> /\ pc = "nodes"
      /\ next < NodesIn(doc) /\ next' = next + 1
      /\ \/ /\ doc.nodes[next + 1].supported
            /\ outbounds' = Append(outbounds, NodeOut(doc, tags, next + 1))
            /\ nodeOutbounds' = nodeOutbounds \cup {doc.nodes[next + 1].name}
            /\ warnings' = warnings
         \/ /\ ~doc.nodes[next + 1].supported
            /\ outbounds' = outbounds /\ nodeOutbounds' = nodeOutbounds
            /\ warnings' = warnings \cup {<<"node", next + 1>>}
  BY NodeStep
<1>2. Encodable(doc) /\ next \in Nat /\ NodesIn(doc) \in Nat
  BY DocFacts DEF TagInv, TagTypes
<1>3. /\ NodesMade(doc, tags, nodeOutbounds, outs, warnings, next)
      /\ Origins(doc, tags, nodeOutbounds, outs, next, 0, {})
      /\ groupTags = <<>> /\ IsList(outbounds) /\ IsList(groupTags)
  BY <1>1 DEF OutsInv, AmidNodes, OutLists
<1>4. /\ IsList(outbounds')
      /\ Range(outbounds') = IF doc.nodes[next + 1].supported
                             THEN outs \cup {NodeOut(doc, tags, next + 1)} ELSE outs
  <2>1. CASE doc.nodes[next + 1].supported
    <3> DEFINE made == NodeOut(doc, tags, next + 1)
               longer == Append(outbounds, made)
    <3>1. IsList(longer) /\ Range(longer) = Range(outbounds) \cup {made}
      BY <1>3, AppendList
    <3>2. outbounds' = longer
      BY <1>1, <2>1
    <3> QED BY <2>1, <3>1, <3>2
  <2>2. CASE ~doc.nodes[next + 1].supported
    BY <1>1, <1>3, <2>2
  <2> QED BY <2>1, <2>2
<1> HIDE DEF outs
<1>5. NodesMade(doc, tags, nodeOutbounds', Range(outbounds'), warnings', next + 1)
  <2>1. CASE doc.nodes[next + 1].supported
    <3>1. /\ outs \subseteq Range(outbounds') /\ warnings \subseteq warnings'
          /\ nodeOutbounds' = nodeOutbounds \cup {doc.nodes[next + 1].name}
          /\ NodeOut(doc, tags, next + 1) \in Range(outbounds')
      BY <1>1, <1>4, <2>1
    <3> QED BY <1>2, <1>3, <2>1, <3>1, MoreNodes
  <2>2. CASE ~doc.nodes[next + 1].supported
    <3>1. /\ outs \subseteq Range(outbounds') /\ warnings \subseteq warnings'
          /\ nodeOutbounds' = nodeOutbounds /\ <<"node", next + 1>> \in warnings'
      BY <1>1, <1>4, <2>2
    <3> QED BY <1>2, <1>3, <2>2, <3>1, MoreNodes
  <2> QED BY <2>1, <2>2
<1>6. Origins(doc, tags, nodeOutbounds', Range(outbounds'), next + 1, 0, {})
  <2>1. /\ next + 1 \in 1 .. next + 1 /\ next <= next + 1 /\ next + 1 \in Nat
        /\ 0 \in Nat /\ 0 <= 0 /\ {} \subseteq {}
    BY <1>2
  <2>2. \A o \in Range(outbounds') : o \in outs
          \/ \E i \in 1 .. next + 1 :
                doc.nodes[i].supported /\ o = NodeOut(doc, tags, i)
    BY <1>4, <2>1
  <2>3. Added(doc, tags, nodeOutbounds', outs, Range(outbounds'), next + 1, 0, {})
    BY <2>2 DEF Added
  <2>4. Origins(doc, tags, nodeOutbounds, outs, next, 0, {})
    BY <1>3
  <2> QED BY ONLY <1>2, <2>1, <2>3, <2>4, MoreOrigins
<1>7. next + 1 <= NodesIn(doc)
  BY <1>1, <1>2
<1>8. AmidNodes'
  BY <1>1, <1>3, <1>5, <1>6, <1>7 DEF AmidNodes
<1>9. OutLists'
  BY <1>1, <1>3, <1>4 DEF OutLists
<1> QED BY <1>1, <1>8, <1>9 DEF OutsInv, BeforeOuts, AmidGroups, AfterOuts

LEMMA AllNodesOuts ==
    ASSUME TagInv, OutsInv, AllNodes
    PROVE  OutsInv'
<1> DEFINE outs == Range(outbounds)
<1>1. PICK direct, block :
        /\ UNCHANGED <<doc, tags, nodeOutbounds, groupTags, warnings>>
        /\ pc = "nodes" /\ next = NodesIn(doc) /\ pc' = "groups" /\ next' = 0
        /\ BuiltinOuts(doc) = {direct, block}
        /\ outbounds' = outbounds \o <<direct, block>>
  BY AllNodesStep
<1>2. Encodable(doc) /\ next \in Nat /\ NodesIn(doc) \in Nat /\ GroupsIn(doc) \in Nat
  BY DocFacts DEF TagInv, TagTypes
<1>3. /\ NodesMade(doc, tags, nodeOutbounds, outs, warnings, next)
      /\ Origins(doc, tags, nodeOutbounds, outs, next, 0, {})
      /\ groupTags = <<>> /\ IsList(outbounds) /\ IsList(groupTags)
  BY <1>1 DEF OutsInv, AmidNodes, OutLists
<1>4. IsList(<<direct, block>>) /\ Range(<<direct, block>>) = {direct, block}
  BY PairList
<1>5. IsList(outbounds') /\ Range(outbounds') = outs \cup BuiltinOuts(doc)
  BY <1>1, <1>3, <1>4, ConcatList
<1> HIDE DEF outs
<1>6. NodesMade(doc, tags, nodeOutbounds, Range(outbounds'), warnings, NodesIn(doc))
  BY <1>1, <1>3, <1>5, NodesStay
<1>7. GroupsMade(doc, tags, nodeOutbounds, Range(groupTags), Range(outbounds'), warnings, 0)
  BY <1>3, EmptyList DEF GroupsMade
<1>8. Origins(doc, tags, nodeOutbounds, Range(outbounds'), NodesIn(doc), 0, BuiltinOuts(doc))
  <2>1. next <= NodesIn(doc) /\ 0 <= 0 /\ 0 \in Nat /\ {} \subseteq BuiltinOuts(doc)
    BY <1>1, <1>2
  <2>2. Origins(doc, tags, nodeOutbounds, outs, next, 0, {})
    BY <1>3
  <2>3. Added(doc, tags, nodeOutbounds, outs, Range(outbounds'), NodesIn(doc), 0,
              BuiltinOuts(doc))
    BY <1>5 DEF Added
  <2> QED BY ONLY <1>2, <2>1, <2>2, <2>3, MoreOrigins
<1>9. AmidGroups'
  BY <1>1, <1>2, <1>5, <1>6, <1>7, <1>8 DEF AmidGroups
<1>10. OutLists'
  BY <1>1, <1>3, <1>5 DEF OutLists
<1> QED BY <1>1, <1>9, <1>10 DEF OutsInv, BeforeOuts, AmidNodes, AfterOuts

LEMMA GroupOuts ==
    ASSUME TagInv, OutsInv, ConvertGroup
    PROVE  OutsInv'
<1> DEFINE outs == Range(outbounds)
           group == doc.groups[next + 1]
           converted == ConvertedIn(doc, tags, nodeOutbounds, group)
           tag == tags[group.name]
<1>1. /\ UNCHANGED <<doc, pc, tags, nodeOutbounds>> /\ pc = "groups"
      /\ next < GroupsIn(doc) /\ next' = next + 1
      /\ outbounds' = outbounds \o converted
      /\ groupTags' = IF converted = <<>> THEN groupTags ELSE Append(groupTags, tag)
      /\ warnings \subseteq warnings'
      /\ converted = <<>> => <<"group", next + 1>> \in warnings'
  BY GroupStep
<1>2. /\ Encodable(doc) /\ next \in Nat /\ NodesIn(doc) \in Nat /\ GroupsIn(doc) \in Nat
      /\ next + 1 \in 1 .. GroupsIn(doc)
  BY <1>1, DocFacts DEF TagInv, TagTypes
<1>3. /\ NodesMade(doc, tags, nodeOutbounds, outs, warnings, NodesIn(doc))
      /\ GroupsMade(doc, tags, nodeOutbounds, Range(groupTags), outs, warnings, next)
      /\ BuiltinOuts(doc) \subseteq outs
      /\ Origins(doc, tags, nodeOutbounds, outs, NodesIn(doc), next, BuiltinOuts(doc))
      /\ IsList(outbounds) /\ IsList(groupTags)
  BY <1>1 DEF OutsInv, AmidGroups, OutLists
<1>4. IsList(converted)
  BY <1>2, ConvertedList
<1> HIDE DEF converted, tag
<1>5. IsList(outbounds') /\ Range(outbounds') = outs \cup Range(converted)
  BY <1>1, <1>3, <1>4, ConcatList
<1>6. /\ IsList(groupTags')
      /\ converted = <<>> => groupTags' = groupTags
      /\ converted # <<>> => Range(groupTags') = Range(groupTags) \cup {tag}
  BY <1>1, <1>3, AppendList
<1> HIDE DEF outs
<1>7. NodesMade(doc, tags, nodeOutbounds, Range(outbounds'), warnings', NodesIn(doc))
  BY <1>1, <1>3, <1>5, NodesStay
<1>8. GroupsMade(doc, tags, nodeOutbounds, Range(groupTags'), Range(outbounds'),
                 warnings', next + 1)
  <2> DEFINE tagged == Range(groupTags)
             tagged2 == Range(groupTags')
             outs2 == Range(outbounds')
  <2>1. outs \subseteq outs2 /\ warnings \subseteq warnings' /\ next \in Nat
    BY <1>1, <1>2, <1>5
  <2>2. IF converted = <<>> THEN tagged2 = tagged /\ <<"group", next + 1>> \in warnings'
        ELSE tagged2 = tagged \cup {tag} /\ Range(converted) \subseteq outs2
    <3>1. CASE converted = <<>>
      BY <1>1, <1>6, <3>1
    <3>2. CASE converted # <<>>
      BY <1>5, <1>6, <3>2
    <3> QED BY <3>1, <3>2
  <2> HIDE DEF tagged, tagged2, outs2
  <2>3. GroupsMade(doc, tags, nodeOutbounds, tagged, outs, warnings, next)
    BY <1>3 DEF tagged
  <2>4. GroupsMade(doc, tags, nodeOutbounds, tagged2, outs2, warnings', next + 1)
    BY <2>1, <2>2, <2>3, MoreGroups DEF converted, tag
  <2> QED BY <2>4 DEF tagged2, outs2
<1>9. Origins(doc, tags, nodeOutbounds, Range(outbounds'), NodesIn(doc), next + 1,
              BuiltinOuts(doc))
  <2>1. next <= next + 1 /\ next + 1 \in Nat /\ next + 1 \in 1 .. next + 1
    BY <1>2
  <2>2. Origins(doc, tags, nodeOutbounds, outs, NodesIn(doc), next, BuiltinOuts(doc))
    BY <1>3
  <2>3. Added(doc, tags, nodeOutbounds, outs, Range(outbounds'), NodesIn(doc), next + 1,
              BuiltinOuts(doc))
    BY <1>5, <2>1 DEF Added, converted
  <2>4. NodesIn(doc) <= NodesIn(doc)
    BY <1>2
  <2> QED BY ONLY <1>2, <2>1, <2>2, <2>3, <2>4, MoreOrigins
<1>10. next + 1 <= GroupsIn(doc) /\ BuiltinOuts(doc) \subseteq Range(outbounds')
  BY <1>1, <1>2, <1>3, <1>5
<1>11. AmidGroups'
  BY <1>1, <1>7, <1>8, <1>9, <1>10 DEF AmidGroups
<1>12. OutLists'
  BY <1>5, <1>6 DEF OutLists
<1> QED BY <1>1, <1>11, <1>12 DEF OutsInv, BeforeOuts, AmidNodes, AfterOuts

LEMMA AllGroupsOuts ==
    ASSUME TagInv, OutsInv, AllGroups
    PROVE  OutsInv'
<1> DEFINE outs == Range(outbounds)
           proxy == ProxyOut(doc, tags, groupTags)
<1>1. /\ UNCHANGED <<doc, tags, nodeOutbounds, groupTags, warnings>>
      /\ pc = "groups" /\ next = GroupsIn(doc) /\ next' = 0
      /\ \/ pc' = "failed" /\ outbounds' = outbounds
         \/ /\ pc' = "rules" /\ SelectableIn(doc, tags, groupTags) # <<>>
            /\ outbounds' = Append(outbounds, proxy)
  BY AllGroupsStep
<1>2. Encodable(doc) /\ NodesIn(doc) \in Nat /\ GroupsIn(doc) \in Nat
  BY DocFacts DEF TagInv, TagTypes
<1>3. /\ NodesMade(doc, tags, nodeOutbounds, outs, warnings, NodesIn(doc))
      /\ GroupsMade(doc, tags, nodeOutbounds, Range(groupTags), outs, warnings,
                    GroupsIn(doc))
      /\ BuiltinOuts(doc) \subseteq outs
      /\ Origins(doc, tags, nodeOutbounds, outs, NodesIn(doc), GroupsIn(doc),
                 BuiltinOuts(doc))
      /\ IsList(outbounds) /\ IsList(groupTags)
  BY <1>1 DEF OutsInv, AmidGroups, OutLists
<1>4. CASE pc' = "failed"
  <2>1. outbounds' = outbounds
    BY <1>1, <1>4
  <2>2. OutLists'
    BY <1>1, <1>3, <2>1 DEF OutLists
  <2> QED BY <1>4, <2>2 DEF OutsInv, BeforeOuts, AmidNodes, AmidGroups, AfterOuts
<1>5. CASE pc' # "failed"
  <2>1. /\ pc' = "rules" /\ SelectableIn(doc, tags, groupTags) # <<>>
        /\ outbounds' = Append(outbounds, proxy)
    BY <1>1, <1>5
  <2> HIDE DEF proxy
  <2>2. IsList(outbounds') /\ Range(outbounds') = outs \cup {proxy}
    BY <1>3, <2>1, AppendList
  <2> HIDE DEF outs
  <2>3. NodesMade(doc, tags, nodeOutbounds, Range(outbounds'), warnings, NodesIn(doc))
    BY <1>3, <2>2, NodesStay
  <2>4. GroupsMade(doc, tags, nodeOutbounds, Range(groupTags), Range(outbounds'),
                   warnings, GroupsIn(doc))
    BY <1>3, <2>2, GroupsStay
  <2>5. Fixed(doc, tags, groupTags) = BuiltinOuts(doc) \cup {proxy}
    BY DEF Fixed, proxy
  <2>6. Origins(doc, tags, nodeOutbounds, Range(outbounds'), NodesIn(doc), GroupsIn(doc),
                Fixed(doc, tags, groupTags))
    <3>1. Added(doc, tags, nodeOutbounds, outs, Range(outbounds'), NodesIn(doc),
                GroupsIn(doc), Fixed(doc, tags, groupTags))
      BY <2>2, <2>5 DEF Added
    <3>2. NodesIn(doc) <= NodesIn(doc) /\ GroupsIn(doc) <= GroupsIn(doc)
      BY <1>2
    <3>3. BuiltinOuts(doc) \subseteq Fixed(doc, tags, groupTags)
      BY <2>5
    <3>4. Origins(doc, tags, nodeOutbounds, outs, NodesIn(doc), GroupsIn(doc),
                  BuiltinOuts(doc))
      BY <1>3
    <3> QED BY ONLY <1>2, <3>1, <3>2, <3>3, <3>4, MoreOrigins
  <2>7. Fixed(doc, tags, groupTags) \subseteq Range(outbounds')
    BY <1>3, <2>2, <2>5
  <2>8. AllMade(doc, tags, nodeOutbounds, groupTags, Range(outbounds'), warnings)
    BY <2>1, <2>3, <2>4, <2>6, <2>7 DEF AllMade
  <2>9. OutLists' /\ AfterOuts'
    BY <1>1, <1>3, <2>2, <2>8 DEF OutLists, AfterOuts
  <2> QED BY <2>1, <2>9 DEF OutsInv, BeforeOuts, AmidNodes, AmidGroups
<1> QED BY <1>4, <1>5

LEMMA QuietOuts ==
    ASSUME TagInv, OutsInv,
           \/ CheckInbounds \/ KnownName \/ Collide \/ Allocate \/ AllNamed
           \/ ConvertRule \/ AllRules \/ Finished \/ UNCHANGED vars
    PROVE  OutsInv'
<1>1. UNCHANGED <<doc, outbounds, nodeOutbounds, groupTags>>
  BY DEF CheckInbounds, KnownName, Collide, Allocate, AllNamed, ConvertRule, AllRules,
         Finished, vars
<1>2. OutLists'
  BY <1>1 DEF OutsInv, OutLists
<1>3. CASE CheckInbounds \/ KnownName \/ Collide \/ Allocate
  <2>1. pc \in {"inbounds", "tags"} /\ pc' \in {"tags", "failed"}
    BY <1>3 DEF CheckInbounds, KnownName, Collide, Allocate
  <2> QED BY <1>1, <1>2, <2>1 DEF OutsInv, BeforeOuts, AmidNodes, AmidGroups, AfterOuts
<1>4. CASE AllNamed
  <2>1. pc = "tags" /\ pc' = "nodes" /\ next' = 0
    BY <1>4 DEF AllNamed
  <2>2. outbounds' = <<>> /\ nodeOutbounds' = {} /\ groupTags' = <<>>
    BY <1>1, <2>1 DEF OutsInv, BeforeOuts
  <2>3. Range(outbounds') = {}
    BY <2>2, EmptyList
  <2>4. NodesMade(doc', tags', nodeOutbounds', Range(outbounds'), warnings', 0)
    BY <2>2 DEF NodesMade
  <2>5. Origins(doc', tags', nodeOutbounds', Range(outbounds'), 0, 0, {})
    BY <2>3 DEF Origins
  <2>6. Encodable(doc) /\ NodesIn(doc) \in Nat
    BY DocFacts DEF TagInv, TagTypes
  <2>7. AmidNodes'
    BY <1>1, <2>1, <2>2, <2>4, <2>5, <2>6 DEF AmidNodes
  <2> QED BY <1>2, <2>1, <2>7 DEF OutsInv, BeforeOuts, AmidGroups, AfterOuts
<1>5. CASE ConvertRule \/ AllRules
  <2>1. /\ pc = "rules" /\ pc' \in {"rules", "done"} /\ UNCHANGED tags
        /\ warnings \subseteq warnings'
    BY <1>5 DEF ConvertRule, AllRules
  <2>2. AllMade(doc, tags, nodeOutbounds, groupTags, Range(outbounds), warnings)
    BY <2>1 DEF OutsInv, AfterOuts
  <2>3. AllMade(doc, tags, nodeOutbounds, groupTags, Range(outbounds), warnings')
    BY <2>1, <2>2, NodesStay, GroupsStay DEF AllMade
  <2>4. AfterOuts'
    BY <1>1, <2>1, <2>3 DEF AfterOuts
  <2> QED BY <1>2, <2>1, <2>4 DEF OutsInv, BeforeOuts, AmidNodes, AmidGroups
<1>6. CASE Finished \/ UNCHANGED vars
  <2>1. UNCHANGED <<pc, next, tags, warnings>>
    BY <1>6 DEF Finished, vars
  <2> QED BY <1>1, <2>1 DEF OutsInv, OutLists, BeforeOuts, AmidNodes, AmidGroups, AfterOuts
<1> QED BY <1>3, <1>4, <1>5, <1>6

LEMMA StepOuts ==
    ASSUME TagInv, OutsInv, [Next]_vars
    PROVE  OutsInv'
BY NodeOuts, AllNodesOuts, GroupOuts, AllGroupsOuts, QuietOuts DEF Next

--------------------------------------------------------------------------------
(* Rules.                                                                     *)

PolicyIn(given, policy) ==
    IF policy \in DirectNames THEN "direct"
    ELSE IF policy \in RejectNames \cup DropNames THEN "reject"
    ELSE IF policy \in ProxyNames THEN "proxy"
    ELSE IF policy \in DOMAIN given THEN given[policy]
    ELSE ""

RoutedIn(given, rule) ==
    [match |-> rule.match, refs |-> rule.codes \o rule.refs, action |-> rule.action,
     outbound |-> IF rule.action = "reject" THEN "" ELSE PolicyIn(given, rule.target)]

\* What convertRouteRule refuses.
Refused(rule) == rule.action = "route" /\ rule.outbound = ""

RuleTold(told, i) == <<"rule", i>> \in told

\* The rules, of the first n, that a class of traffic meets and that were kept,
\* and the converted rules that it meets.
KeptFor(d, told, c, n) == {i \in 1 .. n : c \in d.rules[i].match /\ ~RuleTold(told, i)}
MetBy(rr, c) == {k \in 1 .. Len(rr) : c \in rr[k].match}

\* The first converted rule that the class meets comes from the first that was kept.
ClassRouted(d, given, rr, told, c, n) ==
    \/ KeptFor(d, told, c, n) = {} /\ MetBy(rr, c) = {}
    \/ \E i \in KeptFor(d, told, c, n), k \in MetBy(rr, c) :
          /\ \A j \in KeptFor(d, told, c, n) : i <= j
          /\ \A l \in MetBy(rr, c) : k <= l
          /\ rr[k] = RoutedIn(given, d.rules[i])
          /\ ~Refused(rr[k])

Routes(d, given, rr, told, n) ==
    \A c \in Traffic \ (Dns \cup Private) : ClassRouted(d, given, rr, told, c, n)

\* Each converted rule is built in or comes from a rule of the document.
RuleOrigins(d, given, rr, n) ==
    \A r \in Range(rr) :
        \/ r \in Range(BuiltinRules)
        \/ \E i \in 1 .. n : r = RoutedIn(given, d.rules[i]) /\ ~Refused(r)

\* Each rule is converted or told of.
ToldRules(told, n) == {i \in 1 .. n : RuleTold(told, i)}
RulesCounted(rr, told, n) == Len(rr) + Cardinality(ToldRules(told, n)) = n + 2

RulesMade(d, given, rr, told, n) ==
    /\ IsList(rr)
    /\ Routes(d, given, rr, told, n)
    /\ RuleOrigins(d, given, rr, n)
    /\ RulesCounted(rr, told, n)
    /\ \A i : RuleTold(told, i) => i \in 1 .. n

BeforeRules ==
    pc \in {"inbounds", "tags", "nodes", "groups"} => \A i : ~RuleTold(warnings, i)

AmidRules ==
    pc = "rules" => next <= RulesIn(doc) /\ RulesMade(doc, tags, routeRules, warnings, next)

AfterRules == pc = "done" => RulesMade(doc, tags, routeRules, warnings, RulesIn(doc))

RulesInv == BeforeRules /\ AmidRules /\ AfterRules

LEMMA RoutedIsIn == \A rule : Routed(rule) = RoutedIn(tags, rule)
<1>1. \A policy : PolicyTag(policy) = PolicyIn(tags, policy)
  BY DEF PolicyTag, PolicyIn
<1> QED BY <1>1 DEF Routed, RoutedIn

LEMMA RuleStep ==
    ASSUME ConvertRule
    PROVE  LET routed == RoutedIn(tags, doc.rules[next + 1])
           IN  /\ UNCHANGED <<doc, pc, tags>> /\ pc = "rules"
               /\ next < RulesIn(doc) /\ next' = next + 1
               /\ \/ /\ Refused(routed) /\ routeRules' = routeRules
                     /\ warnings' = warnings \cup {<<"rule", next + 1>>}
                  \/ /\ ~Refused(routed) /\ routeRules' = Append(routeRules, routed)
                     /\ warnings' = warnings
BY RoutedIsIn DEF ConvertRule, RulesIn, Refused

\* One more rule is told of.
LEMMA RefusedRule ==
    ASSUME NEW d, NEW given, NEW rr, NEW told, NEW n \in Nat,
           RulesMade(d, given, rr, told, n),
           NEW told2, told2 = told \cup {<<"rule", n + 1>>}
    PROVE  RulesMade(d, given, rr, told2, n + 1)
<1>0. /\ \A i \in 1 .. n + 1 : i \in 1 .. n \/ i = n + 1
      /\ \A i \in 1 .. n : i \in 1 .. n + 1 /\ i # n + 1
      /\ n + 1 \in 1 .. n + 1
  OBVIOUS
<1>1. \A i : RuleTold(told2, i) <=> RuleTold(told, i) \/ i = n + 1
  <2>1. \A i : <<"rule", i>> = <<"rule", n + 1>> <=> i = n + 1
    OBVIOUS
  <2> QED BY <2>1 DEF RuleTold
<1>2. \A c : KeptFor(d, told2, c, n + 1) = KeptFor(d, told, c, n)
  BY <1>0, <1>1 DEF KeptFor
<1>3. Routes(d, given, rr, told2, n + 1)
  BY <1>2 DEF RulesMade, Routes, ClassRouted
<1>4. RuleOrigins(d, given, rr, n + 1)
  BY <1>0 DEF RulesMade, RuleOrigins
<1>5. RulesCounted(rr, told2, n + 1)
  <2>1. ToldRules(told2, n + 1) = ToldRules(told, n) \cup {n + 1}
    BY <1>0, <1>1 DEF ToldRules
  <2>2. IsFiniteSet(ToldRules(told, n)) /\ n + 1 \notin ToldRules(told, n)
    <3>1. IsFiniteSet(1 .. n)
      BY FS_Interval
    <3>2. ToldRules(told, n) \subseteq 1 .. n
      BY DEF ToldRules
    <3> QED BY <1>0, <3>1, <3>2, FS_Subset
  <2>3. /\ Cardinality(ToldRules(told2, n + 1)) = Cardinality(ToldRules(told, n)) + 1
        /\ Cardinality(ToldRules(told, n)) \in Nat
    BY <2>1, <2>2, FS_AddElement, FS_CardinalityType
  <2>4. Len(rr) \in Nat
    BY ListFacts DEF RulesMade
  <2> QED BY <2>3, <2>4 DEF RulesMade, RulesCounted
<1>6. \A i : RuleTold(told2, i) => i \in 1 .. n + 1
  BY <1>0, <1>1 DEF RulesMade
<1>7. IsList(rr)
  BY DEF RulesMade
<1> QED BY <1>3, <1>4, <1>5, <1>6, <1>7 DEF RulesMade

\* One more rule is converted.
LEMMA ConvertedRule ==
    ASSUME NEW d, NEW given, NEW rr, NEW told, NEW n \in Nat,
           RulesMade(d, given, rr, told, n), ~Refused(RoutedIn(given, d.rules[n + 1])),
           NEW rr2, rr2 = Append(rr, RoutedIn(given, d.rules[n + 1]))
    PROVE  RulesMade(d, given, rr2, told, n + 1)
<1> DEFINE routed == RoutedIn(given, d.rules[n + 1])
           m == Len(rr)
<1>0. /\ \A i \in 1 .. n + 1 : i \in 1 .. n \/ i = n + 1
      /\ \A i \in 1 .. n : i \in 1 .. n + 1 /\ i # n + 1 /\ i <= n + 1
      /\ n + 1 \in 1 .. n + 1
  OBVIOUS
<1>1. /\ IsList(rr) /\ Routes(d, given, rr, told, n) /\ RuleOrigins(d, given, rr, n)
      /\ RulesCounted(rr, told, n) /\ \A i : RuleTold(told, i) => i \in 1 .. n
  BY DEF RulesMade
<1>2. m \in Nat
  BY <1>1, ListFacts
<1>3. /\ IsList(rr2) /\ Len(rr2) = m + 1 /\ rr2[m + 1] = routed
      /\ \A k \in 1 .. m : rr2[k] = rr[k]
      /\ Range(rr2) = Range(rr) \cup {routed}
  BY <1>1, AppendList
<1>4. ~RuleTold(told, n + 1)
  BY <1>0, <1>1
<1>5. routed.match = d.rules[n + 1].match
  BY DEF RoutedIn
<1>6. ~Refused(routed)
  OBVIOUS
<1> HIDE DEF routed
<1>7. ASSUME NEW c, ClassRouted(d, given, rr, told, c, n)
      PROVE  ClassRouted(d, given, rr2, told, c, n + 1)
  <2> DEFINE K1 == KeptFor(d, told, c, n)
             K2 == KeptFor(d, told, c, n + 1)
             M1 == MetBy(rr, c)
             M2 == MetBy(rr2, c)
  <2>1. K2 = IF c \in d.rules[n + 1].match THEN K1 \cup {n + 1} ELSE K1
    BY <1>0, <1>4 DEF KeptFor
  <2>2. M2 = IF c \in d.rules[n + 1].match THEN M1 \cup {m + 1} ELSE M1
    <3>1. /\ \A k \in 1 .. m + 1 : k \in 1 .. m \/ k = m + 1
          /\ \A k \in 1 .. m : k \in 1 .. m + 1
          /\ m + 1 \in 1 .. m + 1
      BY <1>2
    <3>2. M2 = {k \in 1 .. m + 1 : c \in rr2[k].match}
      BY <1>3 DEF MetBy
    <3>3. M1 = {k \in 1 .. m : c \in rr[k].match}
      BY DEF MetBy
    <3> HIDE DEF M1, M2, m
    <3> QED BY <1>3, <1>5, <3>1, <3>2, <3>3
  <2>3. K1 \subseteq 1 .. n /\ M1 \subseteq 1 .. m
    BY DEF KeptFor, MetBy
  <2>4. ASSUME K1 = {}, M1 = {} PROVE ClassRouted(d, given, rr2, told, c, n + 1)
    <3>1. CASE c \in d.rules[n + 1].match
      <4>1. K2 = {n + 1} /\ M2 = {m + 1}
        BY <2>1, <2>2, <2>4, <3>1
      <4>2. n + 1 <= n + 1 /\ m + 1 <= m + 1
        BY <1>2
      <4> QED BY <1>3, <1>6, <4>1, <4>2 DEF ClassRouted, routed
    <3>2. CASE c \notin d.rules[n + 1].match
      BY <2>1, <2>2, <2>4, <3>2 DEF ClassRouted
    <3> QED BY <3>1, <3>2
  <2>5. ASSUME NEW i \in K1, NEW k \in M1, \A j \in K1 : i <= j, \A l \in M1 : k <= l,
               rr[k] = RoutedIn(given, d.rules[i]), ~Refused(rr[k])
        PROVE  ClassRouted(d, given, rr2, told, c, n + 1)
    <3>1. i \in 1 .. n /\ k \in 1 .. m /\ i \in K2 /\ k \in M2
      BY <2>1, <2>2, <2>3
    <3>2. rr2[k] = rr[k]
      BY <1>3, <3>1
    <3>3. i <= n + 1 /\ k <= m + 1
      BY <1>2, <3>1
    <3>4. (\A j \in K2 : i <= j) /\ (\A l \in M2 : k <= l)
      BY <2>1, <2>2, <2>5, <3>3
    <3> QED BY <2>5, <3>1, <3>2, <3>4 DEF ClassRouted
  <2> QED BY <1>7, <2>4, <2>5 DEF ClassRouted
<1>8. Routes(d, given, rr2, told, n + 1)
  BY <1>1, <1>7 DEF Routes
<1>9. RuleOrigins(d, given, rr2, n + 1)
  BY <1>0, <1>1, <1>3, <1>6 DEF RuleOrigins, routed
<1>10. RulesCounted(rr2, told, n + 1)
  <2>1. ToldRules(told, n + 1) = ToldRules(told, n)
    BY <1>0, <1>4 DEF ToldRules
  <2>2. Cardinality(ToldRules(told, n)) \in Nat
    <3>1. IsFiniteSet(1 .. n) /\ ToldRules(told, n) \subseteq 1 .. n
      BY FS_Interval DEF ToldRules
    <3> QED BY <3>1, FS_Subset, FS_CardinalityType
  <2>3. m + Cardinality(ToldRules(told, n)) = n + 2
    BY <1>1 DEF RulesCounted
  <2>4. m + 1 + Cardinality(ToldRules(told, n)) = n + 1 + 2
    BY <1>2, <2>2, <2>3
  <2> QED BY <1>3, <2>1, <2>4 DEF RulesCounted
<1>11. \A i : RuleTold(told, i) => i \in 1 .. n + 1
  BY <1>0, <1>1
<1> QED BY <1>3, <1>8, <1>9, <1>10, <1>11 DEF RulesMade

\* The rules that come first are met by nothing but DNS and private addresses.
LEMMA BuiltinRulesMade ==
    ASSUME NEW d, NEW given, NEW told, \A i : ~RuleTold(told, i)
    PROVE  RulesMade(d, given, BuiltinRules, told, 0)
<1> DEFINE first == [match |-> Dns, refs |-> <<>>, action |-> "hijack-dns", outbound |-> ""]
           second == [match |-> Private, refs |-> <<>>, action |-> "route",
                      outbound |-> "direct"]
           f == <<first, second>>
<1>1. BuiltinRules = f
  BY DEF BuiltinRules
<1>2. first.match = Dns /\ second.match = Private
  OBVIOUS
<1> HIDE DEF first, second
<1>4. IsList(f) /\ Len(f) = 2 /\ f[1] = first /\ f[2] = second
  BY PairList
<1> HIDE DEF f
<1>5. \A k \in 1 .. 2 : k = 1 \/ k = 2
  OBVIOUS
<1>6. \A c \in Traffic \ (Dns \cup Private) : MetBy(f, c) = {}
  BY <1>2, <1>4, <1>5 DEF MetBy
<1>7. 1 .. 0 = {}
  OBVIOUS
<1>8. \A c : KeptFor(d, told, c, 0) = {}
  BY <1>7 DEF KeptFor
<1>9. Routes(d, given, f, told, 0)
  BY <1>6, <1>8 DEF Routes, ClassRouted
<1>10. RulesCounted(f, told, 0)
  <2>1. ToldRules(told, 0) = {}
    BY <1>7 DEF ToldRules
  <2> QED BY <1>4, <2>1, FS_EmptySet DEF RulesCounted
<1>11. RuleOrigins(d, given, f, 0)
  BY <1>1 DEF RuleOrigins
<1> QED BY <1>1, <1>4, <1>9, <1>10, <1>11 DEF RulesMade

\* What is told before the rules are converted is about something else.
LEMMA OtherWarnings ==
    ASSUME \/ CheckInbounds \/ KnownName \/ Collide \/ Allocate \/ AllNamed
           \/ ConvertNode \/ AllNodes \/ ConvertGroup \/ AllGroups,
           \A i : ~RuleTold(warnings, i)
    PROVE  \A i : ~RuleTold(warnings', i)
<1>1. CASE KnownName \/ Collide \/ Allocate \/ AllNamed \/ AllNodes \/ AllGroups
  BY <1>1 DEF KnownName, Collide, Allocate, AllNamed, AllNodes, AllGroups
<1>2. CASE CheckInbounds
  <2>1. \A i, j : <<"exposed", j>> # <<"rule", i>>
    OBVIOUS
  <2>2. warnings' = warnings \/ \A w \in warnings' : \E j : w = <<"exposed", j>>
    BY <1>2 DEF CheckInbounds
  <2> QED BY <2>1, <2>2 DEF RuleTold
<1>3. CASE ConvertNode
  <2>1. \A i, j : <<"node", j>> # <<"rule", i>>
    OBVIOUS
  <2>2. warnings' = warnings \/ \E j : warnings' = warnings \cup {<<"node", j>>}
    BY <1>3 DEF ConvertNode
  <2> QED BY <2>1, <2>2 DEF RuleTold
<1>4. CASE ConvertGroup
  <2>1. \A i, j, m : /\ <<"group", j>> # <<"rule", i>> /\ <<"approximated", j>> # <<"rule", i>>
                     /\ <<"member", j, m>> # <<"rule", i>>
    OBVIOUS
  <2>2. \A g, j : \A w \in GroupWarnings(g, j) :
           w = <<"group", j>> \/ w = <<"approximated", j>> \/ \E m : w = <<"member", j, m>>
    BY DEF GroupWarnings
  <2>3. \A g, j, i : <<"rule", i>> \notin GroupWarnings(g, j)
    BY <2>1, <2>2
  <2>4. \E g, j : warnings' = warnings \cup GroupWarnings(g, j)
    BY <1>4 DEF ConvertGroup
  <2> QED BY <2>3, <2>4 DEF RuleTold
<1> QED BY <1>1, <1>2, <1>3, <1>4

LEMMA InitRules == Idle => RulesInv
<1> SUFFICES ASSUME Idle PROVE RulesInv
  OBVIOUS
<1>1. pc = "inbounds" /\ warnings = {}
  BY DEF Idle
<1> QED BY <1>1 DEF RulesInv, BeforeRules, AmidRules, AfterRules, RuleTold

LEMMA StepRules ==
    ASSUME TagInv, RulesInv, [Next]_vars
    PROVE  RulesInv'
<1>0. Encodable(doc) /\ next \in Nat /\ RulesIn(doc) \in Nat /\ 0 <= RulesIn(doc)
  BY DocFacts DEF TagInv, TagTypes
<1>1. CASE \/ CheckInbounds \/ KnownName \/ Collide \/ Allocate \/ AllNamed
           \/ ConvertNode \/ AllNodes \/ ConvertGroup
  <2>1. /\ pc \in {"inbounds", "tags", "nodes", "groups"}
        /\ pc' \in {"tags", "nodes", "groups", "failed"}
    <3>1. CASE CheckInbounds \/ KnownName \/ Collide \/ Allocate \/ AllNamed
      BY <3>1 DEF CheckInbounds, KnownName, Collide, Allocate, AllNamed
    <3>2. CASE ConvertNode \/ AllNodes \/ ConvertGroup
      BY <3>2 DEF ConvertNode, AllNodes, ConvertGroup
    <3> QED BY <1>1, <3>1, <3>2
  <2>2. \A i : ~RuleTold(warnings', i)
    BY <1>1, <2>1, OtherWarnings DEF RulesInv, BeforeRules
  <2> QED BY <2>1, <2>2 DEF RulesInv, BeforeRules, AmidRules, AfterRules
<1>2. CASE AllGroups
  <2>1. /\ UNCHANGED <<doc, tags>> /\ pc = "groups" /\ next' = 0
        /\ pc' = "failed" \/ (pc' = "rules" /\ routeRules' = BuiltinRules)
    BY <1>2, AllGroupsStep
  <2>2. \A i : ~RuleTold(warnings', i)
    BY <1>2, <2>1, OtherWarnings DEF RulesInv, BeforeRules
  <2>3. RulesMade(doc, tags, BuiltinRules, warnings', 0)
    BY <2>2, BuiltinRulesMade
  <2>4. AmidRules'
    BY <1>0, <2>1, <2>3 DEF AmidRules
  <2> QED BY <2>1, <2>4 DEF RulesInv, BeforeRules, AfterRules
<1>3. CASE ConvertRule
  <2> DEFINE routed == RoutedIn(tags, doc.rules[next + 1])
  <2>1. /\ UNCHANGED <<doc, pc, tags>> /\ pc = "rules"
        /\ next < RulesIn(doc) /\ next' = next + 1
        /\ \/ /\ Refused(routed) /\ routeRules' = routeRules
              /\ warnings' = warnings \cup {<<"rule", next + 1>>}
           \/ /\ ~Refused(routed) /\ routeRules' = Append(routeRules, routed)
              /\ warnings' = warnings
    BY <1>3, RuleStep
  <2>2. RulesMade(doc, tags, routeRules, warnings, next)
    BY <2>1 DEF RulesInv, AmidRules
  <2>3. RulesMade(doc, tags, routeRules', warnings', next + 1)
    <3>1. CASE Refused(routed)
      BY <1>0, <2>1, <2>2, <3>1, RefusedRule
    <3>2. CASE ~Refused(routed)
      BY <1>0, <2>1, <2>2, <3>2, ConvertedRule
    <3> QED BY <3>1, <3>2
  <2>4. next + 1 <= RulesIn(doc)
    BY <1>0, <2>1
  <2>5. AmidRules'
    BY <2>1, <2>3, <2>4 DEF AmidRules
  <2> QED BY <2>1, <2>5 DEF RulesInv, BeforeRules, AfterRules
<1>4. CASE AllRules
  <2>1. /\ UNCHANGED <<doc, tags, routeRules, warnings>> /\ pc = "rules" /\ pc' = "done"
        /\ next = RulesIn(doc)
    BY <1>4 DEF AllRules, RulesIn
  <2>2. AfterRules'
    BY <2>1 DEF RulesInv, AmidRules, AfterRules
  <2> QED BY <2>1, <2>2 DEF RulesInv, BeforeRules, AmidRules
<1>5. CASE Finished \/ UNCHANGED vars
  <2>1. UNCHANGED <<doc, pc, next, tags, routeRules, warnings>>
    BY <1>5 DEF Finished, vars
  <2> QED BY <2>1 DEF RulesInv, BeforeRules, AmidRules, AfterRules
<1> QED BY <1>1, <1>2, <1>3, <1>4, <1>5 DEF Next

\* What holds throughout an encoding.
EncodeInv == TagInv /\ OutsInv /\ RulesInv

LEMMA InitEncode == Encodable(doc) /\ Idle => EncodeInv
BY InitTags, InitOuts, InitRules DEF EncodeInv

LEMMA StepEncode == EncodeInv /\ [Next]_vars => EncodeInv'
BY StepTags, StepOuts, StepRules DEF EncodeInv

THEOREM Encoding == Spec => []EncodeInv
<1>1. Init => EncodeInv
  BY InitEncode, DocumentAssumption DEF Init
<1> QED BY <1>1, StepEncode, PTL DEF Spec

LEMMA Naming == Spec => []NamesInv
<1>1. Init => NamesInv
  BY DocumentAssumption DEF Init, Idle, NamesInv
<1>2. EncodeInv /\ NamesInv /\ [Next]_vars => NamesInv'
  BY StepNames DEF EncodeInv
<1> QED BY <1>1, <1>2, Encoding, PTL DEF Spec

--------------------------------------------------------------------------------
(* Routing is kept.                                                           *)

\* A name is that of a node or of a group.
LEMMA NameOf ==
    ASSUME NEW d, Encodable(d), NEW i \in 1 .. Total(d)
    PROVE  \/ i \in 1 .. NodesIn(d) /\ NameIn(d, i) = d.nodes[i].name
           \/ \E j \in 1 .. GroupsIn(d) :
                 i = NodesIn(d) + j /\ NameIn(d, i) = d.groups[j].name
<1> DEFINE m == NodesIn(d)
           n == GroupsIn(d)
<1>1. m \in Nat /\ n \in Nat /\ i \in 1 .. m + n
  BY DocFacts DEF Total
<1>2. NameIn(d, i) = IF i <= m THEN d.nodes[i].name ELSE d.groups[i - m].name
  BY DEF NameIn, NodesIn
<1> HIDE DEF m, n
<1>3. CASE i <= m
  <2>1. i \in 1 .. m
    BY <1>1, <1>3
  <2> QED BY <1>2, <1>3, <2>1 DEF m
<1>4. CASE ~(i <= m)
  <2>1. i - m \in 1 .. n /\ i = m + (i - m)
    BY <1>1, <1>4
  <2>2. NameIn(d, i) = d.groups[i - m].name
    BY <1>2, <1>4
  <2> QED BY <2>1, <2>2 DEF m, n
<1> QED BY <1>3, <1>4

\* The members of a group that is not a relay are those of its outbound.
LEMMA GroupOut ==
    ASSUME NEW d, NEW given, NEW made, NEW g, g.type # "relay",
           ConvertedIn(d, given, made, g) # <<>>
    PROVE  ConvertedIn(d, given, made, g)
              = <<Outbound(TypeOf(g), given[g.name], "", MembersIn(given, g), "", "")>>
BY DEF ConvertedIn

\* The outbounds of a relay are its hops, one for each member.
Dialled(g) == Len(g.members)

RelayMade(d, given, g, hops) ==
    /\ Dialled(g) \in Nat /\ Dialled(g) \in 1 .. Dialled(g)
    /\ Len(hops) = Dialled(g)
    /\ \A k \in 1 .. Dialled(g) : hops[k] = HopOut(d, given, g, k)
    /\ \A o : o \in Range(hops) <=> \E k \in 1 .. Dialled(g) : o = HopOut(d, given, g, k)

LEMMA RelayOut ==
    ASSUME NEW d, Encodable(d), NEW i \in 1 .. GroupsIn(d), NEW given, NEW made,
           d.groups[i].type = "relay", ConvertedIn(d, given, made, d.groups[i]) # <<>>
    PROVE  RelayMade(d, given, d.groups[i], ConvertedIn(d, given, made, d.groups[i]))
<1> DEFINE g == d.groups[i]
           n == Dialled(g)
           hops == [k \in 1 .. n |-> HopOut(d, given, g, k)]
<1>1. n \in Nat
  BY GroupFacts DEF Dialled
<1>2. ConvertedIn(d, given, made, g) = hops
  BY DEF ConvertedIn, Dialled
<1> HIDE DEF n
<1>3. hops \in [1 .. n -> {HopOut(d, given, g, k) : k \in 1 .. n}]
  OBVIOUS
<1>4. Range(hops) = {hops[k] : k \in 1 .. n} /\ IsList(hops) /\ Len(hops) = n
  <2> HIDE DEF hops
  <2> QED BY <1>1, <1>3, FunctionList
<1>5. n # 0
  <2> SUFFICES ASSUME n = 0 PROVE FALSE
    OBVIOUS
  <2>1. hops = [k \in 1 .. 0 |-> HopOut(d, given, g, k)]
    OBVIOUS
  <2>2. hops = <<>>
    BY <2>1
  <2> QED BY <1>2, <2>2
<1>6. n \in 1 .. n
  BY <1>1, <1>5
<1>7. \A k \in 1 .. n : hops[k] = HopOut(d, given, g, k)
  OBVIOUS
<1> HIDE DEF hops
<1>8. \A o : o \in Range(hops) <=> \E k \in 1 .. n : o = HopOut(d, given, g, k)
  BY <1>4, <1>7
<1> QED BY <1>1, <1>2, <1>4, <1>6, <1>7, <1>8 DEF n, RelayMade

\* The last hop of a relay is what its tag is given to.
LastMember(g) == g.members[Len(g.members)]
LastOut(d, given, g) == HopOut(d, given, g, Len(g.members))

LEMMA LastOutIs ==
    ASSUME NEW d, Encodable(d), NEW i \in 1 .. GroupsIn(d), NEW given, NEW made,
           d.groups[i].type = "relay", ConvertedIn(d, given, made, d.groups[i]) # <<>>
    PROVE  /\ LastOut(d, given, d.groups[i]) \in Range(ConvertedIn(d, given, made, d.groups[i]))
           /\ LastOut(d, given, d.groups[i]).tag = given[d.groups[i].name]
           /\ LastOut(d, given, d.groups[i]).server = LastMember(d.groups[i])
<1> DEFINE g == d.groups[i]
           n == Dialled(g)
<1>0. RelayMade(d, given, g, ConvertedIn(d, given, made, g))
  BY RelayOut
<1>1. /\ n \in 1 .. n
      /\ \A o : o \in Range(ConvertedIn(d, given, made, g)) <=>
              \E k \in 1 .. n : o = HopOut(d, given, g, k)
  BY <1>0 DEF RelayMade
<1>2. LastOut(d, given, g) = HopOut(d, given, g, n)
  BY DEF LastOut, Dialled
<1> HIDE DEF n
<1>3. LastOut(d, given, g) \in Range(ConvertedIn(d, given, made, g))
  BY <1>1, <1>2
<1>4. LastOut(d, given, g).tag = given[g.name] /\ LastOut(d, given, g).server = LastMember(g)
  BY DEF LastOut, LastMember, HopOut, HopTagIn, Outbound
<1> QED BY <1>3, <1>4

LEMMA AllIsMade ==
    ASSUME EncodeInv, pc \in {"rules", "done"}
    PROVE  /\ Encodable(doc) /\ TaggedUpTo(doc, tags, Total(doc))
           /\ NodesMade(doc, tags, nodeOutbounds, Outbounds, warnings, NodesIn(doc))
           /\ \A i \in 1 .. GroupsIn(doc) :
                 GroupMade(doc, tags, nodeOutbounds, Range(groupTags), Outbounds, warnings, i)
           /\ Fixed(doc, tags, groupTags) \subseteq Outbounds
           /\ SelectableIn(doc, tags, groupTags) # <<>>
<1>1. Encodable(doc) /\ TaggedUpTo(doc, tags, Total(doc))
  BY DEF EncodeInv, TagInv, TagTypes, TagsGiven, AfterTags
<1>2. AllMade(doc, tags, nodeOutbounds, groupTags, Outbounds, warnings)
  BY DEF EncodeInv, OutsInv, AfterOuts, Outbounds
<1> QED BY <1>1, <1>2 DEF AllMade, GroupsMade

\* What has a tag is an outbound or was skipped.
LEMMA NodeStands ==
    ASSUME EncodeInv, pc \in {"rules", "done"}, NEW i \in 1 .. NodesIn(doc)
    PROVE  \/ \E o \in Tagged(tags[doc.nodes[i].name]) : o.server = doc.nodes[i].name
           \/ Skipped(tags[doc.nodes[i].name])
<1> DEFINE node == doc.nodes[i]
           out == NodeOut(doc, tags, i)
<1>1. CASE node.supported
  <2>1. out \in Outbounds
    BY <1>1, AllIsMade DEF NodesMade
  <2>2. out.tag = tags[node.name] /\ out.server = node.name
    BY DEF NodeOut, Outbound
  <2> HIDE DEF out
  <2> QED BY <2>1, <2>2 DEF Tagged
<1>2. CASE ~node.supported
  <2>1. <<"node", i>> \in warnings
    BY <1>2, AllIsMade DEF NodesMade
  <2> QED BY <2>1 DEF Skipped, NodesIn
<1> QED BY <1>1, <1>2

LEMMA GroupStands ==
    ASSUME EncodeInv, pc \in {"rules", "done"}, NEW i \in 1 .. GroupsIn(doc)
    PROVE  \/ \E o \in Tagged(tags[doc.groups[i].name]) :
                 IF doc.groups[i].type = "relay"
                 THEN o.server = doc.groups[i].members[Len(doc.groups[i].members)]
                 ELSE /\ o.type # "node" /\ o.members = Members(doc.groups[i])
                      /\ Len(o.members) = Len(Members(doc.groups[i]))
           \/ Skipped(tags[doc.groups[i].name]) /\ <<"group", i>> \in warnings
<1> DEFINE group == doc.groups[i]
           converted == ConvertedIn(doc, tags, nodeOutbounds, group)
<1>1. GroupMade(doc, tags, nodeOutbounds, Range(groupTags), Outbounds, warnings, i)
      /\ Encodable(doc)
  BY AllIsMade
<1>2. CASE converted = <<>>
  <2>1. <<"group", i>> \in warnings
    BY <1>1, <1>2 DEF GroupMade
  <2> QED BY <2>1 DEF Skipped, GroupsIn
<1>3. CASE converted # <<>> /\ group.type = "relay"
  <2> DEFINE last == LastOut(doc, tags, group)
  <2>1. Range(converted) \subseteq Outbounds
    BY <1>1, <1>3 DEF GroupMade
  <2>2. /\ last \in Range(converted) /\ last.tag = tags[group.name]
        /\ last.server = LastMember(group)
    BY <1>1, <1>3, LastOutIs
  <2> HIDE DEF converted, last
  <2>3. last \in Tagged(tags[group.name])
    BY <2>1, <2>2 DEF Tagged
  <2> QED BY <1>3, <2>2, <2>3 DEF LastMember
<1>4. CASE converted # <<>> /\ group.type # "relay"
  <2> DEFINE out == Outbound(TypeOf(group), tags[group.name], "", MembersIn(tags, group), "", "")
  <2>1. Range(converted) \subseteq Outbounds
    BY <1>1, <1>4 DEF GroupMade
  <2>2. converted = <<out>>
    BY <1>4, GroupOut
  <2>3. out.tag = tags[group.name] /\ out.members = MembersIn(tags, group)
    BY DEF Outbound
  <2>4. out.type # "node"
    BY DEF Outbound, TypeOf
  <2> HIDE DEF converted, out
  <2>5. out \in Tagged(tags[group.name])
    BY <2>1, <2>2, <2>3, SingleList DEF Tagged
  <2>6. out.members = Members(group) /\ Len(out.members) = Len(Members(group))
    BY <2>3, MembersAreIn
  <2> QED BY <1>4, <2>4, <2>5, <2>6
<1> QED BY <1>2, <1>3, <1>4

\* What policyTag gives stands for the policy.
LEMMA PolicyStands ==
    ASSUME EncodeInv, pc \in {"rules", "done"}, NEW policy, PolicyIn(tags, policy) # ""
    PROVE  StandsFor(PolicyIn(tags, policy), policy)
<1>1. CASE policy \in DirectNames
  <2>1. PolicyIn(tags, policy) = "direct"
    BY <1>1 DEF PolicyIn
  <2> QED BY <1>1, <2>1 DEF StandsFor
<1>2. CASE policy \notin DirectNames /\ policy \in RejectNames \cup DropNames
  <2>1. PolicyIn(tags, policy) = "reject"
    BY <1>2 DEF PolicyIn
  <2> QED BY <1>2, <2>1 DEF StandsFor
<1>3. CASE policy \notin DirectNames \cup RejectNames \cup DropNames /\ policy \in ProxyNames
  <2>1. PolicyIn(tags, policy) = "proxy"
    BY <1>3 DEF PolicyIn
  <2> QED BY <1>3, <2>1 DEF StandsFor
<1>4. CASE policy \notin DirectNames \cup RejectNames \cup DropNames \cup ProxyNames
  <2>1. policy \in DOMAIN tags /\ PolicyIn(tags, policy) = tags[policy]
    BY <1>4 DEF PolicyIn
  <2>2. PICK i \in 1 .. Total(doc) : NameIn(doc, i) = policy
    BY <2>1, AllIsMade DEF TaggedUpTo
  <2>3. CASE i \in 1 .. NodesIn(doc) /\ policy = doc.nodes[i].name
    <3>1. (\E o \in Tagged(tags[policy]) : o.server = policy) \/ Skipped(tags[policy])
      BY <2>3, NodeStands
    <3> QED BY <2>1, <3>1 DEF StandsFor
  <2>4. ASSUME NEW j \in 1 .. GroupsIn(doc), policy = doc.groups[j].name
        PROVE  StandsFor(PolicyIn(tags, policy), policy)
    <3>1. \/ \E o \in Tagged(tags[policy]) :
                IF doc.groups[j].type = "relay"
                THEN o.server = doc.groups[j].members[Len(doc.groups[j].members)]
                ELSE /\ o.type # "node" /\ o.members = Members(doc.groups[j])
                     /\ Len(o.members) = Len(Members(doc.groups[j]))
          \/ Skipped(tags[policy])
      BY <2>4, GroupStands
    <3>2. j \in 1 .. Len(doc.groups)
      BY DEF GroupsIn
    <3>3. CASE Skipped(tags[policy])
      BY <2>1, <3>3 DEF StandsFor
    <3>4. CASE ~Skipped(tags[policy])
      <4>1. PICK o \in Tagged(tags[policy]) :
                IF doc.groups[j].type = "relay"
                THEN o.server = doc.groups[j].members[Len(doc.groups[j].members)]
                ELSE o.type # "node" /\ Len(o.members) = Len(Members(doc.groups[j]))
        BY <3>1, <3>4
      <4> QED BY <2>1, <2>4, <3>2, <4>1 DEF StandsFor
    <3> QED BY <3>3, <3>4
  <2> QED BY <2>2, <2>3, <2>4, NameOf, AllIsMade
<1> QED BY <1>1, <1>2, <1>3, <1>4

\* What policyTag gives for a rule that is not refused.
LEMMA RoutedPolicy ==
    ASSUME NEW given, NEW rule, RoutedIn(given, rule).action = "route",
           ~Refused(RoutedIn(given, rule))
    PROVE  /\ rule.action = "route"
           /\ RoutedIn(given, rule).outbound = PolicyIn(given, rule.target)
           /\ PolicyIn(given, rule.target) # ""
<1> DEFINE routed == RoutedIn(given, rule)
<1>1. routed.action = rule.action
  BY DEF RoutedIn
<1>2. routed.outbound = IF rule.action = "reject" THEN "" ELSE PolicyIn(given, rule.target)
  BY DEF RoutedIn
<1>3. rule.action # "reject"
  BY <1>1
<1>4. routed.outbound # ""
  BY DEF Refused
<1> QED BY <1>1, <1>2, <1>3, <1>4

LEMMA RoutedAction ==
    ASSUME NEW given, NEW rule PROVE RoutedIn(given, rule).action = rule.action
BY DEF RoutedIn

\* The least of a set of numbers is the one that is found.
LEMMA LeastIs ==
    ASSUME NEW S \in SUBSET Nat, NEW i \in S, \A j \in S : i <= j
    PROVE  Min(S) = i
<1>1. Min(S) \in S /\ \A j \in S : Min(S) <= j
  BY DEF Min
<1>2. Min(S) \in Nat /\ i \in Nat /\ i <= Min(S) /\ Min(S) <= i
  BY <1>1
<1> QED BY <1>2

LEMMA RoutingHolds == EncodeInv => RoutingKept
<1> SUFFICES ASSUME EncodeInv, pc = "done", NEW c \in Traffic \ (Dns \cup Private)
             PROVE  LET kept == {i \in 1 .. Len(doc.rules) :
                            c \in doc.rules[i].match /\ <<"rule", i>> \notin warnings}
                        wanted == doc.rules[Min(kept)]
                        given == FirstMatch(routeRules, c)
                    IN  IF kept = {}
                        THEN given = 0
                        ELSE /\ given # 0
                             /\ routeRules[given].action = wanted.action
                             /\ routeRules[given].action = "route" =>
                                    StandsFor(routeRules[given].outbound, wanted.target)
  BY DEF RoutingKept
<1> DEFINE kept == {i \in 1 .. Len(doc.rules) :
                       c \in doc.rules[i].match /\ <<"rule", i>> \notin warnings}
           met == MetBy(routeRules, c)
           given == FirstMatch(routeRules, c)
<1>1. ClassRouted(doc, tags, routeRules, warnings, c, RulesIn(doc))
  BY DEF EncodeInv, RulesInv, AfterRules, RulesMade, Routes
<1>2. kept = KeptFor(doc, warnings, c, RulesIn(doc))
  BY DEF KeptFor, RuleTold, RulesIn
<1>3. given = IF met # {} THEN Min(met) ELSE 0
  BY DEF FirstMatch, SelectInSeq, MetBy
<1>4. kept \subseteq Nat /\ met \subseteq Nat /\ 0 \notin met
  BY DEF MetBy
<1> HIDE DEF kept, met, given
<1>5. CASE kept = {} /\ met = {}
  BY <1>3, <1>5 DEF kept, given
<1>6. CASE ~(kept = {} /\ met = {})
  <2>1. PICK i \in kept, k \in met :
          /\ \A j \in kept : i <= j
          /\ \A l \in met : k <= l
          /\ routeRules[k] = RoutedIn(tags, doc.rules[i])
          /\ ~Refused(routeRules[k])
    BY <1>1, <1>2, <1>6 DEF ClassRouted, met
  <2>2. Min(kept) = i /\ Min(met) = k
    BY <1>4, <2>1, LeastIs
  <2>3. given = k /\ given # 0
    BY <1>3, <1>4, <2>2
  <2>4. routeRules[k].action = doc.rules[i].action
    BY <2>1, RoutedAction
  <2>5. ASSUME routeRules[k].action = "route"
        PROVE  StandsFor(routeRules[k].outbound, doc.rules[i].target)
    <3>1. /\ routeRules[k].outbound = PolicyIn(tags, doc.rules[i].target)
          /\ PolicyIn(tags, doc.rules[i].target) # ""
      BY <2>1, <2>5, RoutedPolicy
    <3>2. pc \in {"rules", "done"}
      OBVIOUS
    <3>3. StandsFor(PolicyIn(tags, doc.rules[i].target), doc.rules[i].target)
      BY ONLY EncodeInv, <3>1, <3>2, PolicyStands
    <3> QED BY <3>1, <3>3
  <2>6. kept # {}
    BY <2>1
  <2> QED BY <2>2, <2>3, <2>4, <2>5, <2>6 DEF kept, given
<1> QED BY <1>5, <1>6

\* Whatever the rules and however many are skipped, a class of traffic meets what
\* the first rule that was kept for it says: the order of the rules survives, a
\* skipped rule shadows nothing, and each policy is that of the rule (encodeRoute,
\* convertRouteRule, policyTag).
THEOREM RoutingIsKept == Spec => []RoutingKept
BY Encoding, RoutingHolds, PTL

--------------------------------------------------------------------------------
(* No tag twice.                                                              *)

TagAt(d, given, x) == given[NameIn(d, x)]

\* What Unambiguous says, and what the tags of names are then.
UnambiguousIn(d, given) ==
    /\ Cardinality({NameIn(d, x) : x \in 1 .. Total(d)}) = Total(d)
    /\ \A i \in 1 .. GroupsIn(d) : d.groups[i].type = "relay" =>
          \A k \in 1 .. Dialled(d.groups[i]) :
              \A n \in DOMAIN given : Hop(given[d.groups[i].name], k) # given[n]

Separate(d, given) ==
    /\ \A x, y \in 1 .. Total(d) : TagAt(d, given, x) = TagAt(d, given, y) => x = y
    /\ \A x \in 1 .. Total(d) :
          TagAt(d, given, x) \in Spellings /\ TagAt(d, given, x) \notin Reserved
    /\ \A i \in 1 .. GroupsIn(d) : d.groups[i].type = "relay" =>
          \A k \in 1 .. Dialled(d.groups[i]), y \in 1 .. Total(d) :
              Hop(given[d.groups[i].name], k) # TagAt(d, given, y)

\* The tag t belongs to the x-th name: its own, or that of a hop.
TagFrom(d, given, t, x) ==
    \/ t = TagAt(d, given, x)
    \/ \E i \in 1 .. GroupsIn(d) :
          /\ x = NodesIn(d) + i /\ d.groups[i].type = "relay"
          /\ \E k \in 1 .. Dialled(d.groups[i]) : t = Hop(given[d.groups[i].name], k)

LEMMA NodeName ==
    ASSUME NEW d, Encodable(d), NEW i \in 1 .. NodesIn(d)
    PROVE  i \in 1 .. Total(d) /\ NameIn(d, i) = d.nodes[i].name
<1> DEFINE m == NodesIn(d)
           n == GroupsIn(d)
<1>1. m \in Nat /\ n \in Nat /\ i \in 1 .. m /\ Total(d) = m + n
  BY DocFacts DEF Total
<1>2. NameIn(d, i) = IF i <= m THEN d.nodes[i].name ELSE d.groups[i - m].name
  BY DEF NameIn, NodesIn
<1> HIDE DEF m, n
<1>3. i <= m /\ i \in 1 .. m + n
  BY <1>1
<1> QED BY <1>1, <1>2, <1>3

LEMMA GroupName ==
    ASSUME NEW d, Encodable(d), NEW i \in 1 .. GroupsIn(d)
    PROVE  NodesIn(d) + i \in 1 .. Total(d) /\ NameIn(d, NodesIn(d) + i) = d.groups[i].name
<1> DEFINE m == NodesIn(d)
           n == GroupsIn(d)
           x == m + i
<1>1. m \in Nat /\ n \in Nat /\ i \in 1 .. n /\ Total(d) = m + n
  BY DocFacts DEF Total
<1>2. NameIn(d, x) = IF x <= m THEN d.nodes[x].name ELSE d.groups[x - m].name
  BY DEF NameIn, NodesIn
<1> HIDE DEF m, n
<1>3. ~(x <= m) /\ x - m = i /\ x \in 1 .. m + n
  BY <1>1
<1> QED BY <1>1, <1>2, <1>3 DEF m

LEMMA UnambiguousIsIn ==
    Encodable(doc) => (Unambiguous <=> UnambiguousIn(doc, tags))
<1> SUFFICES ASSUME Encodable(doc) PROVE Unambiguous <=> UnambiguousIn(doc, tags)
  OBVIOUS
<1> DEFINE names == {NameIn(doc, x) : x \in 1 .. Total(doc)}
<1>1. IsList(doc.nodes) /\ IsList(doc.groups)
  BY DocFacts
<1>2. /\ Range(doc.nodes) = {doc.nodes[i] : i \in 1 .. NodesIn(doc)}
      /\ Range(doc.groups) = {doc.groups[i] : i \in 1 .. GroupsIn(doc)}
  BY <1>1, ListFacts DEF NodesIn, GroupsIn
<1>3. NodeNames = {doc.nodes[i].name : i \in 1 .. NodesIn(doc)}
  BY <1>2 DEF NodeNames
<1>4. GroupNames = {doc.groups[i].name : i \in 1 .. GroupsIn(doc)}
  BY <1>2 DEF GroupNames
<1>5. NodeNames \cup GroupNames = names
  <2>1. NodeNames \cup GroupNames \subseteq names
    BY <1>3, <1>4, NodeName, GroupName
  <2>2. names \subseteq NodeNames \cup GroupNames
    BY <1>3, <1>4, NameOf
  <2> QED BY <2>1, <2>2
<1>6. Len(doc.nodes) + Len(doc.groups) = Total(doc)
  BY DEF Total, NodesIn, GroupsIn
<1> DEFINE relays == {group \in Range(doc.groups) : group.type = "relay"}
           used == {tags[n] : n \in DOMAIN tags}
<1>7. (\A g \in relays : \A i \in 1 .. Len(g.members) : Hop(tags[g.name], i) \notin used)
      <=> \A i \in 1 .. GroupsIn(doc) : doc.groups[i].type = "relay" =>
              \A k \in 1 .. Dialled(doc.groups[i]) :
                  \A n \in DOMAIN tags : Hop(tags[doc.groups[i].name], k) # tags[n]
  BY <1>2 DEF Dialled
<1>8. Unambiguous <=> /\ Cardinality(NodeNames \cup GroupNames) = Len(doc.nodes) + Len(doc.groups)
                      /\ \A g \in relays : \A i \in 1 .. Len(g.members) :
                            Hop(tags[g.name], i) \notin used
  BY DEF Unambiguous
<1> HIDE DEF names, relays, used
<1> QED BY <1>5, <1>6, <1>7, <1>8 DEF UnambiguousIn, names

LEMMA NamesDiffer ==
    ASSUME TagInv, UnambiguousIn(doc, tags)
    PROVE  \A x, y \in 1 .. Total(doc) : NameIn(doc, x) = NameIn(doc, y) => x = y
<1> DEFINE n == Total(doc)
           names == {NameIn(doc, x) : x \in 1 .. n}
           f == [x \in 1 .. n |-> NameIn(doc, x)]
<1>1. n \in Nat
  BY DocFacts DEF TagInv, TagTypes
<1>2. Cardinality(names) = n
  BY DEF UnambiguousIn
<1> HIDE DEF n
<1>3. f \in Surjection(1 .. n, names)
  BY DEF Surjection
<1>4. IsFiniteSet(1 .. n) /\ Cardinality(1 .. n) = n
  BY <1>1, FS_Interval
<1> HIDE DEF f, names
<1>5. f \in Injection(1 .. n, names)
  BY <1>2, <1>3, <1>4, FS_Surjection
<1>6. \A x, y \in 1 .. n : NameIn(doc, x) = NameIn(doc, y) => x = y
  BY <1>5 DEF Injection, IsInjective, f
<1> QED BY <1>6 DEF n

LEMMA NamesApart ==
    ASSUME TagInv, NamesInv, pc \in AfterTags, UnambiguousIn(doc, tags)
    PROVE  Separate(doc, tags)
<1> DEFINE n == Total(doc)
<1>1. TaggedUpTo(doc, tags, n) /\ TagsDistinct /\ \A m \in DOMAIN tags : tags[m] \in Spellings
  BY DEF TagInv, TagsGiven, NamesInv
<1>2. \A x, y \in 1 .. n : NameIn(doc, x) = NameIn(doc, y) => x = y
  BY NamesDiffer
<1> HIDE DEF n
<1>3. \A x \in 1 .. n : NameIn(doc, x) \in DOMAIN tags
  BY <1>1 DEF TaggedUpTo
<1>4. \A x, y \in 1 .. n : TagAt(doc, tags, x) = TagAt(doc, tags, y) => x = y
  BY <1>1, <1>2, <1>3 DEF TagAt, TagsDistinct
<1>5. \A x \in 1 .. n : TagAt(doc, tags, x) \in Spellings /\ TagAt(doc, tags, x) \notin Reserved
  BY <1>1, <1>3 DEF TagAt, TagsDistinct
<1>6. ASSUME NEW i \in 1 .. GroupsIn(doc), doc.groups[i].type = "relay",
             NEW k \in 1 .. Dialled(doc.groups[i]), NEW y \in 1 .. n
      PROVE  Hop(tags[doc.groups[i].name], k) # TagAt(doc, tags, y)
  BY <1>3, <1>6 DEF UnambiguousIn, TagAt
<1> QED BY <1>4, <1>5, <1>6 DEF Separate, n

\* What is converted of a name has its tags.
LEMMA NodeTag ==
    ASSUME NEW d, Encodable(d), NEW given, NEW i \in 1 .. NodesIn(d)
    PROVE  TagFrom(d, given, NodeOut(d, given, i).tag, i)
<1>1. NodeOut(d, given, i).tag = given[d.nodes[i].name]
  BY DEF NodeOut, Outbound
<1> QED BY <1>1, NodeName DEF TagFrom, TagAt

LEMMA HopTagFrom ==
    ASSUME NEW d, Encodable(d), NEW given, NEW i \in 1 .. GroupsIn(d),
           d.groups[i].type = "relay", NEW k \in 1 .. Dialled(d.groups[i])
    PROVE  TagFrom(d, given, HopOut(d, given, d.groups[i], k).tag, NodesIn(d) + i)
<1> DEFINE g == d.groups[i]
<1>1. HopOut(d, given, g, k).tag = HopTagIn(given, g, k)
  BY DEF HopOut, Outbound
<1>2. HopTagIn(given, g, k) = IF k = Dialled(g) THEN given[g.name] ELSE Hop(given[g.name], k)
  BY DEF HopTagIn, Dialled
<1>3. TagAt(d, given, NodesIn(d) + i) = given[g.name]
  BY GroupName DEF TagAt
<1> QED BY <1>1, <1>2, <1>3 DEF TagFrom

LEMMA GroupTag ==
    ASSUME NEW d, Encodable(d), NEW given, NEW made, NEW i \in 1 .. GroupsIn(d),
           NEW o \in Range(ConvertedIn(d, given, made, d.groups[i]))
    PROVE  TagFrom(d, given, o.tag, NodesIn(d) + i)
<1> DEFINE g == d.groups[i]
           converted == ConvertedIn(d, given, made, g)
<1>1. converted # <<>>
  BY EmptyList
<1>2. CASE g.type = "relay"
  <2>1. RelayMade(d, given, g, converted)
    BY <1>1, <1>2, RelayOut
  <2>2. PICK k \in 1 .. Dialled(g) : o = HopOut(d, given, g, k)
    BY <2>1 DEF RelayMade
  <2> QED BY <1>2, <2>2, HopTagFrom
<1>3. CASE g.type # "relay"
  <2> DEFINE out == Outbound(TypeOf(g), given[g.name], "", MembersIn(given, g), "", "")
  <2>1. converted = <<out>>
    BY <1>1, <1>3, GroupOut
  <2>2. out.tag = given[g.name]
    BY DEF Outbound
  <2> HIDE DEF out
  <2>3. o = out
    BY <2>1, SingleList
  <2> QED BY <2>2, <2>3, GroupName DEF TagFrom, TagAt
<1> QED BY <1>2, <1>3

\* Tags of different names are different, and none is an outbound of the encoder.
LEMMA TagsApart ==
    ASSUME NEW d, Encodable(d), NEW given, Separate(d, given), Spelled,
           NEW x \in 1 .. Total(d), NEW y \in 1 .. Total(d), NEW t, NEW u,
           TagFrom(d, given, t, x), TagFrom(d, given, u, y)
    PROVE  (t = u => x = y) /\ t \notin Reserved
<1> DEFINE own(z) == TagAt(d, given, z)
           hop(i, k) == Hop(given[d.groups[i].name], k)
           relay(i) == d.groups[i].type = "relay"
<1>1. \A i \in 1 .. GroupsIn(d) : NodesIn(d) + i \in 1 .. Total(d)
          /\ given[d.groups[i].name] = own(NodesIn(d) + i)
  BY GroupName DEF TagAt
<1>2. \A i \in 1 .. GroupsIn(d) : \A k \in 1 .. Dialled(d.groups[i]) :
          k \in Nat /\ given[d.groups[i].name] \in Spellings
  BY <1>1 DEF Separate
<1>3. \A i, j \in 1 .. GroupsIn(d) : \A k \in 1 .. Dialled(d.groups[i]),
         l \in 1 .. Dialled(d.groups[j]) : hop(i, k) = hop(j, l) => NodesIn(d) + i = NodesIn(d) + j
  <2> SUFFICES ASSUME NEW i \in 1 .. GroupsIn(d), NEW j \in 1 .. GroupsIn(d),
                      NEW k \in 1 .. Dialled(d.groups[i]), NEW l \in 1 .. Dialled(d.groups[j]),
                      hop(i, k) = hop(j, l)
               PROVE  NodesIn(d) + i = NodesIn(d) + j
    OBVIOUS
  <2>1. given[d.groups[i].name] = given[d.groups[j].name]
    BY <1>2, SpelledHops DEF HopsTell
  <2> QED BY <1>1, <2>1 DEF Separate
<1>4. \A i \in 1 .. GroupsIn(d) : \A k \in 1 .. Dialled(d.groups[i]) : hop(i, k) \notin Reserved
  BY <1>2, SpelledHops DEF HopsTell
<1>5. \A i \in 1 .. GroupsIn(d) : \A k \in 1 .. Dialled(d.groups[i]), z \in 1 .. Total(d) :
          relay(i) => hop(i, k) # own(z)
  BY DEF Separate
<1>6. own(x) \notin Reserved /\ own(y) \notin Reserved /\ (own(x) = own(y) => x = y)
  BY DEF Separate
<1>7. \/ t = own(x)
      \/ \E i \in 1 .. GroupsIn(d) : \E k \in 1 .. Dialled(d.groups[i]) :
            x = NodesIn(d) + i /\ relay(i) /\ t = hop(i, k)
  BY DEF TagFrom
<1>8. \/ u = own(y)
      \/ \E i \in 1 .. GroupsIn(d) : \E k \in 1 .. Dialled(d.groups[i]) :
            y = NodesIn(d) + i /\ relay(i) /\ u = hop(i, k)
  BY DEF TagFrom
<1> HIDE DEF own, hop, relay
<1>9. t \notin Reserved
  BY <1>4, <1>6, <1>7
<1>10. ASSUME t = u PROVE x = y
  <2>1. CASE t = own(x) /\ u = own(y)
    BY <1>6, <1>10, <2>1
  <2>2. CASE t = own(x) /\ u # own(y)
    BY <1>5, <1>8, <1>10, <2>2
  <2>3. CASE t # own(x) /\ u = own(y)
    BY <1>5, <1>7, <1>10, <2>3
  <2>4. CASE t # own(x) /\ u # own(y)
    <3>1. PICK i \in 1 .. GroupsIn(d) : \E k \in 1 .. Dialled(d.groups[i]) :
             x = NodesIn(d) + i /\ t = hop(i, k)
      BY <1>7, <2>4
    <3>2. PICK j \in 1 .. GroupsIn(d) : \E l \in 1 .. Dialled(d.groups[j]) :
             y = NodesIn(d) + j /\ u = hop(j, l)
      BY <1>8, <2>4
    <3> QED BY <1>3, <1>10, <3>1, <3>2
  <2> QED BY <2>1, <2>2, <2>3, <2>4
<1> QED BY <1>9, <1>10

UniqueTagsIn(list) == \A i, j \in 1 .. Len(list) : list[i].tag = list[j].tag => i = j

UniqueInv == pc \in AfterTags /\ UnambiguousIn(doc, tags) => UniqueTagsIn(outbounds)

LEMMA UniqueConcat ==
    ASSUME NEW a, NEW b, IsList(a), IsList(b), UniqueTagsIn(a), UniqueTagsIn(b),
           \A o \in Range(a), p \in Range(b) : o.tag # p.tag
    PROVE  UniqueTagsIn(a \o b)
<1> DEFINE m == Len(a)
           n == Len(b)
           c == a \o b
<1>1. /\ m \in Nat /\ n \in Nat /\ Len(c) = m + n
      /\ \A i \in 1 .. m : c[i] = a[i]
      /\ \A i \in 1 .. n : c[m + i] = b[i]
  BY ListFacts, ConcatList
<1>2. (\A i \in 1 .. m : a[i] \in Range(a)) /\ (\A i \in 1 .. n : b[i] \in Range(b))
  BY ListFacts
<1>3. /\ \A i, j \in 1 .. m : a[i].tag = a[j].tag => i = j
      /\ \A i, j \in 1 .. n : b[i].tag = b[j].tag => i = j
  BY DEF UniqueTagsIn
<1> HIDE DEF m, n, c
<1>4. \A i \in 1 .. m + n : i \in 1 .. m \/ \E j \in 1 .. n : i = m + j
  <2> SUFFICES ASSUME NEW i \in 1 .. m + n, i \notin 1 .. m
               PROVE  \E j \in 1 .. n : i = m + j
    OBVIOUS
  <2>1. i - m \in 1 .. n /\ i = m + (i - m)
    BY <1>1
  <2> QED BY <2>1
<1>5. ASSUME NEW i \in 1 .. m + n, NEW j \in 1 .. m + n, c[i].tag = c[j].tag
      PROVE  i = j
  <2>1. CASE i \in 1 .. m /\ j \in 1 .. m
    BY <1>1, <1>3, <1>5, <2>1
  <2>2. CASE i \in 1 .. m /\ j \notin 1 .. m
    BY <1>1, <1>2, <1>4, <1>5, <2>2
  <2>3. CASE i \notin 1 .. m /\ j \in 1 .. m
    BY <1>1, <1>2, <1>4, <1>5, <2>3
  <2>4. CASE i \notin 1 .. m /\ j \notin 1 .. m
    <3>1. PICK k \in 1 .. n, l \in 1 .. n : i = m + k /\ j = m + l
      BY <1>4, <2>4
    <3>2. c[i] = b[k] /\ c[j] = b[l]
      BY <1>1, <3>1
    <3>3. k = l
      BY <1>3, <1>5, <3>2
    <3> QED BY <3>1, <3>3
  <2> QED BY <2>1, <2>2, <2>3, <2>4
<1> QED BY <1>1, <1>5 DEF UniqueTagsIn, c

LEMMA UniqueAppend ==
    ASSUME NEW a, NEW x, IsList(a), UniqueTagsIn(a), \A o \in Range(a) : o.tag # x.tag
    PROVE  UniqueTagsIn(Append(a, x))
<1> DEFINE m == Len(a)
           c == Append(a, x)
<1>1. m \in Nat /\ Len(c) = m + 1 /\ c[m + 1] = x /\ \A i \in 1 .. m : c[i] = a[i]
  BY ListFacts, AppendList
<1>2. \A i \in 1 .. m : a[i] \in Range(a)
  BY ListFacts
<1>3. \A i, j \in 1 .. m : a[i].tag = a[j].tag => i = j
  BY DEF UniqueTagsIn
<1> HIDE DEF m, c
<1>4. \A i \in 1 .. m + 1 : i \in 1 .. m \/ i = m + 1
  BY <1>1
<1>5. ASSUME NEW i \in 1 .. m + 1, NEW j \in 1 .. m + 1, c[i].tag = c[j].tag
      PROVE  i = j
  <2>1. CASE i \in 1 .. m /\ j \in 1 .. m
    BY <1>1, <1>3, <1>5, <2>1
  <2>2. CASE i \notin 1 .. m \/ j \notin 1 .. m
    BY <1>1, <1>2, <1>4, <1>5, <2>2
  <2> QED BY <2>1, <2>2
<1> QED BY <1>1, <1>5 DEF UniqueTagsIn, c

\* The hops of a relay have different tags.
LEMMA UniqueConverted ==
    ASSUME NEW d, Encodable(d), NEW given, NEW made, NEW i \in 1 .. GroupsIn(d),
           Separate(d, given), Spelled
    PROVE  UniqueTagsIn(ConvertedIn(d, given, made, d.groups[i]))
<1> DEFINE g == d.groups[i]
           converted == ConvertedIn(d, given, made, g)
<1>1. CASE converted = <<>>
  BY <1>1, EmptyList DEF UniqueTagsIn
<1>2. CASE converted # <<>> /\ g.type = "relay"
  <2> DEFINE n == Dialled(g)
             t == given[g.name]
  <2>0. RelayMade(d, given, g, converted)
    BY <1>2, RelayOut
  <2>1. n \in Nat /\ Len(converted) = n /\ \A k \in 1 .. n : converted[k] = HopOut(d, given, g, k)
    BY <2>0 DEF RelayMade
  <2>2. \A k \in 1 .. n : HopOut(d, given, g, k).tag = IF k = n THEN t ELSE Hop(t, k)
    BY DEF HopOut, Outbound, HopTagIn, Dialled
  <2>3. TagAt(d, given, NodesIn(d) + i) = t /\ NodesIn(d) + i \in 1 .. Total(d)
    BY GroupName DEF TagAt
  <2>4. t \in Spellings /\ \A k \in 1 .. n : Hop(t, k) # t
    BY <1>2, <2>3 DEF Separate
  <2> HIDE DEF converted, n, t
  <2>5. \A k \in 1 .. n : k \in Nat /\ converted[k].tag = IF k = n THEN t ELSE Hop(t, k)
    BY <2>1, <2>2
  <2>6. \A k, l \in Nat : Hop(t, k) = Hop(t, l) => k = l
    BY <2>4, SpelledHops DEF HopsTell
  <2>7. \A k, l \in 1 .. n : converted[k].tag = converted[l].tag => k = l
    BY <2>4, <2>5, <2>6
  <2> QED BY <2>1, <2>7 DEF UniqueTagsIn, converted
<1>3. CASE converted # <<>> /\ g.type # "relay"
  <2> DEFINE out == Outbound(TypeOf(g), given[g.name], "", MembersIn(given, g), "", "")
  <2>1. converted = <<out>>
    BY <1>3, GroupOut
  <2> HIDE DEF out
  <2>2. Len(converted) = 1
    BY <2>1, SingleList
  <2>3. \A k, l \in 1 .. 1 : k = l
    OBVIOUS
  <2> QED BY <2>2, <2>3 DEF UniqueTagsIn
<1> QED BY <1>1, <1>2, <1>3

\* Where the tag of an outbound comes from.
LEMMA OriginTags ==
    ASSUME NEW d, Encodable(d), NEW given, NEW made, NEW outs, NEW a \in 0 .. NodesIn(d),
           NEW b \in 0 .. GroupsIn(d), NEW fixed, Origins(d, given, made, outs, a, b, fixed),
           NEW o \in outs
    PROVE  \/ o \in fixed
           \/ \E x \in 1 .. a : TagFrom(d, given, o.tag, x)
           \/ \E i \in 1 .. b : TagFrom(d, given, o.tag, NodesIn(d) + i)
<1>1. /\ \A i \in 1 .. a : i \in 1 .. NodesIn(d)
      /\ \A i \in 1 .. b : i \in 1 .. GroupsIn(d)
  <2>1. NodesIn(d) \in Nat /\ GroupsIn(d) \in Nat
    BY DocFacts
  <2> QED BY <2>1
<1>2. CASE o \in fixed
  BY <1>2
<1>3. ASSUME NEW i \in 1 .. a, o = NodeOut(d, given, i)
      PROVE  TagFrom(d, given, o.tag, i)
  BY <1>1, <1>3, NodeTag
<1>4. ASSUME NEW i \in 1 .. b, o \in Range(ConvertedIn(d, given, made, d.groups[i]))
      PROVE  TagFrom(d, given, o.tag, NodesIn(d) + i)
  BY <1>1, <1>4, GroupTag
<1> QED BY <1>2, <1>3, <1>4 DEF Origins

\* Before there are groups, the tag of every outbound is that of a node.
NodeTagged(d, given, t, a) == \E x \in 1 .. a : TagFrom(d, given, t, x)

LEMMA NodePhaseTags ==
    ASSUME NEW d, Encodable(d), NEW given, NEW made, NEW outs, NEW a \in 0 .. NodesIn(d),
           Origins(d, given, made, outs, a, 0, {}), NEW o \in outs
    PROVE  NodeTagged(d, given, o.tag, a)
<1>1. 1 .. 0 = {}
  OBVIOUS
<1>2. PICK i \in 1 .. a : o = NodeOut(d, given, i)
  BY <1>1 DEF Origins
<1>3. i \in 1 .. NodesIn(d)
  <2>1. NodesIn(d) \in Nat
    BY DocFacts
  <2> QED BY <2>1
<1>4. TagFrom(d, given, o.tag, i)
  BY <1>2, <1>3, NodeTag
<1> QED BY <1>4 DEF NodeTagged

LEMMA BuiltinTags ==
    ASSUME NEW d, NEW o \in BuiltinOuts(d) PROVE o.tag = "direct" \/ o.tag = "reject"
<1> DEFINE direct == Outbound("direct", "direct", "", <<>>, "", DNSIn(d).directResolver)
           block == Outbound("block", "reject", "", <<>>, "", "")
<1>1. BuiltinOuts(d) = {direct, block}
  BY DEF BuiltinOuts
<1>2. direct.tag = "direct" /\ block.tag = "reject"
  BY DEF Outbound
<1> HIDE DEF direct, block
<1> QED BY <1>1, <1>2

LEMMA ProxyTag == \A d, given, gts : ProxyOut(d, given, gts).tag = "proxy"
BY DEF ProxyOut, Outbound

LEMMA UniqueNode ==
    ASSUME Spelled, TagInv, OutsInv, Separate(doc, tags), UniqueTagsIn(outbounds), ConvertNode
    PROVE  UniqueTagsIn(outbounds')
<1> DEFINE out == NodeOut(doc, tags, next + 1)
<1>1. /\ pc = "nodes" /\ next < NodesIn(doc)
      /\ outbounds' = outbounds \/ outbounds' = Append(outbounds, out)
  BY NodeStep
<1>2. /\ Encodable(doc) /\ next \in Nat /\ NodesIn(doc) \in Nat /\ GroupsIn(doc) \in Nat
  BY DocFacts DEF TagInv, TagTypes
<1>3. next \in 0 .. NodesIn(doc) /\ 0 \in 0 .. GroupsIn(doc) /\ next + 1 \in 1 .. NodesIn(doc)
  BY <1>1, <1>2
<1>4. /\ Origins(doc, tags, nodeOutbounds, Range(outbounds), next, 0, {})
      /\ IsList(outbounds)
  BY <1>1 DEF OutsInv, AmidNodes, OutLists
<1>5. TagFrom(doc, tags, out.tag, next + 1) /\ next + 1 \in 1 .. Total(doc)
  BY <1>2, <1>3, NodeTag, NodeName
<1>6. \A x \in 1 .. next : x \in 1 .. NodesIn(doc) /\ x # next + 1
  BY <1>2, <1>3
<1>7. \A x \in 1 .. next : x \in 1 .. Total(doc) /\ x # next + 1
  BY <1>2, <1>6, NodeName
<1> HIDE DEF out
<1>8. ASSUME NEW o \in Range(outbounds) PROVE o.tag # out.tag
  <2>1. \E x \in 1 .. next : TagFrom(doc, tags, o.tag, x)
    <3>1. Origins(doc, tags, nodeOutbounds, Range(outbounds), next, 0, {})
      BY <1>4
    <3>2. NodeTagged(doc, tags, o.tag, next)
      BY <1>2, <1>3, <3>1, NodePhaseTags
    <3> QED BY <3>2 DEF NodeTagged
  <2> QED BY <1>2, <1>5, <1>7, <2>1, TagsApart
<1> QED BY <1>1, <1>4, <1>8, UniqueAppend

LEMMA UniqueAllNodes ==
    ASSUME Spelled, TagInv, OutsInv, Separate(doc, tags), UniqueTagsIn(outbounds), AllNodes
    PROVE  UniqueTagsIn(outbounds')
<1> DEFINE direct == Outbound("direct", "direct", "", <<>>, "", DNSIn(doc).directResolver)
           block == Outbound("block", "reject", "", <<>>, "", "")
           two == <<direct, block>>
<1>1. pc = "nodes" /\ outbounds' = outbounds \o two
  BY DEF AllNodes, EffectiveDNS, DNSIn
<1>2. /\ Encodable(doc) /\ next \in Nat /\ NodesIn(doc) \in Nat /\ GroupsIn(doc) \in Nat
  BY DocFacts DEF TagInv, TagTypes
<1>3. direct.tag = "direct" /\ block.tag = "reject"
  BY DEF Outbound
<1> HIDE DEF direct, block
<1>4. /\ Origins(doc, tags, nodeOutbounds, Range(outbounds), next, 0, {})
      /\ IsList(outbounds) /\ next <= NodesIn(doc)
  BY <1>1 DEF OutsInv, AmidNodes, OutLists
<1>5. next \in 0 .. NodesIn(doc) /\ 0 \in 0 .. GroupsIn(doc)
  BY <1>2, <1>4
<1>6. \A x \in 1 .. next : x \in 1 .. Total(doc)
  <2>1. \A x \in 1 .. next : x \in 1 .. NodesIn(doc)
    BY <1>2, <1>5
  <2> QED BY <1>2, <2>1, NodeName
<1>7. ASSUME NEW o \in Range(outbounds) PROVE o.tag \notin Reserved
  <2>1. \E x \in 1 .. next : TagFrom(doc, tags, o.tag, x)
    <3>1. Origins(doc, tags, nodeOutbounds, Range(outbounds), next, 0, {})
      BY <1>4
    <3>2. NodeTagged(doc, tags, o.tag, next)
      BY <1>2, <1>5, <3>1, NodePhaseTags
    <3> QED BY <3>2 DEF NodeTagged
  <2> QED BY <1>2, <1>6, <2>1, TagsApart
<1>8. UniqueTagsIn(two) /\ IsList(two) /\ \A o \in Range(two) : o.tag \in Reserved
  <2>1. /\ IsList(two) /\ Len(two) = 2 /\ Range(two) = {direct, block}
        /\ two[1] = direct /\ two[2] = block
    BY PairList
  <2>2. \A i \in 1 .. 2 : i = 1 \/ i = 2
    OBVIOUS
  <2> HIDE DEF two
  <2>3. UniqueTagsIn(two)
    BY <1>3, <2>1, <2>2 DEF UniqueTagsIn
  <2> QED BY <1>3, <2>1, <2>3 DEF Reserved
<1> HIDE DEF two
<1> QED BY <1>1, <1>4, <1>7, <1>8, UniqueConcat

\* The outbounds that there are while groups are converted have the tags of nodes,
\* of earlier groups, or of the encoder.
LEMMA EarlierTags ==
    ASSUME Spelled, TagInv, OutsInv, Separate(doc, tags), pc = "groups",
           NEW o \in Range(outbounds)
    PROVE  \/ o.tag = "direct" \/ o.tag = "reject"
           \/ \E x \in 1 .. NodesIn(doc) + next :
                 x \in 1 .. Total(doc) /\ TagFrom(doc, tags, o.tag, x)
<1> DEFINE m == NodesIn(doc)
           n == GroupsIn(doc)
<1>1. Encodable(doc) /\ next \in Nat /\ m \in Nat /\ n \in Nat
  BY DocFacts DEF TagInv, TagTypes
<1>2. /\ Origins(doc, tags, nodeOutbounds, Range(outbounds), m, next, BuiltinOuts(doc))
      /\ next <= n
  BY DEF OutsInv, AmidGroups
<1>3. m \in 0 .. m /\ next \in 0 .. n
  BY <1>1, <1>2
<1>4. \/ o \in BuiltinOuts(doc)
      \/ \E x \in 1 .. m : TagFrom(doc, tags, o.tag, x)
      \/ \E i \in 1 .. next : TagFrom(doc, tags, o.tag, m + i)
  BY <1>1, <1>2, <1>3, OriginTags
<1>5. \A x \in 1 .. m : x \in 1 .. Total(doc)
  BY <1>1, NodeName
<1>6. \A i \in 1 .. n : m + i \in 1 .. Total(doc)
  BY <1>1, GroupName
<1> HIDE DEF m, n
<1>7. /\ \A x \in 1 .. m : x \in 1 .. m + next
      /\ \A i \in 1 .. next : i \in 1 .. n /\ m + i \in 1 .. m + next
  BY <1>1, <1>3
<1>8. CASE o \in BuiltinOuts(doc)
  BY <1>8, BuiltinTags
<1>9. ASSUME NEW x \in 1 .. m, TagFrom(doc, tags, o.tag, x)
      PROVE  \E y \in 1 .. m + next : y \in 1 .. Total(doc) /\ TagFrom(doc, tags, o.tag, y)
  BY <1>5, <1>7, <1>9
<1>10. ASSUME NEW i \in 1 .. next, TagFrom(doc, tags, o.tag, m + i)
       PROVE  \E y \in 1 .. m + next : y \in 1 .. Total(doc) /\ TagFrom(doc, tags, o.tag, y)
  BY <1>6, <1>7, <1>10
<1> QED BY <1>4, <1>8, <1>9, <1>10 DEF m

LEMMA UniqueGroup ==
    ASSUME Spelled, TagInv, OutsInv, Separate(doc, tags), UniqueTagsIn(outbounds), ConvertGroup
    PROVE  UniqueTagsIn(outbounds')
<1> DEFINE m == NodesIn(doc)
           n == GroupsIn(doc)
           converted == ConvertedIn(doc, tags, nodeOutbounds, doc.groups[next + 1])
<1>1. pc = "groups" /\ next < n /\ outbounds' = outbounds \o converted
  BY GroupStep
<1>2. Encodable(doc) /\ next \in Nat /\ m \in Nat /\ n \in Nat
  BY DocFacts DEF TagInv, TagTypes
<1>3. next + 1 \in 1 .. n
  BY <1>1, <1>2
<1>4. /\ IsList(outbounds) /\ IsList(converted) /\ UniqueTagsIn(converted)
      /\ m + (next + 1) \in 1 .. Total(doc)
  BY <1>2, <1>3, ConvertedList, UniqueConverted, GroupName DEF OutsInv, OutLists
<1>5. \A p \in Range(converted) : TagFrom(doc, tags, p.tag, m + (next + 1))
  BY <1>2, <1>3, GroupTag
<1> HIDE DEF m, n, converted
<1>6. \A x \in 1 .. m + next : x # m + (next + 1)
  BY <1>2
<1>7. ASSUME NEW o \in Range(outbounds), NEW p \in Range(converted) PROVE o.tag # p.tag
  <2>1. TagFrom(doc, tags, p.tag, m + (next + 1))
    BY <1>5
  <2>2. p.tag \notin Reserved
    BY <1>2, <1>4, <2>1, TagsApart
  <2>3. CASE o.tag = "direct" \/ o.tag = "reject"
    BY <2>2, <2>3 DEF Reserved
  <2>4. CASE ~(o.tag = "direct" \/ o.tag = "reject")
    <3>1. PICK x \in 1 .. m + next : x \in 1 .. Total(doc) /\ TagFrom(doc, tags, o.tag, x)
      BY <1>1, <2>4, EarlierTags DEF m
    <3>2. x # m + (next + 1)
      BY <1>6
    <3> QED BY <1>2, <1>4, <2>1, <3>1, <3>2, TagsApart
  <2> QED BY <2>3, <2>4
<1> QED BY <1>1, <1>4, <1>7, UniqueConcat

LEMMA UniqueAllGroups ==
    ASSUME Spelled, TagInv, OutsInv, Separate(doc, tags), UniqueTagsIn(outbounds), AllGroups
    PROVE  UniqueTagsIn(outbounds')
<1> DEFINE proxy == ProxyOut(doc, tags, groupTags)
<1>1. pc = "groups"
  BY AllGroupsStep
<1>2. outbounds' = outbounds \/ outbounds' = Append(outbounds, proxy)
  BY AllGroupsStep
<1>3. Encodable(doc) /\ IsList(outbounds) /\ proxy.tag = "proxy"
  BY ProxyTag DEF TagInv, TagTypes, OutsInv, OutLists
<1> HIDE DEF proxy
<1>4. ASSUME NEW o \in Range(outbounds) PROVE o.tag # proxy.tag
  <2>1. CASE o.tag = "direct" \/ o.tag = "reject"
    BY <1>3, <2>1
  <2>2. CASE ~(o.tag = "direct" \/ o.tag = "reject")
    <3>1. PICK x \in 1 .. Total(doc) : TagFrom(doc, tags, o.tag, x)
      BY <1>1, <2>2, EarlierTags
    <3>2. o.tag \notin Reserved
      BY <1>3, <3>1, TagsApart
    <3> QED BY <1>3, <3>2 DEF Reserved
  <2> QED BY <2>1, <2>2
<1> QED BY <1>2, <1>3, <1>4, UniqueAppend

LEMMA StepUnique ==
    ASSUME Spelled, EncodeInv, NamesInv, UniqueInv, [Next]_vars
    PROVE  UniqueInv'
<1> SUFFICES ASSUME pc' \in AfterTags, UnambiguousIn(doc', tags')
             PROVE  UniqueTagsIn(outbounds')
  BY DEF UniqueInv
<1>0. TagInv /\ OutsInv
  BY DEF EncodeInv
<1>1. CASE CheckInbounds \/ KnownName \/ Collide \/ Allocate
  BY <1>1 DEF CheckInbounds, KnownName, Collide, Allocate, AfterTags
<1>2. CASE AllNamed
  <2>1. outbounds' = <<>>
    BY <1>0, <1>2 DEF AllNamed, OutsInv, BeforeOuts
  <2> QED BY <2>1, EmptyList DEF UniqueTagsIn
<1>3. CASE ConvertNode \/ AllNodes \/ ConvertGroup \/ AllGroups \/ ConvertRule \/ AllRules
           \/ Finished \/ UNCHANGED vars
  <2>1. UNCHANGED <<doc, tags>> /\ pc \in AfterTags
    <3>1. CASE ConvertNode \/ ConvertGroup \/ ConvertRule
      BY <3>1 DEF ConvertNode, ConvertGroup, ConvertRule, AfterTags
    <3>2. CASE AllNodes \/ AllGroups \/ AllRules
      BY <3>2 DEF AllNodes, AllGroups, AllRules, AfterTags
    <3>3. CASE Finished \/ UNCHANGED vars
      BY <3>3 DEF Finished, vars, AfterTags
    <3> QED BY <1>3, <3>1, <3>2, <3>3
  <2>2. UnambiguousIn(doc, tags)
    BY <2>1
  <2>3. UniqueTagsIn(outbounds) /\ Separate(doc, tags)
    BY <1>0, <2>1, <2>2, NamesApart DEF UniqueInv
  <2>4. CASE ConvertRule \/ AllRules \/ Finished \/ UNCHANGED vars
    BY <2>3, <2>4 DEF ConvertRule, AllRules, Finished, vars
  <2> QED BY <1>0, <1>3, <2>3, <2>4, UniqueNode, UniqueAllNodes, UniqueGroup, UniqueAllGroups
<1> QED BY <1>1, <1>2, <1>3 DEF Next

LEMMA UniqueHolds == EncodeInv /\ UniqueInv => OutboundsUnique
<1> SUFFICES ASSUME EncodeInv, UniqueInv, pc = "done", Unambiguous
             PROVE  UniqueTagsIn(outbounds)
  BY DEF OutboundsUnique, UniqueTagsIn
<1>1. Encodable(doc) /\ pc \in AfterTags
  BY DEF EncodeInv, TagInv, TagTypes, AfterTags
<1> QED BY <1>1, UnambiguousIsIn DEF UniqueInv

\* No configuration has a tag twice, whatever the names of nodes and groups are
\* and whichever relays there are (convertNode, convertGroup, convertRelayGroup,
\* the selector of all): sing-box would refuse it.
THEOREM OutboundsAreUnique == Spelled => (Spec => []OutboundsUnique)
<1> SUFFICES ASSUME Spelled PROVE Spec => []OutboundsUnique
  OBVIOUS
<1>1. Idle => UniqueInv
  BY DEF Idle, UniqueInv, AfterTags
<1>2. Init => Idle
  BY DEF Init
<1>3. EncodeInv /\ NamesInv /\ UniqueInv /\ [Next]_vars => UniqueInv'
  BY StepUnique
<1> QED BY <1>1, <1>2, <1>3, UniqueHolds, Encoding, Naming, PTL DEF Spec

--------------------------------------------------------------------------------
(* What encodeRuleSets, encodeDNS and the final policy come to, once the rules are *)
(* converted.                                                                     *)

FinalIn(d, given) ==
    IF PolicyIn(given, d.final) \in {"", "reject"} THEN "proxy" ELSE PolicyIn(given, d.final)

DetourIn(given, policy) == FirstNonEmpty(PolicyIn(given, policy), policy)
DownloadedIn(given, set) ==
    [tag |-> set.name, detour |-> DetourIn(given, set.detour),
     names |-> Range(set.refs) \cup Range(set.codes)]

\* The tags that the rules, the inline rule sets and the DNS rules name.
OfRule(p, found, rule) == found \o (rule.codes \o rule.refs)
OfSet(p, found, set) == found \o set.codes
OfQuery(p, found, rule) == found \o rule.refs
Generate(p, sets, tag) == AppendGenerated(sets, tag)

\* found has what the first n of s name; named(x) is what an item names.
RulesFound(p, base, s, n, found) ==
    /\ IsList(found)
    /\ \A i \in 1 .. n : Range(s[i].codes) \cup Range(s[i].refs) \subseteq Range(found)
SetsFound(p, base, s, n, found) ==
    IsList(found) /\ \A i \in 1 .. n : Range(s[i].codes) \subseteq Range(found)
QueriesFound(p, base, s, n, found) ==
    IsList(found) /\ \A i \in 1 .. n : Range(s[i].refs) \subseteq Range(found)

\* sets begins with base; what was added is generated for a geo tag, and there is
\* one for each of the first n tags of s.
SetsGenerated(p, base, s, n, sets) ==
    /\ IsList(sets) /\ Len(base) <= Len(sets)
    /\ \A k \in 1 .. Len(base) : sets[k] = base[k]
    /\ \A k \in 1 .. Len(sets) :
          k \in 1 .. Len(base) \/ (sets[k].tag \in GeoTags /\ sets[k].detour = "proxy")
    /\ UniqueTagsIn(base) => UniqueTagsIn(sets)
    /\ \A i \in 1 .. n : s[i] \in GeoTags => \E k \in 1 .. Len(sets) : sets[k].tag = s[i]

FR == INSTANCE FoldInduction WITH Op <- OfRule, J <- RulesFound
FS == INSTANCE FoldInduction WITH Op <- OfSet, J <- SetsFound
FQ == INSTANCE FoldInduction WITH Op <- OfQuery, J <- QueriesFound
FG == INSTANCE FoldInduction WITH Op <- Generate, J <- SetsGenerated

MentionedIn(d) ==
    FR!Fold({}, <<>>, d.rules) \o FS!Fold({}, <<>>, d.ruleSets)
        \o FQ!Fold({}, <<>>, DNSIn(d).rules)

DownloadsIn(d, given) == [i \in 1 .. Len(d.ruleSets) |-> DownloadedIn(given, d.ruleSets[i])]

SetsIn(d, given) == FG!Fold({}, DownloadsIn(d, given), MentionedIn(d))

ServersIn(d, given) ==
    [i \in 1 .. Len(DNSIn(d).servers) |->
        [DNSIn(d).servers[i] EXCEPT !.detour = IF @ = "" THEN "" ELSE DetourIn(given, @)]]

DNSOut(d, given) ==
    [servers |-> ServersIn(d, given), rules |-> DNSIn(d).rules, final |-> DNSIn(d).final,
     resolver |-> DefaultResolverIn(d)]

ClosedInv ==
    pc = "done" =>
        /\ final = FinalIn(doc, tags)
        /\ ruleSets = SetsIn(doc, tags)
        /\ dns = DNSOut(doc, tags)

LEMMA PolicyIsIn == \A policy : PolicyTag(policy) = PolicyIn(tags, policy)
BY DEF PolicyTag, PolicyIn

LEMMA DetourIsIn == \A policy : Detour(policy) = DetourIn(tags, policy)
BY PolicyIsIn DEF Detour, DetourIn

LEMMA MentionedIsIn == Mentioned = MentionedIn(doc)
BY DEF Mentioned, MentionedIn, EffectiveDNS, DNSIn, FoldLeft, MapThenFoldSet, Max,
       FR!Fold, FS!Fold, FQ!Fold, OfRule, OfSet, OfQuery

LEMMA SetsAreIn ==
    \A base, s : FoldLeft(AppendGenerated, base, s) = FG!Fold({}, base, s)
BY DEF FoldLeft, MapThenFoldSet, Max, FG!Fold, Generate

LEMMA ServersAreIn == EncodedDNS = DNSOut(doc, tags)
<1>1. \A policy : Detour(policy) = DetourIn(tags, policy)
  BY DetourIsIn
<1> QED BY <1>1 DEF EncodedDNS, DNSOut, ServersIn, EffectiveDNS, DNSIn, Resolver, DefaultResolverIn

LEMMA AllRulesStep ==
    ASSUME AllRules
    PROVE  /\ UNCHANGED <<doc, tags>>
           /\ final' = FinalIn(doc, tags)
           /\ ruleSets' = SetsIn(doc, tags)
           /\ dns' = DNSOut(doc, tags)
<1> DEFINE base == [i \in 1 .. Len(doc.ruleSets) |-> Downloaded(doc.ruleSets[i])]
<1>1. UNCHANGED <<doc, tags>> /\ dns' = DNSOut(doc, tags)
  BY ServersAreIn DEF AllRules
<1>2. final' = FinalIn(doc, tags)
  BY PolicyIsIn DEF AllRules, FinalIn
<1>3. base = DownloadsIn(doc, tags)
  BY DetourIsIn DEF DownloadsIn, Downloaded, DownloadedIn
<1>4. ruleSets' = FoldLeft(AppendGenerated, base, Mentioned)
  BY DEF AllRules
<1>5. FoldLeft(AppendGenerated, base, Mentioned) = FG!Fold({}, base, Mentioned)
  BY SetsAreIn
<1> HIDE DEF base
<1> QED BY <1>1, <1>2, <1>3, <1>4, <1>5, MentionedIsIn DEF SetsIn

LEMMA StepClosed ==
    ASSUME ClosedInv, [Next]_vars
    PROVE  ClosedInv'
<1>1. CASE AllRules
  BY <1>1, AllRulesStep DEF ClosedInv
<1>2. CASE \/ CheckInbounds \/ KnownName \/ Collide \/ Allocate \/ AllNamed
           \/ ConvertNode \/ AllNodes \/ ConvertGroup \/ AllGroups \/ ConvertRule
  <2>1. pc' # "done"
    <3>1. CASE CheckInbounds \/ KnownName \/ Collide \/ Allocate \/ AllNamed
      BY <3>1 DEF CheckInbounds, KnownName, Collide, Allocate, AllNamed
    <3>2. CASE ConvertNode \/ AllNodes \/ ConvertGroup \/ AllGroups \/ ConvertRule
      BY <3>2 DEF ConvertNode, AllNodes, ConvertGroup, AllGroups, ConvertRule
    <3> QED BY <1>2, <3>1, <3>2
  <2> QED BY <2>1 DEF ClosedInv
<1>3. CASE Finished \/ UNCHANGED vars
  <2>1. UNCHANGED <<doc, pc, tags, final, ruleSets, dns>>
    BY <1>3 DEF Finished, vars
  <2> QED BY <2>1 DEF ClosedInv
<1> QED BY <1>1, <1>2, <1>3 DEF Next

LEMMA InitClosed == Idle => ClosedInv
BY DEF Idle, ClosedInv

THEOREM Closing == Spec => []ClosedInv
<1>1. Init => ClosedInv
  BY InitClosed DEF Init
<1> QED BY <1>1, StepClosed, PTL DEF Spec

\* The items up to the next one.
LEMMA UpTo == \A n \in Nat : \A i \in 1 .. n : i - 1 \in Nat /\ \A j \in 1 .. i : j \in 1 .. i - 1 \/ j = i
OBVIOUS

LEMMA RulesFoundAll ==
    ASSUME NEW s, IsList(s), \A x \in Range(s) : IsList(x.codes) /\ IsList(x.refs)
    PROVE  RulesFound({}, <<>>, s, Len(s), FR!Fold({}, <<>>, s))
<1> DEFINE n == Len(s)
<1>1. n \in Nat /\ DOMAIN s = 1 .. n /\ \A i \in 1 .. n : s[i] \in Range(s)
  BY ListFacts
<1> HIDE DEF n
<1>2. RulesFound({}, <<>>, s, 0, <<>>)
  <2>1. 1 .. 0 = {}
    OBVIOUS
  <2> QED BY <2>1, EmptyList DEF RulesFound
<1>3. ASSUME NEW i \in 1 .. n, NEW r, RulesFound({}, <<>>, s, i - 1, r)
      PROVE  RulesFound({}, <<>>, s, i, OfRule({}, r, s[i]))
  <2> DEFINE more == s[i].codes \o s[i].refs
  <2>1. IsList(s[i].codes) /\ IsList(s[i].refs) /\ IsList(r)
    BY <1>1, <1>3 DEF RulesFound
  <2>2. IsList(more) /\ Range(more) = Range(s[i].codes) \cup Range(s[i].refs)
    BY <2>1, ConcatList
  <2>3. OfRule({}, r, s[i]) = r \o more
    BY DEF OfRule
  <2> HIDE DEF more
  <2>4. IsList(r \o more) /\ Range(r \o more) = Range(r) \cup Range(more)
    BY <2>1, <2>2, ConcatList
  <2>5. \A j \in 1 .. i : j \in 1 .. i - 1 \/ j = i
    BY <1>1, UpTo
  <2>6. ASSUME NEW j \in 1 .. i
        PROVE  Range(s[j].codes) \cup Range(s[j].refs) \subseteq Range(r \o more)
    BY <1>3, <2>2, <2>4, <2>5 DEF RulesFound
  <2> QED BY <2>3, <2>4, <2>6 DEF RulesFound
<1> QED BY <1>1, <1>2, <1>3, FR!FoldKeeps DEF n

LEMMA SetsFoundAll ==
    ASSUME NEW s, IsList(s), \A x \in Range(s) : IsList(x.codes)
    PROVE  SetsFound({}, <<>>, s, Len(s), FS!Fold({}, <<>>, s))
<1> DEFINE n == Len(s)
<1>1. n \in Nat /\ DOMAIN s = 1 .. n /\ \A i \in 1 .. n : s[i] \in Range(s)
  BY ListFacts
<1> HIDE DEF n
<1>2. SetsFound({}, <<>>, s, 0, <<>>)
  <2>1. 1 .. 0 = {}
    OBVIOUS
  <2> QED BY <2>1, EmptyList DEF SetsFound
<1>3. ASSUME NEW i \in 1 .. n, NEW r, SetsFound({}, <<>>, s, i - 1, r)
      PROVE  SetsFound({}, <<>>, s, i, OfSet({}, r, s[i]))
  <2>1. IsList(s[i].codes) /\ IsList(r)
    BY <1>1, <1>3 DEF SetsFound
  <2>2. OfSet({}, r, s[i]) = r \o s[i].codes
    BY DEF OfSet
  <2>3. IsList(r \o s[i].codes) /\ Range(r \o s[i].codes) = Range(r) \cup Range(s[i].codes)
    BY <2>1, ConcatList
  <2>4. \A j \in 1 .. i : j \in 1 .. i - 1 \/ j = i
    BY <1>1, UpTo
  <2>5. ASSUME NEW j \in 1 .. i PROVE Range(s[j].codes) \subseteq Range(r \o s[i].codes)
    BY <1>3, <2>3, <2>4 DEF SetsFound
  <2> QED BY <2>2, <2>3, <2>5 DEF SetsFound
<1> QED BY <1>1, <1>2, <1>3, FS!FoldKeeps DEF n

LEMMA QueriesFoundAll ==
    ASSUME NEW s, IsList(s), \A x \in Range(s) : IsList(x.refs)
    PROVE  QueriesFound({}, <<>>, s, Len(s), FQ!Fold({}, <<>>, s))
<1> DEFINE n == Len(s)
<1>1. n \in Nat /\ DOMAIN s = 1 .. n /\ \A i \in 1 .. n : s[i] \in Range(s)
  BY ListFacts
<1> HIDE DEF n
<1>2. QueriesFound({}, <<>>, s, 0, <<>>)
  <2>1. 1 .. 0 = {}
    OBVIOUS
  <2> QED BY <2>1, EmptyList DEF QueriesFound
<1>3. ASSUME NEW i \in 1 .. n, NEW r, QueriesFound({}, <<>>, s, i - 1, r)
      PROVE  QueriesFound({}, <<>>, s, i, OfQuery({}, r, s[i]))
  <2>1. IsList(s[i].refs) /\ IsList(r)
    BY <1>1, <1>3 DEF QueriesFound
  <2>2. OfQuery({}, r, s[i]) = r \o s[i].refs
    BY DEF OfQuery
  <2>3. IsList(r \o s[i].refs) /\ Range(r \o s[i].refs) = Range(r) \cup Range(s[i].refs)
    BY <2>1, ConcatList
  <2>4. \A j \in 1 .. i : j \in 1 .. i - 1 \/ j = i
    BY <1>1, UpTo
  <2>5. ASSUME NEW j \in 1 .. i PROVE Range(s[j].refs) \subseteq Range(r \o s[i].refs)
    BY <1>3, <2>3, <2>4 DEF QueriesFound
  <2> QED BY <2>2, <2>3, <2>5 DEF QueriesFound
<1> QED BY <1>1, <1>2, <1>3, FQ!FoldKeeps DEF n

LEMMA Generated ==
    ASSUME NEW base, IsList(base), NEW s, NEW n \in Nat, NEW i \in 1 .. n, NEW r,
           SetsGenerated({}, base, s, i - 1, r)
    PROVE  SetsGenerated({}, base, s, i, Generate({}, r, s[i]))
<1> DEFINE m == Len(r)
           b == Len(base)
           t == s[i]
           set == Fetched(t)
<1>1. /\ IsList(r) /\ b <= m
      /\ \A k \in 1 .. b : r[k] = base[k]
      /\ \A k \in 1 .. m : k \in 1 .. b \/ (r[k].tag \in GeoTags /\ r[k].detour = "proxy")
      /\ UniqueTagsIn(base) => UniqueTagsIn(r)
      /\ \A j \in 1 .. i - 1 : s[j] \in GeoTags => \E k \in 1 .. m : r[k].tag = s[j]
  BY DEF SetsGenerated
<1>2. m \in Nat /\ b \in Nat /\ Range(r) = {r[k] : k \in 1 .. m}
  BY <1>1, ListFacts
<1>3. \A j \in 1 .. i : j \in 1 .. i - 1 \/ j = i
  BY UpTo
<1>4. set.tag = t /\ set.detour = "proxy"
  BY DEF Fetched
<1> HIDE DEF m, b, t, set
<1>5. CASE t \notin GeoTags \/ \E x \in Range(r) : x.tag = t
  <2>1. Generate({}, r, t) = r
    BY <1>5 DEF Generate, AppendGenerated
  <2>2. t \in GeoTags => \E k \in 1 .. m : r[k].tag = t
    BY <1>2, <1>5
  <2>3. \A j \in 1 .. i : s[j] \in GeoTags => \E k \in 1 .. m : r[k].tag = s[j]
    BY <1>1, <1>3, <2>2 DEF t
  <2> QED BY <1>1, <2>1, <2>3 DEF SetsGenerated, m, b, t
<1>6. CASE t \in GeoTags /\ \A x \in Range(r) : x.tag # t
  <2> DEFINE q == Append(r, set)
  <2>1. Generate({}, r, t) = q
    BY <1>6 DEF Generate, AppendGenerated, set
  <2>2. IsList(q) /\ Len(q) = m + 1 /\ q[m + 1] = set /\ \A k \in 1 .. m : q[k] = r[k]
    BY <1>1, AppendList DEF m
  <2>3. UniqueTagsIn(base) => UniqueTagsIn(q)
    <3> SUFFICES ASSUME UniqueTagsIn(base) PROVE UniqueTagsIn(q)
      OBVIOUS
    <3>1. UniqueTagsIn(r) /\ \A x \in Range(r) : x.tag # set.tag
      BY <1>1, <1>4, <1>6
    <3> QED BY <1>1, <3>1, UniqueAppend
  <2> HIDE DEF q
  <2>4. /\ \A k \in 1 .. m + 1 : k \in 1 .. m \/ k = m + 1
        /\ \A k \in 1 .. m : k \in 1 .. m + 1
        /\ \A k \in 1 .. b : k \in 1 .. m
        /\ m + 1 \in 1 .. m + 1 /\ b <= m + 1
    BY <1>1, <1>2
  <2>5. ASSUME NEW k \in 1 .. m + 1
        PROVE  k \in 1 .. b \/ (q[k].tag \in GeoTags /\ q[k].detour = "proxy")
    BY <1>1, <1>4, <1>6, <2>2, <2>4
  <2>6. ASSUME NEW j \in 1 .. i, s[j] \in GeoTags PROVE \E k \in 1 .. m + 1 : q[k].tag = s[j]
    <3>1. CASE j = i
      BY <1>4, <2>2, <2>4, <3>1 DEF t
    <3>2. CASE j # i
      <4>1. PICK k \in 1 .. m : r[k].tag = s[j]
        BY <1>1, <1>3, <2>6, <3>2
      <4> QED BY <2>2, <2>4, <4>1
    <3> QED BY <3>1, <3>2
  <2>7. \A k \in 1 .. b : q[k] = base[k]
    BY <1>1, <2>2, <2>4
  <2> QED BY <2>1, <2>2, <2>3, <2>4, <2>5, <2>6, <2>7 DEF SetsGenerated, b, t
<1> QED BY <1>5, <1>6 DEF t

LEMMA GeneratedAll ==
    ASSUME NEW base, IsList(base), NEW s, IsList(s)
    PROVE  SetsGenerated({}, base, s, Len(s), FG!Fold({}, base, s))
<1> DEFINE n == Len(s)
<1>1. n \in Nat /\ DOMAIN s = 1 .. n
  BY ListFacts
<1> HIDE DEF n
<1>2. SetsGenerated({}, base, s, 0, base)
  <2>1. 1 .. 0 = {} /\ Len(base) \in Nat /\ Len(base) <= Len(base)
    BY ListFacts
  <2> QED BY <2>1 DEF SetsGenerated
<1>3. \A i \in 1 .. n : \A r : SetsGenerated({}, base, s, i - 1, r)
                                  => SetsGenerated({}, base, s, i, Generate({}, r, s[i]))
  BY <1>1, Generated
<1> QED BY <1>1, <1>2, <1>3, FG!FoldKeeps DEF n

--------------------------------------------------------------------------------
(* Rule sets.                                                                     *)

\* A rule, an inline rule set or a DNS rule of the document names t.
NamedBy(d, t) ==
    \/ \E rule \in Range(d.rules) : t \in Range(rule.codes) \cup Range(rule.refs)
    \/ \E set \in Range(d.ruleSets) : t \in Range(set.codes)
    \/ \E rule \in Range(DNSIn(d).rules) : t \in Range(rule.refs)

LEMMA QueryFacts ==
    ASSUME NEW d, Encodable(d)
    PROVE  IsList(DNSIn(d).rules) /\ \A rule \in Range(DNSIn(d).rules) : IsList(rule.refs)
<1>1. CASE DNSIn(d) = d.dns
  BY <1>1 DEF Encodable
<1>2. CASE DNSIn(d) = DefaultDNS
  <2>1. DefaultDNS.rules = <<>>
    BY DEF DefaultDNS
  <2> QED BY <1>2, <2>1, EmptyList
<1> QED BY <1>1, <1>2 DEF DNSIn

LEMMA MentionedFacts ==
    ASSUME NEW d, Encodable(d)
    PROVE  IsList(MentionedIn(d)) /\ \A t : NamedBy(d, t) => t \in Range(MentionedIn(d))
<1> DEFINE queries == DNSIn(d).rules
           byRules == FR!Fold({}, <<>>, d.rules)
           bySets == FS!Fold({}, <<>>, d.ruleSets)
           byQueries == FQ!Fold({}, <<>>, queries)
<1>1. /\ IsList(d.rules) /\ IsList(d.ruleSets) /\ IsList(queries)
      /\ \A rule \in Range(d.rules) : IsList(rule.codes) /\ IsList(rule.refs)
      /\ \A set \in Range(d.ruleSets) : IsList(set.codes)
      /\ \A rule \in Range(queries) : IsList(rule.refs)
  BY QueryFacts DEF Encodable
<1>2. RulesFound({}, <<>>, d.rules, Len(d.rules), byRules)
  BY <1>1, RulesFoundAll
<1>3. SetsFound({}, <<>>, d.ruleSets, Len(d.ruleSets), bySets)
  BY <1>1, SetsFoundAll
<1>4. QueriesFound({}, <<>>, queries, Len(queries), byQueries)
  BY <1>1, QueriesFoundAll
<1>5. MentionedIn(d) = byRules \o bySets \o byQueries
  BY DEF MentionedIn
<1> HIDE DEF byRules, bySets, byQueries
<1>6. IsList(byRules) /\ IsList(bySets) /\ IsList(byQueries)
  BY <1>2, <1>3, <1>4 DEF RulesFound, SetsFound, QueriesFound
<1>7. /\ IsList(byRules \o bySets)
      /\ Range(byRules \o bySets) = Range(byRules) \cup Range(bySets)
  BY <1>6, ConcatList
<1>8. /\ IsList(MentionedIn(d))
      /\ Range(MentionedIn(d)) = Range(byRules) \cup Range(bySets) \cup Range(byQueries)
  BY <1>5, <1>6, <1>7, ConcatList
<1>9. ASSUME NEW rule \in Range(d.rules)
      PROVE  Range(rule.codes) \cup Range(rule.refs) \subseteq Range(byRules)
  <2>1. \E i \in 1 .. Len(d.rules) : rule = d.rules[i]
    BY <1>1, ListFacts
  <2> QED BY <1>2, <2>1 DEF RulesFound
<1>10. ASSUME NEW set \in Range(d.ruleSets) PROVE Range(set.codes) \subseteq Range(bySets)
  <2>1. \E i \in 1 .. Len(d.ruleSets) : set = d.ruleSets[i]
    BY <1>1, ListFacts
  <2> QED BY <1>3, <2>1 DEF SetsFound
<1>11. ASSUME NEW rule \in Range(queries) PROVE Range(rule.refs) \subseteq Range(byQueries)
  <2>1. \E i \in 1 .. Len(queries) : rule = queries[i]
    BY <1>1, ListFacts
  <2> QED BY <1>4, <2>1 DEF QueriesFound
<1> QED BY <1>8, <1>9, <1>10, <1>11 DEF NamedBy

LEMMA DownloadsFacts ==
    ASSUME NEW d, Encodable(d), NEW given
    PROVE  /\ IsList(DownloadsIn(d, given)) /\ Len(DownloadsIn(d, given)) = Len(d.ruleSets)
           /\ \A i \in 1 .. Len(d.ruleSets) :
                 DownloadsIn(d, given)[i] = DownloadedIn(given, d.ruleSets[i])
           /\ UniqueTagsIn(DownloadsIn(d, given))
<1> DEFINE n == Len(d.ruleSets)
           f == DownloadsIn(d, given)
           T == {DownloadedIn(given, d.ruleSets[i]) : i \in 1 .. n}
<1>1. n \in Nat
  BY ListFacts DEF Encodable
<1>2. f = [i \in 1 .. n |-> DownloadedIn(given, d.ruleSets[i])]
  BY DEF DownloadsIn
<1>3. f \in [1 .. n -> T]
  BY <1>2
<1>4. \A i \in 1 .. n : f[i] = DownloadedIn(given, d.ruleSets[i])
  BY <1>2
<1>5. \A i, j \in 1 .. n : d.ruleSets[i].name = d.ruleSets[j].name => i = j
  BY DEF Encodable
<1>6. \A set : DownloadedIn(given, set).tag = set.name
  BY DEF DownloadedIn
<1> HIDE DEF n, f, T
<1>7. IsList(f) /\ Len(f) = n
  BY <1>1, <1>3, FunctionList
<1>8. UniqueTagsIn(f)
  BY <1>4, <1>5, <1>6, <1>7 DEF UniqueTagsIn, n
<1> QED BY <1>4, <1>7, <1>8 DEF n, f

\* The rule sets of a configuration.
SetsMade(d, given, sets) ==
    /\ IsList(sets) /\ UniqueTagsIn(sets)
    /\ \A k \in 1 .. Len(sets) :
          sets[k].detour = "proxy" \/ \E set \in Range(d.ruleSets) : sets[k] = DownloadedIn(given, set)
    /\ \A set \in Range(d.ruleSets) : \E k \in 1 .. Len(sets) : sets[k].tag = set.name
    /\ \A t \in GeoTags : NamedBy(d, t) => \E k \in 1 .. Len(sets) : sets[k].tag = t

LEMMA SetsAreMade ==
    ASSUME NEW d, Encodable(d), NEW given
    PROVE  SetsMade(d, given, SetsIn(d, given))
<1> DEFINE base == DownloadsIn(d, given)
           found == MentionedIn(d)
           sets == SetsIn(d, given)
           n == Len(d.ruleSets)
<1>1. /\ IsList(base) /\ Len(base) = n /\ UniqueTagsIn(base)
      /\ \A i \in 1 .. n : base[i] = DownloadedIn(given, d.ruleSets[i])
  BY DownloadsFacts
<1>2. IsList(found) /\ \A t : NamedBy(d, t) => t \in Range(found)
  BY MentionedFacts
<1>3. SetsGenerated({}, base, found, Len(found), sets)
  BY <1>1, <1>2, GeneratedAll DEF SetsIn
<1>4. /\ n \in Nat /\ Range(d.ruleSets) = {d.ruleSets[i] : i \in 1 .. n}
      /\ Range(found) = {found[i] : i \in 1 .. Len(found)}
  BY <1>2, ListFacts DEF Encodable
<1>5. \A set : DownloadedIn(given, set).tag = set.name
  BY DEF DownloadedIn
<1> HIDE DEF base, found, sets, n
<1>6. /\ IsList(sets) /\ UniqueTagsIn(sets) /\ n <= Len(sets)
      /\ \A k \in 1 .. n : sets[k] = base[k]
      /\ \A k \in 1 .. Len(sets) : k \in 1 .. n \/ sets[k].detour = "proxy"
      /\ \A i \in 1 .. Len(found) :
            found[i] \in GeoTags => \E k \in 1 .. Len(sets) : sets[k].tag = found[i]
  BY <1>1, <1>3 DEF SetsGenerated
<1>7. \A k \in 1 .. n : k \in 1 .. Len(sets)
  <2>1. Len(sets) \in Nat
    BY <1>6, ListFacts
  <2> QED BY <1>4, <1>6, <2>1
<1>8. ASSUME NEW k \in 1 .. Len(sets)
      PROVE  sets[k].detour = "proxy"
                \/ \E set \in Range(d.ruleSets) : sets[k] = DownloadedIn(given, set)
  BY <1>1, <1>4, <1>6
<1>9. ASSUME NEW set \in Range(d.ruleSets)
      PROVE  \E k \in 1 .. Len(sets) : sets[k].tag = set.name
  <2>1. PICK i \in 1 .. n : set = d.ruleSets[i]
    BY <1>4
  <2>2. sets[i] = DownloadedIn(given, set) /\ i \in 1 .. Len(sets)
    BY <1>1, <1>6, <1>7, <2>1
  <2> QED BY <1>5, <2>2
<1>10. ASSUME NEW t \in GeoTags, NamedBy(d, t)
       PROVE  \E k \in 1 .. Len(sets) : sets[k].tag = t
  BY <1>2, <1>4, <1>6, <1>10
<1> QED BY <1>6, <1>8, <1>9, <1>10 DEF SetsMade, sets

\* What a route rule names, the document names.
LEMMA RuleRefs ==
    ASSUME EncodeInv, pc = "done", NEW r \in Range(routeRules), NEW t \in Range(r.refs)
    PROVE  NamedBy(doc, t)
<1>1. /\ Encodable(doc) /\ IsList(doc.rules)
      /\ \A rule \in Range(doc.rules) : IsList(rule.codes) /\ IsList(rule.refs)
  BY DEF EncodeInv, TagInv, TagTypes, Encodable
<1>2. RuleOrigins(doc, tags, routeRules, RulesIn(doc))
  BY DEF EncodeInv, RulesInv, AfterRules, RulesMade
<1>3. \A rule \in Range(BuiltinRules) : rule.refs = <<>>
  <2> DEFINE hijack == [match |-> Dns, refs |-> <<>>, action |-> "hijack-dns", outbound |-> ""]
             local == [match |-> Private, refs |-> <<>>, action |-> "route",
                       outbound |-> "direct"]
  <2>1. BuiltinRules = <<hijack, local>>
    BY DEF BuiltinRules
  <2>2. hijack.refs = <<>> /\ local.refs = <<>>
    OBVIOUS
  <2> HIDE DEF hijack, local
  <2> QED BY <2>1, <2>2, PairList
<1>4. PICK i \in 1 .. RulesIn(doc) : r = RoutedIn(tags, doc.rules[i])
  BY <1>2, <1>3, EmptyList DEF RuleOrigins
<1> DEFINE rule == doc.rules[i]
<1>5. r.refs = rule.codes \o rule.refs
  BY <1>4 DEF RoutedIn
<1>6. rule \in Range(doc.rules)
  BY <1>1, ListFacts DEF RulesIn
<1> HIDE DEF rule
<1>7. Range(r.refs) = Range(rule.codes) \cup Range(rule.refs)
  BY <1>1, <1>5, <1>6, ConcatList
<1> QED BY <1>6, <1>7 DEF NamedBy

\* What is sought, the document names.
LEMMA SoughtIsNamed ==
    ASSUME EncodeInv, ClosedInv, pc = "done", NEW t \in Sought
    PROVE  NamedBy(doc, t)
<1>1. dns.rules = DNSIn(doc).rules
  BY DEF ClosedInv, DNSOut
<1>2. \/ \E r \in Range(routeRules) : t \in Range(r.refs)
      \/ \E rule \in Range(dns.rules) : t \in Range(rule.refs)
      \/ \E set \in Range(doc.ruleSets) : t \in Range(set.codes)
  BY DEF Sought
<1>3. CASE \E r \in Range(routeRules) : t \in Range(r.refs)
  BY <1>3, RuleRefs
<1> QED BY <1>1, <1>2, <1>3 DEF NamedBy

\* Whatever rules, DNS rules and the inline rules of rule sets name, a rule set of the
\* document is there once, and so is one for a geo tag that is named by more than the
\* RULE-SET lines of rule sets (encodeRuleSets, appendGeneratedRuleSetTag).
THEOREM RuleSetsAreDefined == Spec => []RuleSetsDefined
<1>1. EncodeInv /\ ClosedInv => RuleSetsDefined
  <2> SUFFICES ASSUME EncodeInv, ClosedInv, pc = "done", NEW t,
                      t \in {set.name : set \in Range(doc.ruleSets)} \cup (GeoTags \cap Sought)
               PROVE  Cardinality({i \in 1 .. Len(ruleSets) : ruleSets[i].tag = t}) = 1
    BY DEF RuleSetsDefined
  <2> DEFINE I == {i \in 1 .. Len(ruleSets) : ruleSets[i].tag = t}
  <2>1. SetsMade(doc, tags, ruleSets)
    BY SetsAreMade DEF ClosedInv, EncodeInv, TagInv, TagTypes
  <2>2. \E k \in 1 .. Len(ruleSets) : ruleSets[k].tag = t
    <3>1. CASE \E set \in Range(doc.ruleSets) : t = set.name
      BY <2>1, <3>1 DEF SetsMade
    <3>2. CASE t \in GeoTags /\ t \in Sought
      BY <2>1, <3>2, SoughtIsNamed DEF SetsMade
    <3> QED BY <3>1, <3>2
  <2>3. PICK k \in 1 .. Len(ruleSets) : ruleSets[k].tag = t
    BY <2>2
  <2>4. \A i \in 1 .. Len(ruleSets) : ruleSets[i].tag = t => i = k
    BY <2>1, <2>3 DEF SetsMade, UniqueTagsIn
  <2>5. I = {k}
    BY <2>3, <2>4
  <2> HIDE DEF I
  <2>6. Cardinality(I) = 1
    BY <2>5, FS_Singleton
  <2> QED BY <2>6 DEF I
<1> QED BY <1>1, Encoding, Closing, PTL

--------------------------------------------------------------------------------
(* Nothing is lost without a warning.                                             *)

MemberTold(told, i, m) == <<"member", i, m>> \in told

\* The members that a group is told to be without.
Unknown(given, g, m) ==
    g.type # "relay" /\ m \in Range(g.members) /\ ~KnownIn(DOMAIN given, m)

MembersTold(d, given, told, b) ==
    \A i, m : MemberTold(told, i, m) <=> i \in 1 .. b /\ Unknown(given, d.groups[i], m)

BeforeMembers == pc \in {"inbounds", "tags", "nodes"} => \A i, m : ~MemberTold(warnings, i, m)
AmidMembers == pc = "groups" => MembersTold(doc, tags, warnings, next)
AfterMembers == pc \in {"rules", "done"} => MembersTold(doc, tags, warnings, GroupsIn(doc))

MembersInv == BeforeMembers /\ AmidMembers /\ AfterMembers

\* The steps that have nothing to do with members say nothing of them.
LEMMA OtherMembers ==
    ASSUME \/ CheckInbounds \/ KnownName \/ Collide \/ Allocate \/ AllNamed
           \/ ConvertNode \/ AllNodes \/ AllGroups \/ ConvertRule \/ AllRules,
           CheckInbounds => \A i, m : ~MemberTold(warnings, i, m)
    PROVE  \A i, m : MemberTold(warnings', i, m) <=> MemberTold(warnings, i, m)
<1>1. CASE KnownName \/ Collide \/ Allocate \/ AllNamed \/ AllNodes \/ AllGroups \/ AllRules
  BY <1>1 DEF KnownName, Collide, Allocate, AllNamed, AllNodes, AllGroups, AllRules
<1>2. CASE CheckInbounds
  <2>1. \A i, j, m : <<"exposed", j>> # <<"member", i, m>>
    OBVIOUS
  <2>2. warnings' = warnings \/ \A w \in warnings' : \E j : w = <<"exposed", j>>
    BY <1>2 DEF CheckInbounds
  <2>3. \A i, m : ~MemberTold(warnings, i, m)
    BY <1>2
  <2> QED BY <2>1, <2>2, <2>3 DEF MemberTold
<1>3. CASE ConvertNode
  <2>1. \A i, j, m : <<"node", j>> # <<"member", i, m>>
    OBVIOUS
  <2>2. warnings' = warnings \/ \E j : warnings' = warnings \cup {<<"node", j>>}
    BY <1>3 DEF ConvertNode
  <2>3. CASE warnings' = warnings
    BY <2>3
  <2>4. ASSUME NEW j, warnings' = warnings \cup {<<"node", j>>}
        PROVE  \A i, m : <<"member", i, m>> \in warnings' <=> <<"member", i, m>> \in warnings
    <3> DEFINE one == <<"node", j>>
    <3>1. \A i, m : one # <<"member", i, m>>
      BY <2>1
    <3> HIDE DEF one
    <3>2. \A w : w \in warnings' <=> w \in warnings \/ w = one
      BY <2>4 DEF one
    <3> QED BY ONLY <3>1, <3>2
  <2> QED BY <2>2, <2>3, <2>4 DEF MemberTold
<1>4. CASE ConvertRule
  <2>1. \A i, j, m : <<"rule", j>> # <<"member", i, m>>
    OBVIOUS
  <2>2. warnings' = warnings \/ \E j : warnings' = warnings \cup {<<"rule", j>>}
    BY <1>4 DEF ConvertRule
  <2>3. CASE warnings' = warnings
    BY <2>3
  <2>4. ASSUME NEW j, warnings' = warnings \cup {<<"rule", j>>}
        PROVE  \A i, m : <<"member", i, m>> \in warnings' <=> <<"member", i, m>> \in warnings
    <3> DEFINE one == <<"rule", j>>
    <3>1. \A i, m : one # <<"member", i, m>>
      BY <2>1
    <3> HIDE DEF one
    <3>2. \A w : w \in warnings' <=> w \in warnings \/ w = one
      BY <2>4 DEF one
    <3> QED BY ONLY <3>1, <3>2
  <2> QED BY <2>2, <2>3, <2>4 DEF MemberTold
<1> QED BY <1>1, <1>2, <1>3, <1>4

LEMMA GroupMembers ==
    ASSUME NEW g, NEW j
    PROVE  \A i, m : MemberTold(GroupWarnings(g, j), i, m) <=> i = j /\ Unknown(tags, g, m)
<1> DEFINE M == {x \in Range(g.members) : ~KnownMember(x)}
           members == IF g.type = "relay" THEN {} ELSE {<<"member", j, m>> : m \in M}
           skipped == IF Converted(g) = <<>> THEN {<<"group", j>>} ELSE {}
           approximated == IF g.type \in {"fallback", "load-balance"} /\ Converted(g) # <<>>
                           THEN {<<"approximated", j>>} ELSE {}
<1>1. GroupWarnings(g, j) = skipped \cup approximated \cup members
  BY DEF GroupWarnings
<1>2. \A i, m : <<"group", j>> # <<"member", i, m>> /\ <<"approximated", j>> # <<"member", i, m>>
  OBVIOUS
<1>3. \A i, m : <<"member", i, m>> \notin skipped \cup approximated
  BY <1>2
<1>4. \A m : m \in M <=> m \in Range(g.members) /\ ~KnownIn(DOMAIN tags, m)
  BY DEF KnownMember, KnownIn
<1> HIDE DEF M, skipped, approximated
<1>5. \A i, m : <<"member", i, m>> \in members <=> i = j /\ g.type # "relay" /\ m \in M
  OBVIOUS
<1> HIDE DEF members
<1>6. \A i, m : <<"member", i, m>> \in GroupWarnings(g, j)
                   <=> i = j /\ g.type # "relay" /\ m \in M
  BY <1>1, <1>3, <1>5
<1> QED BY <1>4, <1>6 DEF MemberTold, Unknown

LEMMA StepMembers ==
    ASSUME TagInv, MembersInv, [Next]_vars
    PROVE  MembersInv'
<1>0. Encodable(doc) /\ next \in Nat /\ GroupsIn(doc) \in Nat
  BY DocFacts DEF TagInv, TagTypes
<1>1. CASE CheckInbounds \/ KnownName \/ Collide \/ Allocate \/ AllNamed \/ ConvertNode
  <2>1. pc \in {"inbounds", "tags", "nodes"} /\ pc' \in {"tags", "nodes", "failed"}
    <3>1. CASE CheckInbounds \/ KnownName \/ Collide
      BY <3>1 DEF CheckInbounds, KnownName, Collide
    <3>2. CASE Allocate \/ AllNamed \/ ConvertNode
      BY <3>2 DEF Allocate, AllNamed, ConvertNode
    <3> QED BY <1>1, <3>1, <3>2
  <2>2. \A i, m : ~MemberTold(warnings, i, m)
    BY <2>1 DEF MembersInv, BeforeMembers
  <2>3. \A i, m : ~MemberTold(warnings', i, m)
    BY <1>1, <2>2, OtherMembers
  <2> QED BY <2>1, <2>3 DEF MembersInv, BeforeMembers, AmidMembers, AfterMembers
<1>2. CASE AllNodes
  <2>1. pc = "nodes" /\ pc' = "groups" /\ next' = 0
    BY <1>2, AllNodesStep
  <2>2. \A i, m : ~MemberTold(warnings', i, m)
    BY <1>2, <2>1, OtherMembers DEF MembersInv, BeforeMembers
  <2>3. MembersTold(doc', tags', warnings', 0)
    <3>1. \A i : i \notin 1 .. 0
      OBVIOUS
    <3> QED BY <2>2, <3>1 DEF MembersTold
  <2> QED BY <2>1, <2>3 DEF MembersInv, BeforeMembers, AmidMembers, AfterMembers
<1>3. CASE ConvertGroup
  <2> DEFINE added == GroupWarnings(doc.groups[next + 1], next + 1)
             g == doc.groups[next + 1]
  <2>1. /\ UNCHANGED <<doc, pc, tags>> /\ pc = "groups" /\ next' = next + 1
        /\ warnings' = warnings \cup added
    BY <1>3 DEF ConvertGroup
  <2>2. \A i, m : MemberTold(added, i, m) <=> i = next + 1 /\ Unknown(tags, g, m)
    BY GroupMembers
  <2>3. \A i, m : MemberTold(warnings, i, m) <=> i \in 1 .. next /\ Unknown(tags, doc.groups[i], m)
    BY <2>1 DEF MembersInv, AmidMembers, MembersTold
  <2> HIDE DEF added
  <2>4. \A i, m : MemberTold(warnings', i, m)
                     <=> MemberTold(warnings, i, m) \/ MemberTold(added, i, m)
    BY <2>1 DEF MemberTold
  <2>5. \A i : i \in 1 .. next + 1 <=> i \in 1 .. next \/ i = next + 1
    BY <1>0
  <2>6. MembersTold(doc, tags, warnings', next + 1)
    <3> SUFFICES ASSUME NEW i, NEW m
                 PROVE  MemberTold(warnings', i, m)
                            <=> i \in 1 .. next + 1 /\ Unknown(tags, doc.groups[i], m)
      BY DEF MembersTold
    <3>1. CASE i = next + 1
      <4>1. i \notin 1 .. next
        BY <1>0, <3>1
      <4> QED BY <2>2, <2>3, <2>4, <2>5, <3>1, <4>1
    <3>2. CASE i # next + 1
      BY <2>2, <2>3, <2>4, <2>5, <3>2
    <3> QED BY <3>1, <3>2
  <2> QED BY <2>1, <2>6 DEF MembersInv, BeforeMembers, AmidMembers, AfterMembers
<1>4. CASE AllGroups
  <2>1. /\ UNCHANGED <<doc, tags, warnings>> /\ pc = "groups" /\ next = GroupsIn(doc)
        /\ pc' \in {"failed", "rules"}
    BY <1>4, AllGroupsStep
  <2> QED BY <2>1 DEF MembersInv, BeforeMembers, AmidMembers, AfterMembers
<1>5. CASE ConvertRule \/ AllRules
  <2>1. UNCHANGED <<doc, tags>> /\ pc = "rules" /\ pc' \in {"rules", "done"}
    BY <1>5 DEF ConvertRule, AllRules
  <2>2. \A i, m : MemberTold(warnings', i, m) <=> MemberTold(warnings, i, m)
    <3>1. ~CheckInbounds
      BY <2>1 DEF CheckInbounds
    <3> QED BY <1>5, <3>1, OtherMembers
  <2>3. MembersTold(doc, tags, warnings', GroupsIn(doc))
    BY <2>1, <2>2 DEF MembersInv, AfterMembers, MembersTold
  <2> QED BY <2>1, <2>3 DEF MembersInv, BeforeMembers, AmidMembers, AfterMembers
<1>6. CASE Finished \/ UNCHANGED vars
  <2>1. UNCHANGED <<doc, pc, next, tags, warnings>>
    BY <1>6 DEF Finished, vars
  <2> QED BY <2>1 DEF MembersInv, BeforeMembers, AmidMembers, AfterMembers
<1> QED BY <1>1, <1>2, <1>3, <1>4, <1>5, <1>6 DEF Next

\* The outbound of a group has all members but those that are told of.
LEMMA MembersKept ==
    ASSUME EncodeInv, MembersInv, pc = "done", NEW i \in 1 .. GroupsIn(doc),
           doc.groups[i].type # "relay"
    PROVE  Len(Members(doc.groups[i]))
              = Len(doc.groups[i].members)
                    - Cardinality({k \in 1 .. Len(doc.groups[i].members) :
                                      <<"member", i, doc.groups[i].members[k]>> \in warnings})
<1> DEFINE s == doc.groups[i].members
           n == Len(s)
           known == KnownOf(DOMAIN tags, doc.groups[i])
           chosen == K!Picked(known, s)
           I == {k \in 1 .. n : <<"member", i, s[k]>> \in warnings}
           J == {k \in 1 .. n : ~KnownIn(DOMAIN tags, s[k])}
<1>1. Encodable(doc)
  BY DEF EncodeInv, TagInv, TagTypes
<1>2. s \in Seq(Range(s)) /\ n \in Nat
  <2>1. IsList(s) /\ n \in Nat
    BY <1>1, GroupFacts
  <2> QED BY <2>1 DEF IsList
<1>3. Cardinality(J) = n - Len(chosen) /\ Len(chosen) \in Nat
  <2>1. K!Cardinality({k \in 1 .. n : s[k] \notin known}) = n - Len(chosen)
    <3> HIDE DEF known
    <3> QED BY <1>2, K!PickedCount
  <2>2. J = {k \in 1 .. n : s[k] \notin known}
    <3>1. \A k \in 1 .. n : s[k] \in Range(s)
      BY <1>2, ListOf, ListFacts
    <3>2. \A k \in 1 .. n : ~KnownIn(DOMAIN tags, s[k]) <=> s[k] \notin known
      BY <3>1 DEF KnownOf
    <3> HIDE DEF known, s, n
    <3> QED BY <3>2
  <2>3. K!Cardinality(J) = Cardinality(J)
    BY DEF K!Cardinality, Cardinality
  <2>4. Len(chosen) \in Nat
    BY <1>2, K!PickedItems
  <2> QED BY <2>1, <2>2, <2>3, <2>4
<1>4. Len(Members(doc.groups[i])) = Len(chosen)
  <2>1. MembersIn(tags, doc.groups[i]) = [k \in 1 .. Len(chosen) |-> MemberTagIn(tags, chosen[k])]
    BY DEF MembersIn
  <2> HIDE DEF chosen
  <2>2. Len(MembersIn(tags, doc.groups[i])) = Len(chosen)
    BY <1>3, <2>1
  <2> QED BY <2>2, MembersAreIn
<1> HIDE DEF chosen
<1>5. I = J
  <2>1. ASSUME NEW k \in 1 .. n
        PROVE  <<"member", i, s[k]>> \in warnings <=> ~KnownIn(DOMAIN tags, s[k])
    <3>1. s[k] \in Range(s)
      BY <1>2, ListOf, ListFacts
    <3>2. MemberTold(warnings, i, s[k]) <=> Unknown(tags, doc.groups[i], s[k])
      BY DEF MembersInv, AfterMembers, MembersTold
    <3> QED BY <3>1, <3>2 DEF MemberTold, Unknown
  <2> QED BY <2>1
<1> HIDE DEF I, J, s
<1>6. n - (n - Len(chosen)) = Len(chosen)
  BY <1>2, <1>3
<1>7. Len(Members(doc.groups[i])) = n - Cardinality(I)
  BY <1>3, <1>4, <1>5, <1>6
<1> QED BY <1>7 DEF I, s

\* A node that is not warned of is dialled, under its tag.
NodeKept(i) ==
    \/ <<"node", i>> \in warnings
    \/ \E o \in Tagged(tags[doc.nodes[i].name]) : o.server = doc.nodes[i].name

\* A group that is not warned of is there, without the members that are warned of.
GroupKept(i) ==
    \/ <<"group", i>> \in warnings
    \/ /\ Tagged(tags[doc.groups[i].name]) # {}
       /\ doc.groups[i].type # "relay" =>
            \E o \in Tagged(tags[doc.groups[i].name]) :
                Len(o.members) = Len(doc.groups[i].members)
                    - Cardinality({k \in 1 .. Len(doc.groups[i].members) :
                          <<"member", i, doc.groups[i].members[k]>> \in warnings})

LEMMA NodesAreKept ==
    ASSUME EncodeInv, pc = "done", NEW i \in 1 .. NodesIn(doc)
    PROVE  NodeKept(i)
<1> DEFINE node == doc.nodes[i]
           out == NodeOut(doc, tags, i)
<1>1. IF node.supported THEN out \in Outbounds ELSE <<"node", i>> \in warnings
  BY AllIsMade DEF NodesMade
<1>2. out.tag = tags[node.name] /\ out.server = node.name
  BY DEF NodeOut, Outbound
<1> HIDE DEF out
<1> QED BY <1>1, <1>2 DEF NodeKept, Tagged

LEMMA GroupsAreKept ==
    ASSUME EncodeInv, MembersInv, pc = "done", NEW i \in 1 .. GroupsIn(doc)
    PROVE  GroupKept(i)
<1> DEFINE group == doc.groups[i]
<1>1. CASE <<"group", i>> \in warnings
  BY <1>1 DEF GroupKept
<1>2. CASE <<"group", i>> \notin warnings
  <2>1. PICK o \in Tagged(tags[group.name]) :
            group.type # "relay" => Len(o.members) = Len(Members(group))
    BY <1>2, GroupStands
  <2>2. group.type # "relay" =>
           Len(Members(group)) = Len(group.members)
               - Cardinality({k \in 1 .. Len(group.members) :
                                 <<"member", i, group.members[k]>> \in warnings})
    BY MembersKept
  <2> HIDE DEF group
  <2>3. group.type # "relay" =>
           Len(o.members) = Len(group.members)
               - Cardinality({k \in 1 .. Len(group.members) :
                                 <<"member", i, group.members[k]>> \in warnings})
    BY <2>1, <2>2
  <2> QED BY <2>1, <2>3 DEF GroupKept, group
<1> QED BY <1>1, <1>2

LEMMA RulesAreCounted ==
    ASSUME EncodeInv, pc = "done"
    PROVE  Len(doc.rules) + Len(BuiltinRules)
              = Len(routeRules)
                    + Cardinality({i \in 1 .. Len(doc.rules) : <<"rule", i>> \in warnings})
<1> DEFINE told == {i \in 1 .. Len(doc.rules) : <<"rule", i>> \in warnings}
<1>1. Len(routeRules) + Cardinality(ToldRules(warnings, RulesIn(doc))) = RulesIn(doc) + 2
  BY DEF EncodeInv, RulesInv, AfterRules, RulesMade, RulesCounted
<1>2. told = ToldRules(warnings, RulesIn(doc)) /\ RulesIn(doc) = Len(doc.rules)
  BY DEF ToldRules, RuleTold, RulesIn
<1>3. Len(BuiltinRules) = 2
  BY PairList DEF BuiltinRules
<1> HIDE DEF told
<1>4. Len(doc.rules) + Len(BuiltinRules) = Len(routeRules) + Cardinality(told)
  BY <1>1, <1>2, <1>3
<1> QED BY <1>4 DEF told

\* Whatever cannot be converted is warned of: nodes, groups, members and rules are
\* there or in the warnings (convertNode, convertGroup, convertRouteRule).
THEOREM NothingIsLostSilently == Spec => []NothingLostSilently
<1>1. Init => MembersInv
  <2> SUFFICES ASSUME Init PROVE MembersInv
    OBVIOUS
  <2>1. pc = "inbounds" /\ warnings = {}
    BY DEF Init, Idle
  <2> QED BY <2>1 DEF MembersInv, BeforeMembers, AmidMembers, AfterMembers, MemberTold
<1>2. EncodeInv /\ MembersInv /\ [Next]_vars => MembersInv'
  BY StepMembers DEF EncodeInv
<1>3. EncodeInv /\ MembersInv => NothingLostSilently
  <2> SUFFICES ASSUME EncodeInv, MembersInv, pc = "done" PROVE NothingLostSilently
    BY DEF NothingLostSilently
  <2>1. \A i \in 1 .. Len(doc.nodes) : NodeKept(i)
    BY NodesAreKept DEF NodesIn
  <2>2. \A i \in 1 .. Len(doc.groups) : GroupKept(i)
    BY GroupsAreKept DEF GroupsIn
  <2> QED BY <2>1, <2>2, RulesAreCounted DEF NothingLostSilently, NodeKept, GroupKept
<1> QED BY <1>1, <1>2, <1>3, Encoding, PTL DEF Spec

--------------------------------------------------------------------------------
(* What is named is there, or was skipped.                                        *)

Held(t) == Tagged(t) # {} \/ Skipped(t)

LEMMA BuiltinHeld ==
    ASSUME EncodeInv, pc = "done"
    PROVE  Held("direct") /\ Held("reject") /\ Held("proxy")
<1> DEFINE direct == Outbound("direct", "direct", "", <<>>, "", DNSIn(doc).directResolver)
           block == Outbound("block", "reject", "", <<>>, "", "")
           proxy == ProxyOut(doc, tags, groupTags)
<1>1. direct.tag = "direct" /\ block.tag = "reject" /\ proxy.tag = "proxy"
  BY ProxyTag DEF Outbound
<1>2. Fixed(doc, tags, groupTags) = {direct, block, proxy}
  BY DEF Fixed, BuiltinOuts
<1> HIDE DEF direct, block, proxy
<1>3. direct \in Outbounds /\ block \in Outbounds /\ proxy \in Outbounds
  BY <1>2, AllIsMade
<1> QED BY <1>1, <1>3 DEF Held, Tagged

LEMMA NameHeld ==
    ASSUME EncodeInv, pc = "done", NEW n \in DOMAIN tags
    PROVE  Held(tags[n])
<1>1. PICK i \in 1 .. Total(doc) : NameIn(doc, i) = n
  BY AllIsMade DEF TaggedUpTo
<1>2. CASE i \in 1 .. NodesIn(doc) /\ n = doc.nodes[i].name
  BY <1>2, NodeStands DEF Held
<1>3. ASSUME NEW j \in 1 .. GroupsIn(doc), n = doc.groups[j].name PROVE Held(tags[n])
  <2>1. CASE Skipped(tags[n])
    BY <2>1 DEF Held
  <2>2. CASE ~Skipped(tags[n])
    <3>1. \E o : o \in Tagged(tags[n])
      BY <1>3, <2>2, GroupStands
    <3> QED BY <3>1 DEF Held
  <2> QED BY <2>1, <2>2
<1>4. Encodable(doc)
  BY AllIsMade
<1> QED BY <1>1, <1>2, <1>3, <1>4, NameOf

LEMMA PolicyHeld ==
    ASSUME EncodeInv, pc = "done", NEW policy, PolicyIn(tags, policy) # ""
    PROVE  Held(PolicyIn(tags, policy))
<1>1. PolicyIn(tags, policy) \in {"direct", "reject", "proxy"}
        \/ \E n \in DOMAIN tags : PolicyIn(tags, policy) = tags[n]
  BY DEF PolicyIn
<1>2. CASE PolicyIn(tags, policy) \in {"direct", "reject", "proxy"}
  BY <1>2, BuiltinHeld
<1>3. CASE \E n \in DOMAIN tags : PolicyIn(tags, policy) = tags[n]
  BY <1>3, NameHeld
<1> QED BY <1>1, <1>2, <1>3

\* A policy that the encoder knows.
Known(policy) ==
    policy \in DirectNames \cup RejectNames \cup DropNames \cup ProxyNames \cup DOMAIN tags

LEMMA KnownPolicy ==
    ASSUME Spelled, NamesInv, NEW policy, Known(policy)
    PROVE  PolicyIn(tags, policy) # ""
<1>1. \A n \in DOMAIN tags : tags[n] # ""
  BY DEF NamesInv, Spelled
<1> QED BY <1>1 DEF PolicyIn, Known

LEMMA DetourHeld ==
    ASSUME Spelled, EncodeInv, NamesInv, pc = "done", NEW policy, Known(policy)
    PROVE  Held(DetourIn(tags, policy))
<1>1. PolicyIn(tags, policy) # ""
  BY KnownPolicy
<1>2. DetourIn(tags, policy) = PolicyIn(tags, policy)
  BY <1>1 DEF DetourIn, FirstNonEmpty
<1>3. Held(PolicyIn(tags, policy))
  BY <1>1, PolicyHeld
<1> QED BY <1>2, <1>3

LEMMA FinalHeld ==
    ASSUME EncodeInv, pc = "done"
    PROVE  Held(FinalIn(doc, tags))
<1>1. CASE PolicyIn(tags, doc.final) \in {"", "reject"}
  <2>1. FinalIn(doc, tags) = "proxy"
    BY <1>1 DEF FinalIn
  <2> QED BY <2>1, BuiltinHeld
<1>2. CASE PolicyIn(tags, doc.final) \notin {"", "reject"}
  <2>1. FinalIn(doc, tags) = PolicyIn(tags, doc.final) /\ PolicyIn(tags, doc.final) # ""
    BY <1>2 DEF FinalIn
  <2>2. Held(PolicyIn(tags, doc.final))
    BY <2>1, PolicyHeld
  <2> QED BY <2>1, <2>2
<1> QED BY <1>1, <1>2

\* The members of an outbound.
LEMMA MembersHeld ==
    ASSUME EncodeInv, pc = "done", NEW i \in 1 .. GroupsIn(doc),
           NEW t \in Range(MembersIn(tags, doc.groups[i]))
    PROVE  Held(t)
<1> DEFINE s == doc.groups[i].members
           known == KnownOf(DOMAIN tags, doc.groups[i])
           chosen == K!Picked(known, s)
           n == Len(chosen)
           f == [k \in 1 .. n |-> MemberTagIn(tags, chosen[k])]
           T == {MemberTagIn(tags, chosen[k]) : k \in 1 .. n}
<1>1. s \in Seq(Range(s))
  <2>1. IsList(s)
    BY AllIsMade, GroupFacts
  <2> QED BY <2>1 DEF IsList
<1>2. n \in Nat /\ \A k \in 1 .. n : KnownIn(DOMAIN tags, chosen[k])
  <2>1. K!PickedFrom(known, s, chosen)
    <3> HIDE DEF known
    <3> QED BY <1>1, K!PickedAre
  <2>2. \A m \in known : KnownIn(DOMAIN tags, m)
    BY DEF KnownOf
  <2> HIDE DEF chosen, s, known
  <2> QED BY <2>1, <2>2 DEF K!PickedFrom
<1>3. MembersIn(tags, doc.groups[i]) = f
  BY DEF MembersIn
<1>4. f \in [1 .. n -> T] /\ \A k \in 1 .. n : f[k] = MemberTagIn(tags, chosen[k])
  OBVIOUS
<1> HIDE DEF chosen, n, f, T
<1>5. PICK k \in 1 .. n : t = MemberTagIn(tags, chosen[k])
  <2>1. Range(f) = {f[k] : k \in 1 .. n}
    BY <1>2, <1>4, FunctionList
  <2> QED BY <1>3, <1>4, <2>1
<1>6. t = "direct" \/ t = "reject" \/ \E m \in DOMAIN tags : t = tags[m]
  BY <1>2, <1>5 DEF MemberTagIn, KnownIn
<1> QED BY <1>6, BuiltinHeld, NameHeld

LEMMA SelectableHeld ==
    ASSUME EncodeInv, pc = "done", NEW t \in Range(SelectableIn(doc, tags, groupTags))
    PROVE  Held(t)
<1>1. Encodable(doc) /\ TaggedUpTo(doc, tags, Total(doc))
  BY AllIsMade
<1>2. \A i \in 1 .. NodesIn(doc) : doc.nodes[i].name \in DOMAIN tags
  BY <1>1, NodeName DEF TaggedUpTo
<1>3. \A i \in 1 .. GroupsIn(doc) : doc.groups[i].name \in DOMAIN tags
  BY <1>1, GroupName DEF TaggedUpTo
<1>4. CASE groupTags # <<>>
  <2>1. t \in Range(groupTags)
    BY <1>4 DEF SelectableIn
  <2>2. GroupsMade(doc, tags, nodeOutbounds, Range(groupTags), Range(outbounds), warnings,
                   GroupsIn(doc))
    BY DEF EncodeInv, OutsInv, AfterOuts, AllMade
  <2>3. PICK i \in 1 .. GroupsIn(doc) : t = tags[doc.groups[i].name]
    BY <2>1, <2>2 DEF GroupsMade
  <2> QED BY <1>3, <2>3, NameHeld
<1>5. CASE groupTags = <<>>
  <2> DEFINE chosen == K!Picked(SupportedIn(doc), doc.nodes)
             n == Len(chosen)
             f == [k \in 1 .. n |-> tags[chosen[k].name]]
             T == {tags[chosen[k].name] : k \in 1 .. n}
  <2>1. SelectableIn(doc, tags, groupTags) = f
    BY <1>5 DEF SelectableIn, NodeTagsIn
  <2>2. /\ n \in Nat
        /\ \A k \in 1 .. n : \E i \in 1 .. NodesIn(doc) : chosen[k] = doc.nodes[i]
    <3>1. doc.nodes \in Seq(Range(doc.nodes))
      BY <1>1, DocFacts DEF IsList
    <3>2. K!PickedFrom(SupportedIn(doc), doc.nodes, chosen)
      BY <3>1, K!PickedAre
    <3> HIDE DEF chosen
    <3> QED BY <3>2 DEF K!PickedFrom, NodesIn
  <2>3. f \in [1 .. n -> T] /\ \A k \in 1 .. n : f[k] = tags[chosen[k].name]
    OBVIOUS
  <2> HIDE DEF chosen, n, f, T
  <2>4. PICK k \in 1 .. n : t = tags[chosen[k].name]
    <3>1. n \in Nat /\ f \in [1 .. n -> T]
      BY <2>2, <2>3
    <3>2. Range(f) = {f[k] : k \in 1 .. n}
      BY ONLY <3>1, FunctionList
    <3> QED BY <2>1, <2>3, <3>2
  <2>5. PICK i \in 1 .. NodesIn(doc) : chosen[k] = doc.nodes[i]
    BY <2>2
  <2> QED BY <1>2, <2>4, <2>5, NameHeld
<1> QED BY <1>4, <1>5

NoTag == ""

\* What each outbound has in its fields.
LEMMA NodeFields ==
    \A d, given, i :
        /\ NodeOut(d, given, i).type = "node"
        /\ NodeOut(d, given, i).tag = given[d.nodes[i].name]
        /\ NodeOut(d, given, i).server = d.nodes[i].name
        /\ NodeOut(d, given, i).members = <<>>
        /\ NodeOut(d, given, i).detour = NoTag
        /\ NodeOut(d, given, i).resolver = ResolverIn(d, d.nodes[i])
BY DEF NodeOut, Outbound, NoTag

LEMMA HopFields ==
    \A d, given, g, k :
        /\ HopOut(d, given, g, k).type = "node"
        /\ HopOut(d, given, g, k).tag = HopTagIn(given, g, k)
        /\ HopOut(d, given, g, k).server = g.members[k]
        /\ HopOut(d, given, g, k).members = <<>>
        /\ HopOut(d, given, g, k).detour = IF k = 1 THEN NoTag ELSE HopTagIn(given, g, k - 1)
        /\ HopOut(d, given, g, k).resolver
              = ResolverIn(d, d.nodes[NodeCalled(d, g.members[k])])
BY DEF HopOut, Outbound, NoTag

ListOut(given, g) == Outbound(TypeOf(g), given[g.name], "", MembersIn(given, g), "", "")

LEMMA ListFields ==
    \A given, g :
        /\ ListOut(given, g).type = TypeOf(g) /\ ListOut(given, g).tag = given[g.name]
        /\ ListOut(given, g).members = MembersIn(given, g)
        /\ ListOut(given, g).detour = NoTag /\ ListOut(given, g).resolver = NoTag
BY DEF ListOut, Outbound, NoTag

LEMMA ProxyFields ==
    \A d, given, gts :
        /\ ProxyOut(d, given, gts).type = "selector"
        /\ ProxyOut(d, given, gts).members = SelectableIn(d, given, gts)
        /\ ProxyOut(d, given, gts).detour = NoTag /\ ProxyOut(d, given, gts).resolver = NoTag
BY DEF ProxyOut, Outbound, NoTag

LEMMA BuiltinFields ==
    ASSUME NEW d, NEW o \in BuiltinOuts(d)
    PROVE  /\ o.type # "node" /\ o.members = <<>> /\ o.detour = NoTag
           /\ o.resolver = DNSIn(d).directResolver \/ o.resolver = NoTag
<1> DEFINE direct == Outbound("direct", "direct", "", <<>>, "", DNSIn(d).directResolver)
           block == Outbound("block", "reject", "", <<>>, "", "")
<1>1. BuiltinOuts(d) = {direct, block}
  BY DEF BuiltinOuts
<1>2. /\ direct.type # "node" /\ direct.members = <<>> /\ direct.detour = NoTag
      /\ direct.resolver = DNSIn(d).directResolver
  BY DEF Outbound, NoTag
<1>3. block.type # "node" /\ block.members = <<>> /\ block.detour = NoTag /\ block.resolver = NoTag
  BY DEF Outbound, NoTag
<1> HIDE DEF direct, block
<1> QED BY <1>1, <1>2, <1>3

\* An outbound names only what is held.
OutHeld(o) ==
    /\ \A t \in Range(o.members) : Held(t)
    /\ o.detour = NoTag \/ Held(o.detour)

LEMMA PlainHeld ==
    ASSUME NEW o, o.members = <<>>, o.detour = NoTag
    PROVE  OutHeld(o)
BY EmptyList DEF OutHeld

LEMMA HopHeld ==
    ASSUME EncodeInv, pc = "done", NEW i \in 1 .. GroupsIn(doc), doc.groups[i].type = "relay",
           NEW o \in Range(ConvertedIn(doc, tags, nodeOutbounds, doc.groups[i]))
    PROVE  OutHeld(o)
<1> DEFINE g == doc.groups[i]
           n == Dialled(g)
           hops == ConvertedIn(doc, tags, nodeOutbounds, g)
<1>1. /\ Encodable(doc)
      /\ GroupMade(doc, tags, nodeOutbounds, Range(groupTags), Outbounds, warnings, i)
  BY AllIsMade
<1>2. hops # <<>>
  BY EmptyList
<1>3. RelayMade(doc, tags, g, hops)
  BY <1>1, <1>2, RelayOut
<1>4. /\ n \in Nat /\ Len(hops) = n /\ \A k \in 1 .. n : hops[k] = HopOut(doc, tags, g, k)
      /\ \A x : x \in Range(hops) <=> \E k \in 1 .. n : x = HopOut(doc, tags, g, k)
  BY <1>3 DEF RelayMade
<1>5. Range(hops) \subseteq Outbounds
  BY <1>1, <1>2 DEF GroupMade
<1>6. PICK k \in 1 .. n : o = HopOut(doc, tags, g, k)
  BY <1>4
<1>7. o.members = <<>>
  BY <1>6, HopFields
<1>8. \A t \in Range(o.members) : Held(t)
  BY <1>7, EmptyList
<1>9. CASE k = 1
  <2>1. o.detour = NoTag
    BY <1>6, <1>9, HopFields
  <2> QED BY <1>7, <2>1, PlainHeld
<1>10. CASE k # 1
  <2> DEFINE before == HopOut(doc, tags, g, k - 1)
  <2>1. k - 1 \in 1 .. n
    BY <1>4, <1>10
  <2>2. before.tag = HopTagIn(tags, g, k - 1)
    BY HopFields
  <2>3. o.detour = HopTagIn(tags, g, k - 1)
    BY <1>6, <1>10, HopFields
  <2> HIDE DEF before, hops, n, g
  <2>4. before \in Outbounds
    BY <1>4, <1>5, <2>1 DEF before
  <2>5. Held(o.detour)
    BY <2>2, <2>3, <2>4 DEF Held, Tagged
  <2> QED BY <1>8, <2>5 DEF OutHeld
<1> QED BY <1>9, <1>10

LEMMA OutsHeld ==
    ASSUME EncodeInv, pc = "done", NEW o \in Outbounds
    PROVE  OutHeld(o)
<1> DEFINE proxy == ProxyOut(doc, tags, groupTags)
           made(i) == ConvertedIn(doc, tags, nodeOutbounds, doc.groups[i])
<1>1. \/ o \in Fixed(doc, tags, groupTags)
      \/ \E i \in 1 .. NodesIn(doc) : o = NodeOut(doc, tags, i)
      \/ \E i \in 1 .. GroupsIn(doc) : o \in Range(made(i))
  BY DEF EncodeInv, OutsInv, AfterOuts, AllMade, Origins, Outbounds
<1>2. CASE o \in Fixed(doc, tags, groupTags)
  <2>1. o \in BuiltinOuts(doc) \/ o = proxy
    BY <1>2 DEF Fixed
  <2>2. CASE o \in BuiltinOuts(doc)
    BY <2>2, BuiltinFields, PlainHeld
  <2>3. CASE o = proxy
    <3>1. o.members = SelectableIn(doc, tags, groupTags) /\ o.detour = NoTag
      BY <2>3, ProxyFields
    <3> QED BY <3>1, SelectableHeld DEF OutHeld
  <2> QED BY <2>1, <2>2, <2>3
<1>3. ASSUME NEW i \in 1 .. NodesIn(doc), o = NodeOut(doc, tags, i) PROVE OutHeld(o)
  <2>1. o.members = <<>> /\ o.detour = NoTag
    BY <1>3, NodeFields
  <2> QED BY <2>1, PlainHeld
<1>4. ASSUME NEW i \in 1 .. GroupsIn(doc), o \in Range(made(i)) PROVE OutHeld(o)
  <2> DEFINE g == doc.groups[i]
             out == ListOut(tags, g)
  <2>1. CASE g.type = "relay"
    BY <1>4, <2>1, HopHeld
  <2>2. CASE g.type # "relay"
    <3>1. made(i) # <<>>
      BY <1>4, EmptyList
    <3>2. made(i) = <<out>>
      BY <2>2, <3>1, GroupOut DEF ListOut
    <3> HIDE DEF out, made
    <3>3. o = out
      BY <1>4, <3>2, SingleList
    <3>4. o.members = MembersIn(tags, g) /\ o.detour = NoTag
      BY <3>3, ListFields DEF out
    <3> QED BY <3>4, MembersHeld DEF OutHeld
  <2> QED BY <2>1, <2>2
<1> QED BY <1>1, <1>2, <1>3, <1>4

\* Where a reference may stand.
LEMMA ReferenceIs ==
    ASSUME NEW t \in References
    PROVE  \/ \E o \in Outbounds : t \in Range(o.members)
           \/ \E o \in Outbounds : t = o.detour /\ t # NoTag
           \/ \E r \in Range(routeRules) : r.action = "route" /\ t = r.outbound
           \/ \E set \in Range(ruleSets) : t = set.detour /\ t # NoTag
           \/ \E server \in Range(dns.servers) : t = server.detour /\ t # NoTag
           \/ t = final
<1>1. References =
        (UNION {Range(o.members) : o \in Outbounds})
            \cup ({o.detour : o \in Outbounds} \ {NoTag})
            \cup {rule.outbound : rule \in {r \in Range(routeRules) : r.action = "route"}}
            \cup ({set.detour : set \in Range(ruleSets)} \ {NoTag})
            \cup ({server.detour : server \in Range(dns.servers)} \ {NoTag})
            \cup {final}
  BY DEF References, NoTag
<1> QED BY <1>1

LEMMA RuleHeld ==
    ASSUME EncodeInv, pc = "done", NEW r \in Range(routeRules), r.action = "route"
    PROVE  Held(r.outbound)
<1>1. RuleOrigins(doc, tags, routeRules, RulesIn(doc))
  BY DEF EncodeInv, RulesInv, AfterRules, RulesMade
<1>2. CASE r \in Range(BuiltinRules)
  <2> DEFINE hijack == [match |-> Dns, refs |-> <<>>, action |-> "hijack-dns", outbound |-> ""]
             local == [match |-> Private, refs |-> <<>>, action |-> "route",
                       outbound |-> "direct"]
  <2>1. BuiltinRules = <<hijack, local>>
    BY DEF BuiltinRules
  <2>2. hijack.action # "route" /\ local.outbound = "direct"
    OBVIOUS
  <2> HIDE DEF hijack, local
  <2>3. r.outbound = "direct"
    BY <1>2, <2>1, <2>2, PairList
  <2> QED BY <2>3, BuiltinHeld
<1>3. ASSUME NEW i \in 1 .. RulesIn(doc), r = RoutedIn(tags, doc.rules[i]), ~Refused(r)
      PROVE  Held(r.outbound)
  <2> DEFINE policy == doc.rules[i].target
  <2>1. r.outbound = PolicyIn(tags, policy) /\ PolicyIn(tags, policy) # ""
    BY <1>3, RoutedPolicy
  <2> HIDE DEF policy
  <2>2. Held(PolicyIn(tags, policy))
    BY <2>1, PolicyHeld
  <2> QED BY <2>1, <2>2
<1> QED BY <1>1, <1>2, <1>3 DEF RuleOrigins

\* A policy that a rule set or a server may be reached through.
LEMMA AnyDetourHeld ==
    ASSUME Spelled, EncodeInv, NamesInv, pc = "done", NEW policy, Known(policy) \/ policy = NoTag
    PROVE  DetourIn(tags, policy) = NoTag \/ Held(DetourIn(tags, policy))
<1>1. CASE Known(policy)
  BY <1>1, DetourHeld
<1>2. CASE ~Known(policy)
  <2>1. policy = NoTag
    BY <1>2
  <2>2. CASE PolicyIn(tags, policy) = ""
    BY <2>1, <2>2 DEF DetourIn, FirstNonEmpty, NoTag
  <2>3. CASE PolicyIn(tags, policy) # ""
    <3>1. DetourIn(tags, policy) = PolicyIn(tags, policy)
      BY <2>3 DEF DetourIn, FirstNonEmpty
    <3>2. Held(PolicyIn(tags, policy))
      BY <2>3, PolicyHeld
    <3> QED BY <3>1, <3>2
  <2> QED BY <2>2, <2>3
<1> QED BY <1>1, <1>2

\* What DetoursHold says.
LEMMA DetoursKnown ==
    ASSUME EncodeInv, pc = "done", DetoursHold,
           NEW x \in Range(doc.ruleSets) \cup Range(DNSIn(doc).servers)
    PROVE  Known(x.detour) \/ x.detour = NoTag
<1>1. Encodable(doc) /\ TaggedUpTo(doc, tags, Total(doc))
  BY AllIsMade
<1>2. /\ IsList(doc.nodes) /\ IsList(doc.groups)
      /\ Range(doc.nodes) = {doc.nodes[i] : i \in 1 .. NodesIn(doc)}
      /\ Range(doc.groups) = {doc.groups[i] : i \in 1 .. GroupsIn(doc)}
  <2>1. IsList(doc.nodes) /\ IsList(doc.groups)
    BY <1>1, DocFacts, ListOf
  <2> QED BY <2>1, ListFacts DEF NodesIn, GroupsIn
<1>3. \A i \in 1 .. NodesIn(doc) : doc.nodes[i].name \in DOMAIN tags
  BY <1>1, NodeName DEF TaggedUpTo
<1>4. \A i \in 1 .. GroupsIn(doc) : doc.groups[i].name \in DOMAIN tags
  BY <1>1, GroupName DEF TaggedUpTo
<1>5. NodeNames \subseteq DOMAIN tags
  BY <1>2, <1>3 DEF NodeNames
<1>6. GroupNames \subseteq DOMAIN tags
  BY <1>2, <1>4 DEF GroupNames
<1>7. x.detour \in {NoTag} \cup DirectNames \cup RejectNames \cup DropNames \cup ProxyNames
                       \cup NodeNames \cup GroupNames
  BY DEF DetoursHold, EffectiveDNS, DNSIn, NoTag
<1> QED BY <1>5, <1>6, <1>7 DEF Known

LEMMA RuleSetHeld ==
    ASSUME Spelled, EncodeInv, NamesInv, ClosedInv, pc = "done", DetoursHold, NEW set \in Range(ruleSets)
    PROVE  set.detour = NoTag \/ Held(set.detour)
<1>1. SetsMade(doc, tags, ruleSets)
  BY SetsAreMade DEF ClosedInv, EncodeInv, TagInv, TagTypes
<1>2. PICK k \in 1 .. Len(ruleSets) : set = ruleSets[k]
  BY <1>1, ListFacts DEF SetsMade
<1>3. CASE set.detour = "proxy"
  BY <1>3, BuiltinHeld
<1>4. ASSUME NEW x \in Range(doc.ruleSets), set = DownloadedIn(tags, x)
      PROVE  set.detour = NoTag \/ Held(set.detour)
  <2>1. set.detour = DetourIn(tags, x.detour)
    BY <1>4 DEF DownloadedIn
  <2>2. Known(x.detour) \/ x.detour = NoTag
    BY DetoursKnown
  <2> QED BY <2>1, <2>2, AnyDetourHeld
<1> QED BY <1>1, <1>2, <1>3, <1>4 DEF SetsMade

\* The servers of a document, or those of the default.
LEMMA ServerFacts ==
    ASSUME NEW d, Encodable(d)
    PROVE  /\ IsList(DNSIn(d).servers) /\ DNSIn(d).servers # <<>>
           /\ \A server \in Range(DNSIn(d).servers) : {"tag", "detour"} \subseteq DOMAIN server
<1>1. CASE d.dns.servers = <<>>
  <2> DEFINE local == Server("local", "local", "", FALSE)
             remote == Server("remote", "1.1.1.1", "proxy", FALSE)
  <2>1. DNSIn(d).servers = <<local, remote>>
    BY <1>1 DEF DNSIn, DefaultDNS
  <2>2. {"tag", "detour"} \subseteq DOMAIN local /\ {"tag", "detour"} \subseteq DOMAIN remote
    BY DEF Server
  <2> HIDE DEF local, remote
  <2>3. /\ IsList(<<local, remote>>) /\ Len(<<local, remote>>) = 2
        /\ Range(<<local, remote>>) = {local, remote}
    BY PairList
  <2>4. <<local, remote>> # <<>>
    BY <2>3, EmptyList
  <2> QED BY <2>1, <2>2, <2>3, <2>4
<1>2. CASE d.dns.servers # <<>>
  BY <1>2 DEF DNSIn, Encodable
<1> QED BY <1>1, <1>2

\* The encoded servers are those servers, with tags for policies.
ServerOf(d, given, i) ==
    [DNSIn(d).servers[i] EXCEPT !.detour = IF @ = NoTag THEN NoTag ELSE DetourIn(given, @)]

LEMMA ServersMade ==
    ASSUME NEW d, Encodable(d), NEW given, NEW server \in Range(ServersIn(d, given))
    PROVE  \E x \in Range(DNSIn(d).servers) :
              /\ server.tag = x.tag
              /\ server.detour = IF x.detour = NoTag THEN NoTag ELSE DetourIn(given, x.detour)
<1> DEFINE s == DNSIn(d).servers
           n == Len(s)
           f == ServersIn(d, given)
           T == {ServerOf(d, given, i) : i \in 1 .. n}
<1>1. IsList(s) /\ \A x \in Range(s) : {"tag", "detour"} \subseteq DOMAIN x
  BY ServerFacts
<1>2. n \in Nat /\ Range(s) = {s[i] : i \in 1 .. n}
  BY <1>1, ListFacts
<1>3. f = [i \in 1 .. n |-> ServerOf(d, given, i)]
  BY DEF ServersIn, ServerOf, NoTag
<1>4. f \in [1 .. n -> T] /\ \A i \in 1 .. n : f[i] = ServerOf(d, given, i)
  BY <1>3
<1> HIDE DEF n, f, T
<1>5. PICK i \in 1 .. n : server = ServerOf(d, given, i)
  <2>1. Range(f) = {f[i] : i \in 1 .. n}
    BY <1>2, <1>4, FunctionList
  <2> QED BY <1>4, <2>1 DEF f
<1>6. s[i] \in Range(s)
  BY <1>2
<1> DEFINE x == s[i]
<1>7. {"tag", "detour"} \subseteq DOMAIN x
  BY <1>1, <1>6
<1>8. server = [x EXCEPT !.detour = IF @ = NoTag THEN NoTag ELSE DetourIn(given, @)]
  BY <1>5 DEF ServerOf
<1> HIDE DEF x
<1>9. /\ server.tag = x.tag
      /\ server.detour = IF x.detour = NoTag THEN NoTag ELSE DetourIn(given, x.detour)
  BY <1>7, <1>8
<1> QED BY <1>6, <1>9 DEF x

LEMMA ServerHeld ==
    ASSUME Spelled, EncodeInv, NamesInv, ClosedInv, pc = "done", DetoursHold,
           NEW server \in Range(dns.servers)
    PROVE  server.detour = NoTag \/ Held(server.detour)
<1>1. Encodable(doc) /\ dns.servers = ServersIn(doc, tags)
  BY DEF ClosedInv, DNSOut, EncodeInv, TagInv, TagTypes
<1>2. PICK x \in Range(DNSIn(doc).servers) :
          server.detour = IF x.detour = NoTag THEN NoTag ELSE DetourIn(tags, x.detour)
  BY <1>1, ServersMade
<1>3. Known(x.detour) \/ x.detour = NoTag
  BY DetoursKnown
<1> QED BY <1>2, <1>3, AnyDetourHeld

\* Wherever an outbound is named, by a group, a relay, a rule, a rule set, a server
\* or the final policy, it is there, unless it is what a node or a group that was
\* warned of would have been (policyTag, convertGroup, convertRelayGroup,
\* encodeRuleSets, encodeDNS).
THEOREM OnlySkippedDangles == Spelled => (Spec => []OnlySkippedDangle)
<1> SUFFICES ASSUME Spelled PROVE Spec => []OnlySkippedDangle
  OBVIOUS
<1>1. EncodeInv /\ NamesInv /\ ClosedInv => OnlySkippedDangle
  <2> SUFFICES ASSUME EncodeInv, NamesInv, ClosedInv, pc = "done", DetoursHold, NEW t \in References
               PROVE  Held(t)
    BY DEF OnlySkippedDangle, Held
  <2>1. CASE \E o \in Outbounds : t \in Range(o.members)
    BY <2>1, OutsHeld DEF OutHeld
  <2>2. CASE \E o \in Outbounds : t = o.detour /\ t # NoTag
    BY <2>2, OutsHeld DEF OutHeld
  <2>3. CASE \E r \in Range(routeRules) : r.action = "route" /\ t = r.outbound
    BY <2>3, RuleHeld
  <2>4. CASE \E set \in Range(ruleSets) : t = set.detour /\ t # NoTag
    BY <2>4, RuleSetHeld
  <2>5. CASE \E server \in Range(dns.servers) : t = server.detour /\ t # NoTag
    BY <2>5, ServerHeld
  <2>6. CASE t = final
    BY <2>6, FinalHeld DEF ClosedInv
  <2> QED BY <2>1, <2>2, <2>3, <2>4, <2>5, <2>6, ReferenceIs
<1> QED BY <1>1, Encoding, Naming, Closing, PTL

--------------------------------------------------------------------------------
(* Names can be resolved.                                                         *)

GivenServers(d) == {server.tag : server \in Range(DNSIn(d).servers)}

\* What ServersHold says.
ServersHoldIn(d) ==
    /\ NoTag \notin GivenServers(d)
    /\ {d.resolver, DNSIn(d).final, DNSIn(d).directResolver} \subseteq GivenServers(d) \cup {NoTag}

LEMMA ServersHoldIs == ServersHold => ServersHoldIn(doc)
BY DEF ServersHold, ServersHoldIn, EffectiveDNS, DNSIn, GivenServers, NoTag

\* The encoded servers have the tags of the given ones.
LEMMA GivenMade ==
    ASSUME NEW d, Encodable(d), NEW given, NEW t \in GivenServers(d)
    PROVE  \E server \in Range(ServersIn(d, given)) : server.tag = t
<1> DEFINE s == DNSIn(d).servers
           n == Len(s)
           f == ServersIn(d, given)
           T == {ServerOf(d, given, i) : i \in 1 .. n}
<1>1. IsList(s) /\ \A x \in Range(s) : {"tag", "detour"} \subseteq DOMAIN x
  BY ServerFacts
<1>2. n \in Nat /\ Range(s) = {s[i] : i \in 1 .. n}
  BY <1>1, ListFacts
<1>3. f = [i \in 1 .. n |-> ServerOf(d, given, i)]
  BY DEF ServersIn, ServerOf, NoTag
<1>4. f \in [1 .. n -> T] /\ \A i \in 1 .. n : f[i] = ServerOf(d, given, i)
  BY <1>3
<1>5. PICK x \in Range(s) : t = x.tag
  BY DEF GivenServers
<1>6. PICK i \in 1 .. n : x = s[i]
  BY <1>2
<1>7. ServerOf(d, given, i) = [x EXCEPT !.detour = IF @ = NoTag THEN NoTag ELSE DetourIn(given, @)]
  BY <1>6 DEF ServerOf
<1>8. {"tag", "detour"} \subseteq DOMAIN x
  BY <1>1
<1>9. ServerOf(d, given, i).tag = t
  BY <1>5, <1>7, <1>8
<1> HIDE DEF n, f, T, s
<1>10. n \in Nat /\ f \in [1 .. n -> T]
  BY <1>2, <1>4
<1>11. Range(f) = {f[j] : j \in 1 .. n}
  BY ONLY <1>10, FunctionList
<1> QED BY <1>4, <1>9, <1>11 DEF f

\* The default resolver is one of the servers.
LEMMA DefaultGiven ==
    ASSUME NEW d, Encodable(d), ServersHoldIn(d)
    PROVE  DefaultResolverIn(d) \in GivenServers(d) /\ DefaultResolverIn(d) # NoTag
<1> DEFINE first == DNSIn(d).servers[1]
<1>1. first \in Range(DNSIn(d).servers)
  <2> DEFINE s == DNSIn(d).servers
             n == Len(s)
  <2>1. IsList(s) /\ s # <<>>
    BY ServerFacts
  <2>2. n \in Nat /\ Range(s) = {s[i] : i \in 1 .. n}
    BY <2>1, ListFacts
  <2>3. n # 0
    <3>1. DOMAIN s = 1 .. n
      BY <2>1, ListFacts
    <3>2. s \in Seq(Range(s))
      BY <2>1 DEF IsList
    <3> HIDE DEF s
    <3> QED BY <2>1, <3>2
  <2>4. 1 \in 1 .. n
    BY <2>2, <2>3
  <2> HIDE DEF s, n
  <2>5. s[1] \in Range(s)
    BY <2>2, <2>4
  <2> QED BY <2>5 DEF s
<1>2. first.tag \in GivenServers(d)
  BY <1>1 DEF GivenServers
<1>3. DefaultResolverIn(d) =
         IF d.resolver # NoTag THEN d.resolver
         ELSE IF DNSIn(d).final # NoTag THEN DNSIn(d).final ELSE first.tag
  BY DEF DefaultResolverIn, FirstNonEmpty, NoTag
<1> HIDE DEF first
<1> QED BY <1>2, <1>3 DEF ServersHoldIn

LEMMA ResolverGiven ==
    ASSUME NEW d, Encodable(d), ServersHoldIn(d), NEW node
    PROVE  ResolverIn(d, node) \in GivenServers(d) \cup {NoTag}
<1>1. ResolverIn(d, node) = IF node.named THEN DefaultResolverIn(d) ELSE NoTag
  BY DEF ResolverIn, NoTag
<1> QED BY <1>1, DefaultGiven

\* Where an outbound comes from.
LEMMA OutboundIs ==
    ASSUME EncodeInv, pc = "done", NEW o \in Outbounds
    PROVE  \/ o \in BuiltinOuts(doc)
           \/ o = ProxyOut(doc, tags, groupTags)
           \/ \E i \in 1 .. NodesIn(doc) : doc.nodes[i].supported /\ o = NodeOut(doc, tags, i)
           \/ \E i \in 1 .. GroupsIn(doc) :
                 /\ doc.groups[i].type # "relay" /\ o = ListOut(tags, doc.groups[i])
           \/ \E i \in 1 .. GroupsIn(doc) :
                 /\ doc.groups[i].type = "relay"
                 /\ \E k \in 1 .. Dialled(doc.groups[i]) : o = HopOut(doc, tags, doc.groups[i], k)
<1> DEFINE made(i) == ConvertedIn(doc, tags, nodeOutbounds, doc.groups[i])
<1>1. \/ o \in Fixed(doc, tags, groupTags)
      \/ \E i \in 1 .. NodesIn(doc) : doc.nodes[i].supported /\ o = NodeOut(doc, tags, i)
      \/ \E i \in 1 .. GroupsIn(doc) : o \in Range(made(i))
  BY DEF EncodeInv, OutsInv, AfterOuts, AllMade, Origins, Outbounds
<1>2. CASE o \in Fixed(doc, tags, groupTags)
  BY <1>2 DEF Fixed
<1>3. ASSUME NEW i \in 1 .. GroupsIn(doc), o \in Range(made(i))
      PROVE  \/ doc.groups[i].type # "relay" /\ o = ListOut(tags, doc.groups[i])
             \/ /\ doc.groups[i].type = "relay"
                /\ \E k \in 1 .. Dialled(doc.groups[i]) : o = HopOut(doc, tags, doc.groups[i], k)
  <2>1. made(i) # <<>> /\ Encodable(doc)
    BY <1>3, EmptyList, AllIsMade
  <2>2. CASE doc.groups[i].type = "relay"
    <3>1. RelayMade(doc, tags, doc.groups[i], made(i))
      BY <2>1, <2>2, RelayOut
    <3> HIDE DEF made
    <3> QED BY <1>3, <2>2, <3>1 DEF RelayMade
  <2>3. CASE doc.groups[i].type # "relay"
    <3>1. made(i) = <<ListOut(tags, doc.groups[i])>>
      BY <2>1, <2>3, GroupOut DEF ListOut
    <3> HIDE DEF made
    <3> QED BY <1>3, <2>3, <3>1, SingleList
  <2> QED BY <2>2, <2>3
<1> HIDE DEF made
<1> QED BY <1>1, <1>2, <1>3

LEMMA NodeNamesTell ==
    ASSUME EncodeInv, pc = "done", Unambiguous,
           NEW i \in 1 .. NodesIn(doc), NEW j \in 1 .. NodesIn(doc),
           doc.nodes[i].name = doc.nodes[j].name
    PROVE  i = j
<1>1. Encodable(doc) /\ TagInv
  BY DEF EncodeInv, TagInv, TagTypes
<1>2. \A x, y \in 1 .. Total(doc) : NameIn(doc, x) = NameIn(doc, y) => x = y
  BY <1>1, UnambiguousIsIn, NamesDiffer
<1>3. /\ i \in 1 .. Total(doc) /\ NameIn(doc, i) = doc.nodes[i].name
      /\ j \in 1 .. Total(doc) /\ NameIn(doc, j) = doc.nodes[j].name
  BY <1>1, NodeName
<1> QED BY <1>2, <1>3

\* The node that a hop dials.
LEMMA CalledIs ==
    ASSUME EncodeInv, pc = "done", Unambiguous, NEW j \in 1 .. NodesIn(doc),
           doc.nodes[j].supported
    PROVE  NodeCalled(doc, doc.nodes[j].name) = j
<1> DEFINE n == doc.nodes[j].name
           I == {i \in 1 .. NodesIn(doc) : Carries(doc, n, i)}
<1>1. I = {j}
  BY NodeNamesTell DEF Carries
<1>2. NodeCalled(doc, n) = IF I # {} THEN CHOOSE i \in I : \A k \in I : i >= k ELSE 0
  BY DEF NodeCalled, NodesIn
<1>3. j \in Int /\ j >= j
  OBVIOUS
<1> HIDE DEF I
<1>4. (CHOOSE i \in I : \A k \in I : i >= k) = j
  BY <1>1, <1>3
<1> QED BY <1>1, <1>2, <1>4

\* Each resolver is a server, and what has to be resolved has a resolver.
Resolved(o) == o.resolver \in GivenServers(doc) \cup {NoTag}

LEMMA OutsResolved ==
    ASSUME EncodeInv, pc = "done", ServersHoldIn(doc), NEW o \in Outbounds
    PROVE  Resolved(o)
<1>0. Encodable(doc)
  BY AllIsMade
<1>1. \A node : ResolverIn(doc, node) \in GivenServers(doc) \cup {NoTag}
  BY <1>0, ResolverGiven
<1>2. CASE o \in BuiltinOuts(doc)
  <2>1. o.resolver = DNSIn(doc).directResolver \/ o.resolver = NoTag
    BY <1>2, BuiltinFields
  <2> QED BY <2>1 DEF Resolved, ServersHoldIn
<1>3. CASE o = ProxyOut(doc, tags, groupTags)
  BY <1>3, ProxyFields DEF Resolved
<1>4. ASSUME NEW i \in 1 .. NodesIn(doc), o = NodeOut(doc, tags, i) PROVE Resolved(o)
  <2>1. o.resolver = ResolverIn(doc, doc.nodes[i])
    BY <1>4, NodeFields
  <2> QED BY <1>1, <2>1 DEF Resolved
<1>5. ASSUME NEW i \in 1 .. GroupsIn(doc), o = ListOut(tags, doc.groups[i]) PROVE Resolved(o)
  BY <1>5, ListFields DEF Resolved
<1>6. ASSUME NEW i \in 1 .. GroupsIn(doc), NEW k \in 1 .. Dialled(doc.groups[i]),
             o = HopOut(doc, tags, doc.groups[i], k)
      PROVE  Resolved(o)
  <2>1. o.resolver = ResolverIn(doc, doc.nodes[NodeCalled(doc, doc.groups[i].members[k])])
    BY <1>6, HopFields
  <2> QED BY <1>1, <2>1 DEF Resolved
<1> QED BY <1>2, <1>3, <1>4, <1>5, <1>6, OutboundIs

LEMMA NamedResolved ==
    ASSUME EncodeInv, pc = "done", ServersHoldIn(doc), Unambiguous, NEW o \in Outbounds,
           NEW node \in Range(doc.nodes), o.type = "node", o.server = node.name,
           node.supported, node.named
    PROVE  o.resolver # NoTag
<1>0. Encodable(doc)
  BY AllIsMade
<1>1. PICK j \in 1 .. NodesIn(doc) : node = doc.nodes[j]
  <2>1. IsList(doc.nodes)
    BY <1>0, DocFacts, ListOf
  <2> QED BY <2>1, ListFacts DEF NodesIn
<1>2. ResolverIn(doc, node) # NoTag
  <2>1. ResolverIn(doc, node) = DefaultResolverIn(doc)
    BY DEF ResolverIn
  <2> QED BY <1>0, <2>1, DefaultGiven
<1>3. o \notin BuiltinOuts(doc)
  BY BuiltinFields
<1>4. o # ProxyOut(doc, tags, groupTags)
  <2>1. ProxyOut(doc, tags, groupTags).type # "node"
    BY DEF ProxyOut, Outbound
  <2> QED BY <2>1
<1>5. \A i \in 1 .. GroupsIn(doc) : o # ListOut(tags, doc.groups[i])
  <2>1. \A g : ListOut(tags, g).type # "node"
    BY DEF ListOut, Outbound, TypeOf
  <2> QED BY <2>1
<1>6. ASSUME NEW i \in 1 .. NodesIn(doc), o = NodeOut(doc, tags, i) PROVE o.resolver # NoTag
  <2>1. o.server = doc.nodes[i].name /\ o.resolver = ResolverIn(doc, doc.nodes[i])
    BY <1>6, NodeFields
  <2>2. i = j
    BY <1>1, <2>1, NodeNamesTell
  <2> QED BY <1>1, <1>2, <2>1, <2>2
<1>7. ASSUME NEW i \in 1 .. GroupsIn(doc), NEW k \in 1 .. Dialled(doc.groups[i]),
             o = HopOut(doc, tags, doc.groups[i], k)
      PROVE  o.resolver # NoTag
  <2> DEFINE m == doc.groups[i].members[k]
  <2>1. o.server = m /\ o.resolver = ResolverIn(doc, doc.nodes[NodeCalled(doc, m)])
    BY <1>7, HopFields
  <2>2. NodeCalled(doc, m) = j
    BY <1>1, <2>1, CalledIs
  <2> QED BY <1>1, <1>2, <2>1, <2>2
<1> QED BY <1>3, <1>4, <1>5, <1>6, <1>7, OutboundIs

\* Whatever a document leaves out of its DNS section: a proxy with a named server
\* has a resolver, and the resolvers and the final server are servers of the section
\* (encodeDNS, the default domain resolver of Encode).
THEOREM NamesAreResolvable == Spec => []NamesResolvable
<1>1. EncodeInv /\ ClosedInv => NamesResolvable
  <2> SUFFICES ASSUME EncodeInv, ClosedInv, pc = "done", ServersHold PROVE NamesResolvable
    BY DEF NamesResolvable
  <2> DEFINE used == {server.tag : server \in Range(dns.servers)}
  <2>1. ServersHoldIn(doc) /\ Encodable(doc)
    BY ServersHoldIs, AllIsMade
  <2>2. /\ dns.servers = ServersIn(doc, tags) /\ dns.final = DNSIn(doc).final
        /\ dns.resolver = DefaultResolverIn(doc)
    BY DEF ClosedInv, DNSOut
  <2>3. GivenServers(doc) \subseteq used
    BY <2>1, <2>2, GivenMade
  <2>4. {dns.resolver, dns.final} \subseteq GivenServers(doc) \cup {NoTag}
    BY <2>1, <2>2, DefaultGiven DEF ServersHoldIn
  <2>5. \A o \in Outbounds : o.resolver \in GivenServers(doc) \cup {NoTag}
    BY <2>1, OutsResolved DEF Resolved
  <2> HIDE DEF used
  <2>6. {o.resolver : o \in Outbounds} \cup {dns.resolver, dns.final} \subseteq used \cup {NoTag}
    BY <2>3, <2>4, <2>5
  <2>7. \A o \in Outbounds, node \in Range(doc.nodes) :
           o.type = "node" /\ o.server = node.name /\ node.supported /\ node.named
               => o.resolver # NoTag \/ ~Unambiguous
    BY <2>1, NamedResolved
  <2> QED BY <2>6, <2>7 DEF NamesResolvable, used, NoTag
<1> QED BY <1>1, Encoding, Closing, PTL

--------------------------------------------------------------------------------
(* Relays dial their members in order.                                            *)

\* The outbound that a tag leads to, and a way along the detours, as
\* RelaysDialInOrder follows them.
Led(t) ==
    IF Tagged(t) = {} THEN Outbound("none", "", "", <<>>, "", "")
    ELSE CHOOSE o \in Tagged(t) : TRUE

Follows(f, n, start) ==
    f = [k \in 1 .. n |-> IF k = n THEN Led(start) ELSE Led(f[k + 1].detour)]

\* Where no tag is there twice, a tag leads to the outbound that has it.
LEMMA LedTo ==
    ASSUME IsList(outbounds), UniqueTagsIn(outbounds), NEW o \in Outbounds
    PROVE  Led(o.tag) = o
<1>1. Outbounds = {outbounds[i] : i \in 1 .. Len(outbounds)}
  BY ListFacts DEF Outbounds
<1>2. \A q \in Outbounds : q.tag = o.tag => q = o
  BY <1>1 DEF UniqueTagsIn
<1>3. o \in Tagged(o.tag)
  BY DEF Tagged
<1>4. \A q \in Tagged(o.tag) : q = o
  BY <1>2 DEF Tagged
<1>5. Led(o.tag) = CHOOSE q \in Tagged(o.tag) : TRUE
  BY <1>3, Zenon DEF Led
<1>6. (CHOOSE q \in Tagged(o.tag) : TRUE) \in Tagged(o.tag)
  BY <1>3, Zenon
<1> QED BY <1>4, <1>5, <1>6

\* A way that begins at the last of n hops and finds before each hop the one it is
\* reached through is those hops.
LEMMA WayIs ==
    ASSUME NEW n \in Nat, NEW start, NEW f, Follows(f, n, start), NEW out,
           Led(start) = out[n],
           \A k \in 1 .. n : k # n => Led(out[k + 1].detour) = out[k]
    PROVE  \A k \in 1 .. n : f[k] = out[k]
<1> DEFINE T == {j \in Nat : \A k \in 1 .. n : k + j = n => f[k] = out[k]}
<1>1. \A k \in 1 .. n :
         f[k] = IF k = n THEN Led(start) ELSE Led(f[k + 1].detour)
  BY DEF Follows
<1>2. 0 \in T
  BY <1>1
<1>3. ASSUME NEW j \in Nat, j \in T PROVE j + 1 \in T
  <2> SUFFICES ASSUME NEW k \in 1 .. n, k + (j + 1) = n PROVE f[k] = out[k]
    OBVIOUS
  <2>1. k + 1 \in 1 .. n /\ (k + 1) + j = n /\ k # n
    OBVIOUS
  <2>2. f[k + 1] = out[k + 1]
    BY <1>3, <2>1
  <2>3. f[k] = Led(f[k + 1].detour) /\ Led(out[k + 1].detour) = out[k]
    BY <1>1, <2>1
  <2> QED BY <2>2, <2>3
<1>4. Nat \subseteq T
  <2> HIDE DEF T
  <2> QED BY <1>2, <1>3, FR!SetInduction
<1> SUFFICES ASSUME NEW k \in 1 .. n PROVE f[k] = out[k]
  OBVIOUS
<1>5. n - k \in Nat /\ k + (n - k) = n
  OBVIOUS
<1>6. n - k \in T
  BY <1>4, <1>5
<1> QED BY <1>5, <1>6

\* There is such a way.
WayFrom(n, start) == CHOOSE f : Follows(f, n, start)
Through(n, start, out) == \A k \in 1 .. n : WayFrom(n, start)[k] = out[k]

LEMMA WayChosen ==
    ASSUME NEW n \in Nat, NEW start, NEW out,
           Led(start) = out[n],
           \A k \in 1 .. n : k # n => Led(out[k + 1].detour) = out[k]
    PROVE  Through(n, start, out)
<1> DEFINE w == [k \in 1 .. n |-> out[k]]
           f == CHOOSE x : Follows(x, n, start)
<1>1. ASSUME NEW k \in 1 .. n
      PROVE  w[k] = IF k = n THEN Led(start) ELSE Led(w[k + 1].detour)
  <2>1. CASE k = n
    BY <2>1
  <2>2. CASE k # n
    <3>1. k + 1 \in 1 .. n
      BY <2>2
    <3> QED BY <2>2, <3>1
  <2> QED BY <2>1, <2>2
<1>2. Follows(w, n, start)
  <2>1. w = [k \in 1 .. n |-> w[k]]
    OBVIOUS
  <2>2. [k \in 1 .. n |-> w[k]]
            = [k \in 1 .. n |-> IF k = n THEN Led(start) ELSE Led(w[k + 1].detour)]
    <3> HIDE DEF w
    <3> QED BY <1>1
  <2> QED BY <2>1, <2>2, Zenon DEF Follows
<1>3. Follows(f, n, start)
  <2> HIDE DEF w
  <2> QED BY <1>2, Zenon
<1> HIDE DEF f
<1>4. \A k \in 1 .. n : f[k] = out[k]
  BY <1>3, WayIs
<1> QED BY <1>4 DEF f, WayFrom, Through

\* The way from the tag of the group, as RelaysDialInOrder defines it.
Way(group) == WayFrom(Dialled(group), tags[group.name])

InOrder(i) ==
    LET group == doc.groups[i]
    IN  group.type = "relay" /\ <<"group", i>> \notin warnings =>
            /\ \A k \in 1 .. Dialled(group) : Way(group)[k].server = group.members[k]
            /\ Way(group)[1].detour = NoTag

LEMMA RelayInOrder ==
    ASSUME EncodeInv, UniqueInv, pc = "done", Unambiguous, NEW i \in 1 .. GroupsIn(doc)
    PROVE  InOrder(i)
<1> DEFINE group == doc.groups[i]
           n == Dialled(group)
           out == [k \in 1 .. n |-> HopOut(doc, tags, group, k)]
           start == tags[group.name]
<1> SUFFICES ASSUME group.type = "relay", <<"group", i>> \notin warnings
             PROVE  /\ \A k \in 1 .. n : Way(group)[k].server = group.members[k]
                    /\ Way(group)[1].detour = NoTag
  BY DEF InOrder
<1>1. /\ Encodable(doc) /\ pc \in AfterTags
      /\ GroupMade(doc, tags, nodeOutbounds, Range(groupTags), Outbounds, warnings, i)
  BY AllIsMade DEF AfterTags
<1>2. IsList(outbounds) /\ UniqueTagsIn(outbounds)
  BY <1>1, UnambiguousIsIn DEF EncodeInv, OutsInv, OutLists, UniqueInv
<1> DEFINE converted == ConvertedIn(doc, tags, nodeOutbounds, group)
<1>3. converted # <<>> /\ Range(converted) \subseteq Outbounds
  BY <1>1 DEF GroupMade
<1>4. RelayMade(doc, tags, group, converted)
  BY <1>1, <1>3, RelayOut
<1>5. /\ n \in Nat /\ n \in 1 .. n
      /\ \A k \in 1 .. n : out[k] \in Outbounds
  <2>1. /\ n \in Nat /\ n \in 1 .. n
        /\ \A k \in 1 .. n : HopOut(doc, tags, group, k) \in Range(converted)
    BY <1>4 DEF RelayMade
  <2> QED BY <1>3, <2>1
<1>6. \A k \in 1 .. n : Led(out[k].tag) = out[k]
  <2> HIDE DEF out, n
  <2> QED BY <1>2, <1>5, LedTo
<1>7. \A k \in 1 .. n : /\ out[k].tag = HopTagIn(tags, group, k)
                        /\ out[k].server = group.members[k]
                        /\ out[k].detour = IF k = 1 THEN NoTag ELSE HopTagIn(tags, group, k - 1)
  BY HopFields
<1>8. HopTagIn(tags, group, n) = start
  BY DEF HopTagIn, Dialled
<1> HIDE DEF out, n, start, group
<1>9. Led(start) = out[n]
  BY <1>5, <1>6, <1>7, <1>8
<1>10. \A k \in 1 .. n : k # n => Led(out[k + 1].detour) = out[k]
  <2> SUFFICES ASSUME NEW k \in 1 .. n, k # n PROVE Led(out[k + 1].detour) = out[k]
    OBVIOUS
  <2>1. k + 1 \in 1 .. n /\ k + 1 # 1 /\ (k + 1) - 1 = k
    BY <1>5
  <2>2. out[k + 1].detour = HopTagIn(tags, group, k)
    BY <1>7, <2>1
  <2> QED BY <1>6, <1>7, <2>2
<1>11. \A k \in 1 .. n : Way(group)[k] = out[k]
  <2>1. Through(n, start, out)
    BY <1>5, <1>9, <1>10, WayChosen
  <2>2. Way(group) = WayFrom(n, start)
    BY DEF Way, n, start
  <2> QED BY <2>1, <2>2 DEF Through
<1>12. 1 \in 1 .. n
  BY <1>5
<1> QED BY <1>7, <1>11, <1>12 DEF group

\* The hops of a relay are chained as its members are listed, and no other outbound
\* takes the tag of a hop (convertRelayGroup).
THEOREM RelaysDial == Spelled => (Spec => []RelaysDialInOrder)
<1> SUFFICES ASSUME Spelled PROVE Spec => []RelaysDialInOrder
  OBVIOUS
<1>1. Init => UniqueInv
  BY DEF Init, Idle, UniqueInv, AfterTags
<1>2. EncodeInv /\ NamesInv /\ UniqueInv /\ [Next]_vars => UniqueInv'
  BY StepUnique
<1>3. EncodeInv /\ UniqueInv => RelaysDialInOrder
  <2>1. ASSUME EncodeInv, UniqueInv, pc = "done", Unambiguous
        PROVE  \A i \in 1 .. Len(doc.groups) : InOrder(i)
    BY <2>1, RelayInOrder DEF GroupsIn
  <2> QED BY <2>1, Zenon DEF RelaysDialInOrder, InOrder, Way, WayFrom, Follows, Led, Dialled, NoTag
<1> QED BY <1>1, <1>2, <1>3, Encoding, Naming, PTL DEF Spec

--------------------------------------------------------------------------------
(* The outbound of a node.                                                      *)

\* No other node has the name of the i-th, no group has it, and no hop its tag.
NodeApart(d, given, i) ==
    /\ \A j \in 1 .. NodesIn(d) : d.nodes[i].name = d.nodes[j].name => i = j
    /\ \A g \in 1 .. GroupsIn(d) :
          /\ d.groups[g].name # d.nodes[i].name
          /\ d.groups[g].type = "relay" =>
                \A k \in 1 .. Dialled(d.groups[g]) :
                    Hop(given[d.groups[g].name], k) # given[d.nodes[i].name]

\* No two of the list have the tag t.
Single(list, t) == \A i, j \in 1 .. Len(list) : list[i].tag = t /\ list[j].tag = t => i = j

OwnTags ==
    \A x \in 1 .. NodesIn(doc) : NodeApart(doc, tags, x) => Single(outbounds, TagAt(doc, tags, x))

OwnInv == pc \in AfterTags => OwnTags

LEMMA OwnTag ==
    ASSUME TagInv, pc \in AfterTags,
           NEW x \in 1 .. NodesIn(doc), NodeApart(doc, tags, x), NEW t, t = TagAt(doc, tags, x)
    PROVE  /\ t \notin Reserved
           /\ \A y \in 1 .. Total(doc) : TagFrom(doc, tags, t, y) => y = x
<1> DEFINE m == NodesIn(doc)
           n == GroupsIn(doc)
<1>1. Encodable(doc) /\ m \in Nat /\ n \in Nat /\ Total(doc) = m + n
  BY DocFacts DEF TagInv, TagTypes, Total
<1>2. TaggedUpTo(doc, tags, Total(doc)) /\ TagsDistinct
  BY DEF TagInv, TagsGiven
<1>3. x \in 1 .. Total(doc) /\ NameIn(doc, x) = doc.nodes[x].name
  BY <1>1, NodeName
<1>4. NameIn(doc, x) \in DOMAIN tags /\ t = tags[doc.nodes[x].name]
  BY <1>2, <1>3 DEF TaggedUpTo, TagAt
<1>5. t \notin Reserved
  BY <1>2, <1>3, <1>4 DEF TagsDistinct
<1>6. ASSUME NEW y \in 1 .. Total(doc), TagFrom(doc, tags, t, y) PROVE y = x
  <2>1. CASE t = TagAt(doc, tags, y)
    <3>1. NameIn(doc, y) \in DOMAIN tags /\ t = tags[NameIn(doc, y)]
      BY <1>2, <2>1 DEF TaggedUpTo, TagAt
    <3>2. NameIn(doc, y) = doc.nodes[x].name
      BY <1>2, <1>3, <1>4, <3>1 DEF TagsDistinct
    <3>3. CASE y \in 1 .. m
      <4>1. NameIn(doc, y) = doc.nodes[y].name
        BY <1>1, <3>3, NodeName
      <4> QED BY <3>2, <3>3, <4>1 DEF NodeApart
    <3>4. CASE y \notin 1 .. m
      <4>1. y - m \in 1 .. n /\ m + (y - m) = y
        BY <1>1, <3>4
      <4>2. NameIn(doc, y) = doc.groups[y - m].name
        BY <1>1, <4>1, GroupName
      <4> QED BY <3>2, <4>1, <4>2 DEF NodeApart
    <3> QED BY <3>3, <3>4
  <2>2. CASE t # TagAt(doc, tags, y)
    <3>1. PICK i \in 1 .. n : doc.groups[i].type = "relay" /\ \E k \in 1 .. Dialled(doc.groups[i]) :
             t = Hop(tags[doc.groups[i].name], k)
      BY <1>6, <2>2 DEF TagFrom
    <3> QED BY <1>4, <3>1 DEF NodeApart
  <2> QED BY <2>1, <2>2
<1> QED BY <1>5, <1>6

LEMMA SingleAppend ==
    ASSUME NEW a, IsList(a), NEW x, NEW t, Single(a, t),
           x.tag = t => \A o \in Range(a) : o.tag # t
    PROVE  Single(Append(a, x), t)
<1> DEFINE m == Len(a)
           c == Append(a, x)
<1>1. m \in Nat /\ Len(c) = m + 1 /\ c[m + 1] = x /\ \A i \in 1 .. m : c[i] = a[i]
  BY ListFacts, AppendList
<1>2. \A i \in 1 .. m : a[i] \in Range(a)
  BY ListFacts
<1>3. \A i, j \in 1 .. m : a[i].tag = t /\ a[j].tag = t => i = j
  BY DEF Single
<1> HIDE DEF m, c
<1>4. \A i \in 1 .. m + 1 : i \in 1 .. m \/ i = m + 1
  BY <1>1
<1>5. ASSUME NEW i \in 1 .. m + 1, NEW j \in 1 .. m + 1, c[i].tag = t, c[j].tag = t
      PROVE  i = j
  <2>1. CASE i \in 1 .. m /\ j \in 1 .. m
    BY <1>1, <1>3, <1>5, <2>1
  <2>2. CASE i \notin 1 .. m \/ j \notin 1 .. m
    BY <1>1, <1>2, <1>4, <1>5, <2>2
  <2> QED BY <2>1, <2>2
<1> QED BY <1>1, <1>5 DEF Single, c

LEMMA SingleConcat ==
    ASSUME NEW a, NEW b, IsList(a), IsList(b), NEW t, Single(a, t), \A o \in Range(b) : o.tag # t
    PROVE  Single(a \o b, t)
<1> DEFINE m == Len(a)
           n == Len(b)
           c == a \o b
<1>1. /\ m \in Nat /\ n \in Nat /\ Len(c) = m + n
      /\ \A i \in 1 .. m : c[i] = a[i]
      /\ \A i \in 1 .. n : c[m + i] = b[i]
  BY ListFacts, ConcatList
<1>2. \A i \in 1 .. n : b[i].tag # t
  BY ListFacts
<1>3. \A i, j \in 1 .. m : a[i].tag = t /\ a[j].tag = t => i = j
  BY DEF Single
<1> HIDE DEF m, n, c
<1>4. ASSUME NEW i \in 1 .. m + n, c[i].tag = t PROVE i \in 1 .. m
  <2> SUFFICES ASSUME i \notin 1 .. m PROVE FALSE
    OBVIOUS
  <2>1. i - m \in 1 .. n /\ m + (i - m) = i
    BY <1>1
  <2>2. c[m + (i - m)] = b[i - m]
    BY <1>1, <2>1
  <2> QED BY <1>2, <1>4, <2>1, <2>2
<1>5. ASSUME NEW i \in 1 .. m + n, NEW j \in 1 .. m + n, c[i].tag = t, c[j].tag = t
      PROVE  i = j
  <2>1. i \in 1 .. m /\ j \in 1 .. m
    BY <1>4, <1>5
  <2> QED BY <1>1, <1>3, <1>5, <2>1
<1> QED BY <1>1, <1>5 DEF Single, c

LEMMA OwnNode ==
    ASSUME TagInv, OutsInv, OwnTags, ConvertNode
    PROVE  OwnTags'
<1> DEFINE out == NodeOut(doc, tags, next + 1)
<1>1. /\ pc = "nodes" /\ next < NodesIn(doc) /\ UNCHANGED <<doc, tags>>
      /\ outbounds' = outbounds \/ outbounds' = Append(outbounds, out)
  BY NodeStep
<1>2. /\ Encodable(doc) /\ next \in Nat /\ NodesIn(doc) \in Nat /\ GroupsIn(doc) \in Nat
  BY DocFacts DEF TagInv, TagTypes
<1>3. next \in 0 .. NodesIn(doc) /\ next + 1 \in 1 .. NodesIn(doc)
  BY <1>1, <1>2
<1>4. /\ Origins(doc, tags, nodeOutbounds, Range(outbounds), next, 0, {})
      /\ IsList(outbounds)
  BY <1>1 DEF OutsInv, AmidNodes, OutLists
<1>5. TagFrom(doc, tags, out.tag, next + 1) /\ next + 1 \in 1 .. Total(doc)
  BY <1>2, <1>3, NodeTag, NodeName
<1>6. \A x \in 1 .. next : x \in 1 .. NodesIn(doc) /\ x # next + 1
  BY <1>2, <1>3
<1>7. \A x \in 1 .. next : x \in 1 .. Total(doc) /\ x # next + 1
  BY <1>2, <1>6, NodeName
<1> HIDE DEF out
<1>8. ASSUME NEW x \in 1 .. NodesIn(doc), NodeApart(doc, tags, x),
             NEW t, t = TagAt(doc, tags, x)
      PROVE  Single(outbounds', t)
  <2>1. \A y \in 1 .. Total(doc) : TagFrom(doc, tags, t, y) => y = x
    BY <1>1, <1>8, OwnTag DEF AfterTags
  <2>2. ASSUME out.tag = t, NEW o \in Range(outbounds) PROVE o.tag # t
    <3>1. x = next + 1
      BY <1>5, <2>1, <2>2
    <3>2. NodeTagged(doc, tags, o.tag, next)
      BY <1>2, <1>3, <1>4, NodePhaseTags
    <3> QED BY <1>7, <2>1, <3>1, <3>2 DEF NodeTagged
  <2>3. Single(outbounds, t)
    BY <1>8 DEF OwnTags
  <2>4. Single(Append(outbounds, out), t)
    BY <1>4, <2>2, <2>3, SingleAppend
  <2> QED BY <1>1, <2>3, <2>4
<1> QED BY <1>1, <1>8 DEF OwnTags

LEMMA OwnAllNodes ==
    ASSUME TagInv, OutsInv, OwnTags, AllNodes
    PROVE  OwnTags'
<1> DEFINE direct == Outbound("direct", "direct", "", <<>>, "", DNSIn(doc).directResolver)
           block == Outbound("block", "reject", "", <<>>, "", "")
           two == <<direct, block>>
<1>1. pc = "nodes" /\ outbounds' = outbounds \o two /\ UNCHANGED <<doc, tags>>
  BY DEF AllNodes, EffectiveDNS, DNSIn
<1>2. direct.tag = "direct" /\ block.tag = "reject"
  BY DEF Outbound
<1> HIDE DEF direct, block
<1>3. IsList(two) /\ Range(two) = {direct, block}
  BY PairList
<1> HIDE DEF two
<1>4. IsList(outbounds)
  BY DEF OutsInv, OutLists
<1>5. ASSUME NEW x \in 1 .. NodesIn(doc), NodeApart(doc, tags, x),
             NEW t, t = TagAt(doc, tags, x)
      PROVE  Single(outbounds', t)
  <2>1. t \notin Reserved
    BY <1>1, <1>5, OwnTag DEF AfterTags
  <2>2. Single(outbounds, t)
    BY <1>5 DEF OwnTags
  <2> QED BY <1>1, <1>2, <1>3, <1>4, <2>1, <2>2, SingleConcat DEF Reserved
<1> QED BY <1>1, <1>5 DEF OwnTags

LEMMA OwnGroup ==
    ASSUME TagInv, OutsInv, OwnTags, ConvertGroup
    PROVE  OwnTags'
<1> DEFINE m == NodesIn(doc)
           n == GroupsIn(doc)
           converted == ConvertedIn(doc, tags, nodeOutbounds, doc.groups[next + 1])
<1>1. pc = "groups" /\ next < n /\ outbounds' = outbounds \o converted /\ UNCHANGED <<doc, tags>>
  BY GroupStep
<1>2. Encodable(doc) /\ next \in Nat /\ m \in Nat /\ n \in Nat
  BY DocFacts DEF TagInv, TagTypes
<1>3. next + 1 \in 1 .. n
  BY <1>1, <1>2
<1>4. IsList(outbounds) /\ IsList(converted) /\ m + (next + 1) \in 1 .. Total(doc)
  BY <1>2, <1>3, ConvertedList, GroupName DEF OutsInv, OutLists
<1>5. \A p \in Range(converted) : TagFrom(doc, tags, p.tag, m + (next + 1))
  BY <1>2, <1>3, GroupTag
<1> HIDE DEF m, n, converted
<1>6. \A x \in 1 .. m : x # m + (next + 1)
  BY <1>2
<1>7. ASSUME NEW x \in 1 .. m, NodeApart(doc, tags, x), NEW t, t = TagAt(doc, tags, x)
      PROVE  Single(outbounds', t)
  <2>1. \A y \in 1 .. Total(doc) : TagFrom(doc, tags, t, y) => y = x
    BY <1>1, <1>7, OwnTag DEF AfterTags, m
  <2>2. \A p \in Range(converted) : p.tag # t
    BY <1>4, <1>5, <1>6, <2>1
  <2>3. Single(outbounds, t)
    BY <1>7 DEF OwnTags, m
  <2> QED BY <1>1, <1>4, <2>2, <2>3, SingleConcat
<1> QED BY <1>1, <1>7 DEF OwnTags, m

LEMMA OwnAllGroups ==
    ASSUME TagInv, OutsInv, OwnTags, AllGroups
    PROVE  OwnTags'
<1> DEFINE proxy == ProxyOut(doc, tags, groupTags)
<1>1. pc = "groups" /\ UNCHANGED <<doc, tags>>
  BY AllGroupsStep
<1>2. outbounds' = outbounds \/ outbounds' = Append(outbounds, proxy)
  BY AllGroupsStep
<1>3. IsList(outbounds) /\ proxy.tag = "proxy"
  BY ProxyTag DEF OutsInv, OutLists
<1> HIDE DEF proxy
<1>4. ASSUME NEW x \in 1 .. NodesIn(doc), NodeApart(doc, tags, x),
             NEW t, t = TagAt(doc, tags, x)
      PROVE  Single(outbounds', t)
  <2>1. t \notin Reserved
    BY <1>1, <1>4, OwnTag DEF AfterTags
  <2>2. Single(outbounds, t)
    BY <1>4 DEF OwnTags
  <2>3. proxy.tag # t
    BY <1>3, <2>1 DEF Reserved
  <2> QED BY <1>2, <1>3, <2>2, <2>3, SingleAppend
<1> QED BY <1>1, <1>4 DEF OwnTags

LEMMA StepOwn ==
    ASSUME EncodeInv, OwnInv, [Next]_vars
    PROVE  OwnInv'
<1> SUFFICES ASSUME pc' \in AfterTags PROVE OwnTags'
  BY DEF OwnInv
<1>0. TagInv /\ OutsInv
  BY DEF EncodeInv
<1>1. CASE CheckInbounds \/ KnownName \/ Collide \/ Allocate
  BY <1>1 DEF CheckInbounds, KnownName, Collide, Allocate, AfterTags
<1>2. CASE AllNamed
  <2>1. outbounds' = <<>>
    BY <1>0, <1>2 DEF AllNamed, OutsInv, BeforeOuts
  <2> QED BY <2>1, EmptyList DEF OwnTags, Single
<1>3. CASE ConvertNode \/ AllNodes \/ ConvertGroup \/ AllGroups \/ ConvertRule \/ AllRules
           \/ Finished \/ UNCHANGED vars
  <2>1. UNCHANGED <<doc, tags>> /\ pc \in AfterTags
    <3>1. CASE ConvertNode \/ ConvertGroup \/ ConvertRule
      BY <3>1 DEF ConvertNode, ConvertGroup, ConvertRule, AfterTags
    <3>2. CASE AllNodes \/ AllGroups \/ AllRules
      BY <3>2 DEF AllNodes, AllGroups, AllRules, AfterTags
    <3>3. CASE Finished \/ UNCHANGED vars
      BY <3>3 DEF Finished, vars, AfterTags
    <3> QED BY <1>3, <3>1, <3>2, <3>3
  <2>2. OwnTags
    BY <2>1 DEF OwnInv
  <2>3. CASE ConvertRule \/ AllRules \/ Finished \/ UNCHANGED vars
    <3>1. UNCHANGED <<doc, tags, outbounds>>
      BY <2>3 DEF ConvertRule, AllRules, Finished, vars
    <3> QED BY <2>2, <3>1 DEF OwnTags
  <2> QED BY <1>0, <1>3, <2>2, <2>3, OwnNode, OwnAllNodes, OwnGroup, OwnAllGroups
<1> QED BY <1>1, <1>2, <1>3 DEF Next

LEMMA InitOwn == Idle => OwnInv
BY DEF Idle, OwnInv, AfterTags

\* A node that no warning tells of has one outbound, and nothing else has its tag.
LEMMA OwnOutbound ==
    ASSUME EncodeInv, OwnInv, pc = "done", NEW i \in 1 .. NodesIn(doc), NodeApart(doc, tags, i),
           <<"node", i>> \notin warnings
    PROVE  Cardinality({x \in DOMAIN outbounds : outbounds[x].tag = tags[doc.nodes[i].name]}) = 1
<1> DEFINE t == tags[doc.nodes[i].name]
           those == {x \in DOMAIN outbounds : outbounds[x].tag = t}
<1>1. IsList(outbounds) /\ Encodable(doc)
  BY AllIsMade DEF EncodeInv, OutsInv, OutLists
<1>2. DOMAIN outbounds = 1 .. Len(outbounds) /\ Range(outbounds) = {outbounds[x] : x \in 1 .. Len(outbounds)}
  BY <1>1, ListFacts
<1>3. PICK x \in 1 .. Len(outbounds) : outbounds[x].tag = t
  <2>1. NodeKept(i)
    BY NodesAreKept
  <2>2. PICK o \in Tagged(t) : TRUE
    BY <2>1 DEF NodeKept
  <2> QED BY <1>2, <2>2 DEF Tagged, Outbounds
<1>4. TagAt(doc, tags, i) = t
  BY <1>1, NodeName DEF TagAt
<1>5. Single(outbounds, t)
  BY <1>4 DEF OwnInv, OwnTags, AfterTags
<1> HIDE DEF t
<1>6. those = {x}
  BY <1>2, <1>3, <1>5 DEF Single
<1> QED BY <1>6, FS_Singleton DEF those, t

--------------------------------------------------------------------------------
(* What is kept from before a document is handed over. *)

Untagged == ""

\* What a suffix is added to is not empty then.
SuffixesShow == \A n, i : Renamed(n) # Untagged /\ Numbered(n, i) # Untagged

\* A tag that was given is not empty.
TagsShow == \A n \in DOMAIN tags : tags[n] # Untagged

RunInv == (Idle \/ EncodeInv) /\ ClosedInv /\ OwnInv

\* So it is before the first step.
LEMMA InitRun == Idle => RunInv /\ TagsShow
<1>1. Idle => ClosedInv /\ TagsShow
  BY DEF Idle, ClosedInv, TagsShow
<1> QED BY <1>1, InitOwn DEF RunInv

\* Every step keeps it, when the document can be encoded.
LEMMA StepRun ==
    ASSUME Encodable(doc), RunInv, [Next]_vars
    PROVE  RunInv'
<1>1. EncodeInv
  BY InitEncode DEF RunInv
<1> QED BY <1>1, StepEncode, StepClosed, StepOwn DEF RunInv

\* And what is none.
LEMMA RestRun ==
    ASSUME RunInv, UNCHANGED vars
    PROVE  RunInv'
<1>1. Idle => Idle'
  BY DEF Idle, vars
<1>2. EncodeInv => EncodeInv'
  BY StepEncode
<1>3. ClosedInv'
  BY StepClosed DEF RunInv
<1>4. OwnTags' <=> OwnTags
  BY DEF OwnTags, vars
<1>5. OwnInv'
  BY <1>4 DEF OwnInv, RunInv, vars
<1> QED BY <1>1, <1>2, <1>3, <1>5 DEF RunInv

\* Every step keeps tags from being empty.
LEMMA StepShown ==
    ASSUME SuffixesShow, TagsShow, [Next]_vars
    PROVE  TagsShow'
<1>1. CASE Allocate
  <2> DEFINE n == NameAt(next + 1)
             c == Candidate
  <2>1. tags' = [m \in DOMAIN tags \cup {n} |-> IF m \in DOMAIN tags THEN tags[m] ELSE c]
    BY <1>1 DEF Allocate
  <2>2. c # Untagged
    <3>1. Base(n) # Untagged
      BY DEF SuffixesShow, Base, Untagged
    <3> QED BY <3>1 DEF Candidate, SuffixesShow
  <2> HIDE DEF n, c
  <2> QED BY <2>1, <2>2 DEF TagsShow
<1>2. CASE ~Allocate
  <2>1. UNCHANGED tags
    BY <1>2
    DEF Next, CheckInbounds, KnownName, Collide, AllNamed, ConvertNode, AllNodes, ConvertGroup,
        AllGroups, ConvertRule, AllRules, Finished, vars
  <2> QED BY <2>1 DEF TagsShow
<1> QED BY <1>1, <1>2

NamesOf(items) == {items[i].name : i \in 1 .. Len(items)}
Builtins == DirectNames \cup RejectNames \cup DropNames \cup ProxyNames

\* A policy that is in the document and that the final outbound can be.
Nominal(policy) ==
    /\ policy \notin RejectNames \cup DropNames
    /\ policy \in Builtins \cup NamesOf(doc.nodes) \cup NamesOf(doc.groups)
    /\ (NamesOf(doc.nodes) \cup NamesOf(doc.groups)) \cap Builtins = {}

\* What the final policy has become (convertPolicy, encodeDocument).
LEMMA FinalStands ==
    ASSUME EncodeInv, ClosedInv, TagsShow, pc = "done", Nominal(doc.final)
    PROVE  StandsFor(final, doc.final)
<1> DEFINE policy == doc.final
           t == PolicyIn(tags, policy)
<1>1. final = FinalIn(doc, tags)
  BY DEF ClosedInv
<1>2. /\ policy \in DirectNames => t = "direct"
      /\ policy \notin DirectNames /\ policy \in ProxyNames => t = "proxy"
  BY DEF PolicyIn, Nominal
<1>3. t # Untagged /\ t # "reject"
  <2>1. CASE policy \in DirectNames \cup ProxyNames
    BY <1>2, <2>1 DEF Untagged
  <2>2. CASE policy \notin DirectNames \cup ProxyNames
    <3>1. policy \in NamesOf(doc.nodes) \cup NamesOf(doc.groups)
      BY <2>2 DEF Nominal, Builtins
    <3>2. Encodable(doc) /\ TaggedUpTo(doc, tags, Total(doc))
      BY AllIsMade
    <3>3. policy \in DOMAIN tags
      <4>1. CASE policy \in NamesOf(doc.nodes)
        <5>1. PICK i \in 1 .. NodesIn(doc) : policy = doc.nodes[i].name
          BY <4>1 DEF NamesOf, NodesIn
        <5> QED BY <3>2, <5>1, NodeName DEF TaggedUpTo
      <4>2. CASE policy \in NamesOf(doc.groups)
        <5>1. PICK i \in 1 .. GroupsIn(doc) : policy = doc.groups[i].name
          BY <4>2 DEF NamesOf, GroupsIn
        <5> QED BY <3>2, <5>1, GroupName DEF TaggedUpTo
      <4> QED BY <3>1, <4>1, <4>2
    <3>4. t = tags[policy]
      BY <2>2, <3>3 DEF PolicyIn, Nominal
    <3>5. tags[policy] \notin Reserved
      BY <3>3 DEF EncodeInv, TagInv, TagsDistinct
    <3> QED BY <3>3, <3>4, <3>5 DEF TagsShow, Reserved
  <2> QED BY <2>1, <2>2
<1>4. final = t
  <2>1. t \notin {"", "reject"}
    BY <1>3 DEF Untagged
  <2> HIDE DEF t
  <2>2. FinalIn(doc, tags) = IF t \in {"", "reject"} THEN "proxy" ELSE t
    BY DEF FinalIn, t
  <2> QED BY <1>1, <2>1, <2>2
<1>5. StandsFor(t, policy)
  <2>1. t # ""
    BY <1>3 DEF Untagged
  <2> QED BY <2>1, PolicyStands
<1> QED BY <1>4, <1>5

================================================================================
