-------------------------- MODULE ClashToSingBoxProofs --------------------------
(***************************************************************************)
(* Theorems about the Clash decoder as ClashToSingBox runs it: for all     *)
(* configurations, of any size, and whatever their providers deliver.      *)
(***************************************************************************)
EXTENDS ClashToSingBox, FiniteSetTheorems, TLAPS

Sections == DOMAIN DefaultDocument
Sequence(s) == \E S : s \in Seq(S)

\* What one step does to a sequence.
LEMMA Appended ==
    ASSUME NEW s, NEW x, Sequence(s)
    PROVE  /\ Sequence(Append(s, x)) /\ Len(s) \in Nat /\ Len(Append(s, x)) = Len(s) + 1
           /\ \A i \in 1 .. Len(s) : Append(s, x)[i] = s[i]
           /\ Append(s, x)[Len(s) + 1] = x
<1>1. PICK S : s \in Seq(S)
  BY DEF Sequence
<1>2. s \in Seq(S \cup {x}) /\ x \in S \cup {x}
  BY <1>1
<1>3. Append(s, x) \in Seq(S \cup {x}) /\ Len(s) \in Nat /\ Len(Append(s, x)) = Len(s) + 1
  BY <1>2
<1>4. /\ \A i \in 1 .. Len(s) : Append(s, x)[i] = s[i]
      /\ Append(s, x)[Len(s) + 1] = x
  BY <1>2
<1> QED BY <1>3, <1>4 DEF Sequence

--------------------------------------------------------------------------------
(* A node has a name of its own. *)

NodeInv ==
    /\ DOMAIN doc = Sections
    /\ Sequence(doc.nodes)
    /\ NodesNamedOnce

LEMMA InitNodes == Init => NodeInv
<1> SUFFICES ASSUME Init PROVE NodeInv
  OBVIOUS
<1>1. doc.nodes = <<>>
  BY DEF Init, DefaultDocument
<1>2. Sequence(doc.nodes)
  <2>1. <<>> \in Seq({})
    OBVIOUS
  <2> QED BY <1>1, <2>1 DEF Sequence
<1> QED BY <1>1, <1>2 DEF Init, NodeInv, Sections, NodesNamedOnce

\* appendProxy takes no name twice.
LEMMA AppendProxyNodes ==
    ASSUME NodeInv, NEW proxy, AppendProxy(proxy)
    PROVE  NodeInv'
<1>1. CASE ~Accepted(proxy)
  BY <1>1 DEF AppendProxy, NodeInv, NodesNamedOnce
<1>2. CASE Accepted(proxy)
  <2>1. "nodes" \in DOMAIN doc
    BY DEF NodeInv, Sections, DefaultDocument
  <2>2. doc' = [doc EXCEPT !.nodes = Append(doc.nodes, proxy)]
    BY <1>2 DEF AppendProxy
  <2>3. doc'.nodes = Append(doc.nodes, proxy) /\ DOMAIN doc' = DOMAIN doc
    BY <2>1, <2>2
  <2>4. /\ Sequence(doc'.nodes) /\ Len(doc.nodes) \in Nat /\ Len(doc'.nodes) = Len(doc.nodes) + 1
        /\ \A i \in 1 .. Len(doc.nodes) : doc'.nodes[i] = doc.nodes[i]
        /\ doc'.nodes[Len(doc.nodes) + 1] = proxy
    BY <2>3, Appended DEF NodeInv
  <2>5. \A i \in 1 .. Len(doc.nodes) : doc.nodes[i].name # proxy.name
    BY <1>2 DEF Accepted, Names
  <2>6. ASSUME NEW i \in 1 .. Len(doc'.nodes), NEW j \in 1 .. Len(doc'.nodes),
               doc'.nodes[i].name = doc'.nodes[j].name
        PROVE  i = j
    <3>1. /\ i \in 1 .. Len(doc.nodes) \/ i = Len(doc.nodes) + 1
          /\ j \in 1 .. Len(doc.nodes) \/ j = Len(doc.nodes) + 1
      BY <2>4
    <3>2. CASE i \in 1 .. Len(doc.nodes) /\ j \in 1 .. Len(doc.nodes)
      BY <2>4, <2>6, <3>2 DEF NodeInv, NodesNamedOnce
    <3>3. CASE i \in 1 .. Len(doc.nodes) /\ j = Len(doc.nodes) + 1
      BY <2>4, <2>5, <2>6, <3>3
    <3>4. CASE i = Len(doc.nodes) + 1 /\ j \in 1 .. Len(doc.nodes)
      BY <2>4, <2>5, <2>6, <3>4
    <3> QED BY <3>1, <3>2, <3>3, <3>4
  <2> QED BY <2>3, <2>4, <2>6 DEF NodeInv, NodesNamedOnce
<1> QED BY <1>1, <1>2

\* What leaves the nodes alone keeps them distinct.
LEMMA SameNodes ==
    ASSUME NodeInv, DOMAIN doc' = DOMAIN doc, doc'.nodes = doc.nodes
    PROVE  NodeInv'
  BY DEF NodeInv, NodesNamedOnce

LEMMA StepNodes == NodeInv /\ [Next]_vars => NodeInv'
<1> SUFFICES ASSUME NodeInv, [Next]_vars PROVE NodeInv'
  OBVIOUS
<1>1. CASE DecodeProxy \/ DecodeProvided
  BY <1>1, AppendProxyNodes DEF DecodeProxy, DecodeProvided
<1>2. CASE ~(DecodeProxy \/ DecodeProvided)
  <2>1. \/ doc' = doc
        \/ \E x : doc' = [doc EXCEPT !.groups = x]
        \/ \E x, y : doc' = [doc EXCEPT !.dns = x, !.resolver = y]
        \/ \E x : doc' = [doc EXCEPT !.ruleSets = x]
        \/ \E x : doc' = [doc EXCEPT !.final = x]
        \/ \E x : doc' = [doc EXCEPT !.rules = x]
    <3>1. CASE DecodeGroup
      BY <3>1 DEF DecodeGroup, Refuse
    <3>2. CASE DecodeDNS
      BY <3>2 DEF DecodeDNS
    <3>3. CASE ResolveRuleProvider
      BY <3>3 DEF ResolveRuleProvider, Refuse
    <3>4. CASE DecodeRule
      BY <3>4 DEF DecodeRule, WithRule
    <3>5. CASE ~(DecodeGroup \/ DecodeDNS \/ ResolveRuleProvider \/ DecodeRule)
      BY <1>2, <3>5
      DEF Next, Start, Turn, Refuse, ResolveProvider, EndOfProvider, Validate, MakePatch,
          Finished, vars
    <3> QED BY <3>1, <3>2, <3>3, <3>4, <3>5
  <2>2. doc'.nodes = doc.nodes /\ DOMAIN doc' = DOMAIN doc
    BY <2>1 DEF NodeInv, Sections, DefaultDocument
  <2> QED BY <2>2, SameNodes
<1> QED BY <1>1, <1>2

\* However many proxies and providers compete for a name, the decoder lets it
\* be that of one node.
THEOREM NodesAreNamedOnce == Pipeline => []NodesNamedOnce
<1>1. PipelineInit => NodeInv
  BY InitNodes DEF PipelineInit
<1>2. NodeInv /\ [PipelineNext]_<<vars, handed, encoderVars>> => NodeInv'
  <2> SUFFICES ASSUME NodeInv, [PipelineNext]_<<vars, handed, encoderVars>>
               PROVE  NodeInv'
    OBVIOUS
  <2>1. CASE Decode
    BY <2>1, StepNodes DEF Decode
  <2>2. CASE ~Decode
    <3>1. UNCHANGED doc
      BY <2>2 DEF PipelineNext, HandOver, Apply, Refuse, vars
    <3> QED BY <3>1, SameNodes
  <2> QED BY <2>1, <2>2
<1>3. NodeInv => NodesNamedOnce
  BY DEF NodeInv
<1> QED BY <1>1, <1>2, <1>3, PTL DEF Pipeline

--------------------------------------------------------------------------------
(* A document is made of everything that the configuration names. *)

\* The loops before, at and after that over the providers, and over the rule
\* providers.
BeforeProviders == {"start", "proxies"}
AfterProviders == {"members", "groups", "dns", "sets", "rules", "patch", "done"}
BeforeSets == {"start", "proxies", "providers", "members", "groups", "dns"}
AfterSets == {"rules", "patch", "done"}

\* The first n rule providers are the rule sets of the document.
Gathered(n) ==
    /\ Len(doc.ruleSets) = n
    /\ \A i \in 1 .. Len(doc.ruleSets) : doc.ruleSets[i].name = config.ruleProviders[i].name

ReferencesDefined ==
    \A x \in Range(doc.ruleSets) \cup Range(doc.rules) \cup Range(doc.dns.rules) :
        Range(x.refs) \subseteq Names(doc.ruleSets) \cup GeoTags

\* Each loop has done as many iterations as it counts, and the loops before it
\* have come to their ends.
MissingInv ==
    /\ DOMAIN doc = Sections
    /\ Sequence(resolved) /\ Sequence(doc.ruleSets)
    /\ pc \in BeforeProviders => resolved = <<>>
    /\ pc = "providers" => Len(resolved) = next
    /\ pc \in AfterProviders => Len(resolved) = Len(config.providers)
    /\ pc \in BeforeSets => doc.ruleSets = <<>>
    /\ pc = "dns" => next = 0
    /\ pc = "sets" => Gathered(next)
    /\ pc \in AfterSets => Gathered(Len(config.ruleProviders))
    /\ pc \in {"patch", "done"} => ReferencesDefined

LEMMA InitMissing == Init => MissingInv
<1> SUFFICES ASSUME Init PROVE MissingInv
  OBVIOUS
<1>1. doc.ruleSets = <<>> /\ resolved = <<>> /\ pc = "start" /\ DOMAIN doc = Sections
  BY DEF Init, DefaultDocument, Sections
<1>2. Sequence(<<>>)
  <2>1. <<>> \in Seq({})
    OBVIOUS
  <2> QED BY <2>1 DEF Sequence
<1> QED BY <1>1, <1>2 DEF MissingInv, BeforeProviders, AfterProviders, BeforeSets, AfterSets

\* A step that leaves the loop, the providers and the rule sets as they are.
LEMMA SameLoop ==
    ASSUME MissingInv, DOMAIN doc' = DOMAIN doc, doc'.ruleSets = doc.ruleSets,
           UNCHANGED <<config, pc, resolved>>,
           UNCHANGED next \/ pc \notin {"providers", "dns", "sets"},
           doc' = doc \/ pc \notin {"patch", "done"}
    PROVE  MissingInv'
  BY DEF MissingInv, Gathered, ReferencesDefined, Names

\* An error: whatever was decoded is not returned.
LEMMA RefusedMissing == ASSUME MissingInv, Refuse PROVE MissingInv'
  BY DEF MissingInv, Refuse, BeforeProviders, AfterProviders, BeforeSets, AfterSets

\* The end of one loop is the beginning of the next.
LEMMA TurnMissing ==
    ASSUME MissingInv, NEW from, NEW n, NEW to, Turn(from, n, to),
           \/ from = "start" /\ to = "proxies"
           \/ from = "proxies" /\ to = "providers"
           \/ from = "providers" /\ n = Len(config.providers) /\ to = "members"
           \/ from = "members" /\ to = "groups"
           \/ from = "groups" /\ to = "dns"
           \/ from = "sets" /\ n = Len(config.ruleProviders) /\ to = "rules"
           \/ from = "rules" /\ to \in {"patch", "done"} /\ ReferencesDefined
    PROVE  MissingInv'
<1>1. /\ pc = from /\ next = n /\ pc' = to /\ next' = 0
      /\ UNCHANGED <<config, resolved, doc>>
  BY DEF Turn
<1>2. DOMAIN doc' = Sections /\ Sequence(resolved') /\ Sequence(doc'.ruleSets)
  BY <1>1 DEF MissingInv
<1>3. \A x : Gathered(x)' <=> Gathered(x)
  BY <1>1 DEF Gathered
<1>4. ReferencesDefined' <=> ReferencesDefined
  BY <1>1 DEF ReferencesDefined, Names
<1>5. resolved = <<>> => Len(resolved) = 0
  OBVIOUS
<1> QED
  BY <1>1, <1>2, <1>3, <1>4, <1>5
  DEF MissingInv, BeforeProviders, AfterProviders, BeforeSets, AfterSets

\* One more provider, of the configuration's.
LEMMA ResolveMissing ==
    ASSUME MissingInv, ResolveProvider, ~Refuse PROVE MissingInv'
<1>1. /\ pc = "providers" /\ next' = next + 1 /\ UNCHANGED <<config, pc, doc>>
      /\ \E x : resolved' = Append(resolved, x)
  BY DEF ResolveProvider
<1>2. Sequence(resolved') /\ Len(resolved') = next + 1
  BY <1>1, Appended DEF MissingInv
<1>3. Sequence(doc'.ruleSets) /\ DOMAIN doc' = Sections
  BY <1>1 DEF MissingInv
<1> QED
  BY <1>1, <1>2, <1>3
  DEF MissingInv, BeforeProviders, AfterProviders, BeforeSets, AfterSets

\* One more rule provider, and the rule set that it becomes.
LEMMA ResolveRuleMissing ==
    ASSUME MissingInv, ResolveRuleProvider, ~Refuse PROVE MissingInv'
<1>1. /\ pc = "sets" /\ next' = next + 1 /\ UNCHANGED <<config, pc, resolved>>
      /\ \E content : doc' = [doc EXCEPT !.ruleSets = Append(doc.ruleSets,
            [name |-> config.ruleProviders[next + 1].name, valid |-> TRUE, detour |-> "",
             refs |-> content.refs, codes |-> content.codes])]
  BY DEF ResolveRuleProvider
<1>2. PICK set : /\ set.name = config.ruleProviders[next + 1].name
                 /\ doc' = [doc EXCEPT !.ruleSets = Append(doc.ruleSets, set)]
  BY <1>1
<1>3. doc'.ruleSets = Append(doc.ruleSets, set) /\ DOMAIN doc' = Sections
  BY <1>2 DEF MissingInv, Sections, DefaultDocument
<1>4. /\ Sequence(doc'.ruleSets) /\ Len(doc.ruleSets) \in Nat
      /\ Len(doc'.ruleSets) = Len(doc.ruleSets) + 1
      /\ \A i \in 1 .. Len(doc.ruleSets) : doc'.ruleSets[i] = doc.ruleSets[i]
      /\ doc'.ruleSets[Len(doc.ruleSets) + 1] = set
  BY <1>3, Appended DEF MissingInv
<1>5. Len(doc.ruleSets) = next
  BY <1>1 DEF MissingInv, Gathered
<1>6. Gathered(next)'
  <2>1. Len(doc'.ruleSets) = next'
    BY <1>1, <1>4, <1>5
  <2>2. ASSUME NEW i \in 1 .. Len(doc'.ruleSets)
        PROVE  doc'.ruleSets[i].name = config'.ruleProviders[i].name
    <3>1. CASE i \in 1 .. Len(doc.ruleSets)
      BY <1>1, <1>4, <3>1 DEF MissingInv, Gathered
    <3>2. CASE i = Len(doc.ruleSets) + 1
      BY <1>1, <1>2, <1>4, <1>5, <3>2
    <3> QED BY <1>4, <3>1, <3>2
  <2> QED BY <2>1, <2>2 DEF Gathered
<1>7. Sequence(resolved') /\ Len(resolved') = Len(config'.providers)
  BY <1>1 DEF MissingInv, AfterProviders
<1> QED
  BY <1>1, <1>3, <1>4, <1>6, <1>7
  DEF MissingInv, BeforeProviders, AfterProviders, BeforeSets, AfterSets

LEMMA StepMissing == MissingInv /\ [Next]_vars => MissingInv'
<1> SUFFICES ASSUME MissingInv, [Next]_vars PROVE MissingInv'
  OBVIOUS
<1> USE DEF Sections, DefaultDocument
<1>1. CASE DecodeProxy \/ DecodeProvided \/ EndOfProvider
  <2>1. /\ UNCHANGED <<config, pc, resolved>> /\ pc \in {"proxies", "members"}
        /\ doc' = doc \/ \E x : doc' = [doc EXCEPT !.nodes = x]
    BY <1>1 DEF DecodeProxy, DecodeProvided, EndOfProvider, AppendProxy
  <2>2. DOMAIN doc' = DOMAIN doc /\ doc'.ruleSets = doc.ruleSets
    BY <2>1 DEF MissingInv
  <2> QED BY <2>1, <2>2, SameLoop
<1>2. CASE DecodeGroup
  <2>1. CASE Refuse
    BY <2>1, RefusedMissing
  <2>2. CASE ~Refuse
    <3>1. /\ UNCHANGED <<config, pc, resolved>> /\ pc = "groups"
          /\ doc' = doc \/ \E x : doc' = [doc EXCEPT !.groups = x]
      BY <1>2, <2>2 DEF DecodeGroup
    <3>2. DOMAIN doc' = DOMAIN doc /\ doc'.ruleSets = doc.ruleSets
      BY <3>1 DEF MissingInv
    <3> QED BY <3>1, <3>2, SameLoop
  <2> QED BY <2>1, <2>2
<1>3. CASE DecodeDNS
  <2>1. /\ UNCHANGED <<config, next, resolved>> /\ pc = "dns" /\ pc' = "sets"
        /\ doc' = doc \/ \E x, y : doc' = [doc EXCEPT !.dns = x, !.resolver = y]
    BY <1>3 DEF DecodeDNS
  <2>2. DOMAIN doc' = DOMAIN doc /\ doc'.ruleSets = doc.ruleSets
    BY <2>1 DEF MissingInv
  <2>3. doc.ruleSets = <<>> /\ next = 0
    BY <2>1 DEF MissingInv, BeforeSets
  <2>4. Gathered(next)'
    <3>1. Len(doc'.ruleSets) = 0 /\ next' = 0
      <4>1. doc'.ruleSets = <<>>
        BY <2>2, <2>3
      <4> QED BY <2>1, <2>3, <4>1
    <3>2. \A i \in 1 .. Len(doc'.ruleSets) : FALSE
      BY <3>1
    <3> QED BY <3>1, <3>2 DEF Gathered
  <2> QED
    BY <2>1, <2>2, <2>4
    DEF MissingInv, BeforeProviders, AfterProviders, BeforeSets, AfterSets
<1>4. CASE DecodeRule
  <2>1. /\ UNCHANGED <<config, pc, resolved>> /\ pc = "rules"
        /\ \/ doc' = doc
           \/ \E x : doc' = [doc EXCEPT !.rules = x]
           \/ \E x : doc' = [doc EXCEPT !.final = x]
    BY <1>4 DEF DecodeRule, WithRule
  <2>2. DOMAIN doc' = DOMAIN doc /\ doc'.ruleSets = doc.ruleSets
    BY <2>1 DEF MissingInv
  <2> QED BY <2>1, <2>2, SameLoop
<1>5. CASE Validate
  <2>1. Referenced \subseteq Names(doc.ruleSets) \cup GeoTags => ReferencesDefined
    BY DEF Referenced, Refs, ReferencesDefined
  <2> QED BY <1>5, <2>1, TurnMissing, RefusedMissing DEF Validate
<1>6. CASE Start
  BY <1>6, TurnMissing, RefusedMissing DEF Start
<1>7. CASE ResolveProvider
  BY <1>7, ResolveMissing, RefusedMissing
<1>8. CASE ResolveRuleProvider
  BY <1>8, ResolveRuleMissing, RefusedMissing
<1>9. CASE MakePatch
  <2>1. CASE Refuse
    BY <2>1, RefusedMissing
  <2>2. CASE ~Refuse
    <3>1. UNCHANGED <<config, next, resolved, doc>> /\ pc = "patch" /\ pc' = "done"
      BY <1>9, <2>2 DEF MakePatch
    <3>2. /\ \A x : Gathered(x)' <=> Gathered(x)
          /\ ReferencesDefined' <=> ReferencesDefined
      BY <3>1 DEF Gathered, ReferencesDefined, Names
    <3> QED
      BY <3>1, <3>2 DEF MissingInv, BeforeProviders, AfterProviders, BeforeSets, AfterSets
  <2> QED BY <2>1, <2>2
<1>10. CASE Finished \/ UNCHANGED vars
  BY <1>10, SameLoop DEF Finished, vars
<1>11. CASE \/ Turn("proxies", Len(config.proxies), "providers")
            \/ Turn("providers", Len(config.providers), "members")
            \/ Turn("members", Len(resolved), "groups")
            \/ Turn("groups", Len(config.groups), "dns")
            \/ Turn("sets", Len(config.ruleProviders), "rules")
  BY <1>11, TurnMissing
<1> QED
  BY <1>1, <1>2, <1>3, <1>4, <1>5, <1>6, <1>7, <1>8, <1>9, <1>10, <1>11 DEF Next

\* decodeClashConfig returns nothing that lacks a provider or refers to a rule
\* set that does not exist, wherever on the way one of them failed.
THEOREM NothingIsMissing == Pipeline => []NothingMissing
<1>1. PipelineInit => MissingInv
  BY InitMissing DEF PipelineInit
<1>2. MissingInv /\ [PipelineNext]_<<vars, handed, encoderVars>> => MissingInv'
  <2> SUFFICES ASSUME MissingInv, [PipelineNext]_<<vars, handed, encoderVars>>
               PROVE  MissingInv'
    OBVIOUS
  <2>1. CASE Decode
    BY <2>1, StepMissing DEF Decode
  <2>2. CASE ~Decode
    BY <2>2, StepMissing, RefusedMissing DEF PipelineNext, HandOver, Apply
  <2> QED BY <2>1, <2>2
<1>3. MissingInv => NothingMissing
  BY DEF MissingInv, NothingMissing, Gathered, ReferencesDefined, AfterProviders, AfterSets
<1> QED BY <1>1, <1>2, <1>3, PTL DEF Pipeline

--------------------------------------------------------------------------------
(* Lists of definitions, and what of them a document has. *)

UsableAs(n, proxy) == IF Usable(proxy) /\ proxy.name = n THEN {proxy} ELSE {}

N == INSTANCE SequenceFacts WITH Of <- UsableAs

\* The same operators, reached in different ways.
LEMMA SameOperators ==
    /\ \A x : (N!IsList(x) <=> IsList(x)) /\ N!Range(x) = Range(x)
    /\ \A x : N!Chained(x) = Chained(x)
    /\ \A those, x : N!Picked(those, x) = Picked(those, x)
BY DEF IsList, N!IsList, Range, N!Range, Chained, N!Chained, Picked, N!Picked,
       FoldLeft, N!FoldLeft, MapThenFoldSet, N!MapThenFoldSet, Max, N!Max

LEMMA ListFacts ==
    ASSUME NEW s, IsList(s)
    PROVE  Len(s) \in Nat /\ DOMAIN s = 1 .. Len(s) /\ Range(s) = {s[i] : i \in 1 .. Len(s)}
BY DEF IsList, Range

LEMMA AppendFacts ==
    ASSUME NEW s, IsList(s), NEW x
    PROVE  /\ IsList(Append(s, x)) /\ Len(s) \in Nat /\ Len(Append(s, x)) = Len(s) + 1
           /\ \A i \in 1 .. Len(s) : Append(s, x)[i] = s[i]
           /\ Append(s, x)[Len(s) + 1] = x
           /\ Range(Append(s, x)) = Range(s) \cup {x}
BY ListFacts, SameOperators, N!AppendList

LEMMA EmptyFacts == IsList(<<>>) /\ Len(<<>>) = 0 /\ Range(<<>>) = {}
BY SameOperators, N!EmptyIs

LEMMA FunctionIsList ==
    ASSUME NEW f, NEW n \in Nat, f = [i \in 1 .. n |-> f[i]]
    PROVE  IsList(f) /\ Len(f) = n
<1>1. f \in Seq({f[i] : i \in 1 .. n}) /\ Len(f) = n
  OBVIOUS
<1>2. N!IsList(f)
  BY <1>1, N!ListOf
<1> QED BY <1>1, <1>2, SameOperators

LEMMA ConcatFacts ==
    ASSUME NEW a, NEW b, IsList(a), IsList(b)
    PROVE  IsList(a \o b) /\ Len(a \o b) = Len(a) + Len(b) /\ Range(a \o b) = Range(a) \cup Range(b)
BY SameOperators, N!ConcatList

LEMMA PickedFacts ==
    ASSUME NEW those, NEW s, IsList(s)
    PROVE  /\ IsList(Picked(those, s)) /\ Len(Picked(those, s)) \in Nat
           /\ Range(Picked(those, s)) = Range(s) \cap those
BY SameOperators, N!PickedRange

\* One more definition adds its name, if it is usable.
LEMMA UsableAppend ==
    ASSUME NEW s, IsList(s), NEW proxy
    PROVE  UsableNames(Append(s, proxy)) =
              UsableNames(s) \cup (IF Usable(proxy) THEN {proxy.name} ELSE {})
<1>1. Range(Append(s, proxy)) = Range(s) \cup {proxy}
  BY AppendFacts
<1> QED BY <1>1 DEF UsableNames

LEMMA UsableConcat ==
    ASSUME NEW a, NEW b, IsList(a), IsList(b)
    PROVE  UsableNames(a \o b) = UsableNames(a) \cup UsableNames(b)
BY ConcatFacts DEF UsableNames

\* nodes is what the definitions of the list come to: of each name the first that
\* is usable, and nothing else.
NodesFrom(nodes, list) ==
    /\ IsList(nodes)
    /\ Names(nodes) = UsableNames(list)
    /\ \A i \in 1 .. Len(nodes) : {nodes[i]} = N!First(nodes[i].name, list)

\* appendProxy.
WithProxy(nodes, proxy) ==
    IF Usable(proxy) /\ proxy.name \notin Names(nodes) THEN Append(nodes, proxy) ELSE nodes

LEMMA OneMoreDefinition ==
    ASSUME NEW nodes, NEW list, IsList(list), NodesFrom(nodes, list), NEW proxy
    PROVE  NodesFrom(WithProxy(nodes, proxy), Append(list, proxy))
<1> DEFINE all == Append(list, proxy)
<1>1. /\ IsList(nodes) /\ Names(nodes) = UsableNames(list)
      /\ \A i \in 1 .. Len(nodes) : {nodes[i]} = N!First(nodes[i].name, list)
  BY DEF NodesFrom
<1>2. \A n : N!First(n, all) = IF N!First(n, list) # {} THEN N!First(n, list) ELSE UsableAs(n, proxy)
  <2>1. list \in Seq(Range(list))
    BY DEF IsList
  <2> QED BY <2>1, N!GivenByAppend
<1>3. UsableNames(all) = UsableNames(list) \cup (IF Usable(proxy) THEN {proxy.name} ELSE {})
  BY UsableAppend
<1> HIDE DEF all
<1>4. \A i \in 1 .. Len(nodes) : {nodes[i]} = N!First(nodes[i].name, all)
  BY <1>1, <1>2
<1>5. CASE ~(Usable(proxy) /\ proxy.name \notin Names(nodes))
  BY <1>1, <1>3, <1>4, <1>5 DEF WithProxy, NodesFrom, all
<1>6. CASE Usable(proxy) /\ proxy.name \notin Names(nodes)
  <2> DEFINE more == Append(nodes, proxy)
  <2>1. /\ IsList(more) /\ Len(nodes) \in Nat /\ Len(more) = Len(nodes) + 1
        /\ (\A i \in 1 .. Len(nodes) : more[i] = nodes[i]) /\ more[Len(nodes) + 1] = proxy
    BY <1>1, AppendFacts
  <2>2. WithProxy(nodes, proxy) = more
    BY <1>6 DEF WithProxy
  <2> HIDE DEF more
  <2>3. \A i : i \in 1 .. Len(more) <=> i \in 1 .. Len(nodes) \/ i = Len(nodes) + 1
    BY <2>1
  <2>4. Names(more) = Names(nodes) \cup {proxy.name}
    BY <2>1, <2>3 DEF Names
  <2>5. N!First(proxy.name, list) = {}
    <3>1. CASE N!Gives(proxy.name, list) = {}
      BY <3>1, ListFacts, N!FirstIs
    <3>2. CASE N!Gives(proxy.name, list) # {}
      <4>1. PICK i \in 1 .. Len(list) : UsableAs(proxy.name, list[i]) # {}
        BY <3>2 DEF N!Gives
      <4>2. Usable(list[i]) /\ list[i].name = proxy.name /\ list[i] \in Range(list)
        BY <4>1, ListFacts DEF UsableAs
      <4>3. proxy.name \in UsableNames(list)
        BY <4>2 DEF UsableNames
      <4> QED BY <1>1, <1>6, <4>3
    <3> QED BY <3>1, <3>2
  <2>6. {proxy} = N!First(proxy.name, all)
    BY <1>2, <1>6, <2>5 DEF UsableAs
  <2>7. \A i \in 1 .. Len(more) : {more[i]} = N!First(more[i].name, all)
    BY <1>4, <2>1, <2>3, <2>6
  <2>8. Names(more) = UsableNames(all)
    BY <1>1, <1>3, <1>6, <2>4
  <2> QED BY <2>1, <2>2, <2>7, <2>8 DEF NodesFrom, all
<1> QED BY <1>5, <1>6

--------------------------------------------------------------------------------
(* The definitions before an item of a provider, and what a provider brings. *)

\* DefinitionsTo(k), of configuration c and resolved providers r.
DefsIn(c, r, k) == c.proxies \o Chained(SubSeq(r, 1, k))

\* Those, and i of the proxies of the next provider.
HandledIn(c, r, k, i) ==
    IF i = 0 THEN DefsIn(c, r, k) ELSE DefsIn(c, r, k) \o SubSeq(r[k + 1], 1, i)

BroughtIn(c, r, k) == UsableNames(r[k]) \ UsableNames(DefsIn(c, r, k - 1))

Lists(r) == IsList(r) /\ \A k \in 1 .. Len(r) : IsList(r[k])

LEMMA PrefixIsList ==
    ASSUME NEW s, IsList(s), NEW k \in 0 .. Len(s)
    PROVE  /\ IsList(SubSeq(s, 1, k)) /\ Len(SubSeq(s, 1, k)) = k
           /\ \A i \in 1 .. k : SubSeq(s, 1, k)[i] = s[i]
           /\ k = Len(s) => SubSeq(s, 1, k) = s
           /\ k = 0 => SubSeq(s, 1, k) = <<>>
BY SameOperators, N!PrefixFacts

LEMMA PrefixAppend ==
    ASSUME NEW s, IsList(s), NEW k \in 0 .. Len(s), k # Len(s)
    PROVE  k + 1 \in 0 .. Len(s) /\ SubSeq(s, 1, k + 1) = Append(SubSeq(s, 1, k), s[k + 1])
BY SameOperators, N!PrefixGrows

LEMMA PickedGrows ==
    ASSUME NEW those, NEW s, IsList(s), NEW k \in 0 .. Len(s), k # Len(s)
    PROVE  /\ s[k + 1] \in Range(s)
           /\ Picked(those, SubSeq(s, 1, k + 1)) =
                 IF s[k + 1] \in those THEN Append(Picked(those, SubSeq(s, 1, k)), s[k + 1])
                 ELSE Picked(those, SubSeq(s, 1, k))
<1>1. /\ s[k + 1] \in N!Range(s)
      /\ N!Picked(those, SubSeq(s, 1, k + 1)) =
            IF s[k + 1] \in those THEN Append(N!Picked(those, SubSeq(s, 1, k)), s[k + 1])
            ELSE N!Picked(those, SubSeq(s, 1, k))
  <2>1. N!IsList(s)
    BY SameOperators
  <2> QED BY <2>1, N!PickedOneMore
<1>2. N!Range(s) = Range(s) /\ \A t : N!Picked(those, t) = Picked(those, t)
  BY SameOperators
<1> QED BY <1>1, <1>2

LEMMA DefsAreList ==
    ASSUME NEW c, NEW r, IsList(c.proxies), Lists(r), NEW k \in 0 .. Len(r)
    PROVE  /\ IsList(Chained(SubSeq(r, 1, k))) /\ IsList(DefsIn(c, r, k))
           /\ k = 0 => DefsIn(c, r, k) = c.proxies
<1> DEFINE s == SubSeq(r, 1, k)
<1>1. IsList(s) /\ Len(s) = k /\ (\A i \in 1 .. k : s[i] = r[i]) /\ (k = 0 => s = <<>>)
  BY PrefixIsList DEF Lists
<1>2. \A i \in 1 .. Len(s) : IsList(s[i])
  <2>1. \A i \in 1 .. k : i \in 1 .. Len(r)
    BY ListFacts DEF Lists
  <2> QED BY <1>1, <2>1 DEF Lists
<1> HIDE DEF s
<1>3. IsList(Chained(s))
  BY <1>1, <1>2, SameOperators, N!ChainedItems
<1>4. IsList(c.proxies \o Chained(s))
  BY <1>3, ConcatFacts
<1>5. k = 0 => c.proxies \o Chained(s) = c.proxies
  BY <1>1, SameOperators, N!ChainedEmpty, N!ConcatEmpty
<1> QED BY <1>3, <1>4, <1>5 DEF DefsIn, s

LEMMA DefsGrow ==
    ASSUME NEW c, NEW r, IsList(c.proxies), Lists(r), NEW k \in 0 .. Len(r), k # Len(r)
    PROVE  /\ k + 1 \in 1 .. Len(r) /\ IsList(r[k + 1])
           /\ DefsIn(c, r, k + 1) = DefsIn(c, r, k) \o r[k + 1]
<1> DEFINE s == SubSeq(r, 1, k)
           chain == Chained(s)
<1>1. k + 1 \in 0 .. Len(r) /\ k + 1 \in 1 .. Len(r) /\ SubSeq(r, 1, k + 1) = Append(s, r[k + 1])
  BY PrefixAppend, ListFacts DEF Lists
<1>2. IsList(r[k + 1]) /\ IsList(s) /\ IsList(chain)
  BY <1>1, PrefixIsList, DefsAreList DEF Lists
<1> HIDE DEF s
<1>3. Chained(Append(s, r[k + 1])) = chain \o r[k + 1]
  BY <1>2, SameOperators, N!ChainedAppend
<1> HIDE DEF chain
<1>4. c.proxies \o (chain \o r[k + 1]) = (c.proxies \o chain) \o r[k + 1]
  <2> DEFINE own == c.proxies
             more == r[k + 1]
  <2>1. N!IsList(own) /\ N!IsList(chain) /\ N!IsList(more)
    BY <1>2, SameOperators
  <2> HIDE DEF own, more
  <2>2. (own \o chain) \o more = own \o (chain \o more)
    BY <2>1, N!ConcatAssociates
  <2> QED BY <2>2 DEF own, more
<1> QED BY <1>1, <1>2, <1>3, <1>4 DEF DefsIn, chain, s

LEMMA HandledGrows ==
    ASSUME NEW c, NEW r, IsList(c.proxies), Lists(r), NEW k \in 0 .. Len(r), k # Len(r),
           NEW i \in 0 .. Len(r[k + 1]), i # Len(r[k + 1])
    PROVE  /\ i + 1 \in 1 .. Len(r[k + 1]) /\ IsList(HandledIn(c, r, k, i))
           /\ HandledIn(c, r, k, i + 1) = Append(HandledIn(c, r, k, i), r[k + 1][i + 1])
<1> DEFINE defs == DefsIn(c, r, k)
           s == SubSeq(r[k + 1], 1, i)
           x == r[k + 1][i + 1]
<1>1. IsList(defs) /\ IsList(r[k + 1])
  BY DefsAreList, DefsGrow
<1>2. i + 1 \in 0 .. Len(r[k + 1]) /\ SubSeq(r[k + 1], 1, i + 1) = Append(s, x) /\ IsList(s)
      /\ (i = 0 => s = <<>>)
  BY <1>1, PrefixAppend, PrefixIsList
<1>3. i + 1 \in 1 .. Len(r[k + 1]) /\ i + 1 # 0 /\ Len(r[k + 1]) \in Nat
  BY <1>1, <1>2, ListFacts
<1>4. HandledIn(c, r, k, i) = defs \o s /\ IsList(defs \o s)
  BY <1>1, <1>2, SameOperators, N!ConcatEmpty, ConcatFacts DEF HandledIn
<1>5. HandledIn(c, r, k, i + 1) = defs \o Append(s, x)
  BY <1>2, <1>3 DEF HandledIn
<1> HIDE DEF defs, s, x
<1>6. defs \o Append(s, x) = Append(defs \o s, x)
  BY <1>1, <1>2, SameOperators, N!ConcatItem
<1> QED BY <1>3, <1>4, <1>5, <1>6 DEF x

LEMMA HandledAll ==
    ASSUME NEW c, NEW r, IsList(c.proxies), Lists(r), NEW k \in 0 .. Len(r), k # Len(r)
    PROVE  HandledIn(c, r, k, Len(r[k + 1])) = HandledIn(c, r, k + 1, 0)
<1> DEFINE l == r[k + 1]
           defs == DefsIn(c, r, k)
<1>1. IsList(defs) /\ IsList(l) /\ DefsIn(c, r, k + 1) = defs \o l
  BY DefsAreList, DefsGrow
<1>2. Len(l) \in 0 .. Len(l) /\ Len(l) \in Nat
  BY <1>1, ListFacts
<1>3. SubSeq(l, 1, Len(l)) = l /\ (Len(l) = 0 => l = <<>>)
  <2>1. SubSeq(l, 1, Len(l)) = l /\ (Len(l) = 0 => SubSeq(l, 1, Len(l)) = <<>>)
    BY <1>1, <1>2, PrefixIsList
  <2> QED BY <2>1
<1>4. defs \o <<>> = defs
  BY <1>1, SameOperators, N!ConcatEmpty
<1>5. CASE Len(l) = 0
  BY <1>1, <1>3, <1>4, <1>5 DEF HandledIn
<1>6. CASE Len(l) # 0
  BY <1>1, <1>3, <1>6 DEF HandledIn
<1> QED BY <1>5, <1>6

--------------------------------------------------------------------------------
(* The loops over proxies and providers. *)

\* The first n providers brought the names in m.
MembersMade(c, r, m, n) ==
    /\ IsList(m)
    /\ \A k \in 1 .. n : IsList(m[k]) /\ Range(m[k]) = BroughtIn(c, r, k)

\* In provider n + 1, after i of its proxies.
Providing(c, r, m, nodes, n, i) ==
    /\ n \in 0 .. Len(r)
    /\ i # 0 => n # Len(r) /\ i \in 0 .. Len(r[n + 1])
    /\ NodesFrom(nodes, HandledIn(c, r, n, i))
    /\ MembersMade(c, r, m, n)
    /\ Len(m) = IF i = 0 THEN n ELSE n + 1
    /\ i # 0 => /\ IsList(m[n + 1])
                /\ Range(m[n + 1]) =
                      UsableNames(SubSeq(r[n + 1], 1, i)) \ UsableNames(DefsIn(c, r, n))

Provided(c, r, m, nodes) == Providing(c, r, m, nodes, Len(r), 0)

AfterMembers == {"groups", "dns", "sets", "rules", "patch", "done"}

ProxyInv ==
    /\ config \in Configs /\ DOMAIN doc = Sections /\ Lists(resolved)
    /\ next \in Nat
    /\ pc # "members" => item = 0
    /\ pc \in {"start", "proxies", "providers"} => members = <<>>
    /\ pc \in {"start", "proxies"} => resolved = <<>>
    /\ pc = "start" => doc.nodes = <<>>
    /\ pc = "proxies" => /\ next \in 0 .. Len(config.proxies)
                         /\ NodesFrom(doc.nodes, SubSeq(config.proxies, 1, next))
    /\ pc = "providers" => NodesFrom(doc.nodes, config.proxies)
    /\ pc = "members" => Providing(config, resolved, members, doc.nodes, next, item)
    /\ pc \in AfterMembers => Provided(config, resolved, members, doc.nodes)

LEMMA ConfigLists ==
    ASSUME NEW c \in Configs
    PROVE  /\ IsList(c.proxies) /\ IsList(c.providers) /\ IsList(c.groups)
           /\ IsList(c.ruleProviders) /\ IsList(c.rules)
BY ConfigsAssumption

LEMMA NoNodes == NodesFrom(<<>>, <<>>)
<1>1. IsList(<<>>) /\ Names(<<>>) = {} /\ UsableNames(<<>>) = {}
  BY EmptyFacts DEF Names, UsableNames
<1>2. \A i \in 1 .. Len(<<>>) : FALSE
  BY EmptyFacts
<1> QED BY <1>1, <1>2 DEF NodesFrom

LEMMA InitProxy == Init => ProxyInv
<1> SUFFICES ASSUME Init PROVE ProxyInv
  OBVIOUS
<1>1. doc.nodes = <<>> /\ DOMAIN doc = Sections /\ pc = "start"
  BY DEF Init, DefaultDocument, Sections
<1>2. Lists(<<>>)
  <2>1. \A k \in 1 .. Len(<<>>) : FALSE
    BY EmptyFacts
  <2> QED BY <2>1, EmptyFacts DEF Lists
<1> QED BY <1>1, <1>2 DEF Init, ProxyInv, AfterMembers

\* A step of a later loop, which leaves the nodes alone.
LEMMA SameProxies ==
    ASSUME ProxyInv, DOMAIN doc' = DOMAIN doc, doc'.nodes = doc.nodes,
           UNCHANGED <<config, item, resolved, members>>, next' \in Nat,
           \/ pc' = pc /\ (next' = next \/ pc \in {"providers"} \cup AfterMembers)
           \/ pc \in AfterMembers /\ pc' \in AfterMembers
           \/ pc' = "failed" /\ pc # "members"
    PROVE  ProxyInv'
  BY DEF ProxyInv, AfterMembers, Provided

LEMMA AppendProxyAdds ==
    ASSUME ProxyInv, NEW proxy, AppendProxy(proxy)
    PROVE  DOMAIN doc' = Sections /\ doc'.nodes = WithProxy(doc.nodes, proxy)
<1>1. "nodes" \in DOMAIN doc /\ DOMAIN doc = Sections
  BY DEF ProxyInv, Sections, DefaultDocument
<1>2. Accepted(proxy) <=> Usable(proxy) /\ proxy.name \notin Names(doc.nodes)
  BY DEF Accepted, Usable
<1> QED BY <1>1, <1>2 DEF AppendProxy, WithProxy

LEMMA ProxyStep == ASSUME ProxyInv, DecodeProxy PROVE ProxyInv'
<1> DEFINE c == config
           s == SubSeq(c.proxies, 1, next)
           proxy == c.proxies[next + 1]
<1>1. /\ pc = "proxies" /\ next < Len(c.proxies) /\ AppendProxy(proxy)
      /\ next' = next + 1 /\ UNCHANGED <<config, pc, item, resolved, members>>
  BY DEF DecodeProxy
<1>2. IsList(c.proxies) /\ next \in 0 .. Len(c.proxies) /\ next # Len(c.proxies)
      /\ NodesFrom(doc.nodes, s)
  <2>1. IsList(c.proxies) /\ next \in 0 .. Len(c.proxies) /\ NodesFrom(doc.nodes, s)
    BY <1>1, ConfigLists DEF ProxyInv
  <2> QED BY <1>1, <2>1, ListFacts
<1>3. IsList(s) /\ next + 1 \in 0 .. Len(c.proxies)
      /\ SubSeq(c.proxies, 1, next + 1) = Append(s, proxy)
  BY <1>2, PrefixIsList, PrefixAppend
<1>4. DOMAIN doc' = Sections /\ doc'.nodes = WithProxy(doc.nodes, proxy)
  BY <1>1, AppendProxyAdds
<1>5. NodesFrom(WithProxy(doc.nodes, proxy), Append(s, proxy))
  BY <1>2, <1>3, OneMoreDefinition
<1>6. NodesFrom(doc'.nodes, SubSeq(config'.proxies, 1, next')) /\ next' \in 0 .. Len(config'.proxies)
  BY <1>1, <1>3, <1>4, <1>5
<1> QED BY <1>1, <1>4, <1>6 DEF ProxyInv, AfterMembers

LEMMA AllProxies ==
    ASSUME ProxyInv, Turn("proxies", Len(config.proxies), "providers") PROVE ProxyInv'
<1>1. /\ pc = "proxies" /\ next = Len(config.proxies) /\ pc' = "providers" /\ next' = 0
      /\ UNCHANGED <<config, item, resolved, members, doc>>
  BY DEF Turn
<1>2. IsList(config.proxies)
  BY ConfigLists DEF ProxyInv
<1>3. Len(config.proxies) \in 0 .. Len(config.proxies)
  BY <1>2, ListFacts
<1>4. SubSeq(config.proxies, 1, next) = config.proxies
  BY <1>1, <1>2, <1>3, PrefixIsList
<1>5. NodesFrom(doc.nodes, config.proxies)
  BY <1>1, <1>4 DEF ProxyInv
<1>6. NodesFrom(doc'.nodes, config'.proxies) /\ 0 \in Nat
  BY <1>1, <1>5
<1> QED BY <1>1, <1>6 DEF ProxyInv, AfterMembers

LEMMA FilteredIsList ==
    ASSUME NEW provider, NEW proxies, IsList(proxies)
    PROVE  IsList(Filtered(provider, proxies))
<1> DEFINE kept == Selected(proxies, LAMBDA proxy : proxy.name \in provider.passes)
           renamed == [i \in 1 .. Len(kept) |->
                 [kept[i] EXCEPT !.name = Renamed(provider.name, kept[i].name)]]
<1> DEFINE those == {proxy \in Range(proxies) : proxy.name \in provider.passes}
<1>1. kept = Picked(those, proxies)
  BY DEF Selected
<1> HIDE DEF those
<1>2. IsList(kept)
  BY <1>1, PickedFacts
<1> HIDE DEF kept
<1>3. IsList(renamed)
  <2>1. Len(kept) \in Nat /\ renamed = [i \in 1 .. Len(kept) |-> renamed[i]]
    BY <1>2, ListFacts
  <2> HIDE DEF renamed
  <2> QED BY <2>1, FunctionIsList
<1>4. Filtered(provider, proxies) = IF ~provider.overrides THEN kept ELSE renamed
  BY DEF Filtered, kept
<1> QED BY <1>2, <1>3, <1>4

\* What a provider delivers is a list.
LEMMA ResolveStep == ASSUME ProxyInv, ResolveProvider, ~Refuse PROVE ProxyInv'
<1> DEFINE provider == config.providers[next + 1]
<1>1. /\ pc = "providers" /\ next < Len(config.providers) /\ next' = next + 1
      /\ UNCHANGED <<config, pc, item, members, doc>>
      /\ \E content \in IF provider.inline THEN {provider.payload}
                        ELSE Offered[provider.name] \cup {Unavailable} :
            /\ ~(~provider.inline /\ content \in {Unavailable, <<>>})
            /\ resolved' = Append(resolved, Filtered(provider, content))
  BY DEF ResolveProvider
<1>2. PICK content \in IF provider.inline THEN {provider.payload}
                       ELSE Offered[provider.name] \cup {Unavailable} :
            /\ ~(~provider.inline /\ content \in {Unavailable, <<>>})
            /\ resolved' = Append(resolved, Filtered(provider, content))
  BY <1>1
<1>3. IsList(content)
  <2>1. IsList(config.providers) /\ config \in Configs
    BY ConfigLists DEF ProxyInv
  <2>2. next + 1 \in 1 .. Len(config.providers)
    BY <1>1, <2>1, ListFacts DEF ProxyInv
  <2>3. provider \in Range(config.providers)
    BY <2>1, <2>2, ListFacts
  <2>4. IF provider.inline THEN IsList(provider.payload)
        ELSE \A x \in Offered[provider.name] : x # Unavailable => IsList(x)
    BY <2>1, <2>3, ConfigsAssumption
  <2> QED BY <1>2, <2>4
<1>4. IsList(Filtered(provider, content))
  BY <1>3, FilteredIsList
<1>5. Lists(resolved')
  <2> DEFINE x == Filtered(provider, content)
  <2> HIDE DEF x
  <2>1. /\ IsList(resolved) /\ \A k \in 1 .. Len(resolved) : IsList(resolved[k])
    BY DEF ProxyInv, Lists
  <2>2. /\ IsList(Append(resolved, x)) /\ Len(resolved) \in Nat
        /\ Len(Append(resolved, x)) = Len(resolved) + 1
        /\ \A i \in 1 .. Len(resolved) : Append(resolved, x)[i] = resolved[i]
        /\ Append(resolved, x)[Len(resolved) + 1] = x
    BY <2>1, AppendFacts
  <2>3. resolved' = Append(resolved, x) /\ IsList(x)
    BY <1>2, <1>4 DEF x
  <2>4. \A k \in 1 .. Len(resolved) + 1 : k \in 1 .. Len(resolved) \/ k = Len(resolved) + 1
    BY <2>2
  <2> QED BY <2>1, <2>2, <2>3, <2>4 DEF Lists
<1>6. NodesFrom(doc'.nodes, config'.proxies)
  BY <1>1 DEF ProxyInv
<1> QED BY <1>1, <1>5, <1>6 DEF ProxyInv, AfterMembers

\* Before the first provider nothing but the configuration's own proxies was handled.
LEMMA ProvidersResolved ==
    ASSUME ProxyInv, Turn("providers", Len(config.providers), "members") PROVE ProxyInv'
<1>1. /\ pc = "providers" /\ pc' = "members" /\ next' = 0
      /\ UNCHANGED <<config, item, resolved, members, doc>>
  BY DEF Turn
<1>2. IsList(config.proxies) /\ Lists(resolved) /\ 0 \in 0 .. Len(resolved)
  BY ConfigLists, ListFacts DEF ProxyInv, Lists
<1>3. HandledIn(config, resolved, 0, 0) = config.proxies
  BY <1>2, DefsAreList DEF HandledIn
<1>4. members = <<>> /\ item = 0 /\ NodesFrom(doc.nodes, config.proxies)
  BY <1>1 DEF ProxyInv
<1>5. MembersMade(config, resolved, <<>>, 0)
  BY EmptyFacts DEF MembersMade
<1>6. Providing(config, resolved, members, doc.nodes, 0, 0)
  BY <1>2, <1>3, <1>4, <1>5, EmptyFacts DEF Providing
<1>7. Providing(config', resolved', members', doc'.nodes, next', item')
  BY <1>1, <1>4, <1>6
<1> QED BY <1>1, <1>7 DEF ProxyInv, AfterMembers

LEMMA ProvidersDone ==
    ASSUME ProxyInv, Turn("members", Len(resolved), "groups") PROVE ProxyInv'
<1>1. /\ pc = "members" /\ pc' = "groups" /\ next = Len(resolved) /\ next' = 0
      /\ UNCHANGED <<config, item, resolved, members, doc>>
  BY DEF Turn
<1>2. Providing(config, resolved, members, doc.nodes, next, item)
  BY <1>1 DEF ProxyInv
<1>3. item = 0
  BY <1>1, <1>2 DEF Providing
<1>4. Provided(config', resolved', members', doc'.nodes)
  BY <1>1, <1>2, <1>3 DEF Provided
<1> QED BY <1>1, <1>3, <1>4 DEF ProxyInv, AfterMembers

\* The names of a provider's proxies that were not there before.
LEMMA OneMoreProvided ==
    ASSUME NEW c, NEW r, NEW m, NEW nodes, NEW n, NEW i, IsList(c.proxies), Lists(r),
           Providing(c, r, m, nodes, n, i), n # Len(r), i # Len(r[n + 1]),
           NEW proxy, proxy = r[n + 1][i + 1],
           NEW before, before = IF Len(m) = n THEN <<>> ELSE m[n + 1],
           NEW now, now = IF Usable(proxy) /\ proxy.name \notin Names(nodes)
                          THEN Append(before, proxy.name) ELSE before
    PROVE  Providing(c, r, Append(SubSeq(m, 1, n), now), WithProxy(nodes, proxy), n, i + 1)
<1> DEFINE l == r[n + 1]
           s == SubSeq(l, 1, i)
           defs == DefsIn(c, r, n)
           h == HandledIn(c, r, n, i)
           first == SubSeq(m, 1, n)
           more == Append(first, now)
<1>1. /\ n \in 0 .. Len(r) /\ NodesFrom(nodes, h) /\ MembersMade(c, r, m, n)
      /\ Len(m) = IF i = 0 THEN n ELSE n + 1
      /\ i # 0 => /\ i \in 0 .. Len(l) /\ IsList(m[n + 1])
                  /\ Range(m[n + 1]) = UsableNames(s) \ UsableNames(defs)
  BY DEF Providing
<1>2. /\ IsList(l) /\ IsList(defs) /\ Len(l) \in Nat /\ n \in Nat
      /\ IsList(m) /\ Len(r) \in Nat
  <2>1. IsList(l) /\ IsList(defs)
    BY <1>1, DefsGrow, DefsAreList
  <2>2. IsList(r) /\ IsList(m)
    BY <1>1 DEF Lists, MembersMade
  <2> HIDE DEF l, defs
  <2>3. Len(l) \in Nat /\ Len(r) \in Nat
    BY <2>1, <2>2, ListFacts
  <2> QED BY <1>1, <2>1, <2>2, <2>3
<1>3. i \in 0 .. Len(l) /\ i # Len(l) /\ n \in 0 .. Len(m)
  BY <1>1, <1>2
<1>4. /\ i + 1 \in 1 .. Len(l) /\ i + 1 \in 0 .. Len(l) /\ i + 1 # 0 /\ IsList(h)
      /\ HandledIn(c, r, n, i + 1) = Append(h, proxy)
  BY <1>1, <1>3, HandledGrows
<1>5. IsList(s) /\ SubSeq(l, 1, i + 1) = Append(s, proxy) /\ (i = 0 => s = <<>>)
  BY <1>2, <1>3, PrefixIsList, PrefixAppend
<1>6. /\ IsList(first) /\ Len(first) = n /\ \A k \in 1 .. n : first[k] = m[k]
  BY <1>2, <1>3, PrefixIsList
<1>7. h = defs \o s
  BY <1>2, <1>5, SameOperators, N!ConcatEmpty DEF HandledIn
<1>8. IsList(before) /\ Range(before) = UsableNames(s) \ UsableNames(defs)
  <2>1. CASE i = 0
    <3>1. before = <<>> /\ s = <<>>
      BY <1>1, <1>5, <2>1
    <3>2. UsableNames(<<>>) = {}
      BY EmptyFacts DEF UsableNames
    <3> QED BY <3>1, <3>2, EmptyFacts
  <2>2. CASE i # 0
    <3>1. before = m[n + 1]
      BY <1>1, <1>2, <2>2
    <3> QED BY <1>1, <2>2, <3>1
  <2> QED BY <2>1, <2>2
<1> HIDE DEF s, defs, h, first, l
<1>9. NodesFrom(WithProxy(nodes, proxy), Append(h, proxy))
  BY <1>1, <1>4, OneMoreDefinition
<1>10. Names(nodes) = UsableNames(defs) \cup UsableNames(s)
  BY <1>1, <1>2, <1>5, <1>7, UsableConcat DEF NodesFrom
<1>11. UsableNames(Append(s, proxy)) =
           UsableNames(s) \cup (IF Usable(proxy) THEN {proxy.name} ELSE {})
  BY <1>5, UsableAppend
<1>12. IsList(now) /\ Range(now) = UsableNames(Append(s, proxy)) \ UsableNames(defs)
  <2>1. CASE Usable(proxy) /\ proxy.name \notin Names(nodes)
    <3>1. now = Append(before, proxy.name)
      BY <2>1
    <3>2. IsList(now) /\ Range(now) = Range(before) \cup {proxy.name}
      BY <1>8, <3>1, AppendFacts
    <3> QED BY <1>8, <1>10, <1>11, <2>1, <3>2
  <2>2. CASE ~(Usable(proxy) /\ proxy.name \notin Names(nodes))
    <3>1. now = before
      BY <2>2
    <3> QED BY <1>8, <1>10, <1>11, <2>2, <3>1
  <2> QED BY <2>1, <2>2
<1>13. /\ IsList(more) /\ Len(more) = n + 1 /\ more[n + 1] = now
       /\ \A k \in 1 .. n : more[k] = m[k]
  BY <1>6, AppendFacts
<1> HIDE DEF more
<1>14. MembersMade(c, r, more, n)
  BY <1>1, <1>13 DEF MembersMade
<1>15. Providing(c, r, more, WithProxy(nodes, proxy), n, i + 1)
  BY <1>1, <1>4, <1>5, <1>9, <1>12, <1>13, <1>14 DEF Providing, s, defs, l
<1> QED BY <1>15 DEF more, first

LEMMA ProvidedStep == ASSUME ProxyInv, DecodeProvided PROVE ProxyInv'
<1> DEFINE proxy == resolved[next + 1][item + 1]
           before == IF Len(members) = next THEN <<>> ELSE members[next + 1]
           now == IF Accepted(proxy) THEN Append(before, proxy.name) ELSE before
<1>1. /\ pc = "members" /\ next < Len(resolved) /\ item < Len(resolved[next + 1])
      /\ AppendProxy(proxy) /\ members' = Append(SubSeq(members, 1, next), now)
      /\ item' = item + 1 /\ UNCHANGED <<config, pc, next, resolved>>
  BY DEF DecodeProvided
<1>2. /\ IsList(config.proxies) /\ Lists(resolved) /\ next \in Nat
      /\ Providing(config, resolved, members, doc.nodes, next, item)
  BY <1>1, ConfigLists DEF ProxyInv
<1>3. next # Len(resolved) /\ item # Len(resolved[next + 1])
  <2>1. Len(resolved) \in Nat /\ next + 1 \in 1 .. Len(resolved)
    BY <1>1, <1>2, ListFacts DEF Lists
  <2>2. Len(resolved[next + 1]) \in Nat
    BY <1>2, <2>1, ListFacts DEF Lists
  <2>3. item \in Nat
    BY <1>2, <2>2 DEF Providing
  <2> QED BY <1>1, <1>2, <2>1, <2>2, <2>3
<1>4. DOMAIN doc' = Sections /\ doc'.nodes = WithProxy(doc.nodes, proxy)
  BY <1>1, AppendProxyAdds
<1>5. now = IF Usable(proxy) /\ proxy.name \notin Names(doc.nodes)
            THEN Append(before, proxy.name) ELSE before
  BY DEF Accepted, Usable
<1>6. Providing(config, resolved, Append(SubSeq(members, 1, next), now),
                WithProxy(doc.nodes, proxy), next, item + 1)
  <2> DEFINE p == proxy
             b == before
             x == now
  <2>1. /\ p = resolved[next + 1][item + 1]
        /\ b = IF Len(members) = next THEN <<>> ELSE members[next + 1]
        /\ x = IF Usable(p) /\ p.name \notin Names(doc.nodes) THEN Append(b, p.name) ELSE b
    BY <1>5
  <2> HIDE DEF p, b, x
  <2>2. Providing(config, resolved, Append(SubSeq(members, 1, next), x),
                  WithProxy(doc.nodes, p), next, item + 1)
    BY <1>2, <1>3, <2>1, OneMoreProvided
  <2> QED BY <2>2 DEF p, b, x
<1> HIDE DEF proxy, now
<1>7. Providing(config', resolved', members', doc'.nodes, next', item')
  BY <1>1, <1>4, <1>6
<1> QED BY <1>1, <1>4, <1>7 DEF ProxyInv, AfterMembers

LEMMA ProviderEnds ==
    ASSUME NEW c, NEW r, NEW m, NEW nodes, NEW n, NEW i, IsList(c.proxies), Lists(r),
           Providing(c, r, m, nodes, n, i), n # Len(r), i = Len(r[n + 1]),
           NEW more, more = IF Len(m) = n THEN Append(m, <<>>) ELSE m
    PROVE  Providing(c, r, more, nodes, n + 1, 0)
<1> DEFINE l == r[n + 1]
           defs == DefsIn(c, r, n)
<1>1. /\ n \in 0 .. Len(r) /\ NodesFrom(nodes, HandledIn(c, r, n, i)) /\ MembersMade(c, r, m, n)
      /\ Len(m) = IF i = 0 THEN n ELSE n + 1
      /\ i # 0 => /\ IsList(m[n + 1])
                  /\ Range(m[n + 1]) = UsableNames(SubSeq(l, 1, i)) \ UsableNames(defs)
  BY DEF Providing
<1>2. n + 1 \in 1 .. Len(r) /\ IsList(l) /\ IsList(m)
  BY <1>1, DefsGrow DEF MembersMade
<1>3. Len(l) \in Nat /\ Len(l) \in 0 .. Len(l) /\ Len(r) \in Nat /\ n \in Nat
  <2> HIDE DEF l
  <2>1. IsList(r)
    BY DEF Lists
  <2>2. Len(l) \in Nat /\ Len(r) \in Nat
    BY <1>2, <2>1, ListFacts
  <2> QED BY <1>1, <2>2
<1>4. SubSeq(l, 1, i) = l /\ (i = 0 => l = <<>>)
  <2>1. SubSeq(l, 1, i) = l /\ (i = 0 => SubSeq(l, 1, i) = <<>>)
    BY <1>2, <1>3, PrefixIsList
  <2> QED BY <2>1
<1>5. NodesFrom(nodes, HandledIn(c, r, n + 1, 0))
  BY <1>1, HandledAll
<1>6. (n + 1) - 1 = n /\ BroughtIn(c, r, n + 1) = UsableNames(l) \ UsableNames(defs)
  <2>1. (n + 1) - 1 = n
    BY <1>3
  <2> QED BY <2>1 DEF BroughtIn
<1>7. /\ IsList(more) /\ Len(more) = n + 1
      /\ \A k \in 1 .. n : more[k] = m[k]
      /\ IsList(more[n + 1]) /\ Range(more[n + 1]) = BroughtIn(c, r, n + 1)
  <2>1. CASE i = 0
    <3>1. more = Append(m, <<>>) /\ Len(m) = n
      BY <1>1, <2>1
    <3>2. UsableNames(<<>>) = {}
      BY EmptyFacts DEF UsableNames
    <3>3. BroughtIn(c, r, n + 1) = {}
      BY <1>4, <1>6, <2>1, <3>2
    <3>4. /\ IsList(more) /\ Len(more) = n + 1 /\ more[n + 1] = <<>>
          /\ \A k \in 1 .. n : more[k] = m[k]
      BY <1>2, <3>1, AppendFacts
    <3> QED BY <3>3, <3>4, EmptyFacts
  <2>2. CASE i # 0
    <3>1. more = m /\ Len(m) = n + 1
      BY <1>1, <1>3, <2>2
    <3> QED BY <1>1, <1>2, <1>4, <1>6, <2>2, <3>1
  <2> QED BY <2>1, <2>2
<1>8. \A k \in 1 .. n + 1 : k \in 1 .. n \/ k = n + 1
  BY <1>3
<1>9. MembersMade(c, r, more, n + 1)
  BY <1>1, <1>7, <1>8 DEF MembersMade
<1>10. n + 1 \in 0 .. Len(r)
  BY <1>2, <1>3
<1> QED BY <1>5, <1>7, <1>9, <1>10 DEF Providing

LEMMA ProviderStep == ASSUME ProxyInv, EndOfProvider PROVE ProxyInv'
<1> DEFINE more == IF Len(members) = next THEN Append(members, <<>>) ELSE members
<1>1. /\ pc = "members" /\ next < Len(resolved) /\ item = Len(resolved[next + 1])
      /\ members' = more /\ next' = next + 1 /\ item' = 0
      /\ UNCHANGED <<config, pc, resolved, doc>>
  BY DEF EndOfProvider
<1>2. /\ IsList(config.proxies) /\ Lists(resolved) /\ next \in Nat
      /\ Providing(config, resolved, members, doc.nodes, next, item)
  BY <1>1, ConfigLists DEF ProxyInv
<1>3. next # Len(resolved)
  BY <1>1, <1>2
<1>4. Providing(config, resolved, more, doc.nodes, next + 1, 0)
  BY <1>1, <1>2, <1>3, ProviderEnds
<1> HIDE DEF more
<1>5. Providing(config', resolved', members', doc'.nodes, next', item')
  BY <1>1, <1>4
<1> QED BY <1>1, <1>2, <1>5 DEF ProxyInv, AfterMembers

\* The steps of the later loops, and errors.
LEMMA LaterStep ==
    ASSUME ProxyInv,
           \/ DecodeGroup \/ Turn("groups", Len(config.groups), "dns") \/ DecodeDNS
           \/ ResolveRuleProvider \/ Turn("sets", Len(config.ruleProviders), "rules")
           \/ DecodeRule \/ Validate \/ MakePatch
           \/ Refuse /\ pc # "members"
    PROVE  ProxyInv'
<1> USE DEF AfterMembers
<1>1. "nodes" \in DOMAIN doc /\ DOMAIN doc = Sections /\ next \in Nat /\ next + 1 \in Nat /\ 0 \in Nat
  BY DEF ProxyInv, Sections, DefaultDocument
<1>2. ASSUME Refuse, pc # "members" PROVE ProxyInv'
  <2>1. UNCHANGED <<config, item, resolved, members, doc, next>> /\ pc' = "failed"
    BY <1>2 DEF Refuse
  <2> QED BY <1>1, <1>2, <2>1, SameProxies
<1>3. CASE DecodeGroup
  <2>1. CASE Refuse
    BY <1>2, <1>3, <2>1 DEF DecodeGroup
  <2>2. CASE ~Refuse
    <3>1. /\ pc = "groups" /\ UNCHANGED <<config, pc, item, resolved, members>> /\ next' = next + 1
          /\ doc' = doc \/ \E x : doc' = [doc EXCEPT !.groups = x]
      BY <1>3, <2>2 DEF DecodeGroup
    <3>2. doc'.nodes = doc.nodes /\ DOMAIN doc' = DOMAIN doc
      BY <1>1, <3>1
    <3> QED BY <1>1, <3>1, <3>2, SameProxies
  <2> QED BY <2>1, <2>2
<1>4. CASE DecodeDNS
  <2>1. /\ pc = "dns" /\ pc' = "sets" /\ UNCHANGED <<config, item, resolved, members, next>>
        /\ doc' = doc \/ \E x, y : doc' = [doc EXCEPT !.dns = x, !.resolver = y]
    BY <1>4 DEF DecodeDNS
  <2>2. doc'.nodes = doc.nodes /\ DOMAIN doc' = DOMAIN doc
    BY <1>1, <2>1
  <2> QED BY <1>1, <2>1, <2>2, SameProxies
<1>5. CASE ResolveRuleProvider
  <2>1. CASE Refuse
    BY <1>2, <1>5, <2>1 DEF ResolveRuleProvider
  <2>2. CASE ~Refuse
    <3>1. /\ pc = "sets" /\ UNCHANGED <<config, pc, item, resolved, members>> /\ next' = next + 1
          /\ \E x : doc' = [doc EXCEPT !.ruleSets = x]
      BY <1>5, <2>2 DEF ResolveRuleProvider
    <3>2. doc'.nodes = doc.nodes /\ DOMAIN doc' = DOMAIN doc
      BY <1>1, <3>1
    <3> QED BY <1>1, <3>1, <3>2, SameProxies
  <2> QED BY <2>1, <2>2
<1>6. CASE DecodeRule
  <2>1. /\ pc = "rules" /\ UNCHANGED <<config, pc, item, resolved, members>> /\ next' = next + 1
        /\ \/ doc' = doc
           \/ \E x : doc' = [doc EXCEPT !.rules = x]
           \/ \E x : doc' = [doc EXCEPT !.final = x]
    BY <1>6 DEF DecodeRule, WithRule
  <2>2. doc'.nodes = doc.nodes /\ DOMAIN doc' = DOMAIN doc
    BY <1>1, <2>1
  <2> QED BY <1>1, <2>1, <2>2, SameProxies
<1>7. CASE Validate
  <2>1. CASE Refuse
    BY <1>2, <1>7, <2>1 DEF Validate
  <2>2. CASE ~Refuse
    <3>1. /\ pc = "rules" /\ pc' \in {"patch", "done"} /\ next' = 0
          /\ UNCHANGED <<config, item, resolved, members, doc>>
      BY <1>7, <2>2 DEF Validate, Turn
    <3> QED BY <1>1, <3>1, SameProxies
  <2> QED BY <2>1, <2>2
<1>8. CASE MakePatch
  <2>1. CASE Refuse
    BY <1>2, <1>8, <2>1 DEF MakePatch
  <2>2. CASE ~Refuse
    <3>1. pc = "patch" /\ pc' = "done" /\ UNCHANGED <<config, item, resolved, members, doc, next>>
      BY <1>8, <2>2 DEF MakePatch
    <3> QED BY <1>1, <3>1, SameProxies
  <2> QED BY <2>1, <2>2
<1>9. CASE Turn("groups", Len(config.groups), "dns") \/ Turn("sets", Len(config.ruleProviders), "rules")
  <2>1. /\ pc \in AfterMembers /\ pc' \in AfterMembers /\ next' = 0
        /\ UNCHANGED <<config, item, resolved, members, doc>>
    BY <1>9 DEF Turn
  <2> QED BY <1>1, <2>1, SameProxies
<1> QED BY <1>2, <1>3, <1>4, <1>5, <1>6, <1>7, <1>8, <1>9

LEMMA StepProxy == ProxyInv /\ [Next]_vars => ProxyInv'
<1> SUFFICES ASSUME ProxyInv, [Next]_vars PROVE ProxyInv'
  OBVIOUS
<1>1. CASE Start
  <2>1. CASE Refuse
    BY <1>1, <2>1, LaterStep DEF Start
  <2>2. CASE ~Refuse
    <3>1. /\ pc = "start" /\ pc' = "proxies" /\ next' = 0
          /\ UNCHANGED <<config, item, resolved, members, doc>>
      BY <1>1, <2>2 DEF Start, Turn
    <3>2. doc.nodes = <<>> /\ IsList(config.proxies)
      BY <3>1, ConfigLists DEF ProxyInv
    <3>3. 0 \in 0 .. Len(config.proxies)
      BY <3>2, ListFacts
    <3>4. SubSeq(config.proxies, 1, 0) = <<>>
      BY <3>2, <3>3, PrefixIsList
    <3>5. NodesFrom(doc'.nodes, SubSeq(config'.proxies, 1, next')) /\ next' \in 0 .. Len(config'.proxies)
      BY <3>1, <3>2, <3>3, <3>4, NoNodes
    <3> QED BY <3>1, <3>5 DEF ProxyInv, AfterMembers
  <2> QED BY <2>1, <2>2
<1>2. CASE ResolveProvider
  <2>1. CASE Refuse
    BY <1>2, <2>1, LaterStep DEF ResolveProvider
  <2> QED BY <1>2, <2>1, ResolveStep
<1>3. CASE Finished \/ UNCHANGED vars
  <2>1. UNCHANGED vars
    BY <1>3 DEF Finished
  <2>2. next' \in Nat
    BY <2>1 DEF ProxyInv, vars
  <2> QED BY <2>1, <2>2, SameProxies DEF vars
<1> QED
  BY <1>1, <1>2, <1>3, ProxyStep, AllProxies, ProvidersResolved, ProvidedStep, ProviderStep,
     ProvidersDone, LaterStep
  DEF Next

\* What the composition adds to the steps of the decoder.
LEMMA PipelineSteps ==
    [PipelineNext]_<<vars, handed, encoderVars>> =>
        \/ [Next]_vars
        \/ Refuse /\ pc = "done"
BY DEF PipelineNext, Decode, HandOver, Apply

LEMMA StepPipelineProxy ==
    ProxyInv /\ [PipelineNext]_<<vars, handed, encoderVars>> => ProxyInv'
BY StepProxy, LaterStep, PipelineSteps

\* appendProxy and the order of its calls: proxies of the configuration come before
\* those of providers, and providers in the order of their names.
THEOREM FirstDefinitionsWin == Pipeline => []FirstDefinitionWins
<1>1. PipelineInit => ProxyInv
  BY InitProxy DEF PipelineInit
<1>2. ProxyInv /\ NodesNamedOnce => FirstDefinitionWins
  <2> SUFFICES ASSUME ProxyInv, NodesNamedOnce, pc = "done"
               PROVE  /\ NodesNamedOnce
                      /\ Names(doc.nodes) = UsableNames(Definitions)
                      /\ \A i \in 1 .. Len(doc.nodes) :
                            {doc.nodes[i]} = FirstGiven(Definitions,
                                LAMBDA p : IF Usable(p) /\ p.name = doc.nodes[i].name THEN {p} ELSE {})
    BY DEF FirstDefinitionWins
  <2>1. NodesFrom(doc.nodes, HandledIn(config, resolved, Len(resolved), 0))
    BY DEF ProxyInv, AfterMembers, Provided, Providing
  <2>2. NodesFrom(doc.nodes, Definitions)
    BY <2>1 DEF HandledIn, DefsIn, Definitions, DefinitionsTo
  <2>3. \A n : FirstGiven(Definitions, LAMBDA p : IF Usable(p) /\ p.name = n THEN {p} ELSE {})
                  = N!First(n, Definitions)
    BY DEF FirstGiven, N!First, UsableAs, SelectInSeq, N!SelectInSeq, Min, N!Min
  <2> QED BY <2>2, <2>3 DEF NodesFrom
<1> QED BY <1>1, <1>2, StepPipelineProxy, NodesAreNamedOnce, PTL DEF Pipeline

--------------------------------------------------------------------------------
(* The members of groups. *)

NoName == ""

Once(p, kept, n) == IF n \in {p} \cup Range(kept) THEN kept ELSE Append(kept, n)
OnceOf(p, base, s, k, kept) == IsList(kept) /\ Range(kept) = {s[i] : i \in 1 .. k} \ {p}

Q == INSTANCE FoldInduction WITH Op <- Once, J <- OnceOf

\* uniqueStrings leaves out the empty name and what was there before.
LEMMA UniqueItems ==
    ASSUME NEW names, IsList(names)
    PROVE  IsList(Unique(names)) /\ Range(Unique(names)) = Range(names) \ {NoName}
<1> DEFINE k == Len(names)
<1>1. k \in Nat /\ DOMAIN names = 1 .. k /\ Range(names) = {names[i] : i \in 1 .. k}
  BY ListFacts
<1>2. Unique(names) = Q!Fold(NoName, <<>>, names)
  BY DEF Unique, FoldLeft, MapThenFoldSet, Max, Q!Fold, Once, NoName
<1> HIDE DEF k
<1>3. OnceOf(NoName, <<>>, names, 0, <<>>)
  BY EmptyFacts DEF OnceOf
<1>4. ASSUME NEW i \in 1 .. k, NEW kept, OnceOf(NoName, <<>>, names, i - 1, kept)
      PROVE  OnceOf(NoName, <<>>, names, i, Once(NoName, kept, names[i]))
  <2>1. \A j : j \in 1 .. i <=> j \in 1 .. i - 1 \/ j = i
    BY <1>1
  <2>2. IsList(kept) /\ Range(kept) = {names[j] : j \in 1 .. i - 1} \ {NoName}
    BY <1>4 DEF OnceOf
  <2>3. {names[j] : j \in 1 .. i} = {names[j] : j \in 1 .. i - 1} \cup {names[i]}
    BY <2>1
  <2>4. IsList(Append(kept, names[i])) /\ Range(Append(kept, names[i])) = Range(kept) \cup {names[i]}
    BY <2>2, AppendFacts
  <2>5. CASE names[i] \in {NoName} \cup Range(kept)
    BY <2>2, <2>3, <2>5 DEF Once, OnceOf
  <2>6. CASE names[i] \notin {NoName} \cup Range(kept)
    BY <2>2, <2>3, <2>4, <2>6 DEF Once, OnceOf
  <2> QED BY <2>5, <2>6
<1>5. OnceOf(NoName, <<>>, names, k, Q!Fold(NoName, <<>>, names))
  BY <1>1, <1>3, <1>4, Q!FoldKeeps
<1> QED BY <1>1, <1>2, <1>5 DEF OnceOf

Through(S, s) == Selected(s, LAMBDA n : n \in S)

LEMMA ThroughItems ==
    ASSUME NEW S, NEW s, IsList(s)
    PROVE  IsList(Through(S, s)) /\ Range(Through(S, s)) = Range(s) \cap S
<1> DEFINE those == {n \in Range(s) : n \in S}
<1>1. those = Range(s) \cap S
  OBVIOUS
<1>2. Through(S, s) = Picked(those, s)
  BY DEF Through, Selected
<1> HIDE DEF those
<1> QED BY <1>1, <1>2, PickedFacts

IndexIn(c, provider) == SelectInSeq(c.providers, LAMBDA p : p.name = provider)

LEMMA IndexIsPlace ==
    ASSUME NEW c, IsList(c.providers), NEW provider, IndexIn(c, provider) # 0
    PROVE  IndexIn(c, provider) \in 1 .. Len(c.providers)
<1> DEFINE n == Len(c.providers)
           I == {i \in 1 .. n : c.providers[i].name = provider}
<1>1. n \in Nat
  BY ListFacts
<1>2. IndexIn(c, provider) = IF I = {} THEN 0 ELSE CHOOSE i \in I : \A j \in I : i <= j
  BY DEF IndexIn, SelectInSeq, Min
<1> HIDE DEF n
<1>3. \E i \in I : \A j \in I : i <= j
  BY <1>1, <1>2, N!Extremes
<1> QED BY <1>2, <1>3 DEF n

\* What the providers of a group brought of the names in m.
LetThroughIn(c, m, group) ==
    [i \in 1 .. Len(group.use) |-> Through(group.passes, m[IndexIn(c, group.use[i])])]
MembersIn(c, m, group) == Unique(group.proxies \o Chained(LetThroughIn(c, m, group)))

WantedIn(c, r, group) ==
    (Range(group.proxies)
        \cup ((UNION {BroughtIn(c, r, IndexIn(c, group.use[i])) : i \in 1 .. Len(group.use)})
                  \cap group.passes)) \ {NoName}

LEMMA MembersWanted ==
    ASSUME NEW c, NEW r, NEW m, NEW group, IsList(c.providers), IsList(group.proxies),
           IsList(group.use), MembersMade(c, r, m, Len(c.providers)),
           \A i \in 1 .. Len(group.use) : IndexIn(c, group.use[i]) # 0
    PROVE  IsList(MembersIn(c, m, group)) /\ Range(MembersIn(c, m, group)) = WantedIn(c, r, group)
<1> DEFINE n == Len(group.use)
           at(i) == IndexIn(c, group.use[i])
           s == LetThroughIn(c, m, group)
           brought == UNION {BroughtIn(c, r, at(i)) : i \in 1 .. n}
<1>1. n \in Nat
  BY ListFacts
<1>2. \A i \in 1 .. n : IsList(m[at(i)]) /\ Range(m[at(i)]) = BroughtIn(c, r, at(i))
  BY IndexIsPlace DEF MembersMade
<1>3. \A i \in 1 .. n : IsList(s[i]) /\ Range(s[i]) = BroughtIn(c, r, at(i)) \cap group.passes
  <2> SUFFICES ASSUME NEW i \in 1 .. n
               PROVE  IsList(s[i]) /\ Range(s[i]) = BroughtIn(c, r, at(i)) \cap group.passes
    OBVIOUS
  <2>1. s[i] = Through(group.passes, m[at(i)])
    BY DEF LetThroughIn
  <2> QED BY <1>2, <2>1, ThroughItems
<1>4. IsList(s) /\ Len(s) = n
  <2>1. s = [i \in 1 .. n |-> s[i]]
    BY DEF LetThroughIn
  <2> HIDE DEF s, n
  <2> QED BY <1>1, <2>1, FunctionIsList
<1> HIDE DEF s, n, at
<1>5. IsList(Chained(s)) /\ Range(Chained(s)) = UNION {Range(s[i]) : i \in 1 .. n}
  BY <1>3, <1>4, SameOperators, N!ChainedItems
<1>6. Range(Chained(s)) = brought \cap group.passes
  BY <1>3, <1>5
<1> DEFINE all == group.proxies \o Chained(s)
<1>7. IsList(all) /\ Range(all) = Range(group.proxies) \cup (brought \cap group.passes)
  BY <1>5, <1>6, ConcatFacts
<1> HIDE DEF all
<1>8. IsList(Unique(all)) /\ Range(Unique(all)) = Range(all) \ {NoName}
  BY <1>7, UniqueItems
<1> QED BY <1>7, <1>8 DEF MembersIn, WantedIn, all, s, n, at

\* The groups of the document have the members that those in chosen want.
MembersAre(c, r, groups, chosen) ==
    /\ IsList(groups) /\ Len(groups) = Len(chosen)
    /\ \A i \in 1 .. Len(groups) :
          IsList(groups[i].members) /\ Range(groups[i].members) = WantedIn(c, r, chosen[i])

\* The first n groups, without those that are left out.
GroupsOf(c, n) ==
    Picked({group \in Range(c.groups) : Recognized(group)}, SubSeq(c.groups, 1, n))

LEMMA GroupsGrow ==
    ASSUME NEW c, IsList(c.groups), NEW n \in 0 .. Len(c.groups)
    PROVE  /\ IsList(GroupsOf(c, n))
           /\ n = 0 => GroupsOf(c, n) = <<>>
           /\ n # Len(c.groups) => GroupsOf(c, n + 1) =
                 IF Recognized(c.groups[n + 1])
                 THEN Append(GroupsOf(c, n), c.groups[n + 1]) ELSE GroupsOf(c, n)
<1> DEFINE those == {group \in Range(c.groups) : Recognized(group)}
           x == c.groups[n + 1]
<1> HIDE DEF those
<1>1. IsList(Picked(those, SubSeq(c.groups, 1, n)))
  BY PrefixIsList, PickedFacts
<1>2. n = 0 => Picked(those, SubSeq(c.groups, 1, n)) = <<>>
  BY PrefixIsList, SameOperators, N!PickedEmpty
<1>3. n # Len(c.groups) =>
         /\ x \in Range(c.groups)
         /\ Picked(those, SubSeq(c.groups, 1, n + 1)) =
               IF x \in those THEN Append(Picked(those, SubSeq(c.groups, 1, n)), x)
               ELSE Picked(those, SubSeq(c.groups, 1, n))
  BY PickedGrows
<1>4. x \in Range(c.groups) => (x \in those <=> Recognized(x))
  BY DEF those
<1> HIDE DEF x
<1>5. \A k : GroupsOf(c, k) = Picked(those, SubSeq(c.groups, 1, k))
  BY DEF GroupsOf, those
<1> QED BY <1>1, <1>2, <1>3, <1>4, <1>5 DEF x

LEMMA OneMoreGroup ==
    ASSUME NEW c, NEW r, NEW groups, NEW chosen, IsList(chosen), MembersAre(c, r, groups, chosen),
           NEW x, NEW group, IsList(group.members), Range(group.members) = WantedIn(c, r, x)
    PROVE  MembersAre(c, r, Append(groups, group), Append(chosen, x))
<1> DEFINE more == Append(groups, group)
           all == Append(chosen, x)
<1>1. /\ IsList(groups) /\ Len(groups) = Len(chosen)
      /\ \A i \in 1 .. Len(groups) :
            IsList(groups[i].members) /\ Range(groups[i].members) = WantedIn(c, r, chosen[i])
  BY DEF MembersAre
<1>2. /\ IsList(more) /\ Len(groups) \in Nat /\ Len(more) = Len(groups) + 1
      /\ \A i \in 1 .. Len(groups) : more[i] = groups[i]
      /\ more[Len(groups) + 1] = group
  BY <1>1, AppendFacts
<1>3. /\ Len(all) = Len(chosen) + 1
      /\ \A i \in 1 .. Len(chosen) : all[i] = chosen[i]
      /\ all[Len(chosen) + 1] = x
  BY AppendFacts
<1> HIDE DEF more, all
<1>4. \A i \in 1 .. Len(more) : i \in 1 .. Len(groups) \/ i = Len(groups) + 1
  BY <1>2
<1>5. \A i \in 1 .. Len(more) :
         IsList(more[i].members) /\ Range(more[i].members) = WantedIn(c, r, all[i])
  BY <1>1, <1>2, <1>3, <1>4
<1>6. MembersAre(c, r, more, all)
  BY <1>1, <1>2, <1>3, <1>5 DEF MembersAre
<1> QED BY <1>6 DEF more, all

BeforeGroups == {"start", "proxies", "providers", "members"}
AfterGroups == {"dns", "sets", "rules", "patch", "done"}

GroupInv ==
    /\ pc \in BeforeGroups => doc.groups = <<>>
    /\ pc = "groups" => /\ next \in 0 .. Len(config.groups)
                        /\ MembersAre(config, resolved, doc.groups, GroupsOf(config, next))
    /\ pc \in AfterGroups =>
          MembersAre(config, resolved, doc.groups, GroupsOf(config, Len(config.groups)))

LEMMA InitGroups == Init => GroupInv
BY DEF Init, DefaultDocument, GroupInv, BeforeGroups, AfterGroups

\* A step that leaves the groups alone.
LEMMA SameGroups ==
    ASSUME GroupInv, doc'.groups = doc.groups, UNCHANGED config,
           \/ pc \in BeforeGroups /\ pc' \in BeforeGroups
           \/ pc = "groups" /\ pc' = "groups" /\ UNCHANGED <<resolved, next>>
           \/ pc \in AfterGroups /\ pc' \in AfterGroups /\ UNCHANGED resolved
           \/ pc' = "failed"
    PROVE  GroupInv'
BY DEF GroupInv, BeforeGroups, AfterGroups

LEMMA RefusedGroups == ASSUME GroupInv, Refuse PROVE GroupInv'
BY SameGroups DEF Refuse

\* The group takes what its providers brought, which is known by now.
LEMMA GroupStep ==
    ASSUME GroupInv, ProxyInv, MissingInv, DecodeGroup, ~Refuse PROVE GroupInv'
<1> DEFINE c == config
           group == c.groups[next + 1]
           new == [name |-> group.name, type |-> group.type, members |-> MembersOf(group)]
<1>1. /\ pc = "groups" /\ next < Len(c.groups) /\ next' = next + 1
      /\ UNCHANGED <<config, pc, resolved, members>>
      /\ IF ~Recognized(group) THEN doc' = doc
         ELSE /\ \A i \in 1 .. Len(group.use) : Index(group.use[i]) # 0
              /\ doc' = [doc EXCEPT !.groups = Append(doc.groups, new)]
  BY DEF DecodeGroup
<1>2. /\ IsList(c.providers) /\ IsList(c.groups)
      /\ \A g \in Range(c.groups) : IsList(g.proxies) /\ IsList(g.use)
  BY ConfigsAssumption DEF ProxyInv
<1>3. /\ next \in 0 .. Len(c.groups)
      /\ MembersAre(c, resolved, doc.groups, GroupsOf(c, next))
  BY <1>1 DEF GroupInv
<1>4. next # Len(c.groups) /\ next + 1 \in 1 .. Len(c.groups) /\ next + 1 \in 0 .. Len(c.groups)
  BY <1>1, <1>2, <1>3, ListFacts
<1>5. IsList(group.proxies) /\ IsList(group.use)
  <2>1. group \in Range(c.groups)
    BY <1>2, <1>4, ListFacts
  <2> QED BY <1>2, <2>1
<1>6. MembersMade(c, resolved, members, Len(c.providers))
  <2>1. Provided(c, resolved, members, doc.nodes)
    BY <1>1 DEF ProxyInv, AfterMembers
  <2>2. Len(resolved) = Len(c.providers)
    BY <1>1 DEF MissingInv, AfterProviders
  <2> QED BY <2>1, <2>2 DEF Provided, Providing
<1>7. MembersOf(group) = MembersIn(c, members, group)
  BY DEF MembersOf, MembersIn, LetThroughIn, Through, Selected, Index, IndexIn
<1>8. /\ IsList(GroupsOf(c, next))
      /\ GroupsOf(c, next + 1) =
            IF Recognized(group) THEN Append(GroupsOf(c, next), group) ELSE GroupsOf(c, next)
  BY <1>2, <1>3, <1>4, GroupsGrow
<1>9. MembersAre(c, resolved, doc'.groups, GroupsOf(c, next + 1))
  <2>1. CASE ~Recognized(group)
    BY <1>1, <1>3, <1>8, <2>1
  <2>2. CASE Recognized(group)
    <3>1. \A i \in 1 .. Len(group.use) : IndexIn(c, group.use[i]) # 0
      BY <1>1, <2>2 DEF Index, IndexIn
    <3>2. IsList(new.members) /\ Range(new.members) = WantedIn(c, resolved, group)
      <4>1. /\ IsList(MembersIn(c, members, group))
            /\ Range(MembersIn(c, members, group)) = WantedIn(c, resolved, group)
        BY <1>2, <1>5, <1>6, <3>1, MembersWanted
      <4> QED BY <1>7, <4>1
    <3>3. doc'.groups = Append(doc.groups, new)
      <4>1. "groups" \in DOMAIN doc
        BY DEF ProxyInv, Sections, DefaultDocument
      <4> HIDE DEF new
      <4> QED BY <1>1, <2>2, <4>1
    <3> HIDE DEF new, group
    <3>4. MembersAre(c, resolved, Append(doc.groups, new), Append(GroupsOf(c, next), group))
      BY <1>3, <1>8, <3>2, OneMoreGroup
    <3> QED BY <1>8, <2>2, <3>3, <3>4
  <2> QED BY <2>1, <2>2
<1>10. MembersAre(config', resolved', doc'.groups, GroupsOf(config', next'))
  BY <1>1, <1>9
<1>11. GroupsOf(config', next') = GroupsOf(config, next)'
  BY DEF GroupsOf
<1> QED BY <1>1, <1>4, <1>10 DEF GroupInv, BeforeGroups, AfterGroups

LEMMA StepGroups == GroupInv /\ ProxyInv /\ MissingInv /\ [Next]_vars => GroupInv'
<1> SUFFICES ASSUME GroupInv, ProxyInv, MissingInv, [Next]_vars PROVE GroupInv'
  OBVIOUS
<1> USE DEF BeforeGroups, AfterGroups
<1>1. "groups" \in DOMAIN doc /\ IsList(config.groups)
  BY ConfigLists DEF ProxyInv, Sections, DefaultDocument
<1>2. CASE DecodeGroup
  BY <1>2, GroupStep, RefusedGroups
<1>3. CASE Turn("members", Len(resolved), "groups")
  <2>1. /\ pc = "members" /\ pc' = "groups" /\ next' = 0 /\ UNCHANGED <<config, resolved, doc>>
    BY <1>3 DEF Turn
  <2>2. 0 \in 0 .. Len(config.groups)
    BY <1>1, ListFacts
  <2>3. GroupsOf(config, 0) = <<>> /\ doc.groups = <<>>
    BY <1>1, <2>1, <2>2, GroupsGrow DEF GroupInv
  <2>4. MembersAre(config, resolved, <<>>, <<>>)
    <3>1. \A i \in 1 .. Len(<<>>) : FALSE
      BY EmptyFacts
    <3> QED BY <3>1, EmptyFacts DEF MembersAre
  <2>5. MembersAre(config', resolved', doc'.groups, GroupsOf(config', next'))
        /\ next' \in 0 .. Len(config'.groups)
    BY <2>1, <2>2, <2>3, <2>4
  <2> QED BY <2>1, <2>5 DEF GroupInv
<1>4. CASE Turn("groups", Len(config.groups), "dns")
  <2>1. /\ pc = "groups" /\ next = Len(config.groups) /\ pc' = "dns"
        /\ UNCHANGED <<config, resolved, doc>>
    BY <1>4 DEF Turn
  <2> QED BY <2>1 DEF GroupInv
<1>5. CASE DecodeProxy \/ DecodeProvided \/ EndOfProvider \/ ResolveProvider \/ Start
           \/ Turn("proxies", Len(config.proxies), "providers")
           \/ Turn("providers", Len(config.providers), "members")
  <2>1. CASE Refuse
    BY <2>1, RefusedGroups
  <2>2. CASE ~Refuse
    <3>1. /\ pc \in BeforeGroups /\ pc' \in BeforeGroups /\ UNCHANGED config
          /\ doc' = doc \/ \E x : doc' = [doc EXCEPT !.nodes = x]
      BY <1>5, <2>2
      DEF DecodeProxy, DecodeProvided, EndOfProvider, ResolveProvider, Start, Turn, AppendProxy
    <3>2. doc'.groups = doc.groups
      BY <1>1, <3>1
    <3> QED BY <3>1, <3>2, SameGroups
  <2> QED BY <2>1, <2>2
<1>6. CASE DecodeDNS \/ ResolveRuleProvider \/ DecodeRule \/ Validate \/ MakePatch
           \/ Turn("sets", Len(config.ruleProviders), "rules")
  <2>1. CASE Refuse
    BY <2>1, RefusedGroups
  <2>2. CASE ~Refuse
    <3>1. /\ pc \in AfterGroups /\ pc' \in AfterGroups /\ UNCHANGED <<config, resolved>>
          /\ \/ doc' = doc
             \/ \E x, y : doc' = [doc EXCEPT !.dns = x, !.resolver = y]
             \/ \E x : doc' = [doc EXCEPT !.ruleSets = x]
             \/ \E x : doc' = [doc EXCEPT !.final = x]
             \/ \E x : doc' = [doc EXCEPT !.rules = x]
      BY <1>6, <2>2
      DEF DecodeDNS, ResolveRuleProvider, DecodeRule, WithRule, Validate, MakePatch, Turn
    <3>2. doc'.groups = doc.groups
      BY <1>1, <3>1
    <3> QED BY <3>1, <3>2, SameGroups
  <2> QED BY <2>1, <2>2
<1>7. CASE Finished \/ UNCHANGED vars
  <2>1. UNCHANGED vars
    BY <1>7 DEF Finished
  <2> QED BY <2>1 DEF GroupInv, vars
<1> QED BY <1>2, <1>3, <1>4, <1>5, <1>6, <1>7 DEF Next

LEMMA StepPipelineGroups ==
    GroupInv /\ ProxyInv /\ MissingInv /\ [PipelineNext]_<<vars, handed, encoderVars>> => GroupInv'
BY StepGroups, RefusedGroups, PipelineSteps

LEMMA StepPipelineMissing ==
    MissingInv /\ [PipelineNext]_<<vars, handed, encoderVars>> => MissingInv'
BY StepMissing, RefusedMissing, PipelineSteps

\* decodeClashGroup with a use list: all providers are read before the first group,
\* and what a provider brought is known by its index.
THEOREM MembersAreProvided == Pipeline => []ProvidedMembers
<1>1. PipelineInit => GroupInv /\ ProxyInv /\ MissingInv
  BY InitGroups, InitProxy, InitMissing DEF PipelineInit
<1>2. GroupInv /\ ProxyInv => ProvidedMembers
  <2> SUFFICES ASSUME GroupInv, ProxyInv, pc = "done", NEW i \in 1 .. Len(doc.groups)
               PROVE  LET given == Selected(config.groups, LAMBDA group : Recognized(group))[i]
                          used == {Index(given.use[j]) : j \in 1 .. Len(given.use)}
                          brought(k) == UsableNames(resolved[k]) \ UsableNames(DefinitionsTo(k - 1))
                      IN  Range(doc.groups[i].members) =
                              (Range(given.proxies)
                                  \cup ((UNION {brought(k) : k \in used}) \cap given.passes))
                              \ {""}
    BY DEF ProvidedMembers
  <2> DEFINE chosen == Selected(config.groups, LAMBDA group : Recognized(group))
             given == chosen[i]
  <2>1. IsList(config.groups) /\ Len(config.groups) \in 0 .. Len(config.groups)
    <3>1. IsList(config.groups)
      BY ConfigLists DEF ProxyInv
    <3> QED BY <3>1, ListFacts
  <2>2. SubSeq(config.groups, 1, Len(config.groups)) = config.groups
    BY <2>1, PrefixIsList
  <2>3. chosen = GroupsOf(config, Len(config.groups))
    BY <2>2 DEF GroupsOf, Selected
  <2>4. Range(doc.groups[i].members) = WantedIn(config, resolved, given)
    BY <2>3 DEF GroupInv, AfterGroups, MembersAre
  <2> HIDE DEF chosen
  <2> DEFINE used == {Index(given.use[j]) : j \in 1 .. Len(given.use)}
             brought(k) == UsableNames(resolved[k]) \ UsableNames(DefinitionsTo(k - 1))
  <2>5. \A k : brought(k) = BroughtIn(config, resolved, k)
    BY DEF BroughtIn, DefsIn, DefinitionsTo
  <2>6. \A j : Index(given.use[j]) = IndexIn(config, given.use[j])
    BY DEF Index, IndexIn
  <2> HIDE DEF brought
  <2>7. UNION {brought(k) : k \in used}
            = UNION {BroughtIn(config, resolved, IndexIn(config, given.use[j])) :
                        j \in 1 .. Len(given.use)}
    BY <2>5, <2>6
  <2>8. Range(doc.groups[i].members) =
            (Range(given.proxies) \cup ((UNION {brought(k) : k \in used}) \cap given.passes))
            \ {NoName}
    BY <2>4, <2>7 DEF WantedIn
  <2> QED BY <2>8 DEF NoName, brought, chosen
<1> QED
  BY <1>1, <1>2, StepPipelineProxy, StepPipelineMissing, StepPipelineGroups, PTL DEF Pipeline

--------------------------------------------------------------------------------
(* The rules of a patch. *)

KindTo(c, kind, n) == Picked({rule \in Range(c.rules) : rule.kind = kind}, SubSeq(c.rules, 1, n))

\* Each of the first n rules is a rule of the document, a MATCH or invalid, and
\* the final policy is that of a MATCH.
RulesTaken(c, rules, policy, n) ==
    /\ IsList(rules)
    /\ Len(rules) + Len(KindTo(c, "match", n)) + Len(KindTo(c, "invalid", n)) = n
    /\ KindTo(c, "match", n) # <<>> =>
          \E i \in 1 .. n : c.rules[i].kind = "match" /\ c.rules[i].target = policy

LEMMA KindGrows ==
    ASSUME NEW c, IsList(c.rules), NEW kind, NEW n \in 0 .. Len(c.rules)
    PROVE  /\ Len(KindTo(c, kind, n)) \in Nat
           /\ n = 0 => KindTo(c, kind, n) = <<>>
           /\ n # Len(c.rules) =>
                 /\ KindTo(c, kind, n + 1) =
                       IF c.rules[n + 1].kind = kind
                       THEN Append(KindTo(c, kind, n), c.rules[n + 1]) ELSE KindTo(c, kind, n)
                 /\ Len(KindTo(c, kind, n + 1)) =
                       Len(KindTo(c, kind, n)) + IF c.rules[n + 1].kind = kind THEN 1 ELSE 0
<1> DEFINE those == {rule \in Range(c.rules) : rule.kind = kind}
           x == c.rules[n + 1]
           kept == Picked(those, SubSeq(c.rules, 1, n))
<1> HIDE DEF those
<1>1. IsList(kept) /\ Len(kept) \in Nat
  BY PrefixIsList, PickedFacts
<1>2. n = 0 => kept = <<>>
  BY PrefixIsList, SameOperators, N!PickedEmpty
<1>3. n # Len(c.rules) =>
         /\ x \in Range(c.rules)
         /\ Picked(those, SubSeq(c.rules, 1, n + 1)) = IF x \in those THEN Append(kept, x) ELSE kept
  BY PickedGrows
<1>4. x \in Range(c.rules) => (x \in those <=> x.kind = kind)
  BY DEF those
<1> HIDE DEF x
<1>5. \A k : KindTo(c, kind, k) = Picked(those, SubSeq(c.rules, 1, k))
  BY DEF KindTo, those
<1>6. KindTo(c, kind, n) = kept
  BY <1>5
<1> HIDE DEF kept
<1>7. n # Len(c.rules) =>
          KindTo(c, kind, n + 1) = IF x.kind = kind THEN Append(kept, x) ELSE kept
  BY <1>3, <1>4, <1>5
<1>8. Len(Append(kept, x)) = Len(kept) + 1 /\ Len(kept) + 0 = Len(kept)
  BY <1>1, AppendFacts
<1> QED BY <1>1, <1>2, <1>6, <1>7, <1>8 DEF x

\* One more rule, of one of the three kinds.
LEMMA OneMoreRule ==
    ASSUME NEW c, IsList(c.rules), NEW n \in 0 .. Len(c.rules), n # Len(c.rules),
           NEW rules, NEW policy, RulesTaken(c, rules, policy, n),
           NEW x, x = c.rules[n + 1], NEW route, NEW more, NEW last,
           \/ x.kind = "invalid" /\ more = rules /\ last = policy
           \/ x.kind = "match" /\ more = rules /\ last = x.target
           \/ x.kind = "rule" /\ more = Append(rules, route) /\ last = policy
    PROVE  RulesTaken(c, more, last, n + 1)
<1> DEFINE m == KindTo(c, "match", n)
           v == KindTo(c, "invalid", n)
           mm == KindTo(c, "match", n + 1)
           vv == KindTo(c, "invalid", n + 1)
<1>1. /\ IsList(rules) /\ Len(rules) + Len(m) + Len(v) = n
      /\ m # <<>> => \E i \in 1 .. n : c.rules[i].kind = "match" /\ c.rules[i].target = policy
  BY DEF RulesTaken
<1>2. /\ Len(m) \in Nat
      /\ mm = IF x.kind = "match" THEN Append(m, x) ELSE m
      /\ Len(mm) = Len(m) + IF x.kind = "match" THEN 1 ELSE 0
  BY KindGrows
<1>3. /\ Len(v) \in Nat
      /\ Len(vv) = Len(v) + IF x.kind = "invalid" THEN 1 ELSE 0
  BY KindGrows
<1>4. /\ Len(rules) \in Nat /\ IsList(Append(rules, route))
      /\ Len(Append(rules, route)) = Len(rules) + 1
  BY <1>1, AppendFacts
<1>5. n \in Nat /\ n + 1 \in 1 .. n + 1 /\ \A i \in 1 .. n : i \in 1 .. n + 1
  <2>1. Len(c.rules) \in Nat
    BY ListFacts
  <2> QED BY <2>1
<1> HIDE DEF m, v, mm, vv
<1>6. /\ Len(m) \in Nat /\ Len(v) \in Nat /\ Len(rules) \in Nat /\ n \in Nat
      /\ Len(rules) + Len(m) + Len(v) = n
  BY <1>1, <1>2, <1>3, <1>4, <1>5
<1>7. IsList(more) /\ Len(more) + Len(mm) + Len(vv) = n + 1
  <2>1. CASE x.kind = "invalid"
    <3>1. IsList(more) /\ Len(more) = Len(rules) /\ Len(mm) = Len(m) + 0 /\ Len(vv) = Len(v) + 1
      BY <1>1, <1>2, <1>3, <2>1
    <3> QED BY <1>6, <3>1
  <2>2. CASE x.kind = "match"
    <3>1. IsList(more) /\ Len(more) = Len(rules) /\ Len(mm) = Len(m) + 1 /\ Len(vv) = Len(v) + 0
      BY <1>1, <1>2, <1>3, <2>2
    <3> QED BY <1>6, <3>1
  <2>3. CASE x.kind = "rule"
    <3>1. IsList(more) /\ Len(more) = Len(rules) + 1 /\ Len(mm) = Len(m) + 0 /\ Len(vv) = Len(v) + 0
      BY <1>2, <1>3, <1>4, <2>3
    <3> QED BY <1>6, <3>1
  <2> QED BY <2>1, <2>2, <2>3
<1>8. mm # <<>> => \E i \in 1 .. n + 1 : c.rules[i].kind = "match" /\ c.rules[i].target = last
  <2>1. CASE x.kind = "match"
    BY <1>5, <2>1
  <2>2. CASE x.kind # "match"
    BY <1>1, <1>2, <1>5, <2>2
  <2> QED BY <2>1, <2>2
<1> QED BY <1>7, <1>8 DEF RulesTaken, mm, vv

BeforeRules == {"start", "proxies", "providers", "members", "groups", "dns", "sets"}

Strictly(c, rules, policy) ==
    /\ Len(rules) + Cardinality(policy) = Len(c.rules)
    /\ \A f \in policy : \E i \in 1 .. Len(c.rules) :
          c.rules[i].kind = "match" /\ c.rules[i].target = f

RuleInv ==
    /\ pc \in BeforeRules => doc.rules = <<>>
    /\ pc = "rules" => /\ next \in 0 .. Len(config.rules)
                       /\ RulesTaken(config, doc.rules, doc.final, next)
    /\ pc = "patch" => RulesTaken(config, doc.rules, doc.final, Len(config.rules))
    /\ pc = "done" /\ strict => Strictly(config, patch.rules, patch.final)

LEMMA InitRules == Init => RuleInv
BY DEF Init, DefaultDocument, RuleInv, BeforeRules

LEMMA RefusedRules == ASSUME RuleInv, Refuse PROVE RuleInv'
BY DEF RuleInv, BeforeRules, Refuse

LEMMA RuleStep == ASSUME RuleInv, ProxyInv, DecodeRule PROVE RuleInv'
<1> DEFINE c == config
           rule == c.rules[next + 1]
<1>1. /\ pc = "rules" /\ next < Len(c.rules) /\ next' = next + 1 /\ UNCHANGED <<config, pc>>
      /\ \/ rule.kind = "invalid" /\ doc' = doc
         \/ rule.kind = "match" /\ doc' = [doc EXCEPT !.final = rule.target]
         \/ rule.kind = "rule" /\ doc' = [doc EXCEPT !.rules = Append(doc.rules, RouteRule(rule))]
  BY DEF DecodeRule, WithRule
<1>2. IsList(c.rules) /\ "rules" \in DOMAIN doc /\ "final" \in DOMAIN doc
  BY ConfigLists DEF ProxyInv, Sections, DefaultDocument
<1>3. next \in 0 .. Len(c.rules) /\ RulesTaken(c, doc.rules, doc.final, next)
  BY <1>1 DEF RuleInv
<1>4. next # Len(c.rules) /\ next + 1 \in 0 .. Len(c.rules)
  BY <1>1, <1>2, <1>3, ListFacts
<1> DEFINE route == RouteRule(rule)
<1> HIDE DEF route
<1>5. \/ rule.kind = "invalid" /\ doc'.rules = doc.rules /\ doc'.final = doc.final
      \/ rule.kind = "match" /\ doc'.rules = doc.rules /\ doc'.final = rule.target
      \/ rule.kind = "rule" /\ doc'.rules = Append(doc.rules, route) /\ doc'.final = doc.final
  BY <1>1, <1>2 DEF route
<1> DEFINE x == rule
<1>6. x = c.rules[next + 1]
  OBVIOUS
<1> HIDE DEF x
<1>7. RulesTaken(c, doc'.rules, doc'.final, next + 1)
  <2>1. \/ x.kind = "invalid" /\ doc'.rules = doc.rules /\ doc'.final = doc.final
        \/ x.kind = "match" /\ doc'.rules = doc.rules /\ doc'.final = x.target
        \/ x.kind = "rule" /\ doc'.rules = Append(doc.rules, route) /\ doc'.final = doc.final
    BY <1>5, <1>6
  <2> QED BY <1>2, <1>3, <1>4, <1>6, <2>1, OneMoreRule
<1>8. RulesTaken(config', doc'.rules, doc'.final, next') /\ next' \in 0 .. Len(config'.rules)
  BY <1>1, <1>4, <1>7
<1> QED BY <1>1, <1>8 DEF RuleInv, BeforeRules

\* All rules are there or none is returned.
LEMMA PatchStep == ASSUME RuleInv, ProxyInv, MakePatch, ~Refuse PROVE RuleInv'
<1> DEFINE c == config
           n == Len(c.rules)
           m == Picked({rule \in Range(c.rules) : rule.kind = "match"}, c.rules)
           v == Picked({rule \in Range(c.rules) : rule.kind = "invalid"}, c.rules)
<1>1. /\ pc = "patch" /\ pc' = "done" /\ UNCHANGED <<config, strict, next, doc>> /\ Acceptable
      /\ patch'.rules = doc.rules
      /\ patch'.final = IF Matches = <<>> THEN {} ELSE {doc.final}
  <2>1. /\ pc = "patch" /\ pc' = "done" /\ UNCHANGED <<config, strict, next, doc>> /\ Acceptable
    BY DEF MakePatch
  <2> DEFINE route == config.rules # <<>> \/ config.ruleProviders # <<>>
             section == IF config.dns.enabled THEN {doc.dns} ELSE {}
             policy == IF Matches = <<>> THEN {} ELSE {doc.final}
  <2>2. patch' = [inbounds |-> {}, nodes |-> doc.nodes, groups |-> doc.groups, dns |-> section,
                  route |-> route, rules |-> doc.rules, ruleSets |-> doc.ruleSets,
                  final |-> policy]
    BY ZenonT(30) DEF MakePatch
  <2> HIDE DEF route, section, policy
  <2>3. patch'.rules = doc.rules /\ patch'.final = policy
    BY <2>2
  <2> QED BY <2>1, <2>3 DEF policy
<1>2. IsList(c.rules) /\ n \in Nat /\ n \in 0 .. n
  <2>1. IsList(c.rules)
    BY ConfigLists DEF ProxyInv
  <2> QED BY <2>1, ListFacts
<1>3. Matches = m
  BY DEF Matches, Selected
<1>4. SubSeq(c.rules, 1, n) = c.rules
  BY <1>2, PrefixIsList
<1>5. /\ IsList(doc.rules) /\ Len(doc.rules) + Len(m) + Len(v) = n
      /\ m # <<>> => \E i \in 1 .. n : c.rules[i].kind = "match" /\ c.rules[i].target = doc.final
  <2>1. RulesTaken(c, doc.rules, doc.final, n)
    BY <1>1 DEF RuleInv
  <2> QED BY <1>4, <2>1 DEF RulesTaken, KindTo
<1>6. Len(v) = 0
  <2>1. IsList(v) /\ Len(v) \in Nat
        /\ Range(v) = Range(c.rules) \cap {x \in Range(c.rules) : x.kind = "invalid"}
    BY <1>2, PickedFacts
  <2>2. \A i \in 1 .. n : c.rules[i].kind # "invalid"
    BY <1>1 DEF Acceptable
  <2>3. Range(c.rules) = {c.rules[i] : i \in 1 .. n}
    BY <1>2, ListFacts
  <2>4. Range(v) = {}
    BY <2>1, <2>2, <2>3
  <2> HIDE DEF v
  <2>5. Range(v) = {v[i] : i \in 1 .. Len(v)}
    BY <2>1, ListFacts
  <2>6. ~(1 \in 1 .. Len(v))
    BY <2>4, <2>5
  <2> QED BY <2>1, <2>6
<1>7. Len(m) \in Nat /\ Len(m) <= 1 /\ (m = <<>> <=> Len(m) = 0)
  <2>1. IsList(m) /\ Len(m) \in Nat
    BY <1>2, PickedFacts
  <2>2. Len(m) <= 1
    BY <1>1, <1>3 DEF Acceptable
  <2> HIDE DEF m
  <2>3. m = <<>> <=> Len(m) = 0
    BY <2>1 DEF IsList
  <2> QED BY <2>1, <2>2, <2>3
<1>8. Cardinality(patch'.final) = Len(m)
  <2>1. CASE m = <<>>
    BY <1>1, <1>3, <1>7, <2>1, FS_EmptySet
  <2>2. CASE m # <<>>
    <3>1. patch'.final = {doc.final} /\ Len(m) = 1
      <4>1. patch'.final = {doc.final}
        BY <1>1, <1>3, <2>2
      <4>2. Len(m) # 0
        BY <1>7, <2>2
      <4>3. Len(m) \in Nat /\ Len(m) <= 1
        BY <1>7
      <4> HIDE DEF m
      <4>4. Len(m) = 1
        BY <4>2, <4>3
      <4> QED BY <4>1, <4>4
    <3> QED BY <3>1, FS_Singleton
  <2> QED BY <2>1, <2>2
<1> HIDE DEF m, v
<1>9. Strictly(c, patch'.rules, patch'.final)
  <2>1. Len(patch'.rules) + Cardinality(patch'.final) = n
    BY <1>1, <1>5, <1>6, <1>7, <1>8, ListFacts
  <2>2. \A f \in patch'.final : f = doc.final /\ m # <<>>
    BY <1>1, <1>3
  <2> QED BY <1>5, <2>1, <2>2 DEF Strictly
<1>10. Strictly(config', patch'.rules, patch'.final)
  BY <1>1, <1>9
<1> QED BY <1>1, <1>10 DEF RuleInv, BeforeRules

LEMMA StepRules == RuleInv /\ ProxyInv /\ [Next]_vars => RuleInv'
<1> SUFFICES ASSUME RuleInv, ProxyInv, [Next]_vars PROVE RuleInv'
  OBVIOUS
<1> USE DEF BeforeRules
<1>1. {"rules", "nodes", "groups", "dns", "resolver", "ruleSets"} \subseteq DOMAIN doc
      /\ IsList(config.rules)
  BY ConfigLists DEF ProxyInv, Sections, DefaultDocument
<1>2. CASE DecodeRule
  BY <1>2, RuleStep
<1>3. CASE MakePatch
  <2>1. Refuse => RuleInv'
    BY RefusedRules
  <2> QED BY <1>3, <2>1, PatchStep
<1>4. CASE Validate
  <2>1. CASE Refuse
    BY <2>1, RefusedRules
  <2>2. CASE ~Refuse
    <3>1. /\ pc = "rules" /\ next = Len(config.rules)
          /\ pc' = IF strict THEN "patch" ELSE "done"
          /\ UNCHANGED <<config, strict, doc>>
      BY <1>4, <2>2 DEF Validate, Turn
    <3> QED BY <3>1 DEF RuleInv
  <2> QED BY <2>1, <2>2
<1>5. CASE Turn("sets", Len(config.ruleProviders), "rules")
  <2>1. /\ pc = "sets" /\ pc' = "rules" /\ next' = 0 /\ UNCHANGED <<config, doc>>
    BY <1>5 DEF Turn
  <2>2. 0 \in 0 .. Len(config.rules)
    BY <1>1, ListFacts
  <2>3. KindTo(config, "match", 0) = <<>> /\ KindTo(config, "invalid", 0) = <<>>
    BY <1>1, <2>2, KindGrows
  <2>4. doc.rules = <<>> /\ IsList(<<>>) /\ Len(<<>>) = 0
    BY <2>1, EmptyFacts DEF RuleInv
  <2>5. RulesTaken(config, <<>>, doc.final, 0)
    BY <2>3, <2>4 DEF RulesTaken
  <2>6. RulesTaken(config', doc'.rules, doc'.final, next') /\ next' \in 0 .. Len(config'.rules)
    BY <2>1, <2>2, <2>4, <2>5
  <2> QED BY <2>1, <2>6 DEF RuleInv
<1>6. CASE DecodeProxy \/ DecodeProvided \/ EndOfProvider \/ ResolveProvider \/ Start
           \/ Turn("proxies", Len(config.proxies), "providers")
           \/ Turn("providers", Len(config.providers), "members")
           \/ Turn("members", Len(resolved), "groups") \/ DecodeGroup
           \/ Turn("groups", Len(config.groups), "dns") \/ DecodeDNS \/ ResolveRuleProvider
  <2>1. CASE Refuse
    BY <2>1, RefusedRules
  <2>2. CASE ~Refuse
    <3>1. /\ pc \in BeforeRules /\ pc' \in BeforeRules
          /\ \/ doc' = doc
             \/ \E x : doc' = [doc EXCEPT !.nodes = x]
             \/ \E x : doc' = [doc EXCEPT !.groups = x]
             \/ \E x, y : doc' = [doc EXCEPT !.dns = x, !.resolver = y]
             \/ \E x : doc' = [doc EXCEPT !.ruleSets = x]
      <4>1. CASE DecodeGroup \/ DecodeDNS \/ ResolveRuleProvider
        BY <2>2, <4>1 DEF DecodeGroup, DecodeDNS, ResolveRuleProvider
      <4>2. CASE ~(DecodeGroup \/ DecodeDNS \/ ResolveRuleProvider)
        BY <1>6, <2>2, <4>2
        DEF DecodeProxy, DecodeProvided, EndOfProvider, ResolveProvider, Start, Turn, AppendProxy
      <4> QED BY <4>1, <4>2
    <3>2. doc'.rules = doc.rules
      BY <1>1, <3>1
    <3> QED BY <3>1, <3>2 DEF RuleInv
  <2> QED BY <2>1, <2>2
<1>7. CASE Finished \/ UNCHANGED vars
  <2>1. UNCHANGED vars
    BY <1>7 DEF Finished
  <2> QED BY <2>1 DEF RuleInv, vars
<1> QED BY <1>2, <1>3, <1>4, <1>5, <1>6, <1>7 DEF Next

LEMMA StepPipelineRules ==
    RuleInv /\ ProxyInv /\ [PipelineNext]_<<vars, handed, encoderVars>> => RuleInv'
BY StepRules, RefusedRules, PipelineSteps

\* DecodePatch: what decodeClashConfig only warns about is an error in a patch.
THEOREM PatchesAreWhole == Pipeline => []PatchesAreStrict
<1>1. PipelineInit => RuleInv /\ ProxyInv
  BY InitRules, InitProxy DEF PipelineInit
<1>2. RuleInv => PatchesAreStrict
  BY DEF RuleInv, PatchesAreStrict, Strictly
<1> QED BY <1>1, <1>2, StepPipelineProxy, StepPipelineRules, PTL DEF Pipeline

--------------------------------------------------------------------------------
(* The servers of a DNS section, and their tags. *)

Fake == "fakeip"
FakeServer == Server("fakeip", "fakeip", "", FALSE)

\* The least of some indices.
LEMMA LeastIn ==
    ASSUME NEW n \in Nat, NEW I, I \subseteq 1 .. n, I # {}
    PROVE  Min(I) \in I /\ Min(I) \in 1 .. n /\ Min(I) # 0 /\ \A j \in I : Min(I) <= j
<1>1. \E k \in I : \A j \in I : k <= j
  BY N!Extremes
<1>2. Min(I) \in I /\ \A j \in I : Min(I) <= j
  BY <1>1 DEF Min
<1>3. Min(I) \in 1 .. n
  BY <1>2
<1> QED BY <1>2, <1>3

PlaceOf(servers, address) == SelectInSeq(servers, LAMBDA s : s.address = address)

LEMMA TagOfIs ==
    ASSUME NEW servers, NEW address
    PROVE  TagOf(servers, address) =
              IF PlaceOf(servers, address) = 0 THEN NoName
              ELSE servers[PlaceOf(servers, address)].tag
BY DEF TagOf, PlaceOf, NoName

\* Either no server has the address, or the tag is that of one that has it.
LEMMA TagOfPlace ==
    ASSUME NEW servers, IsList(servers), NEW address
    PROVE  \/ /\ \A i \in 1 .. Len(servers) : servers[i].address # address
              /\ TagOf(servers, address) = NoName
           \/ \E i \in 1 .. Len(servers) :
                 servers[i].address = address /\ TagOf(servers, address) = servers[i].tag
<1> DEFINE I == {i \in 1 .. Len(servers) : servers[i].address = address}
<1>1. PlaceOf(servers, address) = IF I # {} THEN Min(I) ELSE 0
  BY DEF PlaceOf, SelectInSeq
<1>2. CASE I = {}
  <2>1. PlaceOf(servers, address) = 0
    BY <1>1, <1>2
  <2>2. \A i \in 1 .. Len(servers) : servers[i].address # address
    BY <1>2
  <2> QED BY <2>1, <2>2, TagOfIs
<1>3. CASE I # {}
  <2>1. Len(servers) \in Nat /\ I \subseteq 1 .. Len(servers)
    BY ListFacts
  <2> HIDE DEF I
  <2>2. Min(I) \in I /\ Min(I) # 0
    BY <1>3, <2>1, LeastIn
  <2>3. PlaceOf(servers, address) \in I /\ PlaceOf(servers, address) # 0
    BY <1>1, <1>3, <2>2
  <2>4. /\ PlaceOf(servers, address) \in 1 .. Len(servers)
        /\ servers[PlaceOf(servers, address)].address = address
    BY <2>3 DEF I
  <2> QED BY <2>3, <2>4, TagOfIs
<1> QED BY <1>2, <1>3

\* One of the servers has the address and the tag.
Serves(servers, address, tag) ==
    \E i \in 1 .. Len(servers) : servers[i].address = address /\ tag = DnsTag(i)

HasDetour(server) == {"tag", "detour"} \subseteq DOMAIN server

\* Every server is named by its place, and every usable address has one.
ServersMade(p, base, s, n, r) ==
    /\ IsList(r)
    /\ \A i \in 1 .. Len(r) : r[i].tag = DnsTag(i) /\ HasDetour(r[i])
    /\ \A j \in 1 .. n : s[j].usable => \E i \in 1 .. Len(r) : r[i].address = s[j].address

Adding(p, r, x) == AddServer(r, x)

V == INSTANCE FoldInduction WITH Op <- Adding, J <- ServersMade

LEMMA AddServerIs ==
    ASSUME NEW r, NEW raw
    PROVE  \/ (~raw.usable \/ TagOf(r, raw.address) # NoName) /\ AddServer(r, raw) = r
           \/ /\ raw.usable /\ TagOf(r, raw.address) = NoName
              /\ \E x : /\ AddServer(r, raw) = Append(r, x)
                        /\ x.tag = DnsTag(Len(r) + 1) /\ x.address = raw.address
                        /\ HasDetour(x)
<1> DEFINE x == Server(DnsTag(Len(r) + 1), raw.address, "", raw.named)
<1>1. x.tag = DnsTag(Len(r) + 1) /\ x.address = raw.address /\ HasDetour(x)
  BY DEF Server, HasDetour
<1> HIDE DEF x
<1>2. AddServer(r, raw) = IF ~raw.usable \/ TagOf(r, raw.address) # NoName THEN r ELSE Append(r, x)
  BY DEF AddServer, NoName, x
<1> QED BY <1>1, <1>2

\* One more server given: its address has a server already, or gets one.
LEMMA ServersStep ==
    ASSUME NEW s, NEW n \in Nat, NEW r, ServersMade(0, <<>>, s, n, r), NEW raw, raw = s[n + 1]
    PROVE  ServersMade(0, <<>>, s, n + 1, AddServer(r, raw))
<1>1. /\ IsList(r) /\ \A i \in 1 .. Len(r) : r[i].tag = DnsTag(i) /\ HasDetour(r[i])
      /\ \A j \in 1 .. n : s[j].usable => \E i \in 1 .. Len(r) : r[i].address = s[j].address
  BY DEF ServersMade
<1>2. \A j : j \in 1 .. n + 1 <=> j \in 1 .. n \/ j = n + 1
  OBVIOUS
<1>3. CASE (~raw.usable \/ TagOf(r, raw.address) # NoName) /\ AddServer(r, raw) = r
  <2>1. raw.usable => \E i \in 1 .. Len(r) : r[i].address = raw.address
    BY <1>1, <1>3, TagOfPlace
  <2> QED BY <1>1, <1>2, <1>3, <2>1 DEF ServersMade
<1>4. CASE \E x : AddServer(r, raw) = Append(r, x) /\ x.tag = DnsTag(Len(r) + 1)
                  /\ x.address = raw.address /\ HasDetour(x)
  <2>1. PICK x : AddServer(r, raw) = Append(r, x) /\ x.tag = DnsTag(Len(r) + 1)
                 /\ x.address = raw.address /\ HasDetour(x)
    BY <1>4
  <2> DEFINE t == Append(r, x)
  <2>2. /\ IsList(t) /\ Len(r) \in Nat /\ Len(t) = Len(r) + 1
        /\ \A i \in 1 .. Len(r) : t[i] = r[i]
        /\ t[Len(r) + 1] = x
    BY <1>1, AppendFacts
  <2> HIDE DEF t
  <2>3. \A i : i \in 1 .. Len(t) <=> i \in 1 .. Len(r) \/ i = Len(r) + 1
    BY <2>2
  <2>4. \A i \in 1 .. Len(t) : t[i].tag = DnsTag(i) /\ HasDetour(t[i])
    BY <1>1, <2>1, <2>2, <2>3
  <2>5. ASSUME NEW j \in 1 .. n + 1, s[j].usable
        PROVE  \E i \in 1 .. Len(t) : t[i].address = s[j].address
    <3>1. CASE j = n + 1
      BY <2>1, <2>2, <2>3, <3>1
    <3>2. CASE j \in 1 .. n
      BY <1>1, <2>2, <2>3, <2>5, <3>2
    <3> QED BY <1>2, <3>1, <3>2
  <2>6. ServersMade(0, <<>>, s, n + 1, t)
    BY <2>2, <2>4, <2>5 DEF ServersMade
  <2> QED BY <2>1, <2>6 DEF t
<1> QED BY <1>3, <1>4, AddServerIs

\* All servers of a list that can be used are added, each named by its place.
LEMMA ServersFrom ==
    ASSUME NEW s, IsList(s)
    PROVE  ServersMade(0, <<>>, s, Len(s), FoldLeft(AddServer, <<>>, s))
<1> DEFINE k == Len(s)
<1>1. k \in Nat /\ DOMAIN s = 1 .. k
  BY ListFacts
<1>2. FoldLeft(AddServer, <<>>, s) = V!Fold(0, <<>>, s)
  BY DEF FoldLeft, MapThenFoldSet, Max, V!Fold, Adding
<1> HIDE DEF k
<1>3. ServersMade(0, <<>>, s, 0, <<>>)
  BY EmptyFacts DEF ServersMade
<1>4. ASSUME NEW i \in 1 .. k, NEW r, ServersMade(0, <<>>, s, i - 1, r)
      PROVE  ServersMade(0, <<>>, s, i, Adding(0, r, s[i]))
  <2>1. i - 1 \in Nat /\ (i - 1) + 1 = i
    BY <1>1
  <2>2. ServersMade(0, <<>>, s, (i - 1) + 1, AddServer(r, s[i]))
    BY <1>4, <2>1, ServersStep
  <2> QED BY <2>1, <2>2 DEF Adding
<1>5. ServersMade(0, <<>>, s, k, V!Fold(0, <<>>, s))
  BY <1>1, <1>3, <1>4, V!FoldKeeps
<1> QED BY <1>2, <1>5 DEF k

\* All name servers that the section lists are given; of a policy the first is.
LEMMA GivenAre ==
    ASSUME NEW section, DnsLists(section)
    PROVE  /\ IsList(Policies(section)) /\ IsList(Given(section))
           /\ \A p \in Range(Policies(section)) :
                 p \in Range(section.policies) /\ p.servers # <<>>
           /\ Range(section.nameservers) \subseteq Range(Given(section))
           /\ Range(section.proxies) \subseteq Range(Given(section))
           /\ Range(section.directs) \subseteq Range(Given(section))
           /\ Range(section.fallback) \subseteq Range(Given(section))
           /\ \A p \in Range(Policies(section)) : p.servers[1] \in Range(Given(section))
<1> DEFINE policies == Policies(section)
           n == Len(policies)
           heads == [i \in 1 .. n |-> policies[i].servers[1]]
           a == section.nameservers \o section.defaults
           b == a \o section.proxies
           d == b \o section.directs
           e == d \o heads
<1>1. IsList(policies) /\ \A p \in Range(policies) : p \in Range(section.policies) /\ p.servers # <<>>
  <2> DEFINE those == {p \in Range(section.policies) : p.servers # <<>>}
  <2>1. policies = Picked(those, section.policies)
    BY DEF Policies, Selected
  <2>2. \A p \in those : p \in Range(section.policies) /\ p.servers # <<>>
    OBVIOUS
  <2> HIDE DEF those, policies
  <2>3. IsList(policies) /\ Range(policies) = Range(section.policies) \cap those
    BY <2>1, PickedFacts DEF DnsLists
  <2> QED BY <2>2, <2>3
<1>2. Given(section) = e \o section.fallback
  BY DEF Given
<1> HIDE DEF policies
<1>3. n \in Nat /\ Range(policies) = {policies[i] : i \in 1 .. n}
  BY <1>1, ListFacts
<1>4. IsList(heads) /\ \A p \in Range(policies) : p.servers[1] \in Range(heads)
  <2>1. IsList(heads) /\ Len(heads) = n
    BY <1>3, FunctionIsList
  <2>2. Range(heads) = {heads[i] : i \in 1 .. n}
    BY <2>1, ListFacts
  <2> QED BY <1>3, <2>1, <2>2
<1> HIDE DEF heads
<1>5. IsList(a) /\ Range(a) = Range(section.nameservers) \cup Range(section.defaults)
  BY ConcatFacts DEF DnsLists
<1> HIDE DEF a
<1>6. IsList(b) /\ Range(b) = Range(a) \cup Range(section.proxies)
  BY <1>5, ConcatFacts DEF DnsLists
<1> HIDE DEF b
<1>7. IsList(d) /\ Range(d) = Range(b) \cup Range(section.directs)
  BY <1>6, ConcatFacts DEF DnsLists
<1> HIDE DEF d
<1>8. IsList(e) /\ Range(e) = Range(d) \cup Range(heads)
  BY <1>4, <1>7, ConcatFacts DEF DnsLists
<1> HIDE DEF e
<1>9. IsList(Given(section)) /\ Range(Given(section)) = Range(e) \cup Range(section.fallback)
  BY <1>2, <1>8, ConcatFacts DEF DnsLists
<1> QED BY <1>1, <1>4, <1>5, <1>6, <1>7, <1>8, <1>9 DEF policies

\* A server that was given and can be used is found by its address.
LEMMA ServersAre ==
    ASSUME NEW section, DnsLists(section)
    PROVE  /\ IsList(Servers(section))
           /\ \A i \in 1 .. Len(Servers(section)) :
                 Servers(section)[i].tag = DnsTag(i) /\ HasDetour(Servers(section)[i])
           /\ \A raw \in Range(Given(section)) : raw.usable =>
                 Serves(Servers(section), raw.address, TagOf(Servers(section), raw.address))
<1> DEFINE s == Given(section)
           r == Servers(section)
<1>1. IsList(s) /\ Range(s) = {s[i] : i \in 1 .. Len(s)}
  BY GivenAre, ListFacts
<1>2. ServersMade(0, <<>>, s, Len(s), r)
  BY <1>1, ServersFrom DEF Servers
<1> HIDE DEF s, r
<1>3. /\ IsList(r) /\ \A i \in 1 .. Len(r) : r[i].tag = DnsTag(i) /\ HasDetour(r[i])
      /\ \A j \in 1 .. Len(s) : s[j].usable => \E i \in 1 .. Len(r) : r[i].address = s[j].address
  BY <1>2 DEF ServersMade
<1>4. ASSUME NEW raw \in Range(s), raw.usable PROVE Serves(r, raw.address, TagOf(r, raw.address))
  <2>1. \E i \in 1 .. Len(r) : r[i].address = raw.address
    BY <1>1, <1>3, <1>4
  <2>2. \E i \in 1 .. Len(r) : r[i].address = raw.address /\ TagOf(r, raw.address) = r[i].tag
    BY <1>3, <2>1, TagOfPlace
  <2> QED BY <1>3, <2>2 DEF Serves
<1> QED BY <1>3, <1>4 DEF r, s

FirstPlace(raws) == SelectInSeq(raws, LAMBDA raw : raw.usable)

LEMMA FirstTagIs ==
    ASSUME NEW section, NEW raws
    PROVE  FirstTag(section, raws) =
              IF FirstPlace(raws) = 0 THEN NoName
              ELSE TagOf(Servers(section), raws[FirstPlace(raws)].address)
BY DEF FirstTag, FirstPlace, NoName

FirstServes(section, raws, i) ==
    /\ raws[i].usable /\ \A j \in 1 .. Len(raws) : raws[j].usable => i <= j
    /\ Serves(Servers(section), raws[i].address, FirstTag(section, raws))

\* firstUsable: of a list the first that can be used, if any.
LEMMA FirstTagServes ==
    ASSUME NEW section, DnsLists(section),
           NEW raws, IsList(raws), Range(raws) \subseteq Range(Given(section))
    PROVE  \/ /\ \A i \in 1 .. Len(raws) : ~raws[i].usable
              /\ FirstTag(section, raws) = NoName
           \/ \E i \in 1 .. Len(raws) : FirstServes(section, raws, i)
<1> DEFINE I == {i \in 1 .. Len(raws) : raws[i].usable}
           p == FirstPlace(raws)
<1>1. p = IF I # {} THEN Min(I) ELSE 0
  BY DEF FirstPlace, SelectInSeq
<1>2. /\ Len(raws) \in Nat /\ Range(raws) = {raws[i] : i \in 1 .. Len(raws)}
      /\ I \subseteq 1 .. Len(raws)
  BY ListFacts
<1>3. CASE I = {}
  <2>1. p = 0
    BY <1>1, <1>3
  <2>2. \A i \in 1 .. Len(raws) : ~raws[i].usable
    BY <1>3
  <2> QED BY <2>1, <2>2, FirstTagIs
<1>4. CASE I # {}
  <2>1. \A i : i \in I <=> i \in 1 .. Len(raws) /\ raws[i].usable
    OBVIOUS
  <2> HIDE DEF I
  <2>2. Min(I) \in I /\ Min(I) # 0 /\ \A j \in I : Min(I) <= j
    BY <1>2, <1>4, LeastIn
  <2> HIDE DEF p
  <2>3. p \in I /\ p # 0 /\ \A j \in I : p <= j
    BY <1>1, <1>4, <2>2
  <2>4. FirstTag(section, raws) = TagOf(Servers(section), raws[p].address)
    BY <2>3, FirstTagIs DEF p
  <2>5. raws[p].usable /\ raws[p] \in Range(Given(section))
    BY <1>2, <2>1, <2>3
  <2>6. Serves(Servers(section), raws[p].address, FirstTag(section, raws))
    BY <2>4, <2>5, ServersAre
  <2>7. \A j \in 1 .. Len(raws) : raws[j].usable => p <= j
    BY <2>1, <2>3
  <2> QED BY <2>1, <2>3, <2>5, <2>6, <2>7 DEF FirstServes
<1> QED BY <1>3, <1>4

--------------------------------------------------------------------------------
(* What lists of DNS rules say. *)

ServersIn(rules) == {rules[i].server : i \in 1 .. Len(rules)}

\* The server that a list of rules sends the name to, or another.
FirstRule(rules, n) == SelectInSeq(rules, LAMBDA rule : Applies(rule, n))
AnswerOf(rules, n, otherwise) ==
    IF FirstRule(rules, n) = 0 THEN otherwise ELSE rules[FirstRule(rules, n)].server

FirstToApply(rules, n, i) ==
    Applies(rules[i], n) /\ \A j \in 1 .. Len(rules) : Applies(rules[j], n) => i <= j

\* The first rule that applies to a name answers for it.
LEMMA AnswerIs ==
    ASSUME NEW rules, IsList(rules), NEW n, NEW otherwise
    PROVE  \/ /\ \A i \in 1 .. Len(rules) : ~Applies(rules[i], n)
              /\ AnswerOf(rules, n, otherwise) = otherwise
           \/ \E i \in 1 .. Len(rules) :
                 FirstToApply(rules, n, i) /\ AnswerOf(rules, n, otherwise) = rules[i].server
<1> DEFINE I == {i \in 1 .. Len(rules) : Applies(rules[i], n)}
           p == FirstRule(rules, n)
<1>1. p = IF I # {} THEN Min(I) ELSE 0
  BY DEF FirstRule, SelectInSeq
<1>2. Len(rules) \in Nat /\ I \subseteq 1 .. Len(rules)
  BY ListFacts
<1>3. \A i : i \in I <=> i \in 1 .. Len(rules) /\ Applies(rules[i], n)
  OBVIOUS
<1> HIDE DEF I, p
<1>4. CASE I = {}
  BY <1>1, <1>3, <1>4 DEF AnswerOf, p
<1>5. CASE I # {}
  <2>1. Min(I) \in I /\ Min(I) # 0 /\ \A j \in I : Min(I) <= j
    BY <1>2, <1>5, LeastIn
  <2>2. p \in I /\ p # 0 /\ \A j \in I : p <= j
    BY <1>1, <1>5, <2>1
  <2>3. AnswerOf(rules, n, otherwise) = rules[p].server
    BY <2>2 DEF AnswerOf, p
  <2> QED BY <1>3, <2>2, <2>3 DEF FirstToApply
<1> QED BY <1>4, <1>5

\* The converse: a rule that is the first to apply decides.
LEMMA AnswerBy ==
    ASSUME NEW rules, IsList(rules), NEW n, NEW i \in 1 .. Len(rules),
           FirstToApply(rules, n, i), NEW otherwise
    PROVE  AnswerOf(rules, n, otherwise) = rules[i].server
<1>1. PICK j \in 1 .. Len(rules) :
          FirstToApply(rules, n, j) /\ AnswerOf(rules, n, otherwise) = rules[j].server
  BY AnswerIs DEF FirstToApply
<1>2. i <= j /\ j <= i
  BY <1>1 DEF FirstToApply
<1>3. i \in Nat /\ j \in Nat
  <2>1. Len(rules) \in Nat
    BY ListFacts
  <2> QED BY <2>1
<1>4. i = j
  BY <1>2, <1>3
<1> QED BY <1>1, <1>4

\* c has the items of a and then those of b.
Joined(a, b, c) ==
    /\ IsList(c) /\ Len(a) \in Nat /\ Len(b) \in Nat /\ Len(c) = Len(a) + Len(b)
    /\ \A i \in 1 .. Len(a) : i \in 1 .. Len(c) /\ c[i] = a[i]
    /\ \A i \in 1 .. Len(b) : Len(a) + i \in 1 .. Len(c) /\ c[Len(a) + i] = b[i]
    /\ \A i \in 1 .. Len(c) : i \in 1 .. Len(a) \/ \E j \in 1 .. Len(b) : i = Len(a) + j

LEMMA ConcatItems ==
    ASSUME NEW a, NEW b, IsList(a), IsList(b)
    PROVE  Joined(a, b, a \o b)
<1>1. IsList(a \o b) /\ Len(a \o b) = Len(a) + Len(b)
  BY ConcatFacts
<1>2. Len(a) \in Nat /\ Len(b) \in Nat
  BY ListFacts
<1>3. /\ \A i \in 1 .. Len(a) : (a \o b)[i] = a[i]
      /\ \A i \in 1 .. Len(b) : (a \o b)[Len(a) + i] = b[i]
  <2>1. a \in Seq(Range(a) \cup Range(b)) /\ b \in Seq(Range(a) \cup Range(b))
    BY DEF IsList
  <2> QED BY <1>2, <2>1
<1> DEFINE k == Len(a)
           l == Len(b)
<1>4. ASSUME NEW i \in 1 .. k + l PROVE i \in 1 .. k \/ \E j \in 1 .. l : i = k + j
  <2> HIDE DEF k, l
  <2>1. k \in Nat /\ l \in Nat
    BY <1>2 DEF k, l
  <2>2. CASE i > k
    <3>1. i - k \in 1 .. l /\ i = k + (i - k)
      BY <2>1, <2>2
    <3> QED BY <3>1
  <2> QED BY <2>1, <2>2
<1>5. \A i \in 1 .. l : k + i \in 1 .. k + l
  BY <1>2
<1>6. \A i \in 1 .. k : i \in 1 .. k + l
  BY <1>2
<1> QED BY <1>1, <1>2, <1>3, <1>4, <1>5, <1>6 DEF Joined

\* Rules that come first decide first.
LEMMA AnswerConcat ==
    ASSUME NEW a, NEW b, IsList(a), IsList(b), NEW n, NEW otherwise
    PROVE  /\ IsList(a \o b) /\ ServersIn(a \o b) = ServersIn(a) \cup ServersIn(b)
           /\ AnswerOf(a \o b, n, otherwise) = AnswerOf(a, n, AnswerOf(b, n, otherwise))
<1> DEFINE c == a \o b
<1>1. /\ IsList(c) /\ Len(a) \in Nat /\ Len(b) \in Nat
      /\ \A i \in 1 .. Len(a) : i \in 1 .. Len(c) /\ c[i] = a[i]
      /\ \A i \in 1 .. Len(b) : Len(a) + i \in 1 .. Len(c) /\ c[Len(a) + i] = b[i]
      /\ \A i \in 1 .. Len(c) : i \in 1 .. Len(a) \/ \E j \in 1 .. Len(b) : i = Len(a) + j
  <2>1. Joined(a, b, c)
    BY ConcatItems
  <2> HIDE DEF c
  <2> QED BY <2>1 DEF Joined
<1> HIDE DEF c
<1>2. ServersIn(c) = ServersIn(a) \cup ServersIn(b)
  <2>1. \A i \in 1 .. Len(a) : a[i].server \in ServersIn(c)
    BY <1>1 DEF ServersIn
  <2>2. \A i \in 1 .. Len(b) : b[i].server \in ServersIn(c)
    BY <1>1 DEF ServersIn
  <2>3. ASSUME NEW i \in 1 .. Len(c) PROVE c[i].server \in ServersIn(a) \cup ServersIn(b)
    <3>1. CASE i \in 1 .. Len(a)
      BY <1>1, <3>1 DEF ServersIn
    <3>2. CASE \E j \in 1 .. Len(b) : i = Len(a) + j
      BY <1>1, <3>2 DEF ServersIn
    <3> QED BY <1>1, <3>1, <3>2
  <2> QED BY <2>1, <2>2, <2>3 DEF ServersIn
<1>3. CASE \E i \in 1 .. Len(a) : Applies(a[i], n)
  <2>1. PICK i \in 1 .. Len(a) :
            /\ FirstToApply(a, n, i)
            /\ AnswerOf(a, n, AnswerOf(b, n, otherwise)) = a[i].server
    BY <1>3, AnswerIs
  <2>2. i \in 1 .. Len(c) /\ c[i] = a[i] /\ Applies(a[i], n)
    BY <1>1, <2>1 DEF FirstToApply
  <2>3. ASSUME NEW j \in 1 .. Len(c), Applies(c[j], n) PROVE i <= j
    <3>1. CASE j \in 1 .. Len(a)
      BY <1>1, <2>1, <2>3, <3>1 DEF FirstToApply
    <3>2. CASE \E k \in 1 .. Len(b) : j = Len(a) + k
      BY <1>1, <3>2
    <3> QED BY <1>1, <3>1, <3>2
  <2>4. FirstToApply(c, n, i)
    BY <2>2, <2>3 DEF FirstToApply
  <2>5. AnswerOf(c, n, otherwise) = c[i].server
    BY <1>1, <2>2, <2>4, AnswerBy
  <2> QED BY <1>1, <1>2, <2>1, <2>2, <2>5 DEF c
<1>4. CASE /\ \A i \in 1 .. Len(a) : ~Applies(a[i], n)
           /\ \E i \in 1 .. Len(b) : Applies(b[i], n)
  <2>1. AnswerOf(a, n, AnswerOf(b, n, otherwise)) = AnswerOf(b, n, otherwise)
    BY <1>4, AnswerIs DEF FirstToApply
  <2>2. PICK i \in 1 .. Len(b) : FirstToApply(b, n, i) /\ AnswerOf(b, n, otherwise) = b[i].server
    BY <1>4, AnswerIs
  <2> DEFINE k == Len(a) + i
  <2>3. k \in 1 .. Len(c) /\ c[k] = b[i] /\ Applies(b[i], n)
    BY <1>1, <2>2 DEF FirstToApply
  <2>4. ASSUME NEW j \in 1 .. Len(c), Applies(c[j], n) PROVE k <= j
    <3>1. ~(j \in 1 .. Len(a))
      BY <1>1, <1>4, <2>4
    <3>2. PICK l \in 1 .. Len(b) : j = Len(a) + l
      BY <1>1, <3>1
    <3>3. Applies(b[l], n)
      BY <1>1, <2>4, <3>2
    <3>4. i <= l
      BY <2>2, <3>3 DEF FirstToApply
    <3> QED BY <1>1, <3>2, <3>4
  <2> HIDE DEF k
  <2>5. FirstToApply(c, n, k)
    BY <2>3, <2>4 DEF FirstToApply
  <2>6. AnswerOf(c, n, otherwise) = c[k].server
    BY <1>1, <2>3, <2>5, AnswerBy
  <2> QED BY <1>1, <1>2, <2>1, <2>2, <2>3, <2>6 DEF c
<1>5. CASE /\ \A i \in 1 .. Len(a) : ~Applies(a[i], n)
           /\ \A i \in 1 .. Len(b) : ~Applies(b[i], n)
  <2>1. AnswerOf(a, n, AnswerOf(b, n, otherwise)) = AnswerOf(b, n, otherwise)
    BY <1>5, AnswerIs DEF FirstToApply
  <2>2. AnswerOf(b, n, otherwise) = otherwise
    BY <1>5, AnswerIs DEF FirstToApply
  <2>3. \A i \in 1 .. Len(c) : ~Applies(c[i], n)
    BY <1>1, <1>5
  <2>4. AnswerOf(c, n, otherwise) = otherwise
    BY <1>1, <2>3, AnswerIs DEF FirstToApply
  <2> QED BY <1>1, <1>2, <2>1, <2>2, <2>4 DEF c
<1> QED BY <1>3, <1>4, <1>5

--------------------------------------------------------------------------------
(* Rules of one server. *)

\* All rules are for the server, and together they apply to the names.
Sends(rules, server, names) ==
    /\ IsList(rules) /\ ServersIn(rules) \subseteq {server}
    /\ \A n \in Domains : (\E i \in 1 .. Len(rules) : Applies(rules[i], n)) <=> n \in names

\* Rules of one server answer by it for their names and for no others.
LEMMA SendsAnswer ==
    ASSUME NEW rules, NEW server, NEW names, Sends(rules, server, names),
           NEW n \in Domains, NEW otherwise
    PROVE  AnswerOf(rules, n, otherwise) = IF n \in names THEN server ELSE otherwise
<1>1. /\ IsList(rules) /\ \A i \in 1 .. Len(rules) : rules[i].server = server
      /\ (\E i \in 1 .. Len(rules) : Applies(rules[i], n)) <=> n \in names
  BY DEF Sends, ServersIn
<1>2. CASE n \in names
  BY <1>1, <1>2, AnswerIs
<1>3. CASE n \notin names
  BY <1>1, <1>3, AnswerIs DEF FirstToApply
<1> QED BY <1>2, <1>3

\* Two lists of rules of one server are one.
LEMMA SendsConcat ==
    ASSUME NEW a, NEW b, NEW server, NEW A, NEW B, Sends(a, server, A), Sends(b, server, B)
    PROVE  Sends(a \o b, server, A \cup B)
<1> DEFINE c == a \o b
<1>1. IsList(a) /\ IsList(b) /\ ServersIn(a) \subseteq {server} /\ ServersIn(b) \subseteq {server}
  BY DEF Sends
<1>2. Joined(a, b, c)
  BY <1>1, ConcatItems
<1>3. ServersIn(c) = ServersIn(a) \cup ServersIn(b)
  BY <1>1, AnswerConcat
<1> HIDE DEF c
<1>4. ASSUME NEW n \in Domains
      PROVE  (\E i \in 1 .. Len(c) : Applies(c[i], n)) <=> n \in A \cup B
  <2>1. (\E i \in 1 .. Len(a) : Applies(a[i], n)) <=> n \in A
    BY DEF Sends
  <2>2. (\E i \in 1 .. Len(b) : Applies(b[i], n)) <=> n \in B
    BY DEF Sends
  <2>3. ASSUME NEW i \in 1 .. Len(a), Applies(a[i], n) PROVE \E k \in 1 .. Len(c) : Applies(c[k], n)
    BY <1>2, <2>3 DEF Joined
  <2>4. ASSUME NEW i \in 1 .. Len(b), Applies(b[i], n) PROVE \E k \in 1 .. Len(c) : Applies(c[k], n)
    BY <1>2, <2>4 DEF Joined
  <2>5. ASSUME NEW k \in 1 .. Len(c), Applies(c[k], n)
        PROVE  \/ \E i \in 1 .. Len(a) : Applies(a[i], n)
               \/ \E i \in 1 .. Len(b) : Applies(b[i], n)
    <3>1. CASE k \in 1 .. Len(a)
      BY <1>2, <2>5, <3>1 DEF Joined
    <3>2. CASE \E j \in 1 .. Len(b) : k = Len(a) + j
      BY <1>2, <2>5, <3>2 DEF Joined
    <3> QED BY <1>2, <3>1, <3>2 DEF Joined
  <2> QED BY <2>1, <2>2, <2>3, <2>4, <2>5
<1> QED BY <1>1, <1>2, <1>3, <1>4 DEF Sends, Joined, c

LEMMA SendsNothing == \A server : Sends(<<>>, server, {}) /\ ServersIn(<<>>) = {}
BY EmptyFacts DEF Sends, ServersIn

LEMMA SendsOne ==
    ASSUME NEW rule
    PROVE  Sends(<<rule>>, rule.server, {n \in Domains : Applies(rule, n)})
<1> DEFINE s == <<rule>>
           names == {n \in Domains : Applies(rule, n)}
<1>1. IsList(s) /\ Len(s) = 1 /\ s[1] = rule
  BY DEF IsList, Range
<1> HIDE DEF s
<1>2. \A i : i \in 1 .. Len(s) <=> i = 1
  BY <1>1
<1>3. ServersIn(s) \subseteq {rule.server}
  BY <1>1, <1>2 DEF ServersIn
<1>4. \A n \in Domains : (\E i \in 1 .. Len(s) : Applies(s[i], n)) <=> n \in names
  BY <1>1, <1>2
<1> HIDE DEF names
<1> QED BY <1>1, <1>3, <1>4 DEF Sends, s, names

Covered(patterns) == {n \in Domains : \E p \in Range(patterns) : p.usable /\ n \in p.match}

LEMMA Applying ==
    ASSUME NEW rule, NEW n
    PROVE  /\ rule.invert = FALSE => (Applies(rule, n) <=> n \in rule.match)
           /\ rule.invert = TRUE => (Applies(rule, n) <=> n \notin rule.match)
<1> DEFINE x == n \in rule.match
<1>1. x \in BOOLEAN
  OBVIOUS
<1>2. Applies(rule, n) <=> x # rule.invert
  BY DEF Applies
<1> HIDE DEF x
<1>3. rule.invert = FALSE => (Applies(rule, n) <=> x)
  BY <1>1, <1>2
<1>4. rule.invert = TRUE => (Applies(rule, n) <=> ~x)
  BY <1>1, <1>2
<1> QED BY <1>3, <1>4 DEF x

Plain(match, refs, server) == Rule(match, refs, FALSE, server)
Inverted(match, refs, server) == Rule(match, refs, TRUE, server)

LEMMA PlainApplies ==
    ASSUME NEW match, NEW refs, NEW server, NEW n
    PROVE  /\ Plain(match, refs, server).server = server
           /\ Applies(Plain(match, refs, server), n) <=> n \in match
<1> DEFINE rule == Plain(match, refs, server)
<1>1. rule.match = match /\ rule.invert = FALSE /\ rule.server = server
  BY DEF Plain, Rule
<1> HIDE DEF rule
<1>2. Applies(rule, n) <=> n \in match
  BY <1>1, Applying
<1> QED BY <1>1, <1>2 DEF rule

LEMMA InvertedApplies ==
    ASSUME NEW match, NEW refs, NEW server, NEW n
    PROVE  /\ Inverted(match, refs, server).server = server
           /\ Applies(Inverted(match, refs, server), n) <=> n \notin match
<1> DEFINE rule == Inverted(match, refs, server)
<1>1. rule.match = match /\ rule.invert = TRUE /\ rule.server = server
  BY DEF Inverted, Rule
<1> HIDE DEF rule
<1>2. Applies(rule, n) <=> n \notin match
  BY <1>1, Applying
<1> QED BY <1>1, <1>2 DEF rule

UsableOf(patterns) == Picked({p \in Range(patterns) : p.usable}, patterns)

LEMMA UsableOfAre ==
    ASSUME NEW patterns, IsList(patterns)
    PROVE  /\ IsList(UsableOf(patterns))
           /\ Len(UsableOf(patterns)) \in Nat
           /\ Range(UsableOf(patterns)) = {p \in Range(patterns) : p.usable}
<1> DEFINE those == {p \in Range(patterns) : p.usable}
<1>1. those \subseteq Range(patterns)
  OBVIOUS
<1> HIDE DEF those
<1>2. /\ IsList(Picked(those, patterns)) /\ Len(Picked(those, patterns)) \in Nat
      /\ Range(Picked(those, patterns)) = Range(patterns) \cap those
  BY PickedFacts
<1> QED BY <1>1, <1>2 DEF UsableOf, those

\* A rule for each pattern that can be used.
LEMMA RulesForSend ==
    ASSUME NEW patterns, IsList(patterns), NEW server
    PROVE  Sends(RulesFor(patterns, server), server, Covered(patterns))
<1> DEFINE kept == UsableOf(patterns)
           k == Len(kept)
           rules == [i \in 1 .. k |-> Plain(kept[i].match, kept[i].refs, server)]
<1>1. RulesFor(patterns, server) = rules
  BY DEF RulesFor, Selected, UsableOf, Plain
<1>2. /\ IsList(kept) /\ k \in Nat
      /\ Range(kept) = {p \in Range(patterns) : p.usable}
      /\ Range(kept) = {kept[i] : i \in 1 .. k}
  BY UsableOfAre, ListFacts
<1> HIDE DEF kept
<1>3. IsList(rules) /\ Len(rules) = k
  BY <1>2, FunctionIsList
<1>4. ASSUME NEW i \in 1 .. k
      PROVE  rules[i].server = server /\ \A n : Applies(rules[i], n) <=> n \in kept[i].match
  <2> DEFINE match == kept[i].match
             refs == kept[i].refs
  <2>1. rules[i] = Plain(match, refs, server)
    OBVIOUS
  <2> HIDE DEF rules, match, refs
  <2>2. rules[i].server = server /\ \A n : Applies(rules[i], n) <=> n \in match
    BY <2>1, PlainApplies
  <2> QED BY <2>2 DEF match
<1> HIDE DEF rules
<1>5. ServersIn(rules) \subseteq {server}
  BY <1>3, <1>4 DEF ServersIn
<1>6. ASSUME NEW n \in Domains
      PROVE  (\E i \in 1 .. Len(rules) : Applies(rules[i], n)) <=> n \in Covered(patterns)
  <2>1. (\E i \in 1 .. Len(rules) : Applies(rules[i], n)) <=> \E i \in 1 .. k : n \in kept[i].match
    BY <1>3, <1>4
  <2>2. (\E i \in 1 .. k : n \in kept[i].match) <=> \E p \in Range(kept) : n \in p.match
    BY <1>2
  <2>3. (\E p \in Range(kept) : n \in p.match) <=> n \in Covered(patterns)
    BY <1>2 DEF Covered
  <2> QED BY <2>1, <2>2, <2>3
<1> QED BY <1>1, <1>3, <1>5, <1>6 DEF Sends

--------------------------------------------------------------------------------
(* The rules of the fallback and of the filter. *)

GeoNames(geoip) == IF geoip.enabled THEN {n \in Domains : n \notin geoip.match} ELSE {}

CidrRules(cidrs, server) ==
    IF UsableOf(cidrs) = <<>> THEN <<>>
    ELSE <<Plain(UNION {x.match : x \in Range(UsableOf(cidrs))}, <<>>, server)>>
GeoRules(geoip, server) ==
    IF geoip.enabled THEN <<Inverted(geoip.match, geoip.refs, server)>> ELSE <<>>

LEMMA FallbackRulesAre ==
    ASSUME NEW section
    PROVE  FallbackRules(section) =
              IF FirstTag(section, section.fallback) = NoName \/ section.fakeip THEN <<>>
              ELSE RulesFor(section.filterDomains, FirstTag(section, section.fallback))
                   \o CidrRules(section.cidrs, FirstTag(section, section.fallback))
                   \o GeoRules(section.geoip, FirstTag(section, section.fallback))
BY DEF FallbackRules, CidrRules, GeoRules, UsableOf, Selected, NoName, Plain, Inverted

\* The CIDRs of the fallback filter make one rule.
LEMMA CidrRulesSend ==
    ASSUME NEW cidrs, IsList(cidrs), NEW server
    PROVE  Sends(CidrRules(cidrs, server), server, Covered(cidrs))
<1> DEFINE kept == UsableOf(cidrs)
           match == UNION {x.match : x \in Range(kept)}
           rule == Plain(match, <<>>, server)
<1>1. IsList(kept) /\ Range(kept) = {p \in Range(cidrs) : p.usable}
  BY UsableOfAre
<1>2. \A n \in Domains : n \in match <=> n \in Covered(cidrs)
  BY <1>1 DEF Covered
<1>3. rule.server = server /\ \A n : Applies(rule, n) <=> n \in match
  <2> HIDE DEF match
  <2> QED BY PlainApplies
<1>4. CASE kept = <<>>
  <2>1. Range(kept) = {}
    BY <1>4, EmptyFacts
  <2>2. Covered(cidrs) = {}
    BY <1>1, <2>1 DEF Covered
  <2>3. CidrRules(cidrs, server) = <<>>
    BY <1>4 DEF CidrRules
  <2> QED BY <2>2, <2>3, SendsNothing
<1>5. CASE kept # <<>>
  <2>1. CidrRules(cidrs, server) = <<rule>>
    BY <1>5 DEF CidrRules
  <2> HIDE DEF rule, match
  <2>2. {n \in Domains : Applies(rule, n)} = Covered(cidrs)
    BY <1>2, <1>3 DEF Covered
  <2>3. Sends(<<rule>>, rule.server, {n \in Domains : Applies(rule, n)})
    BY SendsOne
  <2> QED BY <1>3, <2>1, <2>2, <2>3
<1> QED BY <1>4, <1>5

\* The country's rule is for the names whose addresses are abroad.
LEMMA GeoRulesSend ==
    ASSUME NEW geoip, NEW server
    PROVE  Sends(GeoRules(geoip, server), server, GeoNames(geoip))
<1> DEFINE match == geoip.match
           refs == geoip.refs
           rule == Inverted(match, refs, server)
<1>1. rule.server = server /\ \A n : Applies(rule, n) <=> n \notin match
  <2> HIDE DEF match, refs
  <2> QED BY InvertedApplies
<1>2. CASE geoip.enabled
  <2>1. GeoRules(geoip, server) = <<rule>>
    BY <1>2 DEF GeoRules
  <2>2. GeoNames(geoip) = {n \in Domains : n \notin match}
    BY <1>2 DEF GeoNames
  <2> HIDE DEF rule, match
  <2>3. {n \in Domains : Applies(rule, n)} = GeoNames(geoip)
    BY <1>1, <2>2
  <2>4. Sends(<<rule>>, rule.server, {n \in Domains : Applies(rule, n)})
    BY SendsOne
  <2> QED BY <1>1, <2>1, <2>3, <2>4
<1>3. CASE ~geoip.enabled
  BY <1>3, SendsNothing DEF GeoRules, GeoNames
<1> QED BY <1>2, <1>3

\* The names that the fallback filter has.
FilterNames(section) ==
    Covered(section.filterDomains) \cup Covered(section.cidrs) \cup GeoNames(section.geoip)

\* The rules of the fallback, if there are any, are for its first usable server.
LEMMA FallbackSends ==
    ASSUME NEW section, DnsLists(section)
    PROVE  \/ /\ FirstTag(section, section.fallback) # NoName /\ ~section.fakeip
              /\ Sends(FallbackRules(section), FirstTag(section, section.fallback),
                       FilterNames(section))
           \/ /\ FirstTag(section, section.fallback) = NoName \/ section.fakeip
              /\ FallbackRules(section) = <<>>
<1> DEFINE server == FirstTag(section, section.fallback)
           a == RulesFor(section.filterDomains, server)
           b == CidrRules(section.cidrs, server)
           g == GeoRules(section.geoip, server)
<1>1. Sends(a, server, Covered(section.filterDomains))
  BY RulesForSend DEF DnsLists
<1>2. Sends(b, server, Covered(section.cidrs))
  BY CidrRulesSend DEF DnsLists
<1>3. Sends(g, server, GeoNames(section.geoip))
  BY GeoRulesSend
<1>4. FallbackRules(section) = IF server = NoName \/ section.fakeip THEN <<>> ELSE (a \o b) \o g
  BY FallbackRulesAre
<1> HIDE DEF a, b, g, server
<1>5. Sends(a \o b, server, Covered(section.filterDomains) \cup Covered(section.cidrs))
  BY <1>1, <1>2, SendsConcat
<1>6. Sends((a \o b) \o g, server, FilterNames(section))
  BY <1>3, <1>5, SendsConcat DEF FilterNames
<1> QED BY <1>4, <1>6 DEF server

\* The rule that is for all names.
LEMMA EverythingSends ==
    ASSUME NEW server
    PROVE  Sends(Everything(server), server, Domains)
<1> DEFINE rule == Plain(Domains, <<>>, server)
<1>1. rule.server = server /\ \A n : Applies(rule, n) <=> n \in Domains
  BY PlainApplies
<1>2. Everything(server) = <<rule>>
  BY DEF Everything, Plain
<1> HIDE DEF rule
<1>3. {n \in Domains : Applies(rule, n)} = Domains
  BY <1>1
<1>4. Sends(<<rule>>, rule.server, {n \in Domains : Applies(rule, n)})
  BY SendsOne
<1> QED BY <1>1, <1>2, <1>3, <1>4

--------------------------------------------------------------------------------
(* The rules of policies and of a filter in rule mode, which are for several      *)
(* servers.                                                                       *)

\* Each of the rules matches what Match gives of the item and is for To of it.
KeptPolicies(section) ==
    Picked({p \in Range(Policies(section)) : p.servers[1].usable /\ p.pattern.usable},
           Policies(section))
PolicyTag(section, p) == TagOf(Servers(section), p.servers[1].address)

\* One rule for each policy that can be used, in their order.
LEMMA PolicyRulesAre ==
    ASSUME NEW section, DnsLists(section)
    PROVE  /\ IsList(KeptPolicies(section))
           /\ \A p \in Range(KeptPolicies(section)) :
                 p \in Range(Policies(section)) /\ p.servers[1].usable /\ p.pattern.usable
           /\ IsList(PolicyRules(section))
           /\ Len(PolicyRules(section)) = Len(KeptPolicies(section))
           /\ \A i \in 1 .. Len(KeptPolicies(section)) :
                 /\ PolicyRules(section)[i].server = PolicyTag(section, KeptPolicies(section)[i])
                 /\ \A n : Applies(PolicyRules(section)[i], n) <=>
                              n \in KeptPolicies(section)[i].pattern.match
<1> DEFINE those == {p \in Range(Policies(section)) : p.servers[1].usable /\ p.pattern.usable}
           kept == KeptPolicies(section)
           k == Len(kept)
           match(i) == kept[i].pattern.match
           refs(i) == kept[i].pattern.refs
           server(i) == PolicyTag(section, kept[i])
           rules == [i \in 1 .. k |-> Plain(match(i), refs(i), server(i))]
<1>1. IsList(kept) /\ \A p \in Range(kept) : p \in those
  <2>1. IsList(Policies(section))
    BY GivenAre
  <2>2. kept = Picked(those, Policies(section))
    BY DEF KeptPolicies
  <2> HIDE DEF those, kept
  <2>3. IsList(kept) /\ Range(kept) = Range(Policies(section)) \cap those
    BY <2>1, <2>2, PickedFacts
  <2> QED BY <2>3
<1>2. PolicyRules(section) = rules
  BY DEF PolicyRules, KeptPolicies, PolicyTag, Plain, Selected
<1>3. k \in Nat
  BY <1>1, ListFacts
<1> HIDE DEF kept, match, refs, server
<1>4. IsList(rules) /\ Len(rules) = k
  BY <1>3, FunctionIsList
<1>5. ASSUME NEW i \in 1 .. k
      PROVE  rules[i].server = server(i) /\ \A n : Applies(rules[i], n) <=> n \in match(i)
  <2> DEFINE m == match(i)
             r == refs(i)
             to == server(i)
  <2>1. rules[i] = Plain(m, r, to)
    OBVIOUS
  <2> HIDE DEF rules, m, r, to
  <2>2. rules[i].server = to /\ \A n : Applies(rules[i], n) <=> n \in m
    BY <2>1, PlainApplies
  <2> QED BY <2>2 DEF m, to
<1> HIDE DEF rules
<1>6. \A i \in 1 .. k : /\ rules[i].server = PolicyTag(section, kept[i])
                        /\ \A n : Applies(rules[i], n) <=> n \in kept[i].pattern.match
  BY <1>5 DEF match, server
<1> QED BY <1>1, <1>2, <1>4, <1>6 DEF kept

KeptLines(filter) == Picked({line \in Range(filter) : LineUsable(line)}, filter)
LineNames(line) == IF line.onAddress THEN Domains ELSE line.match
LineTag(section, line) == IF line.target = "fake-ip" THEN Fake ELSE Primary(section)

\* One rule for each line that can be used, in their order.
LEMMA LineRulesAre ==
    ASSUME NEW section, DnsLists(section)
    PROVE  /\ IsList(LineRules(section))
           /\ Len(LineRules(section)) = Len(KeptLines(section.filter))
           /\ \A i \in 1 .. Len(KeptLines(section.filter)) :
                 /\ LineRules(section)[i].server = LineTag(section, KeptLines(section.filter)[i])
                 /\ \A n : Applies(LineRules(section)[i], n) <=>
                              n \in LineNames(KeptLines(section.filter)[i])
<1> DEFINE those == {line \in Range(section.filter) : LineUsable(line)}
           kept == KeptLines(section.filter)
           k == Len(kept)
           match(i) == LineNames(kept[i])
           refs(i) == kept[i].refs
           server(i) == LineTag(section, kept[i])
           rules == [i \in 1 .. k |-> Plain(match(i), refs(i), server(i))]
<1>1. k \in Nat
  <2>1. kept = Picked(those, section.filter)
    BY DEF KeptLines
  <2> HIDE DEF those, kept
  <2> QED BY <2>1, PickedFacts DEF DnsLists
<1>2. LineRules(section) = rules
  BY DEF LineRules, KeptLines, LineNames, LineTag, Plain, Fake, Selected
<1> HIDE DEF kept, match, refs, server
<1>3. IsList(rules) /\ Len(rules) = k
  BY <1>1, FunctionIsList
<1>4. ASSUME NEW i \in 1 .. k
      PROVE  rules[i].server = server(i) /\ \A n : Applies(rules[i], n) <=> n \in match(i)
  <2> DEFINE m == match(i)
             r == refs(i)
             to == server(i)
  <2>1. rules[i] = Plain(m, r, to)
    OBVIOUS
  <2> HIDE DEF rules, m, r, to
  <2>2. rules[i].server = to /\ \A n : Applies(rules[i], n) <=> n \in m
    BY <2>1, PlainApplies
  <2> QED BY <2>2 DEF m, to
<1> HIDE DEF rules
<1>5. \A i \in 1 .. k : /\ rules[i].server = LineTag(section, kept[i])
                        /\ \A n : Applies(rules[i], n) <=> n \in LineNames(kept[i])
  BY <1>4 DEF match, server
<1> QED BY <1>2, <1>3, <1>5 DEF kept

\* The rules of the fake-ip filter, mode by mode.
LEMMA FakeIPRulesAre ==
    ASSUME NEW section
    PROVE  /\ ~section.fakeip => FakeIPRules(section) = <<>>
           /\ section.fakeip =>
                 /\ section.mode = "rule" => FakeIPRules(section) = LineRules(section)
                 /\ section.mode = "whitelist" =>
                       FakeIPRules(section) = RulesFor(section.filter, Fake)
                 /\ section.mode = "blacklist" =>
                       FakeIPRules(section) =
                          RulesFor(section.filter, Primary(section)) \o Everything(Fake)
                 /\ section.mode \notin Modes => FakeIPRules(section) = Everything(Fake)
<1>1. ~section.fakeip => FakeIPRules(section) = <<>>
  BY DEF FakeIPRules
<1>2. section.fakeip /\ section.mode = "rule" => FakeIPRules(section) = LineRules(section)
  BY DEF FakeIPRules
<1>3. section.fakeip /\ section.mode = "whitelist" =>
          FakeIPRules(section) = RulesFor(section.filter, Fake)
  BY DEF FakeIPRules, Fake
<1>4. section.fakeip /\ section.mode = "blacklist" =>
          FakeIPRules(section) = RulesFor(section.filter, Primary(section)) \o Everything(Fake)
  BY DEF FakeIPRules, Fake
<1>5. section.fakeip /\ section.mode \notin Modes => FakeIPRules(section) = Everything(Fake)
  BY DEF FakeIPRules, Fake, Modes
<1> QED BY <1>1, <1>2, <1>3, <1>4, <1>5

\* The servers that rules are for.
LEMMA RuleServers ==
    ASSUME NEW section, DnsLists(section)
    PROVE  /\ IsList(PolicyRules(section)) /\ IsList(FallbackRules(section))
           /\ IsList(FakeIPRules(section)) /\ IsList(DnsRules(section))
           /\ \A tag \in ServersIn(DnsRules(section)) :
                 \/ \E p \in Range(KeptPolicies(section)) : tag = PolicyTag(section, p)
                 \/ tag = FirstTag(section, section.fallback) /\ tag # NoName
                 \/ section.fakeip /\ tag \in {Primary(section), Fake}
<1> DEFINE a == PolicyRules(section)
           b == FallbackRules(section)
           g == FakeIPRules(section)
           kept == KeptPolicies(section)
           lines == KeptLines(section.filter)
           primary == Primary(section)
<1>1. IsList(a) /\ \A tag \in ServersIn(a) : \E p \in Range(kept) : tag = PolicyTag(section, p)
  <2>1. /\ IsList(kept) /\ IsList(a) /\ Len(a) = Len(kept)
        /\ \A i \in 1 .. Len(kept) : a[i].server = PolicyTag(section, kept[i])
    BY PolicyRulesAre
  <2> HIDE DEF a, kept
  <2>2. Range(kept) = {kept[i] : i \in 1 .. Len(kept)}
    BY <2>1, ListFacts
  <2> QED BY <2>1, <2>2 DEF ServersIn
<1>2. /\ IsList(b)
      /\ \A tag \in ServersIn(b) : tag = FirstTag(section, section.fallback) /\ tag # NoName
  BY FallbackSends, SendsNothing DEF Sends
<1>3. IsList(g) /\ \A tag \in ServersIn(g) : section.fakeip /\ tag \in {primary, Fake}
  <2>1. CASE ~section.fakeip
    BY <2>1, FakeIPRulesAre, SendsNothing DEF Sends
  <2>2. CASE section.fakeip /\ section.mode = "rule"
    <3>1. g = LineRules(section)
      BY <2>2, FakeIPRulesAre
    <3>2. /\ IsList(g) /\ Len(g) = Len(lines)
          /\ \A i \in 1 .. Len(lines) : g[i].server = LineTag(section, lines[i])
      BY <3>1, LineRulesAre
    <3>3. \A i \in 1 .. Len(lines) : g[i].server \in {primary, Fake}
      BY <3>2 DEF LineTag
    <3> QED BY <2>2, <3>2, <3>3 DEF ServersIn
  <2>3. CASE section.fakeip /\ section.mode = "whitelist"
    <3>1. g = RulesFor(section.filter, Fake)
      BY <2>3, FakeIPRulesAre
    <3>2. Sends(g, Fake, Covered(section.filter))
      BY <3>1, RulesForSend DEF DnsLists
    <3> QED BY <2>3, <3>2 DEF Sends
  <2>4. CASE section.fakeip /\ section.mode = "blacklist"
    <3> DEFINE x == RulesFor(section.filter, primary)
               y == Everything(Fake)
    <3>1. g = x \o y
      BY <2>4, FakeIPRulesAre
    <3>2. Sends(x, primary, Covered(section.filter)) /\ Sends(y, Fake, Domains)
      BY RulesForSend, EverythingSends DEF DnsLists
    <3> HIDE DEF x, y
    <3>3. IsList(x \o y) /\ ServersIn(x \o y) = ServersIn(x) \cup ServersIn(y)
      BY <3>2, AnswerConcat DEF Sends
    <3> QED BY <2>4, <3>1, <3>2, <3>3 DEF Sends
  <2>5. CASE section.fakeip /\ section.mode \notin Modes
    <3>1. g = Everything(Fake)
      BY <2>5, FakeIPRulesAre
    <3>2. Sends(g, Fake, Domains)
      BY <3>1, EverythingSends
    <3> QED BY <2>5, <3>2 DEF Sends
  <2> QED BY <2>1, <2>2, <2>3, <2>4, <2>5 DEF Modes
<1>4. DnsRules(section) = (a \o b) \o g
  BY DEF DnsRules
<1> HIDE DEF a, b, g, kept, primary
<1>5. IsList(a \o b) /\ ServersIn(a \o b) = ServersIn(a) \cup ServersIn(b)
  BY <1>1, <1>2, AnswerConcat
<1>6. /\ IsList((a \o b) \o g)
      /\ ServersIn((a \o b) \o g) = ServersIn(a \o b) \cup ServersIn(g)
  BY <1>3, <1>5, AnswerConcat
<1> QED BY <1>1, <1>2, <1>3, <1>4, <1>5, <1>6 DEF a, b, g, kept, primary

--------------------------------------------------------------------------------
(* The section that results, and the server of a tag. *)

\* "dns-" and a number tell the number, and are not the tag of the fake server.
TagsTell ==
    /\ \A i, j \in Nat : DnsTag(i) = DnsTag(j) => i = j
    /\ \A i \in Nat : DnsTag(i) # NoName /\ DnsTag(i) # Fake

AllServers(section) == Servers(section) \o IF section.fakeip THEN <<FakeServer>> ELSE <<>>

\* The fields of the section that results.
LEMMA SectionIs ==
    ASSUME NEW section
    PROVE  /\ DocumentDNS(section).servers = AllServers(section)
           /\ DocumentDNS(section).rules = DnsRules(section)
           /\ DocumentDNS(section).final = Primary(section)
           /\ DocumentDNS(section).proxyResolver =
                 FirstNonEmpty(FirstTag(section, section.proxies), Primary(section))
           /\ DocumentDNS(section).directResolver = FirstTag(section, section.directs)
<1> DEFINE a == AllServers(section)
           r == DnsRules(section)
           f == Primary(section)
           p == FirstNonEmpty(FirstTag(section, section.proxies), Primary(section))
           d == FirstTag(section, section.directs)
           s == section.fakeip
<1>1. DocumentDNS(section) =
          [servers |-> a, rules |-> r, final |-> f, proxyResolver |-> p, directResolver |-> d,
           storeFakeIP |-> s]
  BY DEF DocumentDNS, AllServers, FakeServer
<1> HIDE DEF a, r, f, p, d, s
<1>2. /\ DocumentDNS(section).servers = a /\ DocumentDNS(section).rules = r
      /\ DocumentDNS(section).final = f /\ DocumentDNS(section).proxyResolver = p
      /\ DocumentDNS(section).directResolver = d
  BY <1>1
<1> QED BY <1>2 DEF a, r, f, p, d

\* One server has the tag, and the address.
Only(servers, tag, address) ==
    \E k \in 1 .. Len(servers) :
        /\ servers[k].address = address
        /\ {i \in 1 .. Len(servers) : servers[i].tag = tag} = {k}

\* The servers of a section are those added, and the fake one after them.
LEMMA AllServersAre ==
    ASSUME NEW section, DnsLists(section)
    PROVE  /\ IsList(AllServers(section)) /\ Len(Servers(section)) \in Nat
           /\ \A i \in 1 .. Len(Servers(section)) :
                 /\ i \in 1 .. Len(AllServers(section))
                 /\ AllServers(section)[i] = Servers(section)[i]
                 /\ AllServers(section)[i].tag = DnsTag(i)
           /\ \A i \in 1 .. Len(AllServers(section)) :
                 \/ i \in 1 .. Len(Servers(section))
                 \/ /\ section.fakeip /\ i = Len(Servers(section)) + 1
                    /\ AllServers(section)[i].tag = Fake /\ AllServers(section)[i].address = Fake
           /\ section.fakeip => Len(Servers(section)) + 1 \in 1 .. Len(AllServers(section))
<1> DEFINE s == Servers(section)
           all == AllServers(section)
           x == FakeServer
           more == <<x>>
<1>1. IsList(s) /\ Len(s) \in Nat /\ \A i \in 1 .. Len(s) : s[i].tag = DnsTag(i)
  BY ServersAre, ListFacts
<1>2. x.tag = Fake /\ x.address = Fake
  BY DEF FakeServer, Fake, Server
<1> HIDE DEF x
<1>3. IsList(more) /\ Len(more) = 1 /\ more[1] = x
  BY DEF IsList, Range
<1>4. section.fakeip => all = s \o more
  BY DEF AllServers, x
<1>5. ~section.fakeip => all = s
  <2>1. s \o <<>> = s
    BY <1>1, SameOperators, N!ConcatEmpty
  <2> QED BY <2>1 DEF AllServers
<1>6. Joined(s, more, s \o more)
  BY <1>1, <1>3, ConcatItems
<1> HIDE DEF s, all, more
<1>7. CASE section.fakeip
  <2>1. Joined(s, more, all)
    BY <1>4, <1>6, <1>7
  <2>2. /\ IsList(all) /\ Len(all) = Len(s) + 1
        /\ \A i \in 1 .. Len(s) : i \in 1 .. Len(all) /\ all[i] = s[i]
        /\ all[Len(s) + 1] = x
    <3>1. 1 \in 1 .. Len(more)
      BY <1>3
    <3> QED BY <1>3, <2>1, <3>1 DEF Joined
  <2>3. \A i \in 1 .. Len(all) : i \in 1 .. Len(s) \/ i = Len(s) + 1
    BY <1>1, <2>2
  <2>4. Len(s) + 1 \in 1 .. Len(all)
    BY <1>1, <2>2
  <2> QED BY <1>1, <1>2, <1>7, <2>2, <2>3, <2>4 DEF s, all
<1>8. CASE ~section.fakeip
  BY <1>1, <1>5, <1>8 DEF s, all
<1> QED BY <1>7, <1>8

\* A tag of a server that was added is that of no other server.
LEMMA ServedOnce ==
    ASSUME TagsTell, NEW section, DnsLists(section), NEW address, NEW tag,
           Serves(Servers(section), address, tag)
    PROVE  tag # NoName /\ tag # Fake /\ Only(AllServers(section), tag, address)
<1> DEFINE s == Servers(section)
           all == AllServers(section)
<1>1. PICK k \in 1 .. Len(s) : s[k].address = address /\ tag = DnsTag(k)
  BY DEF Serves
<1>2. /\ Len(s) \in Nat
      /\ \A i \in 1 .. Len(s) : i \in 1 .. Len(all) /\ all[i] = s[i] /\ all[i].tag = DnsTag(i)
      /\ \A i \in 1 .. Len(all) : i \in 1 .. Len(s) \/ all[i].tag = Fake
  BY AllServersAre
<1> HIDE DEF s, all
<1>3. k \in Nat /\ \A i \in 1 .. Len(s) : i \in Nat
  BY <1>2
<1>4. tag # NoName /\ tag # Fake
  BY <1>1, <1>3 DEF TagsTell
<1>5. ASSUME NEW i \in 1 .. Len(all), all[i].tag = tag PROVE i = k
  BY <1>1, <1>2, <1>3, <1>4, <1>5 DEF TagsTell
<1>6. k \in 1 .. Len(all) /\ all[k].address = address /\ all[k].tag = tag
  BY <1>1, <1>2
<1>7. {i \in 1 .. Len(all) : all[i].tag = tag} = {k}
  BY <1>5, <1>6
<1> QED BY <1>4, <1>6, <1>7 DEF Only, all

\* And the tag of the fake server is its own.
LEMMA FakeOnce ==
    ASSUME TagsTell, NEW section, DnsLists(section), section.fakeip
    PROVE  Only(AllServers(section), Fake, Fake)
<1> DEFINE s == Servers(section)
           all == AllServers(section)
           k == Len(s) + 1
<1>1. /\ Len(s) \in Nat /\ k \in 1 .. Len(all)
      /\ \A i \in 1 .. Len(s) : all[i].tag = DnsTag(i)
      /\ \A i \in 1 .. Len(all) :
            \/ i \in 1 .. Len(s)
            \/ i = k /\ all[i].tag = Fake /\ all[i].address = Fake
  BY AllServersAre
<1>2. k \notin 1 .. Len(s) /\ \A i \in 1 .. Len(s) : i \in Nat
  BY <1>1
<1> HIDE DEF s, all, k
<1>3. all[k].tag = Fake /\ all[k].address = Fake
  BY <1>1, <1>2
<1>4. ASSUME NEW i \in 1 .. Len(all), all[i].tag = Fake PROVE i = k
  BY <1>1, <1>2, <1>4 DEF TagsTell
<1>5. {i \in 1 .. Len(all) : all[i].tag = Fake} = {k}
  BY <1>1, <1>3, <1>4
<1> QED BY <1>1, <1>3, <1>5 DEF Only, all

SomeServer(section) == \E i \in 1 .. Len(section.nameservers) : section.nameservers[i].usable

LEMMA FirstNonEmptyIs ==
    ASSUME NEW x, NEW y
    PROVE  FirstNonEmpty(x, y) = IF x # NoName THEN x ELSE y
BY DEF FirstNonEmpty, NoName

ResolverTag(section) ==
    FirstNonEmpty(FirstNonEmpty(FirstTag(section, section.proxies), Primary(section)),
                  Primary(section))

\* With a server that can be used, what names a server names one that is given.
LEMMA SectionServes ==
    ASSUME NEW section, DnsLists(section), SomeServer(section)
    PROVE  /\ AllServers(section) # <<>>
           /\ \E address : Serves(Servers(section), address, Primary(section))
           /\ \E address : Serves(Servers(section), address, ResolverTag(section))
           /\ \/ FirstTag(section, section.directs) = NoName
              \/ \E address :
                    Serves(Servers(section), address, FirstTag(section, section.directs))
           /\ \A tag \in ServersIn(DnsRules(section)) :
                 \/ section.fakeip /\ tag = Fake
                 \/ \E address : Serves(Servers(section), address, tag)
<1> DEFINE s == Servers(section)
           primary == Primary(section)
           proxy == FirstTag(section, section.proxies)
           direct == FirstTag(section, section.directs)
           last == FirstTag(section, section.fallback)
           given == Range(Given(section))
<1>1. \E address : Serves(s, address, primary)
  <2>1. IsList(section.nameservers) /\ Range(section.nameservers) \subseteq given
    BY GivenAre DEF DnsLists
  <2>2. \E i \in 1 .. Len(section.nameservers) : FirstServes(section, section.nameservers, i)
    BY <2>1, FirstTagServes DEF SomeServer
  <2> QED BY <2>2 DEF FirstServes, Primary
<1>2. proxy = NoName \/ \E address : Serves(s, address, proxy)
  <2>1. IsList(section.proxies) /\ Range(section.proxies) \subseteq given
    BY GivenAre DEF DnsLists
  <2> QED BY <2>1, FirstTagServes DEF FirstServes
<1>3. direct = NoName \/ \E address : Serves(s, address, direct)
  <2>1. IsList(section.directs) /\ Range(section.directs) \subseteq given
    BY GivenAre DEF DnsLists
  <2> QED BY <2>1, FirstTagServes DEF FirstServes
<1>4. last = NoName \/ \E address : Serves(s, address, last)
  <2>1. IsList(section.fallback) /\ Range(section.fallback) \subseteq given
    BY GivenAre DEF DnsLists
  <2> QED BY <2>1, FirstTagServes DEF FirstServes
<1>5. ASSUME NEW p \in Range(KeptPolicies(section))
      PROVE  \E address : Serves(s, address, PolicyTag(section, p))
  <2>1. p \in Range(Policies(section)) /\ p.servers[1].usable
    BY PolicyRulesAre
  <2>2. p.servers[1] \in given
    BY <2>1, GivenAre
  <2> DEFINE raw == p.servers[1]
  <2> HIDE DEF raw
  <2>3. raw \in given /\ raw.usable /\ PolicyTag(section, p) = TagOf(s, raw.address)
    BY <2>1, <2>2 DEF PolicyTag, raw
  <2> QED BY <2>3, ServersAre
<1>6. \A tag \in ServersIn(DnsRules(section)) :
         \/ \E p \in Range(KeptPolicies(section)) : tag = PolicyTag(section, p)
         \/ tag = last /\ tag # NoName
         \/ section.fakeip /\ tag \in {primary, Fake}
  BY RuleServers
<1>7. ResolverTag(section) \in {proxy, primary}
      /\ (ResolverTag(section) = proxy => proxy # NoName \/ proxy = primary)
  BY FirstNonEmptyIs DEF ResolverTag
<1>8. AllServers(section) # <<>>
  <2>1. PICK address : Serves(s, address, primary)
    BY <1>1
  <2>2. PICK i \in 1 .. Len(s) : TRUE
    BY <2>1 DEF Serves
  <2>3. i \in 1 .. Len(AllServers(section))
    BY <2>2, AllServersAre
  <2> HIDE DEF s
  <2> QED BY <2>3, EmptyFacts
<1> HIDE DEF s, primary, proxy, direct, last, given
<1>9. \E address : Serves(s, address, ResolverTag(section))
  BY <1>1, <1>2, <1>7
<1>10. \A tag \in ServersIn(DnsRules(section)) :
          \/ section.fakeip /\ tag = Fake
          \/ \E address : Serves(s, address, tag)
  BY <1>1, <1>4, <1>5, <1>6
<1> QED BY <1>1, <1>3, <1>8, <1>9, <1>10 DEF s, primary, direct

AfterDns == {"sets", "rules", "patch", "done"}

DnsInv ==
    /\ config \in Configs /\ {"dns", "resolver"} \subseteq DOMAIN doc
    /\ pc \in AfterDns /\ config.dns.enabled /\ AllServers(config.dns) # <<>> =>
          /\ doc.dns = DocumentDNS(config.dns)
          /\ doc.resolver = ResolverTag(config.dns)

LEMMA InitDns == Init => DnsInv
BY DEF Init, DefaultDocument, DnsInv, AfterDns

LEMMA RefusedDns == ASSUME DnsInv, Refuse PROVE DnsInv'
BY DEF DnsInv, AfterDns, Refuse

\* documentDNS fills in the section, and nothing after it changes the section.
LEMMA StepDns == DnsInv /\ [Next]_vars => DnsInv'
<1> SUFFICES ASSUME DnsInv, [Next]_vars PROVE DnsInv'
  OBVIOUS
<1> USE DEF AfterDns
<1>1. CASE DecodeDNS
  <2> DEFINE section == config.dns
             made == DocumentDNS(section)
             resolver == FirstNonEmpty(made.proxyResolver, made.final)
  <2>1. /\ pc' = "sets" /\ config' = config
        /\ section.enabled =>
              doc' = IF made.servers = <<>> THEN doc
                     ELSE [doc EXCEPT !.dns = made, !.resolver = resolver]
        /\ ~section.enabled => doc' = doc
    BY <1>1 DEF DecodeDNS
  <2>2. made.servers = AllServers(section) /\ resolver = ResolverTag(section)
    BY SectionIs DEF ResolverTag
  <2> HIDE DEF made, resolver
  <2>3. section.enabled /\ AllServers(section) # <<>> =>
            doc'.dns = made /\ doc'.resolver = ResolverTag(section)
    BY <2>1, <2>2 DEF DnsInv
  <2>4. {"dns", "resolver"} \subseteq DOMAIN doc'
    BY <2>1 DEF DnsInv
  <2> QED BY <2>1, <2>3, <2>4 DEF DnsInv, made
<1>2. CASE \/ DecodeProxy \/ DecodeProvided \/ EndOfProvider \/ ResolveProvider \/ Start
           \/ Turn("proxies", Len(config.proxies), "providers")
           \/ Turn("providers", Len(config.providers), "members")
           \/ Turn("members", Len(resolved), "groups") \/ DecodeGroup
           \/ Turn("groups", Len(config.groups), "dns")
  <2>1. CASE Refuse
    BY <2>1, RefusedDns
  <2>2. CASE ~Refuse
    <3>1. /\ pc' \notin AfterDns /\ config' = config
          /\ \/ doc' = doc
             \/ \E x : doc' = [doc EXCEPT !.nodes = x]
             \/ \E x : doc' = [doc EXCEPT !.groups = x]
      <4>1. CASE DecodeGroup
        BY <2>2, <4>1 DEF DecodeGroup
      <4>2. CASE ~DecodeGroup
        BY <1>2, <2>2, <4>2
        DEF DecodeProxy, DecodeProvided, EndOfProvider, ResolveProvider, Start, Turn, AppendProxy
      <4> QED BY <4>1, <4>2
    <3> QED BY <3>1 DEF DnsInv
  <2> QED BY <2>1, <2>2
<1>3. CASE \/ ResolveRuleProvider \/ Turn("sets", Len(config.ruleProviders), "rules")
           \/ DecodeRule \/ Validate \/ MakePatch \/ Finished \/ UNCHANGED vars
  <2>1. CASE Refuse
    BY <2>1, RefusedDns
  <2>2. CASE ~Refuse
    <3>1. /\ pc' \in AfterDns => pc \in AfterDns
          /\ config' = config
          /\ \/ doc' = doc
             \/ \E x : doc' = [doc EXCEPT !.ruleSets = x]
             \/ \E x : doc' = [doc EXCEPT !.rules = x]
             \/ \E x : doc' = [doc EXCEPT !.final = x]
      <4>1. CASE ResolveRuleProvider
        BY <2>2, <4>1 DEF ResolveRuleProvider
      <4>2. CASE DecodeRule
        BY <4>2 DEF DecodeRule, WithRule
      <4>3. CASE ~(ResolveRuleProvider \/ DecodeRule)
        BY <1>3, <2>2, <4>3 DEF Turn, Validate, MakePatch, Finished, vars
      <4> QED BY <4>1, <4>2, <4>3
    <3>2. doc'.dns = doc.dns /\ doc'.resolver = doc.resolver /\ DOMAIN doc' = DOMAIN doc
      BY <3>1 DEF DnsInv
    <3> QED BY <3>1, <3>2 DEF DnsInv
  <2> QED BY <2>1, <2>2
<1> QED BY <1>1, <1>2, <1>3 DEF Next

LEMMA StepPipelineDns ==
    DnsInv /\ [PipelineNext]_<<vars, handed, encoderVars>> => DnsInv'
BY StepDns, RefusedDns, PipelineSteps

\* What a decoded section is, if one of its name servers can be used.
LEMMA DecodedDns ==
    ASSUME DnsInv, Decoded, AnyServer
    PROVE  /\ DnsLists(Dns) /\ SomeServer(Dns)
           /\ doc.dns.servers = AllServers(Dns) /\ doc.dns.rules = DnsRules(Dns)
           /\ doc.dns.final = Primary(Dns) /\ doc.resolver = ResolverTag(Dns)
           /\ doc.dns.directResolver = FirstTag(Dns, Dns.directs)
<1>1. DnsLists(Dns) /\ SomeServer(Dns)
  BY ConfigsAssumption DEF DnsInv, Dns, AnyServer, SomeServer
<1>2. AllServers(Dns) # <<>>
  BY <1>1, SectionServes
<1>3. doc.dns = DocumentDNS(Dns) /\ doc.resolver = ResolverTag(Dns)
  BY <1>2 DEF DnsInv, Decoded, Dns, AfterDns
<1> QED BY <1>1, <1>3, SectionIs

LEMMA OnlyOne ==
    ASSUME NEW servers, NEW tag, NEW address, Only(servers, tag, address)
    PROVE  Cardinality({i \in 1 .. Len(servers) : servers[i].tag = tag}) = 1
BY FS_Singleton DEF Only

\* addServer and firstUsable: whatever of a section names a server names one that
\* was added for it, and the numbers of "dns-" tags tell servers apart.
THEOREM ServersAreDefined == TagsTell => (Pipeline => []ServersDefined)
<1> SUFFICES ASSUME TagsTell PROVE Pipeline => []ServersDefined
  OBVIOUS
<1>1. PipelineInit => DnsInv
  BY InitDns DEF PipelineInit
<1>2. DnsInv => ServersDefined
  <2> SUFFICES ASSUME DnsInv, Decoded, AnyServer
               PROVE  /\ \A tag \in {doc.dns.final, doc.resolver}
                            \cup {doc.dns.rules[i].server : i \in 1 .. Len(doc.dns.rules)}
                            \cup ({doc.dns.directResolver} \ {NoName}) :
                         Cardinality({i \in 1 .. Len(doc.dns.servers) :
                                         doc.dns.servers[i].tag = tag}) = 1
                      /\ doc.resolver # Fake /\ doc.dns.final # Fake
    BY DEF ServersDefined, NoName, Fake
  <2> DEFINE section == Dns
             all == AllServers(section)
             rules == DnsRules(section)
             primary == Primary(section)
             resolver == ResolverTag(section)
             direct == FirstTag(section, section.directs)
  <2>1. /\ DnsLists(section) /\ SomeServer(section)
        /\ doc.dns.servers = all /\ doc.dns.rules = rules
        /\ doc.dns.final = primary /\ doc.resolver = resolver /\ doc.dns.directResolver = direct
    BY DecodedDns
  <2>2. /\ \E address : Serves(Servers(section), address, primary)
        /\ \E address : Serves(Servers(section), address, resolver)
        /\ direct = NoName \/ \E address : Serves(Servers(section), address, direct)
        /\ \A tag \in ServersIn(rules) :
              \/ section.fakeip /\ tag = Fake
              \/ \E address : Serves(Servers(section), address, tag)
    BY <2>1, SectionServes
  <2>3. /\ \A address, tag : Serves(Servers(section), address, tag) =>
              tag # NoName /\ tag # Fake /\ Only(all, tag, address)
        /\ section.fakeip => Only(all, Fake, Fake)
    BY <2>1, ServedOnce, FakeOnce
  <2> HIDE DEF section, all, rules, primary, resolver, direct
  <2>4. \A tag \in {primary, resolver} \cup ServersIn(rules) \cup ({direct} \ {NoName}) :
            \E address : Only(all, tag, address)
    BY <2>2, <2>3
  <2>5. \A tag \in {primary, resolver} \cup ServersIn(rules) \cup ({direct} \ {NoName}) :
            Cardinality({i \in 1 .. Len(all) : all[i].tag = tag}) = 1
    BY <2>4, OnlyOne
  <2>6. resolver # Fake /\ primary # Fake
    BY <2>2, <2>3
  <2> DEFINE Single(servers, tag) ==
               Cardinality({i \in 1 .. Len(servers) : servers[i].tag = tag}) = 1
  <2>7. \A tag \in {primary, resolver} \cup ServersIn(rules) \cup ({direct} \ {NoName}) :
            Single(all, tag)
    BY <2>5
  <2> HIDE DEF Single
  <2>8. \A tag \in {doc.dns.final, doc.resolver} \cup ServersIn(doc.dns.rules)
                   \cup ({doc.dns.directResolver} \ {NoName}) :
            Single(doc.dns.servers, tag)
    BY <2>1, <2>7
  <2>9. doc.resolver # Fake /\ doc.dns.final # Fake
    BY <2>1, <2>6
  <2> QED BY <2>8, <2>9 DEF ServersIn, Single
<1> QED BY <1>1, <1>2, StepPipelineDns, PTL DEF Pipeline

--------------------------------------------------------------------------------
(* What is answered, and what is asked for. *)

\* The tag is that of the server with the address, fake or not.
Means(section, tag, address) ==
    \/ Serves(Servers(section), address, tag)
    \/ section.fakeip /\ tag = Fake /\ address = Fake

\* What a tag means is what it leads to in the document.
LEMMA MeansAddress ==
    ASSUME TagsTell, NEW section, DnsLists(section), NEW tag, NEW address,
           Means(section, tag, address), doc.dns.servers = AllServers(section)
    PROVE  AddressOf(tag) = address
<1> DEFINE all == AllServers(section)
           I == {i \in 1 .. Len(all) : all[i].tag = tag}
           p == SelectInSeq(all, LAMBDA s : s.tag = tag)
<1>1. Only(all, tag, address)
  BY ServedOnce, FakeOnce DEF Means
<1>2. AddressOf(tag) = all[p].address
  BY DEF AddressOf
<1>3. p = IF I # {} THEN Min(I) ELSE 0
  BY DEF SelectInSeq
<1>4. Len(all) \in Nat
  BY AllServersAre, ListFacts
<1>5. PICK k \in 1 .. Len(all) : all[k].address = address /\ I = {k}
  BY <1>1 DEF Only
<1> HIDE DEF I, all, p
<1>6. I \subseteq 1 .. Len(all) /\ I # {}
  BY <1>5
<1>7. Min(I) \in I
  BY <1>4, <1>6, LeastIn
<1>8. p = k
  BY <1>3, <1>5, <1>6, <1>7
<1> QED BY <1>2, <1>5, <1>8

LEMMA AnsweringIs == \A n : Answering(n) = AddressOf(AnswerOf(doc.dns.rules, n, doc.dns.final))
BY DEF Answering, AnswerOf, FirstRule

\* Rules that are made of items one by one answer by the first item that they apply for.
LEMMA AnswerFirst ==
    ASSUME NEW rules, IsList(rules), NEW items, IsList(items), Len(rules) = Len(items),
           NEW n, NEW those, NEW otherwise,
           \A i \in 1 .. Len(items) : Applies(rules[i], n) <=> items[i] \in those
    PROVE  \/ Picked(those, items) = <<>> /\ AnswerOf(rules, n, otherwise) = otherwise
           \/ /\ Picked(those, items) # <<>>
              /\ \E i \in 1 .. Len(items) :
                    /\ Picked(those, items)[1] = items[i] /\ items[i] \in those
                    /\ AnswerOf(rules, n, otherwise) = rules[i].server
<1>1. \/ Picked(those, items) = <<>> /\ \A i \in 1 .. Len(items) : items[i] \notin those
      \/ /\ Picked(those, items) # <<>>
         /\ \E i \in 1 .. Len(items) :
               /\ Picked(those, items)[1] = items[i] /\ items[i] \in those
               /\ \A j \in 1 .. Len(items) : items[j] \in those => i <= j
  BY SameOperators, N!PickedFirst
<1>2. CASE Picked(those, items) = <<>> /\ \A i \in 1 .. Len(items) : items[i] \notin those
  BY <1>2, AnswerIs DEF FirstToApply
<1>3. CASE /\ Picked(those, items) # <<>>
           /\ \E i \in 1 .. Len(items) :
                 /\ Picked(those, items)[1] = items[i] /\ items[i] \in those
                 /\ \A j \in 1 .. Len(items) : items[j] \in those => i <= j
  <2>1. PICK i \in 1 .. Len(items) :
            /\ Picked(those, items)[1] = items[i] /\ items[i] \in those
            /\ \A j \in 1 .. Len(items) : items[j] \in those => i <= j
    BY <1>3
  <2>2. i \in 1 .. Len(rules) /\ FirstToApply(rules, n, i)
    BY <2>1 DEF FirstToApply
  <2>3. AnswerOf(rules, n, otherwise) = rules[i].server
    BY <2>2, AnswerBy
  <2> QED BY <1>3, <2>1, <2>3
<1> QED BY <1>1, <1>2, <1>3

CoveringThose(patterns, n) == {p \in Range(patterns) : p.usable /\ n \in p.match}

\* The patterns that cover a name.
LEMMA CoveringIs ==
    ASSUME NEW patterns, IsList(patterns), NEW n \in Domains
    PROVE  /\ Covering(patterns, n) = Picked(CoveringThose(patterns, n), patterns)
           /\ Covering(patterns, n) # <<>> <=> n \in Covered(patterns)
<1> DEFINE those == CoveringThose(patterns, n)
           found == Picked(those, patterns)
<1>1. Covering(patterns, n) = found
  BY DEF Covering, Selected, CoveringThose
<1>2. \A p : p \in those <=> p \in Range(patterns) /\ p.usable /\ n \in p.match
  BY DEF CoveringThose
<1>3. n \in Covered(patterns) <=> \E p \in Range(patterns) : p \in those
  BY <1>2 DEF Covered
<1>4. Range(patterns) = {patterns[i] : i \in 1 .. Len(patterns)}
  BY ListFacts
<1> HIDE DEF those
<1>5. \/ found = <<>> /\ \A i \in 1 .. Len(patterns) : patterns[i] \notin those
      \/ found # <<>> /\ \E i \in 1 .. Len(patterns) : patterns[i] \in those
  BY SameOperators, N!PickedFirst
<1> HIDE DEF found
<1>6. found # <<>> <=> n \in Covered(patterns)
  BY <1>3, <1>4, <1>5
<1> QED BY <1>1, <1>6 DEF found, those

\* What it means that documentDNS has nothing to warn of.
LEMMA NoWarning ==
    ASSUME NEW section, DnsLists(section), DnsWarnings(section) = {}
    PROVE  /\ \A raw \in Range(Given(section)) : raw.usable
           /\ \A p \in Range(Policies(section)) : p.servers[1].usable /\ p.pattern.usable
           /\ section.fakeip =>
                 \/ /\ section.mode = "rule"
                    /\ \A line \in Range(section.filter) : LineUsable(line)
                 \/ section.mode \in {"whitelist", "blacklist"}
<1> DEFINE given == Given(section)
           policies == Policies(section)
           filter == section.filter
           fake == IF ~section.fakeip THEN {}
                   ELSE CASE section.mode = "rule" -> Unusable("fake-ip rule", filter, LineUsable)
                          [] section.mode \in {"whitelist", "blacklist"} ->
                                 Unusable("fake-ip filter", filter, LAMBDA p : p.usable)
                          [] OTHER -> {<<"fake-ip filter mode", 0>>}
<1>1. /\ Unusable("dns server", given, LAMBDA raw : raw.usable) = {}
      /\ Unusable("dns policy", policies, LAMBDA p : ~p.servers[1].usable \/ p.pattern.usable) = {}
      /\ fake = {}
  BY DEF DnsWarnings
<1>2. /\ IsList(given) /\ IsList(policies) /\ IsList(filter)
      /\ \A p \in Range(policies) : p.servers[1] \in Range(given)
  BY GivenAre DEF DnsLists
<1>3. \A i \in 1 .. Len(given) : given[i].usable
  BY <1>1 DEF Unusable
<1>4. \A i \in 1 .. Len(policies) : ~policies[i].servers[1].usable \/ policies[i].pattern.usable
  BY <1>1 DEF Unusable
<1>5. CASE section.fakeip /\ section.mode = "rule"
  <2>1. Unusable("fake-ip rule", filter, LineUsable) = {}
    BY <1>1, <1>5
  <2>2. \A i \in 1 .. Len(filter) : LineUsable(filter[i])
    BY <2>1 DEF Unusable
  <2>3. Range(filter) = {filter[i] : i \in 1 .. Len(filter)}
    BY <1>2, ListFacts
  <2>4. \A line \in Range(filter) : LineUsable(line)
    BY <2>2, <2>3
  <2> QED BY <1>5, <2>4, <1>2, <1>3, <1>4, ListFacts
<1>6. CASE section.fakeip /\ section.mode # "rule"
  <2>1. section.mode \in {"whitelist", "blacklist"}
    BY <1>1, <1>6
  <2> QED BY <2>1, <1>2, <1>3, <1>4, ListFacts
<1>7. CASE ~section.fakeip
  BY <1>7, <1>2, <1>3, <1>4, ListFacts
<1> QED BY <1>5, <1>6, <1>7

\* A list of servers that can all be used serves by its first.
LEMMA FirstOfUsable ==
    ASSUME NEW section, DnsLists(section), \A raw \in Range(Given(section)) : raw.usable,
           NEW raws, IsList(raws), Range(raws) \subseteq Range(Given(section))
    PROVE  \/ raws = <<>> /\ FirstTag(section, raws) = NoName
           \/ raws # <<>> /\ Serves(Servers(section), raws[1].address, FirstTag(section, raws))
<1>1. Len(raws) \in Nat /\ \A i \in 1 .. Len(raws) : raws[i].usable
  BY ListFacts
<1>2. raws = <<>> <=> Len(raws) = 0
  BY DEF IsList
<1>3. CASE raws = <<>>
  BY <1>1, <1>2, <1>3, FirstTagServes DEF FirstServes
<1>4. CASE raws # <<>>
  <2>1. 1 \in 1 .. Len(raws) /\ \A i \in 1 .. Len(raws) : i \in Nat /\ (i <= 1 => i = 1)
    BY <1>1, <1>2, <1>4
  <2>2. PICK i \in 1 .. Len(raws) : FirstServes(section, raws, i)
    BY <1>1, <2>1, FirstTagServes
  <2>3. i = 1
    BY <1>1, <2>1, <2>2 DEF FirstServes
  <2> QED BY <1>4, <2>2, <2>3 DEF FirstServes
<1> QED BY <1>3, <1>4

\* What a Clash client asks, part by part.
PolicyThose(section, n) ==
    {p \in Range(Policies(section)) : p.pattern.usable /\ n \in p.pattern.match}
PoliciesFor(section, n) == Picked(PolicyThose(section, n), Policies(section))

\* The parts of AddressAsked one by one.
LEMMA AddressAskedIs ==
    ASSUME NEW n
    PROVE  /\ PoliciesFor(Dns, n) # <<>> =>
                 AddressAsked(n) = PoliciesFor(Dns, n)[1].servers[1].address
           /\ PoliciesFor(Dns, n) = <<>> =>
                 /\ Faked(n) => AddressAsked(n) = Fake
                 /\ ~Faked(n) /\ FallenBack(n) => AddressAsked(n) = Dns.fallback[1].address
                 /\ ~Faked(n) /\ ~FallenBack(n) => AddressAsked(n) = Dns.nameservers[1].address
<1> DEFINE policies == PoliciesFor(Dns, n)
           first == policies[1].servers[1].address
           second == Dns.fallback[1].address
           last == Dns.nameservers[1].address
           fake == Faked(n)
           back == FallenBack(n)
<1>1. AddressAsked(n) =
          CASE policies # <<>> -> first
            [] policies = <<>> /\ fake -> Fake
            [] policies = <<>> /\ back -> second
            [] OTHER -> last
  BY DEF AddressAsked, PoliciesFor, PolicyThose, Selected, Fake
<1>2. ~(fake /\ back)
  BY DEF Faked, FallenBack
<1> HIDE DEF policies, first, second, last, fake, back
<1>3. policies # <<>> => AddressAsked(n) = first
  BY <1>1
<1>4. policies = <<>> /\ fake => AddressAsked(n) = Fake
  BY <1>1, <1>2
<1>5. policies = <<>> /\ ~fake /\ back => AddressAsked(n) = second
  BY <1>1, <1>2
<1>6. policies = <<>> /\ ~fake /\ ~back => AddressAsked(n) = last
  BY <1>1
<1> QED BY <1>3, <1>4, <1>5, <1>6 DEF policies, first, second, last, fake, back

\* The fallback is asked for the names of its filter.
LEMMA FallenBackIs ==
    ASSUME DnsLists(Dns), NEW n \in Domains
    PROVE  FallenBack(n) <=> ~Dns.fakeip /\ Dns.fallback # <<>> /\ n \in FilterNames(Dns)
<1> DEFINE a == Dns.filterDomains
           b == Dns.cidrs
           c == a \o b
<1>1. IsList(a) /\ IsList(b) /\ IsList(c) /\ Range(c) = Range(a) \cup Range(b)
  BY ConcatFacts DEF DnsLists
<1>2. Covering(c, n) # <<>> <=> n \in Covered(c)
  BY <1>1, CoveringIs
<1>3. n \in Covered(c) <=> n \in Covered(a) \cup Covered(b)
  BY <1>1 DEF Covered
<1>4. n \in GeoNames(Dns.geoip) <=> Dns.geoip.enabled /\ n \notin Dns.geoip.match
  BY DEF GeoNames
<1> QED BY <1>2, <1>3, <1>4 DEF FallenBack, FilterNames

\* The names that are answered by a fake address, mode by mode.
LEMMA FakedIs ==
    ASSUME DnsLists(Dns), NEW n \in Domains
    PROVE  /\ ~Dns.fakeip => ~Faked(n)
           /\ Dns.fakeip =>
                 /\ Dns.mode = "blacklist" => (Faked(n) <=> n \notin Covered(Dns.filter))
                 /\ Dns.mode = "whitelist" => (Faked(n) <=> n \in Covered(Dns.filter))
                 /\ Dns.mode = "rule" =>
                       (Faked(n) <=> /\ Covering(Dns.filter, n) # <<>>
                                     /\ Covering(Dns.filter, n)[1].target = "fake-ip")
<1>1. Filter(n) <=> n \in Covered(Dns.filter)
  BY CoveringIs DEF Filter, DnsLists
<1>2. ~Dns.fakeip => ~Faked(n)
  BY DEF Faked
<1>3. Dns.fakeip /\ Dns.mode = "blacklist" => (Faked(n) <=> ~Filter(n))
  BY DEF Faked
<1>4. Dns.fakeip /\ Dns.mode = "whitelist" => (Faked(n) <=> Filter(n))
  BY DEF Faked
<1>5. Dns.fakeip /\ Dns.mode = "rule" =>
          (Faked(n) <=> Filter(n) /\ Covering(Dns.filter, n)[1].target = "fake-ip")
  BY DEF Faked
<1> QED BY <1>1, <1>2, <1>3, <1>4, <1>5 DEF Filter

\* Without rules another answers.
LEMMA AnswerNone == \A n \in Domains : \A otherwise : AnswerOf(<<>>, n, otherwise) = otherwise
<1> SUFFICES ASSUME NEW n \in Domains, NEW otherwise PROVE AnswerOf(<<>>, n, otherwise) = otherwise
  OBVIOUS
<1>1. Sends(<<>>, NoName, {})
  BY SendsNothing
<1> HIDE DEF NoName
<1> QED BY <1>1, SendsAnswer

\* The rules of the filter answer as a Clash client would, unless a line is about
\* addresses.
LEMMA FilterAnswers ==
    ASSUME DnsLists(Dns), DnsWarnings(Dns) = {}, NEW n \in Domains,
           Dns.mode = "rule" => \A i \in 1 .. Len(Dns.filter) : ~Dns.filter[i].onAddress
    PROVE  AnswerOf(FakeIPRules(Dns), n, Primary(Dns)) =
              IF Faked(n) THEN Fake ELSE Primary(Dns)
<1> DEFINE rules == FakeIPRules(Dns)
           primary == Primary(Dns)
           filter == Dns.filter
           fake == Faked(n)
<1>1. CASE ~Dns.fakeip
  <2>1. rules = <<>> /\ ~fake
    BY <1>1, FakeIPRulesAre, FakedIs
  <2> HIDE DEF rules, fake
  <2> QED BY <2>1, AnswerNone DEF rules, fake
<1>2. CASE Dns.fakeip /\ Dns.mode = "whitelist"
  <2>1. rules = RulesFor(filter, Fake) /\ (fake <=> n \in Covered(filter))
    BY <1>2, FakeIPRulesAre, FakedIs
  <2>2. Sends(rules, Fake, Covered(filter))
    BY <2>1, RulesForSend DEF DnsLists
  <2> HIDE DEF rules, fake, filter, primary
  <2>3. AnswerOf(rules, n, primary) = IF fake THEN Fake ELSE primary
    BY <2>1, <2>2, SendsAnswer
  <2> QED BY <2>3 DEF rules, fake, primary
<1>3. CASE Dns.fakeip /\ Dns.mode = "blacklist"
  <2> DEFINE x == RulesFor(filter, primary)
             y == Everything(Fake)
  <2>1. rules = x \o y /\ (fake <=> n \notin Covered(filter))
    BY <1>3, FakeIPRulesAre, FakedIs
  <2>2. Sends(x, primary, Covered(filter)) /\ Sends(y, Fake, Domains)
    BY RulesForSend, EverythingSends DEF DnsLists
  <2> HIDE DEF rules, fake, filter, primary, x, y
  <2>3. AnswerOf(y, n, primary) = Fake
    BY <2>2, SendsAnswer
  <2>4. AnswerOf(x, n, Fake) = IF n \in Covered(filter) THEN primary ELSE Fake
    BY <2>2, SendsAnswer
  <2>5. AnswerOf(x \o y, n, primary) = AnswerOf(x, n, AnswerOf(y, n, primary))
    BY <2>2, AnswerConcat DEF Sends
  <2>6. AnswerOf(rules, n, primary) = IF fake THEN Fake ELSE primary
    BY <2>1, <2>3, <2>4, <2>5
  <2> QED BY <2>6 DEF rules, fake, primary
<1>4. CASE /\ Dns.fakeip /\ Dns.mode = "rule"
           /\ \A line \in Range(filter) : LineUsable(line)
  <2> DEFINE those == CoveringThose(filter, n)
             found == Picked(those, filter)
  <2>1. IsList(filter) /\ Range(filter) = {filter[i] : i \in 1 .. Len(filter)}
    BY ListFacts DEF DnsLists
  <2>2. KeptLines(filter) = filter
    <3> DEFINE all == {line \in Range(filter) : LineUsable(line)}
    <3>1. Range(filter) \subseteq all
      BY <1>4
    <3>2. KeptLines(filter) = Picked(all, filter)
      BY DEF KeptLines
    <3> HIDE DEF all, filter
    <3> QED BY <2>1, <3>1, <3>2, SameOperators, N!PickedAll
  <2>3. rules = LineRules(Dns) /\ (fake <=> found # <<>> /\ found[1].target = "fake-ip")
    BY <1>4, <2>1, FakeIPRulesAre, FakedIs, CoveringIs
  <2>4. /\ IsList(rules) /\ Len(rules) = Len(filter)
        /\ \A i \in 1 .. Len(filter) :
              /\ rules[i].server = LineTag(Dns, filter[i])
              /\ \A m : Applies(rules[i], m) <=> m \in LineNames(filter[i])
    BY <2>2, <2>3, LineRulesAre
  <2>5. ASSUME NEW i \in 1 .. Len(filter)
        PROVE  Applies(rules[i], n) <=> filter[i] \in those
    <3>1. LineNames(filter[i]) = filter[i].match
      BY <1>4 DEF LineNames
    <3>2. filter[i].usable /\ filter[i] \in Range(filter)
      BY <1>4, <2>1 DEF LineUsable
    <3> HIDE DEF rules
    <3> QED BY <2>4, <3>1, <3>2 DEF CoveringThose
  <2> HIDE DEF rules, fake, filter, primary, those, found
  <2>6. \/ found = <<>> /\ AnswerOf(rules, n, primary) = primary
        \/ /\ found # <<>>
           /\ \E i \in 1 .. Len(filter) :
                 found[1] = filter[i] /\ AnswerOf(rules, n, primary) = rules[i].server
    BY <2>1, <2>4, <2>5, AnswerFirst DEF found
  <2>7. \A i \in 1 .. Len(filter) :
            rules[i].server = IF filter[i].target = "fake-ip" THEN Fake ELSE primary
    BY <2>4 DEF LineTag, primary
  <2>8. AnswerOf(rules, n, primary) = IF fake THEN Fake ELSE primary
    BY <2>3, <2>6, <2>7
  <2> QED BY <2>8 DEF rules, fake, primary
<1> QED BY <1>1, <1>2, <1>3, <1>4, NoWarning

\* Of the policies the first that covers a name answers for it.
LEMMA PoliciesAnswer ==
    ASSUME NEW section, DnsLists(section), NEW n \in Domains, NEW otherwise,
           \A raw \in Range(Given(section)) : raw.usable,
           \A p \in Range(Policies(section)) : p.servers[1].usable /\ p.pattern.usable
    PROVE  \/ /\ PoliciesFor(section, n) = <<>>
              /\ AnswerOf(PolicyRules(section), n, otherwise) = otherwise
           \/ /\ PoliciesFor(section, n) # <<>>
              /\ Serves(Servers(section), PoliciesFor(section, n)[1].servers[1].address,
                        AnswerOf(PolicyRules(section), n, otherwise))
<1> DEFINE policies == Policies(section)
           those == PolicyThose(section, n)
           found == Picked(those, policies)
           rules == PolicyRules(section)
<1>1. /\ IsList(policies) /\ Range(policies) = {policies[i] : i \in 1 .. Len(policies)}
      /\ \A p \in Range(policies) : p.servers[1] \in Range(Given(section))
  BY GivenAre, ListFacts
<1>2. KeptPolicies(section) = policies
  <2> DEFINE all == {p \in Range(policies) : p.servers[1].usable /\ p.pattern.usable}
  <2>1. Range(policies) \subseteq all
    OBVIOUS
  <2>2. KeptPolicies(section) = Picked(all, policies)
    BY DEF KeptPolicies
  <2> HIDE DEF all, policies
  <2> QED BY <1>1, <2>1, <2>2, SameOperators, N!PickedAll
<1>3. /\ IsList(rules) /\ Len(rules) = Len(policies)
      /\ \A i \in 1 .. Len(policies) :
            /\ rules[i].server = PolicyTag(section, policies[i])
            /\ \A m : Applies(rules[i], m) <=> m \in policies[i].pattern.match
  BY <1>2, PolicyRulesAre
<1>4. ASSUME NEW i \in 1 .. Len(policies) PROVE Applies(rules[i], n) <=> policies[i] \in those
  <2>1. policies[i] \in Range(policies) /\ policies[i].pattern.usable
    BY <1>1
  <2> HIDE DEF rules
  <2> QED BY <1>3, <2>1 DEF PolicyThose
<1>5. ASSUME NEW i \in 1 .. Len(policies)
      PROVE  Serves(Servers(section), policies[i].servers[1].address, rules[i].server)
  <2> DEFINE raw == policies[i].servers[1]
  <2>1. raw \in Range(Given(section)) /\ raw.usable
    BY <1>1
  <2>2. rules[i].server = TagOf(Servers(section), raw.address)
    BY <1>3 DEF PolicyTag
  <2> HIDE DEF raw, rules
  <2>3. Serves(Servers(section), raw.address, rules[i].server)
    BY <2>1, <2>2, ServersAre
  <2> QED BY <2>3 DEF raw
<1>6. PoliciesFor(section, n) = found
  BY DEF PoliciesFor
<1> HIDE DEF policies, those, rules, found
<1>7. \/ found = <<>> /\ AnswerOf(rules, n, otherwise) = otherwise
      \/ /\ found # <<>>
         /\ \E i \in 1 .. Len(policies) :
               found[1] = policies[i] /\ AnswerOf(rules, n, otherwise) = rules[i].server
  BY <1>1, <1>3, <1>4, AnswerFirst DEF found
<1>8. \/ found = <<>> /\ AnswerOf(rules, n, otherwise) = otherwise
      \/ /\ found # <<>>
         /\ Serves(Servers(section), found[1].servers[1].address, AnswerOf(rules, n, otherwise))
  BY <1>5, <1>7
<1> QED BY <1>6, <1>8 DEF rules

\* The order of the rules: policies, then the fallback, then the filter, then the rest.
LEMMA AnswersMean ==
    ASSUME TagsTell, DnsLists(Dns), SomeServer(Dns), DnsWarnings(Dns) = {}, NEW n \in Domains,
           Dns.mode = "rule" => \A i \in 1 .. Len(Dns.filter) : ~Dns.filter[i].onAddress
    PROVE  Means(Dns, AnswerOf(DnsRules(Dns), n, Primary(Dns)), AddressAsked(n))
<1> DEFINE a == PolicyRules(Dns)
           b == FallbackRules(Dns)
           g == FakeIPRules(Dns)
           primary == Primary(Dns)
           second == FirstTag(Dns, Dns.fallback)
           byFilter == AnswerOf(g, n, primary)
           byFallback == AnswerOf(b, n, byFilter)
           answer == AnswerOf(a, n, byFallback)
           policies == PoliciesFor(Dns, n)
           fake == Faked(n)
           back == FallenBack(n)
           asked == AddressAsked(n)
           servers == Servers(Dns)
<1>1. AnswerOf(DnsRules(Dns), n, primary) = answer
  <2>1. IsList(a) /\ IsList(b) /\ IsList(g) /\ DnsRules(Dns) = (a \o b) \o g
    BY RuleServers DEF DnsRules
  <2> HIDE DEF a, b, g, primary
  <2>2. IsList(a \o b)
    BY <2>1, AnswerConcat
  <2>3. AnswerOf((a \o b) \o g, n, primary) = AnswerOf(a \o b, n, AnswerOf(g, n, primary))
    BY <2>1, <2>2, AnswerConcat
  <2>4. AnswerOf(a \o b, n, byFilter) = AnswerOf(a, n, AnswerOf(b, n, byFilter))
    BY <2>1, AnswerConcat
  <2> QED BY <2>1, <2>3, <2>4
<1>2. /\ \A raw \in Range(Given(Dns)) : raw.usable
      /\ \A p \in Range(Policies(Dns)) : p.servers[1].usable /\ p.pattern.usable
  BY NoWarning
<1>3. Serves(servers, Dns.nameservers[1].address, primary)
  <2>1. /\ IsList(Dns.nameservers) /\ Range(Dns.nameservers) \subseteq Range(Given(Dns))
        /\ Dns.nameservers # <<>>
    <3>1. Dns.nameservers # <<>>
      BY EmptyFacts DEF SomeServer
    <3> QED BY <3>1, GivenAre DEF DnsLists
  <2> QED BY <1>2, <2>1, FirstOfUsable DEF Primary
<1>4. \/ Dns.fallback = <<>> /\ second = NoName
      \/ Dns.fallback # <<>> /\ Serves(servers, Dns.fallback[1].address, second)
  <2>1. IsList(Dns.fallback) /\ Range(Dns.fallback) \subseteq Range(Given(Dns))
    BY GivenAre DEF DnsLists
  <2> QED BY <1>2, <2>1, FirstOfUsable
<1>5. byFilter = IF fake THEN Fake ELSE primary
  BY FilterAnswers
<1>6. (back <=> ~Dns.fakeip /\ Dns.fallback # <<>> /\ n \in FilterNames(Dns))
      /\ (fake => Dns.fakeip)
  BY FallenBackIs, FakedIs
<1>7. byFallback = IF back THEN second ELSE byFilter
  <2>1. \A tag, address : Serves(servers, address, tag) => tag # NoName
    BY ServedOnce
  <2>2. \/ second # NoName /\ ~Dns.fakeip /\ Sends(b, second, FilterNames(Dns))
        \/ (second = NoName \/ Dns.fakeip) /\ b = <<>>
    BY FallbackSends
  <2> HIDE DEF second, b, byFilter, servers, back
  <2>3. CASE second # NoName /\ ~Dns.fakeip /\ Sends(b, second, FilterNames(Dns))
    <3>1. byFallback = IF n \in FilterNames(Dns) THEN second ELSE byFilter
      BY <2>3, SendsAnswer
    <3>2. Dns.fallback # <<>>
      BY <1>4, <2>3
    <3> QED BY <1>6, <2>3, <3>1, <3>2
  <2>4. CASE (second = NoName \/ Dns.fakeip) /\ b = <<>>
    <3>1. byFallback = byFilter
      BY <2>4, AnswerNone
    <3>2. ~back
      BY <1>4, <1>6, <2>1, <2>4
    <3> QED BY <3>1, <3>2
  <2> QED BY <2>2, <2>3, <2>4
<1>8. \/ policies = <<>> /\ answer = byFallback
      \/ policies # <<>> /\ Serves(servers, policies[1].servers[1].address, answer)
  BY <1>2, PoliciesAnswer
<1>9. /\ policies # <<>> => asked = policies[1].servers[1].address
      /\ policies = <<>> =>
            /\ fake => asked = Fake
            /\ ~fake /\ back => asked = Dns.fallback[1].address
            /\ ~fake /\ ~back => asked = Dns.nameservers[1].address
  BY AddressAskedIs
<1> HIDE DEF a, b, g, primary, second, byFilter, byFallback, answer, policies, fake, back,
             asked, servers
<1>10. Serves(servers, asked, answer) \/ (Dns.fakeip /\ answer = Fake /\ asked = Fake)
  <2>1. CASE policies # <<>>
    BY <1>8, <1>9, <2>1
  <2>2. CASE policies = <<>> /\ fake
    BY <1>5, <1>6, <1>7, <1>8, <1>9, <2>2
  <2>3. CASE policies = <<>> /\ ~fake /\ back
    BY <1>4, <1>6, <1>7, <1>8, <1>9, <2>3
  <2>4. CASE policies = <<>> /\ ~fake /\ ~back
    BY <1>3, <1>5, <1>7, <1>8, <1>9, <2>4
  <2> QED BY <2>1, <2>2, <2>3, <2>4
<1> QED BY <1>1, <1>10 DEF Means, primary, asked, servers

\* documentDNS: whatever lists a Clash configuration has, and however often they give
\* an address, the rules and the final server answer as the configuration means.
THEOREM NamesAreAnsweredAsMeant == TagsTell => (Pipeline => []NamesAnsweredAsMeant)
<1> SUFFICES ASSUME TagsTell PROVE Pipeline => []NamesAnsweredAsMeant
  OBVIOUS
<1>1. PipelineInit => DnsInv
  BY InitDns DEF PipelineInit
<1>2. DnsInv => NamesAnsweredAsMeant
  <2> SUFFICES ASSUME DnsInv, Decoded, AnyServer, DnsWarnings(Dns) = {},
                      ~(Dns.mode = "rule"
                          /\ \E i \in 1 .. Len(Dns.filter) : Dns.filter[i].onAddress),
                      NEW n \in Domains
               PROVE  Answering(n) = AddressAsked(n)
    BY DEF NamesAnsweredAsMeant
  <2>1. /\ DnsLists(Dns) /\ SomeServer(Dns)
        /\ doc.dns.servers = AllServers(Dns) /\ doc.dns.rules = DnsRules(Dns)
        /\ doc.dns.final = Primary(Dns)
    BY DecodedDns
  <2> DEFINE tag == AnswerOf(DnsRules(Dns), n, Primary(Dns))
  <2>2. Answering(n) = AddressOf(tag)
    BY <2>1, AnsweringIs
  <2>3. Dns.mode = "rule" => \A i \in 1 .. Len(Dns.filter) : ~Dns.filter[i].onAddress
    OBVIOUS
  <2>4. Means(Dns, tag, AddressAsked(n))
    BY <2>1, <2>3, AnswersMean
  <2> HIDE DEF tag
  <2>5. AddressOf(tag) = AddressAsked(n)
    BY <2>1, <2>4, MeansAddress
  <2> QED BY <2>2, <2>5
<1> QED BY <1>1, <1>2, StepPipelineDns, PTL DEF Pipeline

--------------------------------------------------------------------------------
(* What is handed over: a document that the encoder can be given, with the rules *)
(* and the final policy that the configuration wants.                            *)

\* The rules of one kind among the first n are a list of such rules.
LEMMA KindIsList ==
    ASSUME NEW c, IsList(c.rules), NEW kind, NEW n \in 0 .. Len(c.rules)
    PROVE  /\ IsList(KindTo(c, kind, n))
           /\ Range(KindTo(c, kind, n)) \subseteq {rule \in Range(c.rules) : rule.kind = kind}
<1> DEFINE those == {rule \in Range(c.rules) : rule.kind = kind}
           s == SubSeq(c.rules, 1, n)
<1>1. IsList(s)
  BY PrefixIsList
<1>2. KindTo(c, kind, n) = Picked(those, s)
  BY DEF KindTo
<1> HIDE DEF those, s
<1>3. IsList(Picked(those, s)) /\ Range(Picked(those, s)) \subseteq those
  BY <1>1, PickedFacts
<1> QED BY <1>2, <1>3 DEF those

\* The policy of the last MATCH rule, or that of the default document.
LastPolicy(matches) ==
    IF matches = <<>> THEN DefaultFinal ELSE matches[Len(matches)].target

\* rules and policy are what the first n rules of a configuration come to.
Followed(c, rules, policy, n) ==
    /\ IsList(rules) /\ Len(rules) = Len(KindTo(c, "rule", n))
    /\ \A i \in 1 .. Len(rules) : rules[i] = RouteRule(KindTo(c, "rule", n)[i])
    /\ policy = LastPolicy(KindTo(c, "match", n))

\* Before any rule is decoded.
LEMMA FollowedFirst ==
    ASSUME NEW c, IsList(c.rules)
    PROVE  0 \in 0 .. Len(c.rules) /\ Followed(c, <<>>, DefaultFinal, 0)
<1>1. 0 \in 0 .. Len(c.rules)
  BY ListFacts
<1>2. KindTo(c, "rule", 0) = <<>> /\ KindTo(c, "match", 0) = <<>>
  BY <1>1, KindGrows
<1>3. \A i \in 1 .. Len(<<>>) : FALSE
  BY EmptyFacts
<1> QED BY <1>1, <1>2, <1>3, EmptyFacts DEF Followed, LastPolicy

\* One more rule, of one of the three kinds.
LEMMA FollowedMore ==
    ASSUME NEW c, IsList(c.rules), NEW n \in 0 .. Len(c.rules), n # Len(c.rules),
           NEW rules, NEW policy, Followed(c, rules, policy, n),
           NEW x, x = c.rules[n + 1], NEW more, NEW last,
           \/ x.kind = "invalid" /\ more = rules /\ last = policy
           \/ x.kind = "match" /\ more = rules /\ last = x.target
           \/ x.kind = "rule" /\ more = Append(rules, RouteRule(x)) /\ last = policy
    PROVE  Followed(c, more, last, n + 1)
<1> DEFINE kept == KindTo(c, "rule", n)
           keptMore == KindTo(c, "rule", n + 1)
           given == KindTo(c, "match", n)
           givenMore == KindTo(c, "match", n + 1)
           route == RouteRule(x)
<1>1. /\ IsList(rules) /\ Len(rules) = Len(kept)
      /\ \A i \in 1 .. Len(rules) : rules[i] = RouteRule(kept[i])
      /\ policy = LastPolicy(given)
  BY DEF Followed
<1>2. /\ IsList(kept) /\ IsList(given)
      /\ keptMore = IF x.kind = "rule" THEN Append(kept, x) ELSE kept
      /\ givenMore = IF x.kind = "match" THEN Append(given, x) ELSE given
  BY KindGrows, KindIsList
<1> HIDE DEF kept, keptMore, given, givenMore
<1>3. last = LastPolicy(givenMore)
  <2>1. CASE x.kind = "match"
    <3>1. Len(Append(given, x)) = Len(given) + 1 /\ Append(given, x)[Len(given) + 1] = x
          /\ Len(given) \in Nat
      BY <1>2, AppendFacts
    <3>2. ASSUME Append(given, x) = <<>> PROVE FALSE
      <4>1. Len(Append(given, x)) = 0
        BY <3>2, EmptyFacts
      <4> QED BY <3>1, <4>1
    <3> QED BY <1>2, <2>1, <3>1, <3>2 DEF LastPolicy
  <2>2. CASE x.kind # "match"
    BY <1>1, <1>2, <2>2
  <2> QED BY <2>1, <2>2
<1>4. /\ IsList(more) /\ Len(more) = Len(keptMore)
      /\ \A i \in 1 .. Len(more) : more[i] = RouteRule(keptMore[i])
  <2>1. CASE x.kind = "rule"
    <3> HIDE DEF route
    <3>1. /\ IsList(Append(rules, route)) /\ Len(rules) \in Nat
          /\ Len(Append(rules, route)) = Len(rules) + 1
          /\ \A i \in 1 .. Len(rules) : Append(rules, route)[i] = rules[i]
          /\ Append(rules, route)[Len(rules) + 1] = route
      BY <1>1, AppendFacts
    <3>2. /\ Len(Append(kept, x)) = Len(kept) + 1
          /\ \A i \in 1 .. Len(kept) : Append(kept, x)[i] = kept[i]
          /\ Append(kept, x)[Len(kept) + 1] = x
      BY <1>2, AppendFacts
    <3>3. more = Append(rules, route) /\ keptMore = Append(kept, x)
      BY <1>2, <2>1 DEF route
    <3>a. \A i \in 1 .. Len(rules) + 1 : i \in 1 .. Len(rules) \/ i = Len(rules) + 1
      BY <3>1
    <3>4. ASSUME NEW i \in 1 .. Len(rules) + 1
          PROVE  Append(rules, route)[i] = RouteRule(Append(kept, x)[i])
      <4>1. CASE i \in 1 .. Len(rules)
        BY <1>1, <3>1, <3>2, <4>1
      <4>2. CASE i = Len(rules) + 1
        BY <1>1, <3>1, <3>2, <4>2 DEF route
      <4> QED BY <3>a, <4>1, <4>2
    <3> QED BY <1>1, <3>1, <3>2, <3>3, <3>4
  <2>2. CASE x.kind # "rule"
    BY <1>1, <1>2, <2>2
  <2> QED BY <2>1, <2>2
<1> QED BY <1>3, <1>4 DEF Followed, keptMore, givenMore

\* The patch has what the document has, of the sections of the configuration.
Patched ==
    /\ DOMAIN patch = DOMAIN NoPatch
    /\ patch.inbounds = {} /\ patch.nodes = doc.nodes /\ patch.groups = doc.groups
    /\ patch.dns \in {{}, {doc.dns}}
    /\ patch.route <=> config.rules # <<>> \/ config.ruleProviders # <<>>
    /\ patch.rules = doc.rules /\ patch.ruleSets = doc.ruleSets
    /\ patch.final = IF Matches = <<>> THEN {} ELSE {doc.final}

\* The document follows the rules decoded so far, and has the lists an encoder asks for.
CarriedInv ==
    /\ \A set \in Range(doc.ruleSets) : IsList(set.codes)
    /\ doc.dns \in {DefaultDNS, DocumentDNS(config.dns)}
    /\ pc \in BeforeRules => doc.final = DefaultFinal
    /\ pc = "rules" => Followed(config, doc.rules, doc.final, next)
    /\ pc \in {"patch", "done"} => Followed(config, doc.rules, doc.final, Len(config.rules))
    /\ strict /\ pc = "done" => Patched

\* Nothing is decoded at the start.
LEMMA InitCarried == Init => CarriedInv
<1> SUFFICES ASSUME Init PROVE CarriedInv
  OBVIOUS
<1>1. doc.ruleSets = <<>> /\ doc.dns = DefaultDNS /\ doc.final = DefaultFinal /\ pc = "start"
  BY DEF Init, DefaultDocument
<1>2. Range(doc.ruleSets) = {}
  BY <1>1, EmptyFacts
<1> QED BY <1>1, <1>2 DEF CarriedInv

\* A refusal leaves the document.
LEMMA RefusedCarried == ASSUME CarriedInv, Refuse PROVE CarriedInv'
BY DEF CarriedInv, BeforeRules, Refuse

\* One more rule set, of a content that was read.
LEMMA CarriedSet ==
    ASSUME CarriedInv, MissingInv, ProxyInv, ResolveRuleProvider, ~Refuse PROVE CarriedInv'
<1> DEFINE provider == config.ruleProviders[next + 1]
<1>1. /\ pc = "sets" /\ pc' = pc /\ next < Len(config.ruleProviders) /\ UNCHANGED <<config, strict>>
      /\ \E content \in IF provider.inline THEN {provider.payload}
                        ELSE Offered[provider.name] \cup {Unavailable} :
            /\ content # Unavailable /\ content.decodes
            /\ doc' = [doc EXCEPT !.ruleSets = Append(@,
                         [name |-> provider.name, valid |-> TRUE, detour |-> "",
                          refs |-> content.refs, codes |-> content.codes])]
  BY DEF ResolveRuleProvider
<1>2. PICK content \in IF provider.inline THEN {provider.payload}
                       ELSE Offered[provider.name] \cup {Unavailable} :
            /\ content # Unavailable /\ content.decodes
            /\ doc' = [doc EXCEPT !.ruleSets = Append(@,
                         [name |-> provider.name, valid |-> TRUE, detour |-> "",
                          refs |-> content.refs, codes |-> content.codes])]
  BY <1>1
<1>3. IsList(content.codes)
  <2>1. provider \in Range(config.ruleProviders)
    <3>1. IsList(config.ruleProviders) /\ next \in Nat
      BY ConfigLists DEF ProxyInv
    <3>2. next + 1 \in 1 .. Len(config.ruleProviders)
      <4>1. Len(config.ruleProviders) \in Nat
        BY <3>1, ListFacts
      <4>2. next < Len(config.ruleProviders)
        BY <1>1
      <4> QED BY <3>1, <4>1, <4>2
    <3> QED BY <3>1, <3>2, ListFacts
  <2>2. content \in IF provider.inline THEN {provider.payload} ELSE Offered[provider.name]
    BY <1>2
  <2>3. config \in Configs
    BY DEF ProxyInv
  <2> HIDE DEF provider
  <2> QED BY <1>2, <2>1, <2>2, <2>3, ConfigsAssumption
<1> DEFINE set == [name |-> provider.name, valid |-> TRUE, detour |-> "",
                   refs |-> content.refs, codes |-> content.codes]
<1>4. set.codes = content.codes
  OBVIOUS
<1>5. doc' = [doc EXCEPT !.ruleSets = Append(doc.ruleSets, set)]
  BY <1>2
<1> HIDE DEF set, provider
<1>6. doc'.ruleSets = Append(doc.ruleSets, set) /\ doc'.dns = doc.dns /\ doc'.final = doc.final
  BY <1>5 DEF ProxyInv, Sections, DefaultDocument
<1>7. Range(doc'.ruleSets) = Range(doc.ruleSets) \cup {set}
  <2>1. \E S : doc.ruleSets \in Seq(S)
    BY DEF MissingInv, Sequence
  <2>2. IsList(doc.ruleSets)
    BY <2>1, SameOperators, N!ListOf
  <2> QED BY <1>6, <2>2, AppendFacts
<1> QED BY <1>1, <1>3, <1>4, <1>6, <1>7 DEF CarriedInv, BeforeRules

\* One more rule.
LEMMA CarriedRule == ASSUME CarriedInv, RuleInv, ProxyInv, DecodeRule PROVE CarriedInv'
<1> DEFINE c == config
           rule == c.rules[next + 1]
<1>1. /\ pc = "rules" /\ next < Len(c.rules) /\ next' = next + 1 /\ UNCHANGED <<config, strict, pc>>
      /\ \/ rule.kind = "invalid" /\ doc' = doc
         \/ rule.kind = "match" /\ doc' = [doc EXCEPT !.final = rule.target]
         \/ rule.kind = "rule" /\ doc' = [doc EXCEPT !.rules = Append(doc.rules, RouteRule(rule))]
  BY DEF DecodeRule, WithRule
<1>2. IsList(c.rules) /\ {"rules", "final", "dns", "ruleSets"} \subseteq DOMAIN doc
  BY ConfigLists DEF ProxyInv, Sections, DefaultDocument
<1>3. next \in 0 .. Len(c.rules) /\ Followed(c, doc.rules, doc.final, next)
  BY <1>1 DEF RuleInv, CarriedInv
<1>4. next # Len(c.rules)
  BY <1>1, <1>2, <1>3, ListFacts
<1> DEFINE route == RouteRule(rule)
<1> HIDE DEF route
<1>5. /\ \/ rule.kind = "invalid" /\ doc'.rules = doc.rules /\ doc'.final = doc.final
         \/ rule.kind = "match" /\ doc'.rules = doc.rules /\ doc'.final = rule.target
         \/ rule.kind = "rule" /\ doc'.rules = Append(doc.rules, route) /\ doc'.final = doc.final
      /\ doc'.dns = doc.dns /\ doc'.ruleSets = doc.ruleSets
  BY <1>1, <1>2 DEF route
<1> DEFINE x == rule
<1>6. x = c.rules[next + 1] /\ route = RouteRule(x)
  BY DEF route
<1> HIDE DEF x
<1>7. Followed(c, doc'.rules, doc'.final, next + 1)
  <2>1. \/ x.kind = "invalid" /\ doc'.rules = doc.rules /\ doc'.final = doc.final
        \/ x.kind = "match" /\ doc'.rules = doc.rules /\ doc'.final = x.target
        \/ x.kind = "rule" /\ doc'.rules = Append(doc.rules, RouteRule(x)) /\ doc'.final = doc.final
    BY <1>5, <1>6
  <2> QED BY <1>2, <1>3, <1>4, <1>6, <2>1, FollowedMore
<1>8. Followed(config', doc'.rules, doc'.final, next')
  BY <1>1, <1>7
<1>9. doc'.dns \in {DefaultDNS, DocumentDNS(config'.dns)} /\ \A set \in Range(doc'.ruleSets) : IsList(set.codes)
  BY <1>1, <1>5 DEF CarriedInv
<1> QED BY <1>1, <1>8, <1>9 DEF CarriedInv, BeforeRules

\* The patch is made of the document.
LEMMA CarriedPatch == ASSUME CarriedInv, MakePatch, ~Refuse PROVE CarriedInv'
<1> DEFINE route == config.rules # <<>> \/ config.ruleProviders # <<>>
           section == IF config.dns.enabled THEN {doc.dns} ELSE {}
           policy == IF Matches = <<>> THEN {} ELSE {doc.final}
<1>1. pc = "patch" /\ pc' = "done" /\ UNCHANGED <<config, strict, doc>>
  BY DEF MakePatch
<1>2. patch' = [inbounds |-> {}, nodes |-> doc.nodes, groups |-> doc.groups, dns |-> section,
                route |-> route, rules |-> doc.rules, ruleSets |-> doc.ruleSets,
                final |-> policy]
  BY ZenonT(30) DEF MakePatch
<1>3. section \in {{}, {doc.dns}} /\ (route <=> config.rules # <<>> \/ config.ruleProviders # <<>>)
      /\ policy = IF Matches = <<>> THEN {} ELSE {doc.final}
  OBVIOUS
<1>m. Matches' = Matches
  BY <1>1 DEF Matches, Selected
<1> HIDE DEF route, section, policy
<1>4. /\ DOMAIN patch' = DOMAIN NoPatch
      /\ patch'.inbounds = {} /\ patch'.nodes = doc.nodes /\ patch'.groups = doc.groups
      /\ patch'.dns = section /\ patch'.route = route
      /\ patch'.rules = doc.rules /\ patch'.ruleSets = doc.ruleSets /\ patch'.final = policy
  BY <1>2 DEF NoPatch
<1>5. Patched'
  BY <1>1, <1>3, <1>m, <1>4 DEF Patched
<1> QED BY <1>1, <1>5 DEF CarriedInv, BeforeRules

\* The lists, the rules and the final policy come from the configuration, and the patch
\* from the document.
LEMMA StepCarried ==
    CarriedInv /\ RuleInv /\ ProxyInv /\ MissingInv /\ [Next]_vars => CarriedInv'
<1> SUFFICES ASSUME CarriedInv, RuleInv, ProxyInv, MissingInv, [Next]_vars PROVE CarriedInv'
  OBVIOUS
<1> USE DEF BeforeRules
<1>1. {"rules", "nodes", "groups", "dns", "resolver", "ruleSets", "final"} \subseteq DOMAIN doc
      /\ IsList(config.rules)
  BY ConfigLists DEF ProxyInv, Sections, DefaultDocument
<1>2. CASE DecodeRule
  BY <1>2, CarriedRule
<1>3. CASE MakePatch
  BY <1>3, RefusedCarried, CarriedPatch
<1>4. CASE Validate
  <2>1. CASE Refuse
    BY <2>1, RefusedCarried
  <2>2. CASE ~Refuse
    <3>1. /\ pc = "rules" /\ next = Len(config.rules)
          /\ pc' = IF strict THEN "patch" ELSE "done"
          /\ UNCHANGED <<config, strict, doc>>
      BY <1>4, <2>2 DEF Validate, Turn
    <3> QED BY <3>1 DEF CarriedInv
  <2> QED BY <2>1, <2>2
<1>5. CASE Turn("sets", Len(config.ruleProviders), "rules")
  <2>1. /\ pc = "sets" /\ pc' = "rules" /\ next' = 0 /\ UNCHANGED <<config, strict, doc>>
    BY <1>5 DEF Turn
  <2>2. doc.rules = <<>> /\ doc.final = DefaultFinal
    BY <2>1 DEF RuleInv, CarriedInv
  <2>3. Followed(config', doc'.rules, doc'.final, next')
    BY <1>1, <2>1, <2>2, FollowedFirst
  <2> QED BY <2>1, <2>3 DEF CarriedInv
<1>6. CASE ResolveRuleProvider
  BY <1>6, RefusedCarried, CarriedSet
<1>7. CASE DecodeDNS
  <2> DEFINE made == DocumentDNS(config.dns)
             resolver == FirstNonEmpty(made.proxyResolver, made.final)
  <2>1. /\ pc = "dns" /\ pc' = "sets" /\ UNCHANGED <<config, strict>>
        /\ doc' = doc \/ doc' = [doc EXCEPT !.dns = made, !.resolver = resolver]
    BY <1>7 DEF DecodeDNS
  <2> HIDE DEF resolver, made
  <2>2. doc'.dns \in {doc.dns, made} /\ doc'.final = doc.final /\ doc'.ruleSets = doc.ruleSets
    BY <1>1, <2>1
  <2>3. doc'.dns \in {DefaultDNS, DocumentDNS(config'.dns)}
    BY <2>1, <2>2 DEF CarriedInv, made
  <2> QED BY <2>1, <2>2, <2>3 DEF CarriedInv
<1>8. CASE DecodeProxy \/ DecodeProvided \/ EndOfProvider \/ ResolveProvider \/ Start
           \/ Turn("proxies", Len(config.proxies), "providers")
           \/ Turn("providers", Len(config.providers), "members")
           \/ Turn("members", Len(resolved), "groups") \/ DecodeGroup
           \/ Turn("groups", Len(config.groups), "dns")
  <2>1. CASE Refuse
    BY <2>1, RefusedCarried
  <2>2. CASE ~Refuse
    <3>1. /\ pc \in BeforeRules /\ pc' \in BeforeRules /\ UNCHANGED <<config, strict>>
          /\ \/ doc' = doc
             \/ \E x : doc' = [doc EXCEPT !.nodes = x]
             \/ \E x : doc' = [doc EXCEPT !.groups = x]
      <4>1. CASE DecodeGroup
        BY <2>2, <4>1 DEF DecodeGroup
      <4>2. CASE ~DecodeGroup
        BY <1>8, <2>2, <4>2
        DEF DecodeProxy, DecodeProvided, EndOfProvider, ResolveProvider, Start, Turn, AppendProxy
      <4> QED BY <4>1, <4>2
    <3>2. doc'.dns = doc.dns /\ doc'.final = doc.final /\ doc'.ruleSets = doc.ruleSets
      BY <1>1, <3>1
    <3> QED BY <3>1, <3>2 DEF CarriedInv
  <2> QED BY <2>1, <2>2
<1>9. CASE Finished \/ UNCHANGED vars
  <2>1. UNCHANGED vars
    BY <1>9 DEF Finished
  <2>2. UNCHANGED <<config, strict, pc, next, doc, patch>>
    BY <2>1 DEF vars
  <2>3. Patched' <=> Patched
    <3>1. Matches' = Matches
      BY <2>2 DEF Matches, Selected
    <3> QED BY <2>2, <3>1 DEF Patched
  <2> QED BY <2>2, <2>3 DEF CarriedInv
<1> QED BY <1>2, <1>3, <1>4, <1>5, <1>6, <1>7, <1>8, <1>9 DEF Next

\* The steps of the pipeline keep it.
LEMMA StepPipelineCarried ==
    CarriedInv /\ RuleInv /\ ProxyInv /\ MissingInv /\ [PipelineNext]_<<vars, handed, encoderVars>>
        => CarriedInv'
BY StepCarried, RefusedCarried, PipelineSteps

\* The rules of a DNS section name lists of rule sets.
Listed(rules) == IsList(rules) /\ \A i \in 1 .. Len(rules) : IsList(rules[i].refs)

\* Two such lists one after the other.
LEMMA ListedConcat ==
    ASSUME NEW a, NEW b, Listed(a), Listed(b)
    PROVE  Listed(a \o b)
<1>1. Joined(a, b, a \o b)
  BY ConcatItems DEF Listed
<1> DEFINE c == a \o b
<1>2. ASSUME NEW i \in 1 .. Len(c) PROVE IsList(c[i].refs)
  <2>1. CASE i \in 1 .. Len(a)
    BY <1>1, <2>1 DEF Listed, Joined
  <2>2. CASE \E j \in 1 .. Len(b) : i = Len(a) + j
    BY <1>1, <2>2 DEF Listed, Joined
  <2> QED BY <1>1, <2>1, <2>2 DEF Joined
<1> QED BY <1>1, <1>2 DEF Listed, Joined

\* A single rule.
LEMMA ListedOne ==
    ASSUME NEW rule, IsList(rule.refs)
    PROVE  Listed(<<rule>>)
<1>1. IsList(<<rule>>) /\ Len(<<rule>>) = 1 /\ <<rule>>[1] = rule
  BY DEF IsList, Range
<1> QED BY <1>1 DEF Listed

\* No rule.
LEMMA ListedNone == Listed(<<>>)
<1>1. \A i \in 1 .. Len(<<>>) : FALSE
  BY EmptyFacts
<1> QED BY <1>1, EmptyFacts DEF Listed

\* The rule sets that a rule names.
LEMMA PlainRefs ==
    ASSUME NEW rule, NEW match, NEW refs, NEW server, rule = Plain(match, refs, server), IsList(refs)
    PROVE  IsList(rule.refs)
BY DEF Plain, Rule

\* Rules made one by one.
LEMMA ListedRules ==
    ASSUME NEW k \in Nat, NEW rules, rules = [i \in 1 .. k |-> rules[i]],
           \A i \in 1 .. k : IsList(rules[i].refs)
    PROVE  Listed(rules)
BY FunctionIsList DEF Listed

\* The rules for patterns.
LEMMA ListedFor ==
    ASSUME NEW patterns, IsList(patterns), \A p \in Range(patterns) : p.usable => IsList(p.refs),
           NEW server
    PROVE  Listed(RulesFor(patterns, server))
<1> DEFINE kept == UsableOf(patterns)
           k == Len(kept)
           match(i) == kept[i].match
           refs(i) == kept[i].refs
           to(i) == server
<1>1. RulesFor(patterns, server) = [i \in 1 .. k |-> Plain(match(i), refs(i), to(i))]
  BY DEF RulesFor, Selected, UsableOf, Plain
<1>2. /\ k \in Nat /\ Range(kept) = {p \in Range(patterns) : p.usable}
      /\ Range(kept) = {kept[i] : i \in 1 .. k}
  BY UsableOfAre, ListFacts
<1>3. \A i \in 1 .. k : IsList(refs(i))
  BY <1>2
<1> DEFINE rules == [i \in 1 .. k |-> Plain(match(i), refs(i), to(i))]
<1>4. ASSUME NEW i \in 1 .. k PROVE IsList(rules[i].refs)
  <2> DEFINE m == match(i)
             r == refs(i)
             s == to(i)
  <2>1. rules[i] = Plain(m, r, s) /\ IsList(r)
    BY <1>3
  <2> HIDE DEF rules, m, r, s
  <2> QED BY <2>1, PlainRefs
<1>5. k \in Nat /\ rules = [i \in 1 .. k |-> rules[i]]
  BY <1>2
<1> HIDE DEF k, rules
<1>6. Listed(rules)
  BY <1>4, <1>5, ListedRules
<1> QED BY <1>1, <1>6 DEF rules

\* The country's rule and that of the CIDRs.
LEMMA ListedFilter ==
    ASSUME NEW section, DnsLists(section), NEW server
    PROVE  Listed(CidrRules(section.cidrs, server)) /\ Listed(GeoRules(section.geoip, server))
<1>1. \A match : Listed(<<Plain(match, <<>>, server)>>)
  <2> SUFFICES ASSUME NEW match PROVE Listed(<<Plain(match, <<>>, server)>>)
    OBVIOUS
  <2> DEFINE rule == Plain(match, <<>>, server)
  <2>1. IsList(rule.refs)
    BY EmptyFacts DEF Plain, Rule
  <2> HIDE DEF rule
  <2>2. Listed(<<rule>>)
    BY <2>1, ListedOne
  <2> QED BY <2>2 DEF rule
<1>2. Listed(CidrRules(section.cidrs, server))
  BY <1>1, ListedNone DEF CidrRules
<1>3. Listed(GeoRules(section.geoip, server))
  <2> DEFINE match == section.geoip.match
             refs == section.geoip.refs
             rule == Inverted(match, refs, server)
  <2>1. section.geoip.enabled => IsList(refs)
    BY DEF DnsLists
  <2>2. GeoRules(section.geoip, server) = IF section.geoip.enabled THEN <<rule>> ELSE <<>>
    BY DEF GeoRules
  <2> HIDE DEF match, refs
  <2>3. rule.refs = refs
    BY DEF Inverted, Rule
  <2> HIDE DEF rule
  <2>4. section.geoip.enabled => Listed(<<rule>>)
    BY <2>1, <2>3, ListedOne
  <2> QED BY <2>2, <2>4, ListedNone
<1> QED BY <1>2, <1>3

\* The rules of the policies.
LEMMA ListedPolicies ==
    ASSUME NEW section, DnsLists(section)
    PROVE  Listed(PolicyRules(section))
<1> DEFINE kept == KeptPolicies(section)
           k == Len(kept)
           match(i) == kept[i].pattern.match
           refs(i) == kept[i].pattern.refs
           to(i) == PolicyTag(section, kept[i])
<1>1. PolicyRules(section) = [i \in 1 .. k |-> Plain(match(i), refs(i), to(i))]
  BY DEF PolicyRules, KeptPolicies, PolicyTag, Plain, Selected
<1>2. /\ k \in Nat /\ Range(kept) = {kept[i] : i \in 1 .. k}
      /\ \A p \in Range(kept) : p \in Range(section.policies) /\ p.pattern.usable
  BY PolicyRulesAre, GivenAre, ListFacts
<1>3. \A i \in 1 .. k : IsList(refs(i))
  BY <1>2 DEF DnsLists
<1> DEFINE rules == [i \in 1 .. k |-> Plain(match(i), refs(i), to(i))]
<1>4. ASSUME NEW i \in 1 .. k PROVE IsList(rules[i].refs)
  <2> DEFINE m == match(i)
             r == refs(i)
             s == to(i)
  <2>1. rules[i] = Plain(m, r, s) /\ IsList(r)
    BY <1>3
  <2> HIDE DEF rules, m, r, s
  <2> QED BY <2>1, PlainRefs
<1>5. k \in Nat /\ rules = [i \in 1 .. k |-> rules[i]]
  BY <1>2
<1> HIDE DEF k, rules
<1>6. Listed(rules)
  BY <1>4, <1>5, ListedRules
<1> QED BY <1>1, <1>6 DEF rules

\* The rules of the lines of the fake-ip filter.
LEMMA ListedLines ==
    ASSUME NEW section, DnsLists(section)
    PROVE  Listed(LineRules(section))
<1> DEFINE those == {line \in Range(section.filter) : LineUsable(line)}
           kept == KeptLines(section.filter)
           k == Len(kept)
           match(i) == LineNames(kept[i])
           refs(i) == kept[i].refs
           to(i) == LineTag(section, kept[i])
<1>1. LineRules(section) = [i \in 1 .. k |-> Plain(match(i), refs(i), to(i))]
  BY DEF LineRules, KeptLines, LineNames, LineTag, Plain, Fake, Selected
<1>2. /\ k \in Nat /\ Range(kept) = {kept[i] : i \in 1 .. k}
      /\ \A x \in Range(kept) : x \in Range(section.filter) /\ x.usable
  <2>1. kept = Picked(those, section.filter)
    BY DEF KeptLines
  <2>2. \A x \in those : x \in Range(section.filter) /\ x.usable
    BY DEF LineUsable
  <2> HIDE DEF those, kept
  <2>3. IsList(kept) /\ Range(kept) \subseteq those
    BY <2>1, PickedFacts DEF DnsLists
  <2> QED BY <2>2, <2>3, ListFacts
<1>3. \A i \in 1 .. k : IsList(refs(i))
  BY <1>2 DEF DnsLists
<1> DEFINE rules == [i \in 1 .. k |-> Plain(match(i), refs(i), to(i))]
<1>4. ASSUME NEW i \in 1 .. k PROVE IsList(rules[i].refs)
  <2> DEFINE m == match(i)
             r == refs(i)
             s == to(i)
  <2>1. rules[i] = Plain(m, r, s) /\ IsList(r)
    BY <1>3
  <2> HIDE DEF rules, m, r, s
  <2> QED BY <2>1, PlainRefs
<1>5. k \in Nat /\ rules = [i \in 1 .. k |-> rules[i]]
  BY <1>2
<1> HIDE DEF k, rules
<1>6. Listed(rules)
  BY <1>4, <1>5, ListedRules
<1> QED BY <1>1, <1>6 DEF rules

\* The DNS section that a configuration becomes can be encoded.
LEMMA DecodedSection ==
    ASSUME NEW section, DnsLists(section)
    PROVE  /\ IsList(DocumentDNS(section).servers)
           /\ \A server \in Range(DocumentDNS(section).servers) : HasDetour(server)
           /\ Listed(DocumentDNS(section).rules)
<1> DEFINE back == FirstTag(section, section.fallback)
           all == AllServers(section)
<1>1. Listed(PolicyRules(section))
  BY ListedPolicies
<1>2. Listed(FallbackRules(section))
  <2>1. Listed(RulesFor(section.filterDomains, back))
    BY ListedFor DEF DnsLists
  <2>2. Listed(CidrRules(section.cidrs, back)) /\ Listed(GeoRules(section.geoip, back))
    BY ListedFilter
  <2> DEFINE a == RulesFor(section.filterDomains, back)
             b == CidrRules(section.cidrs, back)
             g == GeoRules(section.geoip, back)
  <2>3. FallbackRules(section) = IF back = NoName \/ section.fakeip THEN <<>> ELSE (a \o b) \o g
    BY FallbackRulesAre
  <2> HIDE DEF a, b, g, back
  <2>4. Listed((a \o b) \o g)
    BY <2>1, <2>2, ListedConcat DEF a, b, g
  <2> QED BY <2>3, <2>4, ListedNone
<1>3. Listed(FakeIPRules(section))
  <2>1. \A server : Listed(RulesFor(section.filter, server))
    BY ListedFor DEF DnsLists
  <2>2. \A server : Listed(Everything(server))
    <3> SUFFICES ASSUME NEW server PROVE Listed(Everything(server))
      OBVIOUS
    <3> DEFINE rule == Plain(Domains, <<>>, server)
    <3>1. Everything(server) = <<rule>> /\ IsList(rule.refs)
      BY EmptyFacts DEF Everything, Plain, Rule
    <3> HIDE DEF rule
    <3> QED BY <3>1, ListedOne
  <2>3. Listed(LineRules(section))
    BY ListedLines
  <2>4. Listed(RulesFor(section.filter, Primary(section)) \o Everything(Fake))
    BY <2>1, <2>2, ListedConcat
  <2> QED BY <2>1, <2>2, <2>3, <2>4, FakeIPRulesAre, ListedNone DEF Modes
<1>4. Listed(DnsRules(section))
  <2>1. Listed(PolicyRules(section) \o FallbackRules(section))
    BY <1>1, <1>2, ListedConcat
  <2>2. DnsRules(section) = (PolicyRules(section) \o FallbackRules(section)) \o FakeIPRules(section)
    BY DEF DnsRules
  <2> QED BY <1>3, <2>1, <2>2, ListedConcat
<1>5. HasDetour(FakeServer)
  BY DEF HasDetour, FakeServer, Server
<1>6. IsList(all) /\ \A server \in Range(all) : HasDetour(server)
  <2>1. IsList(all) /\ Range(all) = {all[i] : i \in 1 .. Len(all)}
    BY AllServersAre, ListFacts
  <2> DEFINE s == Servers(section)
             more == <<FakeServer>>
  <2>2. IsList(s) /\ \A i \in 1 .. Len(s) : HasDetour(s[i])
    BY ServersAre
  <2>3. \A x \in Range(s) : HasDetour(x)
    BY <2>2, ListFacts
  <2>4. IsList(more) /\ Range(more) = {FakeServer} /\ IsList(<<>>) /\ Range(<<>>) = {}
    BY EmptyFacts DEF IsList, Range
  <2>5. all = s \o IF section.fakeip THEN more ELSE <<>>
    BY DEF AllServers
  <2> HIDE DEF s, more, all
  <2>6. Range(all) \subseteq Range(s) \cup {FakeServer}
    BY <2>2, <2>4, <2>5, ConcatFacts
  <2> QED BY <1>5, <2>1, <2>3, <2>6
<1> QED BY <1>4, <1>6, SectionIs

--------------------------------------------------------------------------------
(* The document that is encoded, by way of a patch or not. *)

PP == INSTANCE PatchProofs WITH BuiltinPolicies <- Builtin

\* MergeByName of the two instances of Patch.
LEMMA MergeAgrees == \A base, later : P!MergeByName(base, later) = PP!MergeByName(base, later)
BY DEF P!MergeByName, PP!MergeByName, P!FoldLeft, PP!FoldLeft, P!MapThenFoldSet, PP!MapThenFoldSet,
       P!Max, PP!Max, P!MergeOne, PP!MergeOne, P!Names, PP!Names, P!SelectLastInSeq, PP!SelectLastInSeq

\* Lists and optional fields.
LEMMA ListsAgree ==
    /\ \A x : P!Range(x) = Range(x) /\ (P!IsList(x) <=> IsList(x))
    /\ \A x : PP!Range(x) = Range(x) /\ (PP!IsList(x) <=> IsList(x))
    /\ \A o : P!The(o) = The(o) /\ PP!The(o) = The(o)
    /\ \A a, b : P!FirstNonEmpty(a, b) = PP!FirstNonEmpty(a, b)
BY DEF P!The, P!Range, P!IsList, PP!Range, PP!IsList, PP!The, The, Range, IsList,
       P!FirstNonEmpty, PP!FirstNonEmpty

\* The document that is validated.
LEMMA CandidateAgrees == ASSUME NEW d, NEW p PROVE P!Candidate(d, p) = PP!Candidate(d, p)
<1>1. CASE p.dns = {}
  BY MergeAgrees, <1>1 DEF P!Candidate, PP!Candidate
<1>2. CASE p.dns # {}
  BY MergeAgrees, ListsAgree, <1>2 DEF P!Candidate, PP!Candidate
<1> QED BY <1>1, <1>2

\* The document after the patch.
LEMMA AppliedAgrees == ASSUME NEW d, NEW p PROVE P!Applied(d, p) = PP!Applied(d, p)
<1>1. P!Candidate(d, p) = PP!Candidate(d, p)
  BY CandidateAgrees
<1>2. \A x, y : P!Listening(x, y) = PP!Listening(x, y)
  BY DEF P!Listening, PP!Listening
<1>3. \A o : P!The(o) = PP!The(o)
  BY ListsAgree
<1>4. CASE p.route
  BY <1>1, <1>2, <1>3, <1>4, MergeAgrees DEF P!Applied, PP!Applied
<1>5. CASE ~p.route
  BY <1>1, <1>2, <1>3, <1>5, MergeAgrees DEF P!Applied, PP!Applied
<1> QED BY <1>4, <1>5

\* What documents and patches are.
LEMMA PatchesAgree ==
    /\ \A p : P!IsPatch(p) <=> PP!IsPatch(p)
    /\ \A d : P!IsDocument(d) <=> PP!IsDocument(d)
    /\ \A s : P!NamedOnce(s) <=> PP!NamedOnce(s)
BY DEF P!EmptyPatch, PP!EmptyPatch, P!IsPatch, PP!IsPatch, P!IsList, PP!IsList, P!Range, PP!Range,
       P!AtMostOne, PP!AtMostOne, P!IsDocument, PP!IsDocument, P!NamedOnce, PP!NamedOnce

\* A document that an encoder can be given.
Whole(d) ==
    /\ P!IsDocument(d) /\ P!ListsWithin(d)
    /\ P!IsSection(d.dns) /\ P!NamedOnce(d.ruleSets)

\* The DNS section of the default document is one.
LEMMA DefaultSection == P!IsSection(DefaultDNS)
<1> DEFINE a == Server("local", "local", "", FALSE)
           b == Server("remote", "1.1.1.1", "proxy", FALSE)
<1>1. {"tag", "detour"} \subseteq DOMAIN a /\ {"tag", "detour"} \subseteq DOMAIN b
  BY DEF Server
<1>2. DefaultDNS.servers = <<a, b>> /\ DefaultDNS.rules = <<>>
  BY DEF DefaultDNS
<1> HIDE DEF a, b
<1>3. <<a, b>> \in Seq({a, b}) /\ Range(<<a, b>>) = {a, b}
  BY DEF Range
<1>4. IsList(<<a, b>>)
  BY <1>3 DEF IsList
<1> QED BY <1>1, <1>2, <1>3, <1>4, EmptyFacts, ListsAgree DEF P!IsSection

\* The rules that a configuration comes to name lists.
LEMMA RulesWithin ==
    ASSUME NEW c \in Configs, NEW rules, NEW policy, Followed(c, rules, policy, Len(c.rules))
    PROVE  \A rule \in Range(rules) : IsList(rule.codes) /\ IsList(rule.refs)
<1> DEFINE kept == KindTo(c, "rule", Len(c.rules))
           kind == "rule"
<1>1. /\ IsList(rules) /\ Len(rules) = Len(kept)
      /\ \A i \in 1 .. Len(rules) : rules[i] = RouteRule(kept[i])
  BY DEF Followed
<1>2. IsList(c.rules) /\ Len(c.rules) \in 0 .. Len(c.rules)
  <2>1. IsList(c.rules)
    BY ConfigLists
  <2>2. Len(c.rules) \in Nat
    BY <2>1, ListFacts
  <2> QED BY <2>1, <2>2
<1>3. IsList(kept) /\ Range(kept) \subseteq {rule \in Range(c.rules) : rule.kind = kind}
  BY <1>2, KindIsList
<1> HIDE DEF kept
<1>4. \A i \in 1 .. Len(rules) : kept[i] \in Range(c.rules) /\ kept[i].kind = kind
  BY <1>1, <1>3, ListFacts
<1>5. \A x \in Range(c.rules) : x.kind = kind => IsList(x.refs) /\ IsList(x.codes)
  BY ConfigsAssumption
<1>6. \A x : RouteRule(x).codes = x.codes /\ RouteRule(x).refs = x.refs
  BY DEF RouteRule
<1>7. \A i \in 1 .. Len(rules) : IsList(rules[i].codes) /\ IsList(rules[i].refs)
  BY <1>1, <1>4, <1>5, <1>6
<1> QED BY <1>1, <1>7, ListFacts

\* What is decoded is a whole document.
LEMMA DecodedWhole ==
    ASSUME CarriedInv, ProxyInv, MissingInv, GroupInv, pc = "done"
    PROVE  Whole(doc)
<1>1. config \in Configs /\ DOMAIN doc = Sections
  BY DEF ProxyInv
<1>2. IsList(doc.nodes)
  BY DEF ProxyInv, AfterMembers, Provided, Providing, NodesFrom
<1>3. IsList(doc.groups) /\ \A group \in Range(doc.groups) : IsList(group.members)
  <2>1. MembersAre(config, resolved, doc.groups, GroupsOf(config, Len(config.groups)))
    BY DEF GroupInv, AfterGroups
  <2> QED BY <2>1, ListFacts DEF MembersAre
<1>4. Followed(config, doc.rules, doc.final, Len(config.rules))
  BY DEF CarriedInv
<1>5. IsList(doc.rules) /\ \A rule \in Range(doc.rules) : IsList(rule.codes) /\ IsList(rule.refs)
  <2>1. IsList(doc.rules)
    BY <1>4 DEF Followed
  <2> QED BY <1>1, <1>4, <2>1, RulesWithin
<1>6. IsList(doc.ruleSets) /\ \A set \in Range(doc.ruleSets) : IsList(set.codes)
  <2>1. \E S : doc.ruleSets \in Seq(S)
    BY DEF MissingInv, Sequence
  <2> QED BY <2>1, SameOperators, N!ListOf DEF CarriedInv
<1>7. P!NamedOnce(doc.ruleSets)
  <2>1. /\ Len(doc.ruleSets) = Len(config.ruleProviders)
        /\ \A i \in 1 .. Len(doc.ruleSets) : doc.ruleSets[i].name = config.ruleProviders[i].name
    BY DEF MissingInv, AfterSets, Gathered
  <2>2. \A i, j \in 1 .. Len(config.ruleProviders) :
           config.ruleProviders[i].name = config.ruleProviders[j].name => i = j
    BY <1>1, ConfigsAssumption
  <2> QED BY <2>1, <2>2 DEF P!NamedOnce
<1>8. P!IsSection(doc.dns)
  <2>1. CASE doc.dns = DefaultDNS
    BY <2>1, DefaultSection
  <2>2. CASE doc.dns = DocumentDNS(config.dns)
    <3>1. DnsLists(config.dns)
      BY <1>1, ConfigsAssumption
    <3>2. /\ IsList(doc.dns.servers) /\ Listed(doc.dns.rules)
          /\ \A server \in Range(doc.dns.servers) : HasDetour(server)
      BY <2>2, <3>1, DecodedSection
    <3>3. \A rule \in Range(doc.dns.rules) : IsList(rule.refs)
      BY <3>2, ListFacts DEF Listed
    <3> QED BY <3>2, <3>3, ListsAgree DEF P!IsSection, HasDetour, Listed
  <2> QED BY <2>1, <2>2 DEF CarriedInv
<1>9. P!IsDocument(doc)
  BY <1>1, <1>2, <1>3, <1>5, <1>6, ListsAgree DEF P!IsDocument, Sections, DefaultDocument
<1>10. P!ListsWithin(doc)
  BY <1>3, <1>5, <1>6, ListsAgree DEF P!ListsWithin
<1> QED BY <1>7, <1>8, <1>9, <1>10 DEF Whole

\* Without rules nothing is followed.
LEMMA NothingFollowed ==
    ASSUME NEW c, c.rules = <<>>, NEW rules, NEW policy, Followed(c, rules, policy, Len(c.rules))
    PROVE  rules = <<>> /\ Picked({rule \in Range(c.rules) : rule.kind = "match"}, c.rules) = <<>>
<1> DEFINE those == {rule \in Range(c.rules) : rule.kind = "match"}
<1>1. IsList(c.rules) /\ Len(c.rules) = 0 /\ 0 \in 0 .. Len(c.rules)
  BY EmptyFacts
<1>2. KindTo(c, "rule", 0) = <<>>
  BY <1>1, KindGrows
<1>3. IsList(rules) /\ Len(rules) = 0
  BY <1>1, <1>2, EmptyFacts DEF Followed
<1>4. rules = <<>>
  BY <1>3 DEF IsList
<1> HIDE DEF those
<1>5. Picked(those, <<>>) = <<>>
  BY SameOperators, N!PickedEmpty
<1> QED BY <1>4, <1>5 DEF those

\* What is decoded is a patch.
LEMMA DecodedPatch ==
    ASSUME CarriedInv, ProxyInv, MissingInv, GroupInv, pc = "done", strict
    PROVE  P!IsPatch(patch) /\ P!ListsWithin(patch) /\ patch.dns \in {{}, {doc.dns}}
<1>1. Whole(doc) /\ Patched
  BY DecodedWhole DEF CarriedInv
<1>2. /\ patch.nodes = doc.nodes /\ patch.groups = doc.groups
      /\ patch.dns \in {{}, {doc.dns}}
      /\ patch.rules = doc.rules /\ patch.ruleSets = doc.ruleSets
      /\ patch.final = IF Matches = <<>> THEN {} ELSE {doc.final}
      /\ patch.route <=> config.rules # <<>> \/ config.ruleProviders # <<>>
  BY <1>1 DEF Patched
<1>3. P!IsList(patch.nodes) /\ P!IsList(patch.groups) /\ P!IsList(patch.rules) /\ P!IsList(patch.ruleSets)
  BY <1>1, <1>2 DEF Whole, P!IsDocument
<1>4. P!AtMostOne(patch.final) /\ P!AtMostOne(patch.dns)
  BY <1>2 DEF P!AtMostOne
<1>5. P!ListsWithin(patch)
  BY <1>1, <1>2 DEF Whole, P!ListsWithin
<1>6. ASSUME ~patch.route PROVE patch.rules = <<>> /\ patch.ruleSets = <<>> /\ patch.final = {}
  <2>1. config.rules = <<>> /\ config.ruleProviders = <<>>
    BY <1>2, <1>6
  <2>2. doc.rules = <<>> /\ Matches = <<>>
    <3>1. Followed(config, doc.rules, doc.final, Len(config.rules))
      BY DEF CarriedInv
    <3> QED BY <2>1, <3>1, NothingFollowed DEF Matches, Selected
  <2>3. doc.ruleSets = <<>>
    <3>1. Len(doc.ruleSets) = 0
      BY <2>1, EmptyFacts DEF MissingInv, AfterSets, Gathered
    <3>2. \E S : doc.ruleSets \in Seq(S)
      BY DEF MissingInv, Sequence
    <3> QED BY <3>1, <3>2
  <2> QED BY <1>2, <2>2, <2>3
<1>7. DOMAIN P!EmptyPatch \subseteq DOMAIN patch
  BY <1>1 DEF Patched, NoPatch, P!EmptyPatch
<1> QED BY <1>2, <1>3, <1>4, <1>5, <1>6, <1>7 DEF P!IsPatch

\* Lists merged are lists of what was in either.
LEMMA MergedItems ==
    ASSUME NEW base, NEW later, IsList(base), IsList(later)
    PROVE  /\ IsList(PP!MergeByName(base, later))
           /\ Range(PP!MergeByName(base, later)) \subseteq Range(base) \cup Range(later)
           /\ PP!NamedOnce(base) => PP!NamedOnce(PP!MergeByName(base, later))
BY PP!Merging, PP!OnceOfAll, ListsAgree DEF PP!OverriddenBy

\* A patch applied to a whole document leaves a whole document.
LEMMA AppliedWhole ==
    ASSUME NEW d, Whole(d), NEW p, P!IsPatch(p), P!ListsWithin(p), NEW section, P!IsSection(section),
           p.dns \in {{}, {section}}
    PROVE  /\ Whole(P!Applied(d, p))
           /\ P!Applied(d, p).rules = IF p.route THEN p.rules \o d.rules ELSE d.rules
           /\ {P!Applied(d, p).final} = IF p.final = {} THEN {d.final} ELSE p.final
<1> DEFINE a == PP!Applied(d, p)
<1>1. /\ IsList(d.nodes) /\ IsList(d.groups) /\ IsList(d.ruleSets) /\ IsList(d.rules)
      /\ IsList(p.nodes) /\ IsList(p.groups) /\ IsList(p.ruleSets) /\ IsList(p.rules)
  BY ListsAgree DEF Whole, P!IsDocument, P!IsPatch
<1>2. PP!IsPatch(p) /\ PP!IsDocument(d) /\ PP!NamedOnce(d.ruleSets)
  BY PatchesAgree DEF Whole
<1>3. /\ DOMAIN a = DOMAIN d
      /\ a.nodes = PP!MergeByName(d.nodes, p.nodes)
      /\ a.groups = PP!MergeByName(d.groups, p.groups)
      /\ a.ruleSets = IF p.route THEN PP!MergeByName(d.ruleSets, p.ruleSets) ELSE d.ruleSets
      /\ a.rules = IF p.route THEN p.rules \o d.rules ELSE d.rules
      /\ {a.dns} = PP!Else(p.dns, {d.dns})
      /\ {a.final} = PP!Else(p.final, {d.final})
  BY <1>2, PP!AppliedParts
<1> HIDE DEF a
<1>4. IsList(a.nodes)
  BY <1>1, <1>3, MergedItems
<1>5. IsList(a.groups) /\ Range(a.groups) \subseteq Range(d.groups) \cup Range(p.groups)
  BY <1>1, <1>3, MergedItems
<1>6. /\ IsList(a.ruleSets) /\ Range(a.ruleSets) \subseteq Range(d.ruleSets) \cup Range(p.ruleSets)
      /\ PP!NamedOnce(a.ruleSets)
  BY <1>1, <1>2, <1>3, MergedItems
<1>7. IsList(a.rules) /\ Range(a.rules) \subseteq Range(d.rules) \cup Range(p.rules)
  <2>1. IsList(p.rules \o d.rules) /\ Range(p.rules \o d.rules) = Range(p.rules) \cup Range(d.rules)
    BY <1>1, ConcatFacts
  <2> QED BY <1>1, <1>3, <2>1
<1>8. a.dns \in {d.dns, section}
  BY <1>3 DEF PP!Else
<1>9. P!ListsWithin(a)
  BY <1>5, <1>6, <1>7, ListsAgree DEF P!ListsWithin, Whole
<1>10. P!IsDocument(a)
  BY <1>3, <1>4, <1>5, <1>6, <1>7, ListsAgree DEF P!IsDocument, Whole
<1>11. Whole(a)
  BY <1>6, <1>8, <1>9, <1>10, PatchesAgree DEF Whole
<1>12. P!Applied(d, p) = a
  BY AppliedAgrees DEF a
<1> QED BY <1>3, <1>11, <1>12 DEF PP!Else

--------------------------------------------------------------------------------
(* What is handed over. *)

\* What the encoder is handed is what was decoded, or Target with the patch.
HandedDoc(p, d, s) == IF s THEN P!Applied(Target, p) ELSE d

HandedInv == handed # {} => pc = "done" /\ handed = {HandedDoc(patch, doc, strict)}

\* Nothing is handed over at first.
LEMMA InitHanded == PipelineInit => HandedInv
BY DEF PipelineInit, NothingHanded, HandedInv

\* After the end nothing more is decoded.
LEMMA DoneStays == ASSUME Next, pc = "done" PROVE UNCHANGED vars
BY DEF Next, Start, DecodeProxy, Turn, ResolveProvider, DecodeProvided, EndOfProvider, DecodeGroup,
       DecodeDNS, ResolveRuleProvider, DecodeRule, Validate, MakePatch, Finished

\* A document is handed over once.
LEMMA StepHanded == HandedInv /\ [PipelineNext]_<<vars, handed, encoderVars>> => HandedInv'
<1> SUFFICES ASSUME HandedInv, [PipelineNext]_<<vars, handed, encoderVars>> PROVE HandedInv'
  OBVIOUS
<1>1. CASE UNCHANGED vars /\ UNCHANGED handed
  <2>1. UNCHANGED <<pc, patch, doc, strict, handed>>
    BY <1>1 DEF vars
  <2> QED BY <2>1 DEF HandedInv, HandedDoc
<1>2. CASE Decode
  <2>1. Next /\ handed' = handed
    BY <1>2 DEF Decode
  <2>2. CASE handed = {}
    BY <2>1, <2>2 DEF HandedInv
  <2>3. CASE handed # {}
    <3>1. UNCHANGED vars
      BY <2>1, <2>3, DoneStays DEF HandedInv
    <3> QED BY <1>1, <2>1, <3>1
  <2> QED BY <2>2, <2>3
<1>3. CASE HandOver
  <2>1. pc = "done" /\ ~strict /\ handed' = {doc} /\ UNCHANGED <<pc, doc, strict, patch>>
    BY <1>3 DEF HandOver, vars
  <2> QED BY <2>1 DEF HandedInv, HandedDoc
<1>4. CASE Apply
  <2>1. CASE handed' = {P!Applied(Target, patch)} /\ UNCHANGED vars
    <3>1. pc = "done" /\ strict /\ UNCHANGED <<pc, doc, strict, patch>>
      BY <1>4, <2>1 DEF Apply, vars
    <3> QED BY <2>1, <3>1 DEF HandedInv, HandedDoc
  <2>2. CASE handed' = handed
    <3>1. handed = {}
      BY <1>4 DEF Apply
    <3> QED BY <2>2, <3>1 DEF HandedInv
  <2> QED BY <1>4, <2>1, <2>2 DEF Apply
<1>5. CASE Encode /\ UNCHANGED vars
  BY <1>1, <1>5 DEF Encode
<1> QED BY <1>1, <1>2, <1>3, <1>4, <1>5 DEF PipelineNext

\* What is handed over is whole, and has the rules that the configuration names, before
\* those of Target, and the policy that it names, or that of Target.
LEMMA HandedIs ==
    ASSUME HandedInv, CarriedInv, ProxyInv, MissingInv, GroupInv, handed # {}
    PROVE  /\ Whole(The(handed)) /\ pc = "done"
           /\ The(handed).rules = doc.rules \o IF strict THEN Target.rules ELSE <<>>
           /\ The(handed).final = IF strict /\ Matches = <<>> THEN Target.final ELSE doc.final
<1>1. pc = "done" /\ The(handed) = IF strict THEN P!Applied(Target, patch) ELSE doc
  BY DEF HandedInv, HandedDoc, The
<1>2. Whole(doc) /\ IsList(doc.rules)
  BY <1>1, DecodedWhole, ListsAgree DEF Whole, P!IsDocument
<1>3. CASE ~strict
  <2>1. doc.rules \o <<>> = doc.rules
    <3>1. doc.rules \in Seq(Range(doc.rules))
      BY <1>2 DEF IsList
    <3> QED BY <3>1
  <2> QED BY <1>1, <1>2, <1>3, <2>1
<1>4. CASE strict
  <2> DEFINE a == P!Applied(Target, patch)
  <2>1. P!IsPatch(patch) /\ P!ListsWithin(patch) /\ patch.dns \in {{}, {doc.dns}} /\ Patched
    BY <1>1, <1>4, DecodedPatch DEF CarriedInv
  <2>2. Whole(Target) /\ P!IsSection(doc.dns)
    BY <1>2, TargetAssumption DEF Whole
  <2>3. /\ Whole(a)
        /\ a.rules = IF patch.route THEN patch.rules \o Target.rules ELSE Target.rules
        /\ {a.final} = IF patch.final = {} THEN {Target.final} ELSE patch.final
    BY <2>1, <2>2, AppliedWhole
  <2> HIDE DEF a
  <2>4. /\ patch.rules = doc.rules
        /\ patch.final = IF Matches = <<>> THEN {} ELSE {doc.final}
    BY <2>1 DEF Patched
  <2>5. a.final = IF Matches = <<>> THEN Target.final ELSE doc.final
    BY <2>3, <2>4
  <2>6. a.rules = doc.rules \o Target.rules
    <3>1. CASE patch.route
      BY <2>3, <2>4, <3>1
    <3>2. CASE ~patch.route
      <4>1. patch.rules = <<>>
        BY <2>1, <3>2 DEF P!IsPatch
      <4>2. IsList(Target.rules)
        BY <2>2, ListsAgree DEF Whole, P!IsDocument
      <4>3. <<>> \o Target.rules = Target.rules
        <5>1. Target.rules \in Seq(Range(Target.rules))
          BY <4>2 DEF IsList
        <5> QED BY <5>1
      <4> QED BY <2>3, <2>4, <3>2, <4>1, <4>3
    <3> QED BY <3>1, <3>2
  <2> QED BY <1>1, <1>4, <2>3, <2>5, <2>6 DEF a
<1> QED BY <1>3, <1>4

\* A whole document is one that an encoder can be given.
LEMMA WholeEncodable == ASSUME NEW d, Whole(d) PROVE E!Encodable(d)
<1>1. \A x : (P!IsList(x) <=> IsList(x)) /\ (E!IsList(x) <=> IsList(x))
         /\ E!Range(x) = Range(x) /\ P!Range(x) = Range(x)
  BY DEF IsList, P!IsList, E!IsList, Range, P!Range, E!Range
<1>2. E!IsList(d.nodes) /\ E!IsList(d.groups) /\ E!IsList(d.rules) /\ E!IsList(d.ruleSets)
  BY <1>1 DEF Whole, P!IsDocument
<1>3. /\ \A group \in E!Range(d.groups) : E!Group(group)
      /\ \A rule \in E!Range(d.rules) : E!IsList(rule.codes) /\ E!IsList(rule.refs)
      /\ \A set \in E!Range(d.ruleSets) : E!IsList(set.codes)
  BY <1>1 DEF Whole, P!ListsWithin, E!Group
<1>4. /\ E!IsList(d.dns.servers) /\ E!IsList(d.dns.rules)
      /\ \A rule \in E!Range(d.dns.rules) : E!IsList(rule.refs)
      /\ \A server \in E!Range(d.dns.servers) : {"tag", "detour"} \subseteq DOMAIN server
  BY <1>1 DEF Whole, P!IsSection
<1> QED BY <1>2, <1>3, <1>4 DEF E!Encodable, Whole, P!NamedOnce

\* The same rules one by one.
Alike(a, b) == Len(a) = Len(b) /\ \A i \in 1 .. Len(a) : SameRule(a[i], b[i])

\* Rules that are alike followed by the same rules.
LEMMA AlikeConcat ==
    ASSUME NEW a, NEW b, NEW c, IsList(a), IsList(b), IsList(c), Alike(a, b)
    PROVE  Alike(a \o c, b \o c)
<1>1. Joined(a, c, a \o c) /\ Joined(b, c, b \o c)
  BY ConcatItems
<1> DEFINE x == a \o c
           y == b \o c
<1> HIDE DEF x, y
<1>2. Len(x) = Len(y)
  BY <1>1 DEF Joined, Alike, x, y
<1>3. ASSUME NEW i \in 1 .. Len(x) PROVE SameRule(x[i], y[i])
  <2>1. CASE i \in 1 .. Len(a)
    <3>1. x[i] = a[i] /\ y[i] = b[i]
      BY <1>1, <2>1 DEF Joined, Alike, x, y
    <3> QED BY <2>1, <3>1 DEF Alike
  <2>2. CASE \E j \in 1 .. Len(c) : i = Len(a) + j
    <3>1. PICK j \in 1 .. Len(c) : i = Len(a) + j
      BY <2>2
    <3>2. x[i] = c[j] /\ y[i] = c[j]
      BY <1>1, <3>1 DEF Joined, Alike, x, y
    <3> QED BY <3>2 DEF SameRule
  <2> QED BY <1>1, <2>1, <2>2 DEF Joined, x
<1> QED BY <1>2, <1>3 DEF Alike, x, y

\* A rule is the same as the rule it was made of.
LEMMA RoutesAlike ==
    ASSUME NEW a, NEW b, Len(a) = Len(b), \A i \in 1 .. Len(a) : a[i] = RouteRule(b[i])
    PROVE  Alike(a, b)
<1>1. \A x : SameRule(RouteRule(x), x)
  BY DEF RouteRule, SameRule
<1> QED BY <1>1 DEF Alike

\* The rules handed over are those that are wanted, and so is the final policy.
LEMMA WantedIs ==
    ASSUME HandedInv, CarriedInv, ProxyInv, MissingInv, GroupInv, handed # {}
    PROVE  /\ Alike(The(handed).rules, RulesWanted) /\ IsList(The(handed).rules)
           /\ The(handed).final = FinalWanted
<1> DEFINE n == Len(config.rules)
           kept == KindTo(config, "rule", n)
           base == IF strict THEN Target.rules ELSE <<>>
<1>1. /\ Whole(The(handed)) /\ pc = "done"
      /\ The(handed).rules = doc.rules \o base
      /\ The(handed).final = IF strict /\ Matches = <<>> THEN Target.final ELSE doc.final
  BY HandedIs
<1>2. IsList(config.rules) /\ n \in 0 .. n /\ SubSeq(config.rules, 1, n) = config.rules
  <2>1. IsList(config.rules)
    BY ConfigLists DEF ProxyInv
  <2>2. n \in 0 .. n
    BY <2>1, ListFacts
  <2> QED BY <2>1, <2>2, PrefixIsList
<1>3. /\ Selected(config.rules, LAMBDA rule : rule.kind = "rule") = kept
      /\ Matches = KindTo(config, "match", n)
  BY <1>2 DEF Selected, Matches, KindTo
<1>4. Followed(config, doc.rules, doc.final, n)
  BY <1>1 DEF CarriedInv
<1>5. IsList(kept) /\ IsList(doc.rules) /\ Alike(doc.rules, kept)
  BY <1>2, <1>4, KindIsList, RoutesAlike DEF Followed
<1>6. IsList(base)
  BY TargetAssumption, EmptyFacts, ListsAgree DEF P!IsDocument
<1>7. RulesWanted = kept \o base
  BY <1>3 DEF RulesWanted
<1>8. IsList(The(handed).rules)
  BY <1>1, ListsAgree DEF Whole, P!IsDocument
<1>9. The(handed).final = FinalWanted
  <2>1. doc.final = LastPolicy(Matches)
    BY <1>3, <1>4 DEF Followed
  <2> QED BY <1>1, <2>1 DEF LastPolicy, FinalWanted, Last
<1> HIDE DEF kept, base
<1> QED BY <1>1, <1>5, <1>6, <1>7, <1>8, <1>9, AlikeConcat

\* The encoder is handed a document that it can be given, with the rules and the final
\* policy that the configuration wants (decodeClashConfig, DecodePatch and ApplyPatch).
THEOREM HandedIsWanted == Pipeline => []HandedAsWanted
<1>1. PipelineInit => /\ ProxyInv /\ MissingInv /\ GroupInv /\ RuleInv /\ CarriedInv /\ HandedInv
  BY InitProxy, InitMissing, InitGroups, InitRules, InitCarried, InitHanded DEF PipelineInit
<1>2. HandedInv /\ CarriedInv /\ ProxyInv /\ MissingInv /\ GroupInv => HandedAsWanted
  <2> SUFFICES ASSUME HandedInv, CarriedInv, ProxyInv, MissingInv, GroupInv, handed # {}
               PROVE  /\ E!Encodable(The(handed)) /\ Alike(The(handed).rules, RulesWanted)
                      /\ The(handed).final = FinalWanted
    BY DEF HandedAsWanted, Alike
  <2> QED BY HandedIs, WantedIs, WholeEncodable
<1> QED
  BY <1>1, <1>2, StepPipelineProxy, StepPipelineMissing, StepPipelineGroups, StepPipelineRules,
     StepPipelineCarried, StepHanded, PTL DEF Pipeline

================================================================================
