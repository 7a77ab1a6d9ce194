------------------------------ MODULE SingBoxEncode ------------------------------
(***************************************************************************)
(* SingBoxCodec.Encode of singbox/codec.go: how a document becomes the     *)
(* outbounds, the route rules, the rule sets and the DNS of a sing-box     *)
(* configuration.  One action is one iteration of a loop of the code; the  *)
(* loops share nothing but the maps and lists below.  Names and tags are   *)
(* strings, their spelling abstracted to the operators that matter: which  *)
(* spellings are built in, and how a suffix makes a new tag.               *)
(***************************************************************************)
EXTENDS Document

CONSTANTS
    Documents,          \* the documents to encode
    Tags,               \* all names
    DirectNames,        \* spellings of DIRECT, in any case
    RejectNames,        \* spellings of REJECT
    DropNames,          \* spellings of REJECT-DROP
    ProxyNames,         \* spellings of proxy
    Dns, Private,       \* traffic that are DNS, or go to a private address
    Renamed(_),         \* name + "-proxy"
    Numbered(_, _),     \* base + "-" + index
    Hop(_, _)           \* tag + "-hop-" + index

Reserved == {"direct", "proxy", "reject"}

\* A node is supported when convertNode knows its protocol and has its options,
\* and named when its server is a domain name; match stands for the traffic that
\* a rule matches, refs for the rule sets it names, codes for its geo codes.  A
\* rule set has what its inline rules name; decoders and patches name it once.
Group(group) == IsList(group.members)

Encodable(d) ==
    /\ IsList(d.nodes)
    /\ IsList(d.groups) /\ \A group \in Range(d.groups) : Group(group)
    /\ IsList(d.rules) /\ IsList(d.ruleSets)
    /\ IsList(d.dns.servers) /\ IsList(d.dns.rules)
    /\ \A rule \in Range(d.rules) : IsList(rule.codes) /\ IsList(rule.refs)
    /\ \A set \in Range(d.ruleSets) : IsList(set.codes)
    /\ \A rule \in Range(d.dns.rules) : IsList(rule.refs)
    /\ \A server \in Range(d.dns.servers) : {"tag", "detour"} \subseteq DOMAIN server
    /\ \A i, j \in 1 .. Len(d.ruleSets) : d.ruleSets[i].name = d.ruleSets[j].name => i = j

Nameable(d) == \A x \in Range(d.nodes) \cup Range(d.groups) : x.name \in Tags

ASSUME DocumentAssumption == \A d \in Documents : Encodable(d) /\ Nameable(d)

ASSUME SpellingAssumption ==
    "direct" \in DirectNames /\ "reject" \in RejectNames /\ "proxy" \in ProxyNames

VARIABLES
    doc,                \* the document
    pc,                 \* "inbounds", "tags", "nodes", "groups", "rules", "done",
                        \* "failed"
    next,               \* iterations done of the loop that pc names
    attempt,            \* 1 for the name itself, then the index that is tried
    tags,               \* tags[n]: the tag of name n
    outbounds,          \* the outbounds, in order
    nodeOutbounds,      \* the names of nodes with an outbound
    groupTags,          \* the tags of groups with an outbound
    routeRules,         \* the route rules that were converted
    final,              \* the final outbound
    ruleSets,           \* the encoded rule sets, in order
    dns,                \* the encoded DNS section and the default resolver
    warnings            \* <<what, index>>, with the name for a member

vars == <<doc, pc, next, attempt, tags, outbounds, nodeOutbounds, groupTags,
          routeRules, final, ruleSets, dns, warnings>>

\* What sing-box is given: a proxy dials server, through detour if it has one,
\* and looks up the server's name with resolver.
Outbound(type, tag, server, members, detour, resolver) ==
    [type |-> type, tag |-> tag, server |-> server, members |-> members,
     detour |-> detour, resolver |-> resolver]

Idle ==
    /\ pc = "inbounds"
    /\ next = 0
    /\ attempt = 1
    /\ tags = [n \in {} |-> ""]
    /\ outbounds = <<>>
    /\ nodeOutbounds = {}
    /\ groupTags = <<>>
    /\ routeRules = <<>>
    /\ final = ""
    /\ ruleSets = <<>>
    /\ dns = {}
    /\ warnings = {}

Init == doc \in Documents /\ Idle

--------------------------------------------------------------------------------
(* buildTags. *)

\* The names in the order in which they are given tags.
NameAt(i) ==
    IF i <= Len(doc.nodes) THEN doc.nodes[i].name
    ELSE doc.groups[i - Len(doc.nodes)].name

Named == 1 .. Len(doc.nodes) + Len(doc.groups)

\* Mutant of Used: only the encoder's own tags.
UsedAtFirst == Reserved

Used == Reserved \cup {tags[n] : n \in DOMAIN tags}

Base(n) ==
    IF n \in DirectNames \cup RejectNames \cup ProxyNames \cup {""} THEN Renamed(n) ELSE n

\* Mutant of Candidate: the index does not go up.
CandidateSame ==
    LET base == Base(NameAt(next + 1))
    IN  IF attempt = 1 THEN base ELSE Numbered(base, 2)

Candidate ==
    LET base == Base(NameAt(next + 1))
    IN  IF attempt = 1 THEN base ELSE Numbered(base, attempt)

\* A name that has a tag keeps it.
KnownName ==
    /\ pc = "tags" /\ next + 1 \in Named
    /\ NameAt(next + 1) \in DOMAIN tags
    /\ next' = next + 1
    /\ UNCHANGED <<doc, pc, attempt, tags, outbounds, nodeOutbounds, groupTags,
                   routeRules, final, ruleSets, dns, warnings>>

\* The candidate is in use: the next index is tried.
Collide ==
    /\ pc = "tags" /\ next + 1 \in Named
    /\ NameAt(next + 1) \notin DOMAIN tags
    /\ Candidate \in Used
    /\ attempt' = attempt + 1
    /\ UNCHANGED <<doc, pc, next, tags, outbounds, nodeOutbounds, groupTags,
                   routeRules, final, ruleSets, dns, warnings>>

Allocate ==
    /\ pc = "tags" /\ next + 1 \in Named
    /\ NameAt(next + 1) \notin DOMAIN tags
    /\ Candidate \notin Used
    /\ tags' = [n \in DOMAIN tags \cup {NameAt(next + 1)} |->
                    IF n \in DOMAIN tags THEN tags[n] ELSE Candidate]
    /\ attempt' = 1
    /\ next' = next + 1
    /\ UNCHANGED <<doc, pc, outbounds, nodeOutbounds, groupTags, routeRules,
                   final, ruleSets, dns, warnings>>

\* Without a list of inbounds, an empty one included, the TUN section counts.
EffectiveInbounds ==
    IF doc.inbounds # {} THEN The(doc.inbounds)
    ELSE IF doc.legacy # {} THEN <<The(doc.legacy)>> ELSE <<>>

\* An inbound that is warned of.
Exposed(inbound) ==
    inbound.type # "tun" /\ inbound.users = <<>> /\ inbound.listen # "loopback"

\* Encode refuses inbounds that ValidateInbounds refuses, before all else.
CheckInbounds ==
    /\ pc = "inbounds"
    /\ IF ValidInbounds(EffectiveInbounds)
       THEN /\ pc' = "tags"
            /\ warnings' = {<<"exposed", i>> : i \in
                   {j \in 1 .. Len(EffectiveInbounds) : Exposed(EffectiveInbounds[j])}}
       ELSE pc' = "failed" /\ UNCHANGED warnings
    /\ UNCHANGED <<doc, next, attempt, tags, outbounds, nodeOutbounds, groupTags,
                   routeRules, final, ruleSets, dns>>

AllNamed ==
    /\ pc = "tags" /\ next + 1 \notin Named
    /\ pc' = "nodes" /\ next' = 0
    /\ UNCHANGED <<doc, attempt, tags, outbounds, nodeOutbounds, groupTags,
                   routeRules, final, ruleSets, dns, warnings>>

--------------------------------------------------------------------------------
(* Nodes and groups. *)

EffectiveDNS == IF doc.dns.servers = <<>> THEN DefaultDNS ELSE doc.dns

\* Mutant of Resolver: it is chosen before the default servers are put in.
ResolverFirst ==
    FirstNonEmpty(doc.resolver, FirstNonEmpty(doc.dns.final,
        IF doc.dns.servers = <<>> THEN "" ELSE doc.dns.servers[1].tag))

Resolver ==
    FirstNonEmpty(doc.resolver,
        FirstNonEmpty(EffectiveDNS.final, EffectiveDNS.servers[1].tag))

ResolverOf(node) == IF node.named THEN Resolver ELSE ""

\* convertNode: an outbound, or a warning.
ConvertNode ==
    /\ pc = "nodes" /\ next < Len(doc.nodes)
    /\ LET node == doc.nodes[next + 1]
       IN  IF node.supported
           THEN /\ outbounds' = Append(outbounds,
                       Outbound("node", tags[node.name], node.name, <<>>, "", ResolverOf(node)))
                /\ nodeOutbounds' = nodeOutbounds \cup {node.name}
                /\ UNCHANGED warnings
           ELSE /\ warnings' = warnings \cup {<<"node", next + 1>>}
                /\ UNCHANGED <<outbounds, nodeOutbounds>>
    /\ next' = next + 1
    /\ UNCHANGED <<doc, pc, attempt, tags, groupTags, routeRules, final, ruleSets, dns>>

AllNodes ==
    /\ pc = "nodes" /\ next = Len(doc.nodes)
    /\ pc' = "groups" /\ next' = 0
    /\ outbounds' = outbounds
           \o <<Outbound("direct", "direct", "", <<>>, "", EffectiveDNS.directResolver),
                Outbound("block", "reject", "", <<>>, "", "")>>
    /\ UNCHANGED <<doc, attempt, tags, nodeOutbounds, groupTags, routeRules,
                   final, ruleSets, dns, warnings>>

KnownMember(m) == m \in DirectNames \cup RejectNames \cup DOMAIN tags

MemberTag(m) ==
    IF m \in DirectNames THEN "direct"
    ELSE IF m \in RejectNames THEN "reject"
    ELSE tags[m]

\* The tags of the members that convertGroup knows.
Members(group) ==
    LET known == Selected(group.members, LAMBDA m : KnownMember(m))
    IN  [i \in 1 .. Len(known) |-> MemberTag(known[i])]

TypeOf(group) == IF group.type \in {"urltest", "fallback"} THEN "urltest" ELSE "selector"

\* Mutant of HopTag: the first hop gets the tag of the group.
HopTagOfFirst(group, i) ==
    IF i = 1 THEN tags[group.name] ELSE Hop(tags[group.name], i)

\* The last hop is the group; traffic leaves it through the hops before it.
HopTag(group, i) ==
    IF i = Len(group.members) THEN tags[group.name] ELSE Hop(tags[group.name], i)

Hops(group) ==
    [i \in 1 .. Len(group.members) |->
        Outbound("node", HopTag(group, i), group.members[i], <<>>,
                 IF i = 1 THEN "" ELSE HopTag(group, i - 1),
                 ResolverOf(doc.nodes[SelectLastInSeq(doc.nodes,
                     LAMBDA n : n.supported /\ n.name = group.members[i])]))]

\* convertRelayGroup and convertGroup: nothing for a group that is skipped.
Converted(group) ==
    IF group.type = "relay"
    THEN IF Range(group.members) \subseteq nodeOutbounds THEN Hops(group) ELSE <<>>
    ELSE IF Members(group) = <<>> \/ group.type = "other" THEN <<>>
         ELSE <<Outbound(TypeOf(group), tags[group.name], "", Members(group), "", "")>>

\* Mutants of GroupWarnings: members, or relays, are omitted without a word.
GroupOnly(group, i) == IF Converted(group) = <<>> THEN {<<"group", i>>} ELSE {}
GroupUnlessRelay(group, i) == IF group.type = "relay" THEN {} ELSE GroupOnly(group, i)

GroupWarnings(group, i) ==
    (IF Converted(group) = <<>> THEN {<<"group", i>>} ELSE {})
        \cup (IF group.type \in {"fallback", "load-balance"} /\ Converted(group) # <<>>
              THEN {<<"approximated", i>>} ELSE {})
        \cup (IF group.type = "relay" THEN {}
              ELSE {<<"member", i, m>> : m \in {x \in Range(group.members) : ~KnownMember(x)}})

ConvertGroup ==
    /\ pc = "groups" /\ next < Len(doc.groups)
    /\ LET group == doc.groups[next + 1]
       IN  /\ outbounds' = outbounds \o Converted(group)
           /\ groupTags' = IF Converted(group) = <<>> THEN groupTags
                           ELSE Append(groupTags, tags[group.name])
           /\ warnings' = warnings \cup GroupWarnings(group, next + 1)
    /\ next' = next + 1
    /\ UNCHANGED <<doc, pc, attempt, tags, nodeOutbounds, routeRules, final, ruleSets, dns>>

NodeTags ==
    LET supported == Selected(doc.nodes, LAMBDA node : node.supported)
    IN  [i \in 1 .. Len(supported) |-> tags[supported[i].name]]

Selectable == IF groupTags # <<>> THEN groupTags ELSE NodeTags

\* The rules that come before those of the document; sniffing decides nothing.
BuiltinRules ==
    <<[match |-> Dns, refs |-> <<>>, action |-> "hijack-dns", outbound |-> ""],
      [match |-> Private, refs |-> <<>>, action |-> "route", outbound |-> "direct"]>>

\* The selector of all groups, or of all nodes where there is no group.
AllGroups ==
    /\ pc = "groups" /\ next = Len(doc.groups)
    /\ next' = 0
    /\ IF Selectable = <<>>
       THEN pc' = "failed" /\ UNCHANGED <<outbounds, routeRules>>
       ELSE /\ pc' = "rules"
            /\ outbounds' = Append(outbounds,
                   Outbound("selector", "proxy", "", Selectable, "", ""))
            /\ routeRules' = BuiltinRules
    /\ UNCHANGED <<doc, attempt, tags, nodeOutbounds, groupTags, final, ruleSets, dns,
                   warnings>>

--------------------------------------------------------------------------------
(* Routing. *)

\* policyTag; "" where the policy is unknown.
PolicyTag(policy) ==
    IF policy \in DirectNames THEN "direct"
    ELSE IF policy \in RejectNames \cup DropNames THEN "reject"
    ELSE IF policy \in ProxyNames THEN "proxy"
    ELSE IF policy \in DOMAIN tags THEN tags[policy]
    ELSE ""

\* Mutant of Routed: an unknown policy becomes proxy, as that of final does.
RoutedAnyway(rule) ==
    [match |-> rule.match, refs |-> rule.codes \o rule.refs, action |-> rule.action,
     outbound |-> IF rule.action = "reject" THEN ""
                  ELSE IF PolicyTag(rule.target) = "" THEN "proxy"
                  ELSE PolicyTag(rule.target)]

\* convertRouteRule; an unknown policy leaves outbound empty.
Routed(rule) ==
    [match |-> rule.match, refs |-> rule.codes \o rule.refs, action |-> rule.action,
     outbound |-> IF rule.action = "reject" THEN "" ELSE PolicyTag(rule.target)]

ConvertRule ==
    /\ pc = "rules" /\ next < Len(doc.rules)
    /\ LET routed == Routed(doc.rules[next + 1])
       IN  IF routed.action = "route" /\ routed.outbound = ""
           THEN /\ warnings' = warnings \cup {<<"rule", next + 1>>}
                /\ UNCHANGED routeRules
           ELSE /\ routeRules' = Append(routeRules, routed)
                /\ UNCHANGED warnings
    /\ next' = next + 1
    /\ UNCHANGED <<doc, pc, attempt, tags, outbounds, nodeOutbounds, groupTags,
                   final, ruleSets, dns>>

\* The tags that encodeRuleSets comes across, in order: those of the rules,
\* the geo codes inside the rule sets, those of the DNS rules.
Mentioned ==
    LET all(items, of(_)) == FoldLeft(LAMBDA found, x : found \o of(x), <<>>, items)
    IN  all(doc.rules, LAMBDA rule : rule.codes \o rule.refs)
            \o all(doc.ruleSets, LAMBDA set : set.codes)
            \o all(EffectiveDNS.rules, LAMBDA rule : rule.refs)

\* A detour that is no policy stays as it is.
Detour(policy) == FirstNonEmpty(PolicyTag(policy), policy)

\* A rule set as the document has it; names are what its inline rules name.
Downloaded(set) ==
    [tag |-> set.name, detour |-> Detour(set.detour),
     names |-> Range(set.refs) \cup Range(set.codes)]

Fetched(tag) == [tag |-> tag, detour |-> "proxy", names |-> {}]

\* Mutant of AppendGenerated: what is there already is not looked for.
AppendAgain(sets, tag) ==
    IF tag \notin GeoTags THEN sets ELSE Append(sets, Fetched(tag))

\* appendGeneratedRuleSetTag.
AppendGenerated(sets, tag) ==
    IF tag \notin GeoTags \/ \E set \in Range(sets) : set.tag = tag THEN sets
    ELSE Append(sets, Fetched(tag))

\* Mutant of EncodedDNS: detours are names, not tags.
EncodedAsNamed ==
    [servers |-> EffectiveDNS.servers, rules |-> EffectiveDNS.rules,
     final |-> EffectiveDNS.final, resolver |-> Resolver]

\* encodeDNS, and the resolver that the route section names.
EncodedDNS ==
    [servers |-> [i \in 1 .. Len(EffectiveDNS.servers) |->
                     [EffectiveDNS.servers[i] EXCEPT
                         !.detour = IF @ = "" THEN "" ELSE Detour(@)]],
     rules |-> EffectiveDNS.rules, final |-> EffectiveDNS.final, resolver |-> Resolver]

AllRules ==
    /\ pc = "rules" /\ next = Len(doc.rules)
    /\ pc' = "done" /\ next' = 0
    /\ final' = IF PolicyTag(doc.final) \in {"", "reject"} THEN "proxy"
                ELSE PolicyTag(doc.final)
    /\ ruleSets' = FoldLeft(AppendGenerated,
                       [i \in 1 .. Len(doc.ruleSets) |-> Downloaded(doc.ruleSets[i])],
                       Mentioned)
    /\ dns' = EncodedDNS
    /\ UNCHANGED <<doc, attempt, tags, outbounds, nodeOutbounds, groupTags,
                   routeRules, warnings>>

Finished ==
    /\ pc \in {"done", "failed"}
    /\ UNCHANGED vars

Next ==
    \/ CheckInbounds
    \/ KnownName \/ Collide \/ Allocate \/ AllNamed
    \/ ConvertNode \/ AllNodes
    \/ ConvertGroup \/ AllGroups
    \/ ConvertRule \/ AllRules
    \/ Finished

Spec == Init /\ [][Next]_vars

--------------------------------------------------------------------------------
(* Properties. *)

Outbounds == Range(outbounds)
Tagged(t) == {o \in Outbounds : o.tag = t}
NodeNames == {node.name : node \in Range(doc.nodes)}
GroupNames == {group.name : group \in Range(doc.groups)}

\* Different names have different tags, none of them a tag that the encoder
\* uses itself, whatever the names and however they collide with one another's
\* replacements.
TagsDistinct ==
    \A m, n \in DOMAIN tags :
        /\ tags[m] \notin Reserved
        /\ tags[m] = tags[n] => m = n

\* The search for a free tag has no limit in the code; it never needs more
\* attempts than there are tags in use, and one.
SearchEnds == attempt <= Cardinality(Used) + 1

\* No name twice, and none like the hop of a relay.
Unambiguous ==
    /\ Cardinality(NodeNames \cup GroupNames) = Len(doc.nodes) + Len(doc.groups)
    /\ \A g \in {group \in Range(doc.groups) : group.type = "relay"} :
          \A i \in 1 .. Len(g.members) :
              Hop(tags[g.name], i) \notin {tags[n] : n \in DOMAIN tags}

\* sing-box refuses a configuration with a tag twice: nodes, groups, the hops
\* of relays and the outbounds of the encoder never share one.
OutboundsUnique ==
    pc = "done" /\ Unambiguous =>
        \A i, j \in 1 .. Len(outbounds) : outbounds[i].tag = outbounds[j].tag => i = j

Skipped(t) ==
    \/ \E i \in 1 .. Len(doc.nodes) :
          tags[doc.nodes[i].name] = t /\ <<"node", i>> \in warnings
    \/ \E i \in 1 .. Len(doc.groups) :
          tags[doc.groups[i].name] = t /\ <<"group", i>> \in warnings

\* Every outbound that an outbound, a rule or a rule set names.
References ==
    (UNION {Range(o.members) : o \in Outbounds})
        \cup ({o.detour : o \in Outbounds} \ {""})
        \cup {rule.outbound : rule \in {r \in Range(routeRules) : r.action = "route"}}
        \cup ({set.detour : set \in Range(ruleSets)} \ {""})
        \cup ({server.detour : server \in Range(dns.servers)} \ {""})
        \cup {final}

\* What a document has to say of its rule sets and its servers: the policies that
\* they are reached through are builtin or in the document.
DetoursHold ==
    \A x \in Range(doc.ruleSets) \cup Range(EffectiveDNS.servers) :
        x.detour \in {""} \cup DirectNames \cup RejectNames \cup DropNames \cup ProxyNames
                         \cup NodeNames \cup GroupNames

\* A reference without an outbound is one to a node or a group that a warning
\* says was skipped.
OnlySkippedDangle ==
    pc = "done" /\ DetoursHold => \A t \in References : Tagged(t) # {} \/ Skipped(t)

\* Following the detours from the tag of a relay group leads through all its
\* members, the last first, and no further.
RelaysDialInOrder ==
    pc = "done" /\ Unambiguous =>
        \A i \in 1 .. Len(doc.groups) :
            LET group == doc.groups[i]
                n == Len(group.members)
                at(t) == IF Tagged(t) = {} THEN Outbound("none", "", "", <<>>, "", "")
                         ELSE CHOOSE o \in Tagged(t) : TRUE
                hop[k \in 1 .. n] ==
                    IF k = n THEN at(tags[group.name]) ELSE at(hop[k + 1].detour)
            IN  group.type = "relay" /\ <<"group", i>> \notin warnings =>
                    /\ \A k \in 1 .. n : hop[k].server = group.members[k]
                    /\ hop[1].detour = ""

\* The tag stands for the policy: the encoder's own outbound for a builtin
\* policy, else what the node or the group of that name was converted to.
StandsFor(t, policy) ==
    \/ policy \in DirectNames /\ t = "direct"
    \/ policy \in RejectNames \cup DropNames /\ t = "reject"
    \/ policy \in ProxyNames /\ t = "proxy"
    \/ \E o \in Tagged(t) : o.server = policy
    \/ \E i \in 1 .. Len(doc.groups) :
          /\ doc.groups[i].name = policy
          /\ \E o \in Tagged(t) :
                IF doc.groups[i].type = "relay"
                THEN o.server = doc.groups[i].members[Len(doc.groups[i].members)]
                ELSE o.type # "node" /\ Len(o.members) = Len(Members(doc.groups[i]))
    \/ policy \in DOMAIN tags /\ t = tags[policy] /\ Skipped(t)

\* What becomes of traffic of class c under a list of rules.
FirstMatch(rules, c) == SelectInSeq(rules, LAMBDA rule : c \in rule.match)

\* Apart from DNS and private addresses, traffic meets the action and the
\* policy that the first matching rule of the document gives it, leaving out
\* the rules that a warning says were skipped.
RoutingKept ==
    pc = "done" =>
        \A c \in Traffic \ (Dns \cup Private) :
            LET kept == {i \in 1 .. Len(doc.rules) :
                            c \in doc.rules[i].match /\ <<"rule", i>> \notin warnings}
                wanted == doc.rules[Min(kept)]
                given == FirstMatch(routeRules, c)
            IN  IF kept = {}
                THEN given = 0
                ELSE /\ given # 0
                     /\ routeRules[given].action = wanted.action
                     /\ routeRules[given].action = "route" =>
                            StandsFor(routeRules[given].outbound, wanted.target)

\* Nothing of the document disappears without a warning: not a node, a group,
\* a member of a group or a rule.
NothingLostSilently ==
    pc = "done" /\ Unambiguous =>
        /\ \A i \in 1 .. Len(doc.nodes) :
              \/ <<"node", i>> \in warnings
              \/ \E o \in Tagged(tags[doc.nodes[i].name]) : o.server = doc.nodes[i].name
        /\ \A i \in 1 .. Len(doc.groups) :
              LET group == doc.groups[i]
              IN  \/ <<"group", i>> \in warnings
                  \/ /\ Tagged(tags[group.name]) # {}
                     /\ group.type # "relay" =>
                          \E o \in Tagged(tags[group.name]) :
                              Len(o.members) = Len(group.members)
                                  - Cardinality({k \in 1 .. Len(group.members) :
                                        <<"member", i, group.members[k]>> \in warnings})
        /\ Len(doc.rules) + Len(BuiltinRules) =
              Len(routeRules)
                  + Cardinality({i \in 1 .. Len(doc.rules) : <<"rule", i>> \in warnings})

\* What the rules, the DNS rules and the geo codes of inline rule sets name.
Sought ==
    UNION ({Range(r.refs) : r \in Range(routeRules) \cup Range(dns.rules)}
               \cup {Range(set.codes) : set \in Range(doc.ruleSets)})

\* A rule set that is named is in the configuration exactly once, if the document
\* has it, or if it is a geo tag, however often and wherever it is named.  What is
\* left out are the geo tags that an inline rule set alone names, by RULE-SET and
\* not by GEOIP or GEOSITE: these nobody generates.
RuleSetsDefined ==
    pc = "done" =>
        \A tag \in Sought \cup UNION {set.names : set \in Range(ruleSets)} :
            tag \in {set.name : set \in Range(doc.ruleSets)} \cup (GeoTags \cap Sought) =>
                Cardinality({i \in 1 .. Len(ruleSets) : ruleSets[i].tag = tag}) = 1

\* What a document has to say of its servers: a resolver or a final server that
\* it names is one of those it has; without servers it names those of the default.
ServersHold ==
    LET given == {server.tag : server \in Range(EffectiveDNS.servers)}
    IN  /\ Cardinality(given) = Len(EffectiveDNS.servers) /\ "" \notin given
        /\ {doc.resolver, EffectiveDNS.final, EffectiveDNS.directResolver}
               \subseteq given \cup {""}

\* Whatever a document leaves out of its DNS section, a proxy whose server is
\* named is given a resolver, and each resolver is a server of the section.
NamesResolvable ==
    pc = "done" /\ ServersHold =>
        /\ {o.resolver : o \in Outbounds} \cup {dns.resolver, dns.final}
               \subseteq {server.tag : server \in Range(dns.servers)} \cup {""}
        /\ \A o \in Outbounds, node \in Range(doc.nodes) :
              o.type = "node" /\ o.server = node.name /\ node.supported /\ node.named
                  => o.resolver # "" \/ ~Unambiguous

--------------------------------------------------------------------------------
(* What the documentation says and the encoder does not do. *)

\* README.md: MATCH and FINAL override the final policy.
FinalPolicyKept ==
    pc = "done" => StandsFor(final, doc.final) \/ doc.final \notin RejectNames

\* README.md: the rules of patches and sources decide before anything else.
RulesComeFirst ==
    pc = "done" /\ warnings = {} =>
        \A c \in Traffic : FirstMatch(doc.rules, c) # 0 =>
            FirstMatch(routeRules, c) > Len(BuiltinRules)

================================================================================
