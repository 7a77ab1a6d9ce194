------------------------------- MODULE ClashDecode -------------------------------
(***************************************************************************)
(* decodeClashConfig of clash/clash_decode.go and DecodePatch of           *)
(* clash/patch.go: how a Clash configuration, and the providers it loads   *)
(* on the way, become a document or a patch.  One action is one iteration  *)
(* of a loop of the code.                                                  *)
(*                                                                         *)
(* Text is abstracted to what the decoder makes of it: a proxy is complete *)
(* and its type known or not, a rule is a rule, a MATCH or invalid, a      *)
(* regular expression is the set of names that it lets through.  A rule    *)
(* names rule sets (refs) and geo codes (codes); a proxy's last two fields *)
(* are of the encoder.  A section is in the configuration when it has an   *)
(* item.                                                                   *)
(***************************************************************************)
EXTENDS ClashDNS

CONSTANTS
    Configs,            \* configurations
    Offered,            \* Offered[n]: contents that provider n may deliver
    Unavailable,        \* a provider that could not be loaded or read
    Renamed(_, _),      \* Renamed(n, x): name x as overridden by provider n
    ClashGroupTypes     \* the group types that clashGroupType knows

\* What the configuration and its providers have is lists.  Rule providers are
\* the fields of a map.  The kind of a rule is what decodeClashRule makes of its
\* line: "match" is a MATCH or FINAL that names a policy; one that names none is a
\* rule without a match and without a policy.
ASSUME ConfigsAssumption ==
    \A c \in Configs :
        /\ IsList(c.proxies) /\ IsList(c.providers) /\ IsList(c.groups)
        /\ IsList(c.ruleProviders) /\ IsList(c.rules) /\ DnsLists(c.dns)
        /\ \A p \in Range(c.providers) :
              IF p.inline THEN IsList(p.payload)
              ELSE \A content \in Offered[p.name] : content # Unavailable => IsList(content)
        /\ \A g \in Range(c.groups) : IsList(g.proxies) /\ IsList(g.use)
        /\ \A rule \in Range(c.rules) :
              /\ rule.kind = "rule" => IsList(rule.refs) /\ IsList(rule.codes)
              /\ rule.kind = "match" => rule.target # ""
        /\ \A p \in Range(c.ruleProviders) :
              \A content \in IF p.inline THEN {p.payload} ELSE Offered[p.name] :
                 content # Unavailable /\ content.decodes => IsList(content.codes)
        /\ \A i, j \in 1 .. Len(c.ruleProviders) :
              c.ruleProviders[i].name = c.ruleProviders[j].name => i = j

VARIABLES
    config,             \* the configuration
    strict,             \* decoded as a patch
    pc,                 \* the loop that is running, see Next; "done" or "failed"
    next,               \* iterations done of it
    item,               \* proxies of the current provider done
    resolved,           \* the proxies of each provider that was resolved
    members,            \* the names that each provider brought
    doc,                \* the document
    patch,              \* the patch, when decoded as one
    warnings            \* <<what, index>>

vars == <<config, strict, pc, next, item, resolved, members, doc, patch, warnings>>

Names(items) == {items[i].name : i \in 1 .. Len(items)}

NoPatch == [inbounds |-> {}, nodes |-> <<>>, groups |-> <<>>, dns |-> {}, route |-> FALSE,
            rules |-> <<>>, ruleSets |-> <<>>, final |-> {}]

Init ==
    /\ config \in Configs
    /\ strict \in BOOLEAN
    /\ pc = "start"
    /\ next = 0
    /\ item = 0
    /\ resolved = <<>>
    /\ members = <<>>
    /\ doc = DefaultDocument
    /\ patch = NoPatch
    /\ warnings = {}

\* The loop named from is over after n iterations; to is next.
Turn(from, n, to) ==
    /\ pc = from /\ next = n
    /\ pc' = to /\ next' = 0
    /\ UNCHANGED <<config, strict, item, resolved, members, doc, patch, warnings>>

\* An error: nothing of the document is returned.
Refuse ==
    /\ pc' = "failed"
    /\ UNCHANGED <<config, strict, next, item, resolved, members, doc, patch, warnings>>

Warn(what, i) == warnings' = warnings \cup {<<what, i>>}

Start ==
    /\ pc = "start"
    /\ LET empty == config.proxies = <<>> /\ config.providers = <<>>
           bare == /\ empty /\ config.groups = <<>> /\ config.ruleProviders = <<>>
                   /\ config.rules = <<>> /\ ~config.dns.given
       IN  IF (strict /\ bare) \/ (~strict /\ empty) THEN Refuse
           ELSE Turn("start", 0, "proxies")

--------------------------------------------------------------------------------
(* Proxies. *)

\* appendProxy returns true.
Accepted(proxy) ==
    /\ proxy.complete /\ proxy.known
    /\ proxy.name \notin Names(doc.nodes)

\* Mutant of AppendProxy: the last definition of a name stays.
AppendProxyLast(proxy) ==
    doc' = IF Accepted(proxy) THEN [doc EXCEPT !.nodes = Append(@, proxy)]
           ELSE [doc EXCEPT !.nodes = [i \in DOMAIN @ |->
                    IF @[i].name = proxy.name THEN proxy ELSE @[i]]]

AppendProxy(proxy) ==
    doc' = IF Accepted(proxy) THEN [doc EXCEPT !.nodes = Append(@, proxy)] ELSE doc

DecodeProxy ==
    /\ pc = "proxies" /\ next < Len(config.proxies)
    /\ LET proxy == config.proxies[next + 1]
       IN  /\ AppendProxy(proxy)
           /\ IF Accepted(proxy) THEN UNCHANGED warnings ELSE Warn("proxy", next + 1)
    /\ next' = next + 1
    /\ UNCHANGED <<config, strict, pc, item, resolved, members, patch>>

--------------------------------------------------------------------------------
(* Proxy providers: all are resolved, in the order of their names, before the *)
(* proxies of the first are appended.                                         *)

\* filterClashProviderProxies: the filters see the name before it is overridden.
Filtered(provider, proxies) ==
    LET kept == Selected(proxies, LAMBDA proxy : proxy.name \in provider.passes)
    IN  IF ~provider.overrides THEN kept
        ELSE [i \in 1 .. Len(kept) |->
                 [kept[i] EXCEPT !.name = Renamed(provider.name, kept[i].name)]]

\* An inline provider may be empty, a loaded one may not.
ResolveProvider ==
    /\ pc = "providers" /\ next < Len(config.providers)
    /\ LET provider == config.providers[next + 1]
       IN  \E content \in IF provider.inline THEN {provider.payload}
                          ELSE Offered[provider.name] \cup {Unavailable} :
              IF \/ ~provider.valid
                 \/ ~provider.inline /\ content \in {Unavailable, <<>>}
              THEN Refuse
              ELSE /\ resolved' = Append(resolved, Filtered(provider, content))
                   /\ next' = next + 1
                   /\ UNCHANGED <<config, strict, pc, item, members, doc, patch, warnings>>

\* One proxy of a provider; a name that came first keeps its definition, and
\* the provider does not bring it.
DecodeProvided ==
    /\ pc = "members" /\ next < Len(resolved) /\ item < Len(resolved[next + 1])
    /\ LET proxy == resolved[next + 1][item + 1]
           before == IF Len(members) = next THEN <<>> ELSE members[next + 1]
           now == IF Accepted(proxy) THEN Append(before, proxy.name) ELSE before
       IN  /\ AppendProxy(proxy)
           /\ members' = Append(SubSeq(members, 1, next), now)
           /\ IF Accepted(proxy) THEN UNCHANGED warnings
              ELSE Warn("provided", next + 1)
    /\ item' = item + 1
    /\ UNCHANGED <<config, strict, pc, next, resolved, patch>>

EndOfProvider ==
    /\ pc = "members" /\ next < Len(resolved) /\ item = Len(resolved[next + 1])
    /\ members' = IF Len(members) = next THEN Append(members, <<>>) ELSE members
    /\ next' = next + 1
    /\ item' = 0
    /\ UNCHANGED <<config, strict, pc, resolved, doc, patch, warnings>>

--------------------------------------------------------------------------------
(* Groups. *)

Index(provider) == SelectInSeq(config.providers, LAMBDA p : p.name = provider)

\* uniqueStrings.
Unique(names) ==
    FoldLeft(LAMBDA kept, n : IF n \in {""} \cup Range(kept) THEN kept ELSE Append(kept, n),
             <<>>, names)

\* Mutant of MembersOf: the filter of the group is not applied.
MembersUnfiltered(group) ==
    Unique(group.proxies
           \o Chained([i \in 1 .. Len(group.use) |-> members[Index(group.use[i])]]))

\* The members that a group lists, then those its providers brought.
MembersOf(group) ==
    Unique(group.proxies
           \o Chained([i \in 1 .. Len(group.use) |->
                 Selected(members[Index(group.use[i])], LAMBDA n : n \in group.passes)]))

Recognized(group) == group.name # "" /\ group.type \in ClashGroupTypes

DecodeGroup ==
    /\ pc = "groups" /\ next < Len(config.groups)
    /\ LET group == config.groups[next + 1]
       IN  IF ~Recognized(group)
           THEN /\ Warn("group", next + 1)
                /\ next' = next + 1
                /\ UNCHANGED <<config, strict, pc, item, resolved, members, doc, patch>>
           ELSE IF \E i \in 1 .. Len(group.use) : Index(group.use[i]) = 0 \/ ~group.valid
                THEN Refuse
                ELSE /\ doc' = [doc EXCEPT !.groups = Append(@,
                                  [name |-> group.name, type |-> group.type,
                                   members |-> MembersOf(group)])]
                     /\ next' = next + 1
                     /\ UNCHANGED <<config, strict, pc, item, resolved, members,
                                    patch, warnings>>

\* A DNS section without a server that can be used leaves the default.
DecodeDNS ==
    /\ pc = "dns"
    /\ LET dns == DocumentDNS(config.dns)
       IN  IF ~config.dns.enabled THEN UNCHANGED <<doc, warnings>>
           ELSE /\ doc' = IF dns.servers = <<>> THEN doc
                          ELSE [doc EXCEPT !.dns = dns,
                                   !.resolver = FirstNonEmpty(dns.proxyResolver, dns.final)]
                /\ warnings' = warnings \cup DnsWarnings(config.dns)
    /\ pc' = "sets"
    /\ UNCHANGED <<config, strict, next, item, resolved, members, patch>>

--------------------------------------------------------------------------------
(* Rule providers and rules. *)

\* A content is unusable when a line of it does not decode, or it has none.
ResolveRuleProvider ==
    /\ pc = "sets" /\ next < Len(config.ruleProviders)
    /\ LET provider == config.ruleProviders[next + 1]
       IN  \E content \in IF provider.inline THEN {provider.payload}
                          ELSE Offered[provider.name] \cup {Unavailable} :
              IF ~provider.valid \/ content = Unavailable \/ ~content.decodes
              THEN Refuse
              ELSE /\ doc' = [doc EXCEPT !.ruleSets = Append(@,
                                [name |-> provider.name, valid |-> TRUE, detour |-> "",
                                 refs |-> content.refs, codes |-> content.codes])]
                   /\ next' = next + 1
                   /\ UNCHANGED <<config, strict, pc, item, resolved, members,
                                  patch, warnings>>

RouteRule(rule) ==
    [match |-> rule.match, refs |-> rule.refs, codes |-> rule.codes,
     action |-> rule.action, target |-> rule.target]

\* Mutant of WithRule: the rules end up in the opposite order.
RuleFirst(rule) == [doc EXCEPT !.rules = <<RouteRule(rule)>> \o @]

WithRule(rule) == [doc EXCEPT !.rules = Append(@, RouteRule(rule))]

\* The last MATCH is the final policy; rules after it are rules all the same.
DecodeRule ==
    /\ pc = "rules" /\ next < Len(config.rules)
    /\ LET rule == config.rules[next + 1]
       IN  \/ rule.kind = "invalid" /\ Warn("rule", next + 1) /\ UNCHANGED doc
           \/ /\ rule.kind = "match"
              /\ doc' = [doc EXCEPT !.final = rule.target]
              /\ UNCHANGED warnings
           \/ rule.kind = "rule" /\ doc' = WithRule(rule) /\ UNCHANGED warnings
    /\ next' = next + 1
    /\ UNCHANGED <<config, strict, pc, item, resolved, members, patch>>

Refs(items) == UNION {Range(x.refs) : x \in Range(items)}

\* Mutant of Referenced: DNS rules are not looked at.
ReferencedByRoute == Refs(doc.rules) \cup Refs(doc.ruleSets)

\* validateDocumentRuleSetReferences: all rule sets that are named.
Referenced == Refs(doc.rules) \cup Refs(doc.ruleSets) \cup Refs(doc.dns.rules)

Validate ==
    /\ pc = "rules" /\ next = Len(config.rules)
    /\ IF Referenced \subseteq Names(doc.ruleSets) \cup GeoTags
       THEN Turn("rules", next, IF strict THEN "patch" ELSE "done")
       ELSE Refuse

Matches == Selected(config.rules, LAMBDA rule : rule.kind = "match")

\* Mutant of Acceptable: several MATCH rules are let through.
AcceptableTwice == \A i \in 1 .. Len(config.rules) : config.rules[i].kind # "invalid"

\* What a patch must not have, though a source may.
Acceptable ==
    /\ \A i \in 1 .. Len(config.rules) : config.rules[i].kind # "invalid"
    /\ Len(Matches) <= 1

\* DecodePatch: the sections that the configuration has.
MakePatch ==
    /\ pc = "patch"
    /\ IF ~Acceptable THEN Refuse
       ELSE /\ patch' =
                 [inbounds |-> {}, nodes |-> doc.nodes, groups |-> doc.groups,
                  dns |-> IF config.dns.enabled THEN {doc.dns} ELSE {},
                  route |-> config.rules # <<>> \/ config.ruleProviders # <<>>,
                  rules |-> doc.rules, ruleSets |-> doc.ruleSets,
                  final |-> IF Matches = <<>> THEN {} ELSE {doc.final}]
            /\ pc' = "done"
            /\ UNCHANGED <<config, strict, next, item, resolved, members, doc, warnings>>

Finished ==
    /\ pc \in {"done", "failed"}
    /\ UNCHANGED vars

Next ==
    \/ Start
    \/ DecodeProxy \/ Turn("proxies", Len(config.proxies), "providers")
    \/ ResolveProvider \/ Turn("providers", Len(config.providers), "members")
    \/ DecodeProvided \/ EndOfProvider \/ Turn("members", Len(resolved), "groups")
    \/ DecodeGroup \/ Turn("groups", Len(config.groups), "dns")
    \/ DecodeDNS
    \/ ResolveRuleProvider \/ Turn("sets", Len(config.ruleProviders), "rules")
    \/ DecodeRule \/ Validate
    \/ MakePatch
    \/ Finished

Spec == Init /\ [][Next]_vars

--------------------------------------------------------------------------------
(* Properties. *)

\* A node has a name of its own, whichever proxies and providers it came from:
\* groups, rules and tags find one node by its name.
NodesNamedOnce ==
    \A i, j \in 1 .. Len(doc.nodes) : doc.nodes[i].name = doc.nodes[j].name => i = j

\* All proxies, in the order in which they count, up to the k-th provider.
DefinitionsTo(k) == config.proxies \o Chained(SubSeq(resolved, 1, k))
Definitions == DefinitionsTo(Len(resolved))

Usable(proxy) == proxy.complete /\ proxy.known
UsableNames(proxies) == {proxy.name : proxy \in {p \in Range(proxies) : Usable(p)}}

\* Of all usable proxies of one name the first is the node: the configuration's
\* own before those of providers, whatever the providers delivered. It is so once.
FirstDefinitionWins ==
    pc = "done" =>
        /\ NodesNamedOnce
        /\ Names(doc.nodes) = UsableNames(Definitions)
        /\ \A i \in 1 .. Len(doc.nodes) :
              {doc.nodes[i]} = FirstGiven(Definitions,
                  LAMBDA p : IF Usable(p) /\ p.name = doc.nodes[i].name THEN {p} ELSE {})

\* A group has every usable proxy that its providers brought and its filter
\* lets through, and from providers nothing else: no name that is no node, none
\* that the filter stops, none that another definition took before.
ProvidedMembers ==
    pc = "done" =>
        \A i \in 1 .. Len(doc.groups) :
            LET given == Selected(config.groups, LAMBDA group : Recognized(group))[i]
                used == {Index(given.use[j]) : j \in 1 .. Len(given.use)}
                brought(k) == UsableNames(resolved[k]) \ UsableNames(DefinitionsTo(k - 1))
            IN  Range(doc.groups[i].members) =
                    (Range(given.proxies) \cup ((UNION {brought(k) : k \in used}) \cap given.passes))
                    \ {""}

\* A document is made of everything that the configuration names: each provider
\* resolved once, each rule provider a rule set, and no rule, DNS rule or inline
\* rule set names a rule set that is neither there nor a geo tag.
NothingMissing ==
    pc = "done" =>
        /\ Len(resolved) = Len(config.providers)
        /\ Len(doc.ruleSets) = Len(config.ruleProviders)
        /\ \A i \in 1 .. Len(doc.ruleSets) :
              doc.ruleSets[i].name = config.ruleProviders[i].name
        /\ \A x \in Range(doc.ruleSets) \cup Range(doc.rules) \cup Range(doc.dns.rules) :
              Range(x.refs) \subseteq Names(doc.ruleSets) \cup GeoTags

\* A patch is taken whole or refused: each of its rules is in it, its MATCH is
\* its only final policy, and without MATCH it overrides none.
PatchesAreStrict ==
    pc = "done" /\ strict =>
        /\ Len(patch.rules) + Cardinality(patch.final) = Len(config.rules)
        /\ \A final \in patch.final : \E i \in 1 .. Len(config.rules) :
              config.rules[i].kind = "match" /\ config.rules[i].target = final

--------------------------------------------------------------------------------
(* DNS. *)

Dns == config.dns
Decoded == pc = "done" /\ Dns.enabled
AnyServer == \E i \in 1 .. Len(Dns.nameservers) : Dns.nameservers[i].usable
Modes == {"blacklist", "whitelist", "rule"}
Covering(patterns, n) ==
    Selected(patterns, LAMBDA p : p.usable /\ n \in p.match)
AddressOf(tag) ==
    doc.dns.servers[SelectInSeq(doc.dns.servers, LAMBDA s : s.tag = tag)].address

\* The address of the server that answers for name n.
Answering(n) ==
    LET i == SelectInSeq(doc.dns.rules, LAMBDA r : Applies(r, n))
    IN  AddressOf(IF i = 0 THEN doc.dns.final ELSE doc.dns.rules[i].server)

\* Those a Clash client would ask: the policies come first; then fake-ip takes
\* the names that its filter gives it; then the fallback those that are filtered.
Filter(n) == Covering(Dns.filter, n) # <<>>
Faked(n) ==
    /\ Dns.fakeip
    /\ CASE Dns.mode = "blacklist" -> ~Filter(n)
         [] Dns.mode = "whitelist" -> Filter(n)
         [] OTHER -> Filter(n) /\ Covering(Dns.filter, n)[1].target = "fake-ip"
FallenBack(n) ==
    /\ ~Dns.fakeip /\ Dns.fallback # <<>>
    /\ \/ Covering(Dns.filterDomains \o Dns.cidrs, n) # <<>>
       \/ Dns.geoip.enabled /\ n \notin Dns.geoip.match
AddressAsked(n) ==
    LET policies == Selected(Policies(Dns), LAMBDA p : p.pattern.usable /\ n \in p.pattern.match)
    IN  CASE policies # <<>> -> policies[1].servers[1].address
          [] policies = <<>> /\ Faked(n) -> "fakeip"
          [] policies = <<>> /\ FallenBack(n) -> Dns.fallback[1].address
          [] OTHER -> Dns.nameservers[1].address

\* Unless a warning tells that something was left out, every name is answered
\* by the server that the Clash configuration means: though servers are told
\* apart by address, found by tag and numbered over six lists, and though five
\* kinds of rules end up in one list.  A filter by address is beyond DNS rules.
NamesAnsweredAsMeant ==
    Decoded /\ DnsWarnings(Dns) = {} /\ AnyServer
        /\ ~(Dns.mode = "rule" /\ \E i \in 1 .. Len(Dns.filter) : Dns.filter[i].onAddress)
    => \A n \in Domains : Answering(n) = AddressAsked(n)

\* If a name server can be used, all that names a server names exactly one, and
\* the addresses of proxies are never fake.
ServersDefined ==
    Decoded /\ AnyServer =>
        /\ \A tag \in {doc.dns.final, doc.resolver}
                  \cup {doc.dns.rules[i].server : i \in 1 .. Len(doc.dns.rules)}
                  \cup ({doc.dns.directResolver} \ {""}) :
              Cardinality({i \in 1 .. Len(doc.dns.servers) : doc.dns.servers[i].tag = tag}) = 1
        /\ doc.resolver # "fakeip" /\ doc.dns.final # "fakeip"

\* What the warning of documentDNS about an unknown filter mode says.
BlacklistWasUsed ==
    Decoded /\ Dns.fakeip /\ AnyServer /\ Dns.mode \notin Modes =>
        \A n \in Domains : Answering(n) = "fakeip" => ~Filter(n)

================================================================================
