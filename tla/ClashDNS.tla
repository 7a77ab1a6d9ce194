-------------------------------- MODULE ClashDNS --------------------------------
(***************************************************************************)
(* documentDNS of clash/clash_dns.go: how the dns section of a Clash       *)
(* configuration becomes the DNS section of a document.                    *)
(*                                                                         *)
(* A name server is an address that parseClashDNSServer can use or not.  A *)
(* pattern stands for the domain names that it covers, by themselves or    *)
(* through the rule sets (refs) that it names; the fallback filter's CIDRs *)
(* and country stand for the names whose addresses they contain.           *)
(***************************************************************************)
EXTENDS Document

CONSTANTS
    Domains,            \* the domain names that patterns tell apart
    DnsTag(_)           \* DnsTag(n): "dns-" + n

\* The lists of a DNS section.
DnsLists(dns) ==
    /\ IsList(dns.nameservers) /\ IsList(dns.defaults) /\ IsList(dns.proxies)
    /\ IsList(dns.directs) /\ IsList(dns.fallback)
    /\ IsList(dns.policies) /\ \A p \in Range(dns.policies) : IsList(p.servers)
    /\ IsList(dns.filterDomains) /\ IsList(dns.cidrs) /\ IsList(dns.filter)
    /\ \A p \in Range(dns.policies) : p.pattern.usable => IsList(p.pattern.refs)
    /\ \A x \in Range(dns.filterDomains) \cup Range(dns.filter) : x.usable => IsList(x.refs)
    /\ dns.geoip.enabled => IsList(dns.geoip.refs)

\* The tag of the servers that has the address; "" for none.
TagOf(servers, address) ==
    LET i == SelectInSeq(servers, LAMBDA s : s.address = address)
    IN  IF i = 0 THEN "" ELSE servers[i].tag

\* Mutant of AddServer: servers are dialled through the proxies, as the default's are.
AddProxied(servers, raw) ==
    IF ~raw.usable \/ TagOf(servers, raw.address) # "" THEN servers
    ELSE Append(servers, Server(DnsTag(Len(servers) + 1), raw.address, "proxy", raw.named))

\* addServer: an address is one server, however often it is given.
AddServer(servers, raw) ==
    IF ~raw.usable \/ TagOf(servers, raw.address) # "" THEN servers
    ELSE Append(servers, Server(DnsTag(Len(servers) + 1), raw.address, "", raw.named))

\* Policies in the order of their patterns; one without servers counts for nothing.
Policies(dns) == Selected(dns.policies, LAMBDA p : p.servers # <<>>)

\* All servers of the section in the order in which they are added.
Given(dns) ==
    dns.nameservers \o dns.defaults \o dns.proxies \o dns.directs
        \o [i \in 1 .. Len(Policies(dns)) |-> Policies(dns)[i].servers[1]] \o dns.fallback

Servers(dns) == FoldLeft(AddServer, <<>>, Given(dns))

\* Mutant of FirstTag: only the first server of the list is tried.
TagOfHead(dns, raws) == IF raws = <<>> THEN "" ELSE TagOf(Servers(dns), raws[1].address)

\* The tag of the first server of a list that can be used.
FirstTag(dns, raws) ==
    LET i == SelectInSeq(raws, LAMBDA raw : raw.usable)
    IN  IF i = 0 THEN "" ELSE TagOf(Servers(dns), raws[i].address)

\* A rule sends to its server the names that it matches, or the others.
Rule(match, refs, invert, server) ==
    [match |-> match, refs |-> refs, invert |-> invert, server |-> server]
Applies(rule, n) == (n \in rule.match) # rule.invert

RulesFor(patterns, server) ==
    LET usable == Selected(patterns, LAMBDA p : p.usable)
    IN  [i \in 1 .. Len(usable) |-> Rule(usable[i].match, usable[i].refs, FALSE, server)]

PolicyRules(dns) ==
    LET kept == Selected(Policies(dns), LAMBDA p : p.servers[1].usable /\ p.pattern.usable)
    IN  [i \in 1 .. Len(kept) |->
            Rule(kept[i].pattern.match, kept[i].pattern.refs, FALSE,
                 TagOf(Servers(dns), kept[i].servers[1].address))]

\* The CIDRs make one rule; the country's is inverted: the fallback answers
\* for names whose addresses are abroad.
FallbackRules(dns) ==
    LET server == FirstTag(dns, dns.fallback)
        cidrs == Selected(dns.cidrs, LAMBDA c : c.usable)
    IN  IF server = "" \/ dns.fakeip THEN <<>>
        ELSE RulesFor(dns.filterDomains, server)
             \o (IF cidrs = <<>> THEN <<>>
                 ELSE <<Rule(UNION {c.match : c \in Range(cidrs)}, <<>>, FALSE, server)>>)
             \o (IF dns.geoip.enabled
                 THEN <<Rule(dns.geoip.match, dns.geoip.refs, TRUE, server)>> ELSE <<>>)

Primary(dns) == FirstTag(dns, dns.nameservers)
Everything(server) == <<Rule(Domains, <<>>, FALSE, server)>>

\* A line of a filter in rule mode.  dnsMatchFromRoute keeps what a rule says
\* of domains; of a rule about addresses nothing is left, which matches all.
LineUsable(line) == line.usable /\ line.target \in {"fake-ip", "real-ip"}
LineRules(dns) ==
    LET usable == Selected(dns.filter, LineUsable)
    IN  [i \in 1 .. Len(usable) |->
            Rule(IF usable[i].onAddress THEN Domains ELSE usable[i].match, usable[i].refs,
                 FALSE, IF usable[i].target = "fake-ip" THEN "fakeip" ELSE Primary(dns))]

\* A mode that is unknown leaves the filter out.
FakeIPRules(dns) ==
    IF ~dns.fakeip THEN <<>>
    ELSE CASE dns.mode = "rule" -> LineRules(dns)
           [] dns.mode = "whitelist" -> RulesFor(dns.filter, "fakeip")
           [] dns.mode = "blacklist" ->
                  RulesFor(dns.filter, Primary(dns)) \o Everything("fakeip")
           [] OTHER -> Everything("fakeip")

\* Mutant of DnsRules: the fallback is asked before the policies.
DnsRulesFallbackFirst(dns) == FallbackRules(dns) \o PolicyRules(dns) \o FakeIPRules(dns)

DnsRules(dns) == PolicyRules(dns) \o FallbackRules(dns) \o FakeIPRules(dns)

DocumentDNS(dns) ==
    [servers |-> Servers(dns)
                    \o IF dns.fakeip THEN <<Server("fakeip", "fakeip", "", FALSE)>> ELSE <<>>,
     rules |-> DnsRules(dns),
     final |-> Primary(dns),
     proxyResolver |-> FirstNonEmpty(FirstTag(dns, dns.proxies), Primary(dns)),
     directResolver |-> FirstTag(dns, dns.directs),
     storeFakeIP |-> dns.fakeip]

Unusable(what, items, Usable(_)) ==
    {<<what, i>> : i \in {j \in 1 .. Len(items) : ~Usable(items[j])}}

\* An unusable pattern of the fallback filter is left out without a word.
DnsWarnings(dns) ==
    Unusable("dns server", Given(dns), LAMBDA raw : raw.usable)
        \cup Unusable("dns policy", Policies(dns),
                 LAMBDA p : ~p.servers[1].usable \/ p.pattern.usable)
        \cup {<<option, 0>> : option \in dns.unsupported}
        \cup (IF FirstTag(dns, dns.fallback) = "" THEN {}
              ELSE IF dns.fakeip THEN {<<"fallback", 0>>}
              ELSE Unusable("fallback CIDR", dns.cidrs, LAMBDA c : c.usable))
        \cup (IF ~dns.fakeip THEN {}
              ELSE CASE dns.mode = "rule" -> Unusable("fake-ip rule", dns.filter, LineUsable)
                     [] dns.mode \in {"whitelist", "blacklist"} ->
                            Unusable("fake-ip filter", dns.filter, LAMBDA p : p.usable)
                     [] OTHER -> {<<"fake-ip filter mode", 0>>})

================================================================================
