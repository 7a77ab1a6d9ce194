----------------------------- MODULE MCSingBoxEncode -----------------------------
(* Small documents for SingBoxEncode, and how tags are spelled. *)
EXTENDS SingBoxEncode, TLC

MCRenamed(n) == n \o "-proxy"
MCNumbered(base, i) == base \o "-" \o ToString(i)
MCHop(tag, i) == tag \o "-hop-" \o ToString(i)

MCTags ==
    {"hk", "sg", "Proxy", "Proxy-proxy", "Proxy-proxy-2", "auto", "auto-hop-1",
     "all", "ghost", "DIRECT", "REJECT"} \cup Reserved
MCDirect == {"DIRECT", "direct"}
MCReject == {"REJECT", "reject"}
MCDrop == {"REJECT-DROP"}
MCProxy == {"proxy", "Proxy"}
MCGeo == {"geoip-cn", "geosite-cn"}
MCTraffic == {"query", "lan", "web", "mail"}
MCDns == {"query"}
MCPrivate == {"lan"}

LOCAL N(name) == [name |-> name, supported |-> TRUE, named |-> name = "hk"]
LOCAL U(name) == [name |-> name, supported |-> FALSE, named |-> FALSE]
LOCAL G(name, type, members) == [name |-> name, type |-> type, members |-> members]
LOCAL Rule(match, target, refs) ==
    [match |-> match, refs |-> SelectSeq(refs, LAMBDA x : x \notin MCGeo),
     codes |-> SelectSeq(refs, LAMBDA x : x \in MCGeo), action |-> IF target = "" THEN "reject" ELSE "route",
     target |-> target]
LOCAL Set(name, detour, refs, codes) ==
    [name |-> name, detour |-> detour, refs |-> refs, codes |-> codes]

\* Names that are built in, or that replacements run into, in either order.
NodeLists ==
    {<<N("hk"), N("sg")>>, <<N("hk"), U("sg")>>, <<U("hk")>>,
     <<N("Proxy"), N("Proxy-proxy"), N("Proxy-proxy-2")>>,
     <<N("Proxy-proxy-2"), N("Proxy-proxy"), N("Proxy")>>,
     <<N("hk"), N("auto-hop-1")>>, <<N("direct"), N("proxy")>>}

SomeGroups ==
    {G("auto", "relay", <<"hk", "sg">>), G("auto", "urltest", <<"ghost", "hk", "DIRECT", "ghost">>),
     G("all", "fallback", <<"auto", "sg">>), G("all", "other", <<"hk">>),
     G("Proxy", "selector", <<"hk", "auto", "REJECT">>), G("hk", "load-balance", <<"ghost">>)}

GroupLists == SeqOf(SomeGroups, 2)

RuleLists ==
    {<<>>,
     <<Rule({"lan", "web"}, "auto", <<"geoip-cn">>), Rule({"web", "mail"}, "", <<>>)>>,
     <<Rule({"web"}, "ghost", <<>>), Rule({"web"}, "Proxy", <<"geosite-cn", "ads">>)>>,
     <<Rule({"mail"}, "hk", <<"ads">>), Rule({"mail", "web"}, "DIRECT", <<"geoip-cn">>)>>}

SetLists ==
    {<<>>, <<Set("ads", "auto", <<"geoip-cn">>, <<"geosite-cn">>), Set("geoip-cn", "", <<>>, <<>>)>>,
     <<Set("ads", "", <<"geoip-cn", "ads">>, <<>>)>>}

\* Sections without and with servers, neither with a final one.
LOCAL NoServers ==
    [DefaultDNS EXCEPT !.servers = <<>>, !.final = ""]
LOCAL Through(detour) ==
    [DefaultDNS EXCEPT
        !.servers = <<Server("inner", "10.0.0.1", detour, FALSE), @[1]>>, !.final = "",
        !.directResolver = "local",
        !.rules = <<[match |-> {}, refs |-> <<"geosite-cn", "ads", "geoip-cn">>,
                     invert |-> FALSE, server |-> "inner"]>>]

\* A patch whose rule set has a detour that is no policy is refused; decoders
\* set none, and the DNS section of a document patch is assumed to be right.
Detoured(d) ==
    \A x \in Range(d.ruleSets) \cup Range(d.dns.servers) :
        x.detour \in
            {"", "Proxy"} \cup {d.nodes[j].name : j \in 1 .. Len(d.nodes)}
                 \cup {d.groups[j].name : j \in 1 .. Len(d.groups)}

MCDocuments ==
    {d \in [nodes : NodeLists, groups : GroupLists, rules : RuleLists, ruleSets : SetLists,
     dns : {NoServers, Through("auto"), Through("Proxy")}, resolver : {""},
     inbounds : {{<<Tun("tun-in")>>}}, legacy : {{}},
     final : {"proxy", "REJECT", "auto", "ghost"}] : Detoured(d)}
    \cup [nodes : {<<N("hk")>>}, groups : {<<>>}, rules : {<<>>}, ruleSets : {<<>>},
          dns : {DefaultDNS}, resolver : {DefaultResolver}, 
          inbounds : {{}, {<<Tun("")>>}}, legacy : {{}, {Tun("a")}}, final : {"proxy"}]
==================================================================================
