----------------------------- MODULE MCClashToSingBox -----------------------------
(* Small Clash configurations: their proxies, providers, groups and rules in all *)
(* combinations, their DNS sections on top of a plain one.                       *)
EXTENDS ClashToSingBox, TLC

MCDnsTag(n) == "dns-" \o ToString(n)
MCRenamed(n, x) == x \o "-" \o n
MCTagRenamed(n) == n \o "-proxy"
MCNumbered(base, i) == base \o "-" \o ToString(i)
MCHop(tag, i) == tag \o "-hop-" \o ToString(i)
MCGroupTypes == {"selector", "urltest", "fallback", "load-balance", "relay"}

\* Proxies whose server is a name, that the encoder does not take, or the decoder.
LOCAL Good(name) ==
    [name |-> name, complete |-> TRUE, known |-> TRUE, supported |-> TRUE,
     named |-> TRUE, by |-> "config"]
LOCAL By(name, who) == [Good(name) EXCEPT !.by = who]
LOCAL Bad(name) == [Good(name) EXCEPT !.known = FALSE]
LOCAL Partial == [Good("c") EXCEPT !.complete = FALSE]
LOCAL Encrypted(name) == [Good(name) EXCEPT !.supported = FALSE]

LOCAL ProxyLists ==
    {<<>>, <<Good("a"), Bad("b")>>, <<Partial, Good("a"), By("a", "again"), Encrypted("e")>>}

LOCAL Inline(proxies) ==
    [name |-> "inline", valid |-> TRUE, inline |-> TRUE, payload |-> proxies,
     passes |-> {"a", "b", "c"}, overrides |-> FALSE]
LOCAL Remote(valid, overrides) ==
    [name |-> "remote", valid |-> valid, inline |-> FALSE, payload |-> <<>>,
     passes |-> {"a", "b"}, overrides |-> overrides]
LOCAL ProviderLists ==
    {<<>>, <<Remote(TRUE, FALSE)>>, <<Inline(<<By("b", "inline"), By("c", "inline")>>)>>,
     <<Inline(<<By("b", "inline")>>), Remote(TRUE, FALSE)>>,
     <<Inline(<<By("a", "inline")>>), Remote(TRUE, TRUE)>>, <<Remote(FALSE, FALSE)>>}

LOCAL G(name, type, proxies, use, passes) ==
    [name |-> name, type |-> type, proxies |-> proxies, use |-> use, passes |-> passes,
     valid |-> TRUE]
LOCAL All == {"a", "b", "c", "e", "a-remote", "b-remote"}
LOCAL GroupLists ==
    {<<>>, <<G("g", "selector", <<"a", "DIRECT", "a">>, <<"remote">>, {"a", "b-remote"})>>,
     <<G("", "selector", <<"a">>, <<>>, All),
       G("h", "relay", <<>>, <<"remote", "inline">>, All)>>,
     <<G("h", "smart", <<"a">>, <<>>, All), G("g", "urltest", <<>>, <<"inline">>, All)>>,
     <<G("g", "fallback", <<"a", "e">>, <<>>, All), G("h", "relay", <<"a">>, <<>>, All)>>}

LOCAL Content(refs) == [decodes |-> TRUE, refs |-> refs, codes |-> <<"geosite-cn">>]
LOCAL Sets(name, inline, refs) ==
    [name |-> name, valid |-> TRUE, inline |-> inline, payload |-> Content(refs)]
LOCAL SetLists ==
    {<<>>, <<Sets("ads", TRUE, <<"geoip-cn">>), Sets("far", FALSE, <<>>)>>}

LOCAL R(match, target, refs) ==
    [kind |-> "rule", match |-> match, target |-> target, refs |-> refs,
     codes |-> <<"geoip-cn">>, action |-> IF target = "" THEN "reject" ELSE "route"]
LOCAL M(target) == [R({}, target, <<>>) EXCEPT !.kind = "match"]
LOCAL Invalid == [M("") EXCEPT !.kind = "invalid"]
LOCAL NoPolicy == [M("") EXCEPT !.kind = "rule", !.codes = <<>>, !.action = "route"]
LOCAL RuleLists ==
    {<<>>, <<R({"web"}, "g", <<"far">>), R({"web", "mail"}, "", <<"geoip-cn">>)>>,
     <<R({"web"}, "a", <<>>), Invalid, R({"web"}, "DIRECT", <<>>), M("g")>>,
     <<R({"mail", "lan"}, "DIRECT", <<>>), R({"mail"}, "x", <<>>), M("a")>>,
     <<M("g"), M("REJECT")>>, <<NoPolicy, M("a")>>}

--------------------------------------------------------------------------------
(* DNS sections over three names, the first of which is at home. *)

LOCAL Raw(address) == [address |-> address, usable |-> TRUE, named |-> FALSE]
LOCAL NoUse == [Raw("tor://") EXCEPT !.usable = FALSE]
LOCAL Covers(names, refs) == [match |-> names, refs |-> refs, usable |-> TRUE]
LOCAL Line(names, target, on) ==
    [match |-> names, refs |-> <<>>, usable |-> TRUE, target |-> target, onAddress |-> on]
LOCAL Policy(servers, pattern) == [servers |-> servers, pattern |-> pattern]

LOCAL PlainDNS ==
    [given |-> TRUE, enabled |-> TRUE, nameservers |-> <<Raw("1.2.3.4")>>,
     defaults |-> <<>>, proxies |-> <<>>, directs |-> <<>>, fallback |-> <<>>,
     policies |-> <<>>, filterDomains |-> <<>>, cidrs |-> <<>>,
     geoip |-> [enabled |-> TRUE, match |-> {"home"}, refs |-> <<"geoip-cn">>],
     fakeip |-> FALSE, mode |-> "blacklist", filter |-> <<>>, unsupported |-> {}]

LOCAL FakeIPs ==
    {[on |-> FALSE, mode |-> "blacklist", filter |-> <<>>]}
        \cup [on : {TRUE}, mode : {"blacklist", "whitelist", "smart"},
              filter : {<<Covers({"home"}, <<>>), Covers({"video"}, <<"ads">>)>>,
                        <<[Covers({"home"}, <<>>) EXCEPT !.usable = FALSE],
                          Covers({"home", "blocked"}, <<>>)>>}]
        \cup [on : {TRUE}, mode : {"rule"},
              filter : {<<Line({"home"}, "real-ip", FALSE), Line({"home", "video"}, "fake-ip", FALSE)>>,
                        <<Line({"home"}, "DIRECT", FALSE), Line({}, "fake-ip", TRUE)>>}]

LOCAL Sections ==
    {[PlainDNS EXCEPT !.nameservers = names, !.proxies = proxies, !.fallback = fallback,
                      !.defaults = <<Raw("1.2.3.4")>>, !.directs = <<Raw("5.6.7.8")>>,
                      !.policies = policies, !.filterDomains = <<Covers({"video"}, <<>>)>>,
                      !.cidrs = <<[match |-> {"blocked"}, usable |-> names # <<NoUse>>]>>,
                      !.geoip.enabled = geoip,
                      !.fakeip = fake.on, !.mode = fake.mode, !.filter = fake.filter] :
        names \in {<<Raw("1.2.3.4")>>, <<NoUse, Raw("5.6.7.8"), Raw("1.2.3.4")>>, <<NoUse>>},
        proxies \in {<<>>, <<NoUse, Raw("9.9.9.9")>>},
        fallback \in {<<>>, <<Raw("8.8.8.8"), Raw("1.2.3.4")>>},
        policies \in {<<>>,
                      <<Policy(<<>>, Covers({"home"}, <<>>)),
                        Policy(<<Raw("9.9.9.9")>>, Covers({"home", "video"}, <<"geosite-cn">>)),
                        Policy(<<Raw("5.6.7.8"), NoUse>>, Covers({"home"}, <<>>))>>,
                      <<Policy(<<NoUse>>, Covers({"video"}, <<>>))>>},
        geoip \in BOOLEAN, fake \in FakeIPs}

LOCAL Off == [PlainDNS EXCEPT !.given = FALSE, !.enabled = FALSE]

MCConfigs ==
    [proxies : ProxyLists, providers : ProviderLists, groups : GroupLists,
     ruleProviders : SetLists, rules : RuleLists,
     dns : {Off, [PlainDNS EXCEPT !.policies =
                     <<Policy(<<Raw("8.8.8.8")>>, Covers({"video"}, <<"ads">>))>>]}]
    \cup [proxies : {<<Good("a")>>}, providers : {<<>>}, groups : {<<>>},
          ruleProviders : {<<Sets("ads", TRUE, <<>>)>>}, rules : {<<>>}, dns : Sections]

MCOffered ==
    [n \in {"remote", "far"} |->
        IF n = "remote"
        THEN {<<>>, <<By("a", "remote"), By("b", "remote")>>, <<By("b", "remote"), Bad("b")>>}
        ELSE {Content(<<"ads">>), Content(<<"none">>), [Content(<<>>) EXCEPT !.decodes = FALSE]}]

\* The document of another subscription, which has a node of the same name.
MCBase ==
    [nodes |-> <<Good("x"), By("a", "base")>>,
     groups |-> <<[name |-> "base", type |-> "urltest", members |-> <<"x", "a">>]>>,
     ruleSets |-> <<>>, rules |-> <<[match |-> {"mail"}, refs |-> <<>>, codes |-> <<>>,
                                     action |-> "route", target |-> "x"]>>,
     final |-> "base", dns |-> DefaultDNS, resolver |-> DefaultResolver,
     inbounds |-> {<<Tun("tun-in")>>}, legacy |-> {Tun("tun-in")}]
==================================================================================
