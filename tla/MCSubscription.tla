------------------------------ MODULE MCSubscription ------------------------------
(* Small configurations, lists of URIs and lists of patches: configurations that *)
(* are refused or name odd paths, codecs that are registered twice or not at all, *)
(* and all URIs and patches with a plain configuration.                          *)
EXTENDS Subscription, TLC

MCNormal(f) ==
    CASE f \in {"AUTO", " auto "} -> "auto"
      [] f \in {"Base64", " base64"} -> "base64"
      [] f = "Sing-Box " -> "sing-box"
      [] OTHER -> f
MCFormatOf(c) == IF c = "copy" THEN " base64" ELSE c
MCPatchFormatsOf(c) ==
    CASE c = "clash" -> {""} [] c = "sing-box" -> {"sing_box"} [] OTHER -> {}
MCNameIsValid(n) == n \notin {"", "-x"}
MCHome == {<<"home">>}
MCCounted(n, i) == n \o "-" \o ToString(i)
MCTagRenamed(n) == n \o "-proxy"
MCHop(tag, i) == tag \o "-hop-" \o ToString(i)

LOCAL At(path) == Location("relative", path)
LOCAL Here == At(<<>>)
LOCAL Builtins == <<"base64", "clash", "sing-box">>

--------------------------------------------------------------------------------
(* Texts. *)

LOCAL U(scheme, name) ==
    [scheme |-> scheme, slashes |-> TRUE, readable |-> TRUE, port |-> 443, server |-> "host",
     user |-> "user", reality |-> FALSE, key |-> "", name |-> name, plain |-> TRUE,
     named |-> scheme = "vmess"]
LOCAL Json(like) == [kind |-> "json", base64 |-> FALSE, lines |-> <<>>, json |-> like]
LOCAL URIs(uris) == [Json(0) EXCEPT !.kind = "uris", !.base64 = TRUE, !.lines = uris]

LOCAL Simple == URIs(<<U("ss", "a")>>)
LOCAL Lists ==
    {<<U("ss", "a"), U("vmess", "a"), U("vless", "b"), U("ss", "a")>>,
     <<U("ss", ""), [U("vless", "shadowsocks") EXCEPT !.plain = FALSE], U("ss", "")>>,
     <<U("ss", "a-2"), U("vmess", "a"), U("ss", "a")>>,
     <<U("ss", "direct"), U("trojan", "a"), U("vless", "Proxy"), U("ss", "a")>>}
LOCAL BadLists ==
    {<<[U("ss", "a") EXCEPT !.port = 65536, !.server = ""],
       [U("ss", "b") EXCEPT !.port = 65535, !.server = ""]>>,
     <<[U("vmess", "a") EXCEPT !.server = ""], [U("vmess", "b") EXCEPT !.port = 0]>>,
     <<[U("vless", "a") EXCEPT !.reality = TRUE],
       [U("vless", "b") EXCEPT !.reality = TRUE, !.key = "key"],
       [U("vless", "c") EXCEPT !.user = ""], [U("vless", "c") EXCEPT !.slashes = FALSE]>>,
     <<[U("vless", "a") EXCEPT !.plain = FALSE]>>,
     <<[U("ss", "a") EXCEPT !.readable = FALSE]>>, <<>>}

LOCAL Listener(tag, listen, users) ==
    [type |-> "mixed", tag |-> tag, listen |-> listen, port |-> 7890, users |-> users,
     system |-> listen = "loopback", addresses |-> <<"none">>, stack |-> ""]
LOCAL TunText(addresses) ==
    [Listener("own-tun", "", <<>>) EXCEPT !.type = "tun", !.port = 0, !.addresses = addresses]
LOCAL R(match, outbound) ==
    [match |-> match, refs |-> <<>>, networks |-> {"tcp"}, addresses |-> <<"prefix", "address">>,
     action |-> IF outbound = "" THEN "reject" ELSE "", outbound |-> outbound]
LOCAL Within(set, rule) == [rule EXCEPT !.refs = <<set>>, !.action = "route"]
LOCAL Set(name, type, places, rules) ==
    [name |-> name, type |-> type, places |-> places, detour |-> "", rules |-> rules]
LOCAL Route(sets, rules, final_) == {[ruleSets |-> sets, rules |-> rules, final |-> final_]}
LOCAL Singbox(inbounds, route) ==
    [kind |-> "sing-box", strict |-> TRUE, inbounds |-> inbounds, route |-> route] @@ Json(0)
LOCAL Patched(patch) == [kind |-> "patch", patch |-> patch] @@ Json(0)

\* What a patch source may hold: listeners and rules that overlap, a list that is
\* empty, one item that is wrong among others that are not.
LOCAL Held ==
    [mixed |-> Singbox({<<Listener("m", "loopback", <<>>)>>},
                       Route(<<>>, <<R({"web"}, "a"), R({"mail"}, "DIRECT")>>, "")),
     none |-> Singbox({<<>>}, Route(<<>>, <<R({"web", "mail"}, "")>>, "a")),
     open |-> Singbox({<<Listener("o", "open", <<>>),
                         Listener("p", "open", <<[name |-> "u", password |-> "s"]>>),
                         TunText(<<"address">>)>>}, {}),
     node |-> Patched([P!EmptyPatch EXCEPT
                  !.nodes = <<[name |-> "a", by |-> 0, supported |-> TRUE, named |-> TRUE],
                              [name |-> "x", by |-> 0, supported |-> TRUE, named |-> FALSE]>>,
                  !.route = TRUE,
                  !.rules = <<[match |-> {"mail"}, refs |-> <<>>, codes |-> <<>>,
                               action |-> "route", target |-> "x"]>>,
                  !.final = {"proxy"}]),
     group |-> Patched([P!EmptyPatch EXCEPT
                  !.groups = <<[name |-> "a", type |-> "relay", members |-> <<"a", "a">>]>>]),
     sets |-> Singbox({}, Route(<<Set("s", "", {}, <<[R({"web"}, "") EXCEPT !.action = ""]>>),
                                  Set("f", "local", {"path"}, <<>>)>>,
                                <<Within("s", R({"web"}, "x")), Within("f", R({"mail"}, "a"))>>,
                                "")),
     wrong |-> Singbox({}, Route(<<>>, <<[R({"web"}, "a") EXCEPT !.action = "reject"],
                                         R({"web"}, "a"),
                                         R({"mail"}, "a")>>, "")),
     place |-> Singbox({}, Route(<<Set("f", "remote", {"path"}, <<>>)>>, <<>>, "")),
     prefix |-> Singbox({<<TunText(<<"prefix", "none">>)>>}, {}),
     twice |-> Singbox({<<Listener("t", "loopback", <<>>), Listener("t", "open", <<>>)>>}, {}),
     loose |-> [Singbox({<<>>}, {}) EXCEPT !.strict = FALSE],
     empty |-> Patched(P!EmptyPatch)]

LOCAL Name(x) == [location |-> At(<<x>>), valid |-> TRUE,
                  format |-> IF x \in {"node", "group", "empty"} THEN "document-patch" ELSE "singbox"]
LOCAL GoodLists ==
    {<<>>} \cup {<<Name(x)>> : x \in {"mixed", "none", "open", "node", "group", "sets"}}
           \cup {<<Name(x), Name(y)>> : x, y \in {"mixed", "none", "open", "node"}}
           \cup {<<Name("node"), Name("group")>>}
LOCAL RefusedLists ==
    {<<Name(x), Name("none")>> : x \in {"wrong", "place", "prefix", "twice", "loose", "empty"}}
        \cup {<<[Name("mixed") EXCEPT !.format = f]>> : f \in {"", "patch"}}

--------------------------------------------------------------------------------
(* Configurations. *)

LOCAL S(name, format, location, patches) ==
    [name |-> name, format |-> format, location |-> location, valid |-> TRUE,
     patches |-> patches]
LOCAL C(patches, subscriptions) == [patches |-> patches, subscriptions |-> subscriptions]
LOCAL Plain(format, patches, own) == C(patches, <<S("one", format, At(<<"sub">>), own)>>)

LOCAL Serve(config_, directory, shipped, text, name, to) ==
    [command |-> "serve", config |-> config_, directory |-> directory, shipped |-> shipped,
     texts |-> At(<<"sub">>) :> text @@ [l \in {At(<<x>>) : x \in DOMAIN Held} |-> Held[l.path[1]]],
     name |-> name, from |-> "", to |-> to]
LOCAL Run(shipped, text, from, to) ==
    [Serve(C(<<>>, <<>>), Here, shipped, text, "", to) EXCEPT
        !.command = "convert", !.from = from, !.texts = None :> text]

\* Paths that become "-", or would from another place, and sources that are wrong.
LOCAL Odd ==
    {None, StandardInput, At(<<".", "-">>), At(<<"..", "-">>), At(<<"x", "..", "sub">>),
     Location("root", <<"-">>), Location("home", <<"-">>), Location("home", <<>>),
     Location("url", <<"host">>)}
LOCAL Configurations ==
    {C(<<>>, <<S("one", "", l, <<>>)>>) : l \in Odd}
        \cup {Plain("", <<[Name("mixed") EXCEPT !.location = l]>>, <<>>) : l \in Odd}
        \cup {Plain("", <<>>, <<[Name("mixed") EXCEPT !.location = l]>>) : l \in Odd}
        \cup {C(<<>>, <<>>), C(<<>>, <<S("-x", "", At(<<"sub">>), <<>>)>>),
              C(<<>>, <<S("one", "", At(<<"sub">>), <<>>), S("one", "", At(<<"s">>), <<>>)>>),
              C(<<>>, <<[S("one", "", At(<<"sub">>), <<>>) EXCEPT !.valid = FALSE]>>),
              Plain("AUTO", <<>>, <<>>), Plain("", <<[Name("mixed") EXCEPT !.format = "x"]>>, <<>>)}
LOCAL Directories ==
    {Here, At(<<"d">>), Location("root", <<"etc">>), Location("root", <<>>)}

\* The codecs that are shipped, less or more of them, in any order.
LOCAL Shipped ==
    {<<>>, <<"sing-box">>, <<"base64">>, Builtins, <<"sing-box", "clash", "base64">>,
     <<"base64", "copy", "sing-box">>, <<"copy", "base64", "sing-box">>,
     <<"base64", "sing-box", "base64">>}
LOCAL Given == {Simple, URIs(<<U("ss", "a"), U("trojan", "b")>>), URIs(<<>>), Json(3), Json(1), Json(0)}

MCSetups ==
    {Serve(c, d, Builtins, Simple, "one", "sing-box") : c \in Configurations, d \in Directories}
    \cup {Serve(Plain(f, <<>>, <<>>), Here, s, t, "one", "singbox") :
              f \in {"", "Base64", "sing-box", "none"}, s \in Shipped, t \in Given}
    \cup {Serve(Plain("", <<Name("mixed")>>, <<>>), Here, s, Simple, n, to) : s \in Shipped,
              n \in {"one", "two"}, to \in {"Sing-Box ", "base64", "mihomo", "AUTO"}}
    \cup {Run(s, t, f, "sing-box") : f \in {"AUTO", "base64", "sing-box"}, s \in Shipped, t \in Given}
    \cup {Run(s, Simple, "base64", to) : s \in Shipped, to \in {"base64", "none", "auto"}}
    \cup {Run(Builtins, URIs(l), "auto", "sing-box") : l \in BadLists}
    \cup {Serve(Plain("", p, q), Here, Builtins, URIs(l), "one", "sing-box") :
              p, q \in GoodLists, l \in Lists}
    \cup {Serve(Plain("", p, q), Here, Builtins, Simple, "one", "sing-box") :
              p \in {<<>>, <<Name("open")>>}, q \in RefusedLists}
    \cup {Serve(Plain("", q, <<>>), Here, Builtins, Simple, "one", "sing-box") : q \in RefusedLists}
==================================================================================
