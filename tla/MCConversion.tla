------------------------------ MODULE MCConversion ------------------------------
(* Values of Conversion's constants for TLC: one subscription or two, two     *)
(* top-level patches, one patch of a subscription; each source changes.       *)
EXTENDS Conversion, TLC

CONSTANTS home, work, sub, base, extra, own

RequestSymmetry == Permutations(Requests)

Rule(match, refs, action, target) ==
    [match |-> match, refs |-> refs, action |-> action, target |-> target]
Item(n, def) == [name |-> n, def |-> def]
RuleSet(n, def, refs, detour) ==
    [name |-> n, def |-> def, valid |-> TRUE, refs |-> refs, detour |-> detour]
Listener(tag) == Inbound("mixed", tag, "loopback", 7890, <<>>, FALSE, {})
DNS(id, final, resolver) == [id |-> id, final |-> final, proxyResolver |-> resolver]

Base(nodes, groups, ruleSets, rules, final) ==
    [inbounds |-> {<<Tun("tun-in")>>}, dns |-> DNS(0, "remote", ""),
     resolver |-> "local", nodes |-> nodes, groups |-> groups,
     ruleSets |-> ruleSets, rules |-> rules, final |-> final]

MCBuiltin == {"DIRECT", "REJECT", "proxy"}
MCTraffic == {"x", "y", "z"}

\* Version 2 of the subscription lost node n1 and gained a rule set.  Version 3 has
\* a group twice and a rule for a policy that nothing defines: decoders let both
\* through.
MCDocuments ==
    <<Base(<<Item("n1", 1), Item("n2", 1)>>, <<Item("auto", 1)>>, <<>>,
           <<Rule({"x"}, <<>>, "route", "auto")>>, "proxy"),
      Base(<<Item("n2", 2)>>, <<>>, <<RuleSet("ads", 1, <<>>, "")>>,
           <<Rule({"x", "y"}, <<"ads">>, "reject", "")>>, "DIRECT"),
      Base(<<Item("n1", 3)>>, <<Item("auto", 3), Item("all", 3), Item("auto", 4)>>, <<>>,
           <<Rule({"y"}, <<>>, "reject", ""), Rule({"y"}, <<>>, "route", "lost"),
             Rule({"z"}, <<>>, "route", "all")>>, "all")>>

MCPatch(k, v) ==
    CASE k = base /\ v = 1 ->
            [EmptyPatch EXCEPT !.route = TRUE, !.groups = <<Item("auto", 2)>>,
                !.rules = <<Rule({"y"}, <<>>, "route", "auto")>>]
      [] k = base /\ v = 2 ->
            [EmptyPatch EXCEPT !.route = TRUE, !.final = {"n2"},
                !.rules = <<Rule({"z"}, <<>>, "route", "n1")>>]
      \* Refers to a group that only the next patch of the list defines.
      [] k = base /\ v = 3 ->
            [EmptyPatch EXCEPT !.route = TRUE, !.dns = {DNS(2, "clash", "")},
                !.rules = <<Rule({"x"}, <<>>, "route", "late"), Rule({"y"}, <<"ads">>, "reject", "")>>,
                !.ruleSets = <<RuleSet("ads", 3, <<>>, "")>>]
      [] k = extra /\ v = 1 ->
            [EmptyPatch EXCEPT !.route = TRUE,
                !.inbounds = {<<Tun("tun-in"), Listener("mixed-in")>>},
                !.ruleSets = <<RuleSet("ads", 2, <<"lan">>, "n2"), RuleSet("lan", 2, <<>>, "")>>,
                !.rules = <<Rule({"z", "y"}, <<"ads">>, "reject", "")>>,
                !.final = {"auto"}]
      [] k = extra /\ v = 2 -> Undecodable
      [] k = extra /\ v = 3 ->
            [EmptyPatch EXCEPT !.route = TRUE, !.groups = <<Item("late", 4)>>,
                !.rules = <<Rule({"z"}, <<>>, "route", "late"), Rule({"x"}, <<>>, "reject", "")>>]
      [] k = own /\ v = 1 ->
            [EmptyPatch EXCEPT !.route = TRUE, !.dns = {DNS(1, "remote", "boot")},
                !.nodes = <<Item("n1", 3)>>, !.final = {"DIRECT"},
                !.rules = <<Rule({"x"}, <<>>, "route", "n1")>>]
      [] k = own /\ v = 2 ->
            [EmptyPatch EXCEPT !.inbounds = {<<Listener("a"), Listener("a")>>}]
      \* Redefines a rule set with a reference that nothing satisfies but a
      \* top-level patch.
      [] k = own /\ v = 3 ->
            [EmptyPatch EXCEPT !.route = TRUE, !.groups = <<Item("auto", 5)>>,
                !.nodes = <<Item("n2", 5)>>,
                !.ruleSets = <<RuleSet("ads", 5, <<"lan">>, "auto")>>,
                !.rules = <<Rule({"z"}, <<"lan">>, "route", "n2")>>]
      [] OTHER -> Undecodable

MCDocumentOf == [k \in Keys |-> [v \in 1 .. MaxVersion |-> MCDocuments[v]]]
MCPatchOf == [k \in Keys |-> [v \in 1 .. MaxVersion |-> MCPatch(k, v)]]

MCSourceOf == [n \in Subscriptions |-> sub]
MCGlobal == <<base, extra>>
MCOneGlobal == <<base>>
MCLocal == [n \in Subscriptions |-> IF n = home THEN <<own>> ELSE <<>>]
================================================================================
