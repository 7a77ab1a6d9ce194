--------------------------------- MODULE Patch ---------------------------------
(***************************************************************************)
(* The patches of patch.go: how the patches of one list are combined and   *)
(* how the combination is applied to a document.                           *)
(*                                                                         *)
(* A document is a record of the sections that patches touch.  Nodes,      *)
(* groups and rule sets are sequences of records with a name (Tag, for a   *)
(* rule set); a rule matches a set of traffic classes.                     *)
(***************************************************************************)
EXTENDS Document

CONSTANTS
    BuiltinPolicies     \* DIRECT, REJECT, REJECT-DROP and proxy, in any case

\* A patch without a route section has route = FALSE.
EmptyPatch ==
    [inbounds |-> {}, dns |-> {}, nodes |-> <<>>, groups |-> <<>>,
     route |-> FALSE, rules |-> <<>>, ruleSets |-> <<>>, final |-> {}]

Names(items) == {items[i].name : i \in 1 .. Len(items)}

--------------------------------------------------------------------------------
(* Merging. *)

\* The later item goes where its name already is: the last place of it, if
\* the base had it twice; else at the end.
MergeOne(items, item) ==
    IF item.name \in Names(items)
    THEN [items EXCEPT ![SelectLastInSeq(items, LAMBDA x : x.name = item.name)] = item]
    ELSE Append(items, item)

\* Mutant of MergeByName: the first definition stays.
MergeKeepsFirst(base, overrides) ==
    FoldLeft(LAMBDA items, x : IF x.name \in Names(items) THEN items ELSE Append(items, x),
             base, overrides)

\* mergeNodes, mergeGroups and mergeRuleSets.
MergeByName(base, overrides) == FoldLeft(MergeOne, base, overrides)

Override(base, optional) == IF optional = {} THEN base ELSE optional

\* Mutant of Listening: an empty list counts as none.
ListeningUnlessEmpty(base, given) == IF given \in {{}, {<<>>}} THEN base ELSE given

\* The inbounds that a patch gives; cloneInbounds keeps an empty list from nil.
Listening(base, given) == IF given = {} THEN base ELSE given

\* combineDocumentPatch: rules add up in order, the rest is overridden by the
\* later patch.
Combine(target, source) ==
    LET merged == [target EXCEPT
            !.inbounds = Listening(@, source.inbounds),
            !.dns = Override(@, source.dns),
            !.nodes = MergeByName(@, source.nodes),
            !.groups = MergeByName(@, source.groups)]
    IN  IF ~source.route THEN merged
        ELSE [merged EXCEPT
            !.route = TRUE,
            !.rules = @ \o source.rules,
            !.ruleSets = MergeByName(@, source.ruleSets),
            !.final = Override(@, source.final)]

--------------------------------------------------------------------------------
(* Validation. *)

Policies(doc) == BuiltinPolicies \cup Names(doc.nodes) \cup Names(doc.groups)

\* Mutant of ValidRoute: only the rule sets are looked at.
ValidRuleSetsOnly(doc, patch) ==
    Cardinality(Names(patch.ruleSets)) = Len(patch.ruleSets)

\* validateRoutePatch, against the document with the merged nodes and groups.
ValidRoute(doc, patch) ==
    LET available == Names(doc.ruleSets) \cup Names(patch.ruleSets)
        sets == {patch.ruleSets[i] : i \in 1 .. Len(patch.ruleSets)}
        rules == {patch.rules[i] : i \in 1 .. Len(patch.rules)}
    IN  /\ \A set \in sets :
              /\ set.valid
              /\ set.detour # "" => set.detour \in Policies(doc)
              /\ Range(set.refs) \subseteq available
        /\ Cardinality(Names(patch.ruleSets)) = Len(patch.ruleSets)
        /\ \A rule \in rules :
              /\ Range(rule.refs) \subseteq available
              /\ \/ rule.action = "reject" /\ rule.target = ""
                 \/ rule.action = "route" /\ rule.target \in Policies(doc)
        /\ patch.final \subseteq Policies(doc)

--------------------------------------------------------------------------------
(* Application. *)

\* The nodes, groups and DNS section that the patch leads to.
Candidate(doc, patch) ==
    LET merged == [doc EXCEPT !.nodes = MergeByName(@, patch.nodes),
                              !.groups = MergeByName(@, patch.groups)]
    IN  IF patch.dns = {} THEN merged
        ELSE LET dns == The(patch.dns)
             IN  [merged EXCEPT !.dns = dns,
                                !.resolver = FirstNonEmpty(dns.proxyResolver, dns.final)]

Applicable(doc, patch) ==
    /\ \A inbounds \in patch.inbounds : ValidInbounds(inbounds)
    /\ patch.route => ValidRoute(Candidate(doc, patch), patch)

\* Mutant of Applied: the patch's rules come after those of the document.
AppliedLast(doc, patch) ==
    [Candidate(doc, patch) EXCEPT
        !.inbounds = Listening(@, patch.inbounds),
        !.ruleSets = MergeByName(@, patch.ruleSets),
        !.rules = @ \o patch.rules,
        !.final = IF patch.final = {} THEN @ ELSE The(patch.final)]

\* What ApplyPatch leaves behind when it returns no error.
Applied(doc, patch) ==
    LET candidate == Candidate(doc, patch)
        listening == [candidate EXCEPT !.inbounds = Listening(@, patch.inbounds)]
    IN  IF ~patch.route THEN listening
        ELSE [listening EXCEPT
            !.ruleSets = MergeByName(@, patch.ruleSets),
            !.rules = patch.rules \o @,
            !.final = IF patch.final = {} THEN @ ELSE The(patch.final)]

--------------------------------------------------------------------------------
(* What documents and patches are, and what a document means. *)

IsDocument(doc) ==
    /\ {"nodes", "groups", "ruleSets", "rules", "final", "dns", "resolver", "inbounds"}
          \subseteq DOMAIN doc
    /\ IsList(doc.nodes) /\ IsList(doc.groups)
    /\ IsList(doc.ruleSets) /\ IsList(doc.rules)

\* What a route section has, a patch without one has not.
IsPatch(patch) ==
    /\ DOMAIN EmptyPatch \subseteq DOMAIN patch
    /\ IsList(patch.nodes) /\ IsList(patch.groups)
    /\ IsList(patch.ruleSets) /\ IsList(patch.rules)
    /\ AtMostOne(patch.final) /\ AtMostOne(patch.dns)
    /\ ~patch.route => patch.rules = <<>> /\ patch.ruleSets = <<>> /\ patch.final = {}

\* The lists in the items of a document or a patch, and those in a DNS section.
ListsWithin(x) ==
    /\ \A group \in Range(x.groups) : IsList(group.members)
    /\ \A rule \in Range(x.rules) : IsList(rule.codes) /\ IsList(rule.refs)
    /\ \A set \in Range(x.ruleSets) : IsList(set.codes)
IsSection(section) ==
    /\ IsList(section.servers) /\ IsList(section.rules)
    /\ \A server \in Range(section.servers) : {"tag", "detour"} \subseteq DOMAIN server
    /\ \A rule \in Range(section.rules) : IsList(rule.refs)

\* The first rule for traffic of class t, and the last item of name n.
Deciding(rules, t) ==
    FirstGiven(rules, LAMBDA rule : IF t \in rule.match THEN {rule} ELSE {})
Definition(items, n) ==
    LastGiven(items, LAMBDA item : IF item.name = n THEN {item} ELSE {})

\* The action that traffic of class t meets: that of the first rule matching
\* it, or the final policy.
Decision(doc, t) ==
    LET rule == Deciding(doc.rules, t)
    IN  IF rule = {} THEN [action |-> "route", target |-> doc.final]
        ELSE [action |-> The(rule).action, target |-> The(rule).target]

NamedOnce(items) ==
    \A i, j \in 1 .. Len(items) : items[i].name = items[j].name => i = j

\* The policies and the rule sets that the routing section names and that do not
\* exist.
DanglingPolicies(doc) ==
    ({rule.target : rule \in {x \in Range(doc.rules) : x.action = "route"}}
        \cup {doc.final} \cup ({set.detour : set \in Range(doc.ruleSets)} \ {""}))
    \ Policies(doc)
DanglingSets(doc) ==
    ((UNION {Range(rule.refs) : rule \in Range(doc.rules)})
        \cup (UNION {Range(set.refs) : set \in Range(doc.ruleSets)}))
    \ Names(doc.ruleSets)
================================================================================
