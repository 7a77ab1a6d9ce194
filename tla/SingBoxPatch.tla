------------------------------ MODULE SingBoxPatch ------------------------------
(***************************************************************************)
(* DecodePatch of singbox/patch.go: a sing-box configuration read as a     *)
(* patch.  It is taken whole, or not at all.                               *)
(*                                                                         *)
(* The text of a rule is what it matches and names, its networks, whether  *)
(* its addresses are readable, its action and its outbound.  An address is *)
(* a "prefix", an "address", or anything else for what is neither.         *)
(***************************************************************************)
EXTENDS Patch

\* parsePrefixes; an address is the prefix of itself.
Readable(addresses) == Range(addresses) \subseteq {"prefix", "address"}

\* documentInbound.  Only a TUN has addresses; those of others are not read.
DocumentInbound(text) ==
    Inbound(text.type, text.tag, text.listen, text.port, text.users, text.system,
            IF text.type = "tun" THEN {[addresses |-> text.addresses, stack |-> text.stack]}
            ELSE {})
DecodableInbound(text) == text.type = "tun" => Readable(text.addresses)

\* documentMatch.
DecodableMatch(rule) ==
    rule.networks \subseteq {"tcp", "udp"} /\ Readable(rule.addresses)

\* documentRouteRule.
DecodableRule(rule) ==
    /\ DecodableMatch(rule)
    /\ \/ rule.action \in {"", "route"} /\ rule.outbound # ""
       \/ rule.action = "reject" /\ rule.outbound = ""
DocumentRule(rule) ==
    [match |-> rule.match, refs |-> rule.refs, codes |-> <<>>,
     action |-> IF rule.action = "" THEN "route" ELSE rule.action,
     target |-> rule.outbound]

\* ValidateRuleSet; places are the kinds of places that a set gives.
ValidRuleSet(set) ==
    /\ set.name # ""
    /\ \/ set.type = "inline" /\ set.rules # <<>>
       \/ set.type = "local" /\ "path" \in set.places
       \/ set.type = "remote" /\ "url" \in set.places

\* documentRuleSet: what has rules is inline, unless it says otherwise.
Typed(set) == [set EXCEPT !.type = IF @ = "" /\ set.rules # <<>> THEN "inline" ELSE @]
DecodableSet(set) ==
    /\ \A rule \in Range(set.rules) :
          rule.action = "" /\ rule.outbound = "" /\ DecodableMatch(rule)
    /\ ValidRuleSet(Typed(set))
DocumentRuleSet(set) ==
    [name |-> set.name, valid |-> TRUE, detour |-> set.detour, codes |-> <<>>,
     refs |-> FlattenSeq([i \in 1 .. Len(set.rules) |-> set.rules[i].refs])]

\* The inbounds section, if it decodes.
AddInbounds(patches, inbounds) ==
    IF \A x \in Range(inbounds) : DecodableInbound(x)
    THEN {[p EXCEPT !.inbounds = {[i \in 1 .. Len(inbounds) |-> DocumentInbound(inbounds[i])]}] :
             p \in patches}
    ELSE {}

AddRuleSet(patches, set) ==
    IF DecodableSet(set)
    THEN {[p EXCEPT !.ruleSets = Append(@, DocumentRuleSet(set))] : p \in patches}
    ELSE {}

\* Mutant of AddRule: a rule that does not decode is skipped, as Clash sources do.
AddRuleIfAny(patches, rule) ==
    IF DecodableRule(rule)
    THEN {[p EXCEPT !.rules = Append(@, DocumentRule(rule))] : p \in patches}
    ELSE patches

AddRule(patches, rule) ==
    IF DecodableRule(rule)
    THEN {[p EXCEPT !.rules = Append(@, DocumentRule(rule))] : p \in patches}
    ELSE {}

\* The patch that a text becomes, as an optional: nothing if some item of it
\* does not decode, or if it is not strict, having a field that is unknown.
Decoded(text) ==
    LET start == IF text.strict /\ (text.inbounds # {} \/ text.route # {})
                 THEN {EmptyPatch} ELSE {}
        listening == IF text.inbounds = {} THEN start
                     ELSE AddInbounds(start, The(text.inbounds))
    IN  IF text.route = {} THEN listening
        ELSE LET route == The(text.route)
                 routed == {[p EXCEPT !.route = TRUE, !.final = {route.final} \ {""}] :
                               p \in listening}
             IN  FoldLeft(AddRule, FoldLeft(AddRuleSet, routed, route.ruleSets), route.rules)

================================================================================
