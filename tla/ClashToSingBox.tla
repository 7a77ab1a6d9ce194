------------------------------ MODULE ClashToSingBox ------------------------------
(***************************************************************************)
(* The conversion of a Clash configuration from its text to sing-box:      *)
(* ClashDecode, ApplyPatch and SingBoxEncode one after the other.  A       *)
(* configuration decoded as a source is encoded itself; one decoded as a   *)
(* patch is applied to the document Target first.                          *)
(***************************************************************************)
EXTENDS ClashDecode, Pipeline

CONSTANTS
    Target              \* the document that a patch is applied to

ASSUME TargetAssumption ==
    /\ P!IsDocument(Target) /\ P!ListsWithin(Target)
    /\ P!IsSection(Target.dns) /\ P!NamedOnce(Target.ruleSets)

PipelineInit == Init /\ NothingHanded

Decode == Next /\ UNCHANGED <<handed, encoderVars>>

\* Converter.Encode of what Decode returned.
HandOver ==
    /\ pc = "done" /\ handed = {} /\ ~strict
    /\ handed' = {doc}
    /\ UNCHANGED <<vars, encoderVars>>

Apply ==
    /\ pc = "done" /\ handed = {} /\ strict
    /\ IF P!Applicable(Target, patch)
       THEN handed' = {P!Applied(Target, patch)} /\ UNCHANGED vars
       ELSE Refuse /\ UNCHANGED handed
    /\ UNCHANGED encoderVars

PipelineNext ==
    \/ Decode
    \/ HandOver
    \/ Apply
    \/ Encode /\ UNCHANGED vars

Pipeline == PipelineInit /\ [][PipelineNext]_<<vars, handed, encoderVars>>

--------------------------------------------------------------------------------
(* Properties. *)

\* What the configuration wants; where it is silent a patch leaves the decision
\* to the rules, then to the final policy, of the base.
RulesWanted ==
    Selected(config.rules, LAMBDA rule : rule.kind = "rule")
        \o (IF strict THEN Target.rules ELSE <<>>)
FinalWanted ==
    IF Matches # <<>> THEN Last(Matches).target
    ELSE IF strict THEN Target.final ELSE DefaultFinal

SameRule(a, b) ==
    /\ a.match = b.match /\ a.refs = b.refs /\ a.codes = b.codes
    /\ a.action = b.action /\ a.target = b.target

\* Whatever was merged, prepended and overridden on the way, the encoder is handed
\* a document such as its theorems assume, with the rules and the final policy
\* that are wanted, in the order in which they count.
HandedAsWanted ==
    handed # {} =>
        /\ E!Encodable(The(handed))
        /\ The(handed).final = FinalWanted
        /\ Len(The(handed).rules) = Len(RulesWanted)
        /\ \A i \in 1 .. Len(The(handed).rules) :
              SameRule(The(handed).rules[i], RulesWanted[i])

\* From the text of a Clash configuration to the sing-box configuration, by way
\* of a document and maybe of a patch applied to another one: traffic meets the
\* action of the first rule that wants it, and the outbound that the policy of
\* this rule has become, through every list that is filtered, prepended and
\* renamed on the way.
TrafficKept ==
    Converted /\ Expressible(FinalWanted)
        /\ (\A i \in 1 .. Len(config.rules) - 1 : config.rules[i].kind # "match") =>
        Obeyed(RulesWanted, FinalWanted)

\* What has to work before an outbound or a DNS server can be dialled: the
\* detour, the members, and the resolver of a name.
Needs(x) ==
    IF x[1] = "server"
    THEN LET s == CHOOSE s \in Range(dns.servers) : s.tag = x[2]
         IN  (IF s.detour = "" THEN {} ELSE {<<"outbound", s.detour>>})
                 \cup (IF s.named THEN {<<"server", dns.resolver>>} ELSE {})
    ELSE LET tagged == E!Tagged(x[2])
         IN  UNION {{<<"outbound", m>> : m \in Range(o.members) \cup ({o.detour} \ {""})}
                        \cup (IF o.type # "node" \/ o.resolver = "" THEN {}
                              ELSE {<<"server", o.resolver>>}) : o \in tagged}

NeededBy(x) ==
    LET most == Len(dns.servers) + Len(outbounds)
        within[k \in 0 .. most] ==
            IF k = 0 THEN Needs(x) ELSE within[k - 1] \cup UNION {Needs(y) : y \in within[k - 1]}
    IN  within[most]

\* No DNS server is reached through a proxy whose own name it has to resolve,
\* if the section has a server that can be used and all have IP addresses:
\* detours, default resolvers and groups come from different parts of the code.
NoResolutionLoop ==
    Converted /\ (Dns.enabled => AnyServer)
        /\ (\A i \in 1 .. Len(Given(Dns)) : ~Given(Dns)[i].named) =>
        \A s \in Range(dns.servers) : <<"server", s.tag>> \notin NeededBy(<<"server", s.tag>>)

--------------------------------------------------------------------------------
(* What the decoder says and the encoder does not do. *)

\* validateDocumentRuleSetReferences: a document that references an unknown rule
\* set is refused, so what is converted names no rule set that is not there.
RuleSetsKnown ==
    Converted =>
        UNION ({Range(rule.refs) : rule \in Range(routeRules) \cup Range(dns.rules)}
                   \cup {set.names : set \in Range(ruleSets)})
            \subseteq {set.tag : set \in Range(ruleSets)}

================================================================================
