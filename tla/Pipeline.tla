-------------------------------- MODULE Pipeline --------------------------------
(***************************************************************************)
(* What comes after any decoder: Patch, and SingBoxEncode on the document  *)
(* that it is handed.  The modules that extend this one bring a decoder.   *)
(***************************************************************************)
EXTENDS Document

CONSTANTS
    Tags, DirectNames, RejectNames, DropNames, ProxyNames,
    DnsTraffic, PrivateTraffic,
    TagRenamed(_), Numbered(_, _), Hop(_, _)    \* see SingBoxEncode

ASSUME PoliciesAssumption ==
    "direct" \in DirectNames /\ "reject" \in RejectNames /\ "proxy" \in ProxyNames

VARIABLES
    handed,              \* {} or {the document that is encoded}
    encoding, step, attempt, tags, outbounds, nodeOutbounds, groupTags,
    routeRules, final, ruleSets, dns, told      \* the encoder's

encoderVars == <<encoding, step, attempt, tags, outbounds, nodeOutbounds, groupTags,
                 routeRules, final, ruleSets, dns, told>>

Builtin == DirectNames \cup RejectNames \cup DropNames \cup ProxyNames

P == INSTANCE SingBoxPatch WITH BuiltinPolicies <- Builtin

\* The documents are those that are handed over.
E == INSTANCE SingBoxEncode WITH
        Documents <- {}, doc <- The(handed), pc <- encoding, next <- step,
        warnings <- told, Dns <- DnsTraffic, Private <- PrivateTraffic,
        Renamed <- TagRenamed

NothingHanded == handed = {} /\ E!Idle

Encode == handed # {} /\ UNCHANGED handed /\ E!Next

--------------------------------------------------------------------------------
(* What the properties say of the result. *)

Converted == handed # {} /\ encoding = "done"

First(rules, t) == SelectInSeq(rules, LAMBDA rule : t \in rule.match)

\* What the first of the wanted rules that match asks for, or a final policy.
Asked(rules, t, policy) ==
    LET i == First(rules, t)
    IN  IF i = 0 THEN [action |-> "route", target |-> policy]
        ELSE [action |-> rules[i].action, target |-> rules[i].target]

\* What sing-box does with traffic t.
Done(t) ==
    LET i == First(routeRules, t)
    IN  IF i = 0 THEN [action |-> "route", outbound |-> final] ELSE routeRules[i]

\* The encoder has no reject for the rest, takes a builtin spelling for the
\* builtin policy, and tells which rules it left out.
Named == P!Names(The(handed).nodes) \cup P!Names(The(handed).groups)
Expressible(policy) ==
    /\ policy \notin RejectNames \cup DropNames
    /\ policy \in Builtin \cup Named
    /\ Named \cap Builtin = {}
    /\ \A w \in told : w[1] # "rule"

\* Apart from DNS and private addresses, traffic meets the action that is asked
\* for, and the outbound that the policy asked for has become.
Obeyed(rules, policy) ==
    \A t \in Traffic \ (DnsTraffic \cup PrivateTraffic) :
        LET asked == Asked(rules, t, policy)
        IN  /\ Done(t).action = asked.action
            /\ asked.action = "route" => E!StandsFor(Done(t).outbound, asked.target)

================================================================================
