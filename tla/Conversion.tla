------------------------------- MODULE Conversion -------------------------------
(***************************************************************************)
(* Handler.convert of server.go: concurrent requests, each of which loads  *)
(* and decodes its subscription, then loads and applies the top-level      *)
(* patches, then those of the subscription, then encodes.  Files and URLs  *)
(* change while requests are under way.  The loader is reduced to what     *)
(* VersionedSource promises; a content is decoded when it has been loaded. *)
(* Left out: the provider files that a decoder loads on the way, which     *)
(* ClashDecode has, and the server's WriteTimeout, which cuts the          *)
(* connection and not the handler.                                         *)
(***************************************************************************)
EXTENDS Patch

CONSTANTS
    Requests,           \* requests, each served once
    Keys,               \* the sources of the configuration
    Subscriptions,      \* the configured names
    UnknownName,        \* a name that is not configured
    SourceOf,           \* SourceOf[n]: the source of subscription n
    GlobalPatches,      \* the top-level patch sources, in order
    LocalPatches,       \* LocalPatches[n]: those of subscription n, in order
    Formats,            \* values of the format parameter with a codec
    Encoders,           \* those whose codec can encode
    NoFormat,           \* no parameter, auto, or a format without codec
    MaxVersion,         \* bound: versions of one source
    DocumentOf,         \* DocumentOf[k][v]: what version v of source k decodes to
    PatchOf,            \* PatchOf[k][v]: the same for a patch source
    Undecodable         \* the content that no codec decodes

ASSUME ConfigAssumption ==
    /\ UnknownName \notin Subscriptions
    /\ NoFormat \notin Formats
    /\ Encoders \subseteq Formats
    /\ SourceOf \in [Subscriptions -> Keys]
    /\ GlobalPatches \in Seq(Keys)
    /\ LocalPatches \in [Subscriptions -> Seq(Keys)]
    /\ MaxVersion \in Nat \ {0}

\* What decodes is a document, or a patch.
ASSUME ContentAssumption ==
    \A k \in Keys, v \in 1 .. MaxVersion :
        /\ DocumentOf[k][v] # Undecodable => IsDocument(DocumentOf[k][v])
        /\ PatchOf[k][v] # Undecodable => IsPatch(PatchOf[k][v])

VARIABLES
    name, format,       \* name[r], format[r]: the request
    pc,                 \* pc[r]: "idle", "convert", "loading", "encode", "done"
    stage,              \* stage[r]: "source", "global" or "local"
    position,           \* position[r]: patches of the stage loaded so far
    doc,                \* doc[r]: decoded.Document
    combined,           \* combined[r]: the patches of the stage, combined
    response,           \* response[r]: status and content
    upstream,           \* external: the version of each source
    served, floor,      \* history: as in VersionedSource
    used, baseline      \* history: versions read by r; served when r began

source == <<upstream, served, floor>>
vars == <<name, format, pc, stage, position, doc, combined, response, upstream,
          served, floor, used, baseline>>

NoDocument == [nodes |-> <<>>]
Answer(code, content) == [status |-> code, content |-> content]
NoAnswer == Answer(0, NoDocument)

\* The sources that a stage loads, in order.
Sources(r) ==
    IF stage[r] = "source" THEN <<SourceOf[name[r]]>>
    ELSE IF stage[r] = "global" THEN GlobalPatches
    ELSE LocalPatches[name[r]]

Loading(r) == Sources(r)[position[r] + 1]

Init ==
    /\ name = [r \in Requests |-> UnknownName]
    /\ format = [r \in Requests |-> NoFormat]
    /\ pc = [r \in Requests |-> "idle"]
    /\ stage = [r \in Requests |-> "source"]
    /\ position = [r \in Requests |-> 0]
    /\ doc = [r \in Requests |-> NoDocument]
    /\ combined = [r \in Requests |-> EmptyPatch]
    /\ response = [r \in Requests |-> NoAnswer]
    /\ upstream = [k \in Keys |-> 1]
    /\ served = [k \in Keys |-> 0]
    /\ floor = [r \in Requests |-> 0]
    /\ used = [r \in Requests |-> <<>>]
    /\ baseline = [r \in Requests |-> [k \in Keys |-> 0]]

\* The handler writes its answer; its locals go.
Respond(r, answer) ==
    /\ pc' = [pc EXCEPT ![r] = "done"]
    /\ response' = [response EXCEPT ![r] = answer]
    /\ doc' = [doc EXCEPT ![r] = NoDocument]
    /\ combined' = [combined EXCEPT ![r] = EmptyPatch]

\* Mutant of Fail: the error is logged and the status left at its default.
FailSilently(r) == Respond(r, Answer(200, NoDocument))

\* writeError: one answer for every failure.
Fail(r) == Respond(r, Answer(502, NoDocument))

\* 404 before the format is looked at, 400 before anything is loaded.
Request(r, n, f) ==
    /\ pc[r] = "idle"
    /\ name' = [name EXCEPT ![r] = n]
    /\ format' = [format EXCEPT ![r] = f]
    /\ \/ /\ n \notin Subscriptions
          /\ Respond(r, Answer(404, NoDocument))
          /\ UNCHANGED baseline
       \/ /\ n \in Subscriptions /\ f \notin Formats
          /\ Respond(r, Answer(400, NoDocument))
          /\ UNCHANGED baseline
       \/ /\ n \in Subscriptions /\ f \in Formats
          /\ pc' = [pc EXCEPT ![r] = "convert"]
          /\ baseline' = [baseline EXCEPT ![r] = served]
          /\ UNCHANGED <<doc, combined, response>>
    /\ UNCHANGED <<stage, position, source, used>>

\* Mutant of BeginLoad: a loader that may serve what is older than before.
BeginLoadAnew(r) ==
    /\ pc[r] = "convert"
    /\ position[r] < Len(Sources(r))
    /\ pc' = [pc EXCEPT ![r] = "loading"]
    /\ UNCHANGED <<name, format, stage, position, doc, combined, response,
                   source, used, baseline>>

BeginLoad(r) ==
    /\ pc[r] = "convert"
    /\ position[r] < Len(Sources(r))
    /\ pc' = [pc EXCEPT ![r] = "loading"]
    /\ floor' = [floor EXCEPT ![r] = served[Loading(r)]]
    /\ UNCHANGED <<name, format, stage, position, doc, combined, response,
                   upstream, served, used, baseline>>

\* The loader keeps VersionedSource's promise.
Loaded(r, v) ==
    /\ pc[r] = "loading"
    /\ floor[r] <= v /\ v <= upstream[Loading(r)]
    /\ served' = [served EXCEPT ![Loading(r)] = IF @ < v THEN v ELSE @]
    /\ used' = [used EXCEPT ![r] =
                   Append(@, [stage |-> stage[r], key |-> Loading(r), ver |-> v])]

\* The subscription is decoded; the top-level patches are next.
LoadSource(r) ==
    /\ stage[r] = "source"
    /\ \E v \in 1 .. MaxVersion :
          /\ Loaded(r, v)
          /\ LET content == DocumentOf[Loading(r)][v]
             IN  IF content = Undecodable
                 THEN Fail(r) /\ UNCHANGED stage
                 ELSE /\ doc' = [doc EXCEPT ![r] = content]
                      /\ stage' = [stage EXCEPT ![r] = "global"]
                      /\ pc' = [pc EXCEPT ![r] = "convert"]
                      /\ UNCHANGED <<combined, response>>
    /\ UNCHANGED <<name, format, position, upstream, floor, baseline>>

\* One iteration of LoadPatches.
LoadPatch(r) ==
    /\ stage[r] # "source"
    /\ \E v \in 1 .. MaxVersion :
          /\ Loaded(r, v)
          /\ LET content == PatchOf[Loading(r)][v]
             IN  IF content = Undecodable
                 THEN Fail(r) /\ UNCHANGED position
                 ELSE /\ combined' = [combined EXCEPT ![r] = Combine(@, content)]
                      /\ position' = [position EXCEPT ![r] = @ + 1]
                      /\ pc' = [pc EXCEPT ![r] = "convert"]
                      /\ UNCHANGED <<doc, response>>
    /\ UNCHANGED <<name, format, stage, upstream, floor, baseline>>

\* Mutant of LoadFails: the load is tried again, without a limit.
LoadRetries(r) ==
    /\ pc[r] = "loading"
    /\ pc' = [pc EXCEPT ![r] = "convert"]
    /\ UNCHANGED <<name, format, stage, position, doc, combined, response,
                   source, used, baseline>>

LoadFails(r) ==
    /\ pc[r] = "loading"
    /\ Fail(r)
    /\ UNCHANGED <<name, format, stage, position, source, used, baseline>>

\* Mutant of NextStage: the patches of the subscription are left out.
NextStageSkips(s) == "encode"

NextStage(s) == IF s = "global" THEN "local" ELSE "encode"

\* LoadPatches has returned: ApplyPatch, and on to the next list.
Apply(r) ==
    /\ pc[r] = "convert" /\ stage[r] # "source"
    /\ position[r] = Len(Sources(r))
    /\ IF Applicable(doc[r], combined[r])
       THEN /\ doc' = [doc EXCEPT ![r] = Applied(@, combined[r])]
            /\ combined' = [combined EXCEPT ![r] = EmptyPatch]
            /\ position' = [position EXCEPT ![r] = 0]
            /\ stage' = [stage EXCEPT ![r] = NextStage(@)]
            /\ pc' = [pc EXCEPT ![r] =
                         IF NextStage(stage[r]) = "encode" THEN "encode" ELSE "convert"]
            /\ UNCHANGED response
       ELSE Fail(r) /\ UNCHANGED <<stage, position>>
    /\ UNCHANGED <<name, format, source, used, baseline>>

\* The codec encodes, the inbounds are valid and something can be selected.
Encodable(d, f) ==
    /\ f \in Encoders
    /\ \A inbounds \in d.inbounds : ValidInbounds(inbounds)
    /\ Len(d.nodes) + Len(d.groups) > 0

Encode(r) ==
    /\ pc[r] = "encode"
    /\ IF Encodable(doc[r], format[r]) THEN Respond(r, Answer(200, doc[r])) ELSE Fail(r)
    /\ UNCHANGED <<name, format, stage, position, source, used, baseline>>

SourceChanges(k) ==
    /\ upstream[k] < MaxVersion
    /\ upstream' = [upstream EXCEPT ![k] = @ + 1]
    /\ UNCHANGED <<name, format, pc, stage, position, doc, combined, response,
                   served, floor, used, baseline>>

Finished ==
    /\ \A r \in Requests : pc[r] = "done"
    /\ UNCHANGED vars

\* The steps of a handler once its request is in.
Step(r) ==
    BeginLoad(r) \/ LoadSource(r) \/ LoadPatch(r) \/ LoadFails(r) \/ Apply(r) \/ Encode(r)

Next ==
    \/ \E r \in Requests, n \in Subscriptions \cup {UnknownName},
          f \in Formats \cup {NoFormat} : Request(r, n, f)
    \/ \E r \in Requests : Step(r)
    \/ \E k \in Keys : SourceChanges(k)
    \/ Finished

Spec == Init /\ [][Next]_vars

\* Handlers run, and every load returns: SourceLoader's EveryLoadReturns.
FairSpec == Spec /\ \A r \in Requests : WF_vars(Step(r))

--------------------------------------------------------------------------------
(* Properties. *)

\* Every variable keeps its type; a document is answered with 200 and nothing
\* else is.
TypeOK ==
    /\ name \in [Requests -> Subscriptions \cup {UnknownName}]
    /\ format \in [Requests -> Formats \cup {NoFormat}]
    /\ pc \in [Requests -> {"idle", "convert", "loading", "encode", "done"}]
    /\ stage \in [Requests -> {"source", "global", "local", "encode"}]
    /\ position \in [Requests -> Nat]
    /\ \A r \in Requests :
          /\ response[r].status \in {0, 200, 400, 404, 502}
          /\ response[r].status = 200 <=> response[r].content # NoDocument
    /\ upstream \in [Keys -> 1 .. MaxVersion]
    /\ served \in [Keys -> 0 .. MaxVersion]
    /\ floor \in [Requests -> 0 .. MaxVersion]
    /\ baseline \in [Requests -> [Keys -> 0 .. MaxVersion]]

Converted(r) == response[r].status = 200

\* What request r read at stage s, in the order of the configuration, and the
\* patches that this decodes to.
AtStage(reads, s) == Selected(reads, LAMBDA u : u.stage = s)
Decoded(reads) == [i \in 1 .. Len(reads) |-> PatchOf[reads[i].key][reads[i].ver]]

Reads(r, s) == AtStage(used[r], s)
PatchesRead(r, s) == Decoded(Reads(r, s))
SourceRead(r) == LET u == Reads(r, "source")[1] IN DocumentOf[u.key][u.ver]

\* The order in which rules are consulted, patch by patch.
Consulted(r) ==
    PatchesRead(r, "local") \o (PatchesRead(r, "global") \o <<SourceRead(r)>>)

\* The order in which a later definition replaces an earlier one.
Redefining(r) == PatchesRead(r, "global") \o PatchesRead(r, "local")

\* What the last patch gives that gives any, else what the source has.
Latest(r, given, Of(_)) ==
    LET last == LastGiven(Redefining(r), Of) IN IF last = {} THEN given ELSE last

LatestPart(r, part, given) == Latest(r, given, LAMBDA p : p[part])
LatestDefinition(r, section, n) ==
    Latest(r, Definition(SourceRead(r)[section], n), LAMBDA p : Definition(p[section], n))

\* What the README promises to traffic of class t: the first rule of the first
\* place that has one for t, the final policy given last if none has.
Promised(r, t) ==
    LET rule == FirstGiven(Consulted(r), LAMBDA c : Deciding(c.rules, t))
        policy == LatestPart(r, "final", {SourceRead(r).final})
    IN  IF rule = {} THEN [action |-> "route", target |-> The(policy)]
        ELSE [action |-> The(rule).action, target |-> The(rule).target]

\* Subscription patches before top-level patches before source rules before
\* final: the document that is encoded decides on all traffic as the contents
\* that were read say, however the patches of a list were combined.
PriorityKept ==
    \A r \in Requests : Converted(r) =>
        \A t \in Traffic : Decision(response[r].content, t) = Promised(r, t)

\* Of all definitions of a node, a group or a rule set that were read, the
\* last one is encoded, and once unless the source has it twice; the same for
\* the lists of inbounds and for DNS.
LatestDefinitionsKept ==
    \A r \in Requests : Converted(r) =>
        LET content == response[r].content
            read == SourceRead(r)
            named(section) ==
                Names(content[section]) \cup Names(read[section])
                    \cup UNION {Names(p[section]) : p \in Range(Redefining(r))}
        IN  /\ \A section \in {"nodes", "groups", "ruleSets"} :
                  /\ \A n \in named(section) :
                        Definition(content[section], n) = LatestDefinition(r, section, n)
                  /\ NamedOnce(read[section]) => NamedOnce(content[section])
            /\ content.inbounds = LatestPart(r, "inbounds", read.inbounds)
            /\ {content.dns} = LatestPart(r, "dns", {read.dns})

\* No accepted patch, and no later patch on top of it, leaves a rule without
\* its policy or its rule set, unless the source had left it without.
ReferencesKept ==
    \A r \in Requests : Converted(r) =>
        /\ DanglingPolicies(response[r].content) \subseteq DanglingPolicies(SourceRead(r))
        /\ DanglingSets(response[r].content) \subseteq DanglingSets(SourceRead(r))

\* An answer is made from every configured source, each read exactly once.
ReadsAreComplete ==
    \A r \in Requests : Converted(r) =>
        [i \in 1 .. Len(used[r]) |-> used[r][i].key] =
            <<SourceOf[name[r]]>> \o GlobalPatches \o LocalPatches[name[r]]

\* A request that begins after another has read some source never works from
\* an older version of it.
RequestsNeverRollBack ==
    \A r \in Requests : \A i \in 1 .. Len(used[r]) :
        baseline[r][used[r][i].key] <= used[r][i].ver

\* Every accepted request is answered.
EveryRequestAnswered ==
    \A r \in Requests : pc[r] # "idle" ~> pc[r] = "done"

================================================================================
