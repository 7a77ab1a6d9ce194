------------------------------- MODULE Subscription -------------------------------
(***************************************************************************)
(* The program from its start to one answer: Config, Converter, Base64 and *)
(* Pipeline one after the other.  Either the server reads its              *)
(* configuration and answers one request, or convert is run.  What the     *)
(* loader delivers does not change on the way: Conversion is about that.   *)
(*                                                                         *)
(* Base64 is the only codec whose decoder can succeed here, as no text is  *)
(* a Clash configuration: ClashToSingBox is about those.                   *)
(***************************************************************************)
EXTENDS Config, Base64, Pipeline

CONSTANTS
    Setups              \* what the program is started with, see Init

\* A text that is taken for a patch: its lists are lists, it has each section once,
\* and its nodes are those of no line.
IsPatchText(text) ==
    /\ text.kind = "patch" =>
          /\ P!IsPatch(text.patch) /\ P!ListsWithin(text.patch)
          /\ \A node \in Range(text.patch.nodes) : node.by = 0
          /\ \A section \in text.patch.dns : P!IsSection(section)
    /\ text.kind = "sing-box" =>
          /\ AtMostOne(text.inbounds) /\ AtMostOne(text.route)
          /\ \A route \in text.route :
                /\ IsList(route.rules) /\ IsList(route.ruleSets)
                /\ \A rule \in Range(route.rules) : IsList(rule.refs)

\* A source has a location, which comes from one of five places, and a format;
\* the lists of a configuration, and the lines of a text, are lists.  The codecs
\* that New registers have none of the names that it makes aliases.
ASSUME SetupsAssumption ==
    \A s \in Setups :
        /\ s.command \in {"serve", "convert"}
        /\ \A t \in Range(s.config.subscriptions) : "patches" \in DOMAIN t
        /\ \A source \in AllSources(s.config) :
              /\ {"location", "format"} \subseteq DOMAIN source
              /\ source.location.from \in {"none", "root", "home", "relative", "url"}
              /\ source.location.from = "none" => source.location = None
        /\ \A list \in {s.config.patches, s.config.subscriptions}
                  \cup {t.patches : t \in Range(s.config.subscriptions)}
                  \cup {text.lines : text \in Range(s.texts)} :
              list \in Seq(Range(list))
        /\ IsList(s.shipped)
        /\ \A c \in Range(s.shipped) : FormatKey(c) \notin {"mihomo", "singbox"}
        /\ \A text \in Range(s.texts) : IsPatchText(text)

VARIABLES
    setup,              \* constant: [command, config, directory, shipped, texts, name, from, to]
    stage,              \* what comes next, see Next; "answered" or "refused"
    config,             \* {} or {the configuration}
    document,           \* {} or {the document}
    answer              \* "", "ok", "not found", "bad request" or "failed"

vars == <<setup, stage, config, document, answer, registry, decoderVars, handed, encoderVars>>

\* The server is started in a directory, with texts[l] at location l.  convert
\* is given what is at None, as from standard input; from and to are formats.
Init ==
    /\ setup \in Setups
    /\ stage = IF setup.command = "serve" THEN "configure" ELSE "register"
    /\ config = {} /\ document = {} /\ answer = ""
    /\ NoCodecs /\ IdleDecoder /\ NothingHanded

Configure ==
    /\ stage = "configure"
    /\ config' = LoadConfig(setup.config, setup.directory)
    /\ stage' = IF config' = {} THEN "refused" ELSE "register"
    /\ UNCHANGED <<setup, document, answer, registry, decoderVars, handed, encoderVars>>

\* New, and NewHandler, which validates once more.
Register ==
    /\ stage = "register"
    /\ IF Len(registered) < Len(setup.shipped)
       THEN RegisterCodec(setup.shipped[Len(registered) + 1]) /\ UNCHANGED stage
       ELSE /\ RegisterDefaults
            /\ stage' = IF setup.command = "convert" THEN "decode"
                        ELSE IF Valid(WithDefaults(The(config))) THEN "request" ELSE "refused"
    /\ UNCHANGED <<setup, config, document, answer, decoderVars, handed, encoderVars>>

Answered(with) == stage' = "answered" /\ answer' = with

Called(name) == {s \in Range(The(config).subscriptions) : s.name = name}
Subscribed == The(Called(setup.name))

Request ==
    /\ stage = "request"
    /\ CASE Called(setup.name) = {} -> Answered("not found")
         [] Called(setup.name) # {} /\ (DecodeFormat(setup.to) = "" \/ Codec(Normal(setup.to)) = {}) ->
                Answered("bad request")
         [] OTHER -> stage' = "decode" /\ UNCHANGED answer
    /\ UNCHANGED <<setup, config, document, registry, decoderVars, handed, encoderVars>>

--------------------------------------------------------------------------------
(* Decode, and the patches. *)

\* What the loader delivers, as an optional.
Loaded(location) == IF location \in DOMAIN setup.texts THEN {setup.texts[location]} ELSE {}

Source ==
    IF setup.command = "convert" THEN [location |-> None, format |-> setup.from]
    ELSE Subscribed

\* What the codecs recognize; the text of no Clash configuration is that of one.
Claimed(text) ==
    [c \in Range(registered) |->
        CASE Normal(FormatOf(c)) = "base64" -> Recognize(text)
          [] Normal(FormatOf(c)) = "sing-box" -> text.json
          [] OTHER -> 0]

Chosen(text) ==
    LET format == DecodeFormat(Source.format)
    IN  IF format = "" THEN Detect(Claimed(text)) ELSE Codec(format)

Decode ==
    /\ stage = "decode"
    /\ IF \E text \in Loaded(Source.location) : Chosen(text) = {"base64"}
       THEN /\ StartDecoding(The(Loaded(Source.location)))
            /\ stage' = "decoding"
            /\ UNCHANGED answer
       ELSE Answered("failed") /\ UNCHANGED decoderVars
    /\ UNCHANGED <<setup, config, document, registry, handed, encoderVars>>

DecodeLines ==
    /\ stage = "decoding"
    /\ DecodeText
    /\ UNCHANGED <<setup, stage, config, document, answer, registry, handed, encoderVars>>

Decoded ==
    /\ stage = "decoding" /\ reading \in {"done", "failed"}
    /\ IF reading = "failed" THEN Answered("failed") /\ UNCHANGED document
       ELSE /\ document' = {[DefaultDocument EXCEPT !.nodes = nodes]}
            /\ stage' = IF setup.command = "convert" THEN "encode" ELSE "global"
            /\ UNCHANGED answer
    /\ UNCHANGED <<setup, config, registry, decoderVars, handed, encoderVars>>

\* decodePatch, as an optional.  A document patch is what its text says, and no
\* text is in two formats.
DecodePatch(source) ==
    LET format == NormalPatch(source.format)
    IN  UNION {CASE format = "patch" /\ text.kind = "patch" -> {text.patch} \ {P!EmptyPatch}
                 [] format = "sing-box" /\ text.kind = "sing-box"
                        /\ format \in DOMAIN patchers /\ patchers[format] = "sing-box" ->
                      P!Decoded(text)
                 [] OTHER -> {} : text \in Loaded(source.location)}

\* LoadPatches, as an optional.
LoadPatches(sources) ==
    FoldLeft(LAMBDA combined, source :
                 {P!Combine(target, patch) : target \in combined, patch \in DecodePatch(source)},
             {P!EmptyPatch}, sources)

\* One of the two lists is loaded and applied.
ApplyPatches(list, sources, then) ==
    /\ stage = list
    /\ LET patch == {p \in LoadPatches(sources) : P!Applicable(The(document), p)}
       IN  IF patch = {} THEN Answered("failed") /\ UNCHANGED document
           ELSE /\ document' = {P!Applied(The(document), The(patch))}
                /\ stage' = then
                /\ UNCHANGED answer
    /\ UNCHANGED <<setup, config, registry, decoderVars, handed, encoderVars>>

ApplyGlobal == stage = "global" /\ ApplyPatches("global", The(config).patches, "local")
ApplyLocal == stage = "local" /\ ApplyPatches("local", Subscribed.patches, "encode")

\* Encode; no codec but sing-box encodes.
StartEncoding ==
    /\ stage = "encode"
    /\ IF DecodeFormat(setup.to) # "" /\ Codec(Normal(setup.to)) = {"sing-box"}
       THEN handed' = document /\ stage' = "encoding" /\ UNCHANGED answer
       ELSE Answered("failed") /\ UNCHANGED handed
    /\ UNCHANGED <<setup, config, document, registry, decoderVars, encoderVars>>

EncodeDocument ==
    /\ stage = "encoding" /\ encoding \notin {"done", "failed"}
    /\ Encode
    /\ UNCHANGED <<setup, stage, config, document, answer, registry, decoderVars>>

Encoded ==
    /\ stage = "encoding" /\ encoding \in {"done", "failed"}
    /\ Answered(IF encoding = "done" THEN "ok" ELSE "failed")
    /\ UNCHANGED <<setup, config, document, registry, decoderVars, handed, encoderVars>>

Finished == stage \in {"answered", "refused"} /\ UNCHANGED vars

Next ==
    \/ Configure \/ Register \/ Request
    \/ Decode \/ DecodeLines \/ Decoded
    \/ ApplyGlobal \/ ApplyLocal
    \/ StartEncoding \/ EncodeDocument \/ Encoded
    \/ Finished

Spec == Init /\ [][Next]_vars

--------------------------------------------------------------------------------
(* Properties. *)

\* All locations of an accepted configuration are files or URLs, though a path
\* may become that of standard input when it is resolved: a server that reads
\* its input there waits for ever.  None is relative to where the server runs
\* if the configuration is not.
SourcesAreFiles ==
    \A c \in config :
        \A s \in AllSources(c) :
            /\ s.location \notin {None, StandardInput}
            /\ setup.directory.from = "root" => s.location.from \in {"root", "url"}

\* No other URI has the name that the i-th was given.
NamedApart(i) ==
    \A j, k \in 1 .. Len(nodes) : nodes[j].by = i /\ nodes[k].name = nodes[j].name => k = j

\* No group of a patch has the name of the node, and no hop of one its tag.
GroupsApart(node) ==
    \A group \in Range(The(handed).groups) :
        /\ group.name # node.name
        /\ group.type = "relay" =>
              \A i \in 1 .. Len(group.members) : Hop(tags[group.name], i) # tags[node.name]

\* A client is given one outbound of its own for each URI of a subscription that
\* is understood and shares its name with nothing else, unless a patch has a node
\* of that name, and all others are told of: names, tags and outbounds are given in
\* three different places, and what other URIs are called changes nothing.
EveryURIHasItsOutbound ==
    Converted =>
        \A i \in {x \in 1 .. Len(lines) : NamedApart(x)} :
            \/ i \in skipped /\ ~Usable(lines[i])
            \/ \E k \in 1 .. Len(The(handed).nodes) :
                  LET node == The(handed).nodes[k]
                  IN  /\ node.by = i
                      /\ \/ <<"node", k>> \in told
                         \/ ~GroupsApart(node)
                         \/ Cardinality({o \in DOMAIN outbounds :
                                outbounds[o].tag = tags[node.name]}) = 1
            \/ \E node \in Range(nodes), other \in Range(The(handed).nodes) :
                  node.by = i /\ other.by = 0 /\ other.name = node.name

\* The texts of the patches, those of the subscription last.
Texts ==
    LET sources == IF setup.command = "convert" THEN <<>>
                   ELSE The(config).patches \o Subscribed.patches
    IN  [i \in 1 .. Len(sources) |-> The(Loaded(sources[i].location))]

RouteOf(text) ==
    IF text.kind = "patch" THEN text.patch
    ELSE IF text.route = {} THEN P!EmptyPatch
    ELSE [rules |-> [i \in 1 .. Len(The(text.route).rules) |->
                        LET rule == The(text.route).rules[i]
                        IN  [match |-> rule.match, target |-> rule.outbound,
                             action |-> IF rule.action = "" THEN "route" ELSE rule.action]],
          final |-> {The(text.route).final} \ {""}]

InboundsOf(text) ==
    IF text.kind = "patch" THEN text.patch.inbounds
    ELSE {[i \in 1 .. Len(inbounds) |-> P!DocumentInbound(inbounds[i])] :
             inbounds \in text.inbounds}

\* What the last text gives that gives any, else what the default is.
LastSaid(Of(_), default) ==
    LET last == LastGiven(Texts, Of) IN IF last = {} THEN default ELSE The(last)

\* The rules of the patches, those of the subscription first: lists are loaded in
\* one order and take precedence in the other.
RulesWanted ==
    LET global == IF setup.command = "convert" THEN 0 ELSE Len(The(config).patches)
        rules(from, to) ==
            Chained([i \in 1 .. to - from + 1 |-> RouteOf(Texts[from + i - 1]).rules])
    IN  rules(global + 1, Len(Texts)) \o rules(1, global)

\* README.md: the patches of a subscription come before the top-level ones, their
\* rules before the final policy, and invalid rules fail the conversion: whatever
\* is answered obeys all rules of all texts.
PatchesObeyed ==
    LET policy == LastSaid(LAMBDA text : RouteOf(text).final, DefaultFinal)
    IN  Converted /\ Expressible(policy) => Obeyed(RulesWanted, policy)

\* README.md: a list of inbounds replaces the current one as a whole, none is the
\* way to have none, and those of a subscription win.  What listens to others
\* without users is told of.
ListenersAsGiven ==
    Converted =>
        /\ E!EffectiveInbounds = LastSaid(InboundsOf, <<Tun("tun-in")>>)
        /\ \A i \in 1 .. Len(E!EffectiveInbounds) :
              LET inbound == E!EffectiveInbounds[i]
              IN  inbound.type # "tun" /\ inbound.listen = "open" /\ inbound.users = <<>>
                      => <<"exposed", i>> \in told

================================================================================
