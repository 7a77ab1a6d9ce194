------------------------------- MODULE Converter -------------------------------
(***************************************************************************)
(* The registry of converter.go: which codec a format stands for, by name  *)
(* or by what the codecs recognize, and which one decodes a patch.         *)
(***************************************************************************)
EXTENDS Document

CONSTANTS
    FormatOf(_),        \* FormatOf(c): the format of codec c, as it spells it
    PatchFormatsOf(_),  \* the patch formats that it decodes
    Normal(_)           \* a spelling in lower case, without spaces around it

VARIABLES
    codecs,             \* codecs[f]: the codec of format f
    registered,         \* all codecs, in the order of their registration
    patchers            \* patchers[f]: the codec that decodes patches in format f

registry == <<codecs, registered, patchers>>

With(f, keys, c) == [k \in DOMAIN f \cup keys |-> IF k \in keys THEN c ELSE f[k]]

Empty == [f \in {} |-> ""]
NoCodecs == codecs = Empty /\ registered = <<>> /\ patchers = Empty

\* decodeFormat; "" has the codec detected.
DecodeFormat(format) == IF Normal(format) = "auto" THEN "" ELSE Normal(format)

\* normalizePatchFormat.
NormalPatch(format) ==
    CASE Normal(format) \in {"", "clash"} -> "clash"
      [] Normal(format) \in {"patch", "document-patch", "document_patch"} -> "patch"
      [] Normal(format) \in {"sing-box", "singbox", "sing_box"} -> "sing-box"
      [] OTHER -> Normal(format)

FormatKey(c) == Normal(FormatOf(c))

RegisterCodec(c) ==
    /\ codecs' = With(codecs, {FormatKey(c)}, c)
    /\ registered' = Append(registered, c)
    /\ patchers' = With(patchers, {NormalPatch(f) : f \in PatchFormatsOf(c)}, c)

\* RegisterAlias, for a format that may be missing.
Aliased(formats, alias, format) ==
    IF format \in DOMAIN formats THEN With(formats, {alias}, formats[format]) ELSE formats

\* What New does after the registrations.
RegisterDefaults ==
    /\ codecs' = Aliased(Aliased(codecs, "mihomo", "clash"), "singbox", "sing-box")
    /\ UNCHANGED <<registered, patchers>>

\* The codec of a normalized format, as an optional.
Codec(format) == IF format \in DOMAIN codecs THEN {codecs[format]} ELSE {}

\* Mutants of Better: the count goes on with a better claim, or is not kept.
BetterCounting(best, c, claim) ==
    IF claim > best.claim THEN [codec |-> {c}, claim |-> claim, count |-> best.count + 1]
    ELSE IF claim # 0 /\ claim = best.claim THEN [best EXCEPT !.count = @ + 1]
    ELSE best
BetterOnly(best, c, claim) ==
    IF claim > best.claim THEN [codec |-> {c}, claim |-> claim, count |-> 1] ELSE best

\* One codec of detect's loop, which claims the data with 0 for none to 3 for exact.
Better(best, c, claim) ==
    IF claim > best.claim THEN [codec |-> {c}, claim |-> claim, count |-> 1]
    ELSE IF claim # 0 /\ claim = best.claim THEN [best EXCEPT !.count = @ + 1]
    ELSE best

\* detect: the codec that claims the data most, unless two do.
Detect(claims) ==
    LET best == FoldLeft(LAMBDA b, c : Better(b, c, claims[c]),
                         [codec |-> {}, claim |-> 0, count |-> 0], registered)
    IN  IF best.count > 1 THEN {} ELSE best.codec

--------------------------------------------------------------------------------
(* Properties. *)

Claims == [Range(registered) -> 0 .. 3]

Detected(claims) ==
    LET most == {i \in 1 .. Len(registered) :
            /\ claims[registered[i]] # 0
            /\ \A j \in 1 .. Len(registered) : claims[registered[j]] <= claims[registered[i]]}
    IN  IF Cardinality(most) = 1 THEN {registered[i] : i \in most} ELSE {}

AllAlike(claims) ==
    \A c, d \in Range(registered) :
        Normal(FormatOf(c)) = Normal(FormatOf(d)) => claims[c] = claims[d]

\* Whatever is registered next, which codec is detected depends on what the codecs
\* claim, and not on the order of their registration: the only one that claims most.
DetectionIsOrderFree ==
    [][registry' # registry => (\A claims \in Claims : Detect(claims) = Detected(claims))']_registry

\* A codec registered for a format that has one replaces it by name and stays
\* beside it in the list.  If codecs of one format recognize the same data, the
\* one that was replaced is never chosen all the same: a codec that is detected
\* is what its format stands for.
ReplacedNeverDetected ==
    [][registry' # registry =>
        (\A claims \in Claims : AllAlike(claims) =>
            \A c \in Detect(claims) : Codec(Normal(FormatOf(c))) = {c})']_registry

================================================================================
