--------------------------------- MODULE Base64 ---------------------------------
(***************************************************************************)
(* base64/codec.go: a subscription that is a list of proxy URIs, in        *)
(* Base64.  Text is abstracted to what the decoder reads from it: a URI    *)
(* has a scheme, with // or without, its parts are readable or not, and    *)
(* name is what it is called, "" if it is not.                             *)
(***************************************************************************)
EXTENDS Document

CONSTANTS
    Counted(_, _)       \* Counted(n, i): n + "-" + i

VARIABLES
    reading,            \* "idle", "lines", "done" or "failed"
    lines,              \* the URIs
    line,               \* how many of them are decoded
    used,               \* used[n]: how often name n was asked for
    nodes,              \* the nodes; by is the line of a node
    skipped             \* the lines that warnings tell of

decoderVars == <<reading, lines, line, used, nodes, skipped>>

\* Recognize: exact when every line looks like a URI that is supported, though
\* it need not be usable.
Recognize(text) ==
    IF /\ text.base64 /\ text.lines # <<>>
       /\ \A uri \in Range(text.lines) : uri.scheme \in {"ss", "vmess", "vless"}
    THEN 3 ELSE 0

\* decodeProxyURI returns no error.  A Shadowsocks URI may leave its host out;
\* readable stands for its method.
Usable(uri) ==
    /\ uri.scheme \in {"ss", "vmess", "vless"} /\ uri.slashes /\ uri.readable
    /\ uri.port \in 1 .. 65535
    /\ uri.scheme # "ss" => uri.server # "" /\ uri.user # ""
    /\ uri.scheme = "vless" /\ uri.reality => uri.key # ""

Protocol(uri) == IF uri.scheme = "ss" THEN "shadowsocks" ELSE uri.scheme

\* Mutant of UniqueName: every name but the first gets the same number.
UniqueNameTwice(name, count) == IF count = 1 THEN name ELSE Counted(name, 2)

\* uniqueNodeName, for the count-th node that asks for the name.
UniqueName(name, count) == IF count = 1 THEN name ELSE Counted(name, count)

Asking(uri) == FirstNonEmpty(uri.name, Protocol(uri))
Count(name) == IF name \in DOMAIN used THEN used[name] ELSE 0

\* Mutant of Skip: without a warning.
SkipQuietly(i) == UNCHANGED skipped

Skip(i) == skipped' = skipped \cup {i}

IdleDecoder ==
    /\ reading = "idle"
    /\ lines = <<>> /\ line = 0
    /\ used = [n \in {} |-> 0]
    /\ nodes = <<>>
    /\ skipped = {}

StartDecoding(text) ==
    /\ reading' = IF text.base64 THEN "lines" ELSE "failed"
    /\ lines' = text.lines
    /\ UNCHANGED <<line, used, nodes, skipped>>

DecodeLine ==
    /\ reading = "lines" /\ line < Len(lines)
    /\ LET uri == lines[line + 1]
           name == Asking(uri)
       IN  IF Usable(uri)
           THEN /\ used' = [n \in DOMAIN used \cup {name} |->
                               IF n = name THEN Count(name) + 1 ELSE used[n]]
                /\ nodes' = Append(nodes,
                       [name |-> UniqueName(name, Count(name) + 1), by |-> line + 1,
                        supported |-> uri.scheme = "vless" => uri.plain, named |-> uri.named])
                /\ UNCHANGED skipped
           ELSE /\ Skip(line + 1)
                /\ UNCHANGED <<used, nodes>>
    /\ line' = line + 1
    /\ UNCHANGED <<reading, lines>>

\* Without a node there is no document.
EndOfLines ==
    /\ reading = "lines" /\ line = Len(lines)
    /\ reading' = IF nodes = <<>> THEN "failed" ELSE "done"
    /\ UNCHANGED <<lines, line, used, nodes, skipped>>

DecodeText == DecodeLine \/ EndOfLines

--------------------------------------------------------------------------------
(* Properties. *)

\* No URI is called as the number of another would make it.
NamesTell ==
    \A i, j, n \in 1 .. Len(lines) : Asking(lines[i]) # Counted(Asking(lines[j]), n + 1)

\* However many URIs ask for a name, and however many ask for none and get that
\* of their protocol, which others may ask for, each node has a name of its own.
NodesNamedOnce ==
    NamesTell => \A i, j \in 1 .. Len(nodes) : nodes[i].name = nodes[j].name => i = j

================================================================================
