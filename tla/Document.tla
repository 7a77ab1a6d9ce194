-------------------------------- MODULE Document --------------------------------
(***************************************************************************)
(* What decoders, patches and encoders share of types.go and document.go:  *)
(* the parts of a document that a subscription or a patch may replace.     *)
(* An optional field, a pointer or a slice that may be nil in the code, is *)
(* a set: {} for nil, {x} for x.                                           *)
(***************************************************************************)
EXTENDS Naturals, Sequences, FiniteSets, SequencesExt

CONSTANTS
    Traffic,            \* the classes of traffic that rules tell apart
    GeoTags             \* the tags that begin with geoip- or geosite-, whose rule
                        \* sets encoders generate

The(optional) == CHOOSE x \in optional : TRUE

AtMostOne(optional) == \A x, y \in optional : x = y
IsList(x) == x \in Seq(Range(x))

\* What the first of a list gives that gives anything, and what the last gives.
FirstGiven(list, Of(_)) ==
    LET i == SelectInSeq(list, LAMBDA x : Of(x) # {})
    IN  IF i = 0 THEN {} ELSE Of(list[i])
LastGiven(list, Of(_)) ==
    LET i == SelectLastInSeq(list, LAMBDA x : Of(x) # {})
    IN  IF i = 0 THEN {} ELSE Of(list[i])

\* FlattenSeq and SelectSeq as folds, which can be reasoned about.
Chained(lists) == FoldLeft(LAMBDA chain, list : chain \o list, <<>>, lists)
Picked(those, list) ==
    FoldLeft(LAMBDA kept, x : IF x \in those THEN Append(kept, x) ELSE kept, <<>>, list)
Selected(list, Passes(_)) == Picked({x \in Range(list) : Passes(x)}, list)

FirstNonEmpty(x, y) == IF x # "" THEN x ELSE y

\* A DNS server: named when its own address is a domain name, reached through
\* the policy detour unless that is "".
Server(tag, address, detour, named) ==
    [tag |-> tag, address |-> address, detour |-> detour, named |-> named]

DefaultDNS ==
    [servers |-> <<Server("local", "local", "", FALSE),
                   Server("remote", "1.1.1.1", "proxy", FALSE)>>,
     rules |-> <<>>, final |-> "remote", proxyResolver |-> "", directResolver |-> "",
     storeFakeIP |-> FALSE]

DefaultFinal == "proxy"
DefaultResolver == "local"

--------------------------------------------------------------------------------
(* Inbounds.  Of the address that one listens on only its kind is told:       *)
(* "loopback", "open" for other addresses, "" for none, the rest is no address. *)

Inbound(type, tag, listen, port, users, system, tun) ==
    [type |-> type, tag |-> tag, listen |-> listen, port |-> port, users |-> users,
     system |-> system, tun |-> tun]

Tun(tag) == Inbound("tun", tag, "", 0, <<>>, FALSE, {[addresses |-> <<"prefix">>, stack |-> ""]})

UniqueTags(inbounds) ==
    \A i, j \in 1 .. Len(inbounds) : inbounds[i].tag = inbounds[j].tag => i = j

ValidUsers(users) ==
    /\ \A i \in 1 .. Len(users) : users[i].name # "" /\ users[i].password # ""
    /\ \A i, j \in 1 .. Len(users) : users[i].name = users[j].name => i = j

ValidInbound(inbound) ==
    /\ inbound.tag # ""
    /\ \/ /\ inbound.type = "tun" /\ inbound.tun # {}
          /\ The(inbound.tun).addresses # <<>>
          /\ The(inbound.tun).stack \in {"", "system", "gvisor", "mixed"}
          /\ inbound.listen = "" /\ inbound.port = 0
          /\ inbound.users = <<>> /\ ~inbound.system
       \/ /\ inbound.type \in {"mixed", "socks", "http"} /\ inbound.tun = {}
          /\ inbound.listen \in {"loopback", "open"} /\ inbound.port # 0
          /\ inbound.system => inbound.type = "mixed"
          /\ ValidUsers(inbound.users)

\* ValidateInbounds.
ValidInbounds(inbounds) ==
    UniqueTags(inbounds) /\ \A i \in 1 .. Len(inbounds) : ValidInbound(inbounds[i])

--------------------------------------------------------------------------------

\* legacy is the TUN section, which stands in for inbounds that are nil.
DefaultDocument ==
    [nodes |-> <<>>, groups |-> <<>>, ruleSets |-> <<>>, rules |-> <<>>,
     final |-> DefaultFinal, dns |-> DefaultDNS, resolver |-> DefaultResolver,
     inbounds |-> {<<Tun("tun-in")>>}, legacy |-> {Tun("tun-in")}]

================================================================================
