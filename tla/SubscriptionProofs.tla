--------------------------- MODULE SubscriptionProofs ---------------------------
(***************************************************************************)
(* Theorems about the program from its start to an answer: for every       *)
(* configuration, every subscription and every list of codecs.             *)
(***************************************************************************)
EXTENDS Subscription, FiniteSetTheorems, SequenceTheorems, TLAPS

--------------------------------------------------------------------------------
(* An accepted configuration names files and URLs. *)

WellPlaced(location) ==
    /\ location.from \in {"none", "root", "home", "relative", "url"}
    /\ location.from = "none" => location = None

\* Wherever a location that is resolved comes from, it is not relative to a
\* directory that is not.
LEMMA ResolvedPlace ==
    ASSUME NEW location, NEW directory, WellPlaced(location), directory.from = "root",
           Resolve(location, directory) # None
    PROVE  Resolve(location, directory).from \in {"root", "url"}
<1>1. \A path : Joined(directory, path).from = "root"
  BY DEF Joined, Location
<1>2. \A path, start : Joined(Location("root", start), path).from = "root"
  BY DEF Joined, Location
<1>3. CASE location.from = "home"
  BY <1>1, <1>2, <1>3 DEF Resolve
<1>4. CASE location.from = "relative"
  BY <1>1, <1>4 DEF Resolve
<1>5. CASE location.from \notin {"home", "relative"}
  <2>1. Resolve(location, directory) = location
    BY <1>5 DEF Resolve
  <2> QED BY <1>5, <2>1 DEF WellPlaced
<1> QED BY <1>3, <1>4, <1>5

\* A function over 1 .. n is a list of n items.
LEMMA FunctionList ==
    ASSUME NEW n \in Nat, NEW f, DOMAIN f = 1 .. n, f = [i \in 1 .. n |-> f[i]]
    PROVE  IsList(f) /\ Len(f) = n
<1>1. f \in [1 .. n -> Range(f)]
  BY DEF Range
<1>2. f \in Seq(Range(f))
  BY <1>1, SeqDef
<1> QED BY <1>1, <1>2 DEF IsList

\* What sources and their lists are like in SetupsAssumption.
Sources(list) ==
    /\ list \in Seq(Range(list))
    /\ \A source \in Range(list) :
          {"location", "format"} \subseteq DOMAIN source /\ WellPlaced(source.location)

\* What setDefaults and resolveSources make of a list of patches.
Normalized(patches) ==
    EachPatch(patches, LAMBDA p : [p EXCEPT !.format = NormalPatch(@)])
Located(sources, directory) ==
    EachPatch(sources, LAMBDA s : [s EXCEPT !.location = Resolve(@, directory)])

LEMMA NormalizedList ==
    ASSUME NEW list, Sources(list)
    PROVE  /\ Len(list) \in Nat /\ DOMAIN list = 1 .. Len(list)
           /\ DOMAIN Normalized(list) = 1 .. Len(list) /\ Len(Normalized(list)) = Len(list)
           /\ \A i \in 1 .. Len(list) :
                 /\ "location" \in DOMAIN Normalized(list)[i]
                 /\ Normalized(list)[i].location = list[i].location
<1>1. Len(list) \in Nat /\ DOMAIN list = 1 .. Len(list)
  BY DEF Sources
<1>2. Normalized(list) = [i \in 1 .. Len(list) |-> [list[i] EXCEPT !.format = NormalPatch(@)]]
  BY DEF Normalized, EachPatch
<1>3. \A i \in 1 .. Len(list) : {"location", "format"} \subseteq DOMAIN list[i]
  BY <1>1 DEF Sources, Range
<1>4. DOMAIN Normalized(list) = 1 .. Len(list) /\ Len(Normalized(list)) = Len(list)
  BY <1>1, <1>2
<1>5. ASSUME NEW i \in 1 .. Len(list)
      PROVE  /\ "location" \in DOMAIN Normalized(list)[i]
             /\ Normalized(list)[i].location = list[i].location
  BY <1>2, <1>3
<1> QED BY <1>1, <1>4, <1>5

\* Resolving changes each location and nothing about how many there are.
LEMMA LocatedList ==
    ASSUME NEW list, NEW directory, Len(list) \in Nat, DOMAIN list = 1 .. Len(list),
           \A i \in 1 .. Len(list) : "location" \in DOMAIN list[i]
    PROVE  /\ DOMAIN Located(list, directory) = 1 .. Len(list)
           /\ Len(Located(list, directory)) = Len(list) /\ IsList(Located(list, directory))
           /\ \A i \in 1 .. Len(list) :
                 /\ DOMAIN Located(list, directory)[i] = DOMAIN list[i]
                 /\ Located(list, directory)[i].location = Resolve(list[i].location, directory)
                 /\ "patches" \in DOMAIN list[i] =>
                       Located(list, directory)[i].patches = list[i].patches
<1>1. Located(list, directory) =
         [i \in 1 .. Len(list) |-> [list[i] EXCEPT !.location = Resolve(@, directory)]]
  BY DEF Located, EachPatch
<1> DEFINE r == Located(list, directory)
<1>2. DOMAIN r = 1 .. Len(list) /\ r = [i \in 1 .. Len(list) |-> r[i]]
  BY <1>1
<1> HIDE DEF r
<1>3. IsList(r) /\ Len(r) = Len(list)
  BY <1>2, FunctionList
<1> QED BY <1>1, <1>3 DEF r

\* A configuration as SetupsAssumption has it.
Configured(c) ==
    /\ Sources(c.patches) /\ Sources(c.subscriptions)
    /\ \A t \in Range(c.subscriptions) : "patches" \in DOMAIN t /\ Sources(t.patches)

\* A list whose items come from places, with n of them.
Placed(list, n, directory) ==
    /\ n \in Nat /\ DOMAIN list = 1 .. n /\ Len(list) = n /\ IsList(list)
    /\ \A i \in 1 .. n : \E location :
          WellPlaced(location) /\ list[i].location = Resolve(location, directory)

LEMMA PlacedPatches ==
    ASSUME NEW list, NEW directory, Sources(list)
    PROVE  Placed(Located(Normalized(list), directory), Len(list), directory)
<1>1. /\ Len(list) \in Nat /\ DOMAIN list = 1 .. Len(list)
      /\ DOMAIN Normalized(list) = 1 .. Len(list) /\ Len(Normalized(list)) = Len(list)
      /\ \A i \in 1 .. Len(list) :
            /\ "location" \in DOMAIN Normalized(list)[i]
            /\ Normalized(list)[i].location = list[i].location
  BY NormalizedList
<1> DEFINE s == Normalized(list)
           r == Located(s, directory)
<1> HIDE DEF s
<1>2. /\ Len(s) \in Nat /\ DOMAIN s = 1 .. Len(s)
      /\ \A i \in 1 .. Len(s) : "location" \in DOMAIN s[i]
  BY <1>1 DEF s
<1>3. /\ DOMAIN r = 1 .. Len(s) /\ Len(r) = Len(s) /\ IsList(r)
      /\ \A i \in 1 .. Len(s) : r[i].location = Resolve(s[i].location, directory)
  BY <1>2, LocatedList
<1>4. \A i \in 1 .. Len(list) : WellPlaced(list[i].location)
  BY <1>1 DEF Sources, Range
<1> HIDE DEF r
<1>5. Placed(r, Len(list), directory)
  BY <1>1, <1>3, <1>4 DEF Placed, s
<1> QED BY <1>5 DEF r, s

\* What resolveSources makes of the two lists.
LEMMA ResolvedParts ==
    ASSUME NEW given, NEW directory
    PROVE  LET l == Located(given.subscriptions, directory)
           IN  Resolved(given, directory) =
                  [patches |-> Located(given.patches, directory),
                   subscriptions |-> [i \in 1 .. Len(l) |->
                       [l[i] EXCEPT !.patches = Located(@, directory)]]]
BY DEF Resolved, Located, EachPatch

\* setDefaults and resolveSources keep the shape of a configuration.
LEMMA ResolvedConfig ==
    ASSUME NEW c, NEW directory, Configured(c)
    PROVE  LET r == Resolved(WithDefaults(c), directory)
               n == Len(c.subscriptions)
           IN  /\ Placed(r.patches, Len(c.patches), directory)
               /\ Placed(r.subscriptions, n, directory)
               /\ \A i \in 1 .. n :
                     Placed(r.subscriptions[i].patches, Len(c.subscriptions[i].patches), directory)
<1> DEFINE n == Len(c.subscriptions)
           d == [i \in 1 .. n |-> [c.subscriptions[i] EXCEPT !.patches = Normalized(@)]]
           l == Located(d, directory)
           r == [i \in 1 .. Len(l) |-> [l[i] EXCEPT !.patches = Located(@, directory)]]
<1>1. WithDefaults(c) = [patches |-> Normalized(c.patches), subscriptions |-> d]
  BY DEF WithDefaults, Normalized, EachPatch
<1>2. Resolved(WithDefaults(c), directory) =
         [patches |-> Located(Normalized(c.patches), directory), subscriptions |-> r]
  <2> DEFINE w == WithDefaults(c)
  <2>1. w.patches = Normalized(c.patches) /\ w.subscriptions = d
    BY <1>1
  <2> HIDE DEF w, d
  <2> QED BY <2>1, ResolvedParts DEF w
<1>3. n \in Nat /\ DOMAIN c.subscriptions = 1 .. n
  BY DEF Configured, Sources
<1>4. \A i \in 1 .. n :
         /\ {"location", "patches"} \subseteq DOMAIN c.subscriptions[i]
         /\ WellPlaced(c.subscriptions[i].location) /\ Sources(c.subscriptions[i].patches)
  BY <1>3 DEF Configured, Sources, Range
<1>5. /\ DOMAIN d = 1 .. n /\ Len(d) = n
      /\ \A i \in 1 .. n :
            /\ {"location", "patches"} \subseteq DOMAIN d[i]
            /\ d[i].location = c.subscriptions[i].location
            /\ d[i].patches = Normalized(c.subscriptions[i].patches)
  BY <1>3, <1>4
<1> HIDE DEF d
<1>6. /\ DOMAIN l = 1 .. n /\ Len(l) = n
      /\ \A i \in 1 .. n :
            /\ {"location", "patches"} \subseteq DOMAIN l[i]
            /\ l[i].location = Resolve(d[i].location, directory)
            /\ l[i].patches = d[i].patches
  <2>1. /\ Len(d) \in Nat /\ DOMAIN d = 1 .. Len(d)
        /\ \A i \in 1 .. Len(d) : "location" \in DOMAIN d[i]
    BY <1>3, <1>5
  <2>2. /\ DOMAIN l = 1 .. Len(d) /\ Len(l) = Len(d)
        /\ \A i \in 1 .. Len(d) :
              /\ DOMAIN l[i] = DOMAIN d[i]
              /\ l[i].location = Resolve(d[i].location, directory)
              /\ "patches" \in DOMAIN d[i] => l[i].patches = d[i].patches
    BY <2>1, LocatedList
  <2> HIDE DEF l
  <2> QED BY <1>5, <2>2
<1> HIDE DEF l
<1>7. /\ DOMAIN r = 1 .. n /\ Len(r) = n
      /\ \A i \in 1 .. n :
            /\ r[i].location = Resolve(c.subscriptions[i].location, directory)
            /\ r[i].patches = Located(Normalized(c.subscriptions[i].patches), directory)
  BY <1>3, <1>5, <1>6
<1>8. r = [i \in 1 .. n |-> r[i]]
  BY <1>6
<1> HIDE DEF r
<1>9. IsList(r)
  BY <1>3, <1>7, <1>8, FunctionList
<1>10. Placed(r, n, directory)
  BY <1>3, <1>4, <1>7, <1>9 DEF Placed
<1>11. \A i \in 1 .. n : Placed(r[i].patches, Len(c.subscriptions[i].patches), directory)
  BY <1>4, <1>7, PlacedPatches
<1>12. Placed(Located(Normalized(c.patches), directory), Len(c.patches), directory)
  BY PlacedPatches DEF Configured
<1> QED BY <1>2, <1>10, <1>11, <1>12

\* What LoadConfig accepts has valid locations only, though it validates what
\* the locations have become.
LEMMA LoadedConfig ==
    ASSUME NEW given, NEW directory, Configured(given),
           NEW c \in LoadConfig(given, directory), NEW source \in AllSources(c)
    PROVE  /\ source.location \notin {None, StandardInput}
           /\ \E location :
                 WellPlaced(location) /\ source.location = Resolve(location, directory)
<1>1. c = Resolved(WithDefaults(given), directory) /\ Valid(c)
  BY DEF LoadConfig
<1> DEFINE n == Len(given.subscriptions)
<1>2. /\ Placed(c.patches, Len(given.patches), directory)
      /\ Placed(c.subscriptions, n, directory)
      /\ \A i \in 1 .. n :
            Placed(c.subscriptions[i].patches, Len(given.subscriptions[i].patches), directory)
  BY <1>1, ResolvedConfig
<1>3. \E list, m : Placed(list, m, directory) /\ \E i \in 1 .. m : 
         source = list[i] /\ ValidSource(list[i])
  <2>1. CASE source \in Range(c.patches)
    <3>1. PICK i \in 1 .. Len(given.patches) : source = c.patches[i]
      BY <1>2, <2>1 DEF Placed, Range
    <3>2. ValidSource(c.patches[i])
      BY <1>1, <1>2 DEF Placed, Valid, ValidPatches
    <3> QED BY <1>2, <3>1, <3>2
  <2>2. CASE source \in Range(c.subscriptions)
    <3>1. PICK i \in 1 .. n : source = c.subscriptions[i]
      BY <1>2, <2>2 DEF Placed, Range
    <3>2. ValidSource(c.subscriptions[i])
      BY <1>1, <1>2 DEF Placed, Valid
    <3> QED BY <1>2, <3>1, <3>2
  <2>3. CASE \E t \in Range(c.subscriptions) : source \in Range(t.patches)
    <3>1. PICK i \in 1 .. n : source \in Range(c.subscriptions[i].patches)
      BY <1>2, <2>3 DEF Placed, Range
    <3>2. ValidPatches(c.subscriptions[i].patches)
      BY <1>1, <1>2 DEF Placed, Valid
    <3> QED BY <1>2, <3>1, <3>2 DEF Placed, Range, ValidPatches
  <2> QED BY <2>1, <2>2, <2>3 DEF AllSources
<1> QED BY <1>3 DEF Placed, ValidSource

\* The setup stays, and the configuration is what LoadConfig accepted.
ConfigInv ==
    setup \in Setups /\ config \subseteq LoadConfig(setup.config, setup.directory)

LEMMA StepConfig == ConfigInv /\ [Next]_vars => ConfigInv'
<1> SUFFICES ASSUME ConfigInv, [Next]_vars PROVE ConfigInv'
  OBVIOUS
<1>1. CASE Configure
  BY <1>1 DEF Configure, ConfigInv
<1>2. CASE ~Configure
  <2>1. UNCHANGED <<setup, config>>
    BY <1>2
    DEF Next, Register, Request, Decode, DecodeLines, Decoded, ApplyGlobal, ApplyLocal,
        ApplyPatches, StartEncoding, EncodeDocument, Encoded, Finished, vars
  <2> QED BY <2>1 DEF ConfigInv
<1> QED BY <1>1, <1>2

\* LoadConfig: no path, resolved, can be that of standard input, and none is
\* relative when the file of the configuration has a path from the root.
THEOREM SourcesAreAlwaysFiles == Spec => []SourcesAreFiles
<1>1. Init => ConfigInv
  BY DEF Init, ConfigInv
<1>2. ConfigInv => SourcesAreFiles
  <2> SUFFICES ASSUME ConfigInv, NEW c \in config, NEW source \in AllSources(c)
               PROVE  /\ source.location \notin {None, StandardInput}
                      /\ setup.directory.from = "root" => source.location.from \in {"root", "url"}
    BY DEF SourcesAreFiles
  <2>1. Configured(setup.config)
    BY SetupsAssumption DEF ConfigInv, Configured, Sources, WellPlaced, AllSources
  <2>2. /\ source.location \notin {None, StandardInput}
        /\ \E location :
              WellPlaced(location) /\ source.location = Resolve(location, setup.directory)
    BY <2>1, LoadedConfig DEF ConfigInv
  <2> QED BY <2>2, ResolvedPlace
<1> QED BY <1>1, <1>2, StepConfig, PTL DEF Spec

--------------------------------------------------------------------------------
(* The nodes of a subscription have names of their own. *)

\* All names that the URIs of a setup may ask for.
AskedNames == {Asking(uri) : uri \in UNION {Range(text.lines) : text \in
             UNION {Range(s.texts) : s \in Setups}}}

\* A name with a number tells both.
CountsTell ==
    \A n, m \in AskedNames, i, j \in Nat : Counted(n, i) = Counted(m, j) => n = m /\ i = j

\* The names given so far are those asked for, with all numbers up to used.
GivenNames ==
    /\ \A n \in DOMAIN used :
          used[n] \in 1 .. line /\ \E i \in 1 .. line : n = Asking(lines[i])
    /\ \A k \in 1 .. Len(nodes) :
          \E n \in DOMAIN used : \E c \in 1 .. used[n] : nodes[k].name = UniqueName(n, c)

Undecoded == {"configure", "register", "request", "decode"}

DecoderInv ==
    /\ setup \in Setups
    /\ stage \in Undecoded => IdleDecoder
    /\ \E S : nodes \in Seq(S)
    /\ Len(lines) \in Nat /\ line \in 0 .. Len(lines)
    /\ \A i \in 1 .. Len(lines) : Asking(lines[i]) \in AskedNames
    /\ GivenNames
    /\ CountsTell => NodesNamedOnce

LEMMA InitDecoder == Init => DecoderInv
<1> SUFFICES ASSUME Init PROVE DecoderInv
  OBVIOUS
<1>1. setup \in Setups /\ IdleDecoder
  BY DEF Init
<1>2. nodes \in Seq({}) /\ Len(nodes) = 0 /\ Len(lines) = 0 /\ line = 0 /\ DOMAIN used = {}
  BY <1>1 DEF IdleDecoder
<1> QED BY <1>1, <1>2 DEF DecoderInv, GivenNames, NodesNamedOnce

\* A text is begun.
LEMMA DecodeDecoder == ASSUME DecoderInv, Decode PROVE DecoderInv'
<1>1. /\ setup' = setup /\ setup \in Setups
      /\ nodes = <<>> /\ lines = <<>> /\ line = 0 /\ DOMAIN used = {}
  BY DEF DecoderInv, Decode, Undecoded, IdleDecoder
<1>2. CASE UNCHANGED decoderVars
  <2>1. stage' \notin Undecoded
    <3>1. CASE \E text \in Loaded(Source.location) : Chosen(text) = {"base64"}
      BY <3>1 DEF Decode, Undecoded
    <3>2. CASE ~\E text \in Loaded(Source.location) : Chosen(text) = {"base64"}
      BY <3>2 DEF Decode, Answered, Undecoded
    <3> QED BY <3>1, <3>2
  <2> QED BY <1>1, <1>2, <2>1
    DEF DecoderInv, GivenNames, NodesNamedOnce, NamesTell, decoderVars
<1>3. CASE ~UNCHANGED decoderVars
  <2>1. /\ \E text \in Loaded(Source.location) : Chosen(text) = {"base64"}
        /\ StartDecoding(The(Loaded(Source.location)))
        /\ stage' = "decoding"
    BY <1>3 DEF Decode
  <2>2. PICK text \in Range(setup.texts) : Loaded(Source.location) = {text}
    BY <2>1 DEF Loaded, Range
  <2>3. /\ lines' = text.lines
        /\ UNCHANGED <<line, used, nodes>>
    BY <2>1, <2>2 DEF StartDecoding, The
  <2>4. text.lines \in Seq(Range(text.lines))
    BY <1>1, <2>2, SetupsAssumption
  <2>5. Len(lines') \in Nat /\ \A i \in 1 .. Len(lines') : lines'[i] \in Range(text.lines)
    BY <2>3, <2>4
  <2>6. \A i \in 1 .. Len(lines') : Asking(lines'[i]) \in AskedNames
    BY <1>1, <2>2, <2>5 DEF AskedNames
  <2>7. nodes' \in Seq({}) /\ Len(nodes') = 0 /\ DOMAIN used' = {} /\ line' = 0
    BY <1>1, <2>3
  <2>8. setup' \in Setups /\ stage' \notin Undecoded
    BY <1>1, <2>1 DEF Undecoded
  <2> QED BY <2>5, <2>6, <2>7, <2>8 DEF DecoderInv, GivenNames, NodesNamedOnce
<1> QED BY <1>2, <1>3

\* The name that uniqueNodeName gives is new.
LEMMA NewName ==
    ASSUME CountsTell, DecoderInv, NamesTell, line < Len(lines),
           NEW n \in DOMAIN used, NEW c \in 1 .. used[n]
    PROVE  LET name == Asking(lines[line + 1])
           IN  UniqueName(n, c) # UniqueName(name, Count(name) + 1)
<1> DEFINE name == Asking(lines[line + 1])
<1>1. /\ line \in Nat /\ Len(lines) \in Nat /\ line + 1 \in 1 .. Len(lines)
      /\ used[n] \in 1 .. line
  BY DEF DecoderInv, GivenNames
<1>2. PICK i \in 1 .. line : n = Asking(lines[i])
  BY DEF DecoderInv, GivenNames
<1>3. Count(name) \in 0 .. line /\ (Count(name) = 0 => name \notin DOMAIN used)
  BY <1>1 DEF DecoderInv, GivenNames, Count
<1>4. n \in AskedNames /\ name \in AskedNames /\ c \in Nat \ {0} /\ i \in 1 .. Len(lines)
  BY <1>1, <1>2 DEF DecoderInv
<1>5. CASE c = 1 /\ Count(name) = 0
  BY <1>3, <1>5 DEF UniqueName
<1>6. CASE c = 1 /\ Count(name) # 0
  <2>1. Count(name) \in 1 .. Len(lines)
    BY <1>1, <1>3, <1>6
  <2>2. n # Counted(name, Count(name) + 1)
    BY <1>1, <1>2, <1>4, <2>1 DEF NamesTell
  <2> QED BY <1>3, <1>6, <2>2 DEF UniqueName
<1>7. CASE c # 1 /\ Count(name) = 0
  <2>1. c - 1 \in 1 .. Len(lines) /\ c = (c - 1) + 1
    BY <1>1, <1>4, <1>7
  <2>2. name # Counted(n, c)
    BY <1>1, <1>2, <1>4, <2>1 DEF NamesTell
  <2> QED BY <1>7, <2>2 DEF UniqueName
<1>8. CASE c # 1 /\ Count(name) # 0
  <2>1. n = name => c # Count(name) + 1
    BY <1>1 DEF Count
  <2>2. Counted(n, c) # Counted(name, Count(name) + 1)
    BY <1>3, <1>4, <2>1 DEF CountsTell
  <2> QED BY <1>3, <1>8, <2>2 DEF UniqueName
<1> QED BY <1>3, <1>5, <1>6, <1>7, <1>8

LEMMA DecodeLineDecoder == ASSUME DecoderInv, DecodeLine, UNCHANGED <<setup, stage>>
                           PROVE  DecoderInv'
<1> DEFINE uri == lines[line + 1]
           name == Asking(uri)
<1>1. /\ setup' \in Setups /\ stage' = stage /\ lines' = lines /\ line' = line + 1
      /\ line \in Nat /\ Len(lines) \in Nat /\ line < Len(lines)
      /\ line' \in 0 .. Len(lines')
  BY DEF DecoderInv, DecodeLine
<1>2. \A i \in 1 .. Len(lines') : Asking(lines'[i]) \in AskedNames
  BY <1>1 DEF DecoderInv
<1>3. stage' \notin Undecoded
  BY <1>1 DEF DecoderInv, DecodeLine, IdleDecoder
<1>4. CASE ~Usable(uri)
  <2>1. used' = used /\ nodes' = nodes
    BY <1>4 DEF DecodeLine
  <2>2. \A n \in DOMAIN used' :
           used'[n] \in 1 .. line' /\ \E i \in 1 .. line' : n = Asking(lines'[i])
    BY <1>1, <2>1 DEF DecoderInv, GivenNames
  <2>3. GivenNames'
    BY <2>1, <2>2 DEF DecoderInv, GivenNames, UniqueName
  <2> QED BY <1>1, <1>2, <1>3, <2>1, <2>3 DEF DecoderInv, NodesNamedOnce, NamesTell
<1>5. CASE Usable(uri)
  <2> DEFINE new == UniqueName(name, Count(name) + 1)
             node == [name |-> new, by |-> line + 1,
                      supported |-> uri.scheme = "vless" => uri.plain, named |-> uri.named]
  <2>1. /\ used' = [n \in DOMAIN used \cup {name} |->
                       IF n = name THEN Count(name) + 1 ELSE used[n]]
        /\ nodes' = Append(nodes, node)
    BY <1>5 DEF DecodeLine
  <2>2. Count(name) \in 0 .. line /\ (name \in DOMAIN used => Count(name) = used[name])
    BY <1>1 DEF DecoderInv, GivenNames, Count
  <2>3. /\ \A n \in DOMAIN used' : used'[n] \in 1 .. line'
        /\ \A n \in DOMAIN used : n \in DOMAIN used' /\ used'[n] \in Nat /\ used[n] <= used'[n]
        /\ name \in DOMAIN used' /\ used'[name] = Count(name) + 1
    BY <1>1, <2>1, <2>2 DEF DecoderInv, GivenNames
  <2>4. \A n \in DOMAIN used' : \E i \in 1 .. line' : n = Asking(lines'[i])
    <3>1. line + 1 \in 1 .. line' /\ 1 .. line \subseteq 1 .. line'
      BY <1>1
    <3> QED BY <1>1, <2>1, <3>1 DEF DecoderInv, GivenNames
  <2>5. PICK S : nodes \in Seq(S)
    BY DEF DecoderInv
  <2> HIDE DEF node
  <2>6. /\ nodes' \in Seq(S \cup {node}) /\ Len(nodes) \in Nat /\ Len(nodes') = Len(nodes) + 1
        /\ \A k \in 1 .. Len(nodes) : nodes'[k] = nodes[k]
        /\ nodes'[Len(nodes) + 1] = node
    <3>1. nodes \in Seq(S \cup {node}) /\ node \in S \cup {node}
      BY <2>5
    <3> QED BY <2>1, <3>1
  <2>7. node.name = new
    BY DEF node
  <2>8. ASSUME NEW k \in 1 .. Len(nodes')
        PROVE  \E n \in DOMAIN used' : \E c \in 1 .. used'[n] : nodes'[k].name = UniqueName(n, c)
    <3>1. CASE k \in 1 .. Len(nodes)
      <4>1. PICK n \in DOMAIN used : \E c \in 1 .. used[n] : nodes[k].name = UniqueName(n, c)
        BY <3>1 DEF DecoderInv, GivenNames
      <4>2. used[n] \in Nat
        BY <1>1 DEF DecoderInv, GivenNames
      <4>3. n \in DOMAIN used' /\ 1 .. used[n] \subseteq 1 .. used'[n]
        BY <2>3, <4>2
      <4> QED BY <2>6, <3>1, <4>1, <4>3
    <3>2. CASE k = Len(nodes) + 1
      <4>1. Count(name) + 1 \in 1 .. used'[name]
        BY <1>1, <2>2, <2>3
      <4> QED BY <2>3, <2>6, <2>7, <3>2, <4>1
    <3> QED BY <2>6, <3>1, <3>2
  <2>9. GivenNames'
    BY <2>3, <2>4, <2>8 DEF GivenNames, UniqueName
  <2>10. ASSUME CountsTell, NamesTell, NEW k \in 1 .. Len(nodes) PROVE nodes[k].name # new
    <3>1. PICK n \in DOMAIN used : \E c \in 1 .. used[n] : nodes[k].name = UniqueName(n, c)
      BY DEF DecoderInv, GivenNames
    <3> QED BY <1>1, <2>10, <3>1, NewName
  <2>11. ASSUME CountsTell PROVE NodesNamedOnce'
    <3> SUFFICES ASSUME NamesTell', NEW i \in 1 .. Len(nodes'), NEW j \in 1 .. Len(nodes'),
                        nodes'[i].name = nodes'[j].name
                 PROVE  i = j
      BY DEF NodesNamedOnce
    <3>1. NamesTell
      BY <1>1 DEF NamesTell, Asking
    <3>2. /\ i \in 1 .. Len(nodes) \/ i = Len(nodes) + 1
          /\ j \in 1 .. Len(nodes) \/ j = Len(nodes) + 1
      BY <2>6
    <3>3. CASE i \in 1 .. Len(nodes) /\ j \in 1 .. Len(nodes)
      BY <2>6, <2>11, <3>1, <3>3 DEF DecoderInv, NodesNamedOnce
    <3>4. CASE i = Len(nodes) + 1 \/ j = Len(nodes) + 1
      BY <2>6, <2>7, <2>10, <2>11, <3>1, <3>2, <3>4
    <3> QED BY <3>2, <3>3, <3>4
  <2> QED BY <1>1, <1>2, <1>3, <2>6, <2>9, <2>11 DEF DecoderInv
<1> QED BY <1>4, <1>5

\* Nothing else changes what the decoder holds, and no step returns to before it.
LEMMA OtherDecoder ==
    ASSUME DecoderInv, UNCHANGED <<setup, lines, line, used, nodes>>,
           stage' \in Undecoded => stage \in Undecoded /\ UNCHANGED decoderVars
    PROVE  DecoderInv'
<1>1. GivenNames' /\ (CountsTell => NodesNamedOnce')
  BY DEF DecoderInv, GivenNames, UniqueName, NodesNamedOnce, NamesTell, Asking
<1>2. stage' \in Undecoded => IdleDecoder'
  BY DEF DecoderInv, IdleDecoder, decoderVars
<1> QED BY <1>1, <1>2 DEF DecoderInv

LEMMA StepDecoder == DecoderInv /\ [Next]_vars => DecoderInv'
<1> SUFFICES ASSUME DecoderInv, [Next]_vars PROVE DecoderInv'
  OBVIOUS
<1>1. CASE Decode
  BY <1>1, DecodeDecoder
<1>2. CASE DecodeLines
  <2>1. stage = "decoding" /\ UNCHANGED <<setup, stage>>
    BY <1>2 DEF DecodeLines
  <2>2. CASE DecodeLine
    BY <2>1, <2>2, DecodeLineDecoder
  <2>3. CASE EndOfLines
    BY <2>1, <2>3, OtherDecoder DEF EndOfLines, Undecoded
  <2> QED BY <1>2, <2>2, <2>3 DEF DecodeLines, DecodeText
<1>3. CASE Configure \/ Register \/ Request
  <2>1. UNCHANGED decoderVars /\ setup' = setup /\ stage \in Undecoded
    BY <1>3 DEF Configure, Register, Request, Undecoded
  <2> QED BY <2>1, OtherDecoder DEF decoderVars
<1>4. CASE Decoded \/ ApplyGlobal \/ ApplyLocal \/ StartEncoding \/ EncodeDocument \/ Encoded
           \/ Finished \/ UNCHANGED vars
  <2>1. UNCHANGED decoderVars /\ setup' = setup
    BY <1>4
    DEF Decoded, ApplyGlobal, ApplyLocal, ApplyPatches, StartEncoding, EncodeDocument, Encoded,
        Finished, vars
  <2>2. stage' \in Undecoded => stage \in Undecoded
    BY <1>4
    DEF Decoded, ApplyGlobal, ApplyLocal, ApplyPatches, StartEncoding, EncodeDocument, Encoded,
        Finished, Answered, Undecoded, vars
  <2> QED BY <2>1, <2>2, OtherDecoder DEF decoderVars
<1> QED BY <1>1, <1>2, <1>3, <1>4 DEF Next

\* uniqueNodeName: when no URI is called as the number of another would make it,
\* each node has a name of its own.
THEOREM NodesAreNamedOnce == CountsTell => (Spec => []NodesNamedOnce)
<1> SUFFICES ASSUME CountsTell PROVE Spec => []NodesNamedOnce
  OBVIOUS
<1>1. DecoderInv /\ [Next]_vars => DecoderInv'
  BY StepDecoder
<1>2. DecoderInv => NodesNamedOnce
  BY DEF DecoderInv
<1> QED BY <1>1, <1>2, InitDecoder, PTL DEF Spec

--------------------------------------------------------------------------------
(* Which codec is detected. *)

\* The codec that claims most so far, after the first n of codecs that claim p.
Claiming(p, best, c) == Better(best, c, p[c])

BestSoFar(p, s, n, best) ==
    /\ DOMAIN best = {"codec", "claim", "count"}
    /\ best.claim \in Nat /\ best.count \in Nat
    /\ \A i \in 1 .. n : p[s[i]] <= best.claim
    /\ best.claim = 0 => best.codec = {} /\ best.count = 0
    /\ best.claim # 0 => best.count # 0
    /\ best.count = 1 =>
          \E i \in 1 .. n :
             /\ p[s[i]] = best.claim /\ best.codec = {s[i]}
             /\ \A j \in 1 .. n : p[s[j]] = best.claim => j = i
    /\ best.count > 1 =>
          \E i, j \in 1 .. n : i # j /\ p[s[i]] = best.claim /\ p[s[j]] = best.claim

ClaimsMost(p, base, s, n, best) == BestSoFar(p, s, n, best)

\* The loop of Detect.
BestOf(p, s) ==
    FoldLeft(LAMBDA b, c : Better(b, c, p[c]), [codec |-> {}, claim |-> 0, count |-> 0], s)

F == INSTANCE FoldInduction WITH Op <- Claiming, J <- ClaimsMost

LEMMA BestStep ==
    ASSUME NEW p, NEW s, NEW n \in Nat, NEW best, BestSoFar(p, s, n, best),
           \A i \in 1 .. n + 1 : p[s[i]] \in Nat
    PROVE  BestSoFar(p, s, n + 1, Claiming(p, best, s[n + 1]))
<1> DEFINE c == s[n + 1]
           next == Claiming(p, best, c)
<1>0. /\ \A i \in 1 .. n + 1 : i \in 1 .. n \/ i = n + 1
      /\ n + 1 \in 1 .. n + 1 /\ \A i \in 1 .. n : i \in 1 .. n + 1 /\ i # n + 1
  OBVIOUS
<1>1. CASE p[c] > best.claim
  <2>1. next = [codec |-> {c}, claim |-> p[c], count |-> 1]
    BY <1>1 DEF Claiming, Better
  <2> HIDE DEF next
  <2>2. \A i \in 1 .. n : p[s[i]] <= best.claim
    BY DEF BestSoFar
  <2>3. best.claim \in Nat /\ p[c] \in Nat /\ p[c] # 0
    BY <1>0, <1>1 DEF BestSoFar
  <2>4. ASSUME NEW j \in 1 .. n PROVE p[s[j]] <= p[c] /\ p[s[j]] # p[c]
    <3>1. p[s[j]] <= best.claim /\ p[s[j]] \in Nat
      BY <1>0, <2>2
    <3> QED BY <1>1, <2>3, <3>1
  <2>5. \A j \in 1 .. n + 1 : p[s[j]] <= p[c] /\ (p[s[j]] = p[c] => j = n + 1)
    BY <1>0, <2>3, <2>4
  <2>6. \E i \in 1 .. n + 1 :
           /\ p[s[i]] = next.claim /\ next.codec = {s[i]}
           /\ \A j \in 1 .. n + 1 : p[s[j]] = next.claim => j = i
    <3>1. p[s[n + 1]] = next.claim /\ next.codec = {s[n + 1]}
      BY <2>1
    <3>2. \A j \in 1 .. n + 1 : p[s[j]] = next.claim => j = n + 1
      BY <2>1, <2>5
    <3> QED BY <1>0, <3>1, <3>2
  <2>7. /\ DOMAIN next = {"codec", "claim", "count"} /\ next.claim = p[c] /\ next.count = 1
        /\ \A i \in 1 .. n + 1 : p[s[i]] <= next.claim
    BY <2>1, <2>5
  <2> HIDE DEF c
  <2>8. next.claim \in Nat /\ next.claim # 0 /\ next.count \in Nat /\ ~(next.count > 1)
        /\ next.count # 0
    BY <2>3, <2>7
  <2>9. BestSoFar(p, s, n + 1, next)
    BY <2>6, <2>7, <2>8 DEF BestSoFar
  <2> QED BY <2>9 DEF next, c
<1>2. CASE ~(p[c] > best.claim) /\ p[c] # 0 /\ p[c] = best.claim
  <2>1. next = [best EXCEPT !.count = @ + 1]
    BY <1>2 DEF Claiming, Better
  <2>2. /\ DOMAIN next = {"codec", "claim", "count"} /\ next.claim = best.claim
        /\ next.count = best.count + 1 /\ next.codec = best.codec
    BY <2>1 DEF BestSoFar
  <2> HIDE DEF next
  <2>3. best.count \in Nat /\ best.count # 0 /\ best.claim \in Nat /\ best.claim # 0
    BY <1>2 DEF BestSoFar
  <2>4. \E i \in 1 .. n : p[s[i]] = best.claim
    <3>1. CASE best.count = 1
      BY <3>1 DEF BestSoFar
    <3>2. CASE best.count > 1
      BY <3>2 DEF BestSoFar
    <3> QED BY <2>3, <3>1, <3>2
  <2>5. \E i, j \in 1 .. n + 1 : i # j /\ p[s[i]] = best.claim /\ p[s[j]] = best.claim
    BY <1>0, <1>2, <2>4
  <2>6. \A j \in 1 .. n + 1 : p[s[j]] <= best.claim
    BY <1>0, <1>2, <2>3 DEF BestSoFar
  <2>7. next.count # 1 /\ next.count \in Nat /\ next.count # 0
    BY <2>2, <2>3
  <2>8. BestSoFar(p, s, n + 1, next)
    BY <2>2, <2>3, <2>5, <2>6, <2>7 DEF BestSoFar
  <2> QED BY <2>8 DEF next
<1>3. CASE ~(p[c] > best.claim) /\ ~(p[c] # 0 /\ p[c] = best.claim)
  <2>1. next = best
    BY <1>3 DEF Claiming, Better
  <2> HIDE DEF next
  <2>2. best.claim \in Nat /\ best.count \in Nat /\ p[c] <= best.claim
    BY <1>3 DEF BestSoFar
  <2>3. \A j \in 1 .. n + 1 : p[s[j]] <= best.claim
    BY <1>0, <2>2 DEF BestSoFar
  <2>4. best.claim # 0 => p[c] # best.claim
    BY <1>3, <2>2
  <2>5. ASSUME best.count = 1
        PROVE  \E i \in 1 .. n + 1 :
                  /\ p[s[i]] = best.claim /\ best.codec = {s[i]}
                  /\ \A j \in 1 .. n + 1 : p[s[j]] = best.claim => j = i
    BY <1>0, <2>4, <2>5 DEF BestSoFar
  <2>6. ASSUME best.count > 1
        PROVE  \E i, j \in 1 .. n + 1 : i # j /\ p[s[i]] = best.claim /\ p[s[j]] = best.claim
    BY <1>0, <2>6 DEF BestSoFar
  <2>7. /\ DOMAIN best = {"codec", "claim", "count"}
        /\ best.claim = 0 => best.codec = {} /\ best.count = 0
        /\ best.claim # 0 => best.count # 0
    BY DEF BestSoFar
  <2>8. BestSoFar(p, s, n + 1, best)
    BY <2>2, <2>3, <2>5, <2>6, <2>7 DEF BestSoFar
  <2> QED BY <2>1, <2>8 DEF next
<1> QED BY <1>1, <1>2, <1>3

LEMMA BestOfAll ==
    ASSUME NEW p, NEW s, NEW n \in Nat, DOMAIN s = 1 .. n, \A i \in 1 .. n : p[s[i]] \in Nat
    PROVE  BestSoFar(p, s, n, BestOf(p, s))
<1> DEFINE base == [codec |-> {}, claim |-> 0, count |-> 0]
<1>1. BestSoFar(p, s, 0, base)
  BY DEF BestSoFar
<1>2. ASSUME NEW i \in 1 .. n, NEW r, BestSoFar(p, s, i - 1, r)
      PROVE  BestSoFar(p, s, i, Claiming(p, r, s[i]))
  <2>1. i - 1 \in Nat /\ (i - 1) + 1 = i /\ \A j \in 1 .. i : j \in 1 .. n
    OBVIOUS
  <2> QED BY <1>2, <2>1, BestStep
<1>3. BestSoFar(p, s, n, F!Fold(p, base, s))
  <2> HIDE DEF base
  <2>1. ClaimsMost(p, base, s, 0, base)
    BY <1>1 DEF ClaimsMost
  <2>2. \A i \in 1 .. n : \A r : ClaimsMost(p, base, s, i - 1, r) =>
            ClaimsMost(p, base, s, i, Claiming(p, r, s[i]))
    BY <1>2 DEF ClaimsMost
  <2>3. ClaimsMost(p, base, s, n, F!Fold(p, base, s))
    BY <2>1, <2>2, F!FoldKeeps
  <2> QED BY <2>3 DEF ClaimsMost
<1>4. BestOf(p, s) = F!Fold(p, base, s)
  BY DEF BestOf, FoldLeft, MapThenFoldSet, Max, F!Fold, Claiming
<1> QED BY <1>3, <1>4

\* The codecs registered are a list, and each is what its format stands for
\* unless a later one of that format is.
RegistryInv ==
    /\ setup \in Setups /\ IsList(registered)
    /\ \A c \in Range(registered) :
          /\ FormatKey(c) \in DOMAIN codecs
          /\ codecs[FormatKey(c)] \in Range(registered)
          /\ FormatKey(codecs[FormatKey(c)]) = FormatKey(c)
          /\ FormatKey(c) \notin {"mihomo", "singbox"}

OrderFree == \A claims \in Claims : Detect(claims) = Detected(claims)

LEMMA DetectsTheMost == IsList(registered) => OrderFree
<1> SUFFICES ASSUME IsList(registered), NEW claims \in Claims
             PROVE  Detect(claims) = Detected(claims)
  BY DEF OrderFree
<1> DEFINE n == Len(registered)
           best == BestOf(claims, registered)
           most == {i \in 1 .. n :
                      /\ claims[registered[i]] # 0
                      /\ \A j \in 1 .. n : claims[registered[j]] <= claims[registered[i]]}
<1>1. n \in Nat /\ DOMAIN registered = 1 .. n
  BY DEF IsList
<1>2. \A i \in 1 .. n : claims[registered[i]] \in 0 .. 3
  BY <1>1 DEF Claims, Range
<1>3. BestSoFar(claims, registered, n, best)
  BY <1>1, <1>2, BestOfAll
<1>4. Detect(claims) = IF best.count > 1 THEN {} ELSE best.codec
  BY DEF Detect, BestOf
<1>5. Detected(claims) = IF Cardinality(most) = 1 THEN {registered[i] : i \in most} ELSE {}
  BY DEF Detected
<1> HIDE DEF best
<1>6. best.claim \in Nat /\ best.count \in Nat
  BY <1>3 DEF BestSoFar
<1>10. IsFiniteSet(most)
  <2>1. most \in SUBSET (1 .. n) /\ 1 \in Int /\ n \in Int
    BY <1>1
  <2> HIDE DEF most, n
  <2> QED BY <2>1, FS_Interval, FS_Subset
<1>7. CASE best.count = 1
  <2>1. PICK i \in 1 .. n : /\ claims[registered[i]] = best.claim /\ best.codec = {registered[i]}
                            /\ \A j \in 1 .. n : claims[registered[j]] = best.claim => j = i
    BY <1>3, <1>7 DEF BestSoFar
  <2>2. best.claim # 0 /\ \A j \in 1 .. n : claims[registered[j]] <= best.claim
    BY <1>3, <1>7 DEF BestSoFar
  <2>3. i \in most
    BY <2>1, <2>2
  <2>4. ASSUME NEW j \in most PROVE j = i
    <3>1. j \in 1 .. n /\ best.claim <= claims[registered[j]] /\ claims[registered[j]] <= best.claim
      BY <2>1, <2>2
    <3> QED BY <1>2, <1>6, <2>1, <3>1
  <2>5. most = {i}
    BY <2>3, <2>4
  <2> HIDE DEF most
  <2>6. Cardinality(most) = 1
    BY <2>5, FS_Singleton
  <2> QED BY <1>4, <1>5, <1>7, <2>1, <2>5, <2>6
<1>8. CASE best.count = 0
  <2>1. best.claim = 0 /\ best.codec = {}
    BY <1>3, <1>8 DEF BestSoFar
  <2>2. most = {}
    BY <1>2, <1>3, <2>1 DEF BestSoFar
  <2> HIDE DEF most
  <2>3. {registered[i] : i \in most} = {}
    BY <2>2
  <2> QED BY <1>4, <1>5, <1>8, <2>1, <2>3
<1>9. CASE best.count > 1
  <2>1. PICK i \in 1 .. n, j \in 1 .. n :
           i # j /\ claims[registered[i]] = best.claim /\ claims[registered[j]] = best.claim
    BY <1>3, <1>9 DEF BestSoFar
  <2>2. best.claim # 0 /\ \A k \in 1 .. n : claims[registered[k]] <= best.claim
    BY <1>3, <1>6, <1>9 DEF BestSoFar
  <2>3. i \in most /\ j \in most
    BY <2>1, <2>2
  <2> HIDE DEF most
  <2>4. \A x : most # {x}
    BY <2>1, <2>3
  <2>5. Cardinality(most) # 1
    BY <1>10, <2>4, FS_Singleton
  <2> QED BY <1>4, <1>5, <1>9, <2>5
<1> QED BY <1>6, <1>7, <1>8, <1>9

LEMMA InitRegistry == Init => RegistryInv
<1> SUFFICES ASSUME Init PROVE RegistryInv
  OBVIOUS
<1>1. registered = <<>> /\ setup \in Setups
  BY DEF Init, NoCodecs
<1>2. Range(registered) = {} /\ IsList(registered)
  BY <1>1 DEF Range, IsList
<1> QED BY <1>1, <1>2 DEF RegistryInv

LEMMA AppendedList ==
    ASSUME NEW s, IsList(s), NEW c
    PROVE  IsList(Append(s, c)) /\ Range(Append(s, c)) = Range(s) \cup {c}
<1>1. PICK S : s \in Seq(S) /\ S = Range(s)
  BY DEF IsList
<1> DEFINE T == S \cup {c}
           a == Append(s, c)
<1>2. s \in Seq(T) /\ c \in T
  BY <1>1
<1>3. /\ DOMAIN a = 1 .. Len(s) + 1 /\ \A i \in 1 .. Len(s) : a[i] = s[i]
      /\ a[Len(s) + 1] = c /\ DOMAIN s = 1 .. Len(s) /\ Len(s) \in Nat /\ a \in Seq(T)
  BY <1>1, <1>2
<1>4. Range(a) = T
  <2>1. \A i \in DOMAIN a : i \in DOMAIN s \/ i = Len(s) + 1
    BY <1>3
  <2>2. \A i \in DOMAIN s : i \in DOMAIN a
    BY <1>3
  <2>3. Len(s) + 1 \in DOMAIN a
    BY <1>3
  <2> HIDE DEF a
  <2> QED BY <1>1, <1>3, <2>1, <2>2, <2>3 DEF Range
<1> HIDE DEF a
<1> QED BY <1>1, <1>3, <1>4 DEF IsList, a

LEMMA RegisterRegistry ==
    ASSUME RegistryInv, Register PROVE RegistryInv'
<1>1. setup' = setup /\ setup \in Setups /\ IsList(setup.shipped) /\ IsList(registered)
  BY SetupsAssumption DEF Register, RegistryInv
<1>2. CASE Len(registered) < Len(setup.shipped)
  <2> DEFINE c == setup.shipped[Len(registered) + 1]
             k == FormatKey(c)
  <2>1. RegisterCodec(c)
    BY <1>2 DEF Register
  <2>2. c \in Range(setup.shipped)
    <3>1. Len(registered) \in Nat /\ Len(setup.shipped) \in Nat
          /\ DOMAIN setup.shipped = 1 .. Len(setup.shipped)
      BY <1>1 DEF IsList
    <3>2. Len(registered) + 1 \in DOMAIN setup.shipped
      BY <1>2, <3>1
    <3> QED BY <3>2 DEF Range
  <2>3. k \notin {"mihomo", "singbox"}
    BY <1>1, <2>2, SetupsAssumption
  <2> HIDE DEF c
  <2>4. IsList(registered') /\ Range(registered') = Range(registered) \cup {c}
    BY <1>1, <2>1, AppendedList DEF RegisterCodec
  <2>5. /\ DOMAIN codecs' = DOMAIN codecs \cup {k}
        /\ codecs'[k] = c
        /\ \A f \in DOMAIN codecs : f # k => codecs'[f] = codecs[f]
    BY <2>1 DEF RegisterCodec, With
  <2>6. ASSUME NEW d \in Range(registered')
        PROVE  /\ FormatKey(d) \in DOMAIN codecs'
               /\ codecs'[FormatKey(d)] \in Range(registered')
               /\ FormatKey(codecs'[FormatKey(d)]) = FormatKey(d)
               /\ FormatKey(d) \notin {"mihomo", "singbox"}
    <3>1. CASE FormatKey(d) = k
      BY <2>3, <2>4, <2>5, <3>1
    <3>2. CASE FormatKey(d) # k
      <4>1. d \in Range(registered)
        BY <2>4, <3>2
      <4> QED BY <2>4, <2>5, <3>2, <4>1 DEF RegistryInv
    <3> QED BY <3>1, <3>2
  <2> QED BY <1>1, <2>4, <2>6 DEF RegistryInv, FormatKey
<1>3. CASE ~(Len(registered) < Len(setup.shipped))
  <2>1. RegisterDefaults
    BY <1>3 DEF Register
  <2> DEFINE A == Aliased(codecs, "mihomo", "clash")
  <2>2. /\ DOMAIN codecs \subseteq DOMAIN A
        /\ \A f \in DOMAIN codecs : f # "mihomo" => A[f] = codecs[f]
    BY DEF Aliased, With
  <2>3. codecs' = Aliased(A, "singbox", "sing-box") /\ registered' = registered
    BY <2>1 DEF RegisterDefaults
  <2> HIDE DEF A
  <2>4. /\ DOMAIN A \subseteq DOMAIN codecs'
        /\ \A f \in DOMAIN A : f # "singbox" => codecs'[f] = A[f]
    BY <2>3 DEF Aliased, With
  <2>5. ASSUME NEW d \in Range(registered)
        PROVE  FormatKey(d) \in DOMAIN codecs' /\ codecs'[FormatKey(d)] = codecs[FormatKey(d)]
    BY <2>2, <2>4 DEF RegistryInv
  <2> QED BY <1>1, <2>3, <2>5 DEF RegistryInv, FormatKey
<1> QED BY <1>2, <1>3

LEMMA StepRegistry == RegistryInv /\ [Next]_vars => RegistryInv'
<1> SUFFICES ASSUME RegistryInv, [Next]_vars PROVE RegistryInv'
  OBVIOUS
<1>1. CASE Register
  BY <1>1, RegisterRegistry
<1>2. CASE ~Register
  <2>1. UNCHANGED <<setup, registry>>
    BY <1>2
    DEF Next, Configure, Request, Decode, DecodeLines, Decoded, ApplyGlobal, ApplyLocal,
        ApplyPatches, StartEncoding, EncodeDocument, Encoded, Finished, vars
  <2> QED BY <2>1 DEF RegistryInv, registry, FormatKey
<1> QED BY <1>1, <1>2

\* A codec that is detected is what its format stands for.
ReplacedUnseen ==
    \A claims \in Claims : AllAlike(claims) =>
        \A c \in Detect(claims) : Codec(Normal(FormatOf(c))) = {c}

LEMMA DetectsTheCurrent == RegistryInv => ReplacedUnseen
<1> SUFFICES ASSUME RegistryInv, NEW claims \in Claims, AllAlike(claims), NEW c \in Detect(claims)
             PROVE  Codec(Normal(FormatOf(c))) = {c}
  BY DEF ReplacedUnseen
<1> DEFINE n == Len(registered)
           most == {i \in 1 .. n :
                      /\ claims[registered[i]] # 0
                      /\ \A j \in 1 .. n : claims[registered[j]] <= claims[registered[i]]}
<1>1. n \in Nat /\ DOMAIN registered = 1 .. n
  BY DEF RegistryInv, IsList
<1>2. Detected(claims) = IF Cardinality(most) = 1 THEN {registered[i] : i \in most} ELSE {}
  BY DEF Detected
<1>3. Detect(claims) = Detected(claims)
  BY DetectsTheMost DEF RegistryInv, OrderFree
<1>4. IsFiniteSet(most)
  <2>1. most \in SUBSET (1 .. n) /\ 1 \in Int /\ n \in Int
    BY <1>1
  <2> HIDE DEF most, n
  <2> QED BY <2>1, FS_Interval, FS_Subset
<1>5. PICK i : most = {i} /\ c = registered[i]
  <2> HIDE DEF most
  <2>1. Cardinality(most) = 1 /\ c \in {registered[i] : i \in most}
    BY <1>2, <1>3
  <2> QED BY <1>4, <2>1, FS_Singleton
<1>6. /\ i \in 1 .. n /\ claims[c] # 0
      /\ \A j \in 1 .. n : claims[registered[j]] <= claims[c]
  BY <1>5
<1> DEFINE k == FormatKey(c)
           d == codecs[k]
<1>7. c \in Range(registered)
  BY <1>1, <1>5, <1>6 DEF Range
<1>8. k \in DOMAIN codecs /\ d \in Range(registered) /\ FormatKey(d) = k
  BY <1>7 DEF RegistryInv
<1>9. PICK j \in 1 .. n : d = registered[j]
  BY <1>1, <1>8 DEF Range
<1>10. claims[d] = claims[c]
  BY <1>7, <1>8 DEF AllAlike, FormatKey
<1>11. j \in most
  BY <1>6, <1>9, <1>10
<1>12. d = c
  BY <1>5, <1>9, <1>11
<1> HIDE DEF d
<1> QED BY <1>8, <1>12 DEF Codec, FormatKey, d

\* detect: whatever is registered next, the one codec that claims the data most is
\* chosen, and none if two do, in whichever order they were registered.
THEOREM DetectionIsAlwaysOrderFree == Spec => DetectionIsOrderFree
<1>1. RegistryInv => OrderFree
  BY DetectsTheMost DEF RegistryInv
<1>2. Spec => [][registry' # registry => OrderFree']_registry
  BY <1>1, InitRegistry, StepRegistry, PTL DEF Spec
<1> QED BY <1>2 DEF DetectionIsOrderFree, OrderFree

\* RegisterCodec keeps a codec whose format is registered once more in the list,
\* but detect never chooses it while codecs of one format claim alike.
THEOREM ReplacedIsNeverDetected == Spec => ReplacedNeverDetected
<1>1. Spec => [][registry' # registry => ReplacedUnseen']_registry
  BY DetectsTheCurrent, InitRegistry, StepRegistry, PTL DEF Spec
<1> QED BY <1>1 DEF ReplacedNeverDetected, ReplacedUnseen

--------------------------------------------------------------------------------
(* The lists of sources are lists. *)

\* An answer is being made for a request.
Served == stage \in {"decode", "decoding", "global", "local", "encode"} /\ setup.command = "serve"

\* While one is, the configuration and the subscription are there.
ServedInv ==
    /\ ConfigInv
    /\ setup.command = "serve" /\ stage \notin {"configure", "refused"} => config # {}
    /\ Served => Called(setup.name) # {}

\* So it is before anything is configured.
LEMMA InitServed == Init => ServedInv
BY DEF Init, ServedInv, ConfigInv, Served

\* Every step keeps it.
LEMMA StepServed == ServedInv /\ [Next]_vars => ServedInv'
<1> SUFFICES ASSUME ServedInv, [Next]_vars PROVE ServedInv'
  OBVIOUS
<1>1. ConfigInv'
  BY StepConfig DEF ServedInv
<1>2. CASE Configure
  <2>1. stage' \notin {"decode", "decoding", "global", "local", "encode"}
    BY <1>2 DEF Configure
  <2>2. stage' # "refused" => config' # {}
    BY <1>2 DEF Configure
  <2> QED BY <1>1, <2>1, <2>2 DEF ServedInv, Served
<1>3. CASE ~Configure
  <2>1. UNCHANGED <<setup, config>>
    BY <1>3
    DEF Next, Register, Request, Decode, DecodeLines, Decoded, ApplyGlobal, ApplyLocal,
        ApplyPatches, StartEncoding, EncodeDocument, Encoded, Finished, vars
  <2>2. stage' \in {"configure", "refused"} \/ stage \notin {"configure", "refused"}
    BY <1>3
    DEF Next, Register, Request, Decode, DecodeLines, Decoded, ApplyGlobal, ApplyLocal,
        ApplyPatches, StartEncoding, EncodeDocument, Encoded, Finished, vars
  <2>3. Called(setup.name)' = Called(setup.name)
    BY <2>1 DEF Called
  <2>4. setup.command = "serve" /\ stage' \notin {"configure", "refused"} => config' # {}
    BY <2>1, <2>2 DEF ServedInv
  <2>5. CASE Request
    <3>1. stage' = "decode" => Called(setup.name) # {}
      BY <1>3, <2>5 DEF Request, Answered
    <3>2. stage' \in {"decode", "answered"}
      BY <2>5 DEF Request, Answered
    <3> QED BY <1>1, <2>1, <2>3, <2>4, <3>1, <3>2 DEF ServedInv, Served
  <2>6. CASE ~Request
    <3>1. Served' => Served
      <4>1. CASE Register
        BY <2>1, <4>1 DEF Register, Served
      <4> QED BY <1>3, <2>1, <2>6, <4>1
        DEF Next, Decode, DecodeLines, Decoded, ApplyGlobal, ApplyLocal,
            ApplyPatches, StartEncoding, EncodeDocument, Encoded, Finished, vars, Answered, Served
    <3> QED BY <1>1, <2>1, <2>3, <2>4, <3>1 DEF ServedInv
  <2> QED BY <2>5, <2>6
<1> QED BY <1>2, <1>3

\* The sources of the patches for all, and for the one subscription.
Globals == IF setup.command = "convert" THEN <<>> ELSE The(config).patches
Locals == IF setup.command = "convert" THEN <<>> ELSE Subscribed.patches

\* They are lists.
LEMMA SourceLists ==
    ServedInv /\ (Served \/ setup.command = "convert") => IsList(Globals) /\ IsList(Locals)
<1> SUFFICES ASSUME ServedInv, Served \/ setup.command = "convert"
             PROVE  IsList(Globals) /\ IsList(Locals)
  OBVIOUS
<1>1. CASE setup.command = "convert"
  <2>1. IsList(<<>>)
    BY DEF IsList
  <2> QED BY <1>1, <2>1 DEF Globals, Locals
<1>2. CASE setup.command # "convert"
  <2>1. Served
    BY <1>2
  <2>2. setup.command = "serve" /\ stage \notin {"configure", "refused"}
    BY <2>1 DEF Served
  <2> DEFINE c == The(config)
  <2>3. c \in config
    BY <2>2 DEF ServedInv, The
  <2>4. Called(setup.name) # {}
    BY <2>1 DEF ServedInv
  <2>5. setup \in Setups /\ c \in LoadConfig(setup.config, setup.directory)
    BY <2>3 DEF ServedInv, ConfigInv
  <2>6. Configured(setup.config)
    BY <2>5, SetupsAssumption DEF Configured, Sources, WellPlaced, AllSources
  <2>7. c = Resolved(WithDefaults(setup.config), setup.directory)
    BY <2>5 DEF LoadConfig
  <2> HIDE DEF c
  <2> DEFINE n == Len(setup.config.subscriptions)
  <2>8. /\ Placed(c.patches, Len(setup.config.patches), setup.directory)
        /\ Placed(c.subscriptions, n, setup.directory)
        /\ \A i \in 1 .. n : Placed(c.subscriptions[i].patches,
                                   Len(setup.config.subscriptions[i].patches), setup.directory)
    BY <2>6, <2>7, ResolvedConfig
  <2>9. Subscribed \in Range(c.subscriptions)
    BY <2>4 DEF Called, Subscribed, The, c
  <2>10. PICK i \in 1 .. n : Subscribed = c.subscriptions[i]
    BY <2>8, <2>9 DEF Placed, Range
  <2>11. IsList(c.patches) /\ IsList(Subscribed.patches)
    BY <2>8, <2>10 DEF Placed
  <2> QED BY <1>2, <2>11 DEF Globals, Locals, c
<1> QED BY <1>1, <1>2

--------------------------------------------------------------------------------
(* The patches of this program are those that PatchProofs is about. *)

PP == INSTANCE PatchProofs WITH BuiltinPolicies <- Builtin

\* MergeByName of the two instances of Patch.
LEMMA SameMerge == \A base, later : P!MergeByName(base, later) = PP!MergeByName(base, later)
BY DEF P!MergeByName, PP!MergeByName, P!FoldLeft, PP!FoldLeft, P!MapThenFoldSet, PP!MapThenFoldSet,
       P!Max, PP!Max, P!MergeOne, PP!MergeOne, P!Names, PP!Names, P!SelectLastInSeq, PP!SelectLastInSeq

\* The member of an optional field.
LEMMA SameThe == \A o : P!The(o) = PP!The(o)
BY DEF P!The, PP!The

\* The one of two values that is given.
LEMMA SameFirst == \A a, b : P!FirstNonEmpty(a, b) = PP!FirstNonEmpty(a, b)
BY DEF P!FirstNonEmpty, PP!FirstNonEmpty

\* The document that is validated.
LEMMA SameCandidate == ASSUME NEW d, NEW p PROVE P!Candidate(d, p) = PP!Candidate(d, p)
<1>1. CASE p.dns = {}
  BY SameMerge, <1>1 DEF P!Candidate, PP!Candidate
<1>2. CASE p.dns # {}
  BY SameMerge, SameThe, SameFirst, <1>2 DEF P!Candidate, PP!Candidate
<1> QED BY <1>1, <1>2

\* The document after a patch.
LEMMA SameApplied == ASSUME NEW d, NEW p PROVE P!Applied(d, p) = PP!Applied(d, p)
<1>1. P!Candidate(d, p) = PP!Candidate(d, p)
  BY SameCandidate
<1>2. \A x, y : P!Listening(x, y) = PP!Listening(x, y)
  BY DEF P!Listening, PP!Listening
<1>3. CASE p.route
  BY <1>1, <1>2, <1>3, SameMerge, SameThe DEF P!Applied, PP!Applied
<1>4. CASE ~p.route
  BY <1>1, <1>2, <1>4, SameMerge, SameThe DEF P!Applied, PP!Applied
<1> QED BY <1>3, <1>4

\* A patch joined to another.
LEMMA SameCombine == \A p, c : P!Combine(p, c) = PP!Combine(p, c)
BY DEF P!MergeByName, PP!MergeByName, P!FoldLeft, PP!FoldLeft, P!MapThenFoldSet, PP!MapThenFoldSet,
       P!Max, PP!Max, P!MergeOne, PP!MergeOne, P!Names, PP!Names, P!SelectLastInSeq, PP!SelectLastInSeq,
       P!Combine, PP!Combine, P!Override, PP!Override, P!Listening, PP!Listening

\* The inbounds that are accepted.
LEMMA SameInbounds == \A x : P!ValidInbounds(x) <=> PP!ValidInbounds(x)
BY DEF P!ValidInbounds, PP!ValidInbounds, P!ValidInbound, PP!ValidInbound,
       P!UniqueTags, PP!UniqueTags, P!ValidUsers, PP!ValidUsers, P!The, PP!The

\* The names of a list.
LEMMA SameNames == \A x : P!Names(x) = PP!Names(x)
BY DEF P!Names, PP!Names

\* The route sections that are accepted.
LEMMA SameRoute == ASSUME NEW d, NEW p PROVE P!ValidRoute(d, p) <=> PP!ValidRoute(d, p)
<1>1. P!Policies(d) = PP!Policies(d)
  BY SameNames DEF P!Policies, PP!Policies
<1>2. \A x : P!Range(x) = PP!Range(x)
  BY DEF P!Range, PP!Range
<1>3. P!Cardinality(P!Names(p.ruleSets)) = PP!Cardinality(PP!Names(p.ruleSets))
  BY SameNames DEF P!Cardinality, PP!Cardinality, P!IsFiniteSet, PP!IsFiniteSet
<1> QED BY <1>1, <1>2, <1>3, SameNames DEF P!ValidRoute, PP!ValidRoute

\* The patches that are accepted.
LEMMA SameApplicable == ASSUME NEW d, NEW p PROVE P!Applicable(d, p) <=> PP!Applicable(d, p)
BY SameInbounds, SameRoute, SameCandidate DEF P!Applicable, PP!Applicable

\* The empty patch, and what a patch is.
LEMMA SamePatch == P!EmptyPatch = PP!EmptyPatch /\ \A p : P!IsPatch(p) <=> PP!IsPatch(p)
BY DEF P!EmptyPatch, PP!EmptyPatch, P!IsPatch, PP!IsPatch, P!IsList, PP!IsList,
       P!AtMostOne, PP!AtMostOne, P!Range, PP!Range

\* No patches amount to the empty patch.
LEMMA EmptyAmounts == PP!Amounts(P!EmptyPatch, <<>>)
BY PP!NothingToCombine, SamePatch

--------------------------------------------------------------------------------
(* The patch that a sing-box text is taken for. *)

\* Lists and optional fields.
LEMMA SameLists ==
    /\ \A x : P!The(x) = The(x) /\ P!Range(x) = Range(x) /\ (P!IsList(x) <=> IsList(x))
    /\ \A x : PP!Range(x) = Range(x) /\ (PP!IsList(x) <=> IsList(x))
BY DEF P!The, P!Range, P!IsList, PP!Range, PP!IsList, The, Range, IsList

\* What a sing-box text begins its patch with, and what stays so.
Shell(text, p) ==
    /\ DOMAIN p = DOMAIN P!EmptyPatch
    /\ p.inbounds = InboundsOf(text)
    /\ p.dns = {} /\ p.nodes = <<>> /\ p.groups = <<>>

\* A patch with inbounds at most.
Plain(text, p) == Shell(text, p) /\ ~p.route /\ p.rules = <<>> /\ p.ruleSets = <<>> /\ p.final = {}

\* After n of its rule sets.
SetsAdded(text, base, s, n, r) ==
    \A q \in r :
        /\ Shell(text, q) /\ q.route /\ q.rules = <<>> /\ q.final = RouteOf(text).final
        /\ IsList(q.ruleSets) /\ \A set \in Range(q.ruleSets) : IsList(set.codes)

\* After n of its rules.
RulesAdded(text, base, s, n, r) ==
    \A q \in r :
        /\ Shell(text, q) /\ q.route /\ q.final = RouteOf(text).final
        /\ IsList(q.ruleSets) /\ \A set \in Range(q.ruleSets) : IsList(set.codes)
        /\ IsList(q.rules) /\ Len(q.rules) = n
        /\ \A i \in 1 .. n : q.rules[i] = P!DocumentRule(s[i])

DS == INSTANCE FoldInduction WITH Op <- LAMBDA p, r, x : P!AddRuleSet(r, x), J <- SetsAdded
DR == INSTANCE FoldInduction WITH Op <- LAMBDA p, r, x : P!AddRule(r, x), J <- RulesAdded

\* What the empty patch holds.
LEMMA EmptyFields ==
    /\ DOMAIN P!EmptyPatch =
          {"inbounds", "dns", "nodes", "groups", "route", "rules", "ruleSets", "final"}
    /\ P!EmptyPatch.inbounds = {} /\ P!EmptyPatch.dns = {}
    /\ P!EmptyPatch.nodes = <<>> /\ P!EmptyPatch.groups = <<>>
    /\ ~P!EmptyPatch.route /\ P!EmptyPatch.rules = <<>> /\ P!EmptyPatch.ruleSets = <<>>
    /\ P!EmptyPatch.final = {}
BY DEF P!EmptyPatch

\* documentRuleSet keeps the rest of the patch.
LEMMA SetAdded ==
    ASSUME NEW text, NEW base, NEW s, NEW n, NEW m, NEW r, SetsAdded(text, base, s, n, r), NEW x
    PROVE  SetsAdded(text, base, s, m, P!AddRuleSet(r, x))
<1> SUFFICES ASSUME NEW q \in P!AddRuleSet(r, x)
             PROVE  /\ Shell(text, q) /\ q.route /\ q.rules = <<>> /\ q.final = RouteOf(text).final
                    /\ IsList(q.ruleSets) /\ \A set \in Range(q.ruleSets) : IsList(set.codes)
  BY DEF SetsAdded
<1> DEFINE set == P!DocumentRuleSet(x)
<1>1. set.codes = <<>>
  BY DEF P!DocumentRuleSet
<1> HIDE DEF set
<1>2. PICK p \in r : q = [p EXCEPT !.ruleSets = Append(@, set)]
  BY DEF P!AddRuleSet, set
<1>3. /\ Shell(text, p) /\ p.route /\ p.rules = <<>> /\ p.final = RouteOf(text).final
      /\ IsList(p.ruleSets) /\ \A y \in Range(p.ruleSets) : IsList(y.codes)
  BY DEF SetsAdded
<1>4. "ruleSets" \in DOMAIN p
  BY <1>3, EmptyFields DEF Shell
<1>5. /\ DOMAIN q = DOMAIN p /\ q.ruleSets = Append(p.ruleSets, set)
      /\ q.inbounds = p.inbounds /\ q.dns = p.dns /\ q.nodes = p.nodes /\ q.groups = p.groups
      /\ q.route = p.route /\ q.rules = p.rules /\ q.final = p.final
  BY <1>2, <1>4
<1>6. IsList(q.ruleSets) /\ Range(q.ruleSets) = Range(p.ruleSets) \cup {set}
  BY <1>3, <1>5, PP!AppendList, SameLists
<1>7. IsList(<<>>)
  BY DEF IsList
<1> QED BY <1>1, <1>3, <1>5, <1>6, <1>7 DEF Shell

\* documentRouteRule adds a rule, and keeps the rest of the patch.
LEMMA RuleAdded ==
    ASSUME NEW text, NEW base, NEW s, NEW n \in Nat \ {0}, NEW r,
           RulesAdded(text, base, s, n - 1, r)
    PROVE  RulesAdded(text, base, s, n, P!AddRule(r, s[n]))
<1> DEFINE rule == P!DocumentRule(s[n])
<1> SUFFICES ASSUME NEW q \in P!AddRule(r, s[n])
             PROVE  /\ Shell(text, q) /\ q.route /\ q.final = RouteOf(text).final
                    /\ IsList(q.ruleSets) /\ \A set \in Range(q.ruleSets) : IsList(set.codes)
                    /\ IsList(q.rules) /\ Len(q.rules) = n
                    /\ \A i \in 1 .. n : q.rules[i] = P!DocumentRule(s[i])
  BY DEF RulesAdded
<1>2. PICK p \in r : q = [p EXCEPT !.rules = Append(@, rule)]
  BY DEF P!AddRule
<1>3. /\ Shell(text, p) /\ p.route /\ p.final = RouteOf(text).final
      /\ IsList(p.ruleSets) /\ \A y \in Range(p.ruleSets) : IsList(y.codes)
      /\ IsList(p.rules) /\ Len(p.rules) = n - 1
      /\ \A i \in 1 .. n - 1 : p.rules[i] = P!DocumentRule(s[i])
  BY DEF RulesAdded
<1>4. "rules" \in DOMAIN p
  BY <1>3, EmptyFields DEF Shell
<1> HIDE DEF rule
<1>5. /\ DOMAIN q = DOMAIN p /\ q.rules = Append(p.rules, rule)
      /\ q.inbounds = p.inbounds /\ q.dns = p.dns /\ q.nodes = p.nodes /\ q.groups = p.groups
      /\ q.route = p.route /\ q.ruleSets = p.ruleSets /\ q.final = p.final
  BY <1>2, <1>4
<1>6. /\ IsList(q.rules) /\ Len(q.rules) = (n - 1) + 1 /\ q.rules[(n - 1) + 1] = rule
      /\ \A i \in 1 .. n - 1 : q.rules[i] = p.rules[i]
  BY <1>3, <1>5, PP!AppendList, SameLists
<1>7. (n - 1) + 1 = n /\ \A i \in 1 .. n : i = n \/ i \in 1 .. n - 1
  OBVIOUS
<1> QED BY <1>3, <1>5, <1>6, <1>7 DEF Shell, rule

\* The patch that a text is taken for.
Inner(p) == P!ListsWithin(p) /\ \A section \in p.dns : P!IsSection(section)

\* The rules of a patch do what was wanted, one by one.
Wants(p, wanted) ==
    /\ IsList(wanted) /\ Len(p.rules) = Len(wanted)
    /\ \A i \in 1 .. Len(wanted) :
          /\ p.rules[i].match = wanted[i].match
          /\ p.rules[i].action = wanted[i].action
          /\ p.rules[i].target = wanted[i].target

\* Its nodes are of no line of a subscription.
Unlined(p) == \A node \in Range(p.nodes) : node.by = 0

\* What a text says, as the patch it is taken for says it.
PatchOf(text, p) ==
    /\ P!IsPatch(p) /\ Inner(p) /\ Unlined(p)
    /\ p.inbounds = InboundsOf(text)
    /\ p.final = RouteOf(text).final
    /\ Wants(p, RouteOf(text).rules)

\* documentRouteRule: what does not say what to do routes.
Action(rule) == IF rule.action = "" THEN "route" ELSE rule.action

\* The fields of a rule of a sing-box text.
LEMMA DocumentRuleIs ==
    ASSUME NEW x
    PROVE  LET rule == P!DocumentRule(x)
           IN  /\ rule.match = x.match /\ rule.refs = x.refs /\ rule.codes = <<>>
               /\ rule.target = x.outbound /\ rule.action = Action(x)
<1>1. P!DocumentRule(x) =
         [match |-> x.match, refs |-> x.refs, codes |-> <<>>, action |-> Action(x),
          target |-> x.outbound]
  BY DEF P!DocumentRule, Action
<1> QED BY <1>1

\* A set less than one member has one member at most.
LEMMA OneOrNone == \A x, y : AtMostOne({x} \ {y})
BY DEF AtMostOne

\* The steps of DecodePatch: the patch with inbounds, with a route section, with its rule
\* sets and with its rules.
Begun(text) ==
    IF text.strict /\ (text.inbounds # {} \/ text.route # {}) THEN {P!EmptyPatch} ELSE {}
Listened(text) ==
    IF text.inbounds = {} THEN Begun(text) ELSE P!AddInbounds(Begun(text), The(text.inbounds))
Sectioned(text) ==
    {[p EXCEPT !.route = TRUE, !.final = {The(text.route).final} \ {""}] : p \in Listened(text)}
WithSets(text) == P!FoldLeft(P!AddRuleSet, Sectioned(text), The(text.route).ruleSets)
WithRules(text) == P!FoldLeft(P!AddRule, WithSets(text), The(text.route).rules)

\* These steps, and no other, are those of the decoder.
LEMMA DecodedIs ==
    ASSUME NEW text
    PROVE  P!Decoded(text) = IF text.route = {} THEN Listened(text) ELSE WithRules(text)
BY SameLists DEF P!Decoded, Begun, Listened, Sectioned, WithSets, WithRules

\* The rule sets are added one after the other.
LEMMA SetsFolded ==
    ASSUME NEW text
    PROVE  WithSets(text) = DS!Fold(text, Sectioned(text), The(text.route).ruleSets)
BY DEF WithSets, P!FoldLeft, P!MapThenFoldSet, P!Max, DS!Fold

\* And so are the rules.
LEMMA RulesFolded ==
    ASSUME NEW text
    PROVE  WithRules(text) = DR!Fold(text, WithSets(text), The(text.route).rules)
BY DEF WithRules, P!FoldLeft, P!MapThenFoldSet, P!Max, DR!Fold

\* A sing-box text without a route section has only inbounds to say.
LEMMA ListenedPlain ==
    ASSUME NEW text, IsPatchText(text), text.kind = "sing-box", NEW p \in Listened(text)
    PROVE  Plain(text, p)
<1>1. CASE text.inbounds = {}
  <2>1. p = P!EmptyPatch
    BY <1>1 DEF Listened, Begun
  <2>2. InboundsOf(text) = {}
    BY <1>1 DEF InboundsOf
  <2> QED BY <2>1, <2>2, EmptyFields DEF Plain, Shell
<1>2. CASE text.inbounds # {}
  <2> DEFINE inbounds == The(text.inbounds)
             given == {[i \in 1 .. Len(inbounds) |-> P!DocumentInbound(inbounds[i])]}
  <2>1. p = [P!EmptyPatch EXCEPT !.inbounds = given]
    <3>1. p \in P!AddInbounds(Begun(text), inbounds)
      BY <1>2 DEF Listened
    <3> QED BY <3>1 DEF P!AddInbounds, Begun
  <2>2. text.inbounds = {inbounds}
    BY <1>2 DEF IsPatchText, AtMostOne, The
  <2>3. InboundsOf(text) = given
    BY <2>2 DEF InboundsOf
  <2> HIDE DEF given
  <2> QED BY <2>1, <2>3, EmptyFields DEF Plain, Shell
<1> QED BY <1>1, <1>2

\* The decoder of sing-box texts says in a patch what the text says.
LEMMA DecodedPatch ==
    ASSUME NEW text, text.kind = "sing-box", IsPatchText(text), NEW q \in P!Decoded(text)
    PROVE  PatchOf(text, q)
<1> DEFINE route == The(text.route)
           wanted == RouteOf(text).rules
<1>1. AtMostOne(text.inbounds) /\ AtMostOne(text.route)
  BY DEF IsPatchText
<1>2. ASSUME NEW p \in Listened(text) PROVE Plain(text, p)
  BY <1>2, ListenedPlain
<1>3. IsList(<<>>) /\ Len(<<>>) = 0 /\ \A x : x \notin Range(<<>>)
  BY DEF IsList, Range
<1>4. CASE text.route = {}
  <2>1. q \in Listened(text)
    BY <1>4, DecodedIs
  <2>2. Plain(text, q)
    BY <1>2, <2>1
  <2>3. RouteOf(text) = P!EmptyPatch
    BY <1>4 DEF RouteOf
  <2>4. AtMostOne(q.final) /\ AtMostOne(q.dns)
    BY <2>2 DEF Plain, Shell, AtMostOne
  <2>5. P!IsPatch(q)
    BY <1>3, <2>2, <2>4, SameLists DEF P!IsPatch, Plain, Shell, P!AtMostOne, AtMostOne
  <2>6. Inner(q)
    BY <1>3, <2>2, SameLists DEF Inner, P!ListsWithin, Plain, Shell
  <2>7. Wants(q, RouteOf(text).rules)
    BY <1>3, <2>2, <2>3, EmptyFields DEF Wants, Plain
  <2>8. Unlined(q)
    BY <1>3, <2>2 DEF Unlined, Plain, Shell
  <2> QED BY <2>2, <2>3, <2>5, <2>6, <2>7, <2>8, EmptyFields DEF PatchOf, Plain, Shell
<1>5. CASE text.route # {}
  <2>1. route \in text.route
    BY <1>5 DEF The
  <2>2. /\ IsList(route.rules) /\ IsList(route.ruleSets)
        /\ \A rule \in Range(route.rules) : IsList(rule.refs)
    BY <2>1 DEF IsPatchText
  <2>3. RouteOf(text).final = {route.final} \ {""}
    BY <1>5 DEF RouteOf
  <2>4. wanted = [i \in 1 .. Len(route.rules) |->
                    [match |-> route.rules[i].match, target |-> route.rules[i].outbound,
                     action |-> Action(route.rules[i])]]
    BY <1>5 DEF RouteOf, Action
  <2> HIDE DEF wanted
  <2>5. SetsAdded(text, Sectioned(text), route.ruleSets, 0, Sectioned(text))
    <3> SUFFICES ASSUME NEW p \in Listened(text),
                        NEW r, r = [p EXCEPT !.route = TRUE, !.final = {route.final} \ {""}]
                 PROVE  /\ Shell(text, r) /\ r.route /\ r.rules = <<>>
                        /\ r.final = RouteOf(text).final
                        /\ IsList(r.ruleSets) /\ \A set \in Range(r.ruleSets) : IsList(set.codes)
      BY DEF SetsAdded, Sectioned
    <3>1. Plain(text, p)
      BY <1>2
    <3> DEFINE f == {route.final} \ {""}
    <3>2. RouteOf(text).final = f
      BY <2>3
    <3>3. r = [p EXCEPT !.route = TRUE, !.final = f]
      OBVIOUS
    <3> HIDE DEF f
    <3>4. {"route", "final"} \subseteq DOMAIN p
      BY <3>1, EmptyFields DEF Plain, Shell
    <3>5. r.route = TRUE /\ r.final = f
      BY <3>3, <3>4
    <3>6. /\ DOMAIN r = DOMAIN p /\ r.inbounds = p.inbounds /\ r.dns = p.dns
          /\ r.nodes = p.nodes /\ r.groups = p.groups
          /\ r.rules = p.rules /\ r.ruleSets = p.ruleSets
      BY <3>3, <3>4
    <3>7. r.route
      BY <3>5
    <3> QED BY <1>3, <3>1, <3>2, <3>5, <3>6, <3>7 DEF Plain, Shell
  <2> DEFINE sets == WithSets(text)
             all == WithRules(text)
  <2>6. sets = DS!Fold(text, Sectioned(text), route.ruleSets)
    BY SetsFolded
  <2>7. all = DR!Fold(text, sets, route.rules)
    BY RulesFolded
  <2>8. q \in all
    BY <1>5, DecodedIs
  <2> HIDE DEF sets, all
  <2>9. /\ Len(route.ruleSets) \in Nat /\ DOMAIN route.ruleSets = 1 .. Len(route.ruleSets)
        /\ Len(route.rules) \in Nat /\ DOMAIN route.rules = 1 .. Len(route.rules)
        /\ Range(route.rules) = {route.rules[i] : i \in 1 .. Len(route.rules)}
    BY <2>2, PP!ListFacts, SameLists
  <2>10. SetsAdded(text, Sectioned(text), route.ruleSets, Len(route.ruleSets), sets)
    <3>1. \A i \in 1 .. Len(route.ruleSets) : \A r :
             SetsAdded(text, Sectioned(text), route.ruleSets, i - 1, r)
                => SetsAdded(text, Sectioned(text), route.ruleSets, i,
                             P!AddRuleSet(r, route.ruleSets[i]))
      BY SetAdded
    <3> QED BY <2>5, <2>6, <2>9, <3>1, DS!FoldKeeps
  <2>11. RulesAdded(text, sets, route.rules, 0, sets)
    <3> SUFFICES ASSUME NEW r \in sets
                 PROVE  /\ Shell(text, r) /\ r.route /\ r.final = RouteOf(text).final
                        /\ IsList(r.ruleSets) /\ \A set \in Range(r.ruleSets) : IsList(set.codes)
                        /\ IsList(r.rules) /\ Len(r.rules) = 0
      BY DEF RulesAdded
    <3> QED BY <1>3, <2>10 DEF SetsAdded
  <2>12. RulesAdded(text, sets, route.rules, Len(route.rules), all)
    <3>1. \A i \in 1 .. Len(route.rules) : \A r :
             RulesAdded(text, sets, route.rules, i - 1, r)
                => RulesAdded(text, sets, route.rules, i, P!AddRule(r, route.rules[i]))
      <4>1. \A i \in 1 .. Len(route.rules) : i \in Nat \ {0}
        BY <2>9
      <4> QED BY <4>1, RuleAdded
    <3> QED BY <2>7, <2>9, <2>11, <3>1, DR!FoldKeeps
  <2>13. /\ Shell(text, q) /\ q.route /\ q.final = RouteOf(text).final
         /\ IsList(q.ruleSets) /\ \A set \in Range(q.ruleSets) : IsList(set.codes)
         /\ IsList(q.rules) /\ Len(q.rules) = Len(route.rules)
         /\ \A i \in 1 .. Len(route.rules) : q.rules[i] = P!DocumentRule(route.rules[i])
    BY <2>8, <2>12 DEF RulesAdded
  <2>14. \A i \in 1 .. Len(route.rules) :
            /\ q.rules[i].match = wanted[i].match
            /\ q.rules[i].action = wanted[i].action
            /\ q.rules[i].target = wanted[i].target
    <3> SUFFICES ASSUME NEW i \in 1 .. Len(route.rules)
                 PROVE  /\ q.rules[i].match = wanted[i].match
                        /\ q.rules[i].action = wanted[i].action
                        /\ q.rules[i].target = wanted[i].target
      OBVIOUS
    <3>1. wanted[i] = [match |-> route.rules[i].match, target |-> route.rules[i].outbound,
                       action |-> Action(route.rules[i])]
      BY <2>4
    <3>2. q.rules[i] = P!DocumentRule(route.rules[i])
      BY <2>13
    <3> QED BY <3>1, <3>2, DocumentRuleIs
  <2>15. IsList(wanted) /\ Len(wanted) = Len(route.rules)
    <3> DEFINE item(i) == [match |-> route.rules[i].match, target |-> route.rules[i].outbound,
                            action |-> Action(route.rules[i])]
    <3>1. wanted = [i \in 1 .. Len(route.rules) |-> item(i)]
      BY <2>4
    <3> HIDE DEF item
    <3>2. wanted \in [1 .. Len(route.rules) -> Range(wanted)] /\ DOMAIN wanted = 1 .. Len(route.rules)
      BY <3>1 DEF Range
    <3> QED BY <2>9, <3>2, PP!SeqDef DEF IsList
  <2>16. Wants(q, wanted)
    BY <2>13, <2>14, <2>15 DEF Wants
  <2>17. AtMostOne(q.final) /\ AtMostOne(q.dns)
    <3>1. AtMostOne(RouteOf(text).final)
      <4> DEFINE f == {route.final} \ {""}
      <4>1. AtMostOne(f)
        BY OneOrNone
      <4>2. RouteOf(text).final = f
        BY <2>3
      <4> HIDE DEF f
      <4> QED BY <4>1, <4>2
    <3> QED BY <2>13, <3>1 DEF Shell, AtMostOne
  <2>18. P!IsPatch(q)
    BY <1>3, <2>13, <2>17, SameLists DEF P!IsPatch, Shell, P!AtMostOne, AtMostOne
  <2>19. \A i \in 1 .. Len(route.rules) :
            q.rules[i].codes = <<>> /\ q.rules[i].refs = route.rules[i].refs
    BY <2>13, DocumentRuleIs
  <2>20. \A rule \in Range(q.rules) : IsList(rule.codes) /\ IsList(rule.refs)
    <3>1. Range(q.rules) = {q.rules[i] : i \in 1 .. Len(route.rules)}
      BY <2>13, PP!ListFacts, SameLists
    <3> QED BY <1>3, <2>2, <2>9, <2>19, <3>1
  <2>21. Inner(q)
    BY <1>3, <2>13, <2>20, SameLists DEF Inner, P!ListsWithin, Shell
  <2>22. Unlined(q)
    BY <1>3, <2>13 DEF Unlined, Shell
  <2> QED BY <2>13, <2>16, <2>18, <2>21, <2>22 DEF PatchOf, Shell, wanted
<1> QED BY <1>4, <1>5

--------------------------------------------------------------------------------
(* The patches of a list of sources. *)

\* A patch of a source is what its text says.
LEMMA SourcePatch ==
    ASSUME setup \in Setups, NEW source, NEW p \in DecodePatch(source)
    PROVE  PatchOf(The(Loaded(source.location)), p)
<1>1. PICK text \in Loaded(source.location) :
         \/ text.kind = "patch" /\ p = text.patch
         \/ text.kind = "sing-box" /\ p \in P!Decoded(text)
  BY DEF DecodePatch
<1>2. text \in Range(setup.texts) /\ The(Loaded(source.location)) = text
  BY <1>1 DEF Loaded, Range, The
<1>3. IsPatchText(text)
  BY <1>2, SetupsAssumption
<1>4. CASE text.kind = "sing-box" /\ p \in P!Decoded(text)
  BY <1>2, <1>3, <1>4, DecodedPatch
<1>5. CASE text.kind = "patch" /\ p = text.patch
  <2>1. P!IsPatch(p) /\ Inner(p)
    BY <1>3, <1>5 DEF IsPatchText, Inner
  <2>2. InboundsOf(text) = p.inbounds /\ RouteOf(text) = p
    BY <1>5 DEF InboundsOf, RouteOf
  <2>3. IsList(p.rules)
    BY <2>1, SameLists DEF P!IsPatch
  <2>4. Unlined(p)
    BY <1>3, <1>5 DEF IsPatchText, Unlined
  <2> QED BY <1>2, <2>1, <2>2, <2>3, <2>4 DEF PatchOf, Wants
<1> QED BY <1>1, <1>4, <1>5

\* Lists merged are lists of what was in either.
LEMMA MergedItems ==
    ASSUME NEW base, NEW later, IsList(base), IsList(later)
    PROVE  /\ IsList(PP!MergeByName(base, later))
           /\ Range(PP!MergeByName(base, later)) \subseteq Range(base) \cup Range(later)
BY PP!Merging, SameLists DEF PP!OverriddenBy

\* Combine keeps the lists of its patches.
LEMMA InnerCombined ==
    ASSUME NEW p, NEW c, P!IsPatch(p), P!IsPatch(c), Inner(p), Inner(c)
    PROVE  Inner(P!Combine(p, c))
<1> DEFINE q == PP!Combine(p, c)
<1>1. /\ IsList(p.groups) /\ IsList(p.ruleSets) /\ IsList(p.rules)
      /\ IsList(c.groups) /\ IsList(c.ruleSets) /\ IsList(c.rules)
  BY SameLists DEF P!IsPatch
<1>2. PP!IsPatch(p)
  BY SamePatch
<1>3. /\ q.groups = PP!MergeByName(p.groups, c.groups)
      /\ q.ruleSets = IF c.route THEN PP!MergeByName(p.ruleSets, c.ruleSets) ELSE p.ruleSets
      /\ q.rules = IF c.route THEN p.rules \o c.rules ELSE p.rules
      /\ q.dns = IF c.dns = {} THEN p.dns ELSE c.dns
  BY <1>2, PP!CombineParts
<1> HIDE DEF q
<1>4. Range(q.groups) \subseteq Range(p.groups) \cup Range(c.groups)
  BY <1>1, <1>3, MergedItems
<1>5. Range(q.ruleSets) \subseteq Range(p.ruleSets) \cup Range(c.ruleSets)
  BY <1>1, <1>3, MergedItems
<1>6. Range(q.rules) \subseteq Range(p.rules) \cup Range(c.rules)
  <2>1. Range(p.rules \o c.rules) = Range(p.rules) \cup Range(c.rules)
    BY <1>1, PP!ConcatList, SameLists
  <2> QED BY <1>3, <2>1
<1>7. Inner(q)
  BY <1>3, <1>4, <1>5, <1>6, SameLists DEF Inner, P!ListsWithin
<1> QED BY <1>7, SameCombine DEF q

\* list has the patches of the first n sources.
Loading(sources, n, list) ==
    /\ IsList(list) /\ Len(list) = n
    /\ \A i \in 1 .. n : PatchOf(The(Loaded(sources[i].location)), list[i])

\* A patch that loadPatches may hold after n sources joins one patch of each.
LoadedUpTo(p, base, s, n, r) ==
    \A q \in r : Inner(q) /\ \E list : Loading(s, n, list) /\ PP!Amounts(q, list)

\* loadPatches: the next source.
CombineWith(p, r, x) == {P!Combine(target, patch) : target \in r, patch \in DecodePatch(x)}

DL == INSTANCE FoldInduction WITH Op <- CombineWith, J <- LoadedUpTo

\* loadPatches goes through the sources one after the other.
LEMMA LoadsAreFold == \A sources : LoadPatches(sources) = DL!Fold({}, {P!EmptyPatch}, sources)
BY DEF LoadPatches, FoldLeft, MapThenFoldSet, Max, DL!Fold, CombineWith

\* It starts with the empty patch.
LEMMA LoadsFirst == ASSUME NEW s PROVE LoadedUpTo({}, {P!EmptyPatch}, s, 0, {P!EmptyPatch})
<1>1. IsList(<<>>) /\ Len(<<>>) = 0 /\ \A x : x \notin Range(<<>>)
  BY DEF IsList, Range
<1>2. Inner(P!EmptyPatch)
  BY <1>1, EmptyFields, SameLists DEF Inner, P!ListsWithin
<1>3. Loading(s, 0, <<>>)
  BY <1>1 DEF Loading
<1> QED BY <1>2, <1>3, EmptyAmounts DEF LoadedUpTo

\* And joins what the next source says.
LEMMA LoadsNext ==
    ASSUME setup \in Setups, NEW s, NEW n \in Nat \ {0}, NEW r,
           LoadedUpTo({}, {P!EmptyPatch}, s, n - 1, r)
    PROVE  LoadedUpTo({}, {P!EmptyPatch}, s, n, CombineWith({}, r, s[n]))
<1> SUFFICES ASSUME NEW p \in r, NEW c \in DecodePatch(s[n])
             PROVE  /\ Inner(P!Combine(p, c))
                    /\ \E list : Loading(s, n, list) /\ PP!Amounts(P!Combine(p, c), list)
  BY DEF LoadedUpTo, CombineWith
<1>1. PatchOf(The(Loaded(s[n].location)), c)
  BY SourcePatch
<1>2. PICK list : Loading(s, n - 1, list) /\ PP!Amounts(p, list)
  BY DEF LoadedUpTo
<1>3. Inner(p)
  BY DEF LoadedUpTo
<1>4. P!IsPatch(p) /\ P!IsPatch(c) /\ Inner(c) /\ PP!IsPatch(c)
  BY <1>1, <1>2, SamePatch DEF PP!Amounts, PatchOf
<1>5. Inner(P!Combine(p, c))
  BY <1>3, <1>4, InnerCombined
<1> DEFINE more == Append(list, c)
<1>6. IsList(list) /\ Len(list) = n - 1 /\ list \in Seq(Range(list))
  BY <1>2 DEF Loading, IsList
<1>7. PP!Amounts(PP!Combine(p, c), more)
  BY <1>2, <1>4, <1>6, PP!Combining
<1>8. /\ IsList(more) /\ Len(more) = (n - 1) + 1 /\ more[(n - 1) + 1] = c
      /\ \A i \in 1 .. n - 1 : more[i] = list[i]
  BY <1>6, PP!AppendList, SameLists
<1> HIDE DEF more
<1>9. (n - 1) + 1 = n /\ \A i \in 1 .. n : i = n \/ i \in 1 .. n - 1
  OBVIOUS
<1>10. Loading(s, n, more)
  BY <1>1, <1>2, <1>8, <1>9 DEF Loading
<1> QED BY <1>5, <1>7, <1>10, SameCombine

\* LoadPatches: what a list of sources comes to, if it is loaded, is what the texts say
\* together.
LEMMA LoadedPatches ==
    ASSUME setup \in Setups, NEW s, Len(s) \in Nat, DOMAIN s = 1 .. Len(s), NEW q \in LoadPatches(s)
    PROVE  Inner(q) /\ \E list : Loading(s, Len(s), list) /\ PP!Amounts(q, list)
<1>1. Len(s) \in Nat /\ DOMAIN s = 1 .. Len(s)
  OBVIOUS
<1>2. \A i \in 1 .. Len(s) : \A r : LoadedUpTo({}, {P!EmptyPatch}, s, i - 1, r)
          => LoadedUpTo({}, {P!EmptyPatch}, s, i, CombineWith({}, r, s[i]))
  <2>1. \A i \in 1 .. Len(s) : i \in Nat \ {0}
    BY <1>1
  <2> QED BY <2>1, LoadsNext
<1>3. LoadedUpTo({}, {P!EmptyPatch}, s, Len(s), DL!Fold({}, {P!EmptyPatch}, s))
  BY <1>1, <1>2, LoadsFirst, DL!FoldKeeps
<1> QED BY <1>3, LoadsAreFold DEF LoadedUpTo

--------------------------------------------------------------------------------
(* The document that is patched. *)

\* What the decoder hands over.
Read == [DefaultDocument EXCEPT !.nodes = nodes]

\* The lists of a document are lists.
DocumentLists(d) == P!ListsWithin(d) /\ P!IsSection(d.dns)

\* The document after the patches of the one list, and of both.
AfterGlobals(d) ==
    /\ DocumentLists(d) /\ IsList(Globals)
    /\ \E g : Loading(Globals, Len(Globals), g) /\ PP!Describes(d, Read, g, g \o <<Read>>)

AfterLocals(d) ==
    /\ DocumentLists(d) /\ IsList(Globals) /\ IsList(Locals)
    /\ \E g, l : /\ Loading(Globals, Len(Globals), g) /\ Loading(Locals, Len(Locals), l)
                 /\ PP!Describes(d, Read, g \o l, l \o (g \o <<Read>>))

\* Before and after each list of patches the document is what they made of it, and
\* what is handed over is what both made of it.
DocInv ==
    /\ IsList(nodes)
    /\ stage \in {"global", "local"} => setup.command = "serve"
    /\ stage = "global" => document = {Read}
    /\ stage = "local" => document = {The(document)} /\ AfterGlobals(The(document))
    /\ stage = "encode" => document = {The(document)} /\ AfterLocals(The(document))
    /\ handed # {} => /\ stage \in {"encoding", "answered"}
                      /\ handed = {The(handed)} /\ AfterLocals(The(handed))

\* Nothing, as a list.
LEMMA EmptyList == IsList(<<>>) /\ Len(<<>>) = 0 /\ \A x : x \notin Range(<<>>)
BY DEF IsList, Range

\* What is decoded has nodes, and the rest is that of the default document.
LEMMA ReadFields ==
    /\ DOMAIN Read = {"nodes", "groups", "ruleSets", "rules", "final", "dns", "resolver", "inbounds",
                      "legacy"}
    /\ Read.nodes = nodes /\ Read.groups = <<>> /\ Read.ruleSets = <<>> /\ Read.rules = <<>>
    /\ Read.final = DefaultFinal /\ Read.dns = DefaultDNS /\ Read.inbounds = {<<Tun("tun-in")>>}
BY DEF Read, DefaultDocument

\* The DNS section of the default document is one.
LEMMA DefaultSection == P!IsSection(DefaultDNS)
<1> DEFINE a == Server("local", "local", "", FALSE)
           b == Server("remote", "1.1.1.1", "proxy", FALSE)
<1>1. {"tag", "detour"} \subseteq DOMAIN a /\ {"tag", "detour"} \subseteq DOMAIN b
  BY DEF Server
<1>2. DefaultDNS.servers = <<a, b>> /\ DefaultDNS.rules = <<>>
  BY DEF DefaultDNS
<1> HIDE DEF a, b
<1>3. <<a, b>> \in Seq({a, b}) /\ Range(<<a, b>>) = {a, b}
  BY DEF Range
<1>4. IsList(<<a, b>>)
  BY <1>3 DEF IsList
<1> QED BY <1>1, <1>2, <1>3, <1>4, EmptyList, SameLists DEF P!IsSection

\* What is decoded is a document.
LEMMA ReadDescribed ==
    ASSUME IsList(nodes)
    PROVE  DocumentLists(Read) /\ PP!Describes(Read, Read, <<>>, <<Read>>)
<1>1. PP!IsDocument(Read)
  BY EmptyList, ReadFields, SameLists DEF PP!IsDocument
<1>2. DocumentLists(Read)
  BY EmptyList, ReadFields, DefaultSection, SameLists DEF DocumentLists, P!ListsWithin
<1> QED BY <1>1, <1>2, PP!NothingApplied

\* Apply keeps the lists of a document lists.
LEMMA AppliedLists ==
    ASSUME NEW d, PP!IsDocument(d), DocumentLists(d), NEW p, P!IsPatch(p), Inner(p)
    PROVE  DocumentLists(P!Applied(d, p))
<1> DEFINE a == PP!Applied(d, p)
<1>1. /\ IsList(d.groups) /\ IsList(d.ruleSets) /\ IsList(d.rules)
      /\ IsList(p.groups) /\ IsList(p.ruleSets) /\ IsList(p.rules) /\ AtMostOne(p.dns)
  BY SameLists DEF PP!IsDocument, P!IsPatch, P!AtMostOne, AtMostOne
<1>2. PP!IsPatch(p)
  BY SamePatch
<1>3. /\ a.groups = PP!MergeByName(d.groups, p.groups)
      /\ a.ruleSets = IF p.route THEN PP!MergeByName(d.ruleSets, p.ruleSets) ELSE d.ruleSets
      /\ a.rules = IF p.route THEN p.rules \o d.rules ELSE d.rules
      /\ {a.dns} = PP!Else(p.dns, {d.dns})
  BY <1>2, PP!AppliedParts
<1> HIDE DEF a
<1>4. Range(a.groups) \subseteq Range(d.groups) \cup Range(p.groups)
  BY <1>1, <1>3, MergedItems
<1>5. Range(a.ruleSets) \subseteq Range(d.ruleSets) \cup Range(p.ruleSets)
  BY <1>1, <1>3, MergedItems
<1>6. Range(a.rules) \subseteq Range(d.rules) \cup Range(p.rules)
  <2>1. Range(p.rules \o d.rules) = Range(d.rules) \cup Range(p.rules)
    BY <1>1, PP!ConcatList, SameLists
  <2> QED BY <1>3, <2>1
<1>7. a.dns \in {d.dns} \cup p.dns
  BY <1>3 DEF PP!Else
<1>8. P!ListsWithin(a)
  BY <1>4, <1>5, <1>6, SameLists DEF P!ListsWithin, DocumentLists, Inner
<1>9. P!IsSection(a.dns)
  BY <1>7 DEF DocumentLists, Inner
<1>10. DocumentLists(a)
  BY <1>8, <1>9 DEF DocumentLists
<1> QED BY <1>10, SameApplied DEF a

\* One of the two lists: what the patches of the sources say is what is applied.
LEMMA PatchesApplied ==
    ASSUME setup \in Setups, NEW sources, IsList(sources),
           NEW d, NEW redefining, NEW consulted, IsList(redefining), IsList(consulted),
           DocumentLists(d), PP!Describes(d, Read, redefining, consulted),
           NEW q \in LoadPatches(sources), P!Applicable(d, q)
    PROVE  /\ DocumentLists(P!Applied(d, q))
           /\ \E list : /\ Loading(sources, Len(sources), list)
                        /\ PP!Describes(P!Applied(d, q), Read, redefining \o list, list \o consulted)
<1>1. Len(sources) \in Nat /\ DOMAIN sources = 1 .. Len(sources)
  BY PP!ListFacts, SameLists
<1>2. PICK list : Loading(sources, Len(sources), list) /\ PP!Amounts(q, list)
  BY <1>1, LoadedPatches
<1>3. Inner(q) /\ P!IsPatch(q) /\ PP!IsDocument(d)
  BY <1>1, <1>2, LoadedPatches, SamePatch DEF PP!Amounts, PP!Describes
<1>4. DocumentLists(P!Applied(d, q))
  BY <1>3, AppliedLists
<1> DEFINE T == Range(redefining) \cup Range(consulted) \cup Range(list)
<1>5. redefining \in Seq(T) /\ consulted \in Seq(T) /\ list \in Seq(T)
  BY <1>2 DEF IsList, Loading
<1> HIDE DEF T
<1>6. PP!Applicable(d, q)
  BY SameApplicable
<1>7. PP!Describes(PP!Applied(d, q), Read, redefining \o list, list \o consulted)
  BY <1>2, <1>5, <1>6, PP!Applying
<1> QED BY <1>2, <1>4, <1>7, SameApplied

\* There is no document yet.
LEMMA InitDoc == Init => DocInv
BY EmptyList DEF Init, DocInv, NothingHanded, IdleDecoder

\* One item, as a list.
LEMMA SingleList == \A x : IsList(<<x>>)
<1>1. \A x : <<x>> \in Seq({x}) /\ Range(<<x>>) = {x}
  BY DEF Range
<1> QED BY <1>1 DEF IsList

\* A list and nothing.
LEMMA ConcatEmpty == \A a : IsList(a) => a \o <<>> = a /\ <<>> \o a = a
<1> SUFFICES ASSUME NEW a, IsList(a) PROVE a \o <<>> = a /\ <<>> \o a = a
  OBVIOUS
<1>1. a \in Seq(Range(a))
  BY DEF IsList
<1> QED BY <1>1

\* What stays: the setup, the configuration and the nodes.
Kept == UNCHANGED <<setup, config, nodes>>

\* What is true of the document after patches stays so.
LEMMA AfterKept ==
    ASSUME Kept, NEW d
    PROVE  (AfterGlobals(d)' <=> AfterGlobals(d)) /\ (AfterLocals(d)' <=> AfterLocals(d))
<1>1. Globals' = Globals /\ Locals' = Locals /\ Read' = Read
  BY DEF Kept, Globals, Locals, Subscribed, Called, Read
<1>2. setup' = setup
  BY DEF Kept
<1>3. ASSUME NEW s, NEW n, NEW list PROVE Loading(s, n, list)' <=> Loading(s, n, list)
  BY <1>2 DEF Loading, Loaded
<1> QED BY <1>1, <1>3 DEF AfterGlobals, AfterLocals

\* Decode: the document of the nodes read.
LEMMA DecodedDoc ==
    ASSUME ServedInv, DocInv, Decoded
    PROVE  DocInv'
<1>1. /\ stage = "decoding" /\ handed' = handed /\ Kept /\ Read' = Read
  BY DEF Decoded, Kept, decoderVars, Read
<1>2. handed = {}
  BY <1>1 DEF DocInv
<1>3. CASE stage' = "answered"
  BY <1>1, <1>2, <1>3 DEF DocInv, Kept
<1>4. CASE stage' = "global"
  <2>1. document' = {Read}
    BY <1>4 DEF Decoded, Answered, Read
  <2>2. setup.command = "serve"
    BY <1>4, SetupsAssumption DEF Decoded, Answered, ServedInv, ConfigInv
  <2> QED BY <1>1, <1>2, <1>4, <2>1, <2>2 DEF DocInv, Kept
<1>5. CASE stage' = "encode"
  <2>1. document' = {Read} /\ setup.command = "convert"
    BY <1>5 DEF Decoded, Answered, Read
  <2>2. The(document') = Read
    BY <2>1 DEF The
  <2>3. DocumentLists(Read) /\ PP!Describes(Read, Read, <<>>, <<Read>>)
    BY ReadDescribed DEF DocInv
  <2>4. Globals = <<>> /\ Locals = <<>>
    BY <2>1 DEF Globals, Locals
  <2>5. Loading(<<>>, Len(<<>>), <<>>)
    BY EmptyList DEF Loading
  <2>6. IsList(<<Read>>)
    BY SingleList
  <2>7. PP!Describes(Read, Read, <<>> \o <<>>, <<>> \o (<<>> \o <<Read>>))
    BY <2>3, <2>6, ConcatEmpty, EmptyList
  <2>8. AfterLocals(Read)
    BY <2>3, <2>4, <2>5, <2>7, EmptyList DEF AfterLocals
  <2> QED BY <1>1, <1>2, <1>5, <2>1, <2>2, <2>8, AfterKept DEF DocInv, Kept
<1>6. stage' \in {"answered", "global", "encode"}
  BY DEF Decoded, Answered
<1> QED BY <1>3, <1>4, <1>5, <1>6

\* ApplyGlobals: the document after the patches for all.
LEMMA GlobalDoc ==
    ASSUME ServedInv, DocInv, ApplyGlobal
    PROVE  DocInv'
<1>1. stage = "global" /\ handed' = handed /\ Kept /\ Read' = Read
  BY DEF ApplyGlobal, ApplyPatches, Kept, decoderVars, Read
<1>2. handed = {} /\ document = {Read} /\ The(document) = Read /\ IsList(nodes)
  BY <1>1 DEF DocInv, The
<1>3. CASE stage' = "answered"
  BY <1>1, <1>2, <1>3 DEF DocInv, Kept
<1>4. CASE stage' # "answered"
  <2> DEFINE patch == {p \in LoadPatches(The(config).patches) : P!Applicable(The(document), p)}
             q == The(patch)
  <2>1. patch # {} /\ document' = {P!Applied(The(document), q)} /\ stage' = "local"
    BY <1>4 DEF ApplyGlobal, ApplyPatches, Answered
  <2>2. q \in patch
    BY <2>1 DEF The
  <2>3. setup.command = "serve" /\ setup \in Setups /\ Served
    BY <1>1 DEF DocInv, ServedInv, ConfigInv, Served
  <2>4. Globals = The(config).patches /\ IsList(Globals)
    BY <2>3, SourceLists DEF Globals
  <2>5. q \in LoadPatches(Globals) /\ P!Applicable(Read, q)
    BY <1>2, <2>2, <2>4
  <2> HIDE DEF q, patch
  <2>6. DocumentLists(Read) /\ PP!Describes(Read, Read, <<>>, <<Read>>)
    BY <1>2, ReadDescribed
  <2>7. IsList(<<Read>>)
    BY SingleList
  <2>8. PICK g : /\ DocumentLists(P!Applied(Read, q)) /\ Loading(Globals, Len(Globals), g)
                 /\ PP!Describes(P!Applied(Read, q), Read, <<>> \o g, g \o <<Read>>)
    BY <2>3, <2>4, <2>5, <2>6, <2>7, EmptyList, PatchesApplied
  <2>9. <<>> \o g = g
    BY <2>8, ConcatEmpty DEF Loading
  <2>10. AfterGlobals(P!Applied(Read, q))
    BY <2>4, <2>8, <2>9 DEF AfterGlobals
  <2>11. document' = {P!Applied(Read, q)} /\ The(document') = P!Applied(Read, q)
    BY <1>2, <2>1 DEF The
  <2> QED BY <1>1, <1>2, <2>1, <2>3, <2>10, <2>11, AfterKept DEF DocInv, Kept
<1> QED BY <1>3, <1>4

\* ApplyLocals: the document after those of the subscription.
LEMMA LocalDoc ==
    ASSUME ServedInv, DocInv, ApplyLocal
    PROVE  DocInv'
<1> DEFINE d == The(document)
<1>1. stage = "local" /\ handed' = handed /\ Kept /\ Read' = Read
  BY DEF ApplyLocal, ApplyPatches, Kept, decoderVars, Read
<1>2. handed = {} /\ AfterGlobals(d) /\ IsList(nodes)
  BY <1>1 DEF DocInv
<1>3. CASE stage' = "answered"
  BY <1>1, <1>2, <1>3 DEF DocInv, Kept
<1>4. CASE stage' # "answered"
  <2> DEFINE patch == {p \in LoadPatches(Subscribed.patches) : P!Applicable(d, p)}
             q == The(patch)
             a == P!Applied(d, q)
  <2>1. patch # {} /\ document' = {a} /\ stage' = "encode"
    BY <1>4 DEF ApplyLocal, ApplyPatches, Answered
  <2>2. q \in patch
    BY <2>1 DEF The
  <2>3. setup.command = "serve" /\ setup \in Setups /\ Served
    BY <1>1 DEF DocInv, ServedInv, ConfigInv, Served
  <2>4. Locals = Subscribed.patches /\ IsList(Locals)
    BY <2>3, SourceLists DEF Locals
  <2>5. q \in LoadPatches(Locals) /\ P!Applicable(d, q)
    BY <2>2, <2>4
  <2> HIDE DEF q, patch, d
  <2>6. PICK g : /\ DocumentLists(d) /\ IsList(Globals) /\ Loading(Globals, Len(Globals), g)
                 /\ PP!Describes(d, Read, g, g \o <<Read>>)
    BY <1>2 DEF AfterGlobals
  <2>7. IsList(g) /\ IsList(g \o <<Read>>)
    BY <2>6, SingleList, PP!ConcatList, SameLists DEF Loading
  <2>8. PICK l : /\ DocumentLists(a) /\ Loading(Locals, Len(Locals), l)
                 /\ PP!Describes(a, Read, g \o l, l \o (g \o <<Read>>))
    BY <2>3, <2>4, <2>5, <2>6, <2>7, PatchesApplied
  <2> HIDE DEF a
  <2>9. AfterLocals(a)
    BY <2>4, <2>6, <2>8 DEF AfterLocals
  <2>10. document' = {a} /\ The(document') = a
    BY <2>1 DEF The
  <2> QED BY <1>1, <1>2, <2>1, <2>9, <2>10, AfterKept DEF DocInv, Kept
<1> QED BY <1>3, <1>4

\* Every step keeps it.
LEMMA StepDoc == ServedInv /\ DocInv /\ [Next]_vars => DocInv'
<1> SUFFICES ASSUME ServedInv, DocInv, [Next]_vars PROVE DocInv'
  OBVIOUS
<1>1. CASE Configure \/ Register \/ Request \/ Decode
  <2>1. UNCHANGED <<nodes, handed>> /\ handed = {}
    BY <1>1 DEF Configure, Register, Request, Decode, StartDecoding, decoderVars, DocInv
  <2>2. stage' \notin {"global", "local", "encode"}
    BY <1>1 DEF Configure, Register, Request, Decode, Answered
  <2> QED BY <2>1, <2>2 DEF DocInv
<1>2. CASE DecodeLines
  <2>1. stage = "decoding" /\ stage' = stage /\ handed' = handed
    BY <1>2 DEF DecodeLines
  <2>2. IsList(nodes')
    <3>1. IsList(nodes) /\ \A x : IsList(Append(nodes, x))
      BY PP!AppendList, SameLists DEF DocInv
    <3>2. nodes' = nodes \/ \E x : nodes' = Append(nodes, x)
      BY <1>2 DEF DecodeLines, DecodeText, DecodeLine, EndOfLines
    <3> QED BY <3>1, <3>2
  <2> QED BY <2>1, <2>2 DEF DocInv
<1>3. CASE Decoded
  BY <1>3, DecodedDoc
<1>4. CASE ApplyGlobal
  BY <1>4, GlobalDoc
<1>5. CASE ApplyLocal
  BY <1>5, LocalDoc
<1>6. CASE StartEncoding
  <2>1. stage = "encode" /\ document' = document /\ Kept /\ stage' \in {"encoding", "answered"}
    BY <1>6 DEF StartEncoding, Answered, Kept, decoderVars
  <2>2. (handed' = document /\ stage' = "encoding") \/ handed' = handed
    <3> DEFINE Capable == DecodeFormat(setup.to) # "" /\ Codec(Normal(setup.to)) = {"sing-box"}
    <3>1. IF Capable THEN handed' = document /\ stage' = "encoding" /\ UNCHANGED answer
          ELSE Answered("failed") /\ UNCHANGED handed
      BY <1>6 DEF StartEncoding
    <3> HIDE DEF Capable
    <3> QED BY <3>1
  <2> QED BY <2>1, <2>2, AfterKept DEF DocInv, Kept
<1>7. CASE EncodeDocument \/ Encoded
  <2>1. /\ stage = "encoding" /\ handed' = handed /\ Kept /\ stage' \in {"encoding", "answered"}
    BY <1>7 DEF EncodeDocument, Encoded, Encode, Answered, Kept, decoderVars
  <2> QED BY <2>1, AfterKept DEF DocInv, Kept
<1>8. CASE Finished \/ UNCHANGED vars
  <2>1. UNCHANGED <<stage, handed, document>> /\ Kept /\ Read' = Read
    BY <1>8 DEF Finished, vars, decoderVars, Kept, Read
  <2> QED BY <2>1, AfterKept DEF DocInv, Kept
<1> QED BY <1>1, <1>2, <1>3, <1>4, <1>5, <1>6, <1>7, <1>8 DEF Next

--------------------------------------------------------------------------------
(* What becomes of the lines of a subscription. *)

\* The line is told of, or a node is there for it.
Answers(uris, made, warned, i) ==
    \/ i \in warned /\ ~Usable(uris[i])
    \/ \E j \in 1 .. Len(made) : made[j].by = i

\* The lines up to the one being read are answered for, and the document is handed
\* over when all are.
LinesInv ==
    /\ \A i \in 1 .. line : Answers(lines, nodes, skipped, i)
    /\ reading = "done" => line = Len(lines)
    /\ stage \in {"global", "local", "encode", "encoding"} \/ handed # {} => reading = "done"

\* No line is read yet.
LEMMA InitLines == Init => LinesInv
<1> SUFFICES ASSUME Init PROVE LinesInv
  OBVIOUS
<1>1. line = 0 /\ reading = "idle" /\ handed = {} /\ stage \in {"configure", "register"}
  BY DEF Init, IdleDecoder, NothingHanded
<1> QED BY <1>1 DEF LinesInv

\* ReadLine answers for its line.
LEMMA LineRead ==
    ASSUME DecoderInv, LinesInv, IsList(nodes), DecodeLine
    PROVE  \A i \in 1 .. line' : Answers(lines', nodes', skipped', i)
<1>1. /\ lines' = lines /\ line \in Nat /\ line' = line + 1
      /\ \A i \in 1 .. line' : i \in 1 .. line \/ i = line + 1
  BY DEF DecoderInv, DecodeLine
<1> DEFINE uri == lines[line + 1]
           node == [name |-> UniqueName(Asking(uri), Count(Asking(uri)) + 1), by |-> line + 1,
                    supported |-> uri.scheme = "vless" => uri.plain, named |-> uri.named]
<1>2. CASE Usable(uri)
  <2>1. nodes' = Append(nodes, node) /\ skipped' = skipped
    BY <1>2 DEF DecodeLine
  <2>2. node.by = line + 1
    OBVIOUS
  <2> HIDE DEF node
  <2>3. /\ Len(nodes) \in Nat /\ Len(nodes') = Len(nodes) + 1 /\ nodes'[Len(nodes) + 1] = node
        /\ \A j \in 1 .. Len(nodes) : nodes'[j] = nodes[j]
    BY <2>1, PP!ListFacts, PP!AppendList, SameLists
  <2>4. Len(nodes) + 1 \in 1 .. Len(nodes') /\ \A j \in 1 .. Len(nodes) : j \in 1 .. Len(nodes')
    BY <2>3
  <2>5. \A i \in 1 .. line : Answers(lines', nodes', skipped', i)
    BY <1>1, <2>1, <2>3, <2>4 DEF LinesInv, Answers
  <2>6. Answers(lines', nodes', skipped', line + 1)
    BY <2>2, <2>3, <2>4 DEF Answers
  <2> QED BY <1>1, <2>5, <2>6
<1>3. CASE ~Usable(uri)
  <2>1. nodes' = nodes /\ skipped' = skipped \cup {line + 1}
    BY <1>3 DEF DecodeLine, Skip
  <2>2. \A i \in 1 .. line : Answers(lines', nodes', skipped', i)
    BY <1>1, <2>1 DEF LinesInv, Answers
  <2>3. Answers(lines', nodes', skipped', line + 1)
    BY <1>1, <1>3, <2>1 DEF Answers
  <2> QED BY <1>1, <2>2, <2>3
<1> QED BY <1>2, <1>3

\* Every step keeps it.
LEMMA StepLines == DecoderInv /\ DocInv /\ LinesInv /\ [Next]_vars => LinesInv'
<1> SUFFICES ASSUME DecoderInv, DocInv, LinesInv, [Next]_vars PROVE LinesInv'
  OBVIOUS
<1>1. CASE Decode
  <2>1. line = 0 /\ line' = 0
    BY <1>1 DEF Decode, DecoderInv, Undecoded, IdleDecoder, StartDecoding, decoderVars
  <2>2. handed = {} /\ handed' = handed
    BY <1>1 DEF Decode, DocInv
  <2>3. stage' \in {"decoding", "answered"}
    BY <1>1 DEF Decode, Answered
  <2>4. reading' # "done"
    BY <1>1 DEF Decode, DecoderInv, Undecoded, IdleDecoder, StartDecoding, decoderVars
  <2> QED BY <2>1, <2>2, <2>3, <2>4 DEF LinesInv
<1>2. CASE DecodeLines
  <2>1. stage = "decoding" /\ UNCHANGED <<stage, handed>> /\ handed = {}
    BY <1>2 DEF DecodeLines, DocInv
  <2>2. CASE DecodeLine
    <3>1. reading = "lines" /\ reading' = reading
      BY <2>2 DEF DecodeLine
    <3>2. \A i \in 1 .. line' : Answers(lines', nodes', skipped', i)
      BY <2>2, LineRead DEF DocInv
    <3> QED BY <2>1, <3>1, <3>2 DEF LinesInv
  <2>3. CASE EndOfLines
    <3>1. UNCHANGED <<lines, line, nodes, skipped>> /\ line = Len(lines)
      BY <2>3 DEF EndOfLines
    <3> QED BY <2>1, <3>1 DEF LinesInv, Answers
  <2> QED BY <1>2, <2>2, <2>3 DEF DecodeLines, DecodeText
<1>3. CASE ~Decode /\ ~DecodeLines
  <2>1. UNCHANGED decoderVars
    BY <1>3
    DEF Next, Configure, Register, Request, Decoded, ApplyGlobal, ApplyLocal, ApplyPatches,
        StartEncoding, EncodeDocument, Encoded, Finished, vars
  <2>2. UNCHANGED <<reading, lines, line, nodes, skipped>>
    BY <2>1 DEF decoderVars
  <2>3. stage' \in {"global", "local", "encode", "encoding"} \/ handed' # {} => reading = "done"
    <3>1. CASE Configure \/ Register \/ Request
      BY <3>1 DEF Configure, Register, Request, Answered, LinesInv
    <3>2. CASE Decoded
      BY <3>2 DEF Decoded, Answered, LinesInv, DocInv
    <3>3. CASE ApplyGlobal \/ ApplyLocal
      BY <3>3 DEF ApplyGlobal, ApplyLocal, ApplyPatches, LinesInv
    <3>4. CASE StartEncoding
      BY <3>4 DEF StartEncoding, LinesInv
    <3>5. CASE EncodeDocument \/ Encoded
      BY <3>5 DEF EncodeDocument, Encoded, Encode, LinesInv
    <3>6. CASE Finished \/ UNCHANGED vars
      BY <3>6 DEF Finished, vars, LinesInv
    <3> QED BY <1>3, <3>1, <3>2, <3>3, <3>4, <3>5, <3>6 DEF Next
  <2> QED BY <2>2, <2>3 DEF LinesInv, Answers
<1> QED BY <1>1, <1>2, <1>3

--------------------------------------------------------------------------------
(* What the texts say last. *)

Finals(text) == RouteOf(text).final

\* What a text gives for a part of a patch.
TextGives(part, text) == IF part = "inbounds" THEN InboundsOf(text) ELSE Finals(text)

LT == INSTANCE SequenceFacts WITH Of <- TextGives

LEMMA TextParts ==
    \A text : TextGives("inbounds", text) = InboundsOf(text) /\ TextGives("final", text) = Finals(text)
BY DEF TextGives

\* The last that is given, as Subscription and SequenceFacts each find it.
LEMMA LastInboundsAre == \A list : LastGiven(list, InboundsOf) = LT!Latest("inbounds", list)
<1> SUFFICES ASSUME NEW list
             PROVE  LastGiven(list, InboundsOf) = LT!Latest("inbounds", list)
  OBVIOUS
<1> DEFINE part == "inbounds"
           I == {i \in 1 .. Len(list) : InboundsOf(list[i]) # {}}
           J == {i \in 1 .. Len(list) : TextGives(part, list[i]) # {}}
           Greatest(K) == CHOOSE k \in K : \A j \in K : k >= j
           i == IF I # {} THEN Greatest(I) ELSE 0
           j == IF J # {} THEN Greatest(J) ELSE 0
<1>1. LastGiven(list, InboundsOf) = IF i = 0 THEN {} ELSE InboundsOf(list[i])
  BY DEF LastGiven, SelectLastInSeq, Max
<1>2. \A x : TextGives(part, x) = InboundsOf(x)
  BY TextParts
<1> HIDE DEF part
<1>3. LT!Latest(part, list) = IF j = 0 THEN {} ELSE TextGives(part, list[j])
  BY DEF LT!Latest, LT!SelectLastInSeq, LT!Max
<1>4. I = J
  BY <1>2
<1>5. i = j
  <2> HIDE DEF I, J
  <2> QED BY <1>4
<1> HIDE DEF i, j
<1> QED BY <1>1, <1>2, <1>3, <1>5 DEF part

LEMMA LastFinalIs == \A list : LastGiven(list, Finals) = LT!Latest("final", list)
<1> SUFFICES ASSUME NEW list
             PROVE  LastGiven(list, Finals) = LT!Latest("final", list)
  OBVIOUS
<1> DEFINE part == "final"
           I == {i \in 1 .. Len(list) : Finals(list[i]) # {}}
           J == {i \in 1 .. Len(list) : TextGives(part, list[i]) # {}}
           Greatest(K) == CHOOSE k \in K : \A j \in K : k >= j
           i == IF I # {} THEN Greatest(I) ELSE 0
           j == IF J # {} THEN Greatest(J) ELSE 0
<1>1. LastGiven(list, Finals) = IF i = 0 THEN {} ELSE Finals(list[i])
  BY DEF LastGiven, SelectLastInSeq, Max
<1>2. \A x : TextGives(part, x) = Finals(x)
  BY TextParts
<1> HIDE DEF part
<1>3. LT!Latest(part, list) = IF j = 0 THEN {} ELSE TextGives(part, list[j])
  BY DEF LT!Latest, LT!SelectLastInSeq, LT!Max
<1>4. I = J
  BY <1>2
<1>5. i = j
  <2> HIDE DEF I, J
  <2> QED BY <1>4
<1> HIDE DEF i, j
<1> QED BY <1>1, <1>2, <1>3, <1>5 DEF part
\* The texts, and the patches they are taken for.
Taken(texts, list) ==
    /\ Len(texts) \in Nat /\ Len(list) = Len(texts)
    /\ \A i \in 1 .. Len(texts) : PatchOf(texts[i], list[i])

\* What the texts give last for a part is what their patches do.
LEMMA LastParts ==
    ASSUME NEW texts, NEW list, Taken(texts, list), NEW part,
           \A i \in 1 .. Len(texts) : list[i][part] = TextGives(part, texts[i])
    PROVE  LT!Latest(part, texts) = PP!LastPart(list, part)
<1> DEFINE Mine == LT!Gives(part, texts)
           Theirs == PP!L!Gives(PP!Giving(part), list)
<1>1. \A i \in 1 .. Len(texts) : PP!Found(PP!Giving(part), list[i]) = TextGives(part, texts[i])
  BY PP!FoundIs
<1>2. Theirs = Mine
  BY <1>1 DEF Taken, PP!L!Gives, LT!Gives
<1>3. Mine \subseteq 1 .. Len(texts)
  BY DEF LT!Gives
<1>4. Len(texts) \in Nat /\ Len(list) \in Nat
  BY DEF Taken
<1>5. LT!Latest(part, texts) = PP!L!Latest(PP!Giving(part), list)
  <2>1. CASE Mine = {}
    <3>1. LT!Latest(part, texts) = {}
      BY <1>4, <2>1, LT!LatestIs
    <3>2. PP!L!Latest(PP!Giving(part), list) = {}
      BY <1>2, <1>4, <2>1, PP!L!LatestIs
    <3> QED BY <3>1, <3>2
  <2>2. CASE Mine # {}
    <3>1. PICK i \in Mine :
             (\A j \in Mine : j <= i) /\ LT!Latest(part, texts) = TextGives(part, texts[i])
      BY <1>4, <2>2, LT!LatestIs
    <3>2. PICK k \in Theirs :
             /\ \A j \in Theirs : j <= k
             /\ PP!L!Latest(PP!Giving(part), list) = PP!Found(PP!Giving(part), list[k])
      BY <1>2, <1>4, <2>2, PP!L!LatestIs
    <3> HIDE DEF Mine, Theirs
    <3>3. i <= k /\ k <= i /\ i \in 1 .. Len(texts) /\ k \in 1 .. Len(texts)
      BY <1>2, <1>3, <3>1, <3>2
    <3>4. i = k
      BY <1>4, <3>3
    <3> QED BY <1>1, <3>1, <3>2, <3>3, <3>4
  <2> QED BY <2>1, <2>2
<1> QED BY <1>5, PP!LastPartIsLatest

\* The patches of the texts give the inbounds that the texts give, and the final policy.
LEMMA LastInbounds ==
    ASSUME NEW texts, NEW list, Taken(texts, list)
    PROVE  LastGiven(texts, InboundsOf) = PP!LastPart(list, "inbounds")
<1>1. \A i \in 1 .. Len(texts) : list[i]["inbounds"] = TextGives("inbounds", texts[i])
  BY TextParts DEF Taken, PatchOf
<1> QED BY <1>1, LastParts, LastInboundsAre

LEMMA LastFinal ==
    ASSUME NEW texts, NEW list, Taken(texts, list)
    PROVE  LastGiven(texts, Finals) = PP!LastPart(list, "final")
<1>1. \A i \in 1 .. Len(texts) : list[i]["final"] = TextGives("final", texts[i])
  BY TextParts DEF Taken, PatchOf, Finals
<1> QED BY <1>1, LastParts, LastFinalIs

\* The texts of the two lists, in the order of the lists.
LEMMA TextsTaken ==
    ASSUME NEW g, NEW l, IsList(Globals), IsList(Locals),
           Loading(Globals, Len(Globals), g), Loading(Locals, Len(Locals), l)
    PROVE  /\ Taken(Texts, g \o l) /\ Len(g) = Len(Globals) /\ IsList(g) /\ IsList(l)
           /\ Len(g \o l) = Len(g) + Len(l)
<1> DEFINE sources == Globals \o Locals
           all == g \o l
<1>1. /\ Len(Globals) \in Nat /\ Len(Locals) \in Nat
      /\ Len(g) = Len(Globals) /\ Len(l) = Len(Locals) /\ IsList(g) /\ IsList(l)
  BY PP!ListFacts, SameLists DEF Loading
<1>2. /\ Len(sources) = Len(Globals) + Len(Locals)
      /\ \A i \in 1 .. Len(Globals) : sources[i] = Globals[i]
      /\ \A i \in 1 .. Len(Locals) : sources[Len(Globals) + i] = Locals[i]
  BY PP!ConcatList, SameLists
<1>3. /\ Len(all) = Len(g) + Len(l)
      /\ \A i \in 1 .. Len(g) : all[i] = g[i]
      /\ \A i \in 1 .. Len(l) : all[Len(g) + i] = l[i]
  BY <1>1, PP!ConcatList, SameLists
<1>4. Texts = [i \in 1 .. Len(sources) |-> The(Loaded(sources[i].location))]
  <2>1. <<>> \o <<>> = <<>>
    BY EmptyList, ConcatEmpty
  <2> QED BY <2>1 DEF Texts, Globals, Locals
<1> HIDE DEF sources, all
<1>5. Len(sources) \in Nat
  BY <1>1, <1>2
<1>6. /\ Len(Texts) = Len(sources)
      /\ \A i \in 1 .. Len(sources) : Texts[i] = The(Loaded(sources[i].location))
  BY <1>4, <1>5
<1>7. ASSUME NEW i \in 1 .. Len(sources) PROVE PatchOf(Texts[i], all[i])
  <2>1. CASE i \in 1 .. Len(Globals)
    BY <1>1, <1>2, <1>3, <1>6, <2>1 DEF Loading
  <2>2. CASE i \notin 1 .. Len(Globals)
    <3>1. PICK j \in 1 .. Len(Locals) : i = Len(Globals) + j
      <4>1. i - Len(Globals) \in 1 .. Len(Locals) /\ i = Len(Globals) + (i - Len(Globals))
        BY <1>1, <1>2, <2>2
      <4> QED BY <4>1
    <3>2. sources[i] = Locals[j] /\ all[i] = l[j]
      BY <1>1, <1>2, <1>3, <3>1
    <3> QED BY <1>1, <1>6, <3>1, <3>2 DEF Loading
  <2> QED BY <2>1, <2>2
<1> QED BY <1>1, <1>2, <1>3, <1>5, <1>6, <1>7 DEF Taken, all

--------------------------------------------------------------------------------
(* What is told of inbounds. *)

\* Every inbound that others can reach is told of.
AllTold ==
    \A i \in 1 .. Len(E!EffectiveInbounds) :
        E!Exposed(E!EffectiveInbounds[i]) => <<"exposed", i>> \in told

\* They are once the inbounds are checked, which comes first.
ToldInv ==
    /\ handed = {} => encoding = "inbounds"
    /\ encoding \notin {"inbounds", "failed"} => AllTold

\* Nothing is checked yet.
LEMMA InitTold == Init => ToldInv
BY DEF Init, NothingHanded, E!Idle, ToldInv

\* CheckInbounds tells of them, and no other step of the encoder forgets it.
LEMMA EncodeTold ==
    ASSUME ToldInv, Encode
    PROVE  ToldInv'
<1>1. handed # {} /\ handed' = handed /\ E!EffectiveInbounds' = E!EffectiveInbounds
  BY DEF Encode, E!EffectiveInbounds
<1>2. CASE E!CheckInbounds
  <2>1. CASE encoding' = "failed"
    BY <1>1, <2>1 DEF ToldInv
  <2>2. CASE encoding' # "failed"
    <3> DEFINE inbounds == E!EffectiveInbounds
    <3>1. told' = {<<"exposed", i>> : i \in {j \in 1 .. Len(inbounds) : E!Exposed(inbounds[j])}}
      BY <1>2, <2>2 DEF E!CheckInbounds
    <3>2. inbounds' = inbounds
      BY <1>1
    <3> HIDE DEF inbounds
    <3>3. \A i \in 1 .. Len(inbounds) : E!Exposed(inbounds[i]) => <<"exposed", i>> \in told'
      BY <3>1
    <3> QED BY <1>1, <3>2, <3>3 DEF ToldInv, AllTold, inbounds
  <2> QED BY <2>1, <2>2
<1>3. CASE ~E!CheckInbounds
  <2>1. /\ told \subseteq told'
        /\ encoding' \in {"inbounds", "failed"} \/ encoding \notin {"inbounds", "failed"}
    BY <1>3
    DEF Encode, E!Next, E!KnownName, E!Collide, E!Allocate, E!AllNamed, E!ConvertNode, E!AllNodes,
        E!ConvertGroup, E!AllGroups, E!ConvertRule, E!AllRules, E!Finished, E!vars
  <2> QED BY <1>1, <2>1 DEF ToldInv, AllTold
<1> QED BY <1>2, <1>3

\* Every step keeps it.
LEMMA StepTold == ToldInv /\ DocInv /\ [Next]_vars => ToldInv'
<1> SUFFICES ASSUME ToldInv, DocInv, [Next]_vars PROVE ToldInv'
  OBVIOUS
<1>1. CASE StartEncoding
  <2>1. handed = {} /\ encoding' = "inbounds"
    BY <1>1 DEF StartEncoding, DocInv, encoderVars, ToldInv
  <2> QED BY <2>1 DEF ToldInv
<1>2. CASE EncodeDocument
  BY <1>2, EncodeTold DEF EncodeDocument
<1>3. CASE ~StartEncoding /\ ~EncodeDocument
  <2>1. UNCHANGED <<handed, encoding, told>>
    BY <1>3
    DEF Next, Configure, Register, Request, Decode, DecodeLines, Decoded, ApplyGlobal, ApplyLocal,
        ApplyPatches, Encoded, Finished, vars, encoderVars
  <2>2. E!EffectiveInbounds' = E!EffectiveInbounds
    BY <2>1 DEF E!EffectiveInbounds
  <2> QED BY <2>1, <2>2 DEF ToldInv, AllTold
<1> QED BY <1>1, <1>2, <1>3

\* What is handed over listens as the texts say.
LEMMA ListenersHold == DocInv /\ ToldInv => ListenersAsGiven
<1> SUFFICES ASSUME DocInv, ToldInv, Converted PROVE
        /\ E!EffectiveInbounds = LastSaid(InboundsOf, <<Tun("tun-in")>>)
        /\ \A i \in 1 .. Len(E!EffectiveInbounds) :
              LET inbound == E!EffectiveInbounds[i]
              IN  inbound.type # "tun" /\ inbound.listen = "open" /\ inbound.users = <<>>
                      => <<"exposed", i>> \in told
  BY DEF ListenersAsGiven
<1> DEFINE d == The(handed)
           last == LastGiven(Texts, InboundsOf)
<1>1. AllTold /\ AfterLocals(d)
  BY DEF Converted, DocInv, ToldInv
<1> HIDE DEF d
<1>2. PICK g, l : /\ Loading(Globals, Len(Globals), g) /\ Loading(Locals, Len(Locals), l)
                  /\ PP!Describes(d, Read, g \o l, l \o (g \o <<Read>>))
  BY <1>1 DEF AfterLocals
<1>3. last = PP!LastPart(g \o l, "inbounds")
  BY <1>1, <1>2, TextsTaken, LastInbounds DEF AfterLocals
<1>4. d.inbounds = IF last # {} THEN last ELSE {<<Tun("tun-in")>>}
  BY <1>2, <1>3, ReadFields DEF PP!Describes, PP!Else
<1> HIDE DEF last
<1>5. E!EffectiveInbounds = IF last = {} THEN <<Tun("tun-in")>> ELSE The(last)
  <2>1. d.inbounds # {}
    BY <1>4
  <2>2. E!EffectiveInbounds = The(d.inbounds)
    BY <2>1 DEF E!EffectiveInbounds, E!The, The, d
  <2> DEFINE tun == <<Tun("tun-in")>>
  <2> HIDE DEF tun
  <2>3. The({tun}) = tun
    BY DEF The
  <2> QED BY <1>4, <2>2, <2>3 DEF tun
<1>6. E!EffectiveInbounds = LastSaid(InboundsOf, <<Tun("tun-in")>>)
  BY <1>5 DEF LastSaid, last
<1>7. \A inbound : inbound.type # "tun" /\ inbound.listen = "open" /\ inbound.users = <<>>
          => E!Exposed(inbound)
  BY DEF E!Exposed
<1> QED BY <1>1, <1>6, <1>7 DEF AllTold

\* The inbounds of what is answered are those that the patch texts give, whatever they
\* are, and all that are open to others without users are told of.
THEOREM ListenersAreAsGiven == Spec => []ListenersAsGiven
<1>1. Init => ServedInv /\ DocInv /\ ToldInv
  BY InitServed, InitDoc, InitTold
<1>2. ServedInv /\ DocInv /\ ToldInv /\ [Next]_vars => (ServedInv /\ DocInv /\ ToldInv)'
  BY StepServed, StepDoc, StepTold
<1>3. ServedInv /\ DocInv /\ ToldInv => ListenersAsGiven
  BY ListenersHold
<1> QED BY <1>1, <1>2, <1>3, PTL DEF Spec

--------------------------------------------------------------------------------
(* What becomes of the nodes. *)

\* A patch defines a node as one of no line.
LEMMA PatchEntry ==
    ASSUME NEW texts, NEW list, Taken(texts, list), NEW n, NEW x \in PP!LastEntry(list, "nodes", n)
    PROVE  x.name = n /\ x.by = 0
<1> DEFINE asked == PP!Defining("nodes", n)
<1>1. Len(list) \in Nat /\ Len(list) = Len(texts)
  BY DEF Taken
<1>2. PP!L!Latest(asked, list) # {}
  BY PP!LastEntryIsLatest
<1>3. PICK i \in PP!L!Gives(asked, list) : PP!L!Latest(asked, list) = PP!Found(asked, list[i])
  BY <1>1, <1>2, PP!L!LatestIs
<1>4. i \in 1 .. Len(texts)
  BY <1>1, <1>3 DEF PP!L!Gives
<1> DEFINE made == list[i].nodes
<1>5. IsList(made) /\ Unlined(list[i])
  BY <1>4, SameLists DEF Taken, PatchOf, P!IsPatch
<1>6. x \in PP!Definition(made, n)
  BY <1>3, PP!LastEntryIsLatest, PP!FoundIs
<1> HIDE DEF made
<1>7. PICK k \in 1 .. Len(made) : made[k].name = n /\ PP!Definition(made, n) = {made[k]}
  BY <1>5, <1>6, PP!DefinitionFacts, SameLists
<1>8. x = made[k] /\ x \in Range(made)
  BY <1>5, <1>6, <1>7, PP!ListFacts, SameLists
<1> QED BY <1>5, <1>7, <1>8 DEF Unlined, made

\* A node that is decoded is handed over, or one of a patch that has its name.
LEMMA NodeSurvives ==
    ASSUME IsList(nodes), NEW d, AfterLocals(d), NEW j \in 1 .. Len(nodes),
           PP!OnceOf(nodes, nodes[j].name)
    PROVE  \/ \E k \in 1 .. Len(d.nodes) : d.nodes[k] = nodes[j]
           \/ \E x \in Range(d.nodes) : x.by = 0 /\ x.name = nodes[j].name
<1> DEFINE n == nodes[j].name
<1>1. PICK g, l : /\ Loading(Globals, Len(Globals), g) /\ Loading(Locals, Len(Locals), l)
                  /\ PP!Describes(d, Read, g \o l, l \o (g \o <<Read>>))
  BY DEF AfterLocals
<1>2. Taken(Texts, g \o l)
  BY <1>1, TextsTaken DEF AfterLocals
<1> DEFINE last == PP!LastEntry(g \o l, "nodes", n)
<1>3. IsList(d.nodes)
  BY <1>1, SameLists DEF PP!Describes, PP!IsDocument
<1>4. PP!Definition(d["nodes"], n) = PP!Else(last, PP!Definition(Read["nodes"], n))
  BY <1>1 DEF PP!Describes, PP!Sections
<1>5. PP!Definition(nodes, n) = {nodes[j]}
  <2>1. n \in PP!Names(nodes)
    BY DEF PP!Names
  <2>2. PICK i \in 1 .. Len(nodes) : nodes[i].name = n /\ PP!Definition(nodes, n) = {nodes[i]}
    BY <2>1, PP!DefinitionFacts, SameLists
  <2>3. i = j
    BY <2>2 DEF PP!OnceOf
  <2> QED BY <2>2, <2>3
<1>6. Read.nodes = nodes
  BY ReadFields
<1>7. PP!Definition(d.nodes, n) = IF last = {} THEN {nodes[j]} ELSE last
  BY <1>4, <1>5, <1>6 DEF PP!Else
<1>8. \A x \in last : x.name = n /\ x.by = 0
  BY <1>2, PatchEntry
<1> HIDE DEF last, n
<1>9. PICK x \in PP!Definition(d.nodes, n) : TRUE
  BY <1>7
<1>10. \E k \in 1 .. Len(d.nodes) : d.nodes[k] = x
  <2>1. n \in PP!Names(d.nodes)
    BY <1>3, <1>9, PP!DefinitionFacts, SameLists
  <2>2. PICK k \in 1 .. Len(d.nodes) : PP!Definition(d.nodes, n) = {d.nodes[k]}
    BY <1>3, <2>1, PP!DefinitionFacts, SameLists
  <2> QED BY <1>9, <2>2
<1>11. x \in Range(d.nodes)
  BY <1>3, <1>10, PP!ListFacts, SameLists
<1>12. CASE last = {}
  BY <1>7, <1>9, <1>10, <1>12
<1>13. CASE last # {}
  BY <1>7, <1>8, <1>9, <1>11, <1>13 DEF n
<1> QED BY <1>12, <1>13

\* No two nodes that are handed over have a name that no two have that are read.
LEMMA HandedOnce ==
    ASSUME NEW n, PP!OnceOf(nodes, n), NEW d, AfterLocals(d)
    PROVE  PP!OnceOf(d.nodes, n)
<1>1. PICK g, l : PP!Describes(d, Read, g \o l, l \o (g \o <<Read>>))
  BY DEF AfterLocals
<1>2. PP!OnceOf(Read["nodes"], n) => PP!OnceOf(d["nodes"], n)
  BY <1>1 DEF PP!Describes, PP!Sections
<1> QED BY <1>2, ReadFields

--------------------------------------------------------------------------------
(* What the rules of the texts ask for. *)

\* What a rule asks of traffic.
Asks(t, rule) == IF t \in rule.match THEN {[action |-> rule.action, target |-> rule.target]} ELSE {}

W == INSTANCE SequenceFacts WITH Of <- Asks

\* The rule, and what it asks for.
Means(x, y) ==
    \/ x = {} /\ y = {}
    \/ \E rule : x = {rule} /\ y = {[action |-> rule.action, target |-> rule.target]}

\* Both are there or neither is.
LEMMA MeansBoth == \A x, y : Means(x, y) => (x = {} <=> y = {})
BY DEF Means

\* A patch decides of traffic as the rules of its text do.
LEMMA RulesMean ==
    ASSUME NEW p, NEW wanted, Wants(p, wanted), NEW t
    PROVE  Means(PP!Deciding(p.rules, t), W!First(t, wanted))
<1> DEFINE rules_ == p.rules
           n == Len(wanted)
<1>1. n \in Nat /\ Len(p.rules) = n
  BY PP!ListFacts, SameLists DEF Wants
<1>2. \A i \in 1 .. n :
         /\ p.rules[i].match = wanted[i].match
         /\ p.rules[i].action = wanted[i].action
         /\ p.rules[i].target = wanted[i].target
  BY DEF Wants
<1>3. PP!L!Gives(PP!Matching(t), p.rules) = {i \in 1 .. n : t \in wanted[i].match}
  <2>1. \A x : PP!Found(PP!Matching(t), x) # {} <=> t \in x.match
    BY PP!FoundIs
  <2> QED BY <1>1, <1>2, <2>1 DEF PP!L!Gives
<1>4. W!Gives(t, wanted) = {i \in 1 .. n : t \in wanted[i].match}
  BY DEF W!Gives, Asks
<1> HIDE DEF n
<1>5. CASE W!Gives(t, wanted) = {}
  <2>1. W!First(t, wanted) = {}
    BY <1>1, <1>5, W!FirstIs DEF n
  <2>2. PP!L!First(PP!Matching(t), p.rules) = {}
    BY <1>1, <1>3, <1>4, <1>5, PP!L!FirstIs
  <2> QED BY <2>1, <2>2, PP!DecidingIsFirst, PP!FirstRuleIsFirst DEF Means
<1>6. CASE W!Gives(t, wanted) # {}
  <2>1. PICK i \in W!Gives(t, wanted) :
           (\A j \in W!Gives(t, wanted) : i <= j) /\ W!First(t, wanted) = Asks(t, wanted[i])
    BY <1>1, <1>6, W!FirstIs DEF n
  <2>2. PICK k \in PP!L!Gives(PP!Matching(t), p.rules) :
           /\ \A j \in PP!L!Gives(PP!Matching(t), p.rules) : k <= j
           /\ PP!L!First(PP!Matching(t), p.rules) = PP!Found(PP!Matching(t), p.rules[k])
    BY <1>1, <1>3, <1>4, <1>6, PP!L!FirstIs
  <2>3. i <= k /\ k <= i /\ i \in 1 .. n /\ k \in 1 .. n
    BY <1>3, <1>4, <2>1, <2>2
  <2>4. i = k
    BY <1>1, <2>3
  <2>5. t \in wanted[i].match
    BY <1>4, <2>1
  <2>6. W!First(t, wanted) = {[action |-> p.rules[i].action, target |-> p.rules[i].target]}
    BY <1>2, <2>1, <2>3, <2>5 DEF Asks
  <2>7. PP!L!First(PP!Matching(t), p.rules) = {p.rules[i]}
    BY <1>2, <2>2, <2>3, <2>4, <2>5, PP!FoundIs
  <2> QED BY <2>6, <2>7, PP!DecidingIsFirst, PP!FirstRuleIsFirst DEF Means
<1> QED BY <1>5, <1>6

\* x is what the first of n lists of rules asks for that asks for something.
Leads(s, n, t, x) ==
    \/ x = {} /\ \A k \in 1 .. n : W!First(t, s[k]) = {}
    \/ \E k \in 1 .. n : /\ x # {} /\ W!First(t, s[k]) = x
                         /\ \A j \in 1 .. n : j < k => W!First(t, s[j]) = {}

\* The first n lists, joined, decide as the first of them that decides.
JoinedUpTo(p, base, s, n, r) == IsList(r) /\ \A t : Leads(s, n, t, W!First(t, r))
Joining(p, r, x) == r \o x

CJ == INSTANCE FoldInduction WITH Op <- Joining, J <- JoinedUpTo

\* Lists are joined one after the other.
LEMMA ChainIsFold == \A lists : Chained(lists) = CJ!Fold({}, <<>>, lists)
BY DEF Chained, FoldLeft, MapThenFoldSet, Max, CJ!Fold, Joining

\* No list decides nothing.
LEMMA JoinedFirst == ASSUME NEW s PROVE JoinedUpTo({}, <<>>, s, 0, <<>>)
<1>1. \A t : W!First(t, <<>>) = {}
  BY W!Shortest
<1> QED BY <1>1, EmptyList DEF JoinedUpTo, Leads

\* One more list decides what those before it do not.
LEMMA JoinedNext ==
    ASSUME NEW s, NEW n \in Nat \ {0}, IsList(s[n]), NEW r, JoinedUpTo({}, <<>>, s, n - 1, r)
    PROVE  JoinedUpTo({}, <<>>, s, n, r \o s[n])
<1>1. IsList(r) /\ IsList(r \o s[n])
  BY PP!ConcatList, SameLists DEF JoinedUpTo
<1> DEFINE T == Range(r) \cup Range(s[n])
<1>2. r \in Seq(T) /\ s[n] \in Seq(T)
  BY <1>1 DEF IsList
<1> HIDE DEF T
<1>3. (n - 1) \in Nat /\ \A i \in 1 .. n : i = n \/ i \in 1 .. n - 1
  OBVIOUS
<1>4. \A i \in 1 .. n - 1 : i \in 1 .. n /\ i < n
  OBVIOUS
<1>5. n \in 1 .. n
  OBVIOUS
<1>6. ASSUME NEW t PROVE Leads(s, n, t, W!First(t, r \o s[n]))
  <2>1. W!First(t, r \o s[n]) = IF W!First(t, r) # {} THEN W!First(t, r) ELSE W!First(t, s[n])
    BY <1>2, W!FirstConcat
  <2>2. Leads(s, n - 1, t, W!First(t, r))
    BY DEF JoinedUpTo
  <2>3. CASE W!First(t, r) = {}
    <3>1. \A k \in 1 .. n - 1 : W!First(t, s[k]) = {}
      BY <2>2, <2>3 DEF Leads
    <3>2. \A k \in 1 .. n : k < n => W!First(t, s[k]) = {}
      <4>1. \A k \in 1 .. n : k < n => k \in 1 .. n - 1
        OBVIOUS
      <4> QED BY <3>1, <4>1
    <3> QED BY <1>3, <1>5, <2>1, <2>3, <3>1, <3>2 DEF Leads
  <2>4. CASE W!First(t, r) # {}
    <3>1. PICK k \in 1 .. n - 1 :
             /\ W!First(t, s[k]) = W!First(t, r)
             /\ \A j \in 1 .. n - 1 : j < k => W!First(t, s[j]) = {}
      BY <2>2, <2>4 DEF Leads
    <3>2. k \in 1 .. n /\ \A j \in 1 .. n : j < k => j \in 1 .. n - 1
      BY <1>4
    <3> QED BY <2>1, <2>4, <3>1, <3>2 DEF Leads
  <2> QED BY <2>3, <2>4
<1> QED BY <1>1, <1>6 DEF JoinedUpTo

\* The rules of patches, one list after the other.
LEMMA ChainMeans ==
    ASSUME NEW list, NEW s, Len(s) \in Nat, DOMAIN s = 1 .. Len(s), Len(list) = Len(s),
           \A i \in 1 .. Len(s) : Wants(list[i], s[i])
    PROVE  /\ IsList(Chained(s))
           /\ \A t : Means(PP!FirstRule(list, t), W!First(t, Chained(s)))
<1>1. \A i \in 1 .. Len(s) : IsList(s[i]) /\ i \in Nat \ {0}
  BY DEF Wants
<1>2. \A i \in 1 .. Len(s) : \A r : JoinedUpTo({}, <<>>, s, i - 1, r)
         => JoinedUpTo({}, <<>>, s, i, Joining({}, r, s[i]))
  BY <1>1, JoinedNext DEF Joining
<1> DEFINE chain == Chained(s)
<1>3. JoinedUpTo({}, <<>>, s, Len(s), chain)
  <2>1. JoinedUpTo({}, <<>>, s, Len(s), CJ!Fold({}, <<>>, s))
    BY <1>2, JoinedFirst, CJ!FoldKeeps
  <2> QED BY <2>1, ChainIsFold
<1> HIDE DEF chain
<1>4. ASSUME NEW t PROVE Means(PP!FirstRule(list, t), W!First(t, chain))
  <2>1. \A i \in 1 .. Len(s) : Means(PP!Found(PP!Ruling(t), list[i]), W!First(t, s[i]))
    BY RulesMean, PP!FoundIs
  <2>2. PP!L!Gives(PP!Ruling(t), list) = {i \in 1 .. Len(s) : W!First(t, s[i]) # {}}
    BY <2>1, MeansBoth DEF PP!L!Gives
  <2>3. Leads(s, Len(s), t, W!First(t, chain))
    BY <1>3 DEF JoinedUpTo
  <2>4. CASE PP!L!Gives(PP!Ruling(t), list) = {}
    <3>1. PP!L!First(PP!Ruling(t), list) = {}
      BY <2>4, PP!L!FirstIs
    <3>2. W!First(t, chain) = {}
      BY <2>2, <2>3, <2>4 DEF Leads
    <3> QED BY <3>1, <3>2, PP!DecidingIsFirst, PP!FirstRuleIsFirst DEF Means
  <2>5. CASE PP!L!Gives(PP!Ruling(t), list) # {}
    <3>1. PICK i \in PP!L!Gives(PP!Ruling(t), list) :
             /\ \A j \in PP!L!Gives(PP!Ruling(t), list) : i <= j
             /\ PP!L!First(PP!Ruling(t), list) = PP!Found(PP!Ruling(t), list[i])
      BY <2>5, PP!L!FirstIs
    <3>2. i \in 1 .. Len(s) /\ W!First(t, s[i]) # {}
      BY <2>2, <3>1
    <3>3. PICK k \in 1 .. Len(s) :
             /\ W!First(t, chain) # {} /\ W!First(t, s[k]) = W!First(t, chain)
             /\ \A j \in 1 .. Len(s) : j < k => W!First(t, s[j]) = {}
      BY <2>3, <3>2 DEF Leads
    <3>4. i <= k /\ ~(i < k)
      BY <2>2, <3>1, <3>2, <3>3
    <3>5. i = k
      BY <3>2, <3>4
    <3> QED BY <2>1, <3>1, <3>2, <3>3, <3>5, PP!DecidingIsFirst, PP!FirstRuleIsFirst
  <2> QED BY <2>4, <2>5
<1> QED BY <1>3, <1>4 DEF JoinedUpTo, chain

\* The first of two, as a rule and as what it asks.
LEMMA MeansEither ==
    ASSUME NEW a, NEW b, NEW x, NEW y, Means(a, x), Means(b, y)
    PROVE  Means(IF a # {} THEN a ELSE b, IF x # {} THEN x ELSE y)
BY MeansBoth

\* What the texts ask for is what the rules of the document say.
LEMMA RulesAsked ==
    ASSUME NEW d, AfterLocals(d)
    PROVE  /\ IsList(RulesWanted)
           /\ \A t : Means(PP!Deciding(d.rules, t), W!First(t, RulesWanted))
           /\ d.final = LastSaid(Finals, DefaultFinal)
<1>1. PICK g, l : /\ Loading(Globals, Len(Globals), g) /\ Loading(Locals, Len(Locals), l)
                  /\ PP!Describes(d, Read, g \o l, l \o (g \o <<Read>>))
  BY DEF AfterLocals
<1> DEFINE all == g \o l
           m == Len(g)
           n == Len(l)
           sg == [i \in 1 .. m |-> RouteOf(Texts[i]).rules]
           sl == [i \in 1 .. n |-> RouteOf(Texts[m + i]).rules]
<1>2. /\ Taken(Texts, all) /\ m = Len(Globals) /\ IsList(g) /\ IsList(l) /\ Len(all) = m + n
  BY <1>1, TextsTaken DEF AfterLocals
<1>3. m \in Nat /\ n \in Nat /\ Len(Texts) = m + n
  BY <1>2, PP!ListFacts, SameLists DEF Taken
<1>4. /\ \A i \in 1 .. m : all[i] = g[i]
      /\ \A i \in 1 .. n : all[m + i] = l[i]
  BY <1>2, PP!ConcatList, SameLists
<1> HIDE DEF all
<1>5. \A i \in 1 .. m + n : Wants(all[i], RouteOf(Texts[i]).rules)
  BY <1>2, <1>3 DEF Taken, PatchOf
<1>6. \A t : PP!Deciding(d.rules, t) =
          IF PP!FirstRule(l, t) # {} THEN PP!FirstRule(l, t) ELSE PP!FirstRule(g, t)
  <2> SUFFICES ASSUME NEW t
               PROVE  PP!Deciding(d.rules, t) =
                         IF PP!FirstRule(l, t) # {} THEN PP!FirstRule(l, t) ELSE PP!FirstRule(g, t)
    OBVIOUS
  <2> DEFINE read == <<Read>>
             rest == g \o read
             T == Range(g) \cup Range(l) \cup {Read}
  <2>1. g \in Seq(T) /\ l \in Seq(T) /\ read \in Seq(T)
    BY <1>2 DEF IsList
  <2>2. rest \in Seq(T)
    BY <2>1
  <2>3. PP!Deciding(d.rules, t) = PP!FirstRule(l \o rest, t)
    BY <1>1 DEF PP!Describes
  <2>4. PP!FirstRule(read, t) = {}
    <3>1. PP!FirstRule(<<Read>>, t) = PP!Deciding(Read.rules, t)
      BY PP!L!Shortest, PP!FirstRuleIsFirst, PP!FoundIs
    <3> QED BY <3>1, PP!NothingDecides, ReadFields
  <2> HIDE DEF T, read
  <2>5. PP!FirstRule(rest, t) =
           IF PP!FirstRule(g, t) # {} THEN PP!FirstRule(g, t) ELSE PP!FirstRule(read, t)
    BY <2>1, PP!MorePatches
  <2> HIDE DEF rest
  <2>6. PP!FirstRule(l \o rest, t) =
           IF PP!FirstRule(l, t) # {} THEN PP!FirstRule(l, t) ELSE PP!FirstRule(rest, t)
    BY <2>1, <2>2, PP!MorePatches
  <2> QED BY <2>3, <2>4, <2>5, <2>6
<1>7. /\ IsList(Chained(sg)) /\ \A t : Means(PP!FirstRule(g, t), W!First(t, Chained(sg)))
  <2>1. \A i \in 1 .. m : i \in 1 .. m + n
    BY <1>3
  <2>2. \A i \in 1 .. m : Wants(g[i], RouteOf(Texts[i]).rules)
    BY <1>4, <1>5, <2>1
  <2>3. Len(sg) = m /\ DOMAIN sg = 1 .. m /\ \A i \in 1 .. m : sg[i] = RouteOf(Texts[i]).rules
    BY <1>3
  <2> HIDE DEF sg
  <2> QED BY <1>3, <2>2, <2>3, ChainMeans
<1>8. /\ IsList(Chained(sl)) /\ \A t : Means(PP!FirstRule(l, t), W!First(t, Chained(sl)))
  <2>1. \A i \in 1 .. n : m + i \in 1 .. m + n
    BY <1>3
  <2>2. \A i \in 1 .. n : Wants(l[i], RouteOf(Texts[m + i]).rules)
    BY <1>4, <1>5, <2>1
  <2>3. Len(sl) = n /\ DOMAIN sl = 1 .. n /\ \A i \in 1 .. n : sl[i] = RouteOf(Texts[m + i]).rules
    BY <1>3
  <2> HIDE DEF sl
  <2> QED BY <1>3, <2>2, <2>3, ChainMeans
<1>9. RulesWanted = Chained(sl) \o Chained(sg)
  <2> DEFINE global == IF setup.command = "convert" THEN 0 ELSE Len(The(config).patches)
             rules_(from, to) == [i \in 1 .. to - from + 1 |-> RouteOf(Texts[from + i - 1]).rules]
  <2>1. global = m
    BY <1>2, EmptyList DEF Globals
  <2>2. RulesWanted = Chained(rules_(global + 1, Len(Texts))) \o Chained(rules_(1, global))
    BY DEF RulesWanted
  <2> HIDE DEF global
  <2>3. rules_(m + 1, m + n) = sl
    <3>1. (m + n) - (m + 1) + 1 = n /\ \A i \in 1 .. n : (m + 1) + i - 1 = m + i
      BY <1>3
    <3> HIDE DEF m, n
    <3> QED BY <3>1
  <2>4. rules_(1, m) = sg
    <3>1. m - 1 + 1 = m /\ \A i \in 1 .. m : 1 + i - 1 = i
      BY <1>3
    <3> HIDE DEF m, n
    <3> QED BY <3>1
  <2> HIDE DEF rules_, m, n, sl, sg
  <2> QED BY <1>3, <2>1, <2>2, <2>3, <2>4
<1>10. ASSUME NEW t PROVE Means(PP!Deciding(d.rules, t), W!First(t, RulesWanted))
  <2> DEFINE a == Chained(sl)
             b == Chained(sg)
             T == Range(a) \cup Range(b)
  <2> HIDE DEF sl, sg
  <2>1. a \in Seq(T) /\ b \in Seq(T)
    BY <1>7, <1>8 DEF IsList
  <2> HIDE DEF T
  <2>2. W!First(t, a \o b) = IF W!First(t, a) # {} THEN W!First(t, a) ELSE W!First(t, b)
    BY <2>1, W!FirstConcat
  <2>3. Means(PP!FirstRule(l, t), W!First(t, a)) /\ Means(PP!FirstRule(g, t), W!First(t, b))
    BY <1>7, <1>8
  <2>4. RulesWanted = a \o b
    BY <1>9
  <2> HIDE DEF a, b
  <2>5. PP!Deciding(d.rules, t) =
           IF PP!FirstRule(l, t) # {} THEN PP!FirstRule(l, t) ELSE PP!FirstRule(g, t)
    BY <1>6
  <2>6. Means(IF PP!FirstRule(l, t) # {} THEN PP!FirstRule(l, t) ELSE PP!FirstRule(g, t),
              IF W!First(t, a) # {} THEN W!First(t, a) ELSE W!First(t, b))
    BY <2>3, MeansEither
  <2> QED BY <2>2, <2>4, <2>5, <2>6
<1>11. d.final = LastSaid(Finals, DefaultFinal)
  <2> DEFINE last == LastGiven(Texts, Finals)
  <2>1. last = PP!LastPart(all, "final")
    BY <1>2, LastFinal
  <2>2. {d.final} = IF last = {} THEN {DefaultFinal} ELSE last
    BY <1>1, <2>1, ReadFields DEF PP!Describes, PP!Else, all
  <2>3. LastSaid(Finals, DefaultFinal) = IF last = {} THEN DefaultFinal ELSE The(last)
    BY DEF LastSaid
  <2> HIDE DEF last
  <2>4. CASE last = {}
    BY <2>2, <2>3, <2>4
  <2>5. CASE last # {}
    <3>1. The(last) = d.final
      BY <2>2, <2>5 DEF The
    <3> QED BY <2>3, <2>5, <3>1
  <2> QED BY <2>4, <2>5
<1>12. IsList(RulesWanted)
  <2> HIDE DEF sl, sg
  <2> QED BY <1>7, <1>8, <1>9, PP!ConcatList, SameLists
<1> QED BY <1>10, <1>11, <1>12

\* What is asked for, and what is done.
LEMMA AskedIs ==
    ASSUME NEW list, IsList(list), NEW t, NEW policy
    PROVE  /\ W!First(t, list) = {} => Asked(list, t, policy) = [action |-> "route", target |-> policy]
           /\ \A x : W!First(t, list) = {x} => Asked(list, t, policy) = x
<1> DEFINE I == {i \in 1 .. Len(list) : t \in list[i].match}
           i == IF I # {} THEN CHOOSE k \in I : \A j \in I : k <= j ELSE 0
<1>1. Asked(list, t, policy) = IF i = 0 THEN [action |-> "route", target |-> policy]
                               ELSE [action |-> list[i].action, target |-> list[i].target]
  BY DEF Asked, First, SelectInSeq, Min
<1>2. W!Gives(t, list) = I
  BY DEF W!Gives, Asks
<1>3. Len(list) \in Nat
  BY PP!ListFacts, SameLists
<1>4. CASE I = {}
  <2>1. W!First(t, list) = {}
    BY <1>2, <1>3, <1>4, W!FirstIs
  <2> QED BY <1>1, <1>4, <2>1
<1>5. CASE I # {}
  <2> HIDE DEF I
  <2>1. PICK k \in I : (\A j \in I : k <= j) /\ W!First(t, list) = Asks(t, list[k])
    BY <1>2, <1>3, <1>5, W!FirstIs
  <2>2. I \subseteq 1 .. Len(list) /\ t \in list[k].match
    BY <2>1 DEF I
  <2>3. \A l \in I : (\A j \in I : l <= j) => l = k
    BY <1>3, <2>1, <2>2
  <2>4. i = k
    BY <1>5, <2>1, <2>3
  <2> HIDE DEF i
  <2>5. i # 0
    <3>1. k \in 1 .. Len(list)
      BY <2>1, <2>2
    <3>2. k # 0
      BY <3>1
    <3> QED BY <2>4, <3>2
  <2>6. W!First(t, list) = {[action |-> list[k].action, target |-> list[k].target]}
    BY <2>1, <2>2 DEF Asks
  <2> QED BY <1>1, <2>4, <2>5, <2>6
<1> QED BY <1>4, <1>5

--------------------------------------------------------------------------------
(* What the patches decide. *)

\* Traffic t meets what the first rule of the document that matches says, or the
\* final outbound.
Met(t) ==
    LET d == The(handed)
        kept == {i \in 1 .. Len(d.rules) : t \in d.rules[i].match}
        rule == d.rules[Min(kept)]
    IN  IF kept = {} THEN Done(t) = [action |-> "route", outbound |-> final]
        ELSE /\ Done(t).action = rule.action
             /\ rule.action = "route" => E!StandsFor(Done(t).outbound, rule.target)

LEMMA LeastIs ==
    ASSUME NEW S \in SUBSET Nat, NEW i \in S, \A j \in S : i <= j
    PROVE  Min(S) = i
<1>1. Min(S) \in S /\ \A j \in S : Min(S) <= j
  BY DEF Min
<1>2. Min(S) \in Nat /\ i \in Nat /\ i <= Min(S) /\ Min(S) <= i
  BY <1>1
<1> QED BY <1>2

\* The rule of the document that traffic meets is the one that the texts ask for.
LEMMA ObeyHolds ==
    ASSUME DocInv, Converted, E!StandsFor(final, The(handed).final),
           \A t \in Traffic \ (DnsTraffic \cup PrivateTraffic) : Met(t)
    PROVE  Obeyed(RulesWanted, LastSaid(Finals, DefaultFinal))
<1> DEFINE d == The(handed)
           policy == LastSaid(Finals, DefaultFinal)
<1>1. AfterLocals(d)
  BY DEF Converted, DocInv
<1>2. d.final = policy /\ IsList(RulesWanted)
  BY <1>1, RulesAsked
<1> SUFFICES ASSUME NEW t \in Traffic \ (DnsTraffic \cup PrivateTraffic)
             PROVE  LET asked == Asked(RulesWanted, t, policy)
                    IN  /\ Done(t).action = asked.action
                        /\ asked.action = "route" => E!StandsFor(Done(t).outbound, asked.target)
  BY DEF Obeyed
<1> DEFINE kept == {i \in 1 .. Len(d.rules) : t \in d.rules[i].match}
           rule == d.rules[Min(kept)]
           asked == Asked(RulesWanted, t, policy)
<1>3. IF kept = {} THEN Done(t) = [action |-> "route", outbound |-> final]
      ELSE /\ Done(t).action = rule.action
           /\ rule.action = "route" => E!StandsFor(Done(t).outbound, rule.target)
  BY DEF Met
<1>4. E!StandsFor(final, policy)
  BY <1>2
<1> HIDE DEF policy, d
<1>5. PP!Deciding(d.rules, t) = IF kept = {} THEN {} ELSE {rule}
  <2>1. PP!IsDocument(d)
    BY <1>1 DEF AfterLocals, PP!Describes
  <2>2. IsList(d.rules)
    BY <2>1, SameLists DEF PP!IsDocument
  <2>3. Len(d.rules) \in Nat
    BY <2>2, PP!ListFacts, SameLists
  <2>4. PP!L!Gives(PP!Matching(t), d.rules) = kept
    <3>1. \A x : PP!Found(PP!Matching(t), x) # {} <=> t \in x.match
      BY PP!FoundIs
    <3> QED BY <3>1 DEF PP!L!Gives
  <2>5. kept \subseteq Nat
    OBVIOUS
  <2>6. CASE kept = {}
    BY <2>3, <2>4, <2>6, PP!DecidingIsFirst, PP!L!FirstIs
  <2>7. CASE kept # {}
    <3>1. PICK k \in kept :
             /\ \A j \in kept : k <= j
             /\ PP!L!First(PP!Matching(t), d.rules) = PP!Found(PP!Matching(t), d.rules[k])
      BY <2>3, <2>4, <2>7, PP!L!FirstIs
    <3>2. t \in d.rules[k].match
      BY <3>1
    <3> HIDE DEF kept
    <3>3. Min(kept) = k
      BY <2>5, <3>1, LeastIs
    <3> QED BY <2>7, <3>1, <3>2, <3>3, PP!DecidingIsFirst, PP!FoundIs
  <2> QED BY <2>6, <2>7
<1>6. Means(PP!Deciding(d.rules, t), W!First(t, RulesWanted))
  BY <1>1, RulesAsked
<1> HIDE DEF kept, rule
<1>7. CASE kept = {}
  <2>1. W!First(t, RulesWanted) = {}
    BY <1>5, <1>6, <1>7, MeansBoth
  <2>2. asked = [action |-> "route", target |-> policy]
    BY <1>2, <2>1, AskedIs
  <2> QED BY <1>3, <1>4, <1>7, <2>2
<1>8. CASE kept # {}
  <2>1. PP!Deciding(d.rules, t) = {rule}
    BY <1>5, <1>8
  <2>2. W!First(t, RulesWanted) = {[action |-> rule.action, target |-> rule.target]}
    BY <1>6, <2>1 DEF Means
  <2>3. asked = [action |-> rule.action, target |-> rule.target]
    BY <1>2, <2>2, AskedIs
  <2> QED BY <1>3, <1>8, <2>3
<1> QED BY <1>7, <1>8

--------------------------------------------------------------------------------
(* The outbounds of the nodes. *)

\* A node that no warning tells of has one outbound, when nothing shares its name.
NodesServed ==
    \A k \in 1 .. Len(The(handed).nodes) :
        PP!OnceOf(nodes, The(handed).nodes[k].name) /\ GroupsApart(The(handed).nodes[k])
            /\ <<"node", k>> \notin told =>
            Cardinality({o \in DOMAIN outbounds :
                             outbounds[o].tag = tags[The(handed).nodes[k].name]}) = 1

\* The node of a line is in the document, and has its outbound.
LEMMA URIsHold ==
    ASSUME DocInv, LinesInv, Converted => NodesServed
    PROVE  EveryURIHasItsOutbound
<1> DEFINE d == The(handed)
           served(i) ==
               \E k \in 1 .. Len(The(handed).nodes) :
                  LET node == The(handed).nodes[k]
                  IN  /\ node.by = i
                      /\ \/ <<"node", k>> \in told
                         \/ ~GroupsApart(node)
                         \/ Cardinality({o \in DOMAIN outbounds :
                                outbounds[o].tag = tags[node.name]}) = 1
           replaced(i) ==
               \E node \in Range(nodes), other \in Range(The(handed).nodes) :
                  node.by = i /\ other.by = 0 /\ other.name = node.name
<1> SUFFICES ASSUME Converted, NEW i \in 1 .. Len(lines), NamedApart(i)
             PROVE  (i \in skipped /\ ~Usable(lines[i])) \/ served(i) \/ replaced(i)
  BY DEF EveryURIHasItsOutbound
<1>1. AfterLocals(d) /\ IsList(nodes)
  BY DEF Converted, DocInv
<1>2. handed # {}
  BY DEF Converted
<1>3. \A j \in 1 .. Len(nodes) : nodes[j].by = i => PP!OnceOf(nodes, nodes[j].name)
  BY DEF NamedApart, PP!OnceOf
<1>4. NodesServed
  OBVIOUS
<1>5. Answers(lines, nodes, skipped, i)
  BY <1>2 DEF LinesInv
<1>6. ASSUME NEW j \in 1 .. Len(nodes), nodes[j].by = i PROVE served(i) \/ replaced(i)
  <2>1. nodes[j] \in Range(nodes)
    BY <1>1, PP!ListFacts, SameLists
  <2>2. CASE \E x \in Range(d.nodes) : x.by = 0 /\ x.name = nodes[j].name
    BY <1>6, <2>1, <2>2
  <2>3. CASE \E k \in 1 .. Len(d.nodes) : d.nodes[k] = nodes[j]
    <3>1. PICK k \in 1 .. Len(d.nodes) : d.nodes[k] = nodes[j]
      BY <2>3
    <3>2. CASE <<"node", k>> \in told
      BY <1>6, <3>1, <3>2
    <3>3. CASE ~GroupsApart(d.nodes[k])
      BY <1>6, <3>1, <3>3
    <3>4. CASE <<"node", k>> \notin told /\ GroupsApart(d.nodes[k])
      <4>1. Cardinality({o \in DOMAIN outbounds : outbounds[o].tag = tags[d.nodes[k].name]}) = 1
        BY <1>3, <1>4, <1>6, <3>1, <3>4 DEF NodesServed
      <4> QED BY <1>6, <3>1, <4>1
    <3> QED BY <3>2, <3>3, <3>4
  <2> QED BY <1>1, <1>3, <1>6, <2>2, <2>3, NodeSurvives
<1> HIDE DEF served, replaced
<1> QED BY <1>5, <1>6 DEF Answers

--------------------------------------------------------------------------------
(* The encoder of this program is the one that SingBoxEncodeProofs is about. *)

EP == INSTANCE SingBoxEncodeProofs WITH
        Documents <- {}, doc <- The(handed), pc <- encoding, next <- step,
        warnings <- told, Dns <- DnsTraffic, Private <- PrivateTraffic,
        Renamed <- TagRenamed

\* The encoder that has not begun.
LEMMA SameIdle == E!Idle <=> EP!Idle
BY DEF E!Idle, EP!Idle

\* How its lists are searched.
LEMMA SameFolds ==
    /\ \A o : E!The(o) = EP!The(o)
    /\ \A x : E!Range(x) = EP!Range(x)
    /\ \A a, b : E!FirstNonEmpty(a, b) = EP!FirstNonEmpty(a, b)
    /\ \A those, list : E!Picked(those, list) = EP!Picked(those, list)
    /\ \A x : E!ValidInbounds(x) <=> EP!ValidInbounds(x)
<1>1. \A o : E!The(o) = EP!The(o)
  BY DEF E!The, EP!The
<1>2. \A x : E!Range(x) = EP!Range(x)
  BY DEF E!Range, EP!Range
<1>3. \A a, b : E!FirstNonEmpty(a, b) = EP!FirstNonEmpty(a, b)
  BY DEF E!FirstNonEmpty, EP!FirstNonEmpty
<1>4. \A those, list : E!Picked(those, list) = EP!Picked(those, list)
  BY DEF E!Picked, EP!Picked, E!FoldLeft, EP!FoldLeft, E!MapThenFoldSet, EP!MapThenFoldSet,
         E!Max, EP!Max
<1>5. \A x : E!ValidInbounds(x) <=> EP!ValidInbounds(x)
  BY DEF E!ValidInbounds, EP!ValidInbounds, E!ValidInbound, EP!ValidInbound, E!UniqueTags,
         EP!UniqueTags, E!ValidUsers, EP!ValidUsers, E!The, EP!The
<1> QED BY <1>1, <1>2, <1>3, <1>4, <1>5

\* How tags are given.
LEMMA SameTagging ==
    E!KnownName \/ E!Collide \/ E!Allocate \/ E!AllNamed
        => EP!KnownName \/ EP!Collide \/ EP!Allocate \/ EP!AllNamed
<1>1. E!Named = EP!Named /\ E!NameAt(step + 1) = EP!NameAt(step + 1)
  BY DEF E!Named, EP!Named, E!NameAt, EP!NameAt
<1>2. E!Candidate = EP!Candidate /\ E!Used = EP!Used
  BY <1>1 DEF E!Candidate, EP!Candidate, E!Used, EP!Used, E!Base, EP!Base, E!Reserved, EP!Reserved
<1>3. E!KnownName => EP!KnownName
  BY <1>1 DEF E!KnownName, EP!KnownName
<1>4. E!Collide => EP!Collide
  BY <1>1, <1>2 DEF E!Collide, EP!Collide
<1>5. E!Allocate => EP!Allocate
  BY <1>1, <1>2 DEF E!Allocate, EP!Allocate
<1>6. E!AllNamed => EP!AllNamed
  BY <1>1 DEF E!AllNamed, EP!AllNamed
<1> QED BY <1>3, <1>4, <1>5, <1>6

\* The check of the inbounds.
LEMMA SameChecking == E!CheckInbounds => EP!CheckInbounds
<1>1. E!EffectiveInbounds = EP!EffectiveInbounds
  BY SameFolds DEF E!EffectiveInbounds, EP!EffectiveInbounds
<1>2. \A inbound : E!Exposed(inbound) <=> EP!Exposed(inbound)
  BY DEF E!Exposed, EP!Exposed
<1> QED BY <1>1, <1>2, SameFolds DEF E!CheckInbounds, EP!CheckInbounds

\* The servers and rules of DNS.
LEMMA SameDNS ==
    /\ E!EffectiveDNS = EP!EffectiveDNS /\ E!Resolver = EP!Resolver
    /\ \A node : E!ResolverOf(node) = EP!ResolverOf(node)
    /\ \A type, tag, server, members, detour, resolver :
          E!Outbound(type, tag, server, members, detour, resolver)
             = EP!Outbound(type, tag, server, members, detour, resolver)
<1>1. E!EffectiveDNS = EP!EffectiveDNS
  BY DEF E!EffectiveDNS, EP!EffectiveDNS, E!DefaultDNS, EP!DefaultDNS, E!Server, EP!Server
<1>2. E!Resolver = EP!Resolver
  BY <1>1, SameFolds DEF E!Resolver, EP!Resolver
<1>3. \A node : E!ResolverOf(node) = EP!ResolverOf(node)
  BY <1>2 DEF E!ResolverOf, EP!ResolverOf
<1>4. \A type, tag, server, members, detour, resolver :
          E!Outbound(type, tag, server, members, detour, resolver)
             = EP!Outbound(type, tag, server, members, detour, resolver)
  BY DEF E!Outbound, EP!Outbound
<1> QED BY <1>1, <1>2, <1>3, <1>4

\* The conversion of a node.
LEMMA SameNodes == E!ConvertNode \/ E!AllNodes => EP!ConvertNode \/ EP!AllNodes
<1>1. E!ConvertNode => EP!ConvertNode
  BY SameDNS DEF E!ConvertNode, EP!ConvertNode
<1>2. E!AllNodes => EP!AllNodes
  BY SameDNS DEF E!AllNodes, EP!AllNodes
<1> QED BY <1>1, <1>2

\* The members of a group.
LEMMA SameMembers ==
    /\ \A m : E!KnownMember(m) <=> EP!KnownMember(m)
    /\ \A group : E!Members(group) = EP!Members(group)
<1>1. \A m : E!KnownMember(m) <=> EP!KnownMember(m)
  BY DEF E!KnownMember, EP!KnownMember
<1>2. \A m : E!MemberTag(m) = EP!MemberTag(m)
  BY DEF E!MemberTag, EP!MemberTag
<1>3. ASSUME NEW group PROVE E!Members(group) = EP!Members(group)
  <2> DEFINE those == {x \in E!Range(group.members) : E!KnownMember(x)}
  <2>1. those = {x \in EP!Range(group.members) : EP!KnownMember(x)}
    BY <1>1, SameFolds
  <2>2. E!Members(group) = [i \in 1 .. Len(E!Picked(those, group.members)) |->
                               E!MemberTag(E!Picked(those, group.members)[i])]
    BY DEF E!Members, E!Selected
  <2>3. EP!Members(group) = [i \in 1 .. Len(EP!Picked(those, group.members)) |->
                               EP!MemberTag(EP!Picked(those, group.members)[i])]
    BY <2>1 DEF EP!Members, EP!Selected
  <2> HIDE DEF those
  <2> QED BY <1>2, <2>2, <2>3, SameFolds
<1> QED BY <1>1, <1>3

\* What an outbound stands for.
LEMMA SameStanding == \A t, policy : E!StandsFor(t, policy) <=> EP!StandsFor(t, policy)
<1>1. \A t : E!Tagged(t) = EP!Tagged(t)
  BY SameFolds DEF E!Tagged, EP!Tagged, E!Outbounds, EP!Outbounds
<1>2. \A t : E!Skipped(t) <=> EP!Skipped(t)
  BY DEF E!Skipped, EP!Skipped
<1> QED BY <1>1, <1>2, SameMembers DEF E!StandsFor, EP!StandsFor

\* The conversion of a rule.
LEMMA SameRules == E!ConvertRule => EP!ConvertRule
<1>1. \A policy : E!PolicyTag(policy) = EP!PolicyTag(policy)
  BY DEF E!PolicyTag, EP!PolicyTag
<1>2. \A rule : E!Routed(rule) = EP!Routed(rule)
  BY <1>1 DEF E!Routed, EP!Routed
<1> QED BY <1>2 DEF E!ConvertRule, EP!ConvertRule

\* The hops of a relay group.
LEMMA SameHops == ASSUME NEW group PROVE E!Hops(group) = EP!Hops(group)
<1> DEFINE called(m) == E!SelectLastInSeq(The(handed).nodes, LAMBDA n : n.supported /\ n.name = m)
           same(m) == EP!SelectLastInSeq(The(handed).nodes, LAMBDA n : n.supported /\ n.name = m)
           hop(i) == E!Outbound("node", E!HopTag(group, i), group.members[i], <<>>,
                                IF i = 1 THEN "" ELSE E!HopTag(group, i - 1),
                                E!ResolverOf(The(handed).nodes[called(group.members[i])]))
           next(i) == EP!Outbound("node", EP!HopTag(group, i), group.members[i], <<>>,
                                IF i = 1 THEN "" ELSE EP!HopTag(group, i - 1),
                                EP!ResolverOf(The(handed).nodes[same(group.members[i])]))
           n == Len(group.members)
<1>1. \A i : E!HopTag(group, i) = EP!HopTag(group, i)
  BY DEF E!HopTag, EP!HopTag
<1>2. \A m : called(m) = same(m)
  BY DEF E!SelectLastInSeq, EP!SelectLastInSeq, E!Max, EP!Max
<1>3. E!Hops(group) = [i \in 1 .. n |-> hop(i)]
  BY DEF E!Hops
<1>4. EP!Hops(group) = [i \in 1 .. n |-> next(i)]
  BY DEF EP!Hops
<1> HIDE DEF called, same
<1>5. ASSUME NEW i PROVE hop(i) = next(i)
  <2>1. /\ E!HopTag(group, i) = EP!HopTag(group, i)
        /\ E!HopTag(group, i - 1) = EP!HopTag(group, i - 1)
        /\ called(group.members[i]) = same(group.members[i])
    BY <1>1, <1>2
  <2> QED BY <2>1, SameDNS
<1> HIDE DEF hop, next, n
<1> QED BY <1>3, <1>4, <1>5

\* The outbounds of a group.
LEMMA SameConverted == ASSUME NEW group PROVE E!Converted(group) = EP!Converted(group)
<1>1. E!TypeOf(group) = EP!TypeOf(group)
  BY DEF E!TypeOf, EP!TypeOf
<1> QED BY <1>1, SameHops, SameMembers, SameFolds, SameDNS DEF E!Converted, EP!Converted

\* The conversion of a group.
LEMMA SameGroups == E!ConvertGroup \/ E!AllGroups => EP!ConvertGroup \/ EP!AllGroups
<1>1. E!ConvertGroup => EP!ConvertGroup
  <2> DEFINE group == The(handed).groups[step + 1]
  <2>1. E!Converted(group) = EP!Converted(group)
    BY SameConverted
  <2>2. E!GroupWarnings(group, step + 1) = EP!GroupWarnings(group, step + 1)
    BY <2>1, SameMembers, SameFolds DEF E!GroupWarnings, EP!GroupWarnings
  <2> QED BY <2>1, <2>2 DEF E!ConvertGroup, EP!ConvertGroup
<1>2. E!AllGroups => EP!AllGroups
  <2>1. E!Selectable = EP!Selectable
    <3> DEFINE those == {x \in E!Range(The(handed).nodes) : x.supported}
    <3>1. those = {x \in EP!Range(The(handed).nodes) : x.supported}
      BY SameFolds
    <3>2. E!NodeTags = [i \in 1 .. Len(E!Picked(those, The(handed).nodes)) |->
                           tags[E!Picked(those, The(handed).nodes)[i].name]]
      BY DEF E!NodeTags, E!Selected
    <3>3. EP!NodeTags = [i \in 1 .. Len(EP!Picked(those, The(handed).nodes)) |->
                            tags[EP!Picked(those, The(handed).nodes)[i].name]]
      BY <3>1 DEF EP!NodeTags, EP!Selected
    <3> HIDE DEF those
    <3>4. E!NodeTags = EP!NodeTags
      BY <3>2, <3>3, SameFolds
    <3> QED BY <3>4 DEF E!Selectable, EP!Selectable
  <2>2. E!BuiltinRules = EP!BuiltinRules
    BY DEF E!BuiltinRules, EP!BuiltinRules
  <2> QED BY <2>1, <2>2, SameDNS DEF E!AllGroups, EP!AllGroups
<1> QED BY <1>1, <1>2

\* The end of the conversion.
LEMMA SameEnd == E!AllRules => EP!AllRules
<1>1. \A policy : E!PolicyTag(policy) = EP!PolicyTag(policy)
  BY DEF E!PolicyTag, EP!PolicyTag
<1>2. \A policy : E!Detour(policy) = EP!Detour(policy)
  BY <1>1, SameFolds DEF E!Detour, EP!Detour
<1>3. E!Mentioned = EP!Mentioned
  BY SameDNS DEF E!Mentioned, EP!Mentioned, E!FoldLeft, EP!FoldLeft, E!MapThenFoldSet,
     EP!MapThenFoldSet, E!Max, EP!Max
<1>4. \A base, s : E!FoldLeft(E!AppendGenerated, base, s) = EP!FoldLeft(EP!AppendGenerated, base, s)
  BY DEF E!FoldLeft, EP!FoldLeft, E!MapThenFoldSet, EP!MapThenFoldSet, E!Max, EP!Max,
     E!AppendGenerated, EP!AppendGenerated, E!Fetched, EP!Fetched, E!Range, EP!Range
<1>5. \A set : E!Downloaded(set) = EP!Downloaded(set)
  BY <1>2 DEF E!Downloaded, EP!Downloaded, E!Range, EP!Range
<1>6. E!EncodedDNS = EP!EncodedDNS
  BY <1>2, SameDNS DEF E!EncodedDNS, EP!EncodedDNS
<1> DEFINE base == [i \in 1 .. Len(The(handed).ruleSets) |-> E!Downloaded(The(handed).ruleSets[i])]
<1>7. base = [i \in 1 .. Len(The(handed).ruleSets) |-> EP!Downloaded(The(handed).ruleSets[i])]
  BY <1>5
<1> SUFFICES ASSUME E!AllRules PROVE EP!AllRules
  OBVIOUS
<1>8. ruleSets' = E!FoldLeft(E!AppendGenerated, base, E!Mentioned)
  BY DEF E!AllRules
<1>9. ruleSets' = EP!FoldLeft(EP!AppendGenerated, base, EP!Mentioned)
  BY <1>3, <1>4, <1>8
<1>10. final' = IF EP!PolicyTag(The(handed).final) \in {"", "reject"} THEN "proxy"
                ELSE EP!PolicyTag(The(handed).final)
  BY <1>1 DEF E!AllRules
<1>11. /\ encoding = "rules" /\ step = Len(The(handed).rules) /\ encoding' = "done" /\ step' = 0
       /\ dns' = EP!EncodedDNS
       /\ UNCHANGED <<The(handed), attempt, tags, outbounds, nodeOutbounds, groupTags,
                   routeRules, told>>
  BY <1>6 DEF E!AllRules
<1> QED BY <1>7, <1>9, <1>10, <1>11 DEF EP!AllRules

\* A step of the encoder here is one of SingBoxEncodeProofs.
LEMMA SameNext == E!Next => EP!Next
<1>1. E!Finished => EP!Finished
  BY DEF E!Finished, EP!Finished, E!vars, EP!vars
<1> QED BY <1>1, SameChecking, SameTagging, SameNodes, SameGroups, SameRules, SameEnd
  DEF E!Next, EP!Next

--------------------------------------------------------------------------------
(* What is encoded. *)

\* What a suffix is added to is not empty then.
SuffixesShow == \A n, i : TagRenamed(n) # "" /\ Numbered(n, i) # ""

LEMMA SameSuffixes == SuffixesShow => EP!SuffixesShow
BY DEF SuffixesShow, EP!SuffixesShow, EP!Untagged

\* What the patches made can be encoded as SingBoxEncodeProofs asks.
LEMMA HandedEncodable == ASSUME NEW d, AfterLocals(d) PROVE EP!Encodable(d)
<1>1. PP!IsDocument(d) /\ DocumentLists(d) /\ PP!NamedOnce(d.ruleSets)
  <2>1. PICK g, l : PP!Describes(d, Read, g \o l, l \o (g \o <<Read>>))
    BY DEF AfterLocals
  <2>2. \A n : PP!OnceOf(Read.ruleSets, n)
    BY ReadFields, EmptyList DEF PP!OnceOf
  <2>3. "ruleSets" \in PP!Sections
    BY DEF PP!Sections
  <2>4. PP!NamedOnce(d.ruleSets)
    BY <2>1, <2>2, <2>3, PP!OnceOfAll DEF PP!Describes
  <2> QED BY <2>1, <2>4 DEF PP!Describes, AfterLocals
<1>2. \A x : (PP!IsList(x) <=> IsList(x)) /\ (P!IsList(x) <=> IsList(x)) /\ (EP!IsList(x) <=> IsList(x))
         /\ EP!Range(x) = Range(x) /\ P!Range(x) = Range(x)
  BY DEF PP!IsList, IsList, P!IsList, EP!IsList, PP!Range, Range, P!Range, EP!Range
<1>3. EP!IsList(d.nodes) /\ EP!IsList(d.groups) /\ EP!IsList(d.rules) /\ EP!IsList(d.ruleSets)
  BY <1>1, <1>2 DEF PP!IsDocument
<1>4. /\ \A group \in EP!Range(d.groups) : EP!Group(group)
      /\ \A rule \in EP!Range(d.rules) : EP!IsList(rule.codes) /\ EP!IsList(rule.refs)
      /\ \A set \in EP!Range(d.ruleSets) : EP!IsList(set.codes)
  BY <1>1, <1>2 DEF DocumentLists, P!ListsWithin, EP!Group
<1>5. /\ EP!IsList(d.dns.servers) /\ EP!IsList(d.dns.rules)
      /\ \A rule \in EP!Range(d.dns.rules) : EP!IsList(rule.refs)
      /\ \A server \in EP!Range(d.dns.servers) : {"tag", "detour"} \subseteq DOMAIN server
  BY <1>1, <1>2 DEF DocumentLists, P!IsSection
<1> QED BY <1>1, <1>3, <1>4, <1>5 DEF EP!Encodable, PP!NamedOnce

\* What SingBoxEncodeProofs keeps, from before a document is handed over.
EncoderInv == (handed = {} => EP!Idle) /\ EP!RunInv

TagsShow == EP!TagsShow

LEMMA InitEncoder == Init => EncoderInv /\ TagsShow
<1> SUFFICES ASSUME Init PROVE EncoderInv /\ TagsShow
  OBVIOUS
<1>1. EP!Idle
  BY SameIdle DEF Init, NothingHanded
<1> QED BY <1>1, PoliciesAssumption, EP!InitRun DEF EncoderInv, TagsShow

\* A step that is not the encoder's leaves all of it, but hands over maybe.
LEMMA OtherSteps ==
    ASSUME [Next]_vars, ~EncodeDocument
    PROVE  UNCHANGED encoderVars /\ (StartEncoding \/ UNCHANGED handed)
BY DEF Next, Configure, Register, Request, Decode, DecodeLines, Decoded, ApplyGlobal, ApplyLocal,
       ApplyPatches, StartEncoding, Encoded, Finished, vars

\* Every step keeps it.
LEMMA StepEncoder == DocInv /\ EncoderInv /\ [Next]_vars => EncoderInv'
<1> SUFFICES ASSUME DocInv, EncoderInv, [Next]_vars PROVE EncoderInv'
  OBVIOUS
<1>1. CASE StartEncoding
  <2>1. EP!Idle /\ UNCHANGED encoderVars
    BY <1>1 DEF StartEncoding, DocInv, EncoderInv
  <2>2. EP!Idle'
    BY <2>1 DEF EP!Idle, encoderVars
  <2>3. encoding' = "inbounds"
    BY <2>2 DEF EP!Idle
  <2>4. EP!ClosedInv' /\ EP!OwnInv'
    BY <2>3 DEF EP!ClosedInv, EP!OwnInv, EP!AfterTags
  <2>5. EP!RunInv'
    BY <2>2, <2>4 DEF EP!RunInv
  <2> QED BY <2>2, <2>5 DEF EncoderInv
<1>2. CASE EncodeDocument
  <2>1. handed # {} /\ handed' = handed /\ EP!Next
    BY <1>2, SameNext DEF EncodeDocument, Encode
  <2>2. EP!Encodable(The(handed))
    BY <2>1, HandedEncodable DEF DocInv
  <2>3. EP!RunInv'
    BY <2>1, <2>2, PoliciesAssumption, EP!StepRun DEF EncoderInv
  <2> QED BY <2>1, <2>3 DEF EncoderInv
<1>3. CASE ~StartEncoding /\ ~EncodeDocument
  <2>1. UNCHANGED encoderVars /\ UNCHANGED handed
    BY <1>3, OtherSteps
  <2>2. UNCHANGED EP!vars
    BY <2>1 DEF EP!vars, encoderVars
  <2>3. EP!RunInv'
    BY <2>2, PoliciesAssumption, EP!RestRun DEF EncoderInv
  <2>4. EP!Idle' <=> EP!Idle
    BY <2>1 DEF EP!Idle, encoderVars
  <2> QED BY <2>1, <2>3, <2>4 DEF EncoderInv
<1> QED BY <1>1, <1>2, <1>3

LEMMA StepShown == SuffixesShow /\ TagsShow /\ [Next]_vars => TagsShow'
<1> SUFFICES ASSUME SuffixesShow, TagsShow, [Next]_vars PROVE TagsShow'
  OBVIOUS
<1>1. CASE EncodeDocument
  <2>1. EP!Next
    BY <1>1, SameNext DEF EncodeDocument, Encode
  <2> QED BY <2>1, SameSuffixes, PoliciesAssumption, EP!StepShown DEF TagsShow
<1>2. CASE ~EncodeDocument
  <2>1. UNCHANGED tags
    BY <1>2, OtherSteps DEF encoderVars
  <2> QED BY <2>1 DEF TagsShow, EP!TagsShow
<1> QED BY <1>1, <1>2

\* What the encoder has then.
LEMMA EncoderDone ==
    ASSUME EncoderInv, DocInv, Converted
    PROVE  /\ encoding = "done" /\ EP!EncodeInv /\ EP!ClosedInv /\ EP!OwnInv
           /\ AfterLocals(The(handed)) /\ EP!Encodable(The(handed))
<1>1. handed # {} /\ encoding = "done" /\ AfterLocals(The(handed))
  BY DEF Converted, DocInv
<1>2. ~EP!Idle
  BY <1>1 DEF EP!Idle
<1> QED BY <1>1, <1>2, HandedEncodable DEF EncoderInv, EP!RunInv

\* Traffic meets the first rule of the document that matches.
LEMMA RulesMet ==
    ASSUME EncoderInv, DocInv, Converted, NEW policy, Expressible(policy),
           NEW t \in Traffic \ (DnsTraffic \cup PrivateTraffic)
    PROVE  Met(t)
<1> DEFINE d == The(handed)
           spoken == {i \in 1 .. Len(d.rules) : t \in d.rules[i].match /\ <<"rule", i>> \notin told}
           kept == {i \in 1 .. Len(d.rules) : t \in d.rules[i].match}
           given == EP!FirstMatch(routeRules, t)
<1>1. encoding = "done" /\ EP!EncodeInv
  BY EncoderDone
<1>2. EP!RoutingKept
  BY <1>1, PoliciesAssumption, EP!RoutingHolds
<1>3. kept = spoken
  BY DEF Expressible
<1>4. EP!Min(kept) = Min(kept)
  BY DEF EP!Min, Min
<1>5. IF spoken = {} THEN given = 0
      ELSE /\ given # 0
           /\ routeRules[given].action = d.rules[EP!Min(spoken)].action
           /\ routeRules[given].action = "route" =>
                 EP!StandsFor(routeRules[given].outbound, d.rules[EP!Min(spoken)].target)
  BY <1>1, <1>2 DEF EP!RoutingKept
<1>6. First(routeRules, t) = given
  BY DEF First, EP!FirstMatch, SelectInSeq, EP!SelectInSeq, Min, EP!Min
<1>7. Done(t) = IF given = 0 THEN [action |-> "route", outbound |-> final] ELSE routeRules[given]
  BY <1>6 DEF Done
<1> HIDE DEF d, spoken, kept, given
<1>8. IF kept = {} THEN Done(t) = [action |-> "route", outbound |-> final]
      ELSE /\ Done(t).action = d.rules[Min(kept)].action
           /\ d.rules[Min(kept)].action = "route" =>
                 E!StandsFor(Done(t).outbound, d.rules[Min(kept)].target)
  BY <1>3, <1>4, <1>5, <1>7, SameStanding
<1> QED BY <1>8 DEF Met, kept, d

\* What the final policy has become.
LEMMA FinalMet ==
    ASSUME EncoderInv, TagsShow, DocInv, Converted, Expressible(The(handed).final)
    PROVE  E!StandsFor(final, The(handed).final)
<1>1. EP!Nominal(The(handed).final)
  BY DEF Expressible, Builtin, Named, P!Names, EP!Nominal, EP!NamesOf, EP!Builtins
<1>2. EP!StandsFor(final, The(handed).final)
  BY <1>1, EncoderDone, PoliciesAssumption, EP!FinalStands DEF TagsShow
<1> QED BY <1>2, SameStanding

\* What is encoded is what the patches ask for.
LEMMA PatchesHold == EncoderInv /\ TagsShow /\ DocInv => PatchesObeyed
<1> SUFFICES ASSUME EncoderInv, TagsShow, DocInv, Converted,
                    Expressible(LastSaid(Finals, DefaultFinal))
             PROVE  Obeyed(RulesWanted, LastSaid(Finals, DefaultFinal))
  BY DEF PatchesObeyed, Finals
<1>1. The(handed).final = LastSaid(Finals, DefaultFinal)
  BY EncoderDone, RulesAsked
<1>2. E!StandsFor(final, The(handed).final)
  BY <1>1, FinalMet
<1> QED BY <1>2, RulesMet, ObeyHolds

\* Whatever is answered obeys the rules of all texts, those of the subscription before
\* the others, and the final policy that is given last.
THEOREM PatchesAreObeyed == SuffixesShow => (Spec => []PatchesObeyed)
<1> SUFFICES ASSUME SuffixesShow PROVE Spec => []PatchesObeyed
  OBVIOUS
<1>1. Init => ServedInv /\ DocInv /\ EncoderInv /\ TagsShow
  BY InitServed, InitDoc, InitEncoder
<1>2. ServedInv /\ DocInv /\ EncoderInv /\ TagsShow /\ [Next]_vars
         => (ServedInv /\ DocInv /\ EncoderInv /\ TagsShow)'
  BY StepServed, StepDoc, StepEncoder, StepShown
<1>3. ServedInv /\ DocInv /\ EncoderInv /\ TagsShow => PatchesObeyed
  BY PatchesHold
<1> QED BY <1>1, <1>2, <1>3, PTL DEF Spec

\* Without a group of a node's name or a hop of its tag, the node is apart as
\* SingBoxEncodeProofs asks.
LEMMA HandedApart ==
    ASSUME NEW i \in 1 .. Len(The(handed).nodes), EP!Encodable(The(handed)),
           PP!OnceOf(The(handed).nodes, The(handed).nodes[i].name), GroupsApart(The(handed).nodes[i])
    PROVE  EP!NodeApart(The(handed), tags, i)
<1> DEFINE d == The(handed)
<1>1. Range(d.groups) = {d.groups[g] : g \in 1 .. Len(d.groups)}
  <2>1. \A x : EP!IsList(x) <=> IsList(x)
    BY DEF EP!IsList, IsList, EP!Range, Range
  <2>2. IsList(d.groups)
    BY <2>1 DEF EP!Encodable
  <2> QED BY <2>2, PP!ListFacts, SameLists
<1>2. \A g \in 1 .. Len(d.groups) :
         /\ d.groups[g].name # d.nodes[i].name
         /\ d.groups[g].type = "relay" =>
               \A k \in 1 .. Len(d.groups[g].members) :
                   Hop(tags[d.groups[g].name], k) # tags[d.nodes[i].name]
  BY <1>1 DEF GroupsApart
<1>3. \A j \in 1 .. Len(d.nodes) : d.nodes[i].name = d.nodes[j].name => i = j
  BY DEF PP!OnceOf
<1> HIDE DEF d
<1> QED BY <1>2, <1>3 DEF EP!NodeApart, EP!NodesIn, EP!GroupsIn, EP!Dialled, d

\* Each node that no warning tells of has its outbound.
LEMMA NodesAreServed ==
    ASSUME EncoderInv, DocInv, Converted
    PROVE  NodesServed
<1> DEFINE d == The(handed)
           those(k) == {o \in DOMAIN outbounds : outbounds[o].tag = tags[d.nodes[k].name]}
<1>1. AfterLocals(d) /\ EP!Encodable(d)
  BY EncoderDone
<1>2. ASSUME NEW k \in 1 .. Len(d.nodes), PP!OnceOf(nodes, d.nodes[k].name), GroupsApart(d.nodes[k])
      PROVE  EP!NodeApart(d, tags, k)
  <2>1. PP!OnceOf(d.nodes, d.nodes[k].name)
    BY <1>1, <1>2, HandedOnce
  <2> QED BY <1>1, <1>2, <2>1, HandedApart
<1>3. ASSUME NEW k \in 1 .. Len(d.nodes), PP!OnceOf(nodes, d.nodes[k].name), GroupsApart(d.nodes[k]),
             <<"node", k>> \notin told
      PROVE  EP!Cardinality(those(k)) = 1
  <2>1. encoding = "done" /\ EP!EncodeInv /\ EP!OwnInv
    BY EncoderDone
  <2>2. EP!NodeApart(d, tags, k) /\ k \in 1 .. EP!NodesIn(d)
    BY <1>2, <1>3 DEF EP!NodesIn
  <2> QED BY <1>3, <2>1, <2>2, PoliciesAssumption, EP!OwnOutbound
<1>4. \A k : EP!Cardinality(those(k)) = Cardinality(those(k))
  BY DEF Cardinality, EP!Cardinality, IsFiniteSet, EP!IsFiniteSet
<1> QED BY <1>3, <1>4 DEF NodesServed

\* Each URI that is understood, and whose name no other URI has, no group of a patch and, as
\* a tag, no hop, has one outbound of its own, or a node of a patch in its place, or a warning,
\* whatever the other URIs are called (decodeBase64, uniqueNodeName, ApplyPatch, buildTags,
\* convertNode).
THEOREM URIsHaveTheirOutbounds == Spec => []EveryURIHasItsOutbound
<1>1. Init => ServedInv /\ DocInv /\ DecoderInv /\ EncoderInv /\ LinesInv
  BY InitServed, InitDoc, InitDecoder, InitEncoder, InitLines
<1>2. ServedInv /\ DocInv /\ DecoderInv /\ EncoderInv /\ LinesInv /\ [Next]_vars
         => (ServedInv /\ DocInv /\ DecoderInv /\ EncoderInv /\ LinesInv)'
  BY StepServed, StepDoc, StepDecoder, StepEncoder, StepLines
<1>3. ServedInv /\ DocInv /\ DecoderInv /\ EncoderInv /\ LinesInv
         => EveryURIHasItsOutbound
  BY URIsHold, NodesAreServed
<1> QED BY <1>1, <1>2, <1>3, PTL DEF Spec

================================================================================
