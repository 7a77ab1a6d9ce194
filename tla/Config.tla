--------------------------------- MODULE Config ---------------------------------
(***************************************************************************)
(* LoadConfig of config.go: what a configuration file becomes before the   *)
(* server works with it, or that it is refused.                            *)
(*                                                                         *)
(* A location is a URL, a path from the root or from the home directory,   *)
(* or relative; a path is the sequence of its components.  none is the     *)
(* empty location.                                                         *)
(***************************************************************************)
EXTENDS Converter

CONSTANTS
    NameIsValid(_),     \* the name matches subscriptionNamePattern
    Home                \* {} or {the path of the home directory}

Location(from, path) == [from |-> from, path |-> path]
None == Location("none", <<>>)
StandardInput == Location("relative", <<"-">>)

\* filepath.Clean of a path from there.
Clean(from, path) ==
    FoldLeft(LAMBDA kept, c :
                 CASE c = "." -> kept
                   [] c = ".." /\ kept # <<>> /\ Last(kept) # ".." -> Front(kept)
                   [] c = ".." /\ kept = <<>> /\ from = "root" -> kept
                   [] OTHER -> Append(kept, c),
             <<>>, path)

Joined(directory, path) ==
    Location(directory.from, Clean(directory.from, directory.path \o path))

\* ResolveSource; without a home directory, ~ is a component like others.
Resolve(location, directory) ==
    CASE location.from = "home" /\ Home # {} -> Joined(Location("root", The(Home)), location.path)
      [] location.from = "home" /\ Home = {} -> Joined(directory, <<"~">> \o location.path)
      [] location.from = "relative" -> Joined(directory, location.path)
      [] OTHER -> location

\* The configuration with a change to each source: patches and subscriptions.
EachPatch(patches, Change(_)) == [i \in 1 .. Len(patches) |-> Change(patches[i])]

WithDefaults(config) ==
    LET normal(patches) ==
            EachPatch(patches, LAMBDA p : [p EXCEPT !.format = NormalPatch(@)])
    IN  [patches |-> normal(config.patches),
         subscriptions |-> EachPatch(config.subscriptions,
             LAMBDA s : [s EXCEPT !.patches = normal(@)])]

Resolved(config, directory) ==
    LET resolved(sources) ==
            EachPatch(sources, LAMBDA s : [s EXCEPT !.location = Resolve(@, directory)])
    IN  [patches |-> resolved(config.patches),
         subscriptions |-> EachPatch(resolved(config.subscriptions),
             LAMBDA s : [s EXCEPT !.patches = resolved(@)])]

\* The patches and the subscriptions, each of which has a location.
AllSources(config) ==
    Range(config.patches) \cup Range(config.subscriptions)
        \cup UNION {Range(s.patches) : s \in Range(config.subscriptions)}

ValidSource(source) ==
    source.location \notin {None, StandardInput} /\ source.valid

ValidPatches(patches) ==
    \A i \in 1 .. Len(patches) :
        /\ ValidSource(patches[i])
        /\ NormalPatch(patches[i].format) \in {"clash", "patch", "sing-box"}

\* Validate.
Valid(config) ==
    /\ config.subscriptions # <<>>
    /\ ValidPatches(config.patches)
    /\ \A i \in 1 .. Len(config.subscriptions) :
          LET s == config.subscriptions[i]
          IN  /\ NameIsValid(s.name)
              /\ \A j \in 1 .. i - 1 : config.subscriptions[j].name # s.name
              /\ ValidSource(s)
              /\ s.format # "" => DecodeFormat(s.format) # ""
              /\ ValidPatches(s.patches)

\* Mutant of LoadConfig: the configuration is validated before it is resolved.
LoadConfigEarly(config, directory) ==
    IF Valid(WithDefaults(config)) THEN {Resolved(WithDefaults(config), directory)} ELSE {}

\* LoadConfig of a file in the directory, as an optional.
LoadConfig(config, directory) ==
    LET resolved == Resolved(WithDefaults(config), directory)
    IN  IF Valid(resolved) THEN {resolved} ELSE {}

================================================================================
