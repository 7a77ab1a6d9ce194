# A TLA+ model of subscription-converter

subscription-converter is an HTTP service (and a command line) that loads proxy
subscriptions, decodes them into one typed document, merges patches into the
document and encodes it as a sing-box configuration. This directory holds TLA+
models of the parts of it that decide something, the TLC runs that check them
on small instances, and TLAPS proofs of what matters most. Paths are relative to
`src/`.

## 1. The system

| Component | State | Operations | What is hard | What makes it correct |
|---|---|---|---|---|
| Source loader, `source.go` | `cache`, `inflight`, a mutex; the locals of each call | `Load`: file, cache hit, join, lead, conditional GET, store | the mutex is released during the fetch; 304 answers; timeouts; errors shared by waiters | one fetch per key, no waiter lost, content never goes back in time, bounded staleness, every load returns |
| Patches, `patch.go` | none; works on a document in place | `LoadPatches`, `combineDocumentPatch`, `validateRoutePatch`, `ValidateInbounds`, `ApplyPatch` | two lists, two merge orders (rules and the rest), validation against a half-merged document, nil and empty lists | documented priority, the latest definition counts, no reference is left without its target |
| HTTP handler, `server.go` | locals of each request; the shared loader | `convert`; `index`, `list`, `version` are pure reads | concurrent requests, sources that change meanwhile, many early returns | an answer is made of all configured sources, requests do not go back behind one another, each is answered |
| sing-box encoder, `singbox/codec.go` | tags, outbounds, rules, warnings of one call | `Encode` and its helpers | colliding names, partial conversion, references by tag, default resolvers | distinct tags, no silent loss, routing preserved, relays in order, servers that can be resolved |
| sing-box patches, `singbox/patch.go` | none | `DecodePatch` | strictness: one bad item of many | taken whole or refused |
| Clash decoder, `clash/*.go` | the document under construction | `Decode`, `DecodePatch`, providers | several sources of one name, one provider of several failing, strict and lenient modes | one definition per name, the right members, decisions preserved |
| Clash DNS, `clash/clash_dns.go` | the section under construction | `documentDNS` | servers skipped one by one, four sources of rules in one list, filter modes | names are answered as the section means, references hold, no fake address for a proxy |
| Base64, `base64/codec.go` | how often each name was asked for | `Recognize`, `Decode` | names of nodes, URIs skipped one by one | each usable URI is a node with a name of its own |
| Converter, `converter.go`, `codec.go`, `builtin` | registry of codecs | registration, aliases, recognition, `Convert` | equal claims, replaced codecs | what is detected depends on the claims alone |
| Configuration, `config.go`, `helper.go` | none | `LoadConfig`: defaults, resolution, validation | locations change after they were written | what is accepted can be loaded |
| Command line, `cmd` | none | `serve`, `convert` | – | the path from start to answer |
| Types, version, other helpers | none | – | – | pure data |

Interaction: a request goroutine of `net/http` runs `convert`, which calls
`Loader.Load` for the subscription, `Converter.Decode` on its content (a Clash
decoder calls `Load` again, for providers), `LoadPatches` and `ApplyPatch` for
the top-level patches and then for those of the subscription, and last `Encode`.
The loader is the only state that requests share; everything else is local to
one request, and the registry does not change once the handler exists.

`PROJECT.json` lists the hazards with their lines: state used after an unlock
(the clock, the copied cache entry), the race between joining and closing a
call, failures and timeouts of a leader that others wait for, revalidation of an
entry that has been replaced, the two merge orders of patches, references by tag
to what may be skipped, collisions of invented names, providers that compete for
names or fail, the order of DNS rules, resolvers that need what they resolve,
locations that change their meaning when they are resolved.

## 2. Modules

| Module | Models | Runs |
|---|---|---|
| `VersionedSource` | what a caller of `Load` may rely on (abstract) | `loader` |
| `SourceLoader` | `sourceLoader` | `loader`, `loader_mixed`, `loader_live` |
| `Document` | the parts of `types.go` and `document.go` that are shared | through the others |
| `Patch` | the operators of `patch.go` | through `Conversion`, `Pipeline` |
| `SingBoxPatch` | `DecodePatch` of `singbox/patch.go`, extends `Patch` | through `Pipeline` |
| `Conversion` | `Handler.convert` and `LoadPatches`, extends `Patch` | `conversion`, `conversion_concurrent` |
| `SingBoxEncode` | `SingBoxCodec.Encode` | `singbox`, two that show divergences |
| `Pipeline` | what comes after any decoder: `SingBoxPatch` and `SingBoxEncode` on its document | through the next two |
| `ClashDNS` | `documentDNS` | through `ClashDecode` |
| `ClashDecode` | `decodeClashConfig`, `DecodePatch` and the providers, extends `ClashDNS` | through `ClashToSingBox` |
| `ClashToSingBox` | `ClashDecode` and `Pipeline` one after the other | `clash`, two that show divergences |
| `Converter` | the registry | through `Config` |
| `Config` | `LoadConfig`, extends `Converter` | through `Subscription` |
| `Base64` | the Base64 decoder | through `Subscription` |
| `Subscription` | the program from start to answer: `Config`, `Base64`, `Pipeline` | `subscription` |
| `...Proofs` | theorems about the module they are named after | – |
| `FoldInduction`, `SequenceFacts` | what the proofs need of folds and of looking up and selecting in lists | – |
| `MC...` | values of the constants for TLC | |

### SourceLoader

A content is the number of its version, so the properties can speak of older and
newer. `cache` and `inflight` are the two maps; `now`, `snap`, `deadline`,
`call`, `result` are the locals of a call of `loadRemote`. A block between
`mu.Lock` and `mu.Unlock` is one action: the lookup is `CacheHit`, `Join` or
`Lead`; the leader's second block is `Publish`. What happens outside the mutex
are actions of their own: reading the clock (`BeginRemote`), creating the
context (`StartFetch`), the server's answer (`ServerAnswers`), taking it
(`Receive`), failing (`FetchFails`) and timing out (`TimeOut`). A request is
conditional when the code makes it so (`Condition`), and the server answers 304
only to a validator that matches. Waiters wake with `Await` once the leader is
done. The environment changes contents at any moment (`UpstreamChanges`) and
time passes (`Tick`). Two sources may have one key: the code's key has the
location and the headers and neither timeout nor cache duration.

`Tick` assumes that contexts expire on time and that a leader whose fetch has
returned takes the mutex before the next unit of time; only `BoundedStaleness`
and the liveness of the loader depend on it. `ValidatorAssumption` says that the
server does not give two versions one validator; a weak `Last-Modified` breaks
it, and `FetchIsCurrent` with it.

### Document, Patch and Conversion

A document is a record of the sections that decide something; an optional field
is a set of at most one value. Rules match sets of traffic classes, so that
"which rule decides" is a definition (`Decision`). `Combine` is
`combineDocumentPatch`, `Applicable` the checks and `Applied` the assignments of
`ApplyPatch`. `Conversion` runs requests through the stages `source`, `global`,
`local`, `encode`; `BeginLoad` and `LoadSource` or `LoadPatch` are the two ends
of a load, between which sources change and others load. The loader is what
`VersionedSource` promises and no more: a load returns any version from its
floor to the present, or fails. So `SourceLoader` implements `VersionedSource`,
and `Conversion` uses it. Providers that a decoder loads are not loads of
`Conversion`.

### SingBoxEncode

One action per iteration of a loop of `Encode`; the loop variables are `pc`,
`next` and, for the search of a free tag, `attempt`. Names and tags are strings
whose spelling is abstract: the sets of spellings that `strings.EqualFold`
accepts, and the three ways of inventing a tag (`Renamed`, `Numbered`, `Hop`).
A node is supported or not and its server a name or not, a rule matches classes
of traffic, an outbound is its type, tag, server, members, detour and resolver.

### ClashDecode, ClashDNS and ClashToSingBox

One action per iteration of a loop of `decodeClashConfig`; `Turn` is the passage
from one loop to the next. `strict` tells whether `DecodePatch` called it.
A provider that is loaded may deliver any of the contents `Offered`, or none. A
regular expression is the set of the names it lets through, a rule is a rule, a
`MATCH` or invalid.

`documentDNS` makes its section in one pass without a call that can fail, so it
is an operator, `DocumentDNS`, with `DnsWarnings` beside it, and one action of
`ClashDecode` stores both. An address is usable or not and a name or not, a
pattern covers a set of `Domains`. `AddressAsked` says independently of the
lists which server a name is meant to be answered by.

`ClashToSingBox` hands the document over to the encoder or, if the configuration
was decoded as a patch, applies it to `Target` first. The composition runs the
decoder to its end, then the encoder, as the code does; `Pipeline` names the
encoder's variables (`encoding`, `step`, `told`, ...), as two components of one
state cannot share theirs.

### Converter, Config, Base64 and Subscription

`Converter` has the map of codecs by format, the list that recognition walks and
the map of patch decoders; `FormatOf`, `PatchFormatsOf` and `Normal` are what
the codecs and `strings.ToLower` contribute. In `Config` a location is where it
starts from (`root`, `home`, `relative`, `url`, or `none`) and its components,
so that cleaning and joining paths is done and not assumed. `Base64` decodes one
URI per step; a URI is a record of what the decoder reads from it.

`Subscription` starts as `serve` or `convert`. It registers the codecs one by
one, takes one request, decodes, applies the two lists of patches in two steps
and encodes. Here one request runs alone in full depth, over what the loader has
at each location; the many requests and the changes of sources are
`Conversion`'s. Only Base64 texts can be decoded here, and only sing-box and
document patches, as the Clash decoder has a run of its own.

## 3. What the runs check

| Run | Instance | Distinct states | Shows |
|---|---|---|---|
| `loader` | 3 loads, 1 source with timeout 2 and cache 1, 2 versions, time to 4 | 908,720 | `FetchIsCurrent`, `MonotonicReads`, `BoundedStaleness`, and that the loader implements `VersionedSource` (`KeepsPromise`) |
| `loader_mixed` | 3 loads, 2 sources of one key with timeouts 2 and 1, only one of them cached, time to 2 | 2,081,089 | what does not depend on a uniform cache duration: one fetch per key and its entry unchanged meanwhile (`LeaderOwnsKey`), no lost waiter (`NoLostWaiter`) |
| `loader_live` | 3 loads; two URLs of one key, a file, an invalid source; 1 version | 381,766 | `EveryLoadReturns` |
| `conversion` | 1 request, 4 sources of 3 versions each | 16,758 | `PriorityKept`, `LatestDefinitionsKept`, `ReferencesKept`, `ReadsAreComplete`, `EveryRequestAnswered` |
| `conversion_concurrent` | 2 requests, 3 sources, 2 versions | 168,104 | `RequestsNeverRollBack` |
| `singbox` | 31,588 documents | 502,996 | tags, references, relays, routing, warnings, rule sets, resolvers |
| `clash` | 2,808 configurations, as source and as patch | 172,266 | names, members, references, strictness; DNS answers (`NamesAnsweredAsMeant`, `ServersDefined`); that the encoder is handed what is wanted, and what it can encode (`HandedAsWanted`); routing from the Clash text to sing-box (`TrafficKept`); no server needs a proxy whose name it resolves (`NoResolutionLoop`) |
| `subscription` | 2,890 starts | 60,936 | locations, detection of the codec, names, each URI's outbound, priority of patches in the encoded rules, listeners |
| `clash_blacklist`, `clash_rule_sets`, `singbox_final`, `singbox_first` | those of `clash` and `singbox` | | the divergences of section 6 |

Why the bounds are enough. Three loads are a leader, one that joins it, and one
that comes before or after both: every property of the loader is about two loads
of a key and what a third left in the cache. Two versions are an old and a new
one, both with a validator. Time to 4 covers
an entry's life (1), the timeout (2) and expiry after it, and is the first at
which a load can begin later than the bound on staleness (3) after a change;
time to 2 lets the shorter timeout strike while the longer one runs.
Three versions of each source of `conversion`
are different shapes of patches: good ones, one that cannot be decoded, one
with references that only another patch satisfies, one with invalid inbounds.
The documents of `singbox` combine names that are built in or run into invented
ones, in both orders, with groups of every type, members that are unknown,
skipped, built in, rules that overlap, inline rule sets that name others by
`RULE-SET` and by geo codes, and DNS sections whose servers are names
or lack a resolver. The configurations of `clash`
combine proxies and providers that compete for two names with groups that
filter them; its DNS sections combine usable and unusable servers, policies
that overlap, a fallback and every filter mode over three names, so that each
pair of rule sources has a name that both cover.
The starts of `subscription` are: every location that resolution could turn into
another, in four directories and at all three places of a configuration; every
format and output against registries that are empty, partial, reordered or have
a codec twice; lists of URIs whose names repeat, are missing or look like
others, under all pairs of lists of patches, one with a relay group that has a
node's name; and each kind of item that a patch may have wrong, alone among good
ones.

Every property has a mutant in `PROJECT.json`: an operator beside the
definition it replaces, marked "Mutant of", with which TLC finds the property
violated.

### Fairness

`SourceLoader!FairSpec`: goroutines run (weak fairness of each load's own
steps, which need no network) and time passes. Nothing is asked of the server;
that loads end is due to the context alone. `Conversion!FairSpec`: weak fairness
of each handler's steps, which include the return of a load: this is
`EveryLoadReturns` of the loader. Deadlock is checked in every run; `Finished`
is the only action when all is done. Decoders and the encoder are loops over
lists, whose termination is the absence of deadlock and of cycles; the one loop
without a list is the search for a free tag, which `SearchEnds` bounds.

## 4. What is proved

For every value of the constants:

| Theorem | Says | From |
|---|---|---|
| `SourceLoaderProofs!TypeCorrect` | `Spec => []TypeOK` | the assumptions on constants |
| `SourceLoaderProofs!SingleFlight` | `Spec => [](LeaderOwnsKey /\ NoLostWaiter)` | the same |
| `SourceLoaderProofs!NoWaiterIsLost` | `Spec => []NoLostWaiter` | the same |
| `SourceLoaderProofs!FetchesAreCurrent` | `Spec => []FetchIsCurrent` | and `LocationAssumption`, `ValidatorAssumption` |
| `SourceLoaderProofs!StalenessIsBounded` | `Spec => []BoundedStaleness`, for mixed durations too | the same |
| `SourceLoaderProofs!ReadsAreMonotonic` | `Spec => []MonotonicReads`, whose premise is `UniformCache` | the same |
| `SourceLoaderProofs!LoaderKeepsPromise` | `UniformCache => (Spec => KeepsPromise)` | the same |
| `ConversionProofs!RequestsAreMonotonic` | `Spec => []RequestsNeverRollBack` | `ConfigAssumption` |
| `ConversionProofs!AnswersAreComplete` | `Spec => []ReadsAreComplete` | the same |
| `PatchProofs!Merging` | what `mergeNodes`, `mergeGroups` and `mergeRuleSets` keep of two lists | that they are lists |
| `PatchProofs!Combining` | what one more patch adds to a combination (`Amounts`) | that they are patches |
| `PatchProofs!Applying` | what a combination makes of a document (`Describes`) | that it is applicable |
| `ConversionProofs!PriorityIsKept` | `Spec => []PriorityKept` | `ConfigAssumption`, `ContentAssumption`: a content is not decodable, a document or a patch |
| `ConversionProofs!LatestDefinitionsAreKept` | `Spec => []LatestDefinitionsKept` | the same |
| `ConversionProofs!ReferencesAreKept` | `Spec => []ReferencesKept` | the same |
| `ConversionProofs!TypesAreKept` | `Spec => []TypeOK` | the same |
| `SingBoxEncodeProofs!TagsAreDistinct` | `Spec => []TagsDistinct` | nothing about spelling |
| `SingBoxEncodeProofs!SearchIsBounded` | `IndicesTell => (Spec => []SearchEnds)` | `IndicesTell`: different indices give different tags, none the base |
| `SingBoxEncodeProofs!Encoding` | `Spec => []EncodeInv`, the loop invariant | `DocumentAssumption`: sections and what they list are lists, no two rule sets have one name (`Encodable`); `SpellingAssumption`: a builtin policy is spelled like itself |
| `SingBoxEncodeProofs!RoutingIsKept` | `Spec => []RoutingKept` | the same |
| `SingBoxEncodeProofs!NothingIsLostSilently` | `Spec => []NothingLostSilently` | the same |
| `SingBoxEncodeProofs!RuleSetsAreDefined` | `Spec => []RuleSetsDefined`, which leaves out the geo tags that inline rule sets alone name, by `RULE-SET` (section 6) | the same |
| `SingBoxEncodeProofs!NamesAreResolvable` | `Spec => []NamesResolvable`, whose premise is `ServersHold` | the same |
| `SingBoxEncodeProofs!OutboundsAreUnique` | `Spelled => (Spec => []OutboundsUnique)` | and `Spelled`: no invented tag is empty, the tag of a hop tells relay and index |
| `SingBoxEncodeProofs!RelaysDial` | `Spelled => (Spec => []RelaysDialInOrder)` | the same |
| `SingBoxEncodeProofs!OnlySkippedDangles` | `Spelled => (Spec => []OnlySkippedDangle)`, whose premise is `DetoursHold` | the same |
| `ClashToSingBoxProofs!NodesAreNamedOnce` | `Pipeline => []NodesNamedOnce` | nothing about the configuration; the first part of `FirstDefinitionWins` |
| `ClashToSingBoxProofs!NothingIsMissing` | `Pipeline => []NothingMissing` | nothing about the configuration |
| `ClashToSingBoxProofs!FirstDefinitionsWin` | `Pipeline => []FirstDefinitionWins` | `ConfigsAssumption`: what a configuration and its providers have is lists |
| `ClashToSingBoxProofs!MembersAreProvided` | `Pipeline => []ProvidedMembers` | the same |
| `ClashToSingBoxProofs!PatchesAreWhole` | `Pipeline => []PatchesAreStrict` | the same |
| `ClashToSingBoxProofs!ServersAreDefined` | `TagsTell => (Pipeline => []ServersDefined)` | and `TagsTell`: "dns-" and a number tell the number, and are neither empty nor "fakeip" |
| `ClashToSingBoxProofs!NamesAreAnsweredAsMeant` | `TagsTell => (Pipeline => []NamesAnsweredAsMeant)` | the same |
| `ClashToSingBoxProofs!HandedIsWanted` | `Pipeline => []HandedAsWanted` | `ConfigsAssumption`, and `TargetAssumption`: the document patched is one, of lists |
| `SubscriptionProofs!SourcesAreAlwaysFiles` | `Spec => []SourcesAreFiles` | `SetupsAssumption` |
| `SubscriptionProofs!NodesAreNamedOnce` | `CountsTell => (Spec => []NodesNamedOnce)` | and `CountsTell`: a name with a number tells both |
| `SubscriptionProofs!DetectionIsAlwaysOrderFree` | `Spec => []DetectionIsOrderFree` | nothing about codecs and claims |
| `SubscriptionProofs!ReplacedIsNeverDetected` | `Spec => []ReplacedNeverDetected`, whose premise is that codecs of one format claim alike | the same |
| `SubscriptionProofs!ListenersAreAsGiven` | `Spec => []ListenersAsGiven` | `SetupsAssumption` |
| `SubscriptionProofs!PatchesAreObeyed` | `SuffixesShow => (Spec => []PatchesObeyed)` | and `PoliciesAssumption`, as `SpellingAssumption`; `SuffixesShow`: a tag with "-proxy" or a number added is not empty |
| `SubscriptionProofs!URIsHaveTheirOutbounds` | `Spec => []EveryURIHasItsOutbound`, which is about each URI that shares its name with no other URI (`NamedApart`) and no group or hop (`GroupsApart`), whatever the others are called | `SetupsAssumption`, `PoliciesAssumption` |

`SetupsAssumption` says what a decoder of YAML, JSON or a command line cannot but
deliver: lists are lists, an optional field is there once at most, a patch has
nodes of no line of the subscription; and of the registry, that no codec is
registered under `mihomo` or `singbox`, which `New` makes aliases after it
registered those it ships (`converter.go`, `builtin`).

**Lists.** Documents are lists, and what the code computes of them are folds
(`MergeByName`, `Selected`, `Chained`), first and last matches. An induction
over them cannot be stated for an operator that a theorem takes as a parameter,
but it can for one that a module takes as a constant: `FoldInduction` proves once
that what holds of the base and is kept by each item holds of the fold, and
`SequenceFacts` what the first or the latest item that gives something is, and
what the selected items are, when a list grows by one item or by another list.
A module of proofs instantiates them with the operator it folds or looks for.

**Patches.** `Merging` is the induction over one list of definitions: of each
name the last definition of the overriding list is there, else that of the base,
and no name twice that was not. `Amounts` says of a combined patch what the list
says that it was combined from (for rules the first patch that decides, for
definitions and parts the last that has any); `Describes` says of a document the
same after lists were applied to it, and that no reference dangles in it that did
not in the source. The second is what validation gives: applicability is checked
against the definitions of document and patch together, which are those of the
merged document.

**Answers.** `MeaningInv` is `CompleteInv` with two facts for every request: its
combination amounts to what it has read of the list it is in, and its document is
described by the source it read and the lists applied so far. A step reads one
more content of the current list (`Combining`) or applies the list (`Applying`);
what other requests do and what changes upstream touches neither. The
properties are read off at the end, where the lists are all of the configured ones.

**The loader.** `LeaderOwnsKey` and `NoLostWaiter` are inductive
together: who leads a key is in `inflight`, only the leader removes itself, and
only the leader writes the entry, so the copy it took stays the entry although
the mutex was free. `MonotonicReads` needs more (`OrderedVersions`): what has
been served never exceeds what is upstream; the cache holds exactly the last
version served; no fetch in flight brings less than has been served before it
is published, because nothing else can be served of its key from upstream in
between. The last is where `UniformCache` enters: with it a cached
entry is replaced by every successful fetch of its key, without it a source
that does not cache leaves an older entry behind. `IInv` is the conjunction of types, single flight
and that order; each action keeps it (`StepType`, `StepFlight`, `StepOrder`). The
refinement maps a load's status to idle, pending or returned and takes the other
variables as they are: a load's last step is a `Return` or a `Fail` of the
promise, whose floor is part of `IInv`; all between is stuttering.

Time is a separate invariant, `TimeInv`, which needs no `UniformCache`. A result
in flight was current after its load began and no longer than one timeout before
the deadline, which the clock has not passed; when it is published, the same
holds of the entry and its expiry (`KeyTimely`), with the durations of the
source that the leader was loading; and what a waiter takes is in addition
bounded by its own begin, as the fetch ended after it. A 304 keeps this because the validator
that was sent belongs to the version that is still upstream. That the version
was replaced at some moment, and when, is kept by `Since`, which a change of the
source (`SinceKept`) does not invalidate.

**Requests.** What is served of a key only grows, a load's floor is
what was served when it began, which is no less than what was served when its
request began (`ReadInv`). `CompleteInv` adds where a request is: in the
position-th load of its stage, it has read the first sources of the
concatenated lists up to that position, in their order.

**Tags.** A new tag is compared with all in use. For the bound of
the search, the candidates tried so far are different tags in use (`SearchInv`),
so there are at most as many as those.

**The encoder.** `EncodeInv` says, for each loop, what the items handled so far
have left behind, as a function of the document and of the tags alone: the names
that have tags (`TagInv`); the outbounds that nodes, groups and relays became, and
which of them were warned of (`OutsInv`); the rules and their warnings
(`RulesInv`). An item that was handled is not touched again, so each step adds one
item to one part. `ClosedInv` adds what the last action makes of the rest: the
final outbound, the rule sets, the DNS section. From the two, without further
steps: routing, because skipping rules leaves the order of the others;
rule sets, because the generated ones are those that are referenced and not
defined, and what inline rule sets name is either defined, generated for another
reason, or what the property leaves out; resolvers; and references, because each is a tag of the encoder, of a
node or of a group, whose outbound is there or was warned of. Three need
invariants of their own. `UniqueInv`: the tags of outbounds so far are distinct,
if no name is spelled like a hop. `MembersInv`: a member is in its group or in a
warning. A relay is followed from its tag by downward induction over its members,
each hop being the only outbound of its tag.

**The Clash decoder.** A node is appended only after its name was looked for
among those there are (`NodeInv`); a loop over providers goes on only after the
provider it is at has been resolved, so at its end there are as many as
configured, of the same names, and the references were validated against them.
`ProxyInv` says what the loops over proxies have left behind, as a function of the
configuration, of what providers delivered and of the place the loop is at: the
nodes are the first usable definitions, up to that place, of the names they have,
and a provider brought the names for which its proxies were the first. A proxy is
either usable and new, and then it is appended and its own first definition, or it
changes neither the nodes nor the first definition of any name. `GroupInv` says
the same of groups: those that were recognized so far have the members that their
own list and these names give (`WantedIn`). `RuleInv` counts rules: each that was
handled is a rule of the document, a `MATCH` or invalid, and a patch is made only
if there is no invalid one and at most one `MATCH`.

**What is handed over.** `CarriedInv` says where the DNS section of the decoded
document comes from, and which rules and which final policy it has (`Followed`); with
the invariants above its sections are lists that name each rule set once (`Whole`).
`HandedDoc` is that document or, for a patch, what
`Applied` makes of `Target` with it, which is whole again (`AppliedWhole`, from
`PatchProofs!Merging`); `HandedInv` says that nothing else is ever handed over.
Being whole is what the encoder's theorems assume (`WholeEncodable`), so for
documents that come out of a Clash configuration `HandedIsWanted` discharges their
`DocumentAssumption`; and its rules are the wanted ones (`WantedIs`): those that are
kept of the configuration, before those of `Target` if it is a patch.

**Clash DNS.** `DnsInv` says that after its step the section is `DocumentDNS` of
the configuration's; the rest is about what that is, for lists of any length.
Servers are a fold over the six lists that are given (`ServersMade`): each
server is named by its place, and every address that can be used has one. So
whatever names a server was found by an address that was given
(`SectionServes`), and no other server has its tag (`ServedOnce`); the fake one
has its own (`FakeOnce`). Rules that come first answer first: what a
concatenation answers is what its first part answers when the second answers for
the rest (`AnswerConcat`). `Sends` says of rules of one server for which names
they are, the rules of policies and of a filter in rule mode, which are of
several, answer by the first item that covers the name (`AnswerFirst`). Put
together in the order of the rules they give the server that `AddressAsked` asks
(`AnswersMean`). Where nothing was left out (`NoWarning`), the first server of a
list is the one that is used.

**The Base64 decoder.** `DecoderInv`: the names given are those that were asked
for, with all numbers up to how often; a new number is larger than all before.
`NamesTell` excludes that a plain name equals a counted one, `CountsTell` that
two counted ones are equal.

**The whole path.** `Subscription` holds a copy of every component, and its theorems
are put together from theirs. `ServedInv` says where a request is and what it has
read, `DocInv` what its document is at each place: that of the decoder, then with
the lists of patches applied (`AfterLocals`, from `PatchProofs!Describes`), and
what is handed over is that to the end. The encoder's theorems are about
documents it is given at the start; `RunInv` is their invariant from before there
is a document, and every document that patches make is `Encodable`
(`HandedEncodable`), so `EncoderInv` carries them into the composition
(`SameNext`: a step of the encoder here is one there).
`PatchesAreObeyed` reads it backwards: traffic meets the first rule that matches
of the encoded ones (`RoutingKept`), which is the first of the document, which are
those of the subscription's texts, each list in its order, then of the
others (`RulesAsked`, `ObeyHolds`); and the final policy is the last that any
text gives (`FinalMet`). `URIsHaveTheirOutbounds` follows a line instead:
`LinesInv` says that a line that was read is a node, or was skipped because it
cannot be used; a node whose name no other has survives the patches or one of a
patch has its name (`NodeSurvives`), and no patch gives the name to a second one
(`HandedOnce`); and in the encoder no other node or group has its tag, so the
outbound of that tag is its own (`OwnOutbound`, from `OwnInv`, which speaks of each
node by itself: `NodeApart`). Nothing is asked of the names of other URIs. Groups
must not have the name of the node (`GroupsApart`).
`ListenersAreAsGiven`: the inbounds of the last text that has any replace those
before as a whole, and `CheckInbounds` warns of each that is open to others.

**The registry.** `Better`, folded over the codecs in the order of their
registration, keeps the best claim so far, by whom it was made first, and how
many made it (`ClaimsMost`); so the order decides nothing but who of several is
forgotten. A codec registered again is in the list twice and claims twice.

**The configuration.** `ConfigInv`: what is accepted is validated after it was
resolved, nothing changes it after that, and resolution in an absolute
directory leaves no relative location (`ResolvedPlace`).

## 5. What is only model-checked

- Liveness (`EveryLoadReturns`, `EveryRequestAnswered`), which the prover does not
  reach.
- `TrafficKept`, from the text of a Clash configuration to the encoded rules. Its
  parts are proved: what the decoder and the patch hand over is what is wanted and
  can be encoded (`HandedIsWanted`), and the encoder keeps the routing of any such
  document (`RoutingIsKept`). Put together in one theorem they would need the
  encoder's invariant beside the decoder's in every step of `Pipeline`.
- `NoResolutionLoop`, whose reachability (`NeededBy`) is a recursive function over
  the outbounds: an induction over data.

## 6. Divergences

From the documentation, or of one part of the code from another:

- `singbox_final`: `MATCH,REJECT` becomes the final outbound `proxy`
  (`singbox/codec.go:133`), where the README says that `MATCH` overrides the
  final policy.
- `singbox_first`: two built-in rules come before those of patches
  (`singbox/codec.go:119`), where the README gives subscription patches the
  first priority.
- `clash_blacklist`: an unknown `fake-ip-filter-mode` leaves the filter out
  (`clash/clash_dns.go:172`), where the warning says that blacklist was used.
- `clash_rule_sets`: the decoder refuses a configuration that references an unknown
  rule set (`clash/clash_decode.go:155`), inside inline rule sets as well, but lets
  names through that begin with `geoip-` or `geosite-` (line 151) for the encoder to
  generate; the encoder does so for rules and DNS rules, and inside inline rule sets
  for geo codes alone (`singbox/codec.go:574`). A rule provider whose payload has
  `RULE-SET,geoip-cn` is converted, without a warning, into a configuration that names
  a rule set it does not have.

What the models leave to premises rather than assert:

- two sources of one location with different cache durations (`UniformCache`)
  may see content go back in time; staleness is bounded all the same;
- a group of a patch that has a node's name shares its tag, and so the URI has two
  outbounds of one tag or none of its own (`GroupsApart`; the proof of
  `URIsHaveTheirOutbounds` did not go through without it, and TLC showed why);
- rules, groups and detours may name an outbound that was skipped; each that was is
  told of in a warning (`OnlySkippedDangle`);
- nodes named like a hop of a relay (`Unambiguous`) make two outbounds of one
  tag, and so do Base64 URIs whose given name looks counted, such as `a-2`, `a`
  and `a` (`NamesTell` in `NodesNamedOnce`, `NamedApart` in
  `EveryURIHasItsOutbound`);
- rules after `MATCH` and several `MATCH` rules in a source are decided
  otherwise than in a Clash client (premise of `TrafficKept`);
- nodes and groups spelled like a builtin policy are taken for it
  (`Expressible`);
- a DNS section without a server that can be used (`AnyServer`), or whose
  servers are names that nothing resolves (`ServersHold`, `NoResolutionLoop`),
  is passed on as it is;
- rules about addresses in a fake-ip filter match every name (premise of
  `NamesAnsweredAsMeant`).

## 7. What is not modelled, and why

- The fields of protocols, TLS and transports: data that is copied, without a
  decision that a property could be about.
- YAML, JSON, URIs, regular expressions, spelling of rules: each appears by its
  result (readable or not, what it matches).
- Logging, HTML, the version, flags and output files, the sorted list of
  formats: pure output.
- Standard input: it is read once, by `convert`, and given as the text at `None`.
- The HTTP server's own timeouts: a connection that is cut does not change what
  the handler does, which has no context.
- A panic of the fetch, which would leave its call in `inflight` for ever: no
  code of the repository on that path panics, so the models would have to invent
  one.
- Providers as loads of `Conversion`: a provider appears in `ClashDecode` by
  what it may deliver, each load on its own. That a request loads one location
  twice, as provider and as patch, is not composed.

## 8. Order of the work, and what is left

The loader came first, as the only shared state; then patches and the handler,
whose priority is the documented contract; then the encoder and the decoders,
which decide what comes out; last the compositions, `ClashToSingBox` and
`Subscription`, in which the properties that matter most to a client are stated
over the whole path. What could be added:

1. `Conversion` over `ClashDecode`, so that loads of providers interleave with
   other requests.
2. `TrafficKept` as a theorem, from `HandedIsWanted` and `RoutingIsKept`, in a module
   that carries the encoder's invariant through `Pipeline`.
