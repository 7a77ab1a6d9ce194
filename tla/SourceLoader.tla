------------------------------ MODULE SourceLoader ------------------------------
(***************************************************************************)
(* The default Loader of source.go: local files are read at once; a remote *)
(* source goes through an in-memory cache, joins the fetch of the same key *)
(* that is in flight, or leads a fetch of its own, conditional on the      *)
(* validator of the entry it found.                                        *)
(*                                                                         *)
(* A content is the version number the server gave it; its bytes do not    *)
(* matter.  Versions start at 1, so that an entry of version 0 is Go's     *)
(* zero sourceCacheEntry with cached = false.  Each load is one call of    *)
(* Load; the load that leads a fetch stands for its sourceCall.  A block   *)
(* between mu.Lock and mu.Unlock is one action.                            *)
(***************************************************************************)
EXTENDS Naturals, FiniteSets

CONSTANTS
    Loads,              \* calls of Load
    NoLoad,             \* no call in flight
    Sources,            \* the Source values that loads are given
    LocalSources,       \* those naming a file
    InvalidSources,     \* those refused: a URL without host, a bad duration
    Keys,               \* cache keys: location and headers, nothing else
    KeyOf,              \* KeyOf[s]: sourceCacheKey of s
    CacheOf,            \* CacheOf[s]: its cache duration, 0 for none
    TimeoutOf,          \* TimeoutOf[s]: its timeout
    Tags, NoTag,        \* ETag and Last-Modified values, NoTag for neither
    TagOf,              \* TagOf[k][v]: the validator the server gives version v
    MaxVersion,         \* bound: versions of one content
    MaxTime             \* bound: an idle system stops the clock here

ASSUME SourcesAssumption ==
    /\ NoLoad \notin Loads
    /\ LocalSources \subseteq Sources
    /\ InvalidSources \subseteq Sources \ LocalSources
    /\ KeyOf \in [Sources -> Keys]
    /\ CacheOf \in [Sources -> Nat]
    /\ TimeoutOf \in [Sources -> Nat \ {0}]

\* The key starts with the location, which is a file's or a URL.
ASSUME LocationAssumption ==
    \A s, t \in Sources :
        KeyOf[s] = KeyOf[t] => (s \in LocalSources <=> t \in LocalSources)

\* The server never gives two versions the same validator.
ASSUME ValidatorAssumption ==
    /\ NoTag \in Tags
    /\ TagOf \in [Keys -> [1 .. MaxVersion -> Tags]]
    /\ \A k \in Keys : \A v, w \in 1 .. MaxVersion :
          TagOf[k][v] = TagOf[k][w] /\ TagOf[k][v] # NoTag => v = w

ASSUME BoundsAssumption == MaxVersion \in Nat \ {0} /\ MaxTime \in Nat

\* Sources that share a key agree on the cache duration.  The code does not
\* enforce it; the properties that need it say so.
UniformCache ==
    \A s, t \in Sources : KeyOf[s] = KeyOf[t] => CacheOf[s] = CacheOf[t]

VARIABLES
    src,                \* src[l]: the argument of Load
    pc,                 \* pc[l]: how far l has come
    now,                \* now[l]: the clock l read before it took the mutex
    snap,               \* snap[l]: the entry l copied under the mutex
    deadline,           \* deadline[l]: when the context of l's fetch expires
    reply,              \* reply[l]: the server's answer to l's request
    call,               \* call[l]: the call that l waits for
    result,             \* result[l]: data, validator and err of l's sourceCall
    outcome,            \* outcome[l]: what Load returned to l's caller
    cache, inflight,    \* the two maps of sourceLoader
    clock,              \* external: the time
    upstream,           \* external: the version at each location
    changedAt,          \* history: when each version replaced the one before
    floor, served       \* history: as in VersionedSource

loadVars == <<now, snap, deadline, reply, call, result>>
history == <<changedAt, floor, served>>
vars == <<src, pc, now, snap, deadline, reply, call, result, outcome,
          cache, inflight, clock, upstream, changedAt, floor, served>>

NoEntry == [ver |-> 0, tag |-> NoTag, expires |-> 0]
Cached(entry) == entry.ver # 0

NoReply == [kind |-> "none", ver |-> 0]
NoResult == [status |-> "none", ver |-> 0, tag |-> NoTag]
ErrorResult == [status |-> "error", ver |-> 0, tag |-> NoTag]

Nothing == [status |-> "none", ver |-> 0]
Failed == [status |-> "error", ver |-> 0]
Loaded(v) == [status |-> "ok", ver |-> v]
Returned(r) == IF r.status = "ok" THEN Loaded(r.ver) ELSE Failed

Key(l) == KeyOf[src[l]]
Later(v, w) == IF v < w THEN w ELSE v
Fetching(l) == pc[l] = "fetch"
Leading(l) == pc[l] \in {"start", "fetch", "publish"}

Init ==
    /\ src \in [Loads -> Sources]
    /\ pc = [l \in Loads |-> "idle"]
    /\ now = [l \in Loads |-> 0]
    /\ snap = [l \in Loads |-> NoEntry]
    /\ deadline = [l \in Loads |-> 0]
    /\ reply = [l \in Loads |-> NoReply]
    /\ call = [l \in Loads |-> NoLoad]
    /\ result = [l \in Loads |-> NoResult]
    /\ outcome = [l \in Loads |-> Nothing]
    /\ cache = [k \in Keys |-> NoEntry]
    /\ inflight = [k \in Keys |-> NoLoad]
    /\ clock = 0
    /\ upstream = [k \in Keys |-> 1]
    /\ changedAt = [k \in Keys |-> [v \in 1 .. MaxVersion |-> 0]]
    /\ floor = [l \in Loads |-> 0]
    /\ served = [k \in Keys |-> 0]

--------------------------------------------------------------------------------
(* The calls of Load. *)

\* The load ends with result r.
Return(l, r) ==
    /\ pc' = [pc EXCEPT ![l] = "done"]
    /\ outcome' = [outcome EXCEPT ![l] = Returned(r)]
    /\ served' = IF r.status = "ok"
                 THEN [served EXCEPT ![Key(l)] = Later(@, r.ver)]
                 ELSE served

Reject(l) ==
    /\ pc[l] = "idle"
    /\ src[l] \in InvalidSources
    /\ Return(l, ErrorResult)
    /\ UNCHANGED <<src, loadVars, cache, inflight, clock, upstream, changedAt,
                   floor>>

BeginFile(l) ==
    /\ pc[l] = "idle"
    /\ src[l] \in LocalSources
    /\ pc' = [pc EXCEPT ![l] = "read"]
    /\ floor' = [floor EXCEPT ![l] = served[Key(l)]]
    /\ UNCHANGED <<src, loadVars, outcome, cache, inflight, clock, upstream,
                   changedAt, served>>

ReadFile(l) ==
    /\ pc[l] = "read"
    /\ \/ Return(l, [status |-> "ok", ver |-> upstream[Key(l)], tag |-> NoTag])
       \/ Return(l, ErrorResult)
    /\ UNCHANGED <<src, loadVars, cache, inflight, clock, upstream, changedAt,
                   floor>>

\* The clock is read before the mutex is taken.
BeginRemote(l) ==
    /\ pc[l] = "idle"
    /\ src[l] \notin LocalSources \cup InvalidSources
    /\ pc' = [pc EXCEPT ![l] = "lookup"]
    /\ now' = [now EXCEPT ![l] = clock]
    /\ floor' = [floor EXCEPT ![l] = served[Key(l)]]
    /\ UNCHANGED <<src, snap, deadline, reply, call, result, outcome, cache,
                   inflight, clock, upstream, changedAt, served>>

\* Mutant of Fresh: the expiry is not looked at.
FreshForEver(l) == Cached(cache[Key(l)]) /\ CacheOf[src[l]] > 0

Fresh(l) ==
    /\ Cached(cache[Key(l)])
    /\ CacheOf[src[l]] > 0
    /\ now[l] < cache[Key(l)].expires

CacheHit(l) ==
    /\ pc[l] = "lookup"
    /\ Fresh(l)
    /\ Return(l, [status |-> "ok", ver |-> cache[Key(l)].ver, tag |-> NoTag])
    /\ UNCHANGED <<src, loadVars, cache, inflight, clock, upstream, changedAt,
                   floor>>

Join(l) ==
    /\ pc[l] = "lookup"
    /\ ~Fresh(l)
    /\ inflight[Key(l)] # NoLoad
    /\ pc' = [pc EXCEPT ![l] = "wait"]
    /\ call' = [call EXCEPT ![l] = inflight[Key(l)]]
    /\ UNCHANGED <<src, now, snap, deadline, reply, result, outcome, cache,
                   inflight, clock, upstream, history>>

\* Mutant of Lead: no look at the calls in flight.
LeadAlways(l) ==
    /\ pc[l] = "lookup"
    /\ ~Fresh(l)
    /\ pc' = [pc EXCEPT ![l] = "start"]
    /\ inflight' = [inflight EXCEPT ![Key(l)] = l]
    /\ snap' = [snap EXCEPT ![l] = cache[Key(l)]]
    /\ UNCHANGED <<src, now, deadline, reply, call, result, outcome, cache,
                   clock, upstream, history>>

Lead(l) ==
    /\ pc[l] = "lookup"
    /\ ~Fresh(l)
    /\ inflight[Key(l)] = NoLoad
    /\ pc' = [pc EXCEPT ![l] = "start"]
    /\ inflight' = [inflight EXCEPT ![Key(l)] = l]
    /\ snap' = [snap EXCEPT ![l] = cache[Key(l)]]
    /\ UNCHANGED <<src, now, deadline, reply, call, result, outcome, cache,
                   clock, upstream, history>>

\* The context is created once the mutex is released.
StartFetch(l) ==
    /\ pc[l] = "start"
    /\ pc' = [pc EXCEPT ![l] = "fetch"]
    /\ deadline' = [deadline EXCEPT ![l] = clock + TimeoutOf[src[l]]]
    /\ UNCHANGED <<src, now, snap, reply, call, result, outcome, cache,
                   inflight, clock, upstream, history>>

\* The validator in the request, NoTag for an unconditional request.
Condition(l) ==
    IF CacheOf[src[l]] > 0 /\ Cached(snap[l]) THEN snap[l].tag ELSE NoTag

\* Mutant of Fetched: the body of any answer is taken for content.
FetchedWhatever(l) ==
    IF reply[l].kind = "notModified" /\ Cached(snap[l])
    THEN [status |-> "ok", ver |-> snap[l].ver, tag |-> snap[l].tag]
    ELSE [status |-> "ok", ver |-> reply[l].ver, tag |-> NoTag]

\* What fetchRemote makes of an answer.
Fetched(l) ==
    IF reply[l].kind = "notModified" /\ Cached(snap[l])
    THEN [status |-> "ok", ver |-> snap[l].ver, tag |-> snap[l].tag]
    ELSE IF reply[l].kind = "content"
    THEN [status |-> "ok", ver |-> reply[l].ver,
          tag |-> TagOf[Key(l)][reply[l].ver]]
    ELSE ErrorResult

\* fetchRemote returns r and its locals go; the leader has still to take the
\* mutex.
FetchReturns(l, r) ==
    /\ pc' = [pc EXCEPT ![l] = "publish"]
    /\ result' = [result EXCEPT ![l] = r]
    /\ deadline' = [deadline EXCEPT ![l] = 0]
    /\ reply' = [reply EXCEPT ![l] = NoReply]
    /\ UNCHANGED <<src, now, snap, call, outcome, cache, inflight, clock,
                   upstream, history>>

Receive(l) ==
    /\ Fetching(l)
    /\ reply[l] # NoReply
    /\ FetchReturns(l, Fetched(l))

\* The connection breaks, or the body is larger than maxInputSize.
FetchFails(l) ==
    /\ Fetching(l)
    /\ FetchReturns(l, ErrorResult)

\* Mutant of TimeOut: the request is made without the context.
TimeOutNever(l) == FALSE /\ FetchFails(l)

TimeOut(l) ==
    /\ Fetching(l)
    /\ clock >= deadline[l]
    /\ FetchReturns(l, ErrorResult)

\* Mutant of Stored: a revalidated entry gets the new validator, not the data.
StoredTagOnly(l, r) ==
    [ver |-> IF Cached(snap[l]) THEN snap[l].ver ELSE r.ver, tag |-> r.tag,
     expires |-> clock + CacheOf[src[l]]]

Stored(l, r) ==
    [ver |-> r.ver, tag |-> r.tag, expires |-> clock + CacheOf[src[l]]]

\* Mutant of Publish: an error returns before the call is taken off the map.
PublishKeepsFailed(l) ==
    /\ pc[l] = "publish"
    /\ inflight' = IF result[l].status = "ok"
                   THEN [inflight EXCEPT ![Key(l)] = NoLoad] ELSE inflight
    /\ cache' = IF result[l].status = "ok" /\ CacheOf[src[l]] > 0
                THEN [cache EXCEPT ![Key(l)] = Stored(l, result[l])]
                ELSE cache
    /\ snap' = [snap EXCEPT ![l] = NoEntry]
    /\ Return(l, result[l])
    /\ UNCHANGED <<src, now, deadline, reply, call, result, clock, upstream,
                   changedAt, floor>>

\* delete(inflight), the store and close(done) are one critical section.
Publish(l) ==
    /\ pc[l] = "publish"
    /\ inflight' = [inflight EXCEPT ![Key(l)] = NoLoad]
    /\ cache' = IF result[l].status = "ok" /\ CacheOf[src[l]] > 0
                THEN [cache EXCEPT ![Key(l)] = Stored(l, result[l])]
                ELSE cache
    /\ snap' = [snap EXCEPT ![l] = NoEntry]
    /\ Return(l, result[l])
    /\ UNCHANGED <<src, now, deadline, reply, call, result, clock, upstream,
                   changedAt, floor>>

\* A receive from call.done, which its leader has closed.
Await(l) ==
    /\ pc[l] = "wait"
    /\ pc[call[l]] = "done"
    /\ Return(l, result[call[l]])
    /\ call' = [call EXCEPT ![l] = NoLoad]
    /\ UNCHANGED <<src, now, snap, deadline, reply, result, cache, inflight,
                   clock, upstream, changedAt, floor>>

--------------------------------------------------------------------------------
(* The servers, the files and the clock. *)

ServerAnswers(l) ==
    /\ Fetching(l)
    /\ reply[l] = NoReply
    /\ \E answer \in
          {[kind |-> "content", ver |-> upstream[Key(l)]],
           [kind |-> "refused", ver |-> 0]} \cup
          (IF Condition(l) # NoTag /\ Condition(l) = TagOf[Key(l)][upstream[Key(l)]]
           THEN {[kind |-> "notModified", ver |-> 0]} ELSE {}) :
             reply' = [reply EXCEPT ![l] = answer]
    /\ UNCHANGED <<src, pc, now, snap, deadline, call, result, outcome, cache,
                   inflight, clock, upstream, history>>

UpstreamChanges(k) ==
    /\ upstream[k] < MaxVersion
    /\ upstream' = [upstream EXCEPT ![k] = @ + 1]
    /\ changedAt' = [changedAt EXCEPT ![k][upstream[k] + 1] = clock]
    /\ UNCHANGED <<src, pc, loadVars, outcome, cache, inflight, clock, floor,
                   served>>

\* Contexts expire on time, and a leader whose fetch has returned takes the
\* mutex before the next tick.
Tick ==
    /\ \A l \in Loads : pc[l] # "publish" /\ (Fetching(l) => clock < deadline[l])
    /\ clock < MaxTime \/ \E l \in Loads : Fetching(l)
    /\ clock' = clock + 1
    /\ UNCHANGED <<src, pc, loadVars, outcome, cache, inflight, upstream, history>>

\* Every call of Load has returned.
Finished ==
    /\ \A l \in Loads : pc[l] = "done"
    /\ UNCHANGED vars

\* The steps of one goroutine that do not wait for the network.
Step(l) ==
    \/ ReadFile(l) \/ CacheHit(l) \/ Join(l) \/ Lead(l)
    \/ StartFetch(l) \/ TimeOut(l) \/ Publish(l) \/ Await(l)

Next ==
    \/ \E l \in Loads : Reject(l) \/ BeginFile(l) \/ BeginRemote(l)
    \/ \E l \in Loads : Step(l)
    \/ \E l \in Loads : ServerAnswers(l) \/ Receive(l) \/ FetchFails(l)
    \/ \E k \in Keys : UpstreamChanges(k)
    \/ Tick
    \/ Finished

Spec == Init /\ [][Next]_vars

\* Goroutines run and time passes.  Nothing is asked of the network.
FairSpec == Spec /\ WF_vars(Tick) /\ \A l \in Loads : WF_vars(Step(l))

--------------------------------------------------------------------------------
(* Properties. *)

Versions == 1 .. MaxVersion
Entries == [ver : 0 .. MaxVersion, tag : Tags, expires : Nat]
Replies == [kind : {"content"}, ver : Versions]
              \cup [kind : {"none", "refused", "notModified"}, ver : {0}]
Results == [status : {"ok"}, ver : Versions, tag : Tags]
              \cup {NoResult, ErrorResult}
Outcomes == [status : {"ok"}, ver : Versions] \cup {Nothing, Failed}
Labels == {"idle", "read", "lookup", "start", "fetch", "publish", "wait", "done"}

\* Every variable keeps its type; what a load returns is a version that exists.
TypeOK ==
    /\ src \in [Loads -> Sources]
    /\ pc \in [Loads -> Labels]
    /\ now \in [Loads -> Nat]
    /\ snap \in [Loads -> Entries]
    /\ deadline \in [Loads -> Nat]
    /\ reply \in [Loads -> Replies]
    /\ call \in [Loads -> Loads \cup {NoLoad}]
    /\ \A l \in Loads : pc[l] = "wait" => call[l] \in Loads
    /\ result \in [Loads -> Results]
    /\ outcome \in [Loads -> Outcomes]
    /\ cache \in [Keys -> Entries]
    /\ inflight \in [Keys -> Loads \cup {NoLoad}]
    /\ clock \in Nat
    /\ upstream \in [Keys -> Versions]
    /\ changedAt \in [Keys -> [Versions -> Nat]]
    /\ floor \in [Loads -> 0 .. MaxVersion]
    /\ served \in [Keys -> 0 .. MaxVersion]

\* Single flight: a key has at most one fetch, and from the moment its leader
\* copied the entry until it stores the new one nobody else changes it.  The
\* code releases the mutex in between and later writes back its own copy.
LeaderOwnsKey ==
    \A l \in Loads :
        Leading(l) => inflight[Key(l)] = l /\ snap[l] = cache[Key(l)]

\* A load joins only a call that is still to be closed, and waits only for a
\* call of its own key that is in flight or has been closed: no waiter is lost
\* between the leader's two critical sections, after an error in particular.
NoLostWaiter ==
    /\ \A k \in Keys : inflight[k] # NoLoad =>
          Leading(inflight[k]) /\ Key(inflight[k]) = k
    /\ \A l \in Loads : pc[l] = "wait" =>
          /\ Key(call[l]) = Key(l)
          /\ inflight[Key(l)] = call[l] \/ pc[call[l]] = "done"

\* Once v is no longer the version of key k, when was it replaced?
Current(k, v) == v = upstream[k]
ReplacedAt(k, v) == changedAt[k][v + 1]

\* A fetch, conditional or not, yields a version that was still current after
\* its load began: an answer 304 never revives an outdated entry.
FetchIsCurrent ==
    \A l \in Loads :
        pc[l] = "publish" /\ result[l].status = "ok" =>
            \/ Current(Key(l), result[l].ver)
            \/ ReplacedAt(Key(l), result[l].ver) >= now[l]

\* Content never goes back in time: a load that begins after another load of
\* its key has returned a version returns that version or a later one, be it
\* from the cache, from somebody else's fetch or from its own.
MonotonicReads ==
    UniformCache =>
        \A l \in Loads : outcome[l].status = "ok" => floor[l] <= outcome[l].ver

\* What a load returns was still current no longer than one cache duration
\* and one timeout before it began, those of one of the sources that share the
\* key: even when the others are not cached, or for longer.
BoundedStaleness ==
    \A l \in Loads : outcome[l].status = "ok" =>
        \/ Current(Key(l), outcome[l].ver)
        \/ \E s \in Sources :
              /\ KeyOf[s] = Key(l)
              /\ ReplacedAt(Key(l), outcome[l].ver) + CacheOf[s] + TimeoutOf[s]
                    >= now[l]

KeyOrder(k) ==
    /\ served[k] <= upstream[k]
    /\ Cached(cache[k]) =>
          /\ cache[k].ver = served[k]
          /\ \E s \in Sources \ LocalSources : KeyOf[s] = k /\ CacheOf[s] > 0

LoadOrder(l) ==
    /\ floor[l] <= served[Key(l)]
    /\ Leading(l) \/ pc[l] \in {"lookup", "wait"} => src[l] \notin LocalSources
    /\ pc[l] = "read" => src[l] \in LocalSources
    /\ pc[l] \notin {"publish", "done"} => result[l] = NoResult
    /\ pc[l] # "done" => outcome[l] = Nothing
    /\ ~Fetching(l) => reply[l] = NoReply
    /\ Fetching(l) /\ reply[l].kind = "content" =>
          served[Key(l)] <= reply[l].ver /\ reply[l].ver <= upstream[Key(l)]
    /\ pc[l] = "publish" /\ result[l].status = "ok" =>
          served[Key(l)] <= result[l].ver /\ result[l].ver <= upstream[Key(l)]
    /\ pc[l] = "done" /\ result[l].status = "ok" => result[l].ver <= served[Key(l)]
    /\ outcome[l].status = "ok" => floor[l] <= outcome[l].ver

WaitOrder(l) ==
    pc[l] = "wait" /\ pc[call[l]] = "done" /\ result[call[l]].status = "ok" =>
        floor[l] <= result[call[l]].ver

\* Why MonotonicReads holds, key by key: what has been served never exceeds
\* what is upstream, the cache holds exactly the last version served, and no
\* fetch in flight brings less than was served before it is published.
OrderedVersions ==
    /\ \A k \in Keys : KeyOrder(k)
    /\ \A l \in Loads : LoadOrder(l) /\ WaitOrder(l)

\* Every load that has begun returns, though the network may never answer: the
\* leader's timeout also frees those who wait for it.
EveryLoadReturns ==
    \A l \in Loads : pc[l] # "idle" ~> pc[l] = "done"

\* The abstract promise.  A load is pending until it returns.
StatusOf(p) ==
    IF p = "idle" THEN "idle" ELSE IF p = "done" THEN "returned" ELSE "pending"

Promise == INSTANCE VersionedSource WITH
    key <- [l \in Loads |-> Key(l)],
    latest <- upstream,
    status <- [l \in Loads |-> StatusOf(pc[l])]

\* The loader implements VersionedSource.
KeepsPromise == Promise!Spec

================================================================================
