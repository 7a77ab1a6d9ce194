--------------------------- MODULE SourceLoaderProofs ---------------------------
(* Theorems about SourceLoader, for every value of its constants. *)
EXTENDS SourceLoader, TLAPS

--------------------------------------------------------------------------------
(* Types. *)

\* The keys and durations of a source, and the validators of a version.
LEMMA ConstantTypes ==
    /\ \A s \in Sources :
          KeyOf[s] \in Keys /\ CacheOf[s] \in Nat /\ TimeoutOf[s] \in Nat \ {0}
    /\ \A k \in Keys : \A v \in Versions : TagOf[k][v] \in Tags
    /\ NoTag \in Tags /\ 1 \in Versions /\ Versions \subseteq Nat
    /\ \A v \in Versions : v # 0
    /\ 0 .. MaxVersion = Versions \cup {0}
  BY SourcesAssumption, ValidatorAssumption, BoundsAssumption DEF Versions

\* The records that the loader builds belong to their types.
LEMMA RecordTypes ==
    /\ NoEntry \in Entries
    /\ \A v \in Versions, t \in Tags, e \in Nat :
          [ver |-> v, tag |-> t, expires |-> e] \in Entries
    /\ \A v \in Versions, t \in Tags :
          [status |-> "ok", ver |-> v, tag |-> t] \in Results
    /\ \A v \in Versions : [kind |-> "content", ver |-> v] \in Replies
    /\ [kind |-> "refused", ver |-> 0] \in Replies
    /\ [kind |-> "notModified", ver |-> 0] \in Replies
    /\ NoReply \in Replies /\ NoResult \in Results /\ ErrorResult \in Results
    /\ Nothing \in Outcomes /\ Failed \in Outcomes
  BY ConstantTypes
  DEF NoEntry, NoReply, NoResult, ErrorResult, Nothing, Failed, Entries, Replies,
      Results, Outcomes

\* The fields of those records.
LEMMA FieldTypes ==
    /\ \A e \in Entries : e.ver \in 0 .. MaxVersion /\ e.tag \in Tags /\ e.expires \in Nat
    /\ \A e \in Entries : Cached(e) => e.ver \in Versions
    /\ \A r \in Replies : r.kind = "content" => r.ver \in Versions
    /\ \A r \in Results : r.status = "ok" => r.ver \in Versions /\ r.tag \in Tags
    /\ \A r \in Results : Returned(r) \in Outcomes
    /\ \A o \in Outcomes : o.status = "ok" => o.ver \in Versions
    /\ ~Cached(NoEntry) /\ NoResult.status # "ok" /\ ErrorResult.status # "ok"
    /\ Nothing.status # "ok" /\ Failed.status # "ok" /\ NoReply.kind = "none"
  BY ConstantTypes
  DEF NoEntry, NoReply, NoResult, ErrorResult, Nothing, Failed, Entries, Replies,
      Results, Outcomes, Returned, Loaded, Cached

\* What fetchRemote returns is well typed, whatever the server answered.
LEMMA FetchedType ==
    ASSUME NEW l \in Loads, TypeOK
    PROVE  Fetched(l) \in Results
  BY ConstantTypes, RecordTypes, FieldTypes DEF TypeOK, Fetched, Key

\* A load that returns a well-typed result leaves what it assigns well typed.
LEMMA ReturnType ==
    ASSUME NEW l \in Loads, NEW r \in Results, TypeOK, Return(l, r)
    PROVE  /\ pc' \in [Loads -> Labels]
           /\ outcome' \in [Loads -> Outcomes]
           /\ served' \in [Keys -> 0 .. MaxVersion]
           /\ \A m \in Loads : pc'[m] = "wait" => pc[m] = "wait"
<1>1. /\ pc' \in [Loads -> Labels]
      /\ \A m \in Loads : pc'[m] = "wait" => pc[m] = "wait"
  BY DEF TypeOK, Return, Labels
<1>2. outcome' \in [Loads -> Outcomes]
  BY FieldTypes DEF TypeOK, Return
<1>3. served' \in [Keys -> 0 .. MaxVersion]
  <2>1. CASE r.status = "ok"
    <3>1. r.ver \in 0 .. MaxVersion
      BY <2>1, FieldTypes, ConstantTypes
    <3>2. \A v \in 0 .. MaxVersion : Later(v, r.ver) \in 0 .. MaxVersion
      BY <3>1 DEF Later
    <3> QED BY <2>1, <3>2 DEF TypeOK, Return
  <2>2. CASE r.status # "ok"
    BY <2>2 DEF TypeOK, Return
  <2> QED BY <2>1, <2>2
<1> QED BY <1>1, <1>2, <1>3

\* fetchRemote's return hands the leader a result of the right type.
LEMMA FetchReturnsType ==
    ASSUME NEW l \in Loads, NEW r \in Results, TypeOK, FetchReturns(l, r)
    PROVE  TypeOK'
  BY RecordTypes DEF TypeOK, FetchReturns, Labels, history

\* A fresh loader, before any call, is well typed.
LEMMA InitType == Init => TypeOK
  BY ConstantTypes, RecordTypes, BoundsAssumption, SourcesAssumption
  DEF Init, TypeOK, Labels, Versions

\* One step of any goroutine, server or clock keeps the types.
LEMMA StepType == TypeOK /\ [Next]_vars => TypeOK'
<1> SUFFICES ASSUME TypeOK, [Next]_vars PROVE TypeOK'
  OBVIOUS
<1> USE DEF loadVars, history
<1>1. ASSUME NEW l \in Loads, Reject(l) PROVE TypeOK'
  BY <1>1, ReturnType, RecordTypes DEF Reject, TypeOK
<1>2. ASSUME NEW l \in Loads, BeginFile(l) PROVE TypeOK'
  BY <1>2, ConstantTypes DEF BeginFile, TypeOK, Labels, Key
<1>3. ASSUME NEW l \in Loads, ReadFile(l) PROVE TypeOK'
  <2>1. [status |-> "ok", ver |-> upstream[Key(l)], tag |-> NoTag] \in Results
    BY ConstantTypes, RecordTypes DEF TypeOK, Key
  <2> QED BY <1>3, <2>1, ReturnType, RecordTypes DEF ReadFile, TypeOK
<1>4. ASSUME NEW l \in Loads, BeginRemote(l) PROVE TypeOK'
  BY <1>4, ConstantTypes DEF BeginRemote, TypeOK, Labels, Key
<1>5. ASSUME NEW l \in Loads, CacheHit(l) PROVE TypeOK'
  <2>1. [status |-> "ok", ver |-> cache[Key(l)].ver, tag |-> NoTag] \in Results
    BY <1>5, ConstantTypes, RecordTypes, FieldTypes DEF TypeOK, Key, CacheHit, Fresh
  <2> QED BY <1>5, <2>1, ReturnType DEF CacheHit, TypeOK
<1>6. ASSUME NEW l \in Loads, Join(l) PROVE TypeOK'
  BY <1>6, ConstantTypes DEF Join, TypeOK, Labels, Key
<1>7. ASSUME NEW l \in Loads, Lead(l) PROVE TypeOK'
  BY <1>7, ConstantTypes DEF Lead, TypeOK, Labels, Key
<1>8. ASSUME NEW l \in Loads, StartFetch(l) PROVE TypeOK'
  BY <1>8, ConstantTypes DEF StartFetch, TypeOK, Labels
<1>9. ASSUME NEW l \in Loads, Receive(l) \/ FetchFails(l) \/ TimeOut(l) PROVE TypeOK'
  BY <1>9, FetchReturnsType, FetchedType, RecordTypes DEF Receive, FetchFails, TimeOut
<1>10. ASSUME NEW l \in Loads, Publish(l) PROVE TypeOK'
  <2>1. result[l] \in Results
    BY DEF TypeOK
  <2>2. cache' \in [Keys -> Entries]
    BY <1>10, <2>1, ConstantTypes, RecordTypes, FieldTypes
    DEF Publish, Stored, TypeOK, Key
  <2> QED BY <1>10, <2>1, <2>2, ReturnType, RecordTypes, ConstantTypes
          DEF Publish, TypeOK, Key
<1>11. ASSUME NEW l \in Loads, Await(l) PROVE TypeOK'
  <2>1. result[call[l]] \in Results
    BY <1>11 DEF Await, TypeOK
  <2>2. pc'[l] # "wait"
    BY <1>11 DEF Await, Return, TypeOK
  <2> QED BY <1>11, <2>1, <2>2, ReturnType DEF Await, TypeOK
<1>12. ASSUME NEW l \in Loads, ServerAnswers(l) PROVE TypeOK'
  <2>1. reply' \in [Loads -> Replies]
    BY <1>12, RecordTypes, ConstantTypes DEF ServerAnswers, TypeOK, Key
  <2> QED BY <1>12, <2>1 DEF ServerAnswers, TypeOK
<1>13. ASSUME NEW k \in Keys, UpstreamChanges(k) PROVE TypeOK'
  <2>1. upstream[k] + 1 \in Versions
    BY <1>13, BoundsAssumption DEF UpstreamChanges, TypeOK, Versions
  <2> QED BY <1>13, <2>1 DEF UpstreamChanges, TypeOK
<1>14. CASE Tick
  BY <1>14 DEF Tick, TypeOK
<1>15. CASE Finished \/ UNCHANGED vars
  BY <1>15 DEF Finished, vars, TypeOK
<1> QED
  BY <1>1, <1>2, <1>3, <1>4, <1>5, <1>6, <1>7, <1>8, <1>9, <1>10, <1>11,
     <1>12, <1>13, <1>14, <1>15 DEF Next, Step

\* Every variable of the loader keeps its type in every behaviour.
THEOREM TypeCorrect == Spec => []TypeOK
<1> QED BY InitType, StepType, PTL DEF Spec

--------------------------------------------------------------------------------
(* Single flight. *)

Flight == TypeOK /\ LeaderOwnsKey /\ NoLostWaiter

\* At first nothing is in flight.
LEMMA InitFlight == Init => LeaderOwnsKey /\ NoLostWaiter
  BY DEF Init, LeaderOwnsKey, NoLostWaiter, Leading

\* The two critical sections of a leader, and nothing else, move the key's
\* entries of the two maps.
LEMMA StepFlight == Flight /\ [Next]_vars => LeaderOwnsKey' /\ NoLostWaiter'
<1> SUFFICES ASSUME Flight, [Next]_vars PROVE LeaderOwnsKey' /\ NoLostWaiter'
  OBVIOUS
<1> USE DEF Flight, LeaderOwnsKey, NoLostWaiter, Leading, Key
<1>k. \A l \in Loads : KeyOf[src[l]] \in Keys
  BY ConstantTypes DEF TypeOK
\* Steps that move no load into or out of the flight.
<1>q. ASSUME UNCHANGED <<src, cache, inflight, snap, call>>,
             \A m \in Loads : pc'[m] # pc[m] =>
                /\ pc[m] \notin {"start", "fetch", "publish", "done"}
                /\ pc'[m] \notin {"start", "fetch", "publish", "wait"}
      PROVE  LeaderOwnsKey' /\ NoLostWaiter'
  BY <1>q, <1>k DEF TypeOK
<1>1. ASSUME NEW l \in Loads, Reject(l) \/ BeginFile(l) \/ ReadFile(l)
                              \/ BeginRemote(l) \/ CacheHit(l)
      PROVE  LeaderOwnsKey' /\ NoLostWaiter'
  BY <1>1, <1>q DEF Reject, BeginFile, ReadFile, BeginRemote, CacheHit, Return,
     loadVars, TypeOK
<1>2. ASSUME NEW l \in Loads, Join(l) PROVE LeaderOwnsKey' /\ NoLostWaiter'
  <2>1. /\ pc[l] = "lookup" /\ pc' = [pc EXCEPT ![l] = "wait"]
        /\ inflight[Key(l)] # NoLoad
        /\ call' = [call EXCEPT ![l] = inflight[Key(l)]]
        /\ UNCHANGED <<src, cache, inflight, snap>>
    BY <1>2 DEF Join
  <2>2. LeaderOwnsKey'
    BY <2>1, <1>k DEF TypeOK
  <2>3. \A k \in Keys : inflight[k] # NoLoad => inflight[k] \in Loads /\ inflight[k] # l
    BY <2>1 DEF TypeOK
  <2>4. ASSUME NEW m \in Loads, pc'[m] = "wait"
        PROVE  /\ KeyOf[src'[call'[m]]] = KeyOf[src'[m]]
               /\ inflight'[KeyOf[src'[m]]] = call'[m] \/ pc'[call'[m]] = "done"
    <3>1. CASE m = l
      BY <3>1, <2>1, <2>3, <1>k DEF TypeOK
    <3>2. CASE m # l
      <4>1. pc[m] = "wait" /\ call'[m] = call[m]
        BY <3>2, <2>1, <2>4 DEF TypeOK
      <4>2. pc[call[m]] = "done" => pc'[call[m]] = "done"
        BY <2>1 DEF TypeOK
      <4> QED BY <4>1, <4>2, <2>1
    <3> QED BY <3>1, <3>2
  <2>5. \A k \in Keys : inflight[k] # NoLoad => pc'[inflight[k]] = pc[inflight[k]]
    BY <2>1, <2>3 DEF TypeOK
  <2>6. \A k \in Keys : inflight'[k] # NoLoad =>
           Leading(inflight[k])' /\ KeyOf[src'[inflight'[k]]] = k
    BY <2>1, <2>3, <2>5
  <2> QED BY <2>2, <2>4, <2>6
<1>3. ASSUME NEW l \in Loads, Lead(l) PROVE LeaderOwnsKey' /\ NoLostWaiter'
  BY <1>3, <1>k, SourcesAssumption DEF Lead, TypeOK
<1>4. ASSUME NEW l \in Loads, StartFetch(l) PROVE LeaderOwnsKey' /\ NoLostWaiter'
  BY <1>4, <1>k DEF StartFetch, TypeOK
<1>5. ASSUME NEW l \in Loads, NEW r \in Results, Fetching(l), FetchReturns(l, r)
      PROVE  LeaderOwnsKey' /\ NoLostWaiter'
  BY <1>5, <1>k DEF FetchReturns, Fetching, TypeOK
<1>6. ASSUME NEW l \in Loads, Receive(l) \/ FetchFails(l) \/ TimeOut(l)
      PROVE  LeaderOwnsKey' /\ NoLostWaiter'
  BY <1>5, <1>6, FetchedType, RecordTypes DEF Receive, FetchFails, TimeOut
<1>7. ASSUME NEW l \in Loads, Publish(l) PROVE LeaderOwnsKey' /\ NoLostWaiter'
  <2>1. inflight[Key(l)] = l
    BY <1>7 DEF Publish
  <2>2. pc' = [pc EXCEPT ![l] = "done"] /\ src' = src /\ call' = call
    BY <1>7 DEF Publish, Return
  <2>3. inflight' = [inflight EXCEPT ![Key(l)] = NoLoad]
    BY <1>7 DEF Publish
  <2>4. \A m \in Loads : m # l => snap'[m] = snap[m]
    BY <1>7 DEF Publish, TypeOK
  <2>5. \A k \in Keys : k # Key(l) => cache'[k] = cache[k]
    BY <1>7, <1>k DEF Publish, TypeOK
  <2>6. LeaderOwnsKey'
    BY <2>1, <2>2, <2>3, <2>4, <2>5, <1>k DEF TypeOK
  <2>7. NoLostWaiter'
    BY <2>1, <2>2, <2>3, <1>k, SourcesAssumption DEF TypeOK
  <2> QED BY <2>6, <2>7
<1>8. ASSUME NEW l \in Loads, Await(l) PROVE LeaderOwnsKey' /\ NoLostWaiter'
  <2>1. /\ pc[l] = "wait" /\ pc' = [pc EXCEPT ![l] = "done"]
        /\ call' = [call EXCEPT ![l] = NoLoad]
        /\ UNCHANGED <<src, cache, inflight, snap>>
    BY <1>8 DEF Await, Return
  <2> QED BY <2>1, <1>k DEF TypeOK
<1>9. ASSUME NEW l \in Loads, ServerAnswers(l) PROVE LeaderOwnsKey' /\ NoLostWaiter'
  BY <1>9, <1>q DEF ServerAnswers
<1>10. CASE Tick \/ (\E k \in Keys : UpstreamChanges(k)) \/ Finished \/ UNCHANGED vars
  BY <1>10, <1>q DEF Tick, UpstreamChanges, Finished, vars, loadVars
<1> QED
  BY <1>1, <1>2, <1>3, <1>4, <1>6, <1>7, <1>8, <1>9, <1>10 DEF Next, Step

\* A key never has two fetches, its leader's copy of the entry stays the
\* entry, and nobody waits for a call that will not be closed.
THEOREM SingleFlight == Spec => [](LeaderOwnsKey /\ NoLostWaiter)
<1>1. Init => Flight
  BY InitType, InitFlight DEF Flight
<1>2. Flight /\ [Next]_vars => Flight'
  BY StepType, StepFlight DEF Flight
<1> QED BY <1>1, <1>2, PTL DEF Spec, Flight

\* Whoever joined a fetch waits for one that will be closed, or has been.
THEOREM NoWaiterIsLost == Spec => []NoLostWaiter
<1> QED BY SingleFlight, PTL

--------------------------------------------------------------------------------
(* Content never goes back in time. *)

IInv == Flight /\ OrderedVersions

\* At first nothing has been served or stored.
LEMMA InitOrder == Init => OrderedVersions
  BY ConstantTypes, FieldTypes
  DEF Init, OrderedVersions, KeyOrder, LoadOrder, WaitOrder, Leading, Fetching, Key

\* The types that the order of versions is about.
LEMMA VersionTypes ==
    ASSUME TypeOK
    PROVE  /\ \A k \in Keys : /\ served[k] \in Nat /\ upstream[k] \in Nat
                              /\ cache[k].ver \in Nat /\ cache[k] \in Entries
           /\ \A l \in Loads : /\ Key(l) \in Keys /\ floor[l] \in Nat
                               /\ result[l] \in Results /\ outcome[l] \in Outcomes
                               /\ reply[l] \in Replies
                               /\ result[l].status = "ok" => result[l].ver \in Nat
                               /\ reply[l].kind = "content" => reply[l].ver \in Nat
  BY ConstantTypes, FieldTypes DEF TypeOK, Key

\* A load that returns a version the key has already served, not below its
\* floor, keeps the order of versions.
LEMMA ReturnServed ==
    ASSUME NEW l \in Loads, NEW r, IInv, TypeOK',
           Return(l, r), pc[l] \notin {"fetch", "publish", "done"},
           r.status = "ok" => /\ r.ver \in Nat /\ floor[l] <= r.ver
                              /\ r.ver <= served[Key(l)],
           UNCHANGED <<src, floor, reply, result, cache, inflight, upstream>>,
           call' = call \/ call' = [call EXCEPT ![l] = NoLoad]
    PROVE  OrderedVersions'
<1> USE DEF IInv, Flight
<1>1. pc' = [pc EXCEPT ![l] = "done"] /\ outcome' = [outcome EXCEPT ![l] = Returned(r)]
  BY DEF Return
<1>2. served' = served
  BY VersionTypes DEF Return, Later, TypeOK
<1>3. \A k \in Keys : KeyOrder(k)'
  BY <1>2 DEF OrderedVersions, KeyOrder
<1>4. \A m \in Loads : LoadOrder(m)'
  <2> SUFFICES ASSUME NEW m \in Loads PROVE LoadOrder(m)'
    OBVIOUS
  <2>1. LoadOrder(m)
    BY DEF OrderedVersions
  <2>2. CASE m = l
    <3>1. pc'[l] = "done" /\ outcome'[l] = Returned(r)
      BY <1>1 DEF TypeOK
    <3>2. result[l].status # "ok"
      BY <2>1, <2>2, FieldTypes DEF LoadOrder
    <3>3. outcome'[l].status = "ok" => floor[l] <= outcome'[l].ver
      BY <3>1, FieldTypes DEF Returned, Loaded
    <3> QED BY <2>1, <2>2, <3>1, <3>2, <3>3, <1>2 DEF LoadOrder, Leading, Fetching, Key
  <2>3. CASE m # l
    <3>1. pc'[m] = pc[m] /\ outcome'[m] = outcome[m]
      BY <1>1, <2>3 DEF TypeOK
    <3> QED BY <2>1, <3>1, <1>2 DEF LoadOrder, Leading, Fetching, Key
  <2> QED BY <2>2, <2>3
<1>5. \A m \in Loads : WaitOrder(m)'
  <2> SUFFICES ASSUME NEW m \in Loads, pc'[m] = "wait" PROVE WaitOrder(m)'
    BY DEF WaitOrder
  <2>1. m # l /\ pc[m] = "wait" /\ call'[m] = call[m]
    BY <1>1 DEF TypeOK
  <2>2. CASE call[m] = l
    <3>1. result[l].status # "ok"
      BY FieldTypes DEF OrderedVersions, LoadOrder
    <3> QED BY <2>1, <2>2, <3>1 DEF WaitOrder
  <2>3. CASE call[m] # l
    <3>1. pc'[call[m]] = pc[call[m]]
      BY <2>1, <2>3, <1>1 DEF TypeOK
    <3> QED BY <2>1, <3>1 DEF WaitOrder, OrderedVersions
  <2> QED BY <2>2, <2>3
<1> QED BY <1>3, <1>4, <1>5 DEF OrderedVersions

\* A step that returns nothing keeps the order of the keys' versions, and that
\* of every load it does not touch.
LEMMA QuietStep ==
    ASSUME NEW l \in Loads, IInv, TypeOK',
           UNCHANGED <<src, outcome, cache, upstream, served, snap>>,
           pc[l] # "done", pc'[l] # "done",
           \A m \in Loads \ {l} : UNCHANGED <<pc[m], floor[m], reply[m], result[m], call[m]>>,
           LoadOrder(l)', WaitOrder(l)'
    PROVE  OrderedVersions'
<1> USE DEF IInv, Flight
<1>1. \A k \in Keys : KeyOrder(k)'
  BY DEF OrderedVersions, KeyOrder
<1>2. \A m \in Loads \ {l} : LoadOrder(m)'
  <2> SUFFICES ASSUME NEW m \in Loads \ {l} PROVE LoadOrder(m)'
    OBVIOUS
  <2>1. LoadOrder(m)
    BY DEF OrderedVersions
  <2> QED BY <2>1 DEF LoadOrder, Leading, Fetching, Key
<1>3. \A m \in Loads \ {l} : WaitOrder(m)'
  <2> SUFFICES ASSUME NEW m \in Loads \ {l}, pc'[m] = "wait", pc'[call'[m]] = "done"
               PROVE  WaitOrder(m)'
    BY DEF WaitOrder
  <2>1. pc[m] = "wait" /\ call'[m] = call[m] /\ call[m] \in Loads \ {l}
    BY DEF TypeOK
  <2>2. WaitOrder(m)
    BY DEF OrderedVersions
  <2> QED BY <2>1, <2>2 DEF WaitOrder
<1> QED BY <1>1, <1>2, <1>3 DEF OrderedVersions

\* A version that is served once fetched is served in the same step that
\* stores it, so the cache and the served version move together.
LEMMA PublishOrder ==
    ASSUME UniformCache, NEW l \in Loads, IInv, TypeOK', Publish(l)
    PROVE  OrderedVersions'
<1> USE DEF IInv, Flight
<1> DEFINE k == Key(l)
<1>1. /\ pc[l] = "publish" /\ pc' = [pc EXCEPT ![l] = "done"]
      /\ outcome' = [outcome EXCEPT ![l] = Returned(result[l])]
      /\ UNCHANGED <<src, floor, reply, call, result, upstream>>
  BY DEF Publish, Return
<1>2. LoadOrder(l) /\ KeyOrder(k) /\ src[l] \in Sources \ LocalSources
  BY <1>1, VersionTypes DEF OrderedVersions, LoadOrder, Leading, TypeOK
<1>3. \A m \in Loads \ {l} : Key(m) = k => ~Leading(m)
  BY <1>1 DEF LeaderOwnsKey, Leading
<1>4. \A j \in Keys \ {k} : served'[j] = served[j] /\ cache'[j] = cache[j]
  BY VersionTypes DEF Publish, Return, TypeOK
<1>5. served[k] <= served'[k]
  BY VersionTypes DEF Publish, Return, Later, TypeOK
<1>6. result[l].status = "ok" => served'[k] = result[l].ver
  <2> HAVE result[l].status = "ok"
  <2>1. served'[k] = Later(served[k], result[l].ver)
    BY VersionTypes DEF Publish, Return, TypeOK
  <2>2. served[k] <= result[l].ver
    BY <1>1, <1>2 DEF LoadOrder
  <2> QED BY <2>1, <2>2, VersionTypes DEF Later
<1>7. result[l].status # "ok" => served' = served /\ cache' = cache
  BY DEF Publish, Return
<1>8. \A j \in Keys : KeyOrder(j)'
  <2>1. \A j \in Keys \ {k} : KeyOrder(j)'
    BY <1>1, <1>4 DEF OrderedVersions, KeyOrder
  <2>2. CASE result[l].status # "ok"
    BY <1>1, <1>7, <2>2 DEF OrderedVersions, KeyOrder
  <2>3. CASE result[l].status = "ok" /\ CacheOf[src[l]] > 0
    <3>1. cache'[k].ver = result[l].ver
      BY <2>3, VersionTypes DEF Publish, Stored, TypeOK
    <3> QED BY <3>1, <2>1, <2>3, <1>1, <1>2, <1>6, VersionTypes DEF KeyOrder, LoadOrder, Key
  <2>4. CASE result[l].status = "ok" /\ ~(CacheOf[src[l]] > 0)
    <3>1. ~Cached(cache[k])
      BY <1>2, <2>4 DEF KeyOrder, UniformCache, Key
    <3>2. cache' = cache
      BY <2>4 DEF Publish
    <3> QED BY <3>1, <3>2, <2>1, <2>4, <1>1, <1>2, <1>6 DEF KeyOrder, LoadOrder
  <2> QED BY <2>2, <2>3, <2>4
<1>9. \A m \in Loads : LoadOrder(m)'
  <2> SUFFICES ASSUME NEW m \in Loads PROVE LoadOrder(m)'
    OBVIOUS
  <2>1. CASE m = l
    <3>1. pc'[l] = "done" /\ outcome'[l] = Returned(result[l])
      BY <1>1 DEF TypeOK
    <3>2. outcome'[l].status = "ok" => floor[l] <= outcome'[l].ver
      <4>1. outcome'[l].status = "ok" => result[l].status = "ok" /\ outcome'[l].ver = result[l].ver
        BY <3>1, FieldTypes DEF Returned, Loaded
      <4> QED BY <4>1, <1>1, <1>2, VersionTypes DEF LoadOrder
    <3>3. floor[l] <= served'[k]
      BY <1>2, <1>5, VersionTypes DEF LoadOrder, TypeOK
    <3>4. result[l].status = "ok" => result[l].ver <= served'[k]
      BY <1>6, VersionTypes
    <3> QED BY <2>1, <3>1, <3>2, <3>3, <3>4, <1>1, <1>2
            DEF LoadOrder, Leading, Fetching, Key
  <2>2. CASE m # l
    <3>1. UNCHANGED <<pc[m], outcome[m]>> /\ LoadOrder(m)
      BY <1>1, <2>2 DEF TypeOK, OrderedVersions
    <3>2. Key(m) = k => ~Leading(m)
      BY <1>3, <2>2
    <3>3. Key(m) # k => served'[Key(m)] = served[Key(m)]
      BY <1>4, VersionTypes
    <3>4. /\ floor[m] <= served'[Key(m)]
          /\ pc[m] = "done" /\ result[m].status = "ok" => result[m].ver <= served'[Key(m)]
      BY <3>1, <3>3, <1>5, VersionTypes DEF LoadOrder, TypeOK
    <3> QED BY <3>1, <3>2, <3>3, <3>4, <1>1 DEF LoadOrder, Leading, Fetching, Key
  <2> QED BY <2>1, <2>2
<1>10. \A m \in Loads : WaitOrder(m)'
  <2> SUFFICES ASSUME NEW m \in Loads, pc'[m] = "wait" PROVE WaitOrder(m)'
    BY DEF WaitOrder
  <2>1. m # l /\ pc[m] = "wait" /\ call[m] \in Loads /\ Key(call[m]) = Key(m)
    BY <1>1 DEF TypeOK, NoLostWaiter
  <2>2. CASE call[m] = l
    <3>1. floor[m] <= served[k]
      BY <2>1, <2>2 DEF OrderedVersions, LoadOrder
    <3> QED BY <3>1, <2>2, <1>1, <1>2, VersionTypes DEF WaitOrder, LoadOrder
  <2>3. CASE call[m] # l
    <3>1. pc'[call[m]] = pc[call[m]]
      BY <2>1, <2>3, <1>1 DEF TypeOK
    <3> QED BY <2>1, <3>1, <1>1 DEF WaitOrder, OrderedVersions
  <2> QED BY <2>2, <2>3
<1> QED BY <1>8, <1>9, <1>10 DEF OrderedVersions

\* Every step keeps the order of versions: a fetch is answered with the version
\* that is current, a hit or a joined call with one at or above the floor.
LEMMA StepOrder ==
    ASSUME UniformCache, IInv, TypeOK', [Next]_vars
    PROVE  OrderedVersions'
<1> USE DEF IInv, Flight
<1>o. \A l \in Loads : LoadOrder(l) /\ WaitOrder(l)
  BY DEF OrderedVersions
<1>1. ASSUME NEW l \in Loads, Reject(l) PROVE OrderedVersions'
  <2>1. Return(l, ErrorResult) /\ pc[l] = "idle"
    BY <1>1 DEF Reject
  <2> QED BY <1>1, <2>1, ReturnServed, FieldTypes DEF Reject, loadVars
<1>2. ASSUME NEW l \in Loads, BeginFile(l) \/ BeginRemote(l) PROVE OrderedVersions'
  <2>1. /\ pc[l] = "idle" /\ pc'[l] \in {"read", "lookup"}
        /\ pc'[l] = "read" <=> src[l] \in LocalSources
        /\ floor'[l] = served[Key(l)]
        /\ UNCHANGED <<src, result, reply, call, outcome, cache, upstream, served, snap>>
        /\ \A m \in Loads \ {l} : UNCHANGED <<pc[m], floor[m]>>
    BY <1>2 DEF BeginFile, BeginRemote, loadVars, TypeOK
  <2>2. LoadOrder(l)'
    BY <2>1, <1>o, VersionTypes, FieldTypes DEF LoadOrder, Leading, Fetching, Key
  <2>3. WaitOrder(l)'
    BY <2>1 DEF WaitOrder
  <2> QED BY <2>1, <2>2, <2>3, QuietStep
<1>3. ASSUME NEW l \in Loads, ReadFile(l) PROVE OrderedVersions'
  <2>1. CASE Return(l, ErrorResult)
    BY <1>3, <2>1, ReturnServed, FieldTypes DEF ReadFile, loadVars
  <2>2. CASE Return(l, [status |-> "ok", ver |-> upstream[Key(l)], tag |-> NoTag])
    <3> DEFINE k == Key(l)
    <3>1. /\ pc[l] = "read" /\ pc' = [pc EXCEPT ![l] = "done"]
          /\ outcome' = [outcome EXCEPT ![l] = Loaded(upstream[k])]
          /\ UNCHANGED <<src, floor, reply, result, call, cache, upstream>>
      BY <1>3, <2>2 DEF ReadFile, Return, Returned, loadVars
    <3>2. \A m \in Loads : Key(m) = k => ~Leading(m) /\ pc[m] # "wait"
      BY <1>o, <3>1, LocationAssumption DEF LoadOrder, TypeOK, Key
    <3>3. ~Cached(cache[k])
      <4>1. src[l] \in LocalSources /\ src[l] \in Sources
        BY <1>o, <3>1 DEF LoadOrder, TypeOK
      <4>2. KeyOrder(k)
        BY VersionTypes DEF OrderedVersions
      <4> QED BY <4>1, <4>2, LocationAssumption DEF KeyOrder, Key
    <3>4. /\ served'[k] = upstream[k] /\ served[k] <= served'[k]
          /\ \A j \in Keys \ {k} : served'[j] = served[j]
      <4>1. served' = [served EXCEPT ![k] = Later(@, upstream[k])]
        BY <2>2 DEF Return
      <4>2. served[k] <= upstream[k]
        BY VersionTypes DEF OrderedVersions, KeyOrder
      <4>3. /\ served'[k] = Later(served[k], upstream[k])
            /\ \A j \in Keys \ {k} : served'[j] = served[j]
        BY <4>1, VersionTypes DEF TypeOK
      <4> QED BY <4>2, <4>3, VersionTypes DEF Later
    <3>5. \A j \in Keys : KeyOrder(j)'
      BY <3>1, <3>3, <3>4, VersionTypes DEF OrderedVersions, KeyOrder
    <3>6. LoadOrder(l)'
      <4>1. pc'[l] = "done" /\ outcome'[l] = Loaded(upstream[k]) /\ result[l] = NoResult
        BY <3>1, <1>o DEF TypeOK, LoadOrder
      <4>2. floor[l] <= served[k] /\ reply[l] = NoReply
        BY <3>1, <1>o DEF LoadOrder, Fetching
      <4> QED BY <4>1, <4>2, <3>1, <3>4, VersionTypes, FieldTypes
              DEF LoadOrder, Leading, Fetching, Key, Loaded
    <3>7. \A m \in Loads \ {l} : LoadOrder(m)'
      <4> SUFFICES ASSUME NEW m \in Loads \ {l} PROVE LoadOrder(m)'
        OBVIOUS
      <4>1. LoadOrder(m) /\ UNCHANGED <<pc[m], outcome[m]>>
        BY <1>o, <3>1 DEF TypeOK
      <4>2. Key(m) = k => ~Leading(m) /\ ~Fetching(m)
        BY <3>2 DEF Leading, Fetching
      <4>3. /\ floor[m] <= served'[Key(m)]
            /\ pc[m] = "done" /\ result[m].status = "ok" => result[m].ver <= served'[Key(m)]
            /\ Key(m) # k => served'[Key(m)] = served[Key(m)]
        BY <4>1, <3>4, VersionTypes DEF LoadOrder, TypeOK
      <4> QED BY <4>1, <4>2, <4>3, <3>1 DEF LoadOrder, Leading, Fetching, Key
    <3>8. \A m \in Loads : WaitOrder(m)'
      <4> SUFFICES ASSUME NEW m \in Loads, pc'[m] = "wait" PROVE WaitOrder(m)'
        BY DEF WaitOrder
      <4>1. pc[m] = "wait" /\ call[m] \in Loads /\ WaitOrder(m)
        BY <3>1, <1>o DEF TypeOK
      <4>2. call[m] # l
        BY <4>1, <3>1, <3>2 DEF NoLostWaiter
      <4> QED BY <4>1, <4>2, <3>1 DEF WaitOrder, TypeOK
    <3> QED BY <3>5, <3>6, <3>7, <3>8 DEF OrderedVersions
  <2> QED BY <1>3, <2>1, <2>2 DEF ReadFile
<1>4. ASSUME NEW l \in Loads, CacheHit(l) PROVE OrderedVersions'
  <2> DEFINE r == [status |-> "ok", ver |-> cache[Key(l)].ver, tag |-> NoTag]
  <2>1. pc[l] = "lookup" /\ Return(l, r) /\ Cached(cache[Key(l)])
    BY <1>4 DEF CacheHit, Fresh
  <2>2. r.ver = served[Key(l)]
    BY <2>1, VersionTypes DEF OrderedVersions, KeyOrder
  <2>3. r.ver \in Nat /\ floor[l] <= r.ver /\ r.ver <= served[Key(l)]
    BY <2>2, <1>o, VersionTypes DEF LoadOrder
  <2> QED BY <1>4, <2>1, <2>3, ReturnServed DEF CacheHit, loadVars
<1>5. ASSUME NEW l \in Loads, Join(l) PROVE OrderedVersions'
  <2>1. /\ pc[l] = "lookup" /\ pc'[l] = "wait"
        /\ UNCHANGED <<src, result, reply, floor, outcome, cache, upstream, served, snap>>
        /\ \A m \in Loads \ {l} : UNCHANGED <<pc[m], call[m]>>
        /\ call'[l] = inflight[Key(l)] /\ inflight[Key(l)] # NoLoad
    BY <1>5 DEF Join, history, TypeOK
  <2>2. LoadOrder(l)'
    BY <2>1, <1>o DEF LoadOrder, Leading, Fetching, Key
  <2>3. pc'[call'[l]] # "done"
    BY <2>1, VersionTypes DEF NoLostWaiter, Leading, TypeOK
  <2> QED BY <2>1, <2>2, <2>3, QuietStep DEF WaitOrder
<1>6. ASSUME NEW l \in Loads, Lead(l) PROVE OrderedVersions'
  <2>1. /\ pc[l] = "lookup" /\ pc' = [pc EXCEPT ![l] = "start"]
        /\ UNCHANGED <<src, result, reply, floor, outcome, cache, upstream, served, call>>
    BY <1>6 DEF Lead, history
  <2>2. \A m \in Loads : LoadOrder(m)'
    BY <2>1, <1>o DEF LoadOrder, Leading, Fetching, Key, TypeOK
  <2>3. \A m \in Loads : WaitOrder(m)'
    BY <2>1, <1>o DEF WaitOrder, TypeOK
  <2> QED BY <2>1, <2>2, <2>3 DEF OrderedVersions, KeyOrder
<1>7. ASSUME NEW l \in Loads, StartFetch(l) PROVE OrderedVersions'
  <2>1. /\ pc[l] = "start" /\ pc'[l] = "fetch"
        /\ UNCHANGED <<src, result, reply, floor, outcome, cache, upstream, served, snap, call>>
        /\ \A m \in Loads \ {l} : UNCHANGED <<pc[m]>>
    BY <1>7 DEF StartFetch, history, TypeOK
  <2>2. LoadOrder(l)'
    BY <2>1, <1>o, FieldTypes DEF LoadOrder, Leading, Fetching, Key
  <2> QED BY <2>1, <2>2, QuietStep DEF WaitOrder
<1>8. ASSUME NEW l \in Loads, NEW r, Fetching(l), FetchReturns(l, r),
             r.status = "ok" => served[Key(l)] <= r.ver /\ r.ver <= upstream[Key(l)]
      PROVE  OrderedVersions'
  <2>1. /\ pc[l] = "fetch" /\ pc'[l] = "publish" /\ result'[l] = r /\ reply'[l] = NoReply
        /\ UNCHANGED <<src, floor, outcome, cache, upstream, served, snap, call>>
        /\ \A m \in Loads \ {l} : UNCHANGED <<pc[m], reply[m], result[m]>>
    BY <1>8 DEF FetchReturns, Fetching, history, TypeOK
  <2>2. LoadOrder(l)'
    BY <2>1, <1>8, <1>o DEF LoadOrder, Leading, Fetching, Key
  <2> QED BY <2>1, <2>2, QuietStep DEF WaitOrder
<1>9. ASSUME NEW l \in Loads, Receive(l) \/ FetchFails(l) \/ TimeOut(l)
      PROVE  OrderedVersions'
  <2>1. CASE FetchFails(l) \/ TimeOut(l)
    BY <2>1, <1>8, FieldTypes DEF FetchFails, TimeOut
  <2>2. CASE Receive(l)
    <3>1. Fetching(l) /\ FetchReturns(l, Fetched(l)) /\ snap[l] = cache[Key(l)]
      BY <2>2 DEF Receive, Fetching, Leading, LeaderOwnsKey
    <3>2. Cached(snap[l]) => snap[l].ver = served[Key(l)]
      BY <3>1, VersionTypes DEF OrderedVersions, KeyOrder
    <3>3. served[Key(l)] <= upstream[Key(l)] /\ served[Key(l)] \in Nat
      BY VersionTypes DEF OrderedVersions, KeyOrder
    <3>4. Fetched(l).status = "ok" =>
             served[Key(l)] <= Fetched(l).ver /\ Fetched(l).ver <= upstream[Key(l)]
      BY <3>1, <3>2, <3>3, <1>o, FieldTypes DEF Fetched, LoadOrder
    <3> QED BY <3>1, <3>4, <1>8
  <2> QED BY <1>9, <2>1, <2>2
<1>10. ASSUME NEW l \in Loads, Publish(l) PROVE OrderedVersions'
  BY <1>10, PublishOrder
<1>11. ASSUME NEW l \in Loads, Await(l) PROVE OrderedVersions'
  <2>1. /\ pc[l] = "wait" /\ call[l] \in Loads /\ Key(call[l]) = Key(l)
        /\ pc[call[l]] = "done" /\ Return(l, result[call[l]])
    BY <1>11 DEF Await, NoLostWaiter, TypeOK
  <2>2. result[call[l]].status = "ok" =>
           /\ result[call[l]].ver \in Nat /\ floor[l] <= result[call[l]].ver
           /\ result[call[l]].ver <= served[Key(l)]
    BY <2>1, <1>o, VersionTypes DEF LoadOrder, WaitOrder
  <2> QED BY <1>11, <2>1, <2>2, ReturnServed DEF Await
<1>12. ASSUME NEW l \in Loads, ServerAnswers(l) PROVE OrderedVersions'
  <2>1. /\ pc[l] = "fetch"
        /\ UNCHANGED <<src, pc, floor, outcome, result, cache, upstream, served, snap, call>>
        /\ \A m \in Loads \ {l} : UNCHANGED <<reply[m]>>
        /\ reply'[l].kind = "content" => reply'[l].ver = upstream[Key(l)]
    BY <1>12 DEF ServerAnswers, Fetching, history, TypeOK
  <2>2. served[Key(l)] <= upstream[Key(l)] /\ upstream[Key(l)] \in Nat
    BY VersionTypes DEF OrderedVersions, KeyOrder
  <2>3. LoadOrder(l)'
    BY <2>1, <2>2, <1>o DEF LoadOrder, Leading, Fetching, Key
  <2> QED BY <2>1, <2>3, QuietStep DEF WaitOrder
<1>13. ASSUME NEW k \in Keys, UpstreamChanges(k) PROVE OrderedVersions'
  <2>1. /\ \A j \in Keys : upstream[j] <= upstream'[j] /\ upstream'[j] \in Nat
        /\ UNCHANGED <<src, pc, reply, result, call, outcome, cache, floor, served>>
    BY <1>13, VersionTypes DEF UpstreamChanges, loadVars, TypeOK
  <2>2. \A j \in Keys : KeyOrder(j)'
    BY <2>1, VersionTypes DEF OrderedVersions, KeyOrder
  <2>3. \A m \in Loads : LoadOrder(m)'
    BY <2>1, <1>o, VersionTypes DEF LoadOrder, Leading, Fetching, Key
  <2> QED BY <2>1, <2>2, <2>3, <1>o DEF OrderedVersions, WaitOrder
<1>14. CASE Tick \/ Finished \/ UNCHANGED vars
  BY <1>14
  DEF Tick, Finished, vars, loadVars, history, OrderedVersions, KeyOrder, LoadOrder,
      WaitOrder, Leading, Fetching, Key
<1> QED
  BY <1>1, <1>2, <1>3, <1>4, <1>5, <1>6, <1>7, <1>9, <1>10, <1>11, <1>12,
     <1>13, <1>14 DEF Next, Step

\* The order of versions is an invariant of every loader whose keys have one
\* cache duration.
LEMMA InductiveInvariant == UniformCache => (Spec => []IInv)
<1> SUFFICES ASSUME UniformCache PROVE Spec => []IInv
  OBVIOUS
<1>1. Init => IInv
  BY InitType, InitFlight, InitOrder DEF IInv, Flight
<1>2. IInv /\ [Next]_vars => IInv'
  BY StepType, StepFlight, StepOrder DEF IInv, Flight
<1> QED BY <1>1, <1>2, PTL DEF Spec

\* A load never returns a version older than one returned before it began,
\* however cache hits, joined calls and revalidations interleave.
THEOREM ReadsAreMonotonic == Spec => []MonotonicReads
<1>1. CASE UniformCache
  <2>1. IInv => MonotonicReads
    BY DEF IInv, OrderedVersions, LoadOrder, MonotonicReads
  <2> QED BY <1>1, <2>1, InductiveInvariant, PTL
<1>2. CASE ~UniformCache
  <2>1. MonotonicReads
    BY <1>2 DEF MonotonicReads
  <2> QED BY <2>1, PTL
<1> QED BY <1>1, <1>2

--------------------------------------------------------------------------------
(* No answer is older than the durations allow. *)

\* Version v was current at most d before time t, or later: u is the version now,
\* and changed when each version replaced the one before.
Since(u, changed, v, d, t) == v = u \/ (v < u /\ changed[v + 1] + d >= t)

SinceOf(l, v, d, t) == Since(upstream[Key(l)], changedAt[Key(l)], v, d, t)

\* A result of l that was current after l began, and no longer than l's timeout
\* before time t, with its own validator.
Good(l, r, t) ==
    /\ r.tag = TagOf[Key(l)][r.ver]
    /\ SinceOf(l, r.ver, 0, now[l])
    /\ SinceOf(l, r.ver, TimeoutOf[src[l]], t)

\* What BoundedStaleness says of version v returned to l.
Timely(l, v) ==
    \E s \in Sources : KeyOf[s] = Key(l) /\ SinceOf(l, v, CacheOf[s] + TimeoutOf[s], now[l])

KeyTimely(k) ==
    Cached(cache[k]) =>
        /\ cache[k].tag = TagOf[k][cache[k].ver]
        /\ \E s \in Sources :
              /\ KeyOf[s] = k
              /\ cache[k].expires <= clock + CacheOf[s]
              /\ Since(upstream[k], changedAt[k], cache[k].ver, CacheOf[s] + TimeoutOf[s],
                       cache[k].expires)

\* Contexts expire on time, so a fetch ends at its deadline at the latest.
LoadTimely(l) ==
    /\ now[l] <= clock
    /\ ~Fetching(l) => reply[l] = NoReply
    /\ pc[l] # "done" => outcome[l].status # "ok"
    /\ Fetching(l) =>
          /\ clock <= deadline[l] /\ deadline[l] <= clock + TimeoutOf[src[l]]
          /\ Fetched(l).status = "ok" => Good(l, Fetched(l), deadline[l])
    /\ pc[l] = "publish" /\ result[l].status = "ok" => Good(l, result[l], clock)
    /\ outcome[l].status = "ok" => Timely(l, outcome[l].ver)

WaitTimely(l) ==
    pc[l] = "wait" /\ pc[call[l]] = "done" /\ result[call[l]].status = "ok" =>
        Timely(l, result[call[l]].ver)

TimeInv ==
    /\ Flight
    /\ \A k \in Keys : KeyTimely(k)
    /\ \A l \in Loads : LoadTimely(l) /\ WaitTimely(l)

\* A version that was current is so until it is replaced, which takes until now.
LEMMA SinceKept ==
    ASSUME NEW u \in Versions, u + 1 \in Versions, NEW c \in [Versions -> Nat],
           NEW time \in Nat, NEW v \in Nat, NEW d \in Nat, NEW t \in Nat, t <= time + d,
           Since(u, c, v, d, t)
    PROVE  Since(u + 1, [c EXCEPT ![u + 1] = time], v, d, t)
<1>1. u \in Nat
  BY ConstantTypes
<1>2. CASE v = u
  BY <1>1, <1>2 DEF Since
<1>3. CASE v < u /\ c[v + 1] + d >= t
  <2>1. [c EXCEPT ![u + 1] = time][v + 1] = c[v + 1]
    BY <1>1, <1>3
  <2> QED BY <1>1, <1>3, <2>1 DEF Since
<1> QED BY <1>2, <1>3 DEF Since

\* An earlier time, or a longer duration, asks for less.
LEMMA SinceWeaker ==
    ASSUME NEW u \in Versions, NEW c \in [Versions -> Nat], NEW v \in Nat,
           NEW d \in Nat, NEW e \in Nat, NEW t \in Nat, NEW f \in Nat,
           t <= f, d <= e, Since(u, c, v, d, f)
    PROVE  Since(u, c, v, e, t)
<1>1. v < u => v + 1 \in Versions
  BY BoundsAssumption DEF Versions
<1> QED BY <1>1 DEF Since

\* The types that time is about.
LEMMA TimeTypes ==
    ASSUME TypeOK
    PROVE  /\ clock \in Nat
           /\ \A k \in Keys : /\ upstream[k] \in Versions /\ changedAt[k] \in [Versions -> Nat]
                              /\ cache[k] \in Entries /\ cache[k].ver \in Nat
                              /\ cache[k].expires \in Nat
           /\ \A l \in Loads : /\ Key(l) \in Keys /\ src[l] \in Sources
                               /\ now[l] \in Nat /\ deadline[l] \in Nat
                               /\ result[l] \in Results /\ Fetched(l) \in Results
                               /\ outcome[l] \in Outcomes
                               /\ TimeoutOf[src[l]] \in Nat /\ CacheOf[src[l]] \in Nat
           /\ \A r \in Results : r.status = "ok" => r.ver \in Nat
           /\ \A o \in Outcomes : o.status = "ok" => o.ver \in Nat
<1>1. \A l \in Loads : Key(l) \in Keys /\ src[l] \in Sources /\ Fetched(l) \in Results
  BY FetchedType, ConstantTypes DEF TypeOK, Key
<1>2. \A l \in Loads : TimeoutOf[src[l]] \in Nat /\ CacheOf[src[l]] \in Nat
  BY <1>1, ConstantTypes
<1>3. \A k \in Keys : cache[k] \in Entries /\ cache[k].ver \in Nat /\ cache[k].expires \in Nat
  BY VersionTypes, FieldTypes
<1>4. /\ clock \in Nat
      /\ \A k \in Keys : upstream[k] \in Versions /\ changedAt[k] \in [Versions -> Nat]
      /\ \A l \in Loads : now[l] \in Nat /\ deadline[l] \in Nat
      /\ \A l \in Loads : result[l] \in Results /\ outcome[l] \in Outcomes
  BY DEF TypeOK
<1>5. /\ \A r \in Results : r.status = "ok" => r.ver \in Nat
      /\ \A o \in Outcomes : o.status = "ok" => o.ver \in Nat
  BY FieldTypes, ConstantTypes
<1> QED BY <1>1, <1>2, <1>3, <1>4, <1>5

LEMMA SinceLonger ==
    ASSUME NEW u \in Versions, NEW c \in [Versions -> Nat], NEW v \in Nat, NEW d \in Nat,
           NEW e \in Nat, NEW t \in Nat, Since(u, c, v, d, t)
    PROVE  Since(u, c, v, e + d, t + e)
<1>1. v < u => v + 1 \in Versions
  BY BoundsAssumption DEF Versions
<1>2. CASE v < u /\ c[v + 1] + d >= t
  <2>1. \A w \in Nat : w + d >= t => w + (e + d) >= t + e
    OBVIOUS
  <2> QED BY <1>1, <1>2, <2>1 DEF Since
<1>3. CASE v = u
  BY <1>3 DEF Since
<1> QED BY <1>2, <1>3 DEF Since

LEMMA SinceOfWeaker ==
    ASSUME TypeOK, NEW l \in Loads, NEW v \in Nat, NEW d \in Nat, NEW e \in Nat,
           NEW t \in Nat, NEW f \in Nat, t <= f, d <= e, SinceOf(l, v, d, f)
    PROVE  SinceOf(l, v, e, t)
BY TimeTypes, SinceWeaker DEF SinceOf

LEMMA InitTime == Init => TimeInv
<1> SUFFICES ASSUME Init PROVE TimeInv
  OBVIOUS
<1>1. Flight
  BY InitType, InitFlight DEF Flight
<1>2. \A k \in Keys : KeyTimely(k)
  BY FieldTypes DEF Init, KeyTimely
<1>3. \A l \in Loads : LoadTimely(l) /\ WaitTimely(l)
  BY FieldTypes DEF Init, LoadTimely, WaitTimely, Fetching
<1> QED BY <1>1, <1>2, <1>3 DEF TimeInv

\* A step of l that moves neither the server nor the clock is of no concern to
\* the others, unless they wait for l and it returns.
LEMMA OthersTimely ==
    ASSUME NEW l \in Loads, TimeInv, TypeOK',
           UNCHANGED <<src, upstream, changedAt, clock>>,
           \A m \in Loads \ {l} :
               UNCHANGED <<pc[m], now[m], snap[m], deadline[m], reply[m], call[m], result[m],
                           outcome[m]>>,
           \A m \in Loads \ {l} :
               pc[m] = "wait" /\ call[m] = l /\ pc'[l] = "done" /\ result'[l].status = "ok" =>
                   Timely(m, result'[l].ver)
    PROVE  \A m \in Loads \ {l} : LoadTimely(m)' /\ WaitTimely(m)'
<1> SUFFICES ASSUME NEW m \in Loads \ {l} PROVE LoadTimely(m)' /\ WaitTimely(m)'
  OBVIOUS
<1>1. LoadTimely(m) /\ WaitTimely(m)
  BY DEF TimeInv
<1>2. Fetched(m)' = Fetched(m) /\ Key(m)' = Key(m)
  BY DEF Fetched, Key
<1>3. LoadTimely(m)'
  BY <1>1, <1>2 DEF LoadTimely, Good, SinceOf, Fetching, Timely
<1>4. WaitTimely(m)'
  <2> SUFFICES ASSUME pc[m] = "wait", pc'[call[m]] = "done", result'[call[m]].status = "ok"
               PROVE  Timely(m, result'[call[m]].ver)
    BY <1>2 DEF WaitTimely, Timely, SinceOf
  <2>1. CASE call[m] = l
    BY <2>1
  <2>2. CASE call[m] # l
    BY <1>1, <2>2 DEF WaitTimely, TimeInv, Flight, TypeOK
  <2> QED BY <2>1, <2>2
<1> QED BY <1>3, <1>4

\* A step of l that keeps the server, the clock and the cache, and after which
\* nobody is told of l's result.
LEMMA QuietTime ==
    ASSUME NEW l \in Loads, TimeInv, TypeOK', Flight',
           UNCHANGED <<src, upstream, changedAt, clock, cache>>,
           \A m \in Loads \ {l} :
               UNCHANGED <<pc[m], now[m], snap[m], deadline[m], reply[m], call[m], result[m],
                           outcome[m]>>,
           pc'[l] = "done" => ~Leading(l) /\ pc[l] # "done",
           LoadTimely(l)' /\ WaitTimely(l)'
    PROVE  TimeInv'
<1>1. \A k \in Keys : KeyTimely(k)'
  BY DEF TimeInv, KeyTimely
<1>2. ASSUME NEW m \in Loads \ {l}, pc[m] = "wait", call[m] = l PROVE pc'[l] # "done"
  <2>1. Leading(l) \/ pc[l] = "done"
    BY <1>2, TimeTypes, SourcesAssumption DEF TimeInv, Flight, NoLostWaiter
  <2> QED BY <2>1
<1>3. \A m \in Loads \ {l} : LoadTimely(m)' /\ WaitTimely(m)'
  BY <1>2, OthersTimely
<1> QED BY <1>1, <1>3 DEF TimeInv

\* A leader returns what its fetch brought, to those who wait for it as well,
\* and stores it in the same step.
LEMMA PublishTime ==
    ASSUME NEW l \in Loads, TimeInv, Flight', Publish(l)
    PROVE  TimeInv'
<1> DEFINE k == Key(l)
           r == result[l]
<1>1. /\ pc[l] = "publish" /\ pc' = [pc EXCEPT ![l] = "done"]
      /\ outcome' = [outcome EXCEPT ![l] = Returned(r)]
      /\ UNCHANGED <<src, now, deadline, reply, call, result, clock, upstream, changedAt>>
  BY DEF Publish, Return
<1>2. TypeOK /\ TypeOK' /\ LoadTimely(l)
  BY DEF TimeInv, Flight
<1>3. r.status = "ok" => Good(l, r, clock) /\ r.ver \in Nat
  BY <1>1, <1>2, TimeTypes DEF LoadTimely
<1>4. ASSUME NEW m \in Loads, Key(m) = k, r.status = "ok" PROVE Timely(m, r.ver)
  <2>1. now[m] <= clock
    BY DEF TimeInv, LoadTimely
  <2>2. SinceOf(l, r.ver, TimeoutOf[src[l]], clock)
    BY <1>3, <1>4 DEF Good
  <2>3. /\ TimeoutOf[src[l]] <= CacheOf[src[l]] + TimeoutOf[src[l]]
        /\ TimeoutOf[src[l]] \in Nat /\ CacheOf[src[l]] + TimeoutOf[src[l]] \in Nat
        /\ now[m] \in Nat /\ clock \in Nat
    BY <1>2, TimeTypes
  <2>4. SinceOf(l, r.ver, CacheOf[src[l]] + TimeoutOf[src[l]], now[m])
    BY <1>2, <1>3, <1>4, <2>1, <2>2, <2>3, SinceOfWeaker
  <2> QED BY <1>2, <1>4, <2>4, TimeTypes DEF Timely, SinceOf, Key
<1>5. \A j \in Keys : KeyTimely(j)'
  <2>1. CASE r.status = "ok" /\ CacheOf[src[l]] > 0
    <3>1. cache' = [cache EXCEPT ![k] = Stored(l, r)]
      BY <2>1 DEF Publish
    <3>2. \A j \in Keys \ {k} : KeyTimely(j)'
      BY <1>1, <1>2, <3>1 DEF TimeInv, KeyTimely, TypeOK
    <3>3. /\ cache'[k].ver = r.ver /\ cache'[k].tag = r.tag
          /\ cache'[k].expires = clock + CacheOf[src[l]]
      BY <1>2, <3>1, TimeTypes DEF Stored, TypeOK
    <3>4. Since(upstream[k], changedAt[k], r.ver, TimeoutOf[src[l]], clock)
      BY <1>3, <2>1 DEF Good, SinceOf
    <3>5. Since(upstream[k], changedAt[k], r.ver, CacheOf[src[l]] + TimeoutOf[src[l]],
                clock + CacheOf[src[l]])
      <4>1. /\ upstream[k] \in Nat /\ clock \in Nat /\ r.ver \in Nat
            /\ CacheOf[src[l]] \in Nat /\ TimeoutOf[src[l]] \in Nat
            /\ upstream[k] \in Versions /\ changedAt[k] \in [Versions -> Nat]
        BY <1>2, <1>3, <2>1, TimeTypes, ConstantTypes
      <4> QED BY <3>4, <4>1, SinceLonger
    <3>6. r.tag = TagOf[k][r.ver]
      BY <1>3, <2>1 DEF Good
    <3>7. src[l] \in Sources /\ KeyOf[src[l]] = k
      BY <1>2, TimeTypes DEF Key
    <3>8. clock + CacheOf[src[l]] <= clock + CacheOf[src[l]]
      BY <1>2, TimeTypes
    <3>9. ASSUME NEW j \in Keys, j = k PROVE KeyTimely(j)'
      BY <1>1, <3>3, <3>5, <3>6, <3>7, <3>8, <3>9 DEF KeyTimely
    <3> QED BY <3>2, <3>9
  <2>2. CASE ~(r.status = "ok" /\ CacheOf[src[l]] > 0)
    BY <1>1, <2>2 DEF Publish, TimeInv, KeyTimely
  <2> QED BY <2>1, <2>2
<1>6. LoadTimely(l)' /\ WaitTimely(l)'
  <2>1. pc'[l] = "done" /\ outcome'[l] = Returned(r)
    BY <1>1, <1>2 DEF TypeOK
  <2>2. outcome'[l].status = "ok" => r.status = "ok" /\ outcome'[l].ver = r.ver
    BY <2>1, FieldTypes DEF Returned, Loaded
  <2>3. outcome'[l].status = "ok" => Timely(l, outcome'[l].ver)
    BY <1>4, <2>2
  <2> QED BY <1>1, <1>2, <2>1, <2>3 DEF LoadTimely, WaitTimely, Fetching, Timely, SinceOf, Key
<1>7. \A m \in Loads \ {l} : LoadTimely(m)' /\ WaitTimely(m)'
  <2>1. ASSUME NEW m \in Loads \ {l}, pc[m] = "wait", call[m] = l, r.status = "ok"
        PROVE  Timely(m, r.ver)
    BY <1>4, <2>1 DEF TimeInv, Flight, NoLostWaiter
  <2>2. \A m \in Loads \ {l} :
           UNCHANGED <<pc[m], now[m], snap[m], deadline[m], reply[m], call[m], result[m],
                       outcome[m]>>
    BY <1>1, <1>2 DEF Publish, TypeOK
  <2> QED BY <1>1, <1>2, <2>1, <2>2, OthersTimely
<1> QED BY <1>5, <1>6, <1>7 DEF TimeInv

\* The end of a fetch, at its deadline at the latest.
LEMMA FetchTime ==
    ASSUME NEW l \in Loads, TimeInv, Flight', Fetching(l), NEW r, FetchReturns(l, r),
           r.status = "ok" => r = Fetched(l)
    PROVE  TimeInv'
<1>1. /\ pc[l] = "fetch" /\ pc'[l] = "publish" /\ result'[l] = r /\ reply'[l] = NoReply
      /\ UNCHANGED <<src, now, outcome, cache, upstream, changedAt, clock>>
      /\ \A m \in Loads \ {l} :
            UNCHANGED <<pc[m], now[m], snap[m], deadline[m], reply[m], call[m], result[m],
                        outcome[m]>>
  BY DEF TimeInv, Flight, TypeOK, FetchReturns, Fetching, history
<1>2. TypeOK /\ TypeOK' /\ LoadTimely(l)
  BY DEF TimeInv, Flight
<1>3. ASSUME r.status = "ok" PROVE Good(l, r, clock)
  <2>1. Good(l, r, deadline[l]) /\ clock <= deadline[l]
    BY <1>2, <1>3 DEF LoadTimely
  <2>2. r.ver \in Nat
    BY <1>2, <1>3, TimeTypes
  <2>3. SinceOf(l, r.ver, TimeoutOf[src[l]], deadline[l])
    BY <2>1 DEF Good
  <2>4. SinceOf(l, r.ver, TimeoutOf[src[l]], clock)
    BY <1>2, <2>1, <2>2, <2>3, SinceWeaker, TimeTypes DEF SinceOf
  <2> QED BY <2>1, <2>4 DEF Good
<1>4. LoadTimely(l)' /\ WaitTimely(l)'
  BY <1>1, <1>2, <1>3 DEF LoadTimely, WaitTimely, Fetching, Good, SinceOf, Key
<1> QED BY <1>1, <1>2, <1>4, QuietTime

\* An answer 304 is for the version that the entry holds: no two versions have
\* the same validator.
LEMMA AnswerTime ==
    ASSUME NEW l \in Loads, TimeInv, Flight', ServerAnswers(l)
    PROVE  TimeInv'
<1> DEFINE k == Key(l)
<1>1. /\ pc[l] = "fetch"
      /\ UNCHANGED <<src, pc, now, snap, deadline, result, outcome, cache, upstream, changedAt,
                     clock, call>>
      /\ \A m \in Loads \ {l} : reply'[m] = reply[m]
  BY DEF TimeInv, Flight, TypeOK, ServerAnswers, Fetching, history
<1>2. TypeOK /\ TypeOK' /\ LoadTimely(l) /\ KeyTimely(k) /\ snap[l] = cache[k]
  BY <1>1, TimeTypes DEF TimeInv, Flight, LeaderOwnsKey, Leading
<1>3. /\ upstream[k] \in Versions /\ upstream[k] \in Nat /\ k \in Keys /\ clock \in Nat
      /\ snap[l] \in Entries
  BY <1>2, TimeTypes, ConstantTypes
<1>4. ASSUME Fetched(l)'.status = "ok"
      PROVE  /\ Fetched(l)'.tag = TagOf[k][Fetched(l)'.ver]
             /\ Fetched(l)'.ver = upstream[k]
  <2>1. \/ reply'[l] = [kind |-> "content", ver |-> upstream[k]]
        \/ reply'[l] = [kind |-> "refused", ver |-> 0]
        \/ /\ reply'[l] = [kind |-> "notModified", ver |-> 0]
           /\ Condition(l) # NoTag /\ Condition(l) = TagOf[k][upstream[k]]
    BY <1>2 DEF ServerAnswers, TypeOK
  <2>2. CASE reply'[l] = [kind |-> "content", ver |-> upstream[k]]
    BY <1>1, <2>2 DEF Fetched, Key
  <2>3. CASE reply'[l] = [kind |-> "refused", ver |-> 0]
    BY <1>1, <1>4, <2>3, FieldTypes DEF Fetched
  <2>4. CASE /\ reply'[l] = [kind |-> "notModified", ver |-> 0]
             /\ Condition(l) # NoTag /\ Condition(l) = TagOf[k][upstream[k]]
    <3>1. Cached(snap[l]) /\ snap[l].tag = TagOf[k][upstream[k]] /\ snap[l].tag # NoTag
      BY <2>4 DEF Condition
    <3>2. snap[l].tag = TagOf[k][snap[l].ver] /\ snap[l].ver \in Versions
      BY <1>2, <1>3, <3>1, FieldTypes DEF KeyTimely
    <3>3. snap[l].ver = upstream[k]
      BY <1>3, <3>1, <3>2, ValidatorAssumption DEF Versions
    <3> QED BY <1>1, <2>4, <3>1, <3>2, <3>3 DEF Fetched
  <2> QED BY <2>1, <2>2, <2>3, <2>4
<1>5. Fetched(l)'.status = "ok" => Good(l, Fetched(l), deadline[l])'
  <2> SUFFICES ASSUME Fetched(l)'.status = "ok" PROVE Good(l, Fetched(l), deadline[l])'
    OBVIOUS
  <2>1. Key(l)' = k /\ upstream'[k] = upstream[k]
    BY <1>1 DEF Key
  <2>2. Fetched(l)'.tag = TagOf[Key(l)'][Fetched(l)'.ver] /\ Fetched(l)'.ver = upstream'[Key(l)']
    BY <1>4, <2>1
  <2> QED BY <2>2 DEF Good, SinceOf, Since
<1>6. Timely(l, outcome[l].ver) => Timely(l, outcome[l].ver)'
  BY <1>1 DEF Timely, SinceOf, Key
<1>7. LoadTimely(l)'
  BY <1>1, <1>2, <1>5, <1>6 DEF LoadTimely, Fetching
<1>8. WaitTimely(l)'
  BY <1>1 DEF WaitTimely
<1> QED BY <1>1, <1>2, <1>7, <1>8, QuietTime

\* Nothing that is in flight, cached or returned is made older by a new version.
LEMMA ChangeTime ==
    ASSUME NEW k \in Keys, TimeInv, Flight', UpstreamChanges(k)
    PROVE  TimeInv'
<1>1. /\ upstream' = [upstream EXCEPT ![k] = @ + 1]
      /\ changedAt' = [changedAt EXCEPT ![k] = [@ EXCEPT ![upstream[k] + 1] = clock]]
      /\ UNCHANGED <<src, pc, now, snap, deadline, reply, call, result, outcome, cache, clock>>
  BY DEF UpstreamChanges, loadVars
<1>2. TypeOK /\ TypeOK'
  BY DEF TimeInv, Flight
<1>3. ASSUME NEW j \in Keys, NEW v \in Nat, NEW d \in Nat, NEW t \in Nat, t <= clock + d,
             Since(upstream[j], changedAt[j], v, d, t)
      PROVE  Since(upstream'[j], changedAt'[j], v, d, t)
  <2>1. CASE j = k
    <3>1. upstream'[k] = upstream[k] + 1
      BY <1>1, <1>2 DEF TypeOK
    <3>2. /\ upstream[k] + 1 \in Versions /\ upstream[k] \in Versions
          /\ changedAt[k] \in [Versions -> Nat] /\ clock \in Nat
      BY <1>2, <3>1 DEF TypeOK
    <3>3. changedAt'[k] = [changedAt[k] EXCEPT ![upstream[k] + 1] = clock]
      BY <1>1, <1>2 DEF TypeOK
    <3> QED BY <1>3, <2>1, <3>1, <3>2, <3>3, SinceKept
  <2>2. CASE j # k
    BY <1>1, <1>2, <1>3, <2>2 DEF TypeOK
  <2> QED BY <2>1, <2>2
<1>4. ASSUME NEW j \in Keys PROVE KeyTimely(j)'
  <2> SUFFICES ASSUME Cached(cache[j]) PROVE KeyTimely(j)'
    BY <1>1 DEF KeyTimely
  <2>1. PICK s \in Sources :
           /\ KeyOf[s] = j
           /\ cache[j].expires <= clock + CacheOf[s]
           /\ Since(upstream[j], changedAt[j], cache[j].ver, CacheOf[s] + TimeoutOf[s],
                    cache[j].expires)
    BY DEF TimeInv, KeyTimely
  <2>2. /\ CacheOf[s] \in Nat /\ TimeoutOf[s] \in Nat /\ clock \in Nat
        /\ cache[j].ver \in Nat /\ cache[j].expires \in Nat
    BY <1>2, TimeTypes, ConstantTypes
  <2>3. cache[j].expires <= clock + (CacheOf[s] + TimeoutOf[s])
    BY <2>1, <2>2
  <2>4. Since(upstream'[j], changedAt'[j], cache[j].ver, CacheOf[s] + TimeoutOf[s],
              cache[j].expires)
    BY <1>3, <2>1, <2>2, <2>3
  <2> QED BY <1>1, <2>1, <2>4 DEF TimeInv, KeyTimely
<1>5. ASSUME NEW l \in Loads PROVE LoadTimely(l)' /\ WaitTimely(l)'
  <2>1. /\ Key(l)' = Key(l) /\ Fetched(l)' = Fetched(l) /\ LoadTimely(l) /\ WaitTimely(l)
        /\ Key(l) \in Keys /\ now[l] \in Nat /\ clock \in Nat /\ now[l] <= clock
        /\ src[l] \in Sources /\ TimeoutOf[src[l]] \in Nat /\ deadline[l] \in Nat
    BY <1>1, <1>2, TimeTypes DEF Key, Fetched, TimeInv, LoadTimely
  <2>2. ASSUME NEW r \in Results, r.status = "ok", NEW t \in Nat, t <= clock + TimeoutOf[src[l]],
               Good(l, r, t)
        PROVE  /\ r.tag = TagOf[Key(l)][r.ver]
               /\ Since(upstream'[Key(l)], changedAt'[Key(l)], r.ver, 0, now[l])
               /\ Since(upstream'[Key(l)], changedAt'[Key(l)], r.ver, TimeoutOf[src[l]], t)
    <3>1. r.ver \in Nat /\ now[l] <= clock + 0
      BY <1>2, <2>1, <2>2, TimeTypes
    <3> QED BY <1>3, <2>1, <2>2, <3>1 DEF Good, SinceOf
  <2>3. ASSUME NEW v \in Nat, Timely(l, v)
        PROVE  \E s \in Sources :
                  /\ KeyOf[s] = Key(l)
                  /\ Since(upstream'[Key(l)], changedAt'[Key(l)], v, CacheOf[s] + TimeoutOf[s],
                           now[l])
    <3>1. PICK s \in Sources :
             KeyOf[s] = Key(l) /\ SinceOf(l, v, CacheOf[s] + TimeoutOf[s], now[l])
      BY <2>3 DEF Timely
    <3>2. CacheOf[s] + TimeoutOf[s] \in Nat /\ now[l] <= clock + (CacheOf[s] + TimeoutOf[s])
      BY <2>1, ConstantTypes
    <3> QED BY <1>3, <2>1, <3>1, <3>2 DEF SinceOf
  <2>4. Fetching(l)' /\ Fetched(l)'.status = "ok" => Good(l, Fetched(l), deadline[l])'
    <3> SUFFICES ASSUME Fetching(l), Fetched(l).status = "ok" PROVE Good(l, Fetched(l), deadline[l])'
      BY <1>1, <2>1 DEF Fetching
    <3>1. Good(l, Fetched(l), deadline[l]) /\ deadline[l] <= clock + TimeoutOf[src[l]]
      BY <2>1 DEF LoadTimely
    <3>2. Fetched(l) \in Results
      BY <1>2, TimeTypes
    <3> QED BY <1>1, <2>1, <2>2, <3>1, <3>2 DEF Good, SinceOf
  <2>5. pc'[l] = "publish" /\ result'[l].status = "ok" => Good(l, result[l], clock)'
    <3> SUFFICES ASSUME pc[l] = "publish", result[l].status = "ok" PROVE Good(l, result[l], clock)'
      BY <1>1
    <3>1. Good(l, result[l], clock) /\ clock <= clock + TimeoutOf[src[l]] /\ result[l] \in Results
      BY <1>2, <2>1, TimeTypes DEF LoadTimely
    <3> QED BY <1>1, <2>1, <2>2, <3>1 DEF Good, SinceOf
  <2>6. outcome'[l].status = "ok" => Timely(l, outcome[l].ver)'
    <3> SUFFICES ASSUME outcome[l].status = "ok" PROVE Timely(l, outcome[l].ver)'
      BY <1>1
    <3>1. Timely(l, outcome[l].ver) /\ outcome[l].ver \in Nat
      BY <1>2, <2>1, TimeTypes DEF LoadTimely
    <3> QED BY <1>1, <2>1, <2>3, <3>1 DEF Timely, SinceOf
  <2>7. WaitTimely(l)'
    <3> SUFFICES ASSUME pc[l] = "wait", pc[call[l]] = "done", result[call[l]].status = "ok"
                 PROVE  Timely(l, result[call[l]].ver)'
      BY <1>1 DEF WaitTimely
    <3>1. Timely(l, result[call[l]].ver) /\ result[call[l]].ver \in Nat
      BY <1>2, <2>1, TimeTypes DEF WaitTimely, TypeOK
    <3> QED BY <1>1, <2>1, <2>3, <3>1 DEF Timely, SinceOf
  <2> QED BY <1>1, <2>1, <2>4, <2>5, <2>6, <2>7 DEF LoadTimely, Fetching
<1> QED BY <1>4, <1>5 DEF TimeInv

\* The clock does not pass a deadline, nor the end of a fetch that is returned.
LEMMA TickTime ==
    ASSUME TimeInv, Flight', Tick
    PROVE  TimeInv'
<1>1. /\ clock' = clock + 1
      /\ UNCHANGED <<src, pc, now, snap, deadline, reply, call, result, outcome, cache, upstream,
                     changedAt>>
      /\ \A l \in Loads : pc[l] # "publish" /\ (Fetching(l) => clock < deadline[l])
  BY DEF Tick, loadVars, history
<1>2. TypeOK
  BY DEF TimeInv, Flight
<1>3. ASSUME NEW j \in Keys PROVE KeyTimely(j)'
  <2>1. \A s \in Sources : cache[j].expires <= clock + CacheOf[s] =>
                           cache[j].expires <= clock + 1 + CacheOf[s]
    BY <1>2, TimeTypes, ConstantTypes
  <2> QED BY <1>1, <2>1 DEF TimeInv, KeyTimely
<1>4. ASSUME NEW l \in Loads PROVE LoadTimely(l)' /\ WaitTimely(l)'
  <2>1. /\ Key(l)' = Key(l) /\ Fetched(l)' = Fetched(l) /\ LoadTimely(l) /\ WaitTimely(l)
        /\ now[l] \in Nat /\ clock \in Nat /\ deadline[l] \in Nat /\ TimeoutOf[src[l]] \in Nat
    BY <1>1, <1>2, TimeTypes DEF Key, Fetched, TimeInv
  <2>2. /\ now[l] <= clock + 1
        /\ Fetching(l) => clock + 1 <= deadline[l] /\ deadline[l] <= clock + 1 + TimeoutOf[src[l]]
    BY <1>1, <2>1 DEF LoadTimely
  <2> QED BY <1>1, <2>1, <2>2 DEF LoadTimely, WaitTimely, Fetching, Good, SinceOf, Timely
<1> QED BY <1>3, <1>4 DEF TimeInv

\* A load that is served from the cache, or by somebody else's fetch.
LEMMA StepTime == TimeInv /\ Flight' /\ [Next]_vars => TimeInv'
<1> SUFFICES ASSUME TimeInv, Flight', [Next]_vars PROVE TimeInv'
  OBVIOUS
<1> DEFINE Apart(l) ==
        \A m \in Loads \ {l} :
            UNCHANGED <<pc[m], now[m], snap[m], deadline[m], reply[m], call[m], result[m],
                        outcome[m]>>
           External == UNCHANGED <<src, upstream, changedAt, clock, cache>>
<1>t. TypeOK /\ TypeOK' /\ \A l \in Loads : LoadTimely(l) /\ WaitTimely(l)
  BY DEF TimeInv, Flight
\* Steps that return, with a version that is timely if there is one.
<1>r. ASSUME NEW l \in Loads, NEW r, ~Leading(l), pc[l] # "done", Return(l, r), External,
             UNCHANGED <<now, snap, deadline, reply, result>>,
             \A m \in Loads \ {l} : call'[m] = call[m],
             r.status = "ok" => Timely(l, r.ver)
      PROVE  TimeInv'
  <2>1. /\ pc'[l] = "done" /\ outcome'[l] = Returned(r) /\ reply'[l] = NoReply
        /\ now'[l] <= clock' /\ Key(l)' = Key(l)
    BY <1>r, <1>t DEF Return, TypeOK, LoadTimely, Leading, Fetching, Key
  <2>2. Apart(l)
    BY <1>r, <1>t DEF Return, TypeOK
  <2>3. outcome'[l].status = "ok" => r.status = "ok" /\ outcome'[l].ver = r.ver
    BY <2>1, FieldTypes DEF Returned, Loaded
  <2>4. LoadTimely(l)' /\ WaitTimely(l)'
    BY <1>r, <2>1, <2>3 DEF LoadTimely, WaitTimely, Fetching, Timely, SinceOf
  <2> QED BY <1>r, <1>t, <2>1, <2>2, <2>4, QuietTime
\* Steps on the way to that.
<1>q. ASSUME NEW l \in Loads, pc[l] # "done", pc'[l] \in {"read", "lookup", "wait", "start"},
             External, UNCHANGED outcome, Apart(l),
             reply'[l] = NoReply, now'[l] <= clock', WaitTimely(l)'
      PROVE  TimeInv'
  <2>1. LoadTimely(l)'
    BY <1>q, <1>t DEF LoadTimely, Fetching
  <2> QED BY <1>q, <1>t, <2>1, QuietTime
<1>1. ASSUME NEW l \in Loads, Reject(l) PROVE TimeInv'
  BY <1>1, <1>r, FieldTypes DEF Reject, loadVars, Leading
<1>2. ASSUME NEW l \in Loads, BeginFile(l) \/ BeginRemote(l) PROVE TimeInv'
  <2>1. /\ pc[l] = "idle" /\ pc'[l] \in {"read", "lookup"} /\ External /\ Apart(l)
        /\ UNCHANGED <<outcome, reply>> /\ now'[l] \in {now[l], clock}
    BY <1>2, <1>t DEF BeginFile, BeginRemote, loadVars, TypeOK
  <2>2. reply'[l] = NoReply /\ now'[l] <= clock'
    BY <1>t, <2>1, TimeTypes DEF LoadTimely, Fetching
  <2> QED BY <1>q, <2>1, <2>2 DEF WaitTimely
<1>3. ASSUME NEW l \in Loads, ReadFile(l) PROVE TimeInv'
  <2>1. SinceOf(l, upstream[Key(l)], CacheOf[src[l]] + TimeoutOf[src[l]], now[l])
    BY DEF SinceOf, Since
  <2>2. Timely(l, upstream[Key(l)])
    BY <1>t, <2>1, TimeTypes DEF Timely, Key
  <2> QED BY <1>3, <1>r, <2>2, FieldTypes DEF ReadFile, loadVars, Leading
<1>4. ASSUME NEW l \in Loads, CacheHit(l) PROVE TimeInv'
  <2> DEFINE k == Key(l)
  <2>1. Cached(cache[k]) /\ now[l] < cache[k].expires
    BY <1>4 DEF CacheHit, Fresh
  <2>2. PICK s \in Sources :
           /\ KeyOf[s] = k
           /\ Since(upstream[k], changedAt[k], cache[k].ver, CacheOf[s] + TimeoutOf[s],
                    cache[k].expires)
    BY <1>t, <2>1, TimeTypes DEF TimeInv, KeyTimely
  <2>3. /\ CacheOf[s] + TimeoutOf[s] \in Nat /\ now[l] \in Nat /\ cache[k].expires \in Nat
        /\ cache[k].ver \in Nat
    BY <1>t, TimeTypes, ConstantTypes
  <2>4. now[l] <= cache[k].expires /\ CacheOf[s] + TimeoutOf[s] <= CacheOf[s] + TimeoutOf[s]
    BY <2>1, <2>3
  <2>5. SinceOf(l, cache[k].ver, CacheOf[s] + TimeoutOf[s], now[l])
    BY <1>t, <2>2, <2>3, <2>4, SinceOfWeaker DEF SinceOf
  <2>6. Timely(l, cache[k].ver)
    BY <2>2, <2>5 DEF Timely
  <2> QED BY <1>4, <1>r, <2>6 DEF CacheHit, loadVars, Leading
<1>5. ASSUME NEW l \in Loads, Join(l) PROVE TimeInv'
  <2>1. /\ pc[l] = "lookup" /\ pc'[l] = "wait" /\ External /\ Apart(l)
        /\ UNCHANGED <<now, outcome, reply>>
        /\ call'[l] = inflight[Key(l)] /\ inflight[Key(l)] # NoLoad
    BY <1>5, <1>t DEF Join, history, TypeOK
  <2>2. pc'[call'[l]] # "done"
    <3>1. Leading(call'[l]) /\ call'[l] \in Loads
      BY <1>t, <2>1, TimeTypes DEF TimeInv, Flight, NoLostWaiter, TypeOK
    <3> QED BY <2>1, <3>1 DEF Leading
  <2>3. reply'[l] = NoReply /\ now'[l] <= clock'
    BY <1>t, <2>1 DEF LoadTimely, Fetching
  <2> QED BY <1>q, <2>1, <2>2, <2>3 DEF WaitTimely
<1>6. ASSUME NEW l \in Loads, Lead(l) PROVE TimeInv'
  <2>1. /\ pc[l] = "lookup" /\ pc'[l] = "start" /\ External /\ Apart(l)
        /\ UNCHANGED <<now, outcome, reply>>
    BY <1>6, <1>t DEF Lead, history, TypeOK
  <2>2. reply'[l] = NoReply /\ now'[l] <= clock'
    BY <1>t, <2>1 DEF LoadTimely, Fetching
  <2> QED BY <1>q, <2>1, <2>2 DEF WaitTimely
<1>7. ASSUME NEW l \in Loads, StartFetch(l) PROVE TimeInv'
  <2>1. /\ pc[l] = "start" /\ pc'[l] = "fetch" /\ External /\ Apart(l)
        /\ UNCHANGED <<now, outcome, reply, snap, result>>
        /\ deadline'[l] = clock + TimeoutOf[src[l]]
    BY <1>7, <1>t DEF StartFetch, history, TypeOK
  <2>2. reply'[l] = NoReply /\ now'[l] <= clock'
    BY <1>t, <2>1 DEF LoadTimely, Fetching
  <2>3. Fetched(l)'.status # "ok"
    BY <2>2, FieldTypes DEF Fetched
  <2>4. /\ clock' <= deadline'[l] /\ deadline'[l] <= clock' + TimeoutOf[src'[l]]
    BY <1>t, <2>1, TimeTypes
  <2>5. LoadTimely(l)' /\ WaitTimely(l)'
    BY <1>t, <2>1, <2>2, <2>3, <2>4 DEF LoadTimely, WaitTimely, Fetching
  <2> QED BY <1>t, <2>1, <2>5, QuietTime
<1>8. ASSUME NEW l \in Loads, Receive(l) \/ FetchFails(l) \/ TimeOut(l) PROVE TimeInv'
  BY <1>8, FetchTime, FieldTypes DEF Receive, FetchFails, TimeOut
<1>9. ASSUME NEW l \in Loads, Publish(l) PROVE TimeInv'
  BY <1>9, PublishTime
<1>10. ASSUME NEW l \in Loads, Await(l) PROVE TimeInv'
  <2>1. pc[l] = "wait" /\ pc[call[l]] = "done" /\ Return(l, result[call[l]])
    BY <1>10 DEF Await
  <2>2. result[call[l]].status = "ok" => Timely(l, result[call[l]].ver)
    BY <1>t, <2>1 DEF WaitTimely
  <2> QED BY <1>10, <1>r, <1>t, <2>1, <2>2 DEF Await, Leading, TypeOK
<1>11. ASSUME NEW l \in Loads, ServerAnswers(l) PROVE TimeInv'
  BY <1>11, AnswerTime
<1>12. ASSUME NEW k \in Keys, UpstreamChanges(k) PROVE TimeInv'
  BY <1>12, ChangeTime
<1>13. CASE Tick
  BY <1>13, TickTime
<1>14. CASE Finished \/ UNCHANGED vars
  <2>1. /\ UNCHANGED <<src, pc, now, snap, deadline, reply, call, result, outcome, cache, clock,
                       upstream, changedAt>>
    BY <1>14 DEF Finished, vars
  <2>2. \A k \in Keys : KeyTimely(k)'
    BY <2>1 DEF TimeInv, KeyTimely
  <2>3. \A l \in Loads : LoadTimely(l)' /\ WaitTimely(l)'
    BY <1>t, <2>1
    DEF LoadTimely, WaitTimely, Fetching, Good, SinceOf, Timely, Fetched, Key
  <2> QED BY <2>2, <2>3 DEF TimeInv
<1> QED
  BY <1>1, <1>2, <1>3, <1>4, <1>5, <1>6, <1>7, <1>8, <1>9, <1>10, <1>11, <1>12, <1>13, <1>14
  DEF Next, Step

\* Times are kept in every behaviour of every loader, whatever durations the
\* sources that share a key have.
LEMMA TimeInvariant == Spec => []TimeInv
<1>1. TimeInv /\ [Next]_vars => TimeInv'
  <2>1. TimeInv /\ [Next]_vars => Flight'
    BY StepType, StepFlight DEF TimeInv, Flight
  <2> QED BY <2>1, StepTime
<1> QED BY <1>1, InitTime, PTL DEF Spec

\* What a fetch brings, conditional or not, was still current after its load began.
THEOREM FetchesAreCurrent == Spec => []FetchIsCurrent
<1>1. TimeInv => FetchIsCurrent
  <2> SUFFICES ASSUME TimeInv, NEW l \in Loads, pc[l] = "publish", result[l].status = "ok",
                      result[l].ver # upstream[Key(l)]
               PROVE  ReplacedAt(Key(l), result[l].ver) >= now[l]
    BY DEF FetchIsCurrent, Current
  <2>1. TypeOK /\ Good(l, result[l], clock) /\ result[l].ver \in Nat /\ now[l] \in Nat
    BY TimeTypes DEF TimeInv, Flight, LoadTimely
  <2>2. /\ result[l].ver < upstream[Key(l)]
        /\ changedAt[Key(l)][result[l].ver + 1] + 0 >= now[l]
    BY <2>1 DEF Good, SinceOf, Since
  <2>3. result[l].ver + 1 \in Versions
    BY <2>1, <2>2, TimeTypes, BoundsAssumption DEF Versions
  <2>4. changedAt[Key(l)][result[l].ver + 1] \in Nat
    BY <2>1, <2>3, TimeTypes
  <2> QED BY <2>1, <2>2, <2>4 DEF ReplacedAt
<1> QED BY <1>1, TimeInvariant, PTL

\* No load returns what was replaced more than one cache duration and one
\* timeout, of a source with its key, before it began.
THEOREM StalenessIsBounded == Spec => []BoundedStaleness
<1>1. TimeInv => BoundedStaleness
  <2> SUFFICES ASSUME TimeInv, NEW l \in Loads, outcome[l].status = "ok",
                      outcome[l].ver # upstream[Key(l)]
               PROVE  \E s \in Sources :
                         /\ KeyOf[s] = Key(l)
                         /\ ReplacedAt(Key(l), outcome[l].ver) + CacheOf[s] + TimeoutOf[s]
                               >= now[l]
    BY DEF BoundedStaleness, Current
  <2>1. TypeOK /\ Timely(l, outcome[l].ver) /\ outcome[l].ver \in Nat /\ now[l] \in Nat
    BY TimeTypes DEF TimeInv, Flight, LoadTimely
  <2>2. PICK s \in Sources :
           /\ KeyOf[s] = Key(l)
           /\ outcome[l].ver < upstream[Key(l)]
           /\ changedAt[Key(l)][outcome[l].ver + 1] + (CacheOf[s] + TimeoutOf[s]) >= now[l]
    BY <2>1 DEF Timely, SinceOf, Since
  <2>3. outcome[l].ver + 1 \in Versions
    BY <2>1, <2>2, TimeTypes, BoundsAssumption DEF Versions
  <2>4. /\ changedAt[Key(l)][outcome[l].ver + 1] \in Nat
        /\ CacheOf[s] \in Nat /\ TimeoutOf[s] \in Nat
    BY <2>1, <2>3, TimeTypes, ConstantTypes
  <2> QED BY <2>1, <2>2, <2>4 DEF ReplacedAt
<1> QED BY <1>1, TimeInvariant, PTL

--------------------------------------------------------------------------------
(* The loader implements VersionedSource. *)

\* The loads' keys and statuses, as the promise sees them.
StatusMap == [l \in Loads |-> StatusOf(pc[l])]
KeyMap == [l \in Loads |-> Key(l)]

\* A load's last step is a Return or a Fail of the promise.
LEMMA ReturnKeepsPromise ==
    ASSUME NEW l \in Loads, NEW r, IInv, TypeOK', Return(l, r), pc[l] # "done",
           UNCHANGED <<src, floor, upstream>>,
           r.status = "ok" =>
              /\ pc[l] # "idle" /\ r.ver \in Versions
              /\ floor[l] <= r.ver /\ r.ver <= upstream[Key(l)]
    PROVE  Promise!Next
<1> USE DEF IInv, Flight
<1>1. StatusMap' = [StatusMap EXCEPT ![l] = "returned"] /\ KeyMap' = KeyMap
  BY DEF Return, StatusMap, KeyMap, StatusOf, Key, TypeOK
<1>2. StatusMap[l] \in {"idle", "pending"} /\ (pc[l] # "idle" => StatusMap[l] = "pending")
  BY DEF StatusMap, StatusOf
<1>3. KeyMap[l] = Key(l)
  BY DEF KeyMap
<1>4. CASE r.status = "ok"
  <2>1. Promise!Return(l, r.ver)
    BY <1>1, <1>2, <1>3, <1>4
    DEF Promise!Return, Promise!Later, Promise!Loaded, Return, Returned, Loaded, Later,
        StatusMap, KeyMap
  <2> QED BY <2>1, <1>4 DEF Promise!Next, Versions
<1>5. CASE r.status # "ok"
  <2>1. Promise!Fail(l)
    BY <1>1, <1>2, <1>5
    DEF Promise!Fail, Promise!Failed, Return, Returned, Failed, StatusMap, KeyMap
  <2> QED BY <2>1 DEF Promise!Next
<1> QED BY <1>4, <1>5

\* A step that neither begins nor ends a load is not seen by the promise.
LEMMA StutterKeepsPromise ==
    ASSUME IInv, TypeOK', UNCHANGED <<src, upstream, served, floor, outcome>>,
           \A l \in Loads : pc'[l] = pc[l] \/ {pc[l], pc'[l]} \cap {"idle", "done"} = {}
    PROVE  UNCHANGED Promise!vars
<1>1. StatusMap' = StatusMap /\ KeyMap' = KeyMap
  BY DEF StatusMap, KeyMap, StatusOf, Key
<1> QED BY <1>1 DEF Promise!vars, StatusMap, KeyMap

\* Every step of the loader is a step of the promise or leaves it unchanged.
LEMMA StepKeepsPromise ==
    ASSUME UniformCache, IInv, IInv', [Next]_vars
    PROVE  [Promise!Next]_(Promise!vars)
<1> USE DEF IInv, Flight
<1>o. /\ \A l \in Loads : LoadOrder(l) /\ WaitOrder(l)
      /\ \A k \in Keys : KeyOrder(k)
      /\ \A k \in Keys : upstream[k] \in Versions
      /\ \A r \in Results : r.status = "ok" => r.ver \in Versions
  BY FieldTypes DEF OrderedVersions, TypeOK
<1>1. ASSUME NEW l \in Loads, Reject(l) PROVE Promise!Next
  BY <1>1, ReturnKeepsPromise, FieldTypes DEF Reject
<1>2. ASSUME NEW l \in Loads, BeginFile(l) \/ BeginRemote(l) PROVE Promise!Next
  <2>1. StatusMap' = [StatusMap EXCEPT ![l] = "pending"] /\ KeyMap' = KeyMap
    <3>1. /\ pc' = [pc EXCEPT ![l] = "read"] \/ pc' = [pc EXCEPT ![l] = "lookup"]
          /\ src' = src
      BY <1>2 DEF BeginFile, BeginRemote
    <3>2. StatusOf("read") = "pending" /\ StatusOf("lookup") = "pending"
      BY DEF StatusOf
    <3>3. StatusOf(pc'[l]) = "pending" /\ \A m \in Loads \ {l} : pc'[m] = pc[m]
      BY <3>1, <3>2 DEF TypeOK
    <3>4. \A m \in Loads : StatusMap'[m] = StatusOf(pc'[m])
      BY DEF StatusMap
    <3> QED BY <3>1, <3>3, <3>4 DEF StatusMap, KeyMap, Key
  <2>2. StatusMap[l] = "idle" /\ KeyMap[l] = Key(l)
    BY <1>2 DEF BeginFile, BeginRemote, StatusMap, KeyMap, StatusOf
  <2>3. Promise!Begin(l)
    BY <1>2, <2>1, <2>2 DEF BeginFile, BeginRemote, Promise!Begin, StatusMap, KeyMap
  <2> QED BY <2>3 DEF Promise!Next
<1>3. ASSUME NEW l \in Loads, ReadFile(l) PROVE Promise!Next
  <2>1. floor[l] <= upstream[Key(l)] /\ upstream[Key(l)] \in Versions
    BY <1>o, VersionTypes DEF LoadOrder, KeyOrder
  <2>2. upstream[Key(l)] <= upstream[Key(l)]
    BY VersionTypes
  <2> QED BY <1>3, <2>1, <2>2, ReturnKeepsPromise, FieldTypes DEF ReadFile
<1>4. ASSUME NEW l \in Loads, CacheHit(l) PROVE Promise!Next
  <2> DEFINE r == [status |-> "ok", ver |-> cache[Key(l)].ver, tag |-> NoTag]
  <2>1. Return(l, r) /\ r.ver \in Versions /\ r.ver = served[Key(l)]
    BY <1>4, <1>o, VersionTypes, FieldTypes DEF CacheHit, Fresh, KeyOrder
  <2>2. floor[l] <= r.ver /\ r.ver <= upstream[Key(l)]
    BY <2>1, <1>o, VersionTypes DEF LoadOrder, KeyOrder
  <2> QED BY <1>4, <2>1, <2>2, ReturnKeepsPromise DEF CacheHit
<1>5. ASSUME NEW l \in Loads,
             Join(l) \/ Lead(l) \/ StartFetch(l) \/ Receive(l) \/ FetchFails(l)
             \/ TimeOut(l) \/ ServerAnswers(l)
      PROVE  UNCHANGED Promise!vars
  <2>1. UNCHANGED <<src, upstream, served, floor, outcome>>
    BY <1>5
    DEF Join, Lead, StartFetch, Receive, FetchFails, TimeOut, FetchReturns,
        ServerAnswers, history
  <2>2. /\ pc[l] \in {"lookup", "start", "fetch"}
        /\ pc' = pc \/ \E p \in {"wait", "start", "fetch", "publish"} :
              pc' = [pc EXCEPT ![l] = p]
    BY <1>5
    DEF Join, Lead, StartFetch, Receive, FetchFails, TimeOut, FetchReturns,
        ServerAnswers, Fetching
  <2>3. \A m \in Loads : pc'[m] = pc[m] \/ {pc[m], pc'[m]} \cap {"idle", "done"} = {}
    BY <2>2 DEF TypeOK
  <2> QED BY <2>1, <2>3, StutterKeepsPromise
<1>6. ASSUME NEW l \in Loads, Publish(l) PROVE Promise!Next
  <2>1. pc[l] = "publish" /\ Return(l, result[l]) /\ result[l] \in Results
    BY <1>6, VersionTypes DEF Publish
  <2>2. result[l].status = "ok" =>
           floor[l] <= result[l].ver /\ result[l].ver <= upstream[Key(l)]
    BY <2>1, <1>o, VersionTypes DEF LoadOrder
  <2> QED BY <1>6, <2>1, <2>2, <1>o, ReturnKeepsPromise DEF Publish
<1>7. ASSUME NEW l \in Loads, Await(l) PROVE Promise!Next
  <2>1. /\ pc[l] = "wait" /\ pc[call[l]] = "done" /\ Return(l, result[call[l]])
        /\ call[l] \in Loads /\ Key(call[l]) = Key(l)
    BY <1>7 DEF Await, TypeOK, NoLostWaiter
  <2>2. result[call[l]].status = "ok" =>
           floor[l] <= result[call[l]].ver /\ result[call[l]].ver <= upstream[Key(l)]
    BY <2>1, <1>o, VersionTypes DEF LoadOrder, WaitOrder, KeyOrder
  <2>3. result[call[l]] \in Results
    BY <2>1, VersionTypes
  <2> QED BY <1>7, <2>1, <2>2, <2>3, <1>o, ReturnKeepsPromise DEF Await
<1>8. ASSUME NEW k \in Keys, UpstreamChanges(k) PROVE Promise!Next
  <2>1. Promise!Change(k)
    BY <1>8
    DEF UpstreamChanges, loadVars, Promise!Change, StatusOf, Key
  <2> QED BY <2>1 DEF Promise!Next
<1>9. CASE Tick \/ Finished \/ UNCHANGED vars
  BY <1>9, StutterKeepsPromise DEF Tick, Finished, vars, loadVars, history
<1> QED
  BY <1>1, <1>2, <1>3, <1>4, <1>5, <1>6, <1>7, <1>8, <1>9 DEF Next, Step

\* Caching, coalescing and revalidation are invisible to callers: each load
\* fails or returns one version between its floor and the present.
THEOREM LoaderKeepsPromise == UniformCache => (Spec => KeepsPromise)
<1> SUFFICES ASSUME UniformCache PROVE Spec => KeepsPromise
  OBVIOUS
<1>1. Init => Promise!Init
  BY ConstantTypes DEF Init, Promise!Init, StatusOf, Key, Promise!Nothing, Nothing
<1>2. IInv /\ IInv' /\ [Next]_vars => [Promise!Next]_(Promise!vars)
  BY StepKeepsPromise
<1>3. Spec => []IInv
  BY InductiveInvariant
<1> QED BY <1>1, <1>2, <1>3, PTL DEF Spec, KeepsPromise, Promise!Spec

================================================================================
