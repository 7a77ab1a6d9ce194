----------------------------- MODULE ConversionProofs -----------------------------
(***************************************************************************)
(* Theorems about the handler, for any number of requests, sources,        *)
(* patches and versions: requests never work from older sources than       *)
(* requests before them, answers are made from all sources, and what they  *)
(* say is what the order of priority makes of the contents that were read. *)
(***************************************************************************)
EXTENDS Conversion, PatchProofs, SequenceTheorems, TLAPS

\* A read that is recorded: what was read, and which version of it.
Read == [stage : {"source", "global", "local", "encode"}, key : Keys,
         ver : 1 .. MaxVersion]

\* The part of the types that versions depend on.
ReadTypes ==
    /\ name \in [Requests -> Subscriptions \cup {UnknownName}]
    /\ pc \in [Requests -> {"idle", "convert", "loading", "encode", "done"}]
    /\ stage \in [Requests -> {"source", "global", "local", "encode"}]
    /\ position \in [Requests -> Nat]
    /\ upstream \in [Keys -> 1 .. MaxVersion]
    /\ served \in [Keys -> 0 .. MaxVersion]
    /\ floor \in [Requests -> 0 .. MaxVersion]
    /\ baseline \in [Requests -> [Keys -> 0 .. MaxVersion]]
    /\ used \in [Requests -> Seq(Read)]

\* A request that loads something has a name, and is at one of its sources;
\* one that has not begun has read nothing.
Located ==
    \A r \in Requests :
        /\ pc[r] = "idle" => used[r] = <<>>
        /\ pc[r] \in {"convert", "loading"} => name[r] \in Subscriptions
        /\ pc[r] = "loading" => position[r] + 1 \in 1 .. Len(Sources(r))

\* What had been served when a request began bounds all that it reads: nothing
\* takes it back, and a load begins no lower.
Bounded ==
    \A r \in Requests :
        /\ \A k \in Keys : baseline[r][k] <= served[k]
        /\ pc[r] = "loading" => baseline[r][Loading(r)] <= floor[r]

ReadInv == ReadTypes /\ Located /\ Bounded /\ RequestsNeverRollBack

\* Every source that a stage loads is one of the configuration's.
LEMMA SourcesAreKeys ==
    ASSUME NEW r \in Requests, name[r] \in Subscriptions,
           position[r] + 1 \in 1 .. Len(Sources(r))
    PROVE  Loading(r) \in Keys
<1>1. Sources(r) \in Seq(Keys)
  BY ConfigAssumption DEF Sources
<1> QED BY <1>1 DEF Loading

\* At first nothing has been read.
LEMMA InitRead == Init => ReadInv
  BY ConfigAssumption
  DEF Init, ReadInv, ReadTypes, Located, Bounded, RequestsNeverRollBack

\* Answering and going on to the next list read nothing.
LEMMA QuietStep ==
    ASSUME ReadInv, NEW r \in Requests, LoadFails(r) \/ Apply(r) \/ Encode(r)
    PROVE  ReadInv'
<1>1. /\ UNCHANGED <<name, upstream, served, floor, used, baseline>>
      /\ \E p \in {"convert", "encode", "done"} : pc' = [pc EXCEPT ![r] = p]
      /\ stage' = stage \/ \E s \in {"local", "encode"} : stage' = [stage EXCEPT ![r] = s]
      /\ position' = position \/ position' = [position EXCEPT ![r] = 0]
      /\ pc'[r] = "convert" => pc[r] = "convert"
  BY DEF LoadFails, Apply, Encode, Fail, Respond, source, NextStage, ReadInv, ReadTypes
<1>2. ReadTypes'
  <2>1. pc' \in [Requests -> {"idle", "convert", "loading", "encode", "done"}]
    BY <1>1 DEF ReadInv, ReadTypes
  <2>2. stage' \in [Requests -> {"source", "global", "local", "encode"}]
    BY <1>1 DEF ReadInv, ReadTypes
  <2>3. position' \in [Requests -> Nat]
    <3>1. position \in [Requests -> Nat] /\ 0 \in Nat
      BY DEF ReadInv, ReadTypes
    <3>2. CASE position' = position
      BY <3>1, <3>2
    <3>3. CASE position' = [position EXCEPT ![r] = 0]
      BY <3>1, <3>3
    <3> QED BY <1>1, <3>2, <3>3
  <2>4. UNCHANGED <<name, upstream, served, floor, used, baseline>>
    BY <1>1
  <2> QED BY <2>1, <2>2, <2>3, <2>4 DEF ReadInv, ReadTypes
<1>3. \A q \in Requests \ {r} :
         /\ pc'[q] = pc[q] /\ name'[q] = name[q]
         /\ Sources(q)' = Sources(q) /\ Loading(q)' = Loading(q)
         /\ position'[q] = position[q]
  <2> TAKE q \in Requests \ {r}
  <2>1. pc'[q] = pc[q] /\ name'[q] = name[q] /\ stage'[q] = stage[q]
        /\ position'[q] = position[q]
    BY <1>1 DEF ReadInv, ReadTypes
  <2> QED BY <2>1 DEF Sources, Loading
<1>4. pc'[r] \notin {"idle", "loading"}
  BY <1>1 DEF ReadInv, ReadTypes
<1>5. Located'
  BY <1>1, <1>3, <1>4 DEF ReadInv, Located
<1>6. Bounded'
  BY <1>1, <1>3, <1>4 DEF ReadInv, Bounded
<1> QED BY <1>1, <1>2, <1>5, <1>6 DEF ReadInv, RequestsNeverRollBack

\* A load that returns: the version is recorded, nothing served is taken back.
LEMMA LoadStep ==
    ASSUME ReadInv, NEW r \in Requests, LoadSource(r) \/ LoadPatch(r)
    PROVE  ReadInv'
<1> DEFINE k == Loading(r)
<1>1. PICK v \in 1 .. MaxVersion : Loaded(r, v)
  BY DEF LoadSource, LoadPatch
<1>2. /\ pc[r] = "loading" /\ floor[r] <= v /\ UNCHANGED <<name, upstream, floor, baseline>>
      /\ \E p \in {"convert", "done"} : pc' = [pc EXCEPT ![r] = p]
      /\ stage' = stage \/ stage' = [stage EXCEPT ![r] = "global"]
      /\ position' = position \/ position' = [position EXCEPT ![r] = position[r] + 1]
  BY <1>1 DEF LoadSource, LoadPatch, Loaded, Fail, Respond
<1>3. k \in Keys /\ name[r] \in Subscriptions
  BY <1>2, SourcesAreKeys DEF ReadInv, Located
<1>4. /\ served' = [served EXCEPT ![k] = IF served[k] < v THEN v ELSE served[k]]
      /\ used' = [used EXCEPT ![r] = Append(used[r], [stage |-> stage[r], key |-> k, ver |-> v])]
  BY <1>1 DEF Loaded
<1>5. [stage |-> stage[r], key |-> k, ver |-> v] \in Read
  BY <1>3 DEF Read, ReadInv, ReadTypes
<1>6. ReadTypes'
  <2>1. served' \in [Keys -> 0 .. MaxVersion]
    BY <1>3, <1>4, ConfigAssumption DEF ReadInv, ReadTypes
  <2>2. used' \in [Requests -> Seq(Read)]
    BY <1>4, <1>5 DEF ReadInv, ReadTypes
  <2>3. pc' \in [Requests -> {"idle", "convert", "loading", "encode", "done"}]
    BY <1>2 DEF ReadInv, ReadTypes
  <2>4. stage' \in [Requests -> {"source", "global", "local", "encode"}]
    BY <1>2 DEF ReadInv, ReadTypes
  <2>5. position' \in [Requests -> Nat]
    <3>1. position \in [Requests -> Nat] /\ position[r] + 1 \in Nat
      BY DEF ReadInv, ReadTypes
    <3>2. CASE position' = position
      BY <3>1, <3>2
    <3>3. CASE position' = [position EXCEPT ![r] = position[r] + 1]
      BY <3>1, <3>3
    <3> QED BY <1>2, <3>2, <3>3
  <2>6. UNCHANGED <<name, upstream, floor, baseline>>
    BY <1>2
  <2> QED BY <2>1, <2>2, <2>3, <2>4, <2>5, <2>6 DEF ReadInv, ReadTypes
<1>7. \A q \in Requests \ {r} :
         /\ pc'[q] = pc[q] /\ name'[q] = name[q]
         /\ Sources(q)' = Sources(q) /\ Loading(q)' = Loading(q)
         /\ position'[q] = position[q]
  <2> TAKE q \in Requests \ {r}
  <2>1. pc'[q] = pc[q] /\ name'[q] = name[q] /\ stage'[q] = stage[q]
        /\ position'[q] = position[q]
    BY <1>2 DEF ReadInv, ReadTypes
  <2> QED BY <2>1 DEF Sources, Loading
<1>8. /\ pc'[r] \notin {"idle", "loading"}
      /\ \A q \in Requests \ {r} : used'[q] = used[q]
  BY <1>2, <1>4 DEF ReadInv, ReadTypes
<1>9. Located'
  BY <1>2, <1>3, <1>7, <1>8 DEF ReadInv, Located
<1>10. \A j \in Keys : served[j] <= served'[j]
  BY <1>3, <1>4, ConfigAssumption DEF ReadInv, ReadTypes
<1>11. Bounded'
  <2>1. \A q \in Requests, j \in Keys : baseline'[q][j] <= served'[j]
    <3> TAKE q \in Requests, j \in Keys
    <3>1. baseline[q][j] \in Nat /\ served[j] \in Nat /\ served'[j] \in Nat
      BY <1>6, ConfigAssumption DEF ReadInv, ReadTypes
    <3> QED BY <1>2, <1>10, <3>1 DEF ReadInv, Bounded
  <2> QED BY <1>2, <1>7, <1>8, <2>1 DEF ReadInv, Bounded
<1>12. RequestsNeverRollBack'
  <2>1. baseline[r][k] <= v
    <3>1. baseline[r][k] \in Nat /\ floor[r] \in Nat /\ v \in Nat
      BY <1>3, ConfigAssumption DEF ReadInv, ReadTypes
    <3> QED BY <1>2, <3>1 DEF ReadInv, Bounded
  <2>2. ASSUME NEW q \in Requests, NEW i \in 1 .. Len(used'[q])
        PROVE  baseline'[q][used'[q][i].key] <= used'[q][i].ver
    <3>1. used[q] \in Seq(Read)
      BY DEF ReadInv, ReadTypes
    <3>2. CASE q # r \/ i # Len(used[r]) + 1
      <4>1. i \in 1 .. Len(used[q]) /\ used'[q][i] = used[q][i]
        BY <1>4, <2>2, <3>1, <3>2 DEF ReadInv, ReadTypes
      <4> QED BY <1>2, <4>1 DEF ReadInv, RequestsNeverRollBack
    <3>3. CASE q = r /\ i = Len(used[r]) + 1
      <4>1. used'[q][i] = [stage |-> stage[r], key |-> k, ver |-> v]
        BY <1>4, <3>1, <3>3 DEF ReadInv, ReadTypes
      <4> QED BY <1>2, <2>1, <3>3, <4>1
    <3> QED BY <3>2, <3>3
  <2> QED BY <2>2 DEF RequestsNeverRollBack
<1> QED BY <1>6, <1>9, <1>11, <1>12 DEF ReadInv

\* A request begins above what has been served; a load begins at it.
LEMMA BeginStep ==
    ASSUME ReadInv, NEW r \in Requests,
           \/ BeginLoad(r)
           \/ \E n \in Subscriptions \cup {UnknownName}, f \in Formats \cup {NoFormat} :
                 Request(r, n, f)
    PROVE  ReadInv'
<1>1. CASE BeginLoad(r)
  <2>1. /\ pc[r] = "convert" /\ pc' = [pc EXCEPT ![r] = "loading"]
        /\ floor' = [floor EXCEPT ![r] = served[Loading(r)]]
        /\ UNCHANGED <<name, stage, position, upstream, served, used, baseline>>
        /\ position[r] < Len(Sources(r))
    BY <1>1 DEF BeginLoad
  <2>2. \A q \in Requests : Sources(q)' = Sources(q) /\ Loading(q)' = Loading(q)
    BY <2>1 DEF Sources, Loading
  <2>3. position[r] + 1 \in 1 .. Len(Sources(r))
    <3>1. Sources(r) \in Seq(Keys)
      BY <2>1, ConfigAssumption DEF Sources, ReadInv, Located
    <3>2. Len(Sources(r)) \in Nat /\ position[r] \in Nat
      BY <3>1 DEF ReadInv, ReadTypes
    <3> QED BY <2>1, <3>2
  <2>4. Loading(r) \in Keys
    BY <2>1, <2>3, SourcesAreKeys DEF ReadInv, Located
  <2>5. ReadTypes'
    BY <2>1, <2>4 DEF ReadInv, ReadTypes
  <2>6. Located'
    BY <2>1, <2>2, <2>3 DEF ReadInv, ReadTypes, Located
  <2>7. Bounded'
    <3>1. floor'[r] = served[Loading(r)] /\ baseline[r][Loading(r)] <= served[Loading(r)]
      BY <2>1, <2>4 DEF ReadInv, ReadTypes, Bounded
    <3>2. \A q \in Requests \ {r} : pc'[q] = pc[q] /\ floor'[q] = floor[q]
      BY <2>1 DEF ReadInv, ReadTypes
    <3> QED BY <2>1, <2>2, <3>1, <3>2 DEF ReadInv, Bounded
  <2> QED BY <2>1, <2>5, <2>6, <2>7 DEF ReadInv, RequestsNeverRollBack
<1>2. CASE \E n \in Subscriptions \cup {UnknownName}, f \in Formats \cup {NoFormat} :
              Request(r, n, f)
  <2>1. PICK n \in Subscriptions \cup {UnknownName}, f \in Formats \cup {NoFormat} :
           Request(r, n, f)
    BY <1>2
  <2>2. /\ pc[r] = "idle" /\ name' = [name EXCEPT ![r] = n]
        /\ UNCHANGED <<stage, position, upstream, served, floor, used>>
        /\ \/ pc' = [pc EXCEPT ![r] = "done"] /\ baseline' = baseline
           \/ /\ n \in Subscriptions /\ pc' = [pc EXCEPT ![r] = "convert"]
              /\ baseline' = [baseline EXCEPT ![r] = served]
    BY <2>1 DEF Request, Respond, source
  <2>3. ReadTypes'
    <3>1. name' \in [Requests -> Subscriptions \cup {UnknownName}]
      BY <2>2 DEF ReadInv, ReadTypes
    <3>2. pc' \in [Requests -> {"idle", "convert", "loading", "encode", "done"}]
      BY <2>2 DEF ReadInv, ReadTypes
    <3>3. baseline' \in [Requests -> [Keys -> 0 .. MaxVersion]]
      BY <2>2 DEF ReadInv, ReadTypes
    <3> QED BY <2>2, <3>1, <3>2, <3>3 DEF ReadInv, ReadTypes
  <2>4. \A q \in Requests \ {r} :
           /\ pc'[q] = pc[q] /\ name'[q] = name[q] /\ baseline'[q] = baseline[q]
           /\ Sources(q)' = Sources(q) /\ Loading(q)' = Loading(q)
    <3> TAKE q \in Requests \ {r}
    <3>1. pc'[q] = pc[q] /\ name'[q] = name[q] /\ baseline'[q] = baseline[q]
      BY <2>2 DEF ReadInv, ReadTypes
    <3> QED BY <2>2, <3>1 DEF Sources, Loading
  <2>5. pc'[r] \notin {"idle", "loading"} /\ (pc'[r] = "convert" => name'[r] \in Subscriptions)
    BY <2>2 DEF ReadInv, ReadTypes
  <2>6. Located'
    BY <2>2, <2>4, <2>5 DEF ReadInv, Located
  <2>7. \A k \in Keys : baseline'[r][k] <= served[k]
    <3>1. \A k \in Keys : served[k] \in Nat
      BY ConfigAssumption DEF ReadInv, ReadTypes
    <3>2. CASE baseline' = baseline
      BY <3>2 DEF ReadInv, Bounded
    <3>3. CASE baseline' = [baseline EXCEPT ![r] = served]
      BY <3>1, <3>3 DEF ReadInv, ReadTypes
    <3> QED BY <2>2, <3>2, <3>3
  <2>8. Bounded'
    BY <2>2, <2>4, <2>5, <2>7 DEF ReadInv, Bounded
  <2>9. RequestsNeverRollBack'
    <3>1. used[r] = <<>>
      BY <2>2 DEF ReadInv, Located
    <3>2. \A i \in 1 .. Len(used'[r]) : FALSE
      BY <2>2, <3>1
    <3> QED BY <2>2, <2>4, <3>2 DEF ReadInv, RequestsNeverRollBack
  <2> QED BY <2>3, <2>6, <2>8, <2>9 DEF ReadInv
<1> QED BY <1>1, <1>2

\* Every step keeps what is known about reads.
LEMMA StepRead == ReadInv /\ [Next]_vars => ReadInv'
<1> SUFFICES ASSUME ReadInv, [Next]_vars PROVE ReadInv'
  OBVIOUS
<1>1. ASSUME NEW r \in Requests, Step(r) PROVE ReadInv'
  BY <1>1, BeginStep, LoadStep, QuietStep DEF Step
<1>2. ASSUME NEW r \in Requests, NEW n \in Subscriptions \cup {UnknownName},
             NEW f \in Formats \cup {NoFormat}, Request(r, n, f)
      PROVE  ReadInv'
  BY <1>2, BeginStep
<1>3. ASSUME NEW k \in Keys, SourceChanges(k) PROVE ReadInv'
  <2>1. /\ UNCHANGED <<name, pc, stage, position, served, floor, used, baseline>>
        /\ upstream' = [upstream EXCEPT ![k] = upstream[k] + 1] /\ upstream[k] < MaxVersion
    BY <1>3 DEF SourceChanges
  <2>2. upstream' \in [Keys -> 1 .. MaxVersion]
    BY <2>1, ConfigAssumption DEF ReadInv, ReadTypes
  <2>3. \A r \in Requests : Sources(r)' = Sources(r) /\ Loading(r)' = Loading(r)
    BY <2>1 DEF Sources, Loading
  <2> QED
    BY <2>1, <2>2, <2>3 DEF ReadInv, ReadTypes, Located, Bounded, RequestsNeverRollBack
<1>4. CASE Finished \/ UNCHANGED vars
  <2>1. UNCHANGED <<name, pc, stage, position, upstream, served, floor, used, baseline>>
    BY <1>4 DEF Finished, vars, source
  <2>2. \A r \in Requests : Sources(r)' = Sources(r) /\ Loading(r)' = Loading(r)
    BY <2>1 DEF Sources, Loading
  <2> QED
    BY <2>1, <2>2 DEF ReadInv, ReadTypes, Located, Bounded, RequestsNeverRollBack
<1> QED BY <1>1, <1>2, <1>3, <1>4 DEF Next

\* Handler.convert: a request that begins when others have read a source works
\* from what they read or from something newer, however the requests overlap.
THEOREM RequestsAreMonotonic == Spec => []RequestsNeverRollBack
<1>1. ReadInv => RequestsNeverRollBack
  BY DEF ReadInv
<1> QED BY <1>1, InitRead, StepRead, PTL DEF Spec

--------------------------------------------------------------------------------
(* Completeness. *)

\* All sources of a request, in the order in which they are loaded.
All(r) == <<SourceOf[name[r]]>> \o GlobalPatches \o LocalPatches[name[r]]

\* How many of them come before those of the stage.
Offset(r) ==
    IF stage[r] = "source" THEN 0
    ELSE IF stage[r] = "global" THEN 1
    ELSE IF stage[r] = "local" THEN 1 + Len(GlobalPatches)
    ELSE 1 + Len(GlobalPatches) + Len(LocalPatches[name[r]])

\* What request r has read are the first n of all its sources.
ReadFirst(r, n) ==
    /\ n \in 0 .. Len(All(r)) /\ Len(used[r]) = n
    /\ \A i \in 1 .. n : used[r][i].key = All(r)[i]

\* A request that is under way has read what comes before its stage and its
\* position there, and one is answered with a document when it has read all.
Progressing(r) ==
    /\ pc[r] = "idle" => stage[r] = "source" /\ position[r] = 0
    /\ pc[r] \in {"convert", "loading", "encode"} =>
          /\ name[r] \in Subscriptions
          /\ (pc[r] = "encode") = (stage[r] = "encode")
          /\ stage[r] \in {"source", "encode"} => position[r] = 0
          /\ ReadFirst(r, Offset(r) + position[r])
    /\ response[r].status = 200 =>
          pc[r] = "done" /\ name[r] \in Subscriptions /\ ReadFirst(r, Len(All(r)))

Progress == \A r \in Requests : Progressing(r)

CompleteInv ==
    /\ ReadInv /\ Progress
    /\ DOMAIN response = Requests

\* Where the items of three lists are in their concatenation.
LEMMA Concatenated ==
    ASSUME NEW a \in Seq(Keys), NEW b \in Seq(Keys), NEW c \in Seq(Keys)
    PROVE  LET all == a \o b \o c
           IN  /\ all \in Seq(Keys) /\ Len(all) = Len(a) + Len(b) + Len(c)
               /\ \A i \in 1 .. Len(a) : all[i] = a[i]
               /\ \A i \in 1 .. Len(b) : all[Len(a) + i] = b[i]
               /\ \A i \in 1 .. Len(c) : all[Len(a) + Len(b) + i] = c[i]
<1> DEFINE ab == a \o b
<1>1. /\ ab \in Seq(Keys) /\ Len(ab) = Len(a) + Len(b)
      /\ \A i \in 1 .. Len(a) + Len(b) : ab[i] = IF i <= Len(a) THEN a[i] ELSE b[i - Len(a)]
  BY ConcatProperties
<1>2. Len(a) \in Nat /\ Len(b) \in Nat /\ Len(c) \in Nat
  OBVIOUS
<1>3. /\ \A i \in 1 .. Len(a) : ab[i] = a[i]
      /\ \A i \in 1 .. Len(b) : ab[Len(a) + i] = b[i]
  <2> HIDE DEF ab
  <2>1. ASSUME NEW i \in 1 .. Len(a) PROVE ab[i] = a[i]
    BY <1>1, <1>2
  <2>2. ASSUME NEW i \in 1 .. Len(b) PROVE ab[Len(a) + i] = b[i]
    <3>1. ~(Len(a) + i <= Len(a)) /\ Len(a) + i \in 1 .. Len(a) + Len(b) /\ (Len(a) + i) - Len(a) = i
      BY <1>2
    <3> QED BY <1>1, <3>1
  <2> QED BY <2>1, <2>2
<1> HIDE DEF ab
<1> DEFINE abc == ab \o c
<1>4. /\ abc \in Seq(Keys) /\ Len(abc) = Len(ab) + Len(c)
      /\ \A i \in 1 .. Len(ab) + Len(c) : abc[i] = IF i <= Len(ab) THEN ab[i] ELSE c[i - Len(ab)]
  <2>1. ab \in Seq(Keys)
    BY <1>1
  <2> QED BY <2>1, ConcatProperties
<1> HIDE DEF abc
<1>5. ASSUME NEW i \in 1 .. Len(a) PROVE abc[i] = a[i]
  <2>1. i \in 1 .. Len(ab) + Len(c) /\ i <= Len(ab)
    BY <1>1, <1>2
  <2> QED BY <1>3, <1>4, <2>1
<1>6. ASSUME NEW i \in 1 .. Len(b) PROVE abc[Len(a) + i] = b[i]
  <2>1. Len(a) + i \in 1 .. Len(ab) + Len(c) /\ Len(a) + i <= Len(ab)
    BY <1>1, <1>2
  <2> QED BY <1>3, <1>4, <2>1
<1>7. ASSUME NEW i \in 1 .. Len(c) PROVE abc[Len(a) + Len(b) + i] = c[i]
  <2>1. /\ Len(a) + Len(b) + i \in 1 .. Len(ab) + Len(c) /\ ~(Len(a) + Len(b) + i <= Len(ab))
        /\ (Len(a) + Len(b) + i) - Len(ab) = i
    BY <1>1, <1>2
  <2> QED BY <1>4, <2>1
<1> QED BY <1>1, <1>4, <1>5, <1>6, <1>7 DEF abc, ab

\* The source at the position of a stage is the next one of all.
LEMMA NextSource ==
    ASSUME NEW r \in Requests, ReadTypes, name[r] \in Subscriptions, stage[r] # "encode"
    PROVE  /\ All(r) \in Seq(Keys)
           /\ Len(All(r)) = 1 + Len(GlobalPatches) + Len(LocalPatches[name[r]])
           /\ Offset(r) \in Nat /\ Len(Sources(r)) \in Nat
           /\ Offset(r) + Len(Sources(r)) <= Len(All(r))
           /\ \A i \in 1 .. Len(Sources(r)) : All(r)[Offset(r) + i] = Sources(r)[i]
<1> DEFINE s == <<SourceOf[name[r]]>>
           g == GlobalPatches
           l == LocalPatches[name[r]]
<1>1. s \in Seq(Keys) /\ g \in Seq(Keys) /\ l \in Seq(Keys)
  BY ConfigAssumption
<1>2. Len(s) = 1 /\ Len(g) \in Nat /\ Len(l) \in Nat
  BY <1>1
<1>3. stage[r] \in {"source", "global", "local"}
  BY DEF ReadTypes
<1>4. /\ All(r) \in Seq(Keys) /\ Len(All(r)) = Len(s) + Len(g) + Len(l)
      /\ \A i \in 1 .. Len(s) : All(r)[i] = s[i]
      /\ \A i \in 1 .. Len(g) : All(r)[Len(s) + i] = g[i]
      /\ \A i \in 1 .. Len(l) : All(r)[Len(s) + Len(g) + i] = l[i]
  BY <1>1, Concatenated DEF All
<1> HIDE DEF s, g, l
<1> DEFINE At(n, list) ==
        /\ n \in Nat /\ Len(list) \in Nat /\ n + Len(list) <= Len(s) + Len(g) + Len(l)
        /\ \A i \in 1 .. Len(list) : All(r)[n + i] = list[i]
<1>5. At(0, s) /\ At(Len(s), g) /\ At(1 + Len(g), l)
  <2>1. \A i \in 1 .. Len(s) : 0 + i = i
    BY <1>2
  <2>2. At(0, s)
    BY <1>2, <1>4, <2>1
  <2>3. At(Len(s), g)
    BY <1>2, <1>4
  <2>4. At(1 + Len(g), l)
    BY <1>2, <1>4
  <2> QED BY <2>2, <2>3, <2>4
<1>6. At(Offset(r), Sources(r))
  <2>1. CASE stage[r] = "source"
    BY <1>5, <2>1 DEF Offset, Sources, s
  <2>2. CASE stage[r] = "global"
    BY <1>2, <1>5, <2>2 DEF Offset, Sources, g
  <2>3. CASE stage[r] = "local"
    BY <1>5, <2>3 DEF Offset, Sources, g, l
  <2> QED BY <1>3, <2>1, <2>2, <2>3
<1> QED BY <1>2, <1>4, <1>6 DEF g, l

\* At first no request is under way.
LEMMA InitComplete == Init => CompleteInv
<1>1. Init => ReadInv
  BY InitRead
<1>2. Init => Progress /\ DOMAIN response = Requests
  BY DEF Init, Progress, Progressing, NoAnswer, Answer
<1> QED BY <1>1, <1>2 DEF CompleteInv

\* What is not touched of a request progresses as before.
LEMMA FrameProgress ==
    ASSUME NEW q \in Requests, Progressing(q),
           name'[q] = name[q], pc'[q] = pc[q], stage'[q] = stage[q],
           position'[q] = position[q], used'[q] = used[q], response'[q] = response[q]
    PROVE  Progressing(q)'
<1>1. All(q)' = All(q) /\ Offset(q)' = Offset(q)
  BY DEF All, Offset
<1>2. (Offset(q) + position[q])' = Offset(q) + position[q]
  BY <1>1
<1>3. /\ ReadFirst(q, Offset(q) + position[q])' <=> ReadFirst(q, Offset(q) + position[q])
      /\ ReadFirst(q, Len(All(q)))' <=> ReadFirst(q, Len(All(q)))
  BY <1>1, <1>2 DEF ReadFirst
<1> QED BY <1>3 DEF Progressing

\* A request that is answered otherwise than with a document is over.
LEMMA RefusedProgress ==
    ASSUME NEW r \in Requests, CompleteInv, NEW code \in Nat \ {200},
           Respond(r, Answer(code, NoDocument))
    PROVE  Progressing(r)' /\ DOMAIN response' = Requests
<1>1. pc'[r] = "done" /\ response'[r] = Answer(code, NoDocument) /\ DOMAIN response' = Requests
  BY DEF Respond, CompleteInv, ReadInv, ReadTypes
<1>2. response'[r].status # 200
  BY <1>1 DEF Answer
<1> QED BY <1>1, <1>2 DEF Progressing

\* The handler's way from the request to the first load.
LEMMA RequestProgress ==
    ASSUME CompleteInv, NEW r \in Requests, NEW n \in Subscriptions \cup {UnknownName},
           NEW f \in Formats \cup {NoFormat}, Request(r, n, f)
    PROVE  Progressing(r)' /\ DOMAIN response' = Requests
<1>1. CASE Respond(r, Answer(404, NoDocument)) \/ Respond(r, Answer(400, NoDocument))
  BY <1>1, RefusedProgress
<1>2. CASE ~(Respond(r, Answer(404, NoDocument)) \/ Respond(r, Answer(400, NoDocument)))
  <2>1. /\ pc[r] = "idle" /\ n \in Subscriptions
        /\ pc' = [pc EXCEPT ![r] = "convert"] /\ name' = [name EXCEPT ![r] = n]
        /\ UNCHANGED <<stage, position, used, response>>
    BY <1>2 DEF Request, source
  <2>2. pc'[r] = "convert" /\ name'[r] = n
    BY <2>1 DEF CompleteInv, ReadInv, ReadTypes
  <2>3. stage'[r] = "source" /\ position'[r] = 0 /\ used'[r] = <<>> /\ response'[r].status # 200
    BY <2>1 DEF CompleteInv, Progress, Progressing, ReadInv, Located
  <2>4. All(r)' \in Seq(Keys)
    <3>1. /\ <<SourceOf[n]>> \in Seq(Keys) /\ GlobalPatches \in Seq(Keys)
          /\ LocalPatches[n] \in Seq(Keys)
      BY <2>1, ConfigAssumption
    <3> QED BY <2>2, <3>1, Concatenated DEF All
  <2>5. Offset(r)' + position'[r] = 0
    BY <2>3 DEF Offset
  <2>6. ReadFirst(r, 0)'
    BY <2>3, <2>4 DEF ReadFirst
  <2>7. DOMAIN response' = Requests
    BY <2>1 DEF CompleteInv
  <2> QED BY <2>1, <2>2, <2>3, <2>5, <2>6, <2>7 DEF Progressing
<1> QED BY <1>1, <1>2

\* A load that returns a content to decode has read the next source of all.
LEMMA LoadProgress ==
    ASSUME CompleteInv, NEW r \in Requests, LoadSource(r) \/ LoadPatch(r)
    PROVE  Progressing(r)' /\ DOMAIN response' = Requests
<1>1. CASE Respond(r, Answer(502, NoDocument))
  BY <1>1, RefusedProgress
<1>2. CASE ~Respond(r, Answer(502, NoDocument))
  <2>1. /\ pc[r] = "loading" /\ pc' = [pc EXCEPT ![r] = "convert"]
        /\ \E v \in 1 .. MaxVersion : used' = [used EXCEPT ![r] =
              Append(@, [stage |-> stage[r], key |-> Loading(r), ver |-> v])]
        /\ UNCHANGED <<name, response>>
        /\ \/ /\ stage[r] = "source" /\ stage' = [stage EXCEPT ![r] = "global"]
              /\ position' = position
           \/ /\ stage[r] # "source" /\ stage' = stage
              /\ position' = [position EXCEPT ![r] = position[r] + 1]
    BY <1>2 DEF LoadSource, LoadPatch, Loaded, Fail
  <2>2. /\ name[r] \in Subscriptions /\ stage[r] # "encode"
        /\ stage[r] = "source" => position[r] = 0
        /\ ReadFirst(r, Offset(r) + position[r])
        /\ position[r] + 1 \in 1 .. Len(Sources(r)) /\ response[r].status # 200
    BY <2>1 DEF CompleteInv, Progress, Progressing, ReadInv, Located
  <2>t. ReadTypes
    BY DEF CompleteInv, ReadInv
  <2>3. /\ All(r) \in Seq(Keys) /\ Offset(r) \in Nat /\ Len(Sources(r)) \in Nat
        /\ position[r] \in Nat
        /\ Offset(r) + Len(Sources(r)) <= Len(All(r))
        /\ All(r)[Offset(r) + (position[r] + 1)] = Loading(r)
    <3>1. position[r] \in Nat
      BY <2>t DEF ReadTypes
    <3>2. /\ All(r) \in Seq(Keys) /\ Offset(r) \in Nat /\ Len(Sources(r)) \in Nat
          /\ Offset(r) + Len(Sources(r)) <= Len(All(r))
          /\ \A i \in 1 .. Len(Sources(r)) : All(r)[Offset(r) + i] = Sources(r)[i]
      BY <2>2, <2>t, NextSource
    <3> QED BY <2>2, <3>1, <3>2 DEF Loading
  <2>n. PICK n \in Nat : n = Offset(r) + position[r]
    BY <2>3
  <2>4. n + 1 \in 0 .. Len(All(r)) /\ All(r)[n + 1] = Loading(r)
    <3>1. Len(All(r)) \in Nat /\ n + 1 = Offset(r) + (position[r] + 1)
      BY <2>3, <2>n
    <3> QED BY <2>2, <2>3, <3>1
  <2>5. UNCHANGED <<All(r), name[r], response[r]>>
    BY <2>1 DEF All
  <2>6. Offset(r)' + position'[r] = n + 1
    <3>1. CASE stage[r] = "source"
      <4>1. stage'[r] = "global" /\ position'[r] = 0 /\ position[r] = 0
        BY <2>1, <2>2, <3>1 DEF CompleteInv, ReadInv, ReadTypes
      <4> QED BY <2>n, <3>1, <4>1 DEF Offset
    <3>2. CASE stage[r] # "source"
      <4>1. stage'[r] = stage[r] /\ position'[r] = position[r] + 1
        BY <2>1, <3>2 DEF CompleteInv, ReadInv, ReadTypes
      <4>2. Offset(r)' = Offset(r)
        BY <2>1, <4>1 DEF Offset
      <4> QED BY <2>3, <2>n, <4>1, <4>2
    <3> QED BY <3>1, <3>2
  <2>7. /\ used[r] \in Seq(Read) /\ Len(used[r]) = n
        /\ \A i \in 1 .. n : used[r][i].key = All(r)[i]
    BY <2>2, <2>n, <2>t DEF ReadFirst, ReadTypes
  <2>8. ReadFirst(r, n + 1)'
    <3>1. PICK v \in 1 .. MaxVersion : used'[r] =
             Append(used[r], [stage |-> stage[r], key |-> Loading(r), ver |-> v])
      BY <2>1 DEF CompleteInv, ReadInv, ReadTypes
    <3>2. /\ Len(used'[r]) = n + 1
          /\ \A i \in 1 .. n : used'[r][i] = used[r][i]
          /\ used'[r][n + 1] = [stage |-> stage[r], key |-> Loading(r), ver |-> v]
      BY <2>7, <3>1
    <3>3. ASSUME NEW i \in 1 .. n + 1 PROVE used'[r][i].key = All(r)[i]
      <4>1. CASE i \in 1 .. n
        BY <2>7, <3>2, <4>1
      <4>2. CASE i = n + 1
        BY <2>4, <3>2, <4>2
      <4> QED BY <2>4, <4>1, <4>2
    <3> QED BY <2>4, <2>5, <3>2, <3>3 DEF ReadFirst
  <2>9. /\ pc'[r] = "convert" /\ stage'[r] # "encode" /\ stage'[r] # "source"
        /\ name'[r] \in Subscriptions /\ response'[r].status # 200
    BY <2>1, <2>2, <2>5 DEF CompleteInv, ReadInv, ReadTypes
  <2>10. DOMAIN response' = Requests
    BY <2>1 DEF CompleteInv
  <2> QED BY <2>6, <2>8, <2>9, <2>10 DEF Progressing
<1> QED BY <1>1, <1>2

\* A list that is applied was read to its end: the next one begins there.
LEMMA ApplyProgress ==
    ASSUME CompleteInv, NEW r \in Requests, Apply(r)
    PROVE  Progressing(r)' /\ DOMAIN response' = Requests
<1>1. CASE Respond(r, Answer(502, NoDocument))
  BY <1>1, RefusedProgress
<1>2. CASE ~Respond(r, Answer(502, NoDocument))
  <2>1. /\ pc[r] = "convert" /\ stage[r] # "source" /\ position[r] = Len(Sources(r))
        /\ position' = [position EXCEPT ![r] = 0]
        /\ stage' = [stage EXCEPT ![r] = IF stage[r] = "global" THEN "local" ELSE "encode"]
        /\ pc' = [pc EXCEPT ![r] = IF stage[r] = "global" THEN "convert" ELSE "encode"]
        /\ UNCHANGED <<name, used, response>>
    BY <1>2 DEF Apply, Fail, NextStage
  <2>2. /\ name[r] \in Subscriptions /\ stage[r] \in {"global", "local"}
        /\ ReadFirst(r, Offset(r) + position[r]) /\ response[r].status # 200
    BY <2>1 DEF CompleteInv, Progress, Progressing, ReadInv, ReadTypes
  <2>3. /\ position'[r] = 0 /\ stage'[r] = IF stage[r] = "global" THEN "local" ELSE "encode"
        /\ pc'[r] = IF stage[r] = "global" THEN "convert" ELSE "encode"
    BY <2>1 DEF CompleteInv, ReadInv, ReadTypes
  <2>4. UNCHANGED <<All(r), name[r], used[r], response[r]>>
    BY <2>1 DEF All
  <2>5. Len(GlobalPatches) \in Nat /\ Len(LocalPatches[name[r]]) \in Nat
    BY <2>2, ConfigAssumption
  <2>6. Offset(r)' + position'[r] = Offset(r) + position[r]
    <3>1. CASE stage[r] = "global"
      <4>1. stage'[r] = "local" /\ position'[r] = 0
        BY <2>3, <3>1
      <4>2. Offset(r)' = 1 + Len(GlobalPatches)
        BY <4>1 DEF Offset
      <4>3. Offset(r) = 1 /\ position[r] = Len(GlobalPatches)
        BY <2>1, <3>1 DEF Offset, Sources
      <4> QED BY <2>5, <4>1, <4>2, <4>3
    <3>2. CASE stage[r] = "local"
      <4>1. stage'[r] = "encode" /\ position'[r] = 0
        BY <2>3, <3>2
      <4>2. Offset(r)' = 1 + Len(GlobalPatches) + Len(LocalPatches[name[r]])
        BY <2>4, <4>1 DEF Offset
      <4>3. Offset(r) = 1 + Len(GlobalPatches) /\ position[r] = Len(LocalPatches[name[r]])
        BY <2>1, <3>2 DEF Offset, Sources
      <4> QED BY <2>5, <4>1, <4>2, <4>3
    <3> QED BY <2>2, <3>1, <3>2
  <2>7. ReadFirst(r, Offset(r) + position[r])'
    BY <2>2, <2>4, <2>6 DEF ReadFirst
  <2>8. DOMAIN response' = Requests
    BY <2>1 DEF CompleteInv
  <2> QED BY <2>2, <2>3, <2>4, <2>7, <2>8 DEF Progressing
<1> QED BY <1>1, <1>2

\* What is encoded was made from all sources.
LEMMA EncodeProgress ==
    ASSUME CompleteInv, NEW r \in Requests, Encode(r)
    PROVE  Progressing(r)' /\ DOMAIN response' = Requests
<1>1. CASE Respond(r, Answer(502, NoDocument))
  BY <1>1, RefusedProgress
<1>2. CASE ~Respond(r, Answer(502, NoDocument))
  <2>1. /\ pc[r] = "encode" /\ pc'[r] = "done" /\ UNCHANGED <<name, used>>
        /\ DOMAIN response' = Requests
    BY <1>2 DEF Encode, Fail, Respond, CompleteInv, ReadInv, ReadTypes
  <2>2. /\ name[r] \in Subscriptions /\ stage[r] = "encode" /\ position[r] = 0
        /\ ReadFirst(r, Offset(r) + position[r])
    BY <2>1 DEF CompleteInv, Progress, Progressing
  <2>3. Offset(r) + position[r] = Len(All(r))
    <3>1. /\ <<SourceOf[name[r]]>> \in Seq(Keys) /\ GlobalPatches \in Seq(Keys)
          /\ LocalPatches[name[r]] \in Seq(Keys) /\ Len(<<SourceOf[name[r]]>>) = 1
      BY <2>2, ConfigAssumption
    <3>2. Len(All(r)) = 1 + Len(GlobalPatches) + Len(LocalPatches[name[r]])
      BY <3>1, Concatenated DEF All
    <3> QED BY <2>2, <3>1, <3>2 DEF Offset
  <2>4. ReadFirst(r, Len(All(r)))'
    BY <2>1, <2>2, <2>3 DEF ReadFirst, All
  <2> QED BY <2>1, <2>2, <2>4 DEF Progressing
<1> QED BY <1>1, <1>2

\* Every step keeps every request's progress.
LEMMA StepComplete == CompleteInv /\ [Next]_vars => CompleteInv'
<1> SUFFICES ASSUME CompleteInv, [Next]_vars PROVE CompleteInv'
  OBVIOUS
<1>1. ReadInv'
  BY StepRead DEF CompleteInv
<1>2. ASSUME NEW r \in Requests, Progressing(r)', DOMAIN response' = Requests,
             \A q \in Requests \ {r} :
                /\ name'[q] = name[q] /\ pc'[q] = pc[q] /\ stage'[q] = stage[q]
                /\ position'[q] = position[q] /\ used'[q] = used[q]
                /\ response'[q] = response[q]
      PROVE  CompleteInv'
  <2>1. \A q \in Requests \ {r} : Progressing(q)'
    BY <1>2, FrameProgress DEF CompleteInv, Progress
  <2> QED BY <1>1, <1>2, <2>1 DEF CompleteInv, Progress
<1>3. ASSUME NEW r \in Requests, NEW n \in Subscriptions \cup {UnknownName},
             NEW f \in Formats \cup {NoFormat}, Request(r, n, f)
      PROVE  CompleteInv'
  <2>1. \A q \in Requests \ {r} :
           /\ name'[q] = name[q] /\ pc'[q] = pc[q] /\ stage'[q] = stage[q]
           /\ position'[q] = position[q] /\ used'[q] = used[q] /\ response'[q] = response[q]
    BY <1>3 DEF Request, Respond, CompleteInv, ReadInv, ReadTypes
  <2> QED BY <1>2, <1>3, <2>1, RequestProgress
<1>4. ASSUME NEW r \in Requests, LoadSource(r) \/ LoadPatch(r) PROVE CompleteInv'
  <2>1. \A q \in Requests \ {r} :
           /\ name'[q] = name[q] /\ pc'[q] = pc[q] /\ stage'[q] = stage[q]
           /\ position'[q] = position[q] /\ used'[q] = used[q] /\ response'[q] = response[q]
    <3>1. /\ UNCHANGED name
          /\ \E p : pc' = [pc EXCEPT ![r] = p]
          /\ stage' = stage \/ \E x : stage' = [stage EXCEPT ![r] = x]
          /\ position' = position \/ \E x : position' = [position EXCEPT ![r] = x]
          /\ \E x : used' = [used EXCEPT ![r] = x]
          /\ response' = response \/ \E x : response' = [response EXCEPT ![r] = x]
      <4>1. UNCHANGED name /\ \E x : used' = [used EXCEPT ![r] = x]
        BY <1>4 DEF LoadSource, LoadPatch, Loaded
      <4>2. CASE LoadSource(r)
        <5>1. UNCHANGED position
          BY <4>2 DEF LoadSource
        <5>2. /\ \E p : pc' = [pc EXCEPT ![r] = p]
              /\ stage' = stage \/ \E x : stage' = [stage EXCEPT ![r] = x]
              /\ response' = response \/ \E x : response' = [response EXCEPT ![r] = x]
          BY <4>2 DEF LoadSource, Fail, Respond
        <5> QED BY <4>1, <5>1, <5>2
      <4>3. CASE LoadPatch(r)
        BY <4>1, <4>3 DEF LoadPatch, Fail, Respond
      <4> QED BY <1>4, <4>2, <4>3
    <3> QED BY <3>1 DEF CompleteInv, ReadInv, ReadTypes
  <2> QED BY <1>2, <1>4, <2>1, LoadProgress
<1>5. ASSUME NEW r \in Requests, BeginLoad(r) PROVE CompleteInv'
  <2>1. /\ pc[r] = "convert" /\ pc' = [pc EXCEPT ![r] = "loading"]
        /\ UNCHANGED <<name, stage, position, used, response>>
    BY <1>5 DEF BeginLoad
  <2>2. pc'[r] = "loading" /\ \A q \in Requests \ {r} : pc'[q] = pc[q]
    BY <2>1 DEF CompleteInv, ReadInv, ReadTypes
  <2>3. Progressing(r)'
    BY <2>1, <2>2 DEF CompleteInv, Progress, Progressing, ReadFirst, Offset, All
  <2> QED BY <1>2, <2>1, <2>2, <2>3 DEF CompleteInv
<1>6. ASSUME NEW r \in Requests, LoadFails(r) \/ Apply(r) \/ Encode(r) PROVE CompleteInv'
  <2>1. \A q \in Requests \ {r} :
           /\ name'[q] = name[q] /\ pc'[q] = pc[q] /\ stage'[q] = stage[q]
           /\ position'[q] = position[q] /\ used'[q] = used[q] /\ response'[q] = response[q]
    BY <1>6 DEF LoadFails, Apply, Encode, Fail, Respond, CompleteInv, ReadInv, ReadTypes
  <2>2. Progressing(r)' /\ DOMAIN response' = Requests
    BY <1>6, RefusedProgress, ApplyProgress, EncodeProgress DEF LoadFails, Fail
  <2> QED BY <1>2, <2>1, <2>2
<1>7. ASSUME UNCHANGED <<name, pc, stage, position, used, response>> PROVE CompleteInv'
  BY <1>1, <1>7, FrameProgress DEF CompleteInv, Progress
<1>8. ASSUME NEW k \in Keys, SourceChanges(k) PROVE CompleteInv'
  BY <1>7, <1>8 DEF SourceChanges
<1>9. CASE Finished \/ UNCHANGED vars
  BY <1>7, <1>9 DEF Finished, vars
<1> QED BY <1>3, <1>4, <1>5, <1>6, <1>8, <1>9 DEF Next, Step

\* Handler.convert: a document is answered only when it was made from the
\* subscription and every patch of both lists, each read once and in order.
THEOREM AnswersAreComplete == Spec => []ReadsAreComplete
<1>1. CompleteInv => ReadsAreComplete
  <2> SUFFICES ASSUME CompleteInv, NEW r \in Requests, Converted(r)
               PROVE  [i \in 1 .. Len(used[r]) |-> used[r][i].key] = All(r)
    BY DEF ReadsAreComplete, All
  <2>1. name[r] \in Subscriptions /\ ReadFirst(r, Len(All(r)))
    BY DEF Converted, CompleteInv, Progress, Progressing
  <2>2. All(r) \in Seq(Keys)
    <3>1. /\ <<SourceOf[name[r]]>> \in Seq(Keys) /\ GlobalPatches \in Seq(Keys)
          /\ LocalPatches[name[r]] \in Seq(Keys)
      BY <2>1, ConfigAssumption
    <3> QED BY <3>1, Concatenated DEF All
  <2>3. All(r) = [i \in 1 .. Len(All(r)) |-> All(r)[i]]
    BY <2>2
  <2> QED BY <2>1, <2>3 DEF ReadFirst
<1> QED BY <1>1, InitComplete, StepComplete, PTL DEF Spec

--------------------------------------------------------------------------------
(* Meaning. *)

S == INSTANCE SequenceFacts WITH Of <- LAMBDA p, u : {}

ReadAt(s) == {u \in Read : u.stage = s}

LEMMA AtStageIsPicked ==
    ASSUME NEW reads \in Seq(Read), NEW s
    PROVE  AtStage(reads, s) = S!Picked(ReadAt(s), reads)
<1> DEFINE those == {u \in Range(reads) : u.stage = s}
<1>1. AtStage(reads, s) = S!Picked(those, reads)
  BY DEF AtStage, Selected, Picked, S!Picked, FoldLeft, S!FoldLeft, MapThenFoldSet,
         S!MapThenFoldSet, Max, S!Max
<1>2. S!IsList(reads) /\ S!Range(reads) = Range(reads) /\ Range(reads) \subseteq Read
  <2>1. S!IsList(reads)
    BY S!ListOf
  <2> QED BY <2>1 DEF S!Range, Range
<1>3. \A u \in S!Range(reads) : u \in those <=> u \in ReadAt(s)
  BY <1>2 DEF ReadAt
<1> HIDE DEF those
<1>4. S!Picked(those, reads) = S!Picked(ReadAt(s), reads)
  BY <1>2, <1>3, S!PickedSame
<1> QED BY <1>1, <1>4

Patches == {PatchOf[u.key][u.ver] : u \in Read}

LEMMA DecodedTypes ==
    ASSUME NEW reads \in Seq(Read)
    PROVE  Decoded(reads) \in Seq(Patches) /\ Len(Decoded(reads)) = Len(reads)
<1>1. Len(reads) \in Nat /\ \A i \in 1 .. Len(reads) : reads[i] \in Read
  OBVIOUS
<1> QED BY <1>1 DEF Decoded, Patches

LEMMA DecodedAppend ==
    ASSUME NEW reads \in Seq(Read), NEW u \in Read
    PROVE  Decoded(Append(reads, u)) = Append(Decoded(reads), PatchOf[u.key][u.ver])
<1> DEFINE n == Len(reads)
           more == Append(reads, u)
           c == PatchOf[u.key][u.ver]
<1>1. n \in Nat /\ \A i \in 1 .. n : reads[i] \in Read
  OBVIOUS
<1>2. Decoded(reads) \in Seq(Patches) /\ Len(Decoded(reads)) = n
  BY DecodedTypes
<1>3. Len(more) = n + 1 /\ more[n + 1] = u /\ \A i \in 1 .. n : more[i] = reads[i]
  OBVIOUS
<1>4. c \in Patches
  BY DEF Patches
<1> HIDE DEF more, Patches, c, n
<1>5. /\ Decoded(more) = [i \in 1 .. n + 1 |-> PatchOf[more[i].key][more[i].ver]]
      /\ Decoded(reads) = [i \in 1 .. n |-> PatchOf[reads[i].key][reads[i].ver]]
  BY <1>3 DEF Decoded, n
<1> DEFINE longer == Append(Decoded(reads), c)
<1>6. /\ longer \in Seq(Patches) /\ Len(longer) = n + 1 /\ longer[n + 1] = c
      /\ \A i \in 1 .. n : longer[i] = Decoded(reads)[i]
  BY <1>2, <1>4
<1> HIDE DEF longer
<1>7. ASSUME NEW i \in 1 .. n + 1 PROVE longer[i] = PatchOf[more[i].key][more[i].ver]
  <2>1. CASE i \in 1 .. n
    BY <1>3, <1>5, <1>6, <2>1
  <2>2. CASE i = n + 1
    <3>1. longer[i] = c /\ more[i] = u
      BY <1>3, <1>6, <2>2
    <3> QED BY <3>1 DEF c
  <2> QED BY <1>1, <2>1, <2>2
<1>8. longer = [i \in 1 .. n + 1 |-> longer[i]]
  BY <1>6
<1>9. longer = Decoded(more)
  BY <1>5, <1>7, <1>8
<1> QED BY <1>9 DEF longer, more, c

Stages == {"source", "global", "local"}

\* The document of a request under way is what the lists that were applied have made of
\* the source, and what is combined is what was read of the list that is being loaded.
Meaning(r) ==
    LET read == SourceRead(r)
        global == PatchesRead(r, "global")
        local == PatchesRead(r, "local")
    IN  /\ \A s \in Stages : Reads(r, s) \in Seq(Read)
        /\ pc[r] \in {"idle", "convert", "loading"} /\ stage[r] = "source" =>
              (\A s \in Stages : Reads(r, s) = <<>>) /\ combined[r] = EmptyPatch
        /\ pc[r] \in {"convert", "loading"} /\ stage[r] = "global" =>
              /\ Reads(r, "local") = <<>>
              /\ Describes(doc[r], read, <<>>, <<read>>)
              /\ Amounts(combined[r], global)
        /\ pc[r] \in {"convert", "loading"} /\ stage[r] = "local" =>
              /\ Describes(doc[r], read, global, global \o <<read>>)
              /\ Amounts(combined[r], local)
        /\ pc[r] = "encode" => Describes(doc[r], read, Redefining(r), Consulted(r))
        /\ response[r].status = 200 =>
              Describes(response[r].content, read, Redefining(r), Consulted(r))

MeaningInv ==
    /\ CompleteInv
    /\ DOMAIN doc = Requests /\ DOMAIN combined = Requests
    /\ \A r \in Requests : Meaning(r)

\* At first nothing has been read.
LEMMA InitMeaning == Init => MeaningInv
<1> SUFFICES ASSUME Init PROVE MeaningInv
  OBVIOUS
<1>1. CompleteInv /\ DOMAIN doc = Requests /\ DOMAIN combined = Requests
  BY InitComplete DEF Init
<1>2. ASSUME NEW r \in Requests PROVE Meaning(r)
  <2>1. /\ used[r] = <<>> /\ pc[r] = "idle" /\ stage[r] = "source" /\ combined[r] = EmptyPatch
        /\ response[r].status # 200
    <3>1. /\ used = [q \in Requests |-> <<>>] /\ pc = [q \in Requests |-> "idle"]
          /\ stage = [q \in Requests |-> "source"]
          /\ combined = [q \in Requests |-> EmptyPatch]
          /\ response = [q \in Requests |-> NoAnswer]
      BY DEF Init
    <3> QED BY <3>1 DEF NoAnswer, Answer
  <2>2. \A s : Reads(r, s) = <<>>
    <3>1. <<>> \in Seq(Read)
      OBVIOUS
    <3> QED BY <2>1, <3>1, AtStageIsPicked, S!PickedEmpty DEF Reads
  <2>3. \A s \in Stages : Reads(r, s) \in Seq(Read)
    <3>1. <<>> \in Seq(Read)
      OBVIOUS
    <3> QED BY <2>2, <3>1
  <2> QED BY <2>1, <2>2, <2>3 DEF Meaning
<1> QED BY <1>1, <1>2 DEF MeaningInv

\* What a step leaves of a request means what it did.
LEMMA SameReads ==
    ASSUME NEW q, used'[q] = used[q]
    PROVE  /\ \A s : Reads(q, s)' = Reads(q, s) /\ PatchesRead(q, s)' = PatchesRead(q, s)
           /\ SourceRead(q)' = SourceRead(q)
           /\ Redefining(q)' = Redefining(q) /\ Consulted(q)' = Consulted(q)
BY DEF PatchesRead, SourceRead, Reads, Redefining, Consulted

LEMMA FrameMeaning ==
    ASSUME NEW q \in Requests, Meaning(q),
           used'[q] = used[q], pc'[q] = pc[q], stage'[q] = stage[q], doc'[q] = doc[q],
           combined'[q] = combined[q], response'[q] = response[q]
    PROVE  Meaning(q)'
<1>1. /\ \A s : Reads(q, s)' = Reads(q, s) /\ PatchesRead(q, s)' = PatchesRead(q, s)
      /\ SourceRead(q)' = SourceRead(q)
      /\ Redefining(q)' = Redefining(q) /\ Consulted(q)' = Consulted(q)
  BY SameReads
<1> QED BY <1>1 DEF Meaning

\* One more read is the last of its stage.
LEMMA OneMoreRead ==
    ASSUME NEW r \in Requests, ReadTypes, NEW u \in Read, used'[r] = Append(used[r], u),
           \A s \in Stages : Reads(r, s) \in Seq(Read)
    PROVE  \A s \in Stages :
              /\ Reads(r, s)' = IF u.stage = s THEN Append(Reads(r, s), u) ELSE Reads(r, s)
              /\ PatchesRead(r, s)' =
                    IF u.stage = s THEN Append(PatchesRead(r, s), PatchOf[u.key][u.ver])
                    ELSE PatchesRead(r, s)
<1> SUFFICES ASSUME NEW s \in Stages
             PROVE  /\ Reads(r, s)' = IF u.stage = s THEN Append(Reads(r, s), u) ELSE Reads(r, s)
                    /\ PatchesRead(r, s)' =
                          IF u.stage = s THEN Append(PatchesRead(r, s), PatchOf[u.key][u.ver])
                          ELSE PatchesRead(r, s)
  OBVIOUS
<1>1. used[r] \in Seq(Read)
  BY DEF ReadTypes
<1>2. AtStage(Append(used[r], u), s) =
         IF u.stage = s THEN Append(AtStage(used[r], s), u) ELSE AtStage(used[r], s)
  <2>1. S!Picked(ReadAt(s), Append(used[r], u)) =
           IF u \in ReadAt(s) THEN Append(S!Picked(ReadAt(s), used[r]), u)
           ELSE S!Picked(ReadAt(s), used[r])
    BY <1>1, S!PickedAppend
  <2> DEFINE more == Append(used[r], u)
             reads == used[r]
  <2>2. reads \in Seq(Read) /\ more \in Seq(Read)
    BY <1>1
  <2> HIDE DEF more, reads
  <2>3. AtStage(reads, s) = S!Picked(ReadAt(s), reads) /\ AtStage(more, s) = S!Picked(ReadAt(s), more)
    BY <2>2, AtStageIsPicked
  <2>4. u \in ReadAt(s) <=> u.stage = s
    BY DEF ReadAt
  <2> QED BY <2>1, <2>3, <2>4 DEF more, reads
<1>3. Reads(r, s)' = IF u.stage = s THEN Append(Reads(r, s), u) ELSE Reads(r, s)
  BY <1>2 DEF Reads
<1>4. Decoded(Append(Reads(r, s), u)) = Append(Decoded(Reads(r, s)), PatchOf[u.key][u.ver])
  BY DecodedAppend
<1>5. PatchesRead(r, s)' = Decoded(Reads(r, s)')
  BY DEF PatchesRead
<1> QED BY <1>3, <1>4, <1>5 DEF PatchesRead

\* A request that is answered otherwise than with a document means nothing.
LEMMA RefusedMeaning ==
    ASSUME MeaningInv, NEW r \in Requests, NEW code \in Nat \ {200},
           Respond(r, Answer(code, NoDocument)), \A s \in Stages : Reads(r, s)' \in Seq(Read)
    PROVE  Meaning(r)'
<1>1. pc'[r] = "done" /\ response'[r].status # 200
  BY DEF Respond, Answer, MeaningInv, CompleteInv, ReadInv, ReadTypes
<1> QED BY <1>1 DEF Meaning

\* Before the first load nothing has been read.
LEMMA RequestMeaning ==
    ASSUME MeaningInv, NEW r \in Requests, NEW n \in Subscriptions \cup {UnknownName},
           NEW f \in Formats \cup {NoFormat}, Request(r, n, f)
    PROVE  Meaning(r)'
<1>m. Meaning(r) /\ Progressing(r)
  BY DEF MeaningInv, CompleteInv, Progress
<1>1. pc[r] = "idle" /\ UNCHANGED <<stage, used>>
  BY DEF Request
<1>2. \A s \in Stages : Reads(r, s)' = Reads(r, s) /\ Reads(r, s)' \in Seq(Read)
  BY <1>m, <1>1 DEF Meaning, Reads
<1>3. CASE Respond(r, Answer(404, NoDocument)) \/ Respond(r, Answer(400, NoDocument))
  BY <1>2, <1>3, RefusedMeaning
<1>4. CASE ~(Respond(r, Answer(404, NoDocument)) \/ Respond(r, Answer(400, NoDocument)))
  <2>1. pc' = [pc EXCEPT ![r] = "convert"] /\ UNCHANGED <<doc, combined, response>>
    BY <1>4 DEF Request
  <2>2. pc'[r] = "convert" /\ stage'[r] = "source" /\ combined'[r] = combined[r]
    BY <1>m, <1>1, <2>1 DEF Progressing, MeaningInv, CompleteInv, ReadInv, ReadTypes
  <2>3. (\A s \in Stages : Reads(r, s)' = <<>>) /\ combined'[r] = EmptyPatch
    <3>1. (\A s \in Stages : Reads(r, s) = <<>>) /\ combined[r] = EmptyPatch
      BY <1>m, <1>1 DEF Meaning, Progressing
    <3> QED BY <1>2, <2>2, <3>1
  <2>4. response'[r].status # 200
    BY <1>m, <1>1, <2>1 DEF Progressing
  <2> QED BY <1>2, <2>2, <2>3, <2>4 DEF Meaning
<1> QED BY <1>3, <1>4

\* The source is what the document is at first.
LEMMA SourceMeaning ==
    ASSUME MeaningInv, NEW r \in Requests, LoadSource(r)
    PROVE  Meaning(r)'
<1>m. Meaning(r) /\ Progressing(r) /\ ReadTypes /\ Located
  BY DEF MeaningInv, CompleteInv, Progress, ReadInv
<1>1. PICK v \in 1 .. MaxVersion :
         /\ Loaded(r, v)
         /\ LET content == DocumentOf[Loading(r)][v]
            IN  IF content = Undecodable
                THEN Fail(r) /\ UNCHANGED stage
                ELSE /\ doc' = [doc EXCEPT ![r] = content]
                     /\ stage' = [stage EXCEPT ![r] = "global"]
                     /\ pc' = [pc EXCEPT ![r] = "convert"]
                     /\ UNCHANGED <<combined, response>>
  BY DEF LoadSource
<1> DEFINE k == Loading(r)
           u == [stage |-> "source", key |-> k, ver |-> v]
<1>2. pc[r] = "loading" /\ stage[r] = "source" /\ used' = [used EXCEPT ![r] = Append(used[r], u)]
  BY <1>1 DEF Loaded, LoadSource
<1>3. k \in Keys
  BY <1>m, <1>2, SourcesAreKeys DEF Located
<1>4. u \in Read /\ u.stage = "source" /\ u.key = k /\ u.ver = v
  BY <1>3 DEF Read
<1>5. used'[r] = Append(used[r], u)
  BY <1>m, <1>2 DEF ReadTypes
<1> HIDE DEF u, k
<1>6. /\ \A s \in Stages : Reads(r, s) = <<>> /\ Reads(r, s) \in Seq(Read)
      /\ combined[r] = EmptyPatch
  BY <1>m, <1>2 DEF Meaning
<1>7. \A s \in Stages : Reads(r, s)' = IF s = "source" THEN <<u>> ELSE <<>>
  <2>1. \A s \in Stages :
           Reads(r, s)' = IF u.stage = s THEN Append(Reads(r, s), u) ELSE Reads(r, s)
    BY <1>m, <1>4, <1>5, <1>6, OneMoreRead
  <2>2. Append(<<>>, u) = <<u>>
    OBVIOUS
  <2> QED BY <1>4, <1>6, <2>1, <2>2
<1>8. \A s \in Stages : Reads(r, s)' \in Seq(Read)
  <2>1. <<u>> \in Seq(Read) /\ <<>> \in Seq(Read)
    BY <1>4
  <2> QED BY <1>7, <2>1
<1>9. CASE DocumentOf[k][v] = Undecodable
  BY <1>1, <1>8, <1>9, RefusedMeaning DEF Fail, k
<1>10. CASE DocumentOf[k][v] # Undecodable
  <2>1. /\ doc' = [doc EXCEPT ![r] = DocumentOf[k][v]] /\ stage' = [stage EXCEPT ![r] = "global"]
        /\ pc' = [pc EXCEPT ![r] = "convert"] /\ UNCHANGED <<combined, response>>
    BY <1>1, <1>10 DEF k
  <2>2. /\ doc'[r] = DocumentOf[k][v] /\ stage'[r] = "global" /\ pc'[r] = "convert"
        /\ combined'[r] = EmptyPatch /\ response'[r].status # 200
    BY <1>m, <1>2, <1>6, <2>1 DEF Progressing, MeaningInv, ReadTypes
  <2>3. SourceRead(r)' = DocumentOf[k][v]
    <3>1. Reads(r, "source")' = <<u>> /\ <<u>>[1] = u
      BY <1>7 DEF Stages
    <3> QED BY <1>4, <3>1 DEF SourceRead
  <2>4. IsDocument(DocumentOf[k][v])
    BY <1>3, <1>10, ContentAssumption
  <2>5. Describes(doc[r], SourceRead(r), <<>>, <<SourceRead(r)>>)'
    BY <2>2, <2>3, <2>4, NothingApplied
  <2>6. Reads(r, "local")' = <<>> /\ PatchesRead(r, "global")' = <<>>
    <3>1. Reads(r, "local")' = <<>> /\ Reads(r, "global")' = <<>>
      BY <1>7 DEF Stages
    <3>2. Decoded(<<>>) = <<>>
      BY DEF Decoded
    <3> QED BY <3>1, <3>2 DEF PatchesRead
  <2>7. Amounts(combined[r], PatchesRead(r, "global"))'
    BY <2>2, <2>6, NothingToCombine
  <2> QED BY <1>8, <2>2, <2>5, <2>6, <2>7 DEF Meaning
<1> QED BY <1>9, <1>10

\* A patch that was read is combined with those before it.
LEMMA PatchMeaning ==
    ASSUME MeaningInv, NEW r \in Requests, LoadPatch(r)
    PROVE  Meaning(r)'
<1>m. Meaning(r) /\ Progressing(r) /\ ReadTypes /\ Located
  BY DEF MeaningInv, CompleteInv, Progress, ReadInv
<1>1. PICK v \in 1 .. MaxVersion :
         /\ Loaded(r, v)
         /\ LET content == PatchOf[Loading(r)][v]
            IN  IF content = Undecodable
                THEN Fail(r) /\ UNCHANGED position
                ELSE /\ combined' = [combined EXCEPT ![r] = Combine(@, content)]
                     /\ position' = [position EXCEPT ![r] = @ + 1]
                     /\ pc' = [pc EXCEPT ![r] = "convert"]
                     /\ UNCHANGED <<doc, response>>
  BY DEF LoadPatch
<1> DEFINE k == Loading(r)
           at == stage[r]
           u == [stage |-> at, key |-> k, ver |-> v]
           c == PatchOf[k][v]
<1>2. pc[r] = "loading" /\ used' = [used EXCEPT ![r] = Append(used[r], u)] /\ stage' = stage
  BY <1>1 DEF Loaded, LoadPatch
<1>3. at \in {"global", "local"}
  BY <1>m, <1>2 DEF LoadPatch, Progressing, ReadTypes
<1>4. k \in Keys
  BY <1>m, <1>2, SourcesAreKeys DEF Located
<1>5. u \in Read /\ u.stage = at /\ u.key = k /\ u.ver = v
  BY <1>3, <1>4 DEF Read
<1>6. used'[r] = Append(used[r], u)
  BY <1>m, <1>2 DEF ReadTypes
<1> HIDE DEF u, k, at, c
<1>7. \A s \in Stages : Reads(r, s) \in Seq(Read)
  BY <1>m DEF Meaning
<1>8. \A s \in Stages :
         /\ Reads(r, s)' = IF at = s THEN Append(Reads(r, s), u) ELSE Reads(r, s)
         /\ PatchesRead(r, s)' =
               IF at = s THEN Append(PatchesRead(r, s), c) ELSE PatchesRead(r, s)
  BY <1>m, <1>5, <1>6, <1>7, OneMoreRead DEF c
<1>9. \A s \in Stages : Reads(r, s)' \in Seq(Read)
  BY <1>5, <1>7, <1>8
<1>10. CASE c = Undecodable
  BY <1>1, <1>9, <1>10, RefusedMeaning DEF Fail, k, c
<1>11. CASE c # Undecodable
  <2>1. /\ combined' = [combined EXCEPT ![r] = Combine(combined[r], c)]
        /\ pc' = [pc EXCEPT ![r] = "convert"] /\ UNCHANGED <<doc, response>>
    BY <1>1, <1>11 DEF k, c
  <2>2. /\ doc'[r] = doc[r] /\ stage'[r] = at /\ pc'[r] = "convert"
        /\ combined'[r] = Combine(combined[r], c) /\ response'[r].status # 200
    BY <1>m, <1>2, <2>1 DEF Progressing, MeaningInv, ReadTypes, at
  <2>3. IsPatch(c)
    BY <1>4, <1>11, ContentAssumption DEF c
  <2>4. SourceRead(r)' = SourceRead(r)
    <3>1. Reads(r, "source")' = Reads(r, "source")
      BY <1>3, <1>8 DEF Stages
    <3> QED BY <3>1 DEF SourceRead
  <2>5. \A s \in Stages : PatchesRead(r, s) \in Seq(Patches)
    BY <1>7, DecodedTypes DEF PatchesRead
  <2>6. CASE at = "global"
    <3>1. /\ Reads(r, "local") = <<>>
          /\ Describes(doc[r], SourceRead(r), <<>>, <<SourceRead(r)>>)
          /\ Amounts(combined[r], PatchesRead(r, "global"))
      BY <1>m, <1>2, <2>6 DEF Meaning, at
    <3>2. Reads(r, "local")' = <<>> /\ PatchesRead(r, "global")' = Append(PatchesRead(r, "global"), c)
      BY <1>8, <2>6, <3>1 DEF Stages
    <3>3. Amounts(Combine(combined[r], c), Append(PatchesRead(r, "global"), c))
      BY <2>3, <2>5, <3>1, Combining DEF Stages
    <3>4. Amounts(combined[r], PatchesRead(r, "global"))'
      BY <2>2, <3>2, <3>3
    <3>5. Describes(doc[r], SourceRead(r), <<>>, <<SourceRead(r)>>)'
      BY <2>2, <2>4, <3>1
    <3> QED BY <1>9, <2>2, <2>6, <3>2, <3>4, <3>5 DEF Meaning
  <2>7. CASE at = "local"
    <3>1. /\ Describes(doc[r], SourceRead(r), PatchesRead(r, "global"),
                       PatchesRead(r, "global") \o <<SourceRead(r)>>)
          /\ Amounts(combined[r], PatchesRead(r, "local"))
      BY <1>m, <1>2, <2>7 DEF Meaning, at
    <3>2. /\ PatchesRead(r, "global")' = PatchesRead(r, "global")
          /\ PatchesRead(r, "local")' = Append(PatchesRead(r, "local"), c)
      BY <1>8, <2>7 DEF Stages
    <3>3. Amounts(Combine(combined[r], c), Append(PatchesRead(r, "local"), c))
      BY <2>3, <2>5, <3>1, Combining DEF Stages
    <3>4. Amounts(combined[r], PatchesRead(r, "local"))'
      BY <2>2, <3>2, <3>3
    <3>5. Describes(doc[r], SourceRead(r), PatchesRead(r, "global"),
                    PatchesRead(r, "global") \o <<SourceRead(r)>>)'
      BY <2>2, <2>4, <3>1, <3>2
    <3> QED BY <1>9, <2>2, <2>7, <3>4, <3>5 DEF Meaning
  <2> QED BY <1>3, <2>6, <2>7
<1> QED BY <1>10, <1>11

\* A list that is applied becomes part of what the document means.
LEMMA ApplyMeaning ==
    ASSUME MeaningInv, NEW r \in Requests, Apply(r)
    PROVE  Meaning(r)'
<1> DEFINE read == SourceRead(r)
           global == PatchesRead(r, "global")
           local == PatchesRead(r, "local")
<1>m. Meaning(r) /\ Progressing(r) /\ ReadTypes
  BY DEF MeaningInv, CompleteInv, Progress, ReadInv
<1>1. pc[r] = "convert" /\ stage[r] \in {"global", "local"} /\ UNCHANGED used
  BY <1>m DEF Apply, Progressing, ReadTypes
<1>2. /\ \A s : Reads(r, s)' = Reads(r, s) /\ PatchesRead(r, s)' = PatchesRead(r, s)
      /\ SourceRead(r)' = SourceRead(r)
      /\ Redefining(r)' = Redefining(r) /\ Consulted(r)' = Consulted(r)
  BY <1>1, SameReads
<1>3. \A s \in Stages : Reads(r, s) \in Seq(Read) /\ Reads(r, s)' \in Seq(Read)
  BY <1>m, <1>2 DEF Meaning
<1>4. CASE ~Applicable(doc[r], combined[r])
  BY <1>3, <1>4, RefusedMeaning DEF Apply, Fail
<1>5. CASE Applicable(doc[r], combined[r])
  <2>1. /\ doc' = [doc EXCEPT ![r] = Applied(doc[r], combined[r])]
        /\ combined' = [combined EXCEPT ![r] = EmptyPatch]
        /\ stage' = [stage EXCEPT ![r] = IF stage[r] = "global" THEN "local" ELSE "encode"]
        /\ pc' = [pc EXCEPT ![r] = IF stage[r] = "global" THEN "convert" ELSE "encode"]
        /\ UNCHANGED response
    BY <1>5 DEF Apply, NextStage
  <2>2. /\ doc'[r] = Applied(doc[r], combined[r]) /\ combined'[r] = EmptyPatch
        /\ stage'[r] = IF stage[r] = "global" THEN "local" ELSE "encode"
        /\ pc'[r] = IF stage[r] = "global" THEN "convert" ELSE "encode"
        /\ response'[r].status # 200
    BY <1>m, <1>1, <2>1 DEF Progressing, MeaningInv, ReadTypes
  <2> DEFINE T == Patches \cup {read}
  <2>3. /\ global \in Seq(T) /\ local \in Seq(T) /\ <<read>> \in Seq(T) /\ <<>> \in Seq(T)
        /\ global \o <<read>> \in Seq(T)
    <3>1. global \in Seq(Patches) /\ local \in Seq(Patches)
      <4>1. \A s \in Stages : PatchesRead(r, s) \in Seq(Patches)
        BY <1>3, DecodedTypes DEF PatchesRead
      <4> QED BY <4>1 DEF Stages
    <3> HIDE DEF global, local, read
    <3> QED BY <3>1
  <2> HIDE DEF T
  <2>4. CASE stage[r] = "global"
    <3>1. /\ Reads(r, "local") = <<>>
          /\ Describes(doc[r], read, <<>>, <<read>>)
          /\ Amounts(combined[r], global)
      BY <1>m, <1>1, <2>4 DEF Meaning
    <3>2. Describes(Applied(doc[r], combined[r]), read, <<>> \o global, global \o <<read>>)
      <4> HIDE DEF global, read
      <4> QED BY <1>5, <2>3, <3>1, Applying
    <3>3. <<>> \o global = global
      BY <2>3, ConcatEmptySeq
    <3>4. local = <<>>
      BY <3>1 DEF PatchesRead, Decoded
    <3>5. Amounts(EmptyPatch, local)
      BY <3>4, NothingToCombine
    <3>6. pc'[r] = "convert" /\ stage'[r] = "local"
      BY <2>2, <2>4
    <3>7. Describes(doc[r], SourceRead(r), PatchesRead(r, "global"),
                    PatchesRead(r, "global") \o <<SourceRead(r)>>)'
      BY <1>2, <2>2, <3>2, <3>3
    <3>8. Amounts(combined[r], PatchesRead(r, "local"))'
      BY <1>2, <2>2, <3>5
    <3> QED BY <1>3, <2>2, <3>6, <3>7, <3>8 DEF Meaning
  <2>5. CASE stage[r] = "local"
    <3>1. /\ Describes(doc[r], read, global, global \o <<read>>)
          /\ Amounts(combined[r], local)
      BY <1>m, <1>1, <2>5 DEF Meaning
    <3>2. Describes(Applied(doc[r], combined[r]), read, global \o local,
                    local \o (global \o <<read>>))
      <4> DEFINE first == global \o <<read>>
      <4> HIDE DEF global, local, read, first
      <4>1. first \in Seq(T) /\ Describes(doc[r], read, global, first)
        BY <2>3, <3>1 DEF first
      <4>2. Describes(Applied(doc[r], combined[r]), read, global \o local, local \o first)
        BY <1>5, <2>3, <3>1, <4>1, Applying
      <4> QED BY <4>2 DEF first
    <3>3. pc'[r] = "encode" /\ stage'[r] = "encode"
      BY <2>2, <2>5
    <3>4. Describes(doc[r], SourceRead(r), Redefining(r), Consulted(r))'
      BY <1>2, <2>2, <3>2 DEF Redefining, Consulted
    <3> QED BY <1>3, <2>2, <3>3, <3>4 DEF Meaning
  <2> QED BY <1>1, <2>4, <2>5
<1> QED BY <1>4, <1>5

\* What is answered is the document that was encoded.
LEMMA EncodeMeaning ==
    ASSUME MeaningInv, NEW r \in Requests, Encode(r)
    PROVE  Meaning(r)'
<1>m. Meaning(r) /\ Progressing(r) /\ ReadTypes /\ DOMAIN response = Requests
  BY DEF MeaningInv, CompleteInv, Progress, ReadInv
<1>1. pc[r] = "encode" /\ UNCHANGED used
  BY DEF Encode
<1>2. /\ \A s : Reads(r, s)' = Reads(r, s)
      /\ SourceRead(r)' = SourceRead(r)
      /\ Redefining(r)' = Redefining(r) /\ Consulted(r)' = Consulted(r)
  BY <1>1, SameReads
<1>3. \A s \in Stages : Reads(r, s)' \in Seq(Read)
  BY <1>m, <1>2 DEF Meaning
<1>4. CASE Respond(r, Answer(502, NoDocument))
  BY <1>3, <1>4, RefusedMeaning
<1>5. CASE Respond(r, Answer(200, doc[r]))
  <2>1. pc'[r] = "done" /\ response'[r].content = doc[r]
    BY <1>m, <1>5 DEF Respond, Answer, ReadTypes
  <2>2. Describes(doc[r], SourceRead(r), Redefining(r), Consulted(r))
    BY <1>m, <1>1 DEF Meaning
  <2>3. Describes(response[r].content, SourceRead(r), Redefining(r), Consulted(r))'
    BY <1>2, <2>1, <2>2
  <2> QED BY <1>3, <2>1, <2>3 DEF Meaning
<1> QED BY <1>4, <1>5 DEF Encode, Fail

\* Every step keeps what every request means.
LEMMA StepMeaning == MeaningInv /\ [Next]_vars => MeaningInv'
<1> SUFFICES ASSUME MeaningInv, [Next]_vars PROVE MeaningInv'
  OBVIOUS
<1>c. CompleteInv'
  BY StepComplete DEF MeaningInv
<1>d. DOMAIN doc' = Requests /\ DOMAIN combined' = Requests
  <2>1. /\ doc' = doc \/ \E r, x : doc' = [doc EXCEPT ![r] = x]
        /\ combined' = combined \/ \E r, x : combined' = [combined EXCEPT ![r] = x]
    <3>1. ASSUME NEW r \in Requests, Step(r)
          PROVE  /\ doc' = doc \/ \E x : doc' = [doc EXCEPT ![r] = x]
                 /\ combined' = combined \/ \E x : combined' = [combined EXCEPT ![r] = x]
      BY <3>1 DEF Step, BeginLoad, LoadSource, LoadPatch, LoadFails, Apply, Encode, Fail, Respond
    <3>2. ASSUME NEW r \in Requests, NEW n \in Subscriptions \cup {UnknownName},
                 NEW f \in Formats \cup {NoFormat}, Request(r, n, f)
          PROVE  /\ doc' = doc \/ \E x : doc' = [doc EXCEPT ![r] = x]
                 /\ combined' = combined \/ \E x : combined' = [combined EXCEPT ![r] = x]
      BY <3>2 DEF Request, Respond
    <3>3. CASE (\E k \in Keys : SourceChanges(k)) \/ Finished \/ UNCHANGED vars
      BY <3>3 DEF SourceChanges, Finished, vars
    <3> QED BY <3>1, <3>2, <3>3 DEF Next
  <2> QED BY <2>1 DEF MeaningInv
<1>1. ASSUME NEW r \in Requests, Meaning(r)',
             \A q \in Requests \ {r} :
                /\ pc'[q] = pc[q] /\ stage'[q] = stage[q] /\ used'[q] = used[q]
                /\ doc'[q] = doc[q] /\ combined'[q] = combined[q] /\ response'[q] = response[q]
      PROVE  MeaningInv'
  <2>1. \A q \in Requests \ {r} : Meaning(q)'
    BY <1>1, FrameMeaning DEF MeaningInv
  <2> QED BY <1>c, <1>d, <1>1, <2>1 DEF MeaningInv
<1>2. ASSUME NEW r \in Requests, Step(r) PROVE MeaningInv'
  <2>1. Meaning(r)'
    <3>1. CASE BeginLoad(r)
      <4>1. /\ pc[r] = "convert" /\ pc'[r] = "loading"
            /\ UNCHANGED <<stage, used, doc, combined, response>>
        BY <3>1 DEF BeginLoad, MeaningInv, CompleteInv, ReadInv, ReadTypes
      <4>2. /\ \A s : Reads(r, s)' = Reads(r, s) /\ PatchesRead(r, s)' = PatchesRead(r, s)
            /\ SourceRead(r)' = SourceRead(r)
            /\ Redefining(r)' = Redefining(r) /\ Consulted(r)' = Consulted(r)
        BY <4>1, SameReads
      <4>3. Meaning(r)
        BY DEF MeaningInv
      <4> QED BY <4>1, <4>2, <4>3 DEF Meaning
    <3>2. CASE LoadFails(r)
      <4>1. Respond(r, Answer(502, NoDocument)) /\ UNCHANGED used
        BY <3>2 DEF LoadFails, Fail
      <4>2. \A s \in Stages : Reads(r, s)' \in Seq(Read)
        BY <4>1, SameReads DEF MeaningInv, Meaning
      <4> QED BY <4>1, <4>2, RefusedMeaning
    <3> QED BY <1>2, <3>1, <3>2, SourceMeaning, PatchMeaning, ApplyMeaning, EncodeMeaning DEF Step
  <2>2. \A q \in Requests \ {r} :
           /\ pc'[q] = pc[q] /\ stage'[q] = stage[q] /\ used'[q] = used[q]
           /\ doc'[q] = doc[q] /\ combined'[q] = combined[q] /\ response'[q] = response[q]
    <3> SUFFICES ASSUME NEW q \in Requests \ {r}
                 PROVE  /\ pc'[q] = pc[q] /\ stage'[q] = stage[q] /\ used'[q] = used[q]
                        /\ doc'[q] = doc[q] /\ combined'[q] = combined[q]
                        /\ response'[q] = response[q]
      OBVIOUS
    <3>t. /\ DOMAIN pc = Requests /\ DOMAIN stage = Requests /\ DOMAIN used = Requests
          /\ DOMAIN doc = Requests /\ DOMAIN combined = Requests /\ DOMAIN response = Requests
      BY DEF MeaningInv, CompleteInv, ReadInv, ReadTypes
    <3>1. CASE BeginLoad(r)
      BY <3>t, <3>1 DEF BeginLoad
    <3>2. CASE LoadFails(r)
      BY <3>t, <3>2 DEF LoadFails, Fail, Respond
    <3>3. CASE LoadSource(r)
      BY <3>t, <3>3 DEF LoadSource, Loaded, Fail, Respond
    <3>4. CASE LoadPatch(r)
      BY <3>t, <3>4 DEF LoadPatch, Loaded, Fail, Respond
    <3>5. CASE Apply(r)
      BY <3>t, <3>5 DEF Apply, Fail, Respond
    <3>6. CASE Encode(r)
      BY <3>t, <3>6 DEF Encode, Fail, Respond
    <3> QED BY <1>2, <3>1, <3>2, <3>3, <3>4, <3>5, <3>6 DEF Step
  <2> QED BY <1>1, <2>1, <2>2
<1>3. ASSUME NEW r \in Requests, NEW n \in Subscriptions \cup {UnknownName},
             NEW f \in Formats \cup {NoFormat}, Request(r, n, f)
      PROVE  MeaningInv'
  <2>1. \A q \in Requests \ {r} :
           /\ pc'[q] = pc[q] /\ stage'[q] = stage[q] /\ used'[q] = used[q]
           /\ doc'[q] = doc[q] /\ combined'[q] = combined[q] /\ response'[q] = response[q]
    BY <1>3 DEF Request, Respond, MeaningInv, CompleteInv, ReadInv, ReadTypes
  <2> QED BY <1>1, <1>3, <2>1, RequestMeaning
<1>4. CASE (\E k \in Keys : SourceChanges(k)) \/ Finished \/ UNCHANGED vars
  <2>1. UNCHANGED <<pc, stage, used, doc, combined, response>>
    BY <1>4 DEF SourceChanges, Finished, vars
  <2>2. \A q \in Requests : Meaning(q)'
    BY <2>1, FrameMeaning DEF MeaningInv
  <2> QED BY <1>c, <1>d, <2>2 DEF MeaningInv
<1> QED BY <1>2, <1>3, <1>4 DEF Next

\* What an answer means.
LEMMA AnswerMeaning ==
    ASSUME MeaningInv, NEW r \in Requests, Converted(r)
    PROVE  Describes(response[r].content, SourceRead(r), Redefining(r), Consulted(r))
BY DEF MeaningInv, Meaning, Converted

\* What was read, in the terms of Describes.
LEMMA LatestIsElse ==
    ASSUME NEW r
    PROVE  /\ \A part, given :
                 LatestPart(r, part, given) = Else(LastPart(Redefining(r), part), given)
           /\ \A section, n :
                 LatestDefinition(r, section, n) =
                    Else(LastEntry(Redefining(r), section, n), Definition(SourceRead(r)[section], n))
BY DEF LatestPart, LatestDefinition, Latest, LastPart, LastEntry, Else, LastGiven, SelectLastInSeq, Max

LEMMA PromisedIs ==
    ASSUME NEW r, NEW t
    PROVE  Promised(r, t) =
              LET rule == FirstRule(Consulted(r), t)
                  policy == LatestPart(r, "final", {SourceRead(r).final})
              IN  IF rule = {} THEN [action |-> "route", target |-> The(policy)]
                  ELSE [action |-> The(rule).action, target |-> The(rule).target]
BY DEF Promised, FirstRule, FirstGiven, SelectInSeq, Min

\* Handler.convert with patch.go: whatever the sources are and however their patches are
\* combined, the first rule of the README's order decides on all traffic.
THEOREM PriorityIsKept == Spec => []PriorityKept
<1>1. MeaningInv => PriorityKept
  <2> SUFFICES ASSUME MeaningInv, NEW r \in Requests, Converted(r), NEW t \in Traffic
               PROVE  Decision(response[r].content, t) = Promised(r, t)
    BY DEF PriorityKept
  <2> DEFINE d == response[r].content
             policy == LatestPart(r, "final", {SourceRead(r).final})
  <2>1. Describes(d, SourceRead(r), Redefining(r), Consulted(r))
    BY AnswerMeaning
  <2>2. Deciding(d.rules, t) = FirstRule(Consulted(r), t) /\ policy = {d.final}
    <3>1. Deciding(d.rules, t) = FirstRule(Consulted(r), t)
      BY <2>1 DEF Describes
    <3>2. {d.final} = Else(LastPart(Redefining(r), "final"), {SourceRead(r).final})
      BY <2>1 DEF Describes
    <3> HIDE DEF d
    <3> QED BY <3>1, <3>2, LatestIsElse
  <2> HIDE DEF d, policy
  <2>3. The(policy) = d.final
    BY <2>2 DEF The
  <2> DEFINE decision(rule, final) ==
               IF rule = {} THEN [action |-> "route", target |-> final]
               ELSE [action |-> The(rule).action, target |-> The(rule).target]
  <2>4. Decision(d, t) = decision(Deciding(d.rules, t), d.final)
    BY DEF Decision
  <2>5. Promised(r, t) = decision(FirstRule(Consulted(r), t), The(policy))
    BY PromisedIs DEF policy
  <2> HIDE DEF decision
  <2> QED BY <2>2, <2>3, <2>4, <2>5 DEF d
<1> QED BY <1>1, InitMeaning, StepMeaning, PTL DEF Spec

\* Handler.convert with patch.go: nothing that a rule or the final policy names is
\* lacking in an answer that was not lacking in the source.
THEOREM ReferencesAreKept == Spec => []ReferencesKept
<1>1. MeaningInv => ReferencesKept
  <2> SUFFICES ASSUME MeaningInv, NEW r \in Requests, Converted(r)
               PROVE  /\ DanglingPolicies(response[r].content)
                            \subseteq DanglingPolicies(SourceRead(r))
                      /\ DanglingSets(response[r].content) \subseteq DanglingSets(SourceRead(r))
    BY DEF ReferencesKept
  <2>1. Describes(response[r].content, SourceRead(r), Redefining(r), Consulted(r))
    BY AnswerMeaning
  <2> QED BY <2>1 DEF Describes
<1> QED BY <1>1, InitMeaning, StepMeaning, PTL DEF Spec

\* Handler.convert with patch.go: of the definitions of a name the last that was read is
\* in the answer, and no name is there twice because of a patch.
THEOREM LatestDefinitionsAreKept == Spec => []LatestDefinitionsKept
<1>1. MeaningInv => LatestDefinitionsKept
  <2> SUFFICES ASSUME MeaningInv, NEW r \in Requests, Converted(r)
               PROVE  /\ \A section \in Sections :
                            /\ \A n : Definition(response[r].content[section], n) =
                                         LatestDefinition(r, section, n)
                            /\ NamedOnce(SourceRead(r)[section])
                                  => NamedOnce(response[r].content[section])
                      /\ response[r].content.inbounds =
                            LatestPart(r, "inbounds", SourceRead(r).inbounds)
                      /\ {response[r].content.dns} = LatestPart(r, "dns", {SourceRead(r).dns})
    BY DEF LatestDefinitionsKept, Sections
  <2>1. Describes(response[r].content, SourceRead(r), Redefining(r), Consulted(r))
    BY AnswerMeaning
  <2>2. ASSUME NEW section \in Sections, NEW n
        PROVE  Definition(response[r].content[section], n) = LatestDefinition(r, section, n)
    BY <2>1, LatestIsElse DEF Describes
  <2>3. /\ response[r].content.inbounds = LatestPart(r, "inbounds", SourceRead(r).inbounds)
        /\ {response[r].content.dns} = LatestPart(r, "dns", {SourceRead(r).dns})
    BY <2>1, LatestIsElse DEF Describes
  <2>4. \A section \in Sections :
           NamedOnce(SourceRead(r)[section]) => NamedOnce(response[r].content[section])
    BY <2>1, OnceOfAll DEF Describes
  <2> QED BY <2>2, <2>3, <2>4
<1> QED BY <1>1, InitMeaning, StepMeaning, PTL DEF Spec

\* What is known of formats and answers.
AnswerTypes ==
    /\ format \in [Requests -> Formats \cup {NoFormat}]
    /\ \A r \in Requests :
          /\ response[r].status \in {0, 200, 400, 404, 502}
          /\ response[r].status # 200 => response[r].content = NoDocument

AnswerInv == MeaningInv /\ AnswerTypes

LEMMA StepAnswer == AnswerInv /\ [Next]_vars => AnswerInv'
<1> SUFFICES ASSUME AnswerInv, [Next]_vars PROVE AnswerInv'
  OBVIOUS
<1>m. MeaningInv' /\ DOMAIN response = Requests
  BY StepMeaning DEF AnswerInv, MeaningInv, CompleteInv
<1>f. format \in [Requests -> Formats \cup {NoFormat}]
  BY DEF AnswerInv, AnswerTypes
<1>1. ASSUME NEW r \in Requests, NEW code \in {400, 404, 502}, Respond(r, Answer(code, NoDocument)),
             format' \in [Requests -> Formats \cup {NoFormat}]
      PROVE  AnswerTypes'
  <2>1. \A q \in Requests :
           response'[q] = IF q = r THEN Answer(code, NoDocument) ELSE response[q]
    BY <1>m, <1>1 DEF Respond
  <2> QED BY <1>1, <2>1 DEF AnswerInv, AnswerTypes, Answer
<1>2. ASSUME response' = response, format' \in [Requests -> Formats \cup {NoFormat}]
      PROVE  AnswerTypes'
  BY <1>2 DEF AnswerInv, AnswerTypes
<1>3. ASSUME NEW r \in Requests, Encode(r) PROVE AnswerTypes'
  <2>1. format' \in [Requests -> Formats \cup {NoFormat}]
    BY <1>3, <1>f DEF Encode
  <2>2. CASE Respond(r, Answer(502, NoDocument))
    <3>1. 502 \in {400, 404, 502}
      OBVIOUS
    <3> QED BY <1>1, <2>1, <2>2, <3>1
  <2>3. CASE Respond(r, Answer(200, doc[r]))
    <3>1. \A q \in Requests : response'[q] = IF q = r THEN Answer(200, doc[r]) ELSE response[q]
      BY <1>m, <2>3 DEF Respond
    <3> QED BY <2>1, <3>1 DEF AnswerInv, AnswerTypes, Answer
  <2> QED BY <1>3, <2>2, <2>3 DEF Encode, Fail
<1>4. ASSUME NEW r \in Requests, Step(r), ~Encode(r) PROVE AnswerTypes'
  <2>1. format' \in [Requests -> Formats \cup {NoFormat}]
    BY <1>4, <1>f DEF Step, BeginLoad, LoadSource, LoadPatch, LoadFails, Apply
  <2>2. response' = response \/ Respond(r, Answer(502, NoDocument))
    BY <1>4 DEF Step, BeginLoad, LoadSource, LoadPatch, LoadFails, Apply, Fail
  <2>3. 502 \in {400, 404, 502}
    OBVIOUS
  <2> QED BY <1>1, <1>2, <2>1, <2>2, <2>3
<1>5. ASSUME NEW r \in Requests, NEW n \in Subscriptions \cup {UnknownName},
             NEW f \in Formats \cup {NoFormat}, Request(r, n, f)
      PROVE  AnswerTypes'
  <2>1. format' \in [Requests -> Formats \cup {NoFormat}]
    BY <1>5, <1>f DEF Request
  <2>2. 404 \in {400, 404, 502} /\ 400 \in {400, 404, 502}
    OBVIOUS
  <2>3. CASE response' = response
    BY <1>2, <2>1, <2>3
  <2>4. CASE Respond(r, Answer(404, NoDocument))
    BY <1>1, <2>1, <2>2, <2>4
  <2>5. CASE Respond(r, Answer(400, NoDocument))
    BY <1>1, <2>1, <2>2, <2>5
  <2> QED BY <1>5, <2>3, <2>4, <2>5 DEF Request
<1>6. ASSUME (\E k \in Keys : SourceChanges(k)) \/ Finished \/ UNCHANGED vars
      PROVE  AnswerTypes'
  <2>1. UNCHANGED <<response, format>>
    BY <1>6 DEF SourceChanges, Finished, vars
  <2> QED BY <1>2, <1>f, <2>1
<1> QED BY <1>m, <1>3, <1>4, <1>5, <1>6 DEF AnswerInv, Next

\* Handler.convert and writeError: whatever happens, there is one answer, and it has a
\* document if and only if its status is 200.
THEOREM TypesAreKept == Spec => []TypeOK
<1>1. Init => AnswerInv
  <2> SUFFICES ASSUME Init PROVE AnswerInv
    OBVIOUS
  <2>1. /\ format = [r \in Requests |-> NoFormat]
        /\ response = [r \in Requests |-> NoAnswer]
    BY DEF Init
  <2> QED BY <2>1, InitMeaning DEF AnswerInv, AnswerTypes, NoAnswer, Answer
<1>2. AnswerInv => TypeOK
  <2> SUFFICES ASSUME AnswerInv PROVE TypeOK
    OBVIOUS
  <2>1. ReadTypes
    BY DEF AnswerInv, MeaningInv, CompleteInv, ReadInv
  <2>2. ASSUME NEW r \in Requests, response[r].status = 200
        PROVE  response[r].content # NoDocument
    <3>1. IsDocument(response[r].content)
      BY <2>2, AnswerMeaning DEF AnswerInv, Converted, Describes
    <3>2. "groups" \in DOMAIN response[r].content
      BY <3>1 DEF IsDocument
    <3>3. "groups" \notin DOMAIN NoDocument
      BY DEF NoDocument
    <3> QED BY <3>2, <3>3
  <2> QED BY <2>1, <2>2 DEF TypeOK, ReadTypes, AnswerInv, AnswerTypes
<1> QED BY <1>1, <1>2, StepAnswer, PTL DEF Spec
================================================================================
