---------------------------- MODULE VersionedSource ----------------------------
(***************************************************************************)
(* What a caller of Loader.Load may rely on, whatever the loader caches,   *)
(* coalesces or revalidates.  The content behind a location is a version   *)
(* number that only grows.  A load of that location either fails or        *)
(* returns one version: never one from the future, and never one older     *)
(* than a version some load had already returned when this one began.      *)
(***************************************************************************)
EXTENDS Naturals

CONSTANTS
    Loads,          \* calls of Load, each made at most once
    Keys,           \* what is loaded: one key per location and header set
    MaxVersion      \* bound on the number of versions of one content

VARIABLES
    key,            \* key[l]: the key that load l reads
    latest,         \* latest[k]: the version now at the location
    served,         \* served[k]: the highest version returned so far, 0 if none
    status,         \* status[l]: "idle", "pending" or "returned"
    floor,          \* floor[l]: served[key[l]] at the moment l began
    outcome         \* outcome[l]: what l returned

vars == <<key, latest, served, status, floor, outcome>>

Later(v, w) == IF v < w THEN w ELSE v

Nothing == [status |-> "none", ver |-> 0]
Failed == [status |-> "error", ver |-> 0]
Loaded(v) == [status |-> "ok", ver |-> v]

Init ==
    /\ key \in [Loads -> Keys]
    /\ latest = [k \in Keys |-> 1]
    /\ served = [k \in Keys |-> 0]
    /\ status = [l \in Loads |-> "idle"]
    /\ floor = [l \in Loads |-> 0]
    /\ outcome = [l \in Loads |-> Nothing]

Change(k) ==
    /\ latest[k] < MaxVersion
    /\ latest' = [latest EXCEPT ![k] = @ + 1]
    /\ UNCHANGED <<key, served, status, floor, outcome>>

Begin(l) ==
    /\ status[l] = "idle"
    /\ status' = [status EXCEPT ![l] = "pending"]
    /\ floor' = [floor EXCEPT ![l] = served[key[l]]]
    /\ UNCHANGED <<key, latest, served, outcome>>

Return(l, v) ==
    /\ status[l] = "pending"
    /\ floor[l] <= v
    /\ v <= latest[key[l]]
    /\ outcome' = [outcome EXCEPT ![l] = Loaded(v)]
    /\ served' = [served EXCEPT ![key[l]] = Later(@, v)]
    /\ status' = [status EXCEPT ![l] = "returned"]
    /\ UNCHANGED <<key, latest, floor>>

\* A source rejected before any input or output fails as it begins.
Fail(l) ==
    /\ status[l] \in {"idle", "pending"}
    /\ status' = [status EXCEPT ![l] = "returned"]
    /\ outcome' = [outcome EXCEPT ![l] = Failed]
    /\ UNCHANGED <<key, latest, served, floor>>

Next ==
    \/ \E k \in Keys : Change(k)
    \/ \E l \in Loads : Begin(l) \/ Fail(l)
    \/ \E l \in Loads : \E v \in 1 .. MaxVersion : Return(l, v)

Spec == Init /\ [][Next]_vars
================================================================================
