----------------------------- MODULE MCSourceLoader -----------------------------
(* Values of SourceLoader's constants for TLC, and its symmetry. *)
EXTENDS SourceLoader, TLC

CONSTANTS main, mirror, file, invalid, config, path, etag1, etag2

LoadSymmetry == Permutations(Loads)

\* Two configured sources of one location: main and mirror share a key.
MCKeyOf == [s \in Sources |-> IF s = file THEN path ELSE config]

MCSameCache == [s \in Sources |-> 1]
MCNoCache == [s \in Sources |-> 0]
MCMixedCache == [s \in Sources |-> IF s = main THEN 1 ELSE 0]

MCTimeouts == [s \in Sources |-> IF s = main THEN 2 ELSE 1]

\* Versions 1 and 2 have validators; later versions come without one.
MCTagOf == [k \in Keys |->
    [v \in 1 .. MaxVersion |-> CASE v = 1 -> etag1 [] v = 2 -> etag2 [] OTHER -> NoTag]]
================================================================================
