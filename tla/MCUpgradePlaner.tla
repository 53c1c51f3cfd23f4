--------------------------- MODULE MCUpgradePlaner ---------------------------
(***************************************************************************)
(* Instances of UpgradePlaner for TLC.                                     *)
(***************************************************************************)
EXTENDS UpgradePlaner, ImageVersion, TLC

(* Two or three services with versions 1 and 2.  Version 2 of "b" requires *)
(* version 2 of "a", so that a plan has to move "a" before "b"; "c" is     *)
(* independent.                                                            *)
Compatible(p) ==
    "b" \in DOMAIN p /\ p["b"] = 2 => "a" \in DOMAIN p /\ p["a"] = 2

MCPhases(S, V) == {p \in UNION {[D -> V] : D \in SUBSET S} : Compatible(p)}

MCServices == {"a", "b"}
MCThreeServices == {"a", "b", "c"}
MCVersions == 1..2
MCCompatible == MCPhases(MCServices, MCVersions)
MCThreeCompatible == MCPhases(MCThreeServices, MCVersions)

(* The service starts on an empty database, or on one that lists both      *)
(* versions of every service and has all of them at version 1.             *)
Upgradable == [version |-> 1, versions |-> MCVersions, available |-> MCVersions]
MCInitialCatalogs ==
    {[s \in MCServices |-> NoEntry], [s \in MCServices |-> Upgradable]}
MCThreeCatalogs == {[s \in MCThreeServices |-> Upgradable]}

(* The numbers are ordered as ImageVersion orders the tags they stand for. *)
TagOf(v) == [image |-> "image", digest |-> "digest",
             version |-> IF v = Latest THEN LatestTag
                         ELSE [order |-> v, build |-> ""]]
ASSUME NumbersAreOrdered ==
    \A v, w \in MCVersions \cup {Latest} : v < w <=> Lt(TagOf(v), TagOf(w))

WorkerSymmetry == Permutations(Workers)
=============================================================================
