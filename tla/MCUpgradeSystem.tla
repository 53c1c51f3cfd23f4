---------------------------- MODULE MCUpgradeSystem ----------------------------
(***************************************************************************)
(* Instances of UpgradeSystem for TLC: services "a" and "b" at version 1,  *)
(* all later versions listed but the last one of "a"; from version 2 on,   *)
(* "b" requires of "a" at least its own version.                           *)
(***************************************************************************)
EXTENDS UpgradeSystem

MCServices == {"a", "b"}
MCVersions == 1 .. 2
MCPhases ==
    {p \in UNION {[D -> Versions] : D \in SUBSET MCServices} :
        "b" \in DOMAIN p /\ p["b"] >= 2 => "a" \in DOMAIN p /\ p["a"] >= p["b"]}
MCCatalogs ==
    LET Lists(S) == [version |-> 1, versions |-> S, available |-> S]
    IN {[s \in MCServices |->
            Lists({v \in Versions : s = "b" \/ \E u \in Versions : u > v})]}
MCConfigOf == [v \in Versions |-> IF v = 1 THEN "config" ELSE "none"]
MCGlobal == -1
(* "a" has no replica, so that a plan goes on; "b" has one or none.        *)
MCInit == SystemInit /\ docker["a"].mode = 0
MCSpec == MCInit /\ [][SystemNext]_systemVars
MCInitial == {[image |-> 1, mode |-> n] : n \in Replicas}
=============================================================================
