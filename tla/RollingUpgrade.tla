----------------------------- MODULE RollingUpgrade -----------------------------
(***************************************************************************)
(* What the planer, the overseer and scaler_docker together promise to the *)
(* owner of the cluster: the versions that run change one service at a     *)
(* time, and every mix of versions they pass through is one the solver has *)
(* explained without failure - until somebody deploys a service by hand,   *)
(* makes a plan while the cluster still moves, or a plan is lost, after    *)
(* which nothing is promised.  Plans, events, documents and crashes do not *)
(* appear here: UpgradeSystem implements this specification.               *)
(***************************************************************************)
CONSTANTS Services, Versions, Explained

VARIABLES
    running,   \* the version each service runs
    disturbed  \* whether something has come between the plans and the cluster

Init == running \in [Services -> Versions] /\ disturbed = FALSE

MoveOne == \E s \in Services, v \in Versions : running' = [running EXCEPT ![s] = v]

Upgrade == MoveOne /\ (disturbed \/ running' \in Explained) /\ UNCHANGED disturbed

Disturb == (MoveOne \/ UNCHANGED running) /\ disturbed' = TRUE

Next == Upgrade \/ Disturb

Spec == Init /\ [][Next]_<<running, disturbed>>
=============================================================================
