------------------------------ MODULE MCMonitoring ------------------------------
(***************************************************************************)
(* Instances of Monitoring for TLC: a ruleset like those of the docs, with *)
(* a rule on the load of a queue and a scale down once it has been quiet   *)
(* for long; the other queues are tracked, nobody asks for their metrics,  *)
(* and the answers about one of them lack a field.                         *)
(***************************************************************************)
EXTENDS Monitoring

MCInstalled == {Rulesets}
MCResources == [s \in Rulesets |-> <<"qa">>]
MCRules ==
    [s \in Rulesets |->
        << [name |-> "quiet", op |-> "under", arg |-> "qa"],
           [name |-> "down", op |-> "held", arg |-> "quiet"] >>]

(* Two instances poll the queue of svc, or one polls two of the queues.    *)
MCInit ==
    /\ Init
    /\ tick["i1"] = "idle"
    /\ IF tick["i2"] = "idle" THEN tracked = <<"qa">> ELSE Len(tracked) = 2
MCFairSpec == MCInit /\ [][Next]_vars /\ Fairness
=============================================================================
