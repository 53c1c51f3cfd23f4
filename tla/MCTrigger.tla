-------------------------------- MODULE MCTrigger --------------------------------
(***************************************************************************)
(* Instances of Trigger for TLC: a ruleset that needs the metrics of two   *)
(* queues and has a rule about the second, and a ruleset about the second  *)
(* queue whose expression raises.                                          *)
(***************************************************************************)
EXTENDS Trigger

MCLevels == {"high", "low"}
MCOver == {"high"}
MCUnder == {"low"}
MCInstalled == {{}, Rulesets}
MCResources == [s \in Rulesets |-> IF s = "svc" THEN <<"qa", "qb">> ELSE <<"qb">>]
MCRules ==
    [s \in Rulesets |->
        IF s = "svc"
        THEN << [name |-> "quiet", op |-> "under", arg |-> "qb"] >>
        ELSE << [name |-> "broken", op |-> "raises", arg |-> "broken"] >>]
=============================================================================
