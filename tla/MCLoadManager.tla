---------------------------- MODULE MCLoadManager ----------------------------
(***************************************************************************)
(* Instances of LoadManager for TLC.                                       *)
(***************************************************************************)
EXTENDS LoadManager, TLC

MCGlobal == -1

(* None, no "scale" part, rules to scale between 1 and 2, and rules that   *)
(* the trigger refuses, with another maximum.                              *)
NoneConfig == [kind |-> "none", signs |-> {}, valid |-> FALSE, min |-> 0, max |-> 3]
PlainConfig == [kind |-> "plain", signs |-> {}, valid |-> FALSE, min |-> 0, max |-> 2]
ScaleConfig == [kind |-> "scale", signs |-> Signs, valid |-> TRUE, min |-> 1, max |-> 2]
RefusedConfig == [kind |-> "scale", signs |-> Signs, valid |-> FALSE, min |-> 0, max |-> 3]
UpOnlyConfig == [kind |-> "scale", signs |-> {"up"}, valid |-> TRUE, min |-> 1, max |-> 2]

MCConfigs == {NoneConfig, PlainConfig, UpOnlyConfig}
MCLiveConfigs == {ScaleConfig, RefusedConfig}

MCInitialScales == {1, MCGlobal}
=============================================================================
