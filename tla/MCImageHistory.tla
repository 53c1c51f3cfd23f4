---------------------------- MODULE MCImageHistory ----------------------------
(* A small instance of ImageHistory: t1 is a tag of the species of s1      *)
(* only, t2 of a species that both services use.                           *)
EXTENDS ImageHistory, TLC

CONSTANTS s1, s2, t1, t2

MCUsers == t1 :> {s1} @@ t2 :> {s1, s2}
MCPrivate == t1 :> {s1}
=============================================================================
