------------------------------ MODULE MCOverseer ------------------------------
(* A small instance of Overseer.                                           *)
EXTENDS Overseer, TLC

CONSTANTS s1, s2, v1, v2, c1, c2

MCGlobal == -1
MCConfigOf == v1 :> c1 @@ v2 :> c2
MCInitial == {[image |-> v1, mode |-> 1]}
=============================================================================
