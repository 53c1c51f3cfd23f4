---------------------------- MODULE PlanLifecycle ----------------------------
(***************************************************************************)
(* What upgrade_planer promises to whoever lists the scheduled plans       *)
(* (RPC list_scheduling): plans are only appended, one is running at a     *)
(* time, it advances step after step in its own order, and a plan that     *)
(* ended never changes.  Nothing is said here of workers, messages, the    *)
(* catalog or stale copies: UpgradePlaner with a single worker implements  *)
(* this specification.                                                     *)
(***************************************************************************)
EXTENDS Naturals, Sequences

VARIABLE scheduling

Unended == {i \in DOMAIN scheduling : scheduling[i].state = "running"}

(* A plan whose first step was launched and whose others wait.             *)
JustLaunched(p) ==
    /\ p.state = "running"
    /\ \A n \in DOMAIN p.steps :
          p.steps[n].state = IF n = 1 THEN "running" ELSE "waiting"

(* q is p with step u done.                                                *)
WithDone(p, u) == [p EXCEPT !.steps[u].state = "done"]

Init == scheduling = <<>>

(* The running plan is disabled, to leave its place to another one.        *)
Disable ==
    \E i \in Unended :
        scheduling' = [scheduling EXCEPT ![i].state = "aborded"]

Launch ==
    /\ Unended = {}
    /\ Len(scheduling') = Len(scheduling) + 1
    /\ JustLaunched(scheduling'[Len(scheduling')])
    /\ scheduling' = Append(scheduling, scheduling'[Len(scheduling')])

(* A step is found updated, and the first one still waiting is launched.   *)
Advance ==
    \E i \in Unended :
        \E u, n \in DOMAIN scheduling[i].steps :
            /\ u < n
            /\ scheduling[i].steps[n].state = "waiting"
            /\ \A j \in 1 .. n - 1 : j # u => scheduling[i].steps[j].state # "waiting"
            /\ scheduling' = [scheduling EXCEPT ![i] =
                                 [WithDone(@, u) EXCEPT !.steps[n].state = "running"]]

(* A step is found updated and no other one waits: the plan is done.       *)
Complete ==
    \E i \in Unended :
        \E u \in DOMAIN scheduling[i].steps :
            /\ \A n \in DOMAIN scheduling[i].steps :
                  n # u => scheduling[i].steps[n].state # "waiting"
            /\ scheduling' = [scheduling EXCEPT ![i] =
                                 [WithDone(@, u) EXCEPT !.state = "done"]]

Next == Disable \/ Launch \/ Advance \/ Complete

Spec == Init /\ [][Next]_scheduling
=============================================================================
