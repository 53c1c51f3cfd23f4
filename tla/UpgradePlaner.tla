---------------------------- MODULE UpgradePlaner ----------------------------
(***************************************************************************)
(* The upgrade_planer service (services/overseer/upgrade_planer): the      *)
(* catalog of the versions known for every service, the log of phases, and *)
(* the scheduled plans that move the cluster from its current phase to the *)
(* best compatible one, one service at a time.                             *)
(*                                                                         *)
(* The service is a nameko worker pool.  A worker takes one message (an    *)
(* event of the overseer, of the planer itself, or an RPC) and runs its    *)
(* handler; it is suspended at every access to mongo and at every RPC, and *)
(* other workers run there.  A handler is therefore split into one action  *)
(* per access; stage[w] says which access worker w is about to make, and   *)
(* entry, sched, schedId and goals are the handler's local variables.      *)
(*                                                                         *)
(* The environment is open: the overseer's events carry any service and    *)
(* any version, since an operator may redeploy a service by hand at any    *)
(* time.  The dependency solver appears by the two answers the planer      *)
(* uses: the phases it solves and the phases it explains without failure.  *)
(*                                                                         *)
(* Not modelled: the dependencies stored with a version (they are a        *)
(* function of the version here, so a re-published image never changes     *)
(* them), tags without a version, the payload kept in the entry, dates and *)
(* logs.                                                                   *)
(***************************************************************************)
EXTENDS Naturals, Sequences, FiniteSets

CONSTANTS
    Services,        \* names of the services the overseer monitors
    Versions,        \* version numbers, ordered as ImageVersion orders them
    Latest,          \* the number that stands for the tag 'latest'
    SolveDependencies, \* the configuration key solve_dependencies
    Solvable,        \* phases dependency_solver.solve_dependencies accepts
    Explained,       \* phases dependency_solver.explain reports no failure of
    InitialCatalogs, \* what mongo may hold when the service starts
    Workers,         \* workers of the pool (instances * max_workers)
    Inputs,          \* the kinds of message the environment sends
    MaxInputs,       \* bound: messages the environment sends
    MaxCrashes       \* bound: worker crashes

(* A document of the catalog, and its absence.                             *)
Entry == [version: Versions, versions: SUBSET Versions, available: SUBSET Versions]
NoEntry == [version |-> 0, versions |-> {}, available |-> {}]

(* A phase pins one version for each service of its domain.                *)
Phase == UNION {[S -> Versions] : S \in SUBSET Services}

Kinds == {"deployed", "cleaned", "image", "check", "sanity", "upgrade", "continue"}

ASSUME ConstantsAssumption ==
    /\ Versions \subseteq Nat \ {0} /\ Versions # {}
    /\ IsFiniteSet(Services) /\ Services # {}
    /\ InitialCatalogs \subseteq [Services -> Entry \cup {NoEntry}]
    /\ SolveDependencies \in BOOLEAN
    /\ Solvable \subseteq Phase
    /\ Inputs \subseteq Kinds
    /\ MaxInputs \in Nat
    /\ MaxCrashes \in Nat

VARIABLES
    catalog,         \* collection catalog: service -> entry, or NoEntry
    phases,          \* collection phases: what was logged at each change
    scheduling,      \* collection scheduling: the plans, in insertion order
    requests,        \* upgrades the overseer accepted, <<service, version>>
    checks,          \* new_version events dispatched and not yet consumed
    stage,           \* per worker: the access its handler makes next
    msg,             \* per worker: the message it handles
    entry,           \* per worker: the catalog entry it read
    sched,           \* per worker: the plan it read or builds
    schedId,         \* per worker: where that plan was read from
    goals,           \* per worker: candidate phases of run_available_upgrade
    inputs,          \* messages sent so far by the environment
    crashes          \* crashes so far

store == <<catalog, phases, scheduling>>
locals == <<entry, sched, schedId, goals>>
vars == <<catalog, phases, scheduling, requests, checks,
          stage, msg, entry, sched, schedId, goals, inputs, crashes>>

-----------------------------------------------------------------------------
(* Data                                                                    *)

Known(s) == catalog[s] # NoEntry

States == {"running", "aborded", "waiting", "done"}
Step == [service: Services, from: Versions, to: Versions, state: States]
Plan == [state: States, steps: Seq(Step)]
NoPlan == [state |-> "aborded", steps |-> <<>>]

PhaseRecord == [updated: Services, to: Versions, services: Phase]

Message == [kind: Kinds, service: Services, version: Versions,
            current: Versions, finished: BOOLEAN]
AnyMessage(k) == [kind |-> k, service |-> CHOOSE s \in Services : TRUE,
                  version |-> CHOOSE v \in Versions : TRUE,
                  current |-> CHOOSE v \in Versions : TRUE, finished |-> FALSE]
NoMessage == AnyMessage("check")

(* What the environment may send: a message of a kind in Inputs, the       *)
(* fields its handler does not read left at a fixed value.                 *)
InputMessages ==
    {m \in Message :
        /\ m.kind \in Inputs
        /\ m.kind # "deployed" => ~m.finished
        /\ m.kind # "image" => m.current = m.version
        /\ m.kind \in {"check", "upgrade"} => m = AnyMessage(m.kind)
        /\ m.kind = "continue" => m.version = AnyMessage(m.kind).version}

Stages == {"idle", "read", "save", "log", "dispatch", "continue", "step", "call",
           "replace", "solve", "best", "build", "first_step", "first_call",
           "disable", "insert"}

(* The first access the handler of a message makes.                        *)
FirstStage(k) == CASE k \in {"check", "upgrade"} -> "solve"
                   [] k = "continue" -> "continue"
                   [] OTHER -> "read"

-----------------------------------------------------------------------------
(* Pure parts of the algorithm                                             *)

(* The services listed in the catalog, and the phase they are in.          *)
Catalogued == {s \in Services : Known(s)}
CurrentPhase == [s \in Catalogued |-> catalog[s].version]

(* The filter no_downgrade of build_catalog: may version v of an entry be  *)
(* proposed to the solver?                                                 *)
NoDowngrade(e, v) ==
    \/ v = Latest /\ v \in e.available
    \/ /\ v # Latest
       /\ e.version # Latest
       /\ \/ v = e.version
          \/ v >= e.version /\ v \in e.available

(* The candidate phases: what the solver answers for the catalog filtered  *)
(* by NoDowngrade or, when solve_dependencies is off, the newest version   *)
(* of every service, unfiltered (a service without any version raises).    *)
LatestPhases ==
    {p \in [Catalogued -> Versions] : \A s \in Catalogued :
        /\ p[s] \in catalog[s].versions
        /\ \A v \in catalog[s].versions : v <= p[s]}

SolverPhases ==
    {p \in Solvable :
        /\ DOMAIN p = Catalogued
        /\ \A s \in Catalogued :
              p[s] \in catalog[s].versions /\ NoDowngrade(catalog[s], p[s])}

SolvedPhases == IF SolveDependencies THEN SolverPhases ELSE LatestPhases

(* solve_best_phase: the score of a phase sums, over its services, the     *)
(* place of its version in the list sorted newest first, that is the       *)
(* number of newer versions; the phases of least score are best, and the   *)
(* solver's order, which is free here, decides between them.               *)
Score(p) ==
    Cardinality({newer \in (DOMAIN p) \X Versions :
                    /\ newer[2] \in catalog[newer[1]].versions
                    /\ newer[2] > p[newer[1]]})
BestPhases(ps) == {p \in ps : \A q \in ps : Score(p) <= Score(q)}

(* Every version of p is listed in the catalog.                            *)
Listed(p) == \A s \in DOMAIN p : p[s] \in catalog[s].versions

(* build_steps: the services to move, the orders in which they can be      *)
(* moved one at a time through phases the solver explains, and the plan    *)
(* that does it.                                                           *)
Moved(goal) == {s \in DOMAIN goal : catalog[s].version # goal[s]}

Orders(S) == {o \in [1..Cardinality(S) -> S] :
                 \A i, j \in 1..Cardinality(S) : o[i] = o[j] => i = j}

PhaseAfter(goal, o, n) ==
    [s \in Catalogued |-> IF \E i \in 1..n : o[i] = s THEN goal[s]
                                                      ELSE catalog[s].version]

AnyOrder(goal) == Orders(Moved(goal))                \* mutant: phases not explained
SafeOrders(goal) ==
    {o \in Orders(Moved(goal)) :
        \A n \in 1..Cardinality(Moved(goal)) :
            /\ Listed(PhaseAfter(goal, o, n))
            /\ PhaseAfter(goal, o, n) \in Explained}

PlanFor(goal, o) ==
    [state |-> "running",
     steps |-> [i \in 1..Cardinality(Moved(goal)) |->
                   [service |-> o[i], from |-> catalog[o[i]].version,
                    to |-> goal[o[i]], state |-> "waiting"]]]

(* The loop of continue_scheduled_plan over the steps of plan p, for the   *)
(* updated service s: it stops at the first waiting step of another        *)
(* service, and remembers the last step of s it passed, whatever its state *)
(* and whatever version was deployed.  Both are sets of at most one index. *)
WaitingElsewhere(p, s) ==
    {i \in DOMAIN p.steps : p.steps[i].service # s /\ p.steps[i].state = "waiting"}
LastWaiting(p, s) ==                                 \* mutant: no break in the loop
    {i \in WaitingElsewhere(p, s) : \A j \in WaitingElsewhere(p, s) : j <= i}
NextStep(p, s) ==
    {i \in WaitingElsewhere(p, s) : \A j \in WaitingElsewhere(p, s) : i <= j}
UpdatedStep(p, s) ==
    LET passed == {i \in DOMAIN p.steps :
                      /\ p.steps[i].service = s
                      /\ \A n \in NextStep(p, s) : i < n}
    IN {i \in passed : \A j \in passed : j <= i}

SetStepRunning(p, i, st) ==                          \* mutant: no step is ever done
    [p EXCEPT !.steps[i].state = "running"]
SetStep(p, i, st) == [p EXCEPT !.steps[i].state = st]

AnyPlan == DOMAIN scheduling                         \* mutant: find_one without a filter
Running == {i \in DOMAIN scheduling : scheduling[i].state = "running"}

-----------------------------------------------------------------------------
Init ==
    /\ catalog \in InitialCatalogs
    /\ phases = {}
    /\ scheduling = <<>>
    /\ requests = {}
    /\ checks = 0
    /\ stage = [w \in Workers |-> "idle"]
    /\ msg = [w \in Workers |-> NoMessage]
    /\ entry = [w \in Workers |-> NoEntry]
    /\ sched = [w \in Workers |-> NoPlan]
    /\ schedId = [w \in Workers |-> 0]
    /\ goals = [w \in Workers |-> {}]
    /\ inputs = 0
    /\ crashes = 0

(* The handler makes its next access.                                      *)
Goto(w, st) == stage' = [stage EXCEPT ![w] = st]

ForgetLocals(w) ==
    /\ entry' = [entry EXCEPT ![w] = NoEntry]
    /\ sched' = [sched EXCEPT ![w] = NoPlan]
    /\ schedId' = [schedId EXCEPT ![w] = 0]
    /\ goals' = [goals EXCEPT ![w] = {}]

(* The handler returns, or an exception ends it: either way the message is *)
(* acknowledged (requeue_on_error is off) and the worker is free again.    *)
Finish(w) ==
    /\ Goto(w, "idle")
    /\ msg' = [msg EXCEPT ![w] = NoMessage]
    /\ ForgetLocals(w)

(* A free worker takes message m.                                          *)
Take(w, m) ==
    /\ stage[w] = "idle"
    /\ Goto(w, FirstStage(m.kind))
    /\ msg' = [msg EXCEPT ![w] = m]
    /\ UNCHANGED <<store, requests, locals, crashes>>

(* An event of the overseer, or an RPC.                                    *)
Receive(w) ==
    /\ inputs < MaxInputs
    /\ inputs' = inputs + 1
    /\ \E m \in InputMessages : Take(w, m)
    /\ UNCHANGED checks

(* on_new_version_check_upgrade: the planer consumes its own new_version.  *)
ReceiveCheck(w) ==
    /\ checks > 0
    /\ checks' = checks - 1
    /\ Take(w, AnyMessage("check"))
    /\ UNCHANGED inputs

(* The process of w dies.  Its message was not acknowledged: the broker    *)
(* delivers it again, and the restarted worker handles it from the start.  *)
Crash(w) ==
    /\ stage[w] # "idle"
    /\ crashes < MaxCrashes
    /\ crashes' = crashes + 1
    /\ Goto(w, FirstStage(msg[w].kind))
    /\ ForgetLocals(w)
    /\ UNCHANGED <<store, requests, checks, msg, inputs>>

-----------------------------------------------------------------------------
(* The handlers that rewrite one entry of the catalog.  Each reads the     *)
(* whole document, changes its copy, and later writes the copy back.       *)

Busy(w, st, k) == stage[w] = st /\ msg[w].kind = k

(* The handler will write back e.                                          *)
Rewrite(w, e) ==
    /\ entry' = [entry EXCEPT ![w] = e]
    /\ Goto(w, "save")
    /\ UNCHANGED <<msg, sched, schedId, goals>>

(* on_service_deployed, up to the save.  A service already at this version *)
(* is left alone, even when this event says its upgrade completed; and a   *)
(* version set on a known service is not added to its versions.            *)
ReadDeployedUnsaved(w) ==                            \* mutant: a change is not saved
    LET s == msg[w].service
        v == msg[w].version
    IN /\ Busy(w, "read", "deployed")
       /\ \/ ~Known(s) /\ Rewrite(w, [version |-> v, versions |-> {v}, available |-> {v}])
          \/ Known(s) /\ catalog[s].version # v
                      /\ Goto(w, "log") /\ UNCHANGED <<msg, locals>>
          \/ Known(s) /\ catalog[s].version = v /\ Finish(w)
       /\ UNCHANGED <<store, requests, checks, inputs, crashes>>
ReadDeployed(w) ==
    LET s == msg[w].service
        v == msg[w].version
    IN /\ Busy(w, "read", "deployed")
       /\ \/ ~Known(s) /\ Rewrite(w, [version |-> v, versions |-> {v}, available |-> {v}])
          \/ Known(s) /\ catalog[s].version # v
                      /\ Rewrite(w, [catalog[s] EXCEPT !.version = v])
          \/ Known(s) /\ catalog[s].version = v /\ Finish(w)
       /\ UNCHANGED <<store, requests, checks, inputs, crashes>>

(* on_image_cleaned, up to the save.                                       *)
ReadCleaned(w) ==
    LET s == msg[w].service
        v == msg[w].version
    IN /\ Busy(w, "read", "cleaned")
       /\ IF v \in catalog[s].versions
             THEN Rewrite(w, [catalog[s] EXCEPT !.available = @ \ {v}])
             ELSE Finish(w)
       /\ UNCHANGED <<store, requests, checks, inputs, crashes>>

(* on_new_version, up to the save.  A service met for the first time gets  *)
(* its current version in "version" but only the new one in "versions".    *)
ReadImageAnew(w) ==                                  \* mutant: the entry is built anew
    LET v == msg[w].version
    IN /\ Busy(w, "read", "image")
       /\ Rewrite(w, [version |-> msg[w].current, versions |-> {v}, available |-> {v}])
       /\ UNCHANGED <<store, requests, checks, inputs, crashes>>
ReadImage(w) ==
    LET s == msg[w].service
        v == msg[w].version
    IN /\ Busy(w, "read", "image")
       /\ \/ /\ v \in catalog[s].versions \cap catalog[s].available
             /\ Finish(w)
          \/ /\ Known(s) /\ v \notin catalog[s].versions \cap catalog[s].available
             /\ Rewrite(w, [catalog[s] EXCEPT !.versions = @ \cup {v},
                                              !.available = @ \cup {v}])
          \/ /\ ~Known(s)
             /\ Rewrite(w, [version |-> msg[w].current, versions |-> {v}, available |-> {v}])
       /\ UNCHANGED <<store, requests, checks, inputs, crashes>>

(* sanity_check, at the start of an instance, for one service of its loop  *)
(* whose version is not listed: the overseer is asked for the version it   *)
(* runs; a service it does not monitor raises, which the loop ignores.     *)
ReadSanity(w) ==
    LET s == msg[w].service
        v == msg[w].version
    IN /\ Busy(w, "read", "sanity")
       /\ \/ /\ Known(s) /\ catalog[s].version \notin catalog[s].versions
             /\ Rewrite(w, [version |-> v, versions |-> catalog[s].versions \cup {v},
                            available |-> catalog[s].available \cup {v}])
          \/ Finish(w)
       /\ UNCHANGED <<store, requests, checks, inputs, crashes>>

(* _save_service: the whole document is replaced by the handler's copy.    *)
SaveService(w) ==
    /\ stage[w] = "save"
    /\ catalog' = [catalog EXCEPT ![msg[w].service] = entry[w]]
    /\ \/ msg[w].kind = "deployed" /\ Goto(w, "log") /\ UNCHANGED <<msg, locals>>
       \/ msg[w].kind = "image" /\ Goto(w, "dispatch") /\ UNCHANGED <<msg, locals>>
       \/ msg[w].kind \notin {"deployed", "image"} /\ Finish(w)
    /\ UNCHANGED <<phases, scheduling, requests, checks, inputs, crashes>>

(* on_service_deployed logs the phase the catalog is in, and goes on to    *)
(* the plan when the upgrade is finished (completed, or no replica to      *)
(* replace).                                                               *)
LogPhase(w) ==
    /\ stage[w] = "log"
    /\ phases' = phases \cup {[updated |-> msg[w].service, to |-> msg[w].version,
                               services |-> CurrentPhase]}
    /\ \/ msg[w].finished /\ Goto(w, "continue") /\ UNCHANGED <<msg, locals>>
       \/ ~msg[w].finished /\ Finish(w)
    /\ UNCHANGED <<catalog, scheduling, requests, checks, inputs, crashes>>

(* on_new_version announces the version it has saved.                      *)
DispatchNewVersion(w) ==
    /\ stage[w] = "dispatch"
    /\ checks' = checks + 1
    /\ Finish(w)
    /\ UNCHANGED <<store, requests, inputs, crashes>>

-----------------------------------------------------------------------------
(* continue_scheduled_plan                                                 *)

(* A running plan is read and, in the handler's copy, the step of the      *)
(* updated service is done.  A plan without such a step should be aborted, *)
(* but _abord_scheduled iterates over the keys of the document and raises  *)
(* before anything is written.                                             *)
ContinuePlan(w) ==
    /\ stage[w] = "continue"
    /\ \/ Running = {} /\ Finish(w)
       \/ \E i \in Running :
            LET p == scheduling[i]
                s == msg[w].service
            IN \/ UpdatedStep(p, s) = {} /\ Finish(w)
               \/ \E u \in UpdatedStep(p, s) :
                    /\ schedId' = [schedId EXCEPT ![w] = i]
                    /\ \/ /\ NextStep(p, s) = {}
                          /\ sched' = [sched EXCEPT ![w] =
                                          [SetStep(p, u, "done") EXCEPT !.state = "done"]]
                          /\ Goto(w, "replace")
                       \/ /\ NextStep(p, s) # {}
                          /\ sched' = [sched EXCEPT ![w] = SetStep(p, u, "done")]
                          /\ Goto(w, "step")
                    /\ UNCHANGED <<msg, entry, goals>>
    /\ UNCHANGED <<store, requests, checks, inputs, crashes>>

(* The step that _run_step launches: the next one, or the first one of a   *)
(* plan under construction.                                                *)
Launched(w) == IF stage[w] \in {"step", "call"} THEN NextStep(sched[w], msg[w].service)
                                                ELSE {1}

(* _run_step: the version must be in the catalog, or the plan is aborted   *)
(* and the same exception ends the handler.                                *)
RunStep(w) ==
    /\ stage[w] \in {"step", "first_step"}
    /\ \E n \in Launched(w) :
          LET st == sched[w].steps[n]
          IN IF st.to \in catalog[st.service].versions
               THEN /\ Goto(w, IF stage[w] = "step" THEN "call" ELSE "first_call")
                    /\ UNCHANGED <<msg, locals>>
               ELSE Finish(w)
    /\ UNCHANGED <<store, requests, checks, inputs, crashes>>

(* _run_step, the RPC: the overseer accepts the upgrade, or raises because *)
(* it no longer monitors the service.                                      *)
CallUnmarked(w) ==                                   \* mutant: the step is not marked
    /\ stage[w] \in {"call", "first_call"}
    /\ \E n \in Launched(w) :
          requests' = requests \cup {<<sched[w].steps[n].service, sched[w].steps[n].to>>}
    /\ Goto(w, IF stage[w] = "call" THEN "replace" ELSE "disable")
    /\ UNCHANGED <<store, checks, msg, locals, inputs, crashes>>
CallIgnored(w) ==                                    \* mutant: an error is swallowed
    /\ stage[w] \in {"call", "first_call"}
    /\ \E n \in Launched(w) :
          /\ sched' = [sched EXCEPT ![w] = SetStep(@, n, "running")]
          /\ requests' \in {requests, requests \cup
                   {<<sched[w].steps[n].service, sched[w].steps[n].to>>}}
    /\ Goto(w, IF stage[w] = "call" THEN "replace" ELSE "disable")
    /\ UNCHANGED <<store, checks, msg, entry, schedId, goals, inputs, crashes>>
CallDone(w) ==                                       \* mutant: done once asked for
    /\ stage[w] \in {"call", "first_call"}
    /\ \/ \E n \in Launched(w) :
            LET st == sched[w].steps[n]
            IN /\ requests' = requests \cup {<<st.service, st.to>>}
               /\ sched' = [sched EXCEPT ![w] = SetStep(@, n, "done")]
               /\ Goto(w, IF stage[w] = "call" THEN "replace" ELSE "disable")
               /\ UNCHANGED <<msg, entry, schedId, goals>>
       \/ Finish(w) /\ UNCHANGED requests
    /\ UNCHANGED <<store, checks, inputs, crashes>>
CallOverseer(w) ==
    /\ stage[w] \in {"call", "first_call"}
    /\ \/ \E n \in Launched(w) :
            LET st == sched[w].steps[n]
            IN /\ requests' = requests \cup {<<st.service, st.to>>}
               /\ sched' = [sched EXCEPT ![w] = SetStep(@, n, "running")]
               /\ Goto(w, IF stage[w] = "call" THEN "replace" ELSE "disable")
               /\ UNCHANGED <<msg, entry, schedId, goals>>
       \/ Finish(w) /\ UNCHANGED requests
    /\ UNCHANGED <<store, checks, inputs, crashes>>

(* The handler's copy replaces the document it was read from.              *)
ReplacePlan(w) ==
    /\ stage[w] = "replace"
    /\ scheduling' = [scheduling EXCEPT ![schedId[w]] = sched[w]]
    /\ Finish(w)
    /\ UNCHANGED <<catalog, phases, requests, checks, inputs, crashes>>

-----------------------------------------------------------------------------
(* run_available_upgrade, with resolve_upgrade_and_steps inlined           *)

(* build_catalog, and the RPC to the solver.                               *)
Solve(w) ==
    /\ stage[w] = "solve"
    /\ \/ SolvedPhases = {} /\ Finish(w)
       \/ /\ SolvedPhases # {}
          /\ goals' = [goals EXCEPT ![w] = SolvedPhases]
          /\ Goto(w, "best")
          /\ UNCHANGED <<msg, entry, sched, schedId>>
    /\ UNCHANGED <<store, requests, checks, inputs, crashes>>

(* solve_best_phase reads the catalog again; a version that disappeared    *)
(* from it raises.                                                         *)
SolveBestPhase(w) ==
    /\ stage[w] = "best"
    /\ IF \A p \in goals[w] : Listed(p)
          THEN \E g \in BestPhases(goals[w]) :
                  /\ goals' = [goals EXCEPT ![w] = {g}]
                  /\ Goto(w, "build")
                  /\ UNCHANGED <<msg, entry, sched, schedId>>
          ELSE Finish(w)
    /\ UNCHANGED <<store, requests, checks, inputs, crashes>>

(* build_steps reads the current phase and asks the solver to explain      *)
(* every phase it passes through; the reads of explain_phase are taken     *)
(* together with it.  explain_phase raises on a service whose version is   *)
(* not listed, and without any safe order there are no steps.              *)
BuildSteps(w) ==
    /\ stage[w] = "build"
    /\ \E g \in goals[w] :
          \/ /\ \/ ~(DOMAIN g \subseteq Catalogued) \/ Moved(g) = {}
                \/ SafeOrders(g) = {} \/ ~Listed(CurrentPhase)
             /\ Finish(w)
          \/ /\ DOMAIN g \subseteq Catalogued /\ Moved(g) # {}
             /\ \E o \in SafeOrders(g) : sched' = [sched EXCEPT ![w] = PlanFor(g, o)]
             /\ Goto(w, "first_step")
             /\ goals' = [goals EXCEPT ![w] = {}]
             /\ UNCHANGED <<msg, entry, schedId>>
    /\ UNCHANGED <<store, requests, checks, inputs, crashes>>

(* "disable all scheduled": the state of the plans, not of their steps,    *)
(* after the first step was already launched.                              *)
DisableNothing(w) ==                                 \* mutant: update_many is left out
    /\ stage[w] = "disable" /\ Goto(w, "insert")
    /\ UNCHANGED <<store, requests, checks, msg, locals, inputs, crashes>>
DisableUnknown(w) ==                                 \* mutant: a state that does not exist
    /\ stage[w] = "disable" /\ Goto(w, "insert")
    /\ scheduling' = [i \in DOMAIN scheduling |-> [scheduling[i] EXCEPT !.state = "disabled"]]
    /\ UNCHANGED <<catalog, phases, requests, checks, msg, locals, inputs, crashes>>
DisableScheduled(w) ==
    /\ stage[w] = "disable"
    /\ scheduling' = [i \in DOMAIN scheduling |->
                         IF i \in Running THEN [scheduling[i] EXCEPT !.state = "aborded"]
                                          ELSE scheduling[i]]
    /\ Goto(w, "insert")
    /\ UNCHANGED <<catalog, phases, requests, checks, msg, locals, inputs, crashes>>

InsertPlan(w) ==
    /\ stage[w] = "insert"
    /\ scheduling' = Append(scheduling, sched[w])
    /\ Finish(w)
    /\ UNCHANGED <<catalog, phases, requests, checks, inputs, crashes>>

-----------------------------------------------------------------------------
Work(w) ==
    \/ ReadDeployed(w) \/ ReadCleaned(w) \/ ReadImage(w) \/ ReadSanity(w)
    \/ SaveService(w) \/ LogPhase(w) \/ DispatchNewVersion(w)
    \/ ContinuePlan(w) \/ RunStep(w) \/ CallOverseer(w) \/ ReplacePlan(w)
    \/ Solve(w) \/ SolveBestPhase(w) \/ BuildSteps(w)
    \/ DisableScheduled(w) \/ InsertPlan(w)

(* Nothing is left to do: every message sent was handled.                  *)
Quiet ==
    /\ \A w \in Workers : stage[w] = "idle"
    /\ inputs = MaxInputs /\ checks = 0
    /\ UNCHANGED vars

Next == Quiet \/ \E w \in Workers : Receive(w) \/ ReceiveCheck(w) \/ Crash(w) \/ Work(w)

Spec == Init /\ [][Next]_vars

-----------------------------------------------------------------------------
(* Properties, for any number of workers                                   *)

(* Types.  The plan a worker builds or continues is a plan of the          *)
(* collection in the making.                                               *)
TypeOK ==
    /\ catalog \in [Services -> Entry \cup {NoEntry}]
    /\ phases \subseteq PhaseRecord
    /\ scheduling \in Seq(Plan)
    /\ requests \subseteq Services \X Versions
    /\ checks \in Nat
    /\ stage \in [Workers -> Stages]
    /\ msg \in [Workers -> Message]
    /\ entry \in [Workers -> Entry \cup {NoEntry}]
    /\ sched \in [Workers -> Plan]
    /\ schedId \in [Workers -> Nat]
    /\ goals \in [Workers -> SUBSET Phase]
    /\ inputs \in Nat
    /\ crashes \in Nat

(* Steps are launched in the order of the plan: the steps still waiting    *)
(* come after all the others.                                              *)
WaitingLast(p) ==
    \A i, j \in DOMAIN p.steps :
        i < j /\ p.steps[i].state = "waiting" => p.steps[j].state = "waiting"

StepsLaunchedInOrder == \A i \in DOMAIN scheduling : WaitingLast(scheduling[i])

(* A plan in state running is really waiting for an upgrade it has asked   *)
(* for (otherwise no event would ever continue it), and a plan that is     *)
(* done has left no step behind.                                           *)
InProgress(p) == \E n \in DOMAIN p.steps : p.steps[n].state = "running"
NoneWaiting(p) == \A n \in DOMAIN p.steps : p.steps[n].state # "waiting"

PlanProgress ==
    \A i \in DOMAIN scheduling :
        /\ scheduling[i].state = "running" => InProgress(scheduling[i])
        /\ scheduling[i].state = "done" => NoneWaiting(scheduling[i])

(* A step a plan shows as running was accepted by the overseer: no RPC     *)
(* failure, crash or stale write leaves a plan waiting for an upgrade that *)
(* nobody asked for.                                                       *)
Requested(p) ==
    \A n \in DOMAIN p.steps :
        p.steps[n].state = "running" => <<p.steps[n].service, p.steps[n].to>> \in requests

RunningStepsRequested == \A i \in DOMAIN scheduling : Requested(scheduling[i])

-----------------------------------------------------------------------------
(* The inductive invariant behind those three: what holds of the stored    *)
(* plans and of the copies the handlers are about to write.  A plan moves  *)
(* each service once.                                                      *)
DistinctServices(p) ==
    \A i, j \in DOMAIN p.steps : p.steps[i].service = p.steps[j].service => i = j

Wellformed(p) == WaitingLast(p) /\ DistinctServices(p) /\ Requested(p)

Storable(p) ==
    /\ Wellformed(p)
    /\ p.state = "running" => InProgress(p)
    /\ p.state = "done" => NoneWaiting(p)

StoredPlans == \A i \in DOMAIN scheduling : Storable(scheduling[i])

(* The copy of a plan that w is continuing: the step of the updated        *)
(* service is no longer waiting, another one is.                           *)
Continuing(w) ==
    /\ Wellformed(sched[w])
    /\ sched[w].state = "running"
    /\ \A n \in DOMAIN sched[w].steps :
          sched[w].steps[n].service = msg[w].service => sched[w].steps[n].state # "waiting"
    /\ NextStep(sched[w], msg[w].service) # {}

(* The plan that w is about to launch.                                     *)
Fresh(w) ==
    /\ DistinctServices(sched[w])
    /\ sched[w].state = "running"
    /\ sched[w].steps # <<>>
    /\ \A n \in DOMAIN sched[w].steps : sched[w].steps[n].state = "waiting"

HandlerPlan(w) ==
    /\ stage[w] \in {"step", "call"} => Continuing(w)
    /\ stage[w] \in {"first_step", "first_call"} => Fresh(w)
    /\ stage[w] \in {"replace", "disable", "insert"} => Storable(sched[w])
    /\ stage[w] \in {"step", "call", "replace"} => schedId[w] \in DOMAIN scheduling

HandlersPlans == \A w \in Workers : HandlerPlan(w)

PlanInv == TypeOK /\ StoredPlans /\ HandlersPlans

-----------------------------------------------------------------------------
(* Properties that need a single worker                                    *)

(* "disable all scheduled": starting a plan ends the previous one, so one  *)
(* plan at most is running and continue_scheduled_plan finds the right one *)
(* whichever document find_one returns.                                    *)
OneRunningPlan == Cardinality(Running) <= 1

(* No handler undoes what another one stored: a version announced for a    *)
(* service stays listed in its entry.                                      *)
NoVersionLost ==
    [][\A s \in Services : catalog[s].versions \subseteq catalog'[s].versions]_vars

(* The planer keeps the promise of PlanLifecycle.                          *)
Lifecycle == INSTANCE PlanLifecycle WITH scheduling <- scheduling
PlansFollowLifecycle == Lifecycle!Spec

(* A logged phase holds the version whose deployment it logs.              *)
PhaseLogsDeployment == \A r \in phases : r.services[r.updated] = r.to
=============================================================================
