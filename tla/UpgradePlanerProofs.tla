------------------------- MODULE UpgradePlanerProofs -------------------------
(***************************************************************************)
(* Proofs about UpgradePlaner, for any services, versions, solver, number  *)
(* of workers and interleaving of their handlers; and what needs a single  *)
(* worker, for any messages and crashes.                                   *)
(***************************************************************************)
EXTENDS UpgradePlaner, FiniteSetTheorems, WellFoundedInduction, TLAPS

-----------------------------------------------------------------------------
(* Lemmas on the operators                                                 *)

(* Every non-empty set of naturals has a least element.                    *)
LEMMA LeastElement ==
    ASSUME NEW T \in SUBSET Nat, T # {}
    PROVE  \E x \in T : \A y \in T : x <= y
PROOF
<1> DEFINE Less == OpToRel(<, Nat)
<1>1. PICK x \in T : \A y \in T : ~ (<<y, x>> \in Less)
  <2> HIDE DEF Less
  <2>1. IsWellFoundedOn(Less, Nat)
    BY NatLessThanWellFounded DEF Less
  <2> QED BY <2>1, WFMin
<1>2. \A y \in T : ~ (y < x)
  BY <1>1 DEF OpToRel
<1> QED BY <1>2

(* Functions on the domain of a sequence are sequences of its length.      *)
LEMMA SameLength ==
    ASSUME NEW S, NEW T, NEW s \in Seq(S), NEW t \in [DOMAIN s -> T]
    PROVE  t \in Seq(T) /\ Len(t) = Len(s) /\ DOMAIN t = DOMAIN s
PROOF
<1>1. Len(s) \in Nat /\ DOMAIN s = 1..Len(s) /\ DOMAIN t = 1..Len(s)
  OBVIOUS
<1> QED BY <1>1

LEMMA ReplaceAt ==
    ASSUME NEW S, NEW s \in Seq(S), NEW i \in DOMAIN s, NEW e \in S
    PROVE  /\ [s EXCEPT ![i] = e] \in Seq(S)
           /\ DOMAIN [s EXCEPT ![i] = e] = DOMAIN s
PROOF
<1>1. [s EXCEPT ![i] = e] \in [DOMAIN s -> S]
  OBVIOUS
<1> QED BY <1>1, SameLength

(* The neutral values are typed.                                           *)
LEMMA Neutral ==
    /\ NoMessage \in Message
    /\ \A k \in Kinds : AnyMessage(k) \in Message
    /\ \A k \in Kinds : FirstStage(k) \in Stages
    /\ NoPlan \in Plan
PROOF
<1>1. /\ (CHOOSE s \in Services : TRUE) \in Services
      /\ (CHOOSE v \in Versions : TRUE) \in Versions
  BY ConstantsAssumption
<1>2. \A k \in Kinds : AnyMessage(k) \in Message
  BY <1>1 DEF AnyMessage, Message
<1>3. NoMessage \in Message
  BY <1>2 DEF NoMessage, Kinds
<1>4. NoPlan \in Plan
  BY DEF NoPlan, Plan, States
<1> QED BY <1>2, <1>3, <1>4 DEF FirstStage, Stages, Kinds

(* What SetStep changes, and what it keeps.                                *)
LEMMA SetStepFacts ==
    ASSUME NEW p \in Plan, NEW i \in DOMAIN p.steps, NEW st \in States
    PROVE  LET q == SetStep(p, i, st)
           IN /\ q \in Plan
              /\ q.state = p.state
              /\ DOMAIN q.steps = DOMAIN p.steps
              /\ \A j \in DOMAIN p.steps :
                    /\ q.steps[j].service = p.steps[j].service
                    /\ q.steps[j].to = p.steps[j].to
                    /\ q.steps[j].state = IF j = i THEN st ELSE p.steps[j].state
PROOF
<1>1. p.steps \in Seq(Step) /\ p.steps[i] \in Step
  BY DEF Plan
<1>2. [p.steps EXCEPT ![i].state = st] \in Seq(Step)
  BY <1>1 DEF Step
<1> QED BY <1>1, <1>2 DEF SetStep, Plan, Step

(* The plan of a safe order is typed, waits entirely, and moves every      *)
(* service once.                                                           *)
LEMMA PlanForFacts ==
    ASSUME catalog \in [Services -> Entry \cup {NoEntry}],
           NEW g \in Phase, DOMAIN g \subseteq Catalogued, Moved(g) # {},
           NEW o \in SafeOrders(g)
    PROVE  /\ PlanFor(g, o) \in Plan
           /\ PlanFor(g, o).state = "running"
           /\ PlanFor(g, o).steps # <<>>
           /\ \A n \in DOMAIN PlanFor(g, o).steps :
                 PlanFor(g, o).steps[n].state = "waiting"
           /\ DistinctServices(PlanFor(g, o))
PROOF
<1> DEFINE M == Moved(g)
           c == Cardinality(M)
<1>1. PICK S \in SUBSET Services : g \in [S -> Versions]
  BY ConstantsAssumption DEF Phase
<1>2. M \in SUBSET Services /\ IsFiniteSet(M) /\ c \in Nat /\ c # 0
  <2>1. M \in SUBSET Services
    BY <1>1 DEF Moved
  <2>2. IsFiniteSet(M)
    BY <2>1, ConstantsAssumption, FS_Subset
  <2> QED BY <2>1, <2>2, FS_CardinalityType, FS_EmptySet
<1>3. o \in [1..c -> M] /\ \A i, j \in 1..c : o[i] = o[j] => i = j
  BY DEF SafeOrders, Orders
<1>4. \A i \in 1..c : /\ o[i] \in Services
                      /\ catalog[o[i]].version \in Versions
                      /\ g[o[i]] \in Versions
  BY <1>1, <1>3 DEF Moved, Catalogued, Known, Entry
<1> DEFINE steps == [i \in 1..c |-> [service |-> o[i], from |-> catalog[o[i]].version,
                                     to |-> g[o[i]], state |-> "waiting"]]
<1>5. steps \in [1..c -> Step]
  BY <1>4 DEF Step, States
<1>6. steps \in Seq(Step) /\ DOMAIN steps = 1..c /\ steps # <<>>
  <2>1. DOMAIN steps = 1..c
    OBVIOUS
  <2> HIDE DEF steps, c
  <2>2. steps \in Seq(Step) /\ Len(steps) = c
    BY <1>2, <1>5, <2>1
  <2> QED BY <1>2, <2>1, <2>2
<1>7. PlanFor(g, o) = [state |-> "running", steps |-> steps]
  BY DEF PlanFor
<1>8. \A n \in 1..c : steps[n].service = o[n] /\ steps[n].state = "waiting"
  OBVIOUS
<1>9. PlanFor(g, o).steps = steps /\ PlanFor(g, o).state = "running"
  BY <1>7
<1>10. PlanFor(g, o) \in Plan
  <2> HIDE DEF steps
  <2> QED BY <1>6, <1>7 DEF Plan, States
<1>11. DistinctServices(PlanFor(g, o))
  <2> HIDE DEF steps, c
  <2> QED BY <1>3, <1>6, <1>8, <1>9 DEF DistinctServices
<1> QED BY <1>6, <1>8, <1>9, <1>10, <1>11

-----------------------------------------------------------------------------
(* Type correctness                                                        *)

LEMMA TypeInit == Init => TypeOK
PROOF
<1> SUFFICES ASSUME Init PROVE TypeOK
  OBVIOUS
<1> QED
  BY ConstantsAssumption, Neutral
  DEF Init, TypeOK, Stages

(* A worker that finishes keeps every local variable typed.                *)
LEMMA FinishType ==
    ASSUME TypeOK, NEW w \in Workers, Finish(w)
    PROVE  /\ stage' \in [Workers -> Stages]
           /\ msg' \in [Workers -> Message]
           /\ entry' \in [Workers -> Entry \cup {NoEntry}]
           /\ sched' \in [Workers -> Plan]
           /\ schedId' \in [Workers -> Nat]
           /\ goals' \in [Workers -> SUBSET Phase]
PROOF
  BY Neutral DEF TypeOK, Finish, Goto, ForgetLocals, Stages

LEMMA TypeTake ==
    ASSUME TypeOK, NEW w \in Workers, Receive(w) \/ ReceiveCheck(w) \/ Crash(w)
    PROVE  TypeOK'
PROOF
<1>1. CASE Receive(w)
  BY <1>1, Neutral DEF TypeOK, Receive, Take, Goto, InputMessages, Message, store, locals
<1>2. CASE ReceiveCheck(w)
  <2>1. AnyMessage("check") \in Message /\ FirstStage(AnyMessage("check").kind) \in Stages
    BY Neutral DEF Kinds, Message
  <2>2. checks' \in Nat
    BY <1>2 DEF TypeOK, ReceiveCheck
  <2> QED
    BY <1>2, <2>1, <2>2 DEF TypeOK, ReceiveCheck, Take, Goto, store, locals
<1>3. CASE Crash(w)
  <2>1. FirstStage(msg[w].kind) \in Stages
    BY Neutral DEF TypeOK, Message
  <2> QED
    BY <1>3, <2>1, Neutral DEF TypeOK, Crash, Goto, ForgetLocals, store
<1> QED BY <1>1, <1>2, <1>3

(* The handlers of the catalog.                                            *)
LEMMA TypeCatalog ==
    ASSUME TypeOK, NEW w \in Workers,
           \/ ReadDeployed(w) \/ ReadCleaned(w) \/ ReadImage(w) \/ ReadSanity(w)
           \/ SaveService(w) \/ LogPhase(w) \/ DispatchNewVersion(w)
    PROVE  TypeOK'
PROOF
<1> DEFINE s == msg[w].service
           v == msg[w].version
<1>1. s \in Services /\ v \in Versions /\ msg[w].current \in Versions
  BY DEF TypeOK, Message
<1>2. catalog[s] \in Entry \cup {NoEntry}
  BY <1>1 DEF TypeOK
<1>3. ASSUME NEW e \in Entry, Rewrite(w, e),
             UNCHANGED <<store, requests, checks, inputs, crashes>>
      PROVE  TypeOK'
  BY <1>3 DEF TypeOK, Rewrite, Goto, Stages, store
<1>4. ASSUME Finish(w), UNCHANGED <<store, requests, checks, inputs, crashes>>
      PROVE  TypeOK'
  BY <1>4, FinishType DEF TypeOK, store
<1>5. CASE ReadDeployed(w)
  <2>1. [version |-> v, versions |-> {v}, available |-> {v}] \in Entry
    BY <1>1 DEF Entry
  <2>2. Known(s) => [catalog[s] EXCEPT !.version = v] \in Entry
    BY <1>1, <1>2 DEF Entry, Known
  <2> QED BY <1>3, <1>4, <1>5, <2>1, <2>2 DEF ReadDeployed
<1>6. CASE ReadCleaned(w)
  <2>1. v \in catalog[s].versions => [catalog[s] EXCEPT !.available = @ \ {v}] \in Entry
    BY <1>1, <1>2 DEF Entry, NoEntry
  <2> QED BY <1>3, <1>4, <1>6, <2>1 DEF ReadCleaned
<1>7. CASE ReadImage(w)
  <2>1. Known(s) => [catalog[s] EXCEPT !.versions = @ \cup {v},
                                       !.available = @ \cup {v}] \in Entry
    BY <1>1, <1>2 DEF Entry, Known
  <2>2. [version |-> msg[w].current, versions |-> {v}, available |-> {v}] \in Entry
    BY <1>1 DEF Entry
  <2> QED BY <1>3, <1>4, <1>7, <2>1, <2>2 DEF ReadImage
<1>8. CASE ReadSanity(w)
  <2>1. Known(s) => [version |-> v, versions |-> catalog[s].versions \cup {v},
                     available |-> catalog[s].available \cup {v}] \in Entry
    BY <1>1, <1>2 DEF Entry, Known
  <2> QED BY <1>3, <1>4, <1>8, <2>1 DEF ReadSanity
<1>9. CASE SaveService(w)
  <2>1. catalog' \in [Services -> Entry \cup {NoEntry}]
    BY <1>1, <1>9 DEF SaveService, TypeOK
  <2>2. CASE Finish(w)
    BY <1>9, <2>1, <2>2, FinishType DEF SaveService, TypeOK
  <2>3. CASE (Goto(w, "log") \/ Goto(w, "dispatch")) /\ UNCHANGED <<msg, locals>>
    BY <1>9, <2>1, <2>3 DEF SaveService, TypeOK, Goto, Stages, locals
  <2> QED BY <1>9, <2>2, <2>3 DEF SaveService
<1>10. CASE LogPhase(w)
  <2>1. CurrentPhase \in [Catalogued -> Versions]
    BY DEF CurrentPhase, Catalogued, Known, TypeOK, Entry
  <2>2. CurrentPhase \in Phase
    BY <2>1 DEF Phase, Catalogued
  <2>3. phases' \subseteq PhaseRecord
    BY <1>1, <1>10, <2>2 DEF LogPhase, TypeOK, PhaseRecord
  <2>4. CASE Finish(w)
    BY <1>10, <2>3, <2>4, FinishType DEF LogPhase, TypeOK
  <2>5. CASE Goto(w, "continue") /\ UNCHANGED <<msg, locals>>
    BY <1>10, <2>3, <2>5 DEF LogPhase, TypeOK, Goto, Stages, locals
  <2> QED BY <1>10, <2>4, <2>5 DEF LogPhase
<1>11. CASE DispatchNewVersion(w)
  BY <1>11, FinishType DEF DispatchNewVersion, TypeOK, store
<1> QED BY <1>5, <1>6, <1>7, <1>8, <1>9, <1>10, <1>11

(* The step a worker launches is a step of its plan.                       *)
LEMMA LaunchedIsStep ==
    ASSUME PlanInv, NEW w \in Workers, NEW n \in Launched(w),
           stage[w] \in {"step", "call", "first_step", "first_call"}
    PROVE  /\ n \in DOMAIN sched[w].steps
           /\ sched[w] \in Plan
           /\ sched[w].steps[n] \in Step
PROOF
<1>1. sched[w] \in Plan /\ sched[w].steps \in Seq(Step)
  BY DEF PlanInv, TypeOK, Plan
<1>2. n \in DOMAIN sched[w].steps
  <2>1. CASE stage[w] \in {"step", "call"}
    BY <2>1 DEF Launched, NextStep, WaitingElsewhere
  <2>2. CASE stage[w] \in {"first_step", "first_call"}
    <3>1. n = 1 /\ sched[w].steps # <<>>
      BY <2>2 DEF Launched, PlanInv, HandlersPlans, HandlerPlan, Fresh
    <3> QED BY <1>1, <3>1
  <2> QED BY <2>1, <2>2
<1> QED BY <1>1, <1>2

(* continue_scheduled_plan.                                                *)
LEMMA TypeContinue ==
    ASSUME PlanInv, NEW w \in Workers,
           ContinuePlan(w) \/ RunStep(w) \/ CallOverseer(w) \/ ReplacePlan(w)
    PROVE  TypeOK'
PROOF
<1> USE DEF PlanInv
<1>1. ASSUME Finish(w), UNCHANGED <<store, requests, checks, inputs, crashes>>
      PROVE  TypeOK'
  BY <1>1, FinishType DEF TypeOK, store
<1>2. CASE ContinuePlan(w)
  <2>1. CASE Finish(w)
    BY <1>1, <1>2, <2>1 DEF ContinuePlan
  <2>2. CASE ~Finish(w)
    <3> DEFINE s == msg[w].service
    <3>1. PICK i \in Running :
            \E u \in UpdatedStep(scheduling[i], s) :
                /\ schedId' = [schedId EXCEPT ![w] = i]
                /\ \/ /\ sched' = [sched EXCEPT ![w] =
                            [SetStep(scheduling[i], u, "done") EXCEPT !.state = "done"]]
                      /\ Goto(w, "replace")
                   \/ /\ sched' = [sched EXCEPT ![w] = SetStep(scheduling[i], u, "done")]
                      /\ Goto(w, "step")
                /\ UNCHANGED <<msg, entry, goals>>
      BY <1>2, <2>2 DEF ContinuePlan
    <3> DEFINE p == scheduling[i]
    <3>2. p \in Plan /\ i \in Nat
      BY DEF TypeOK, Running
    <3>3. PICK u \in UpdatedStep(p, s) :
                /\ schedId' = [schedId EXCEPT ![w] = i]
                /\ \/ /\ sched' = [sched EXCEPT ![w] =
                            [SetStep(p, u, "done") EXCEPT !.state = "done"]]
                      /\ Goto(w, "replace")
                   \/ /\ sched' = [sched EXCEPT ![w] = SetStep(p, u, "done")]
                      /\ Goto(w, "step")
                /\ UNCHANGED <<msg, entry, goals>>
      BY <3>1
    <3>4. u \in DOMAIN p.steps
      BY DEF UpdatedStep
    <3> HIDE DEF p
    <3>5. SetStep(p, u, "done") \in Plan
      BY <3>2, <3>4, SetStepFacts DEF States
    <3>6. [SetStep(p, u, "done") EXCEPT !.state = "done"] \in Plan
      BY <3>5 DEF Plan, States
    <3>7. sched' \in [Workers -> Plan] /\ stage' \in [Workers -> Stages]
      BY <3>3, <3>5, <3>6 DEF TypeOK, Goto, Stages
    <3> QED BY <1>2, <3>2, <3>3, <3>7 DEF ContinuePlan, TypeOK, store
  <2> QED BY <2>1, <2>2
<1>3. CASE RunStep(w)
  <2>1. CASE Finish(w)
    BY <1>1, <1>3, <2>1 DEF RunStep
  <2>2. CASE ~Finish(w)
    BY <1>3, <2>2 DEF RunStep, TypeOK, Goto, Stages, store, locals
  <2> QED BY <2>1, <2>2
<1>4. CASE CallOverseer(w)
  <2>1. CASE Finish(w) /\ UNCHANGED requests
    BY <1>1, <1>4, <2>1 DEF CallOverseer, store
  <2>2. CASE ~(Finish(w) /\ UNCHANGED requests)
    <3>1. PICK n \in Launched(w) :
            /\ requests' = requests \cup
                   {<<sched[w].steps[n].service, sched[w].steps[n].to>>}
            /\ sched' = [sched EXCEPT ![w] = SetStep(@, n, "running")]
            /\ Goto(w, IF stage[w] = "call" THEN "replace" ELSE "disable")
            /\ UNCHANGED <<msg, entry, schedId, goals>>
      BY <1>4, <2>2 DEF CallOverseer
    <3>2. n \in DOMAIN sched[w].steps /\ sched[w] \in Plan /\ sched[w].steps[n] \in Step
      BY <1>4, LaunchedIsStep DEF CallOverseer
    <3>3. SetStep(sched[w], n, "running") \in Plan
      BY <3>2, SetStepFacts DEF States
    <3>4. sched' \in [Workers -> Plan] /\ stage' \in [Workers -> Stages]
      BY <3>1, <3>3 DEF TypeOK, Goto, Stages
    <3>5. requests' \subseteq Services \X Versions
      BY <3>1, <3>2 DEF TypeOK, Step
    <3> QED BY <1>4, <3>1, <3>4, <3>5 DEF CallOverseer, TypeOK, store
  <2> QED BY <2>1, <2>2
<1>5. CASE ReplacePlan(w)
  <2>1. schedId[w] \in DOMAIN scheduling /\ sched[w] \in Plan
    BY <1>5 DEF ReplacePlan, TypeOK, HandlersPlans, HandlerPlan
  <2>2. scheduling' \in Seq(Plan)
    BY <1>5, <2>1, ReplaceAt DEF ReplacePlan, TypeOK
  <2> QED BY <1>5, <2>2, FinishType DEF ReplacePlan, TypeOK
<1> QED BY <1>2, <1>3, <1>4, <1>5

(* run_available_upgrade.                                                  *)
LEMMA TypeUpgrade ==
    ASSUME TypeOK, NEW w \in Workers,
           \/ Solve(w) \/ SolveBestPhase(w) \/ BuildSteps(w)
           \/ DisableScheduled(w) \/ InsertPlan(w)
    PROVE  TypeOK'
PROOF
<1>1. ASSUME Finish(w), UNCHANGED <<store, requests, checks, inputs, crashes>>
      PROVE  TypeOK'
  BY <1>1, FinishType DEF TypeOK, store
<1>2. CASE Solve(w)
  <2>1. SolvedPhases \subseteq Phase
    <3>1. SolverPhases \subseteq Phase
      BY ConstantsAssumption DEF SolverPhases
    <3>2. LatestPhases \subseteq Phase
      BY DEF LatestPhases, Phase, Catalogued
    <3> QED BY <3>1, <3>2 DEF SolvedPhases
  <2>2. CASE Finish(w)
    BY <1>1, <1>2, <2>2 DEF Solve
  <2>3. CASE ~Finish(w)
    BY <1>2, <2>1, <2>3 DEF Solve, TypeOK, Goto, Stages, store
  <2> QED BY <2>2, <2>3
<1>3. CASE SolveBestPhase(w)
  <2>1. \A g \in BestPhases(goals[w]) : g \in Phase
    BY DEF BestPhases, TypeOK
  <2>2. CASE Finish(w)
    BY <1>1, <1>3, <2>2 DEF SolveBestPhase
  <2>3. CASE ~Finish(w)
    <3>1. PICK g \in BestPhases(goals[w]) :
            /\ goals' = [goals EXCEPT ![w] = {g}]
            /\ Goto(w, "build")
            /\ UNCHANGED <<msg, entry, sched, schedId>>
      BY <1>3, <2>3 DEF SolveBestPhase
    <3>2. goals' \in [Workers -> SUBSET Phase]
      BY <2>1, <3>1 DEF TypeOK
    <3> QED BY <1>3, <3>1, <3>2 DEF SolveBestPhase, TypeOK, Goto, Stages, store
  <2> QED BY <2>2, <2>3
<1>4. CASE BuildSteps(w)
  <2>1. CASE Finish(w)
    BY <1>1, <1>4, <2>1 DEF BuildSteps
  <2>2. CASE ~Finish(w)
    <3>1. PICK g \in goals[w] :
            /\ DOMAIN g \subseteq Catalogued /\ Moved(g) # {}
            /\ \E o \in SafeOrders(g) : sched' = [sched EXCEPT ![w] = PlanFor(g, o)]
            /\ Goto(w, "first_step")
            /\ goals' = [goals EXCEPT ![w] = {}]
            /\ UNCHANGED <<msg, entry, schedId>>
      BY <1>4, <2>2 DEF BuildSteps
    <3>2. PICK o \in SafeOrders(g) : sched' = [sched EXCEPT ![w] = PlanFor(g, o)]
      BY <3>1
    <3>3. PlanFor(g, o) \in Plan
      BY <3>1, PlanForFacts DEF TypeOK
    <3>4. sched' \in [Workers -> Plan]
      BY <3>2, <3>3 DEF TypeOK
    <3> QED BY <1>4, <3>1, <3>4 DEF BuildSteps, TypeOK, Goto, Stages, store
  <2> QED BY <2>1, <2>2
<1>5. CASE DisableScheduled(w)
  <2>1. \A i \in DOMAIN scheduling :
          /\ scheduling[i] \in Plan
          /\ [scheduling[i] EXCEPT !.state = "aborded"] \in Plan
    <3>1. \A i \in DOMAIN scheduling : scheduling[i] \in Plan
      BY DEF TypeOK
    <3>2. \A q \in Plan : [q EXCEPT !.state = "aborded"] \in Plan
      BY DEF Plan, States
    <3> QED BY <3>1, <3>2
  <2>2. scheduling' \in [DOMAIN scheduling -> Plan]
    BY <1>5, <2>1 DEF DisableScheduled
  <2>3. scheduling' \in Seq(Plan)
    BY <2>2, SameLength DEF TypeOK
  <2> QED BY <1>5, <2>3 DEF DisableScheduled, TypeOK, Goto, Stages, locals
<1>6. CASE InsertPlan(w)
  <2>1. scheduling' \in Seq(Plan)
    BY <1>6 DEF InsertPlan, TypeOK
  <2> QED BY <1>6, <2>1, FinishType DEF InsertPlan, TypeOK
<1> QED BY <1>2, <1>3, <1>4, <1>5, <1>6

LEMMA TypeNext == PlanInv /\ [Next]_vars => TypeOK'
PROOF
<1> SUFFICES ASSUME PlanInv, [Next]_vars PROVE TypeOK'
  OBVIOUS
<1>1. CASE Quiet \/ UNCHANGED vars
  BY <1>1 DEF PlanInv, TypeOK, Quiet, vars
<1>2. CASE \E w \in Workers : Receive(w) \/ ReceiveCheck(w) \/ Crash(w) \/ Work(w)
  BY <1>2, TypeTake, TypeCatalog, TypeContinue, TypeUpgrade DEF PlanInv, Work
<1> QED BY <1>1, <1>2 DEF Next

-----------------------------------------------------------------------------
(* The plans                                                               *)

(* Marking the step of the updated service done: either no other step      *)
(* waits and the plan can be stored as done, or the plan can be continued. *)
LEMMA UpdatedPlan ==
    ASSUME NEW p \in Plan, Wellformed(p), p.state = "running", NEW s,
           NEW u \in UpdatedStep(p, s)
    PROVE  LET q == SetStep(p, u, "done")
           IN /\ NextStep(p, s) = {} => Storable([q EXCEPT !.state = "done"])
              /\ NextStep(p, s) # {} =>
                    /\ Wellformed(q) /\ q.state = "running"
                    /\ \A n \in DOMAIN q.steps :
                          q.steps[n].service = s => q.steps[n].state # "waiting"
                    /\ NextStep(q, s) # {}
PROOF
<1> DEFINE q == SetStep(p, u, "done")
           W == WaitingElsewhere(p, s)
<1>1. /\ u \in DOMAIN p.steps /\ p.steps[u].service = s
      /\ \A n \in NextStep(p, s) : u < n
  BY DEF UpdatedStep
<1>2. /\ q \in Plan /\ q.state = p.state /\ DOMAIN q.steps = DOMAIN p.steps
      /\ \A j \in DOMAIN p.steps :
            /\ q.steps[j].service = p.steps[j].service
            /\ q.steps[j].to = p.steps[j].to
            /\ q.steps[j].state = IF j = u THEN "done" ELSE p.steps[j].state
  BY <1>1, SetStepFacts DEF States
<1>3. DOMAIN p.steps \subseteq Nat
  BY DEF Plan
<1>4. W \in SUBSET Nat /\ (W # {} => NextStep(p, s) # {})
  <2>1. W \in SUBSET Nat
    BY <1>3 DEF WaitingElsewhere
  <2> QED BY <2>1, LeastElement DEF NextStep
<1> HIDE DEF q
<1>5. \A j \in W : \A n \in NextStep(p, s) : n <= j
  BY DEF NextStep
<1>6. \A n \in DOMAIN q.steps : q.steps[n].service = s => q.steps[n].state # "waiting"
  BY <1>1, <1>2 DEF Wellformed, DistinctServices
<1>7. DistinctServices(q) /\ Requested(q)
  BY <1>2 DEF Wellformed, DistinctServices, Requested
<1>8. CASE NextStep(p, s) = {}
  <2> DEFINE r == [q EXCEPT !.state = "done"]
  <2>1. r.steps = q.steps /\ r.state = "done"
    BY <1>2 DEF Plan
  <2>2. NoneWaiting(q)
    BY <1>2, <1>4, <1>6, <1>8 DEF NoneWaiting, WaitingElsewhere
  <2> HIDE DEF r
  <2>3. Storable(r)
    BY <1>7, <2>1, <2>2
    DEF Storable, Wellformed, WaitingLast, DistinctServices, Requested, NoneWaiting
  <2> QED BY <1>8, <2>3 DEF q, r
<1>9. CASE NextStep(p, s) # {}
  <2>1. NextStep(q, s) = NextStep(p, s)
    BY <1>1, <1>2 DEF NextStep, WaitingElsewhere
  <2>2. WaitingLast(q)
    <3> SUFFICES ASSUME NEW i \in DOMAIN q.steps, NEW j \in DOMAIN q.steps,
                        i < j, q.steps[i].state = "waiting"
                 PROVE  q.steps[j].state = "waiting"
      BY DEF WaitingLast
    <3>1. i # u /\ p.steps[i].state = "waiting" /\ p.steps[j].state = "waiting"
      BY <1>2 DEF Wellformed, WaitingLast
    <3>2. i \in W
      BY <1>2, <1>6, <3>1 DEF WaitingElsewhere
    <3>3. PICK n \in NextStep(p, s) : u < n /\ n <= i
      BY <1>1, <1>5, <1>9, <3>2
    <3>4. n \in Nat /\ u \in Nat /\ i \in Nat /\ j \in Nat
      BY <1>1, <1>2, <1>3, <1>4, <3>3 DEF NextStep
    <3>5. j # u
      BY <3>3, <3>4
    <3> QED BY <1>2, <3>1, <3>5
  <2> QED BY <1>2, <1>6, <1>7, <1>9, <2>1, <2>2 DEF q, Wellformed
<1> QED BY <1>8, <1>9

(* Launching the next step of a plan that is continued, or the first one   *)
(* of a fresh plan, once the overseer accepted it.                         *)
LEMMA LaunchedPlan ==
    ASSUME PlanInv, NEW w \in Workers, NEW n \in Launched(w),
           stage[w] \in {"call", "first_call"},
           requests' = requests \cup {<<sched[w].steps[n].service, sched[w].steps[n].to>>},
           sched'[w] = SetStep(sched[w], n, "running")
    PROVE  Storable(sched[w])'
PROOF
<1> DEFINE p == sched[w]
           q == sched'[w]
<1>1. n \in DOMAIN p.steps /\ p \in Plan /\ DOMAIN p.steps \subseteq Nat
  BY LaunchedIsStep DEF Plan
<1>2. /\ q.state = p.state /\ DOMAIN q.steps = DOMAIN p.steps
      /\ \A j \in DOMAIN p.steps :
            /\ q.steps[j].service = p.steps[j].service
            /\ q.steps[j].to = p.steps[j].to
            /\ q.steps[j].state = IF j = n THEN "running" ELSE p.steps[j].state
  BY <1>1, SetStepFacts DEF States
<1>3. /\ p.state = "running" /\ DistinctServices(p) /\ Requested(p) /\ WaitingLast(p)
      /\ \A i \in DOMAIN p.steps : i < n => p.steps[i].state # "waiting"
  <2>1. CASE stage[w] = "call"
    <3>1. Continuing(w) /\ n \in NextStep(p, msg[w].service)
      BY <2>1 DEF PlanInv, HandlersPlans, HandlerPlan, Launched
    <3>2. ASSUME NEW i \in DOMAIN p.steps, i < n, p.steps[i].state = "waiting" PROVE FALSE
      <4>1. i \in WaitingElsewhere(p, msg[w].service)
        BY <3>1, <3>2 DEF Continuing, WaitingElsewhere
      <4>2. n <= i
        BY <3>1, <4>1 DEF NextStep
      <4> QED BY <1>1, <3>2, <4>2
    <3> QED BY <3>1, <3>2 DEF Continuing, Wellformed
  <2>2. CASE stage[w] = "first_call"
    <3>1. Fresh(w) /\ n = 1
      BY <2>2 DEF PlanInv, HandlersPlans, HandlerPlan, Launched
    <3>2. \A i \in DOMAIN p.steps : ~(i < n)
      BY <1>1, <3>1 DEF Plan
    <3> QED BY <3>1, <3>2 DEF Fresh, WaitingLast, Requested
  <2> QED BY <2>1, <2>2
<1> HIDE DEF q
<1>4. WaitingLast(q)
  <2> SUFFICES ASSUME NEW i \in DOMAIN q.steps, NEW j \in DOMAIN q.steps,
                      i < j, q.steps[i].state = "waiting"
               PROVE  q.steps[j].state = "waiting"
    BY DEF WaitingLast
  <2>1. i # n /\ p.steps[i].state = "waiting" /\ p.steps[j].state = "waiting"
    BY <1>2, <1>3 DEF WaitingLast
  <2>2. ~(i < n) /\ i \in Nat /\ j \in Nat /\ n \in Nat
    BY <1>1, <1>2, <1>3, <2>1
  <2>3. j # n
    BY <2>1, <2>2
  <2> QED BY <1>2, <2>1, <2>3
<1>5. \A j \in DOMAIN q.steps : q.steps[j].state = "running" =>
            <<q.steps[j].service, q.steps[j].to>> \in requests'
  BY <1>1, <1>2, <1>3 DEF Requested
<1>6. DistinctServices(q) /\ q.state = "running" /\ InProgress(q)
  BY <1>1, <1>2, <1>3 DEF DistinctServices, InProgress
<1> QED
  BY <1>4, <1>5, <1>6
  DEF q, Storable, Wellformed, WaitingLast, DistinctServices, Requested, InProgress

(* What a step of w leaves alone: the copies of the other workers, as long *)
(* as no request is forgotten and no plan removed ...                      *)
LEMMA OtherHandlers ==
    ASSUME PlanInv, NEW w \in Workers, HandlerPlan(w)',
           requests \subseteq requests',
           DOMAIN scheduling \subseteq DOMAIN scheduling',
           \A x \in Workers : x # w =>
               /\ stage'[x] = stage[x] /\ msg'[x] = msg[x]
               /\ sched'[x] = sched[x] /\ schedId'[x] = schedId[x]
    PROVE  HandlersPlans'
PROOF
<1> SUFFICES ASSUME NEW x \in Workers, x # w PROVE HandlerPlan(x)'
  BY DEF HandlersPlans
<1>1. HandlerPlan(x)
  BY DEF PlanInv, HandlersPlans
<1>2. Requested(sched[x]) => Requested(sched[x])'
  BY DEF Requested
<1>3. Wellformed(sched[x]) => Wellformed(sched[x])'
  BY <1>2 DEF Wellformed, WaitingLast, DistinctServices
<1>4. Storable(sched[x]) => Storable(sched[x])'
  BY <1>3 DEF Storable, InProgress, NoneWaiting
<1>5. Continuing(x) => Continuing(x)'
  BY <1>3 DEF Continuing, NextStep, WaitingElsewhere
<1>6. Fresh(x) => Fresh(x)'
  BY DEF Fresh, DistinctServices
<1> QED BY <1>1, <1>4, <1>5, <1>6 DEF HandlerPlan

(* ... and the plans in the collection, as long as it is not written.      *)
LEMMA SameStore ==
    ASSUME PlanInv, UNCHANGED scheduling, requests \subseteq requests'
    PROVE  StoredPlans'
PROOF
  BY DEF PlanInv, StoredPlans, Storable, Wellformed, WaitingLast, DistinctServices,
         Requested, InProgress, NoneWaiting

(* The stages in which a worker holds no plan.                             *)
NoPlanHeld == Stages \ {"step", "call", "first_step", "first_call",
                        "replace", "disable", "insert"}

LEMMA NoPlanStep ==
    ASSUME PlanInv, NEW w \in Workers, NEW st \in NoPlanHeld,
           Goto(w, st), UNCHANGED <<scheduling, requests>>,
           \A x \in Workers : x # w =>
               /\ msg'[x] = msg[x] /\ sched'[x] = sched[x] /\ schedId'[x] = schedId[x]
    PROVE  StoredPlans' /\ HandlersPlans'
PROOF
<1>1. stage'[w] = st /\ \A x \in Workers : x # w => stage'[x] = stage[x]
  BY DEF Goto, PlanInv, TypeOK
<1>2. HandlerPlan(w)'
  BY <1>1 DEF HandlerPlan, NoPlanHeld
<1> QED BY <1>1, <1>2, OtherHandlers, SameStore

LEMMA FinishPlan ==
    ASSUME PlanInv, NEW w \in Workers, Finish(w), UNCHANGED <<scheduling, requests>>
    PROVE  StoredPlans' /\ HandlersPlans'
PROOF
<1>1. "idle" \in NoPlanHeld
  BY DEF NoPlanHeld, Stages
<1> QED BY <1>1, NoPlanStep DEF Finish, ForgetLocals, PlanInv, TypeOK

(* Receiving a message and the handlers of the catalog hold no plan.       *)
LEMMA PlansApart ==
    ASSUME PlanInv, NEW w \in Workers,
           \/ Receive(w) \/ ReceiveCheck(w) \/ Crash(w)
           \/ ReadDeployed(w) \/ ReadCleaned(w) \/ ReadImage(w) \/ ReadSanity(w)
           \/ SaveService(w) \/ LogPhase(w) \/ DispatchNewVersion(w)
           \/ Solve(w) \/ SolveBestPhase(w)
    PROVE  StoredPlans' /\ HandlersPlans'
PROOF
<1>1. \A k : FirstStage(k) \in NoPlanHeld
  BY DEF FirstStage, NoPlanHeld, Stages
<1>2. {"save", "log", "dispatch", "continue", "best", "build"} \subseteq NoPlanHeld
  BY DEF NoPlanHeld, Stages
<1>3. UNCHANGED <<scheduling, requests>>
  BY DEF Receive, ReceiveCheck, Take, Crash, ReadDeployed, ReadCleaned, ReadImage,
         ReadSanity, SaveService, LogPhase, DispatchNewVersion, Solve, SolveBestPhase, store
<1>4. ASSUME NEW e, Rewrite(w, e) PROVE StoredPlans' /\ HandlersPlans'
  BY <1>2, <1>3, <1>4, NoPlanStep DEF Rewrite
<1>5. CASE Receive(w) \/ ReceiveCheck(w)
  <2>1. PICK m : Take(w, m)
    BY <1>5 DEF Receive, ReceiveCheck
  <2> QED BY <1>1, <1>3, <2>1, NoPlanStep DEF Take, locals, PlanInv, TypeOK
<1>6. CASE Crash(w)
  BY <1>1, <1>3, <1>6, NoPlanStep DEF Crash, ForgetLocals, PlanInv, TypeOK
<1>7. CASE ReadDeployed(w) \/ ReadCleaned(w) \/ ReadImage(w) \/ ReadSanity(w)
  BY <1>3, <1>4, <1>7, FinishPlan DEF ReadDeployed, ReadCleaned, ReadImage, ReadSanity
<1>8. CASE SaveService(w) \/ LogPhase(w) \/ DispatchNewVersion(w)
  BY <1>2, <1>3, <1>8, FinishPlan, NoPlanStep
  DEF SaveService, LogPhase, DispatchNewVersion, locals
<1>9. CASE Solve(w) \/ SolveBestPhase(w)
  BY <1>2, <1>3, <1>9, FinishPlan, NoPlanStep DEF Solve, SolveBestPhase
<1> QED BY <1>5, <1>6, <1>7, <1>8, <1>9

LEMMA PlansContinue ==
    ASSUME PlanInv, TypeOK', NEW w \in Workers, ContinuePlan(w)
    PROVE  StoredPlans' /\ HandlersPlans'
PROOF
<1> DEFINE s == msg[w].service
<1>1. UNCHANGED <<scheduling, requests>>
  BY DEF ContinuePlan, store
<1>2. CASE Finish(w)
  BY <1>1, <1>2, FinishPlan
<1>3. CASE ~Finish(w)
  <2>1. PICK i \in Running : \E u \in UpdatedStep(scheduling[i], s) :
          /\ schedId' = [schedId EXCEPT ![w] = i]
          /\ \/ /\ NextStep(scheduling[i], s) = {}
                /\ sched' = [sched EXCEPT ![w] =
                      [SetStep(scheduling[i], u, "done") EXCEPT !.state = "done"]]
                /\ Goto(w, "replace")
             \/ /\ NextStep(scheduling[i], s) # {}
                /\ sched' = [sched EXCEPT ![w] = SetStep(scheduling[i], u, "done")]
                /\ Goto(w, "step")
          /\ UNCHANGED <<msg, entry, goals>>
    BY <1>3 DEF ContinuePlan
  <2> DEFINE p == scheduling[i]
  <2>2. i \in DOMAIN scheduling /\ p \in Plan /\ p.state = "running" /\ Storable(p)
    BY DEF Running, PlanInv, TypeOK, StoredPlans
  <2>3. PICK u \in UpdatedStep(p, s) :
          /\ schedId' = [schedId EXCEPT ![w] = i]
          /\ \/ /\ NextStep(p, s) = {}
                /\ sched' = [sched EXCEPT ![w] =
                      [SetStep(p, u, "done") EXCEPT !.state = "done"]]
                /\ Goto(w, "replace")
             \/ /\ NextStep(p, s) # {}
                /\ sched' = [sched EXCEPT ![w] = SetStep(p, u, "done")]
                /\ Goto(w, "step")
          /\ UNCHANGED <<msg, entry, goals>>
    BY <2>1
  <2> HIDE DEF p
  <2> DEFINE q == SetStep(p, u, "done")
  <2>4. /\ NextStep(p, s) = {} => Storable([q EXCEPT !.state = "done"])
        /\ NextStep(p, s) # {} =>
              /\ Wellformed(q) /\ q.state = "running"
              /\ \A n \in DOMAIN q.steps :
                    q.steps[n].service = s => q.steps[n].state # "waiting"
              /\ NextStep(q, s) # {}
    BY <2>2, UpdatedPlan DEF Storable
  <2> HIDE DEF q
  <2>5. /\ schedId'[w] = i /\ msg' = msg
        /\ \A x \in Workers : x # w =>
              stage'[x] = stage[x] /\ sched'[x] = sched[x] /\ schedId'[x] = schedId[x]
    BY <2>3 DEF Goto, PlanInv, TypeOK
  <2>6. HandlerPlan(w)'
    <3>1. CASE NextStep(p, s) = {}
      <4>1. stage'[w] = "replace" /\ sched'[w] = [q EXCEPT !.state = "done"]
        BY <2>3, <3>1 DEF Goto, PlanInv, TypeOK, q
      <4>2. Storable(sched[w])'
        BY <1>1, <2>4, <3>1, <4>1
        DEF Storable, Wellformed, WaitingLast, DistinctServices, Requested,
            InProgress, NoneWaiting
      <4> QED BY <1>1, <2>2, <2>5, <4>1, <4>2 DEF HandlerPlan
    <3>2. CASE NextStep(p, s) # {}
      <4>1. stage'[w] = "step" /\ sched'[w] = q
        BY <2>3, <3>2 DEF Goto, PlanInv, TypeOK, q
      <4>2. Wellformed(sched[w])'
        BY <1>1, <2>4, <3>2, <4>1
        DEF Wellformed, WaitingLast, DistinctServices, Requested
      <4>3. Continuing(w)'
        BY <2>4, <2>5, <3>2, <4>1, <4>2 DEF Continuing, NextStep, WaitingElsewhere
      <4> QED BY <1>1, <2>2, <2>5, <4>1, <4>3 DEF HandlerPlan
    <3> QED BY <3>1, <3>2
  <2> QED BY <1>1, <2>5, <2>6, OtherHandlers, SameStore
<1> QED BY <1>2, <1>3

LEMMA PlansRunStep ==
    ASSUME PlanInv, TypeOK', NEW w \in Workers, RunStep(w)
    PROVE  StoredPlans' /\ HandlersPlans'
PROOF
<1>1. UNCHANGED <<scheduling, requests>>
  BY DEF RunStep, store
<1>2. CASE Finish(w)
  BY <1>1, <1>2, FinishPlan
<1>3. CASE ~Finish(w)
  <2>1. /\ stage[w] \in {"step", "first_step"}
        /\ Goto(w, IF stage[w] = "step" THEN "call" ELSE "first_call")
        /\ UNCHANGED <<msg, locals>>
    BY <1>3 DEF RunStep
  <2>2. /\ stage'[w] = IF stage[w] = "step" THEN "call" ELSE "first_call"
        /\ \A x \in Workers : x # w => stage'[x] = stage[x]
    BY <2>1 DEF Goto, PlanInv, TypeOK
  <2>3. HandlerPlan(w)
    BY DEF PlanInv, HandlersPlans
  <2>4. HandlerPlan(w)'
    BY <1>1, <2>1, <2>2, <2>3
    DEF HandlerPlan, locals, Continuing, Fresh, Wellformed, WaitingLast,
        DistinctServices, Requested, NextStep, WaitingElsewhere
  <2> QED BY <1>1, <2>1, <2>2, <2>4, OtherHandlers, SameStore DEF locals
<1> QED BY <1>2, <1>3

LEMMA PlansCall ==
    ASSUME PlanInv, TypeOK', NEW w \in Workers, CallOverseer(w)
    PROVE  StoredPlans' /\ HandlersPlans'
PROOF
<1>1. UNCHANGED scheduling
  BY DEF CallOverseer, store
<1>2. CASE Finish(w) /\ UNCHANGED requests
  BY <1>1, <1>2, FinishPlan
<1>3. CASE ~(Finish(w) /\ UNCHANGED requests)
  <2>1. PICK n \in Launched(w) :
          /\ requests' = requests \cup
                 {<<sched[w].steps[n].service, sched[w].steps[n].to>>}
          /\ sched' = [sched EXCEPT ![w] = SetStep(@, n, "running")]
          /\ Goto(w, IF stage[w] = "call" THEN "replace" ELSE "disable")
          /\ UNCHANGED <<msg, entry, schedId, goals>>
    BY <1>3 DEF CallOverseer
  <2>2. stage[w] \in {"call", "first_call"}
    BY DEF CallOverseer
  <2>3. /\ sched'[w] = SetStep(sched[w], n, "running")
        /\ stage'[w] = IF stage[w] = "call" THEN "replace" ELSE "disable"
        /\ \A x \in Workers : x # w => stage'[x] = stage[x] /\ sched'[x] = sched[x]
    BY <2>1 DEF Goto, PlanInv, TypeOK
  <2>4. Storable(sched[w])'
    BY <2>1, <2>2, <2>3, LaunchedPlan
  <2>5. HandlerPlan(w)
    BY DEF PlanInv, HandlersPlans
  <2>6. HandlerPlan(w)'
    BY <1>1, <2>1, <2>2, <2>3, <2>4, <2>5 DEF HandlerPlan
  <2> QED BY <1>1, <2>1, <2>3, <2>6, OtherHandlers, SameStore
<1> QED BY <1>2, <1>3

(* The three writes to the collection.                                     *)
LEMMA PlansWritten ==
    ASSUME PlanInv, TypeOK', NEW w \in Workers,
           ReplacePlan(w) \/ DisableScheduled(w) \/ InsertPlan(w)
    PROVE  StoredPlans' /\ HandlersPlans'
PROOF
<1>1. UNCHANGED requests
  BY DEF ReplacePlan, DisableScheduled, InsertPlan
<1>2. ASSUME NEW i \in DOMAIN scheduling', NEW p, Storable(p), scheduling'[i] = p
      PROVE  Storable(scheduling[i])'
  BY <1>1, <1>2
  DEF Storable, Wellformed, WaitingLast, DistinctServices, Requested, InProgress, NoneWaiting
<1>3. \A i \in DOMAIN scheduling : scheduling[i] \in Plan /\ Storable(scheduling[i])
  BY DEF PlanInv, TypeOK, StoredPlans
<1>4. CASE ReplacePlan(w)
  <2>1. /\ schedId[w] \in DOMAIN scheduling /\ sched[w] \in Plan /\ Storable(sched[w])
        /\ scheduling' = [scheduling EXCEPT ![schedId[w]] = sched[w]]
    BY <1>4 DEF ReplacePlan, PlanInv, TypeOK, HandlersPlans, HandlerPlan
  <2>2. DOMAIN scheduling' = DOMAIN scheduling
    BY <2>1
  <2>3. StoredPlans'
    BY <1>2, <1>3, <2>1, <2>2 DEF StoredPlans
  <2>4. HandlerPlan(w)'
    BY <1>4 DEF ReplacePlan, Finish, Goto, HandlerPlan, PlanInv, TypeOK
  <2>5. HandlersPlans'
    BY <1>1, <1>4, <2>2, <2>4, OtherHandlers
    DEF ReplacePlan, Finish, Goto, ForgetLocals, PlanInv, TypeOK
  <2> QED BY <2>3, <2>5
<1>5. CASE DisableScheduled(w)
  <2>1. scheduling' = [i \in DOMAIN scheduling |->
                         IF i \in Running THEN [scheduling[i] EXCEPT !.state = "aborded"]
                                          ELSE scheduling[i]]
    BY <1>5 DEF DisableScheduled
  <2>2. DOMAIN scheduling' = DOMAIN scheduling
    BY <2>1
  <2>3. ASSUME NEW p \in Plan, Storable(p) PROVE Storable([p EXCEPT !.state = "aborded"])
    BY <2>3
    DEF Plan, Storable, Wellformed, WaitingLast, DistinctServices, Requested
  <2>4. StoredPlans'
    <3> SUFFICES ASSUME NEW i \in DOMAIN scheduling' PROVE Storable(scheduling[i])'
      BY DEF StoredPlans
    <3>1. CASE i \in Running
      <4>1. scheduling'[i] = [scheduling[i] EXCEPT !.state = "aborded"]
        BY <2>1, <2>2, <3>1
      <4>2. Storable([scheduling[i] EXCEPT !.state = "aborded"])
        BY <1>3, <2>2, <2>3
      <4> QED BY <1>2, <4>1, <4>2
    <3>2. CASE i \notin Running
      <4>1. scheduling'[i] = scheduling[i] /\ Storable(scheduling[i])
        BY <1>3, <2>1, <2>2, <3>2
      <4> QED BY <1>2, <4>1
    <3> QED BY <3>1, <3>2
  <2>5. HandlerPlan(w)
    BY DEF PlanInv, HandlersPlans
  <2>6. /\ stage[w] = "disable" /\ stage'[w] = "insert" /\ UNCHANGED <<msg, locals>>
        /\ \A x \in Workers : x # w => stage'[x] = stage[x]
    BY <1>5 DEF DisableScheduled, Goto, PlanInv, TypeOK
  <2>7. HandlerPlan(w)'
    BY <1>1, <2>5, <2>6
    DEF HandlerPlan, locals, Storable, Wellformed, WaitingLast, DistinctServices,
        Requested, InProgress, NoneWaiting
  <2> QED BY <1>1, <2>2, <2>4, <2>6, <2>7, OtherHandlers DEF locals
<1>6. CASE InsertPlan(w)
  <2>1. /\ scheduling' = Append(scheduling, sched[w]) /\ Storable(sched[w])
        /\ scheduling \in Seq(Plan)
    BY <1>6 DEF InsertPlan, PlanInv, TypeOK, HandlersPlans, HandlerPlan
  <2>2. /\ DOMAIN scheduling \subseteq DOMAIN scheduling'
        /\ \A i \in DOMAIN scheduling' :
              \/ i \in DOMAIN scheduling /\ scheduling'[i] = scheduling[i]
              \/ scheduling'[i] = sched[w]
    BY <2>1
  <2>3. StoredPlans'
    BY <1>2, <1>3, <2>1, <2>2 DEF StoredPlans
  <2>4. HandlerPlan(w)'
    BY <1>6 DEF InsertPlan, Finish, Goto, HandlerPlan, PlanInv, TypeOK
  <2>5. HandlersPlans'
    BY <1>1, <1>6, <2>2, <2>4, OtherHandlers
    DEF InsertPlan, Finish, Goto, ForgetLocals, PlanInv, TypeOK
  <2> QED BY <2>3, <2>5
<1> QED BY <1>4, <1>5, <1>6

LEMMA PlansBuild ==
    ASSUME PlanInv, TypeOK', NEW w \in Workers, BuildSteps(w)
    PROVE  StoredPlans' /\ HandlersPlans'
PROOF
<1>1. UNCHANGED <<scheduling, requests>>
  BY DEF BuildSteps, store
<1>2. CASE Finish(w)
  BY <1>1, <1>2, FinishPlan
<1>3. CASE ~Finish(w)
  <2>1. PICK g \in goals[w] :
          /\ DOMAIN g \subseteq Catalogued /\ Moved(g) # {}
          /\ \E o \in SafeOrders(g) : sched' = [sched EXCEPT ![w] = PlanFor(g, o)]
          /\ Goto(w, "first_step")
          /\ UNCHANGED <<msg, entry, schedId>>
    BY <1>3 DEF BuildSteps
  <2>2. PICK o \in SafeOrders(g) : sched' = [sched EXCEPT ![w] = PlanFor(g, o)]
    BY <2>1
  <2>3. g \in Phase /\ catalog \in [Services -> Entry \cup {NoEntry}]
    BY <2>1 DEF PlanInv, TypeOK
  <2> DEFINE q == PlanFor(g, o)
  <2>4. /\ q.state = "running" /\ q.steps # <<>> /\ DistinctServices(q)
        /\ \A n \in DOMAIN q.steps : q.steps[n].state = "waiting"
    BY <2>1, <2>3, PlanForFacts
  <2> HIDE DEF q
  <2>5. /\ sched'[w] = q /\ stage'[w] = "first_step"
        /\ \A x \in Workers : x # w => stage'[x] = stage[x] /\ sched'[x] = sched[x]
    BY <2>1, <2>2 DEF Goto, PlanInv, TypeOK, q
  <2>6. HandlerPlan(w)'
    BY <2>4, <2>5 DEF HandlerPlan, Fresh, DistinctServices
  <2> QED BY <1>1, <2>1, <2>5, <2>6, OtherHandlers, SameStore
<1> QED BY <1>2, <1>3

-----------------------------------------------------------------------------
(* The theorems                                                            *)

LEMMA PlanInvInit == Init => PlanInv
PROOF
<1> SUFFICES ASSUME Init PROVE PlanInv
  OBVIOUS
<1>1. TypeOK
  BY TypeInit
<1>2. StoredPlans
  BY DEF Init, StoredPlans
<1>3. HandlersPlans
  BY DEF Init, HandlersPlans, HandlerPlan
<1> QED BY <1>1, <1>2, <1>3 DEF PlanInv

LEMMA PlanInvNext == PlanInv /\ [Next]_vars => PlanInv'
PROOF
<1> SUFFICES ASSUME PlanInv, [Next]_vars PROVE PlanInv'
  OBVIOUS
<1>1. TypeOK'
  BY TypeNext
<1>2. StoredPlans' /\ HandlersPlans'
  <2>1. CASE Quiet \/ UNCHANGED vars
    <3>1. UNCHANGED <<scheduling, requests, stage, msg, sched, schedId>>
      BY <2>1 DEF Quiet, vars
    <3>2. StoredPlans'
      BY <3>1, SameStore
    <3>3. ASSUME NEW w \in Workers PROVE HandlerPlan(w)'
      <4>1. HandlerPlan(w)
        BY DEF PlanInv, HandlersPlans
      <4> QED
        BY <3>1, <4>1
        DEF HandlerPlan, Storable, Continuing, Fresh, Wellformed, WaitingLast,
            DistinctServices, Requested, InProgress, NoneWaiting, NextStep,
            WaitingElsewhere
    <3> QED BY <3>2, <3>3 DEF HandlersPlans
  <2>2. CASE \E w \in Workers : Receive(w) \/ ReceiveCheck(w) \/ Crash(w) \/ Work(w)
    BY <1>1, <2>2, PlansApart, PlansContinue, PlansRunStep, PlansCall, PlansWritten,
       PlansBuild
    DEF Work
  <2> QED BY <2>1, <2>2 DEF Next
<1> QED BY <1>1, <1>2 DEF PlanInv

(* The stored plans and the copies in the handlers always satisfy the      *)
(* inductive invariant: whatever the handlers' interleaving, and whatever  *)
(* stale copy one of them writes back.                                     *)
THEOREM PlanInvariant == Spec => []PlanInv
PROOF
  BY PlanInvInit, PlanInvNext, PTL DEF Spec

(* The collections and the handlers' local variables keep their types.     *)
THEOREM TypeCorrect == Spec => []TypeOK
PROOF
<1>1. PlanInv => TypeOK
  BY DEF PlanInv
<1> QED BY <1>1, PlanInvariant, PTL

(* The steps of a stored plan are launched in its order.                   *)
THEOREM LaunchOrder == Spec => []StepsLaunchedInOrder
PROOF
<1>1. PlanInv => StepsLaunchedInOrder
  BY DEF PlanInv, StoredPlans, Storable, Wellformed, StepsLaunchedInOrder
<1> QED BY <1>1, PlanInvariant, PTL

(* A running plan has a step it waits for, and a plan marked done has left *)
(* no step waiting.                                                        *)
THEOREM Progress == Spec => []PlanProgress
PROOF
<1>1. PlanInv => PlanProgress
  BY DEF PlanInv, StoredPlans, Storable, PlanProgress
<1> QED BY <1>1, PlanInvariant, PTL

(* A step a plan shows as running was accepted by the overseer.            *)
THEOREM NoPhantomStep == Spec => []RunningStepsRequested
PROOF
<1>1. PlanInv => RunningStepsRequested
  BY DEF PlanInv, StoredPlans, Storable, Wellformed, RunningStepsRequested
<1> QED BY <1>1, PlanInvariant, PTL

-----------------------------------------------------------------------------
(* What UpgradePlaner promises with a single worker (one instance with     *)
(* max_workers at 1): one running plan at a time, and the lifecycle of     *)
(* PlanLifecycle.                                                          *)

(* What a handler's copy p becomes, compared with the plan it was read     *)
(* from: a step of the updated service is marked done; then the next       *)
(* waiting one is launched, or the plan is done.                           *)
Marked(p, q, s) ==
    NextStep(p, s) # {} /\ \E u \in UpdatedStep(p, s) : q = SetStep(p, u, "done")

Advanced(p, q) ==
    \E u, n \in DOMAIN p.steps :
        /\ u < n
        /\ p.steps[n].state = "waiting"
        /\ \A j \in 1 .. n - 1 : j # u => p.steps[j].state # "waiting"
        /\ q = SetStep(SetStep(p, u, "done"), n, "running")

Completed(p, q) ==
    \E u \in DOMAIN p.steps :
        /\ \A n \in DOMAIN p.steps : n # u => p.steps[n].state # "waiting"
        /\ q = [SetStep(p, u, "done") EXCEPT !.state = "done"]

(* While the only worker continues a plan, that plan stays the running one *)
(* and unchanged; when it inserts a plan, the others were disabled.        *)
SoloHandler(w) ==
    /\ stage[w] \in {"step", "call", "replace"} => schedId[w] \in Running
    /\ stage[w] \in {"step", "call"} =>
          Marked(scheduling[schedId[w]], sched[w], msg[w].service)
    /\ stage[w] = "replace" =>
          \/ Advanced(scheduling[schedId[w]], sched[w])
          \/ Completed(scheduling[schedId[w]], sched[w])
    /\ stage[w] \in {"disable", "insert"} => Lifecycle!JustLaunched(sched[w])
    /\ stage[w] = "insert" => Running = {}

OneRunning == \A i, j \in Running : i = j

SoloInv == PlanInv /\ OneRunning /\ \A w \in Workers : SoloHandler(w)

-----------------------------------------------------------------------------
(* Lemmas on plans                                                         *)

(* Launching the next step of a plan whose updated step is marked.         *)
LEMMA MarkedAdvances ==
    ASSUME NEW p \in Plan, Wellformed(p), NEW s, NEW q, Marked(p, q, s),
           NEW n \in NextStep(q, s)
    PROVE  Advanced(p, SetStep(q, n, "running"))
PROOF
<1>1. PICK u \in UpdatedStep(p, s) : q = SetStep(p, u, "done")
  BY DEF Marked
<1>2. u \in DOMAIN p.steps /\ p.steps[u].service = s /\ \A m \in NextStep(p, s) : u < m
  BY DEF UpdatedStep
<1>3. /\ DOMAIN q.steps = DOMAIN p.steps
      /\ \A j \in DOMAIN p.steps :
            /\ q.steps[j].service = p.steps[j].service
            /\ q.steps[j].state = IF j = u THEN "done" ELSE p.steps[j].state
  BY <1>1, <1>2, SetStepFacts DEF States
<1>4. n \in NextStep(p, s)
  BY <1>2, <1>3 DEF NextStep, WaitingElsewhere
<1>5. /\ n \in DOMAIN p.steps /\ p.steps[n].state = "waiting" /\ u < n
      /\ \A j \in WaitingElsewhere(p, s) : n <= j
  BY <1>2, <1>4 DEF NextStep, WaitingElsewhere
<1>6. ASSUME NEW j \in 1 .. n - 1, j # u PROVE p.steps[j].state # "waiting"
  <2>1. p.steps \in Seq(Step)
    BY DEF Plan
  <2>2. j \in DOMAIN p.steps /\ ~(n <= j)
    BY <1>5, <1>6, <2>1
  <2>3. p.steps[j].service # s
    BY <1>2, <1>6, <2>2 DEF Wellformed, DistinctServices
  <2> QED BY <1>5, <2>2, <2>3 DEF WaitingElsewhere
<1> QED BY <1>1, <1>2, <1>5, <1>6 DEF Advanced

(* Marking the updated step of a plan in which no other one waits.         *)
LEMMA MarkedCompletes ==
    ASSUME NEW p \in Plan, Wellformed(p), NEW s, NextStep(p, s) = {},
           NEW u \in UpdatedStep(p, s)
    PROVE  Completed(p, [SetStep(p, u, "done") EXCEPT !.state = "done"])
PROOF
<1>1. u \in DOMAIN p.steps /\ p.steps[u].service = s
  BY DEF UpdatedStep
<1>2. WaitingElsewhere(p, s) = {}
  <2>1. WaitingElsewhere(p, s) \in SUBSET Nat
    BY DEF WaitingElsewhere, Plan
  <2> QED BY <2>1, LeastElement DEF NextStep
<1>3. \A n \in DOMAIN p.steps : n # u => p.steps[n].state # "waiting"
  BY <1>1, <1>2 DEF WaitingElsewhere, Wellformed, DistinctServices
<1> QED BY <1>1, <1>3 DEF Completed

(* Neither leaves a second running plan: the plan keeps its state, or ends.*)
LEMMA Rewritten ==
    ASSUME NEW i \in Running, OneRunning, NEW q,
           scheduling' = [scheduling EXCEPT ![i] = q]
    PROVE  OneRunning'
PROOF
  BY DEF OneRunning, Running

-----------------------------------------------------------------------------
(* The steps of the only worker                                            *)

(* A step that keeps the collection and leaves the worker without a plan.  *)
SoloApart == Stages \ {"step", "call", "replace", "disable", "insert"}

LEMMA SoloKeeps ==
    ASSUME SoloInv, NEW w, Workers = {w}, UNCHANGED scheduling, stage'[w] \in SoloApart
    PROVE  OneRunning' /\ SoloHandler(w)'
PROOF
  BY DEF SoloInv, OneRunning, Running, SoloHandler, SoloApart

LEMMA SoloFinish ==
    ASSUME SoloInv, NEW w, Workers = {w}, Finish(w), UNCHANGED scheduling
    PROVE  OneRunning' /\ SoloHandler(w)'
PROOF
<1>1. stage'[w] = "idle"
  BY DEF Finish, Goto, SoloInv, PlanInv, TypeOK
<1> QED BY <1>1, SoloKeeps DEF SoloApart, Stages

LEMMA SoloOthers ==
    ASSUME SoloInv, NEW w, Workers = {w},
           \/ Receive(w) \/ ReceiveCheck(w) \/ Crash(w)
           \/ ReadDeployed(w) \/ ReadCleaned(w) \/ ReadImage(w) \/ ReadSanity(w)
           \/ SaveService(w) \/ LogPhase(w) \/ DispatchNewVersion(w)
           \/ Solve(w) \/ SolveBestPhase(w) \/ BuildSteps(w)
    PROVE  OneRunning' /\ SoloHandler(w)'
PROOF
<1>1. UNCHANGED scheduling
  BY DEF Receive, ReceiveCheck, Take, Crash, ReadDeployed, ReadCleaned, ReadImage,
         ReadSanity, SaveService, LogPhase, DispatchNewVersion, Solve, SolveBestPhase,
         BuildSteps, store
<1>2. ASSUME NEW st \in SoloApart, Goto(w, st) PROVE OneRunning' /\ SoloHandler(w)'
  <2>1. stage'[w] = st
    BY <1>2 DEF Goto, SoloInv, PlanInv, TypeOK
  <2> QED BY <1>1, <2>1, SoloKeeps
<1>3. {"save", "log", "dispatch", "continue", "best", "build", "first_step"}
          \subseteq SoloApart
  BY DEF SoloApart, Stages
<1>4. \A k : FirstStage(k) \in SoloApart
  BY DEF FirstStage, SoloApart, Stages
<1>5. CASE Receive(w) \/ ReceiveCheck(w)
  <2>1. PICK m : Take(w, m)
    BY <1>5 DEF Receive, ReceiveCheck
  <2> QED BY <1>2, <1>4, <2>1 DEF Take
<1>6. CASE Crash(w)
  BY <1>2, <1>4, <1>6 DEF Crash
<1>7. CASE ReadDeployed(w) \/ ReadCleaned(w) \/ ReadImage(w) \/ ReadSanity(w)
  BY <1>1, <1>2, <1>3, <1>7, SoloFinish
  DEF ReadDeployed, ReadCleaned, ReadImage, ReadSanity, Rewrite
<1>8. CASE SaveService(w) \/ LogPhase(w) \/ DispatchNewVersion(w)
  BY <1>1, <1>2, <1>3, <1>8, SoloFinish DEF SaveService, LogPhase, DispatchNewVersion
<1>9. CASE Solve(w) \/ SolveBestPhase(w) \/ BuildSteps(w)
  BY <1>1, <1>2, <1>3, <1>9, SoloFinish DEF Solve, SolveBestPhase, BuildSteps
<1> QED BY <1>5, <1>6, <1>7, <1>8, <1>9

LEMMA SoloContinue ==
    ASSUME SoloInv, NEW w, Workers = {w}, ContinuePlan(w)
    PROVE  OneRunning' /\ SoloHandler(w)'
PROOF
<1> DEFINE s == msg[w].service
<1>1. UNCHANGED scheduling
  BY DEF ContinuePlan, store
<1>2. CASE Finish(w)
  BY <1>1, <1>2, SoloFinish
<1>3. CASE ~Finish(w)
  <2>1. PICK i \in Running : \E u \in UpdatedStep(scheduling[i], s) :
          /\ schedId' = [schedId EXCEPT ![w] = i]
          /\ \/ /\ NextStep(scheduling[i], s) = {}
                /\ sched' = [sched EXCEPT ![w] =
                      [SetStep(scheduling[i], u, "done") EXCEPT !.state = "done"]]
                /\ Goto(w, "replace")
             \/ /\ NextStep(scheduling[i], s) # {}
                /\ sched' = [sched EXCEPT ![w] = SetStep(scheduling[i], u, "done")]
                /\ Goto(w, "step")
          /\ UNCHANGED <<msg, entry, goals>>
    BY <1>3 DEF ContinuePlan
  <2>2. PICK u \in UpdatedStep(scheduling[i], s) :
          /\ schedId'[w] = i /\ msg' = msg
          /\ \/ /\ NextStep(scheduling[i], s) = {}
                /\ sched'[w] = [SetStep(scheduling[i], u, "done") EXCEPT !.state = "done"]
                /\ stage'[w] = "replace"
             \/ /\ NextStep(scheduling[i], s) # {}
                /\ sched'[w] = SetStep(scheduling[i], u, "done")
                /\ stage'[w] = "step"
    BY <2>1 DEF Goto, SoloInv, PlanInv, TypeOK
  <2>3. scheduling[i] \in Plan /\ Wellformed(scheduling[i])
    BY DEF Running, SoloInv, PlanInv, TypeOK, StoredPlans, Storable
  <2>4. Running' = Running /\ OneRunning'
    BY <1>1 DEF Running, OneRunning, SoloInv
  <2>5. CASE NextStep(scheduling[i], s) = {}
    <3>1. Completed(scheduling[i], sched'[w])
      BY <2>2, <2>3, <2>5, MarkedCompletes
    <3>2. Completed(scheduling[schedId[w]], sched[w])'
      BY <1>1, <2>2, <3>1
    <3> QED BY <2>2, <2>4, <2>5, <3>2 DEF SoloHandler
  <2>6. CASE NextStep(scheduling[i], s) # {}
    <3>1. Marked(scheduling[i], sched'[w], s)
      BY <2>2, <2>6 DEF Marked
    <3>2. Marked(scheduling[schedId[w]], sched[w], msg[w].service)'
      BY <1>1, <2>2, <3>1
    <3> QED BY <2>2, <2>4, <2>6, <3>2 DEF SoloHandler
  <2> QED BY <2>5, <2>6
<1> QED BY <1>2, <1>3

LEMMA SoloRunStep ==
    ASSUME SoloInv, NEW w, Workers = {w}, RunStep(w)
    PROVE  OneRunning' /\ SoloHandler(w)'
PROOF
<1>1. UNCHANGED scheduling
  BY DEF RunStep, store
<1>2. CASE Finish(w)
  BY <1>1, <1>2, SoloFinish
<1>3. CASE ~Finish(w)
  <2>1. /\ stage'[w] = IF stage[w] = "step" THEN "call" ELSE "first_call"
        /\ stage[w] \in {"step", "first_step"}
        /\ UNCHANGED <<msg, sched, schedId>>
    BY <1>3 DEF RunStep, Goto, locals, SoloInv, PlanInv, TypeOK
  <2>2. Running' = Running /\ OneRunning'
    BY <1>1 DEF Running, OneRunning, SoloInv
  <2>3. SoloHandler(w)
    BY DEF SoloInv
  <2>4. CASE stage[w] = "step"
    <3>1. Marked(scheduling[schedId[w]], sched[w], msg[w].service)'
      BY <1>1, <2>1, <2>3, <2>4 DEF SoloHandler
    <3> QED BY <2>1, <2>2, <2>3, <2>4, <3>1 DEF SoloHandler
  <2>5. CASE stage[w] = "first_step"
    BY <1>1, <2>1, <2>5, SoloKeeps DEF SoloApart, Stages
  <2> QED BY <2>1, <2>4, <2>5
<1> QED BY <1>2, <1>3

LEMMA SoloCall ==
    ASSUME SoloInv, NEW w, Workers = {w}, CallOverseer(w)
    PROVE  OneRunning' /\ SoloHandler(w)'
PROOF
<1>1. UNCHANGED scheduling
  BY DEF CallOverseer, store
<1>2. CASE Finish(w)
  BY <1>1, <1>2, SoloFinish
<1>3. CASE ~Finish(w)
  <2>1. PICK n \in Launched(w) :
          /\ sched' = [sched EXCEPT ![w] = SetStep(@, n, "running")]
          /\ Goto(w, IF stage[w] = "call" THEN "replace" ELSE "disable")
          /\ UNCHANGED <<msg, entry, schedId, goals>>
    BY <1>3 DEF CallOverseer
  <2>2. /\ stage[w] \in {"call", "first_call"}
        /\ stage'[w] = IF stage[w] = "call" THEN "replace" ELSE "disable"
        /\ sched'[w] = SetStep(sched[w], n, "running")
        /\ UNCHANGED schedId
    BY <2>1 DEF CallOverseer, Goto, SoloInv, PlanInv, TypeOK
  <2>3. Running' = Running /\ OneRunning'
    BY <1>1 DEF Running, OneRunning, SoloInv
  <2>4. CASE stage[w] = "call"
    <3>1. /\ schedId[w] \in Running
          /\ Marked(scheduling[schedId[w]], sched[w], msg[w].service)
      BY <2>4 DEF SoloInv, SoloHandler
    <3>2. scheduling[schedId[w]] \in Plan /\ Wellformed(scheduling[schedId[w]])
      BY <3>1 DEF Running, SoloInv, PlanInv, TypeOK, StoredPlans, Storable
    <3>3. n \in NextStep(sched[w], msg[w].service)
      BY <2>4 DEF Launched
    <3>4. Advanced(scheduling[schedId[w]], sched'[w])
      BY <2>2, <3>1, <3>2, <3>3, MarkedAdvances
    <3>5. Advanced(scheduling[schedId[w]], sched[w])'
      BY <1>1, <2>2, <3>4
    <3> QED BY <2>2, <2>3, <2>4, <3>1, <3>5 DEF SoloHandler
  <2>5. CASE stage[w] = "first_call"
    <3>1. Fresh(w) /\ sched[w] \in Plan /\ n = 1 /\ n \in DOMAIN sched[w].steps
      <4>1. n = 1 /\ Fresh(w) /\ sched[w] \in Plan
        BY <2>5 DEF Launched, SoloInv, PlanInv, TypeOK, HandlersPlans, HandlerPlan
      <4> QED BY <4>1 DEF Fresh, Plan
    <3>2. /\ sched'[w].state = "running" /\ DOMAIN sched'[w].steps = DOMAIN sched[w].steps
          /\ \A j \in DOMAIN sched[w].steps :
                sched'[w].steps[j].state = IF j = 1 THEN "running" ELSE "waiting"
      <4> DEFINE p == sched[w]
                 q == SetStep(p, 1, "running")
      <4>1. /\ q.state = p.state /\ DOMAIN q.steps = DOMAIN p.steps
            /\ \A j \in DOMAIN p.steps :
                  q.steps[j].state = IF j = 1 THEN "running" ELSE p.steps[j].state
        BY <3>1, SetStepFacts DEF States
      <4>2. sched'[w] = q
        BY <2>2, <3>1
      <4> HIDE DEF q
      <4> QED BY <3>1, <4>1, <4>2 DEF Fresh
    <3>3. Lifecycle!JustLaunched(sched[w])'
      BY <3>2 DEF Lifecycle!JustLaunched
    <3> QED BY <2>2, <2>3, <2>5, <3>3 DEF SoloHandler
  <2> QED BY <2>2, <2>4, <2>5
<1> QED BY <1>2, <1>3

(* The three writes to the collection.                                     *)
LEMMA SoloWrites ==
    ASSUME SoloInv, NEW w, Workers = {w},
           ReplacePlan(w) \/ DisableScheduled(w) \/ InsertPlan(w)
    PROVE  OneRunning' /\ SoloHandler(w)'
PROOF
<1>1. ASSUME Finish(w) PROVE SoloHandler(w)'
  BY <1>1 DEF Finish, Goto, SoloHandler, SoloInv, PlanInv, TypeOK
<1>2. CASE ReplacePlan(w)
  <2>1. schedId[w] \in Running
    BY <1>2 DEF ReplacePlan, SoloInv, SoloHandler
  <2> QED BY <1>1, <1>2, <2>1, Rewritten DEF ReplacePlan, SoloInv
<1>3. CASE DisableScheduled(w)
  <2>1. Running' = {}
    <3>1. \A p \in Plan : [p EXCEPT !.state = "aborded"].state # "running"
      BY DEF Plan
    <3>2. \A i \in DOMAIN scheduling : scheduling[i] \in Plan
      BY DEF SoloInv, PlanInv, TypeOK
    <3>3. /\ DOMAIN scheduling' = DOMAIN scheduling
          /\ \A i \in DOMAIN scheduling :
                scheduling'[i] = IF i \in Running THEN [scheduling[i] EXCEPT !.state = "aborded"]
                                                  ELSE scheduling[i]
      BY <1>3 DEF DisableScheduled
    <3> QED BY <3>1, <3>2, <3>3 DEF Running
  <2>2. stage[w] = "disable" /\ stage'[w] = "insert" /\ UNCHANGED sched
    BY <1>3 DEF DisableScheduled, Goto, locals, SoloInv, PlanInv, TypeOK
  <2>3. Lifecycle!JustLaunched(sched[w])'
    BY <2>2 DEF SoloInv, SoloHandler, Lifecycle!JustLaunched
  <2> QED BY <2>1, <2>2, <2>3 DEF OneRunning, SoloHandler
<1>4. CASE InsertPlan(w)
  <2>1. Running = {} /\ scheduling' = Append(scheduling, sched[w]) /\ scheduling \in Seq(Plan)
    BY <1>4 DEF InsertPlan, SoloInv, SoloHandler, PlanInv, TypeOK
  <2>2. Running' \subseteq {Len(scheduling) + 1}
    BY <2>1 DEF Running
  <2> QED BY <1>1, <1>4, <2>2 DEF InsertPlan, OneRunning
<1> QED BY <1>2, <1>3, <1>4

LEMMA SoloInvInit ==
    ASSUME NEW w, Workers = {w} PROVE Init => SoloInv
PROOF
  BY PlanInvInit DEF Init, SoloInv, OneRunning, Running, SoloHandler

LEMMA SoloInvNext ==
    ASSUME NEW w, Workers = {w} PROVE SoloInv /\ [Next]_vars => SoloInv'
PROOF
<1> SUFFICES ASSUME SoloInv, [Next]_vars PROVE SoloInv'
  OBVIOUS
<1>1. PlanInv'
  BY PlanInvNext DEF SoloInv
<1>2. OneRunning' /\ SoloHandler(w)'
  <2>1. CASE Quiet \/ UNCHANGED vars
    <3>1. UNCHANGED <<scheduling, stage, msg, sched, schedId>>
      BY <2>1 DEF Quiet, vars
    <3> QED
      BY <3>1 DEF SoloInv, OneRunning, Running, SoloHandler
  <2>2. CASE Receive(w) \/ ReceiveCheck(w) \/ Crash(w) \/ Work(w)
    BY <2>2, SoloOthers, SoloContinue, SoloRunStep, SoloCall, SoloWrites DEF Work
  <2> QED BY <2>1, <2>2 DEF Next
<1> QED BY <1>1, <1>2 DEF SoloInv

-----------------------------------------------------------------------------
(* The theorems                                                            *)

(* With a single worker at most one plan is running: starting a plan has   *)
(* disabled the previous one, and continue_scheduled_plan, whose find_one  *)
(* takes any running plan, writes back the one it has read.                *)
THEOREM OnePlanAtATime ==
    ASSUME NEW w, Workers = {w} PROVE Spec => []OneRunningPlan
PROOF
<1>1. SoloInv => OneRunningPlan
  <2> SUFFICES ASSUME SoloInv PROVE OneRunningPlan
    OBVIOUS
  <2>1. CASE Running = {}
    BY <2>1, FS_EmptySet DEF OneRunningPlan
  <2>2. CASE Running # {}
    <3>1. PICK i \in Running : Running = {i}
      BY <2>2 DEF SoloInv, OneRunning
    <3> QED BY <3>1, FS_Singleton DEF OneRunningPlan
  <2> QED BY <2>1, <2>2
<1> QED BY <1>1, SoloInvInit, SoloInvNext, PTL DEF Spec

-----------------------------------------------------------------------------
(* The refinement                                                          *)

LEMMA LifecycleReplace ==
    ASSUME SoloInv, NEW w \in Workers, ReplacePlan(w) PROVE Lifecycle!Next
PROOF
<1> DEFINE i == schedId[w]
<1>1. /\ i \in Running
      /\ Advanced(scheduling[i], sched[w]) \/ Completed(scheduling[i], sched[w])
      /\ scheduling' = [scheduling EXCEPT ![i] = sched[w]]
  BY DEF ReplacePlan, SoloInv, SoloHandler
<1>2. i \in Lifecycle!Unended
  BY <1>1 DEF Running, Lifecycle!Unended
<1>3. CASE Advanced(scheduling[i], sched[w])
  <2>1. PICK u \in DOMAIN scheduling[i].steps, n \in DOMAIN scheduling[i].steps :
          /\ u < n
          /\ scheduling[i].steps[n].state = "waiting"
          /\ \A j \in 1 .. n - 1 : j # u => scheduling[i].steps[j].state # "waiting"
          /\ sched[w] = SetStep(SetStep(scheduling[i], u, "done"), n, "running")
    BY <1>3 DEF Advanced
  <2>2. scheduling' = [scheduling EXCEPT ![i] =
            [Lifecycle!WithDone(@, u) EXCEPT !.steps[n].state = "running"]]
    BY <1>1, <2>1 DEF SetStep, Lifecycle!WithDone
  <2>3. Lifecycle!Advance
    BY <1>2, <2>1, <2>2 DEF Lifecycle!Advance
  <2> QED BY <2>3 DEF Lifecycle!Next
<1>4. CASE Completed(scheduling[i], sched[w])
  <2>1. PICK u \in DOMAIN scheduling[i].steps :
          /\ \A n \in DOMAIN scheduling[i].steps :
                n # u => scheduling[i].steps[n].state # "waiting"
          /\ sched[w] = [SetStep(scheduling[i], u, "done") EXCEPT !.state = "done"]
    BY <1>4 DEF Completed
  <2>2. scheduling' = [scheduling EXCEPT ![i] =
            [Lifecycle!WithDone(@, u) EXCEPT !.state = "done"]]
    BY <1>1, <2>1 DEF SetStep, Lifecycle!WithDone
  <2>3. Lifecycle!Complete
    BY <1>2, <2>1, <2>2 DEF Lifecycle!Complete
  <2> QED BY <2>3 DEF Lifecycle!Next
<1> QED BY <1>1, <1>3, <1>4

LEMMA LifecycleDisable ==
    ASSUME SoloInv, NEW w \in Workers, DisableScheduled(w)
    PROVE  [Lifecycle!Next]_scheduling
PROOF
<1>1. scheduling' = [i \in DOMAIN scheduling |->
                        IF i \in Running THEN [scheduling[i] EXCEPT !.state = "aborded"]
                                         ELSE scheduling[i]]
  BY DEF DisableScheduled
<1>2. scheduling \in Seq(Plan) /\ scheduling = [i \in DOMAIN scheduling |-> scheduling[i]]
  BY DEF SoloInv, PlanInv, TypeOK
<1>3. CASE Running = {}
  BY <1>1, <1>2, <1>3
<1>4. CASE Running # {}
  <2>1. PICK i \in Running : Running = {i}
    BY <1>4 DEF SoloInv, OneRunning
  <2>2. i \in Lifecycle!Unended /\ i \in DOMAIN scheduling
    BY <2>1 DEF Running, Lifecycle!Unended
  <2>3. scheduling' = [scheduling EXCEPT ![i].state = "aborded"]
    BY <1>1, <1>2, <2>1, <2>2
  <2> QED BY <2>2, <2>3 DEF Lifecycle!Disable, Lifecycle!Next
<1> QED BY <1>3, <1>4

LEMMA LifecycleInsert ==
    ASSUME SoloInv, NEW w \in Workers, InsertPlan(w) PROVE Lifecycle!Next
PROOF
<1>1. /\ Running = {} /\ Lifecycle!JustLaunched(sched[w])
      /\ scheduling' = Append(scheduling, sched[w])
      /\ scheduling \in Seq(Plan) /\ sched[w] \in Plan
  BY DEF InsertPlan, SoloInv, SoloHandler, PlanInv, TypeOK
<1>2. Len(scheduling') = Len(scheduling) + 1 /\ scheduling'[Len(scheduling')] = sched[w]
  BY <1>1
<1>3. Lifecycle!Unended = {}
  BY <1>1 DEF Running, Lifecycle!Unended
<1>4. Lifecycle!Launch
  BY <1>1, <1>2, <1>3 DEF Lifecycle!Launch
<1> QED BY <1>4 DEF Lifecycle!Next

LEMMA LifecycleNext ==
    SoloInv /\ [Next]_vars => [Lifecycle!Next]_scheduling
PROOF
<1> SUFFICES ASSUME SoloInv, [Next]_vars PROVE [Lifecycle!Next]_scheduling
  OBVIOUS
<1>1. CASE Quiet \/ UNCHANGED vars
  BY <1>1 DEF Quiet, vars
<1>2. ASSUME NEW w \in Workers, Receive(w) \/ ReceiveCheck(w) \/ Crash(w) \/ Work(w)
      PROVE  [Lifecycle!Next]_scheduling
  <2>1. CASE ReplacePlan(w) \/ DisableScheduled(w) \/ InsertPlan(w)
    BY <2>1, LifecycleReplace, LifecycleDisable, LifecycleInsert
  <2>2. CASE ~(ReplacePlan(w) \/ DisableScheduled(w) \/ InsertPlan(w))
    <3>1. UNCHANGED scheduling
      BY <1>2, <2>2
      DEF Work, Receive, ReceiveCheck, Take, Crash, ReadDeployed, ReadCleaned, ReadImage,
          ReadSanity, SaveService, LogPhase, DispatchNewVersion, Solve, SolveBestPhase,
          BuildSteps, ContinuePlan, RunStep, CallOverseer, store
    <3> QED BY <3>1
  <2> QED BY <2>1, <2>2
<1> QED BY <1>1, <1>2 DEF Next

(* With a single worker upgrade_planer implements PlanLifecycle: whatever  *)
(* the messages, the solver and the crashes, plans are appended when none  *)
(* runs, advance step by step, and never change once they ended.           *)
THEOREM ImplementsLifecycle ==
    ASSUME NEW w, Workers = {w} PROVE Spec => PlansFollowLifecycle
PROOF
<1>1. Init => Lifecycle!Init
  BY DEF Init, Lifecycle!Init
<1> QED
  BY <1>1, LifecycleNext, SoloInvInit, SoloInvNext, PTL
  DEF Spec, PlansFollowLifecycle, Lifecycle!Spec

-----------------------------------------------------------------------------
(* The catalog                                                             *)

(* Between the read and the write of an entry nobody else writes: the copy *)
(* still lists every version of the stored entry, and the version that is  *)
(* logged is the one that was saved.                                       *)
SoloEntry(w) ==
    LET s == msg[w].service
    IN /\ stage[w] = "save" =>
             /\ entry[w] \in Entry
             /\ catalog[s].versions \subseteq entry[w].versions
             /\ msg[w].kind = "deployed" => entry[w].version = msg[w].version
       /\ stage[w] = "log" => Known(s) /\ catalog[s].version = msg[w].version

CatalogInv == TypeOK /\ PhaseLogsDeployment /\ \A w \in Workers : SoloEntry(w)

LEMMA EntryKept ==
    ASSUME CatalogInv, NEW w, Workers = {w}, UNCHANGED <<catalog, phases>>,
           stage'[w] \notin {"save", "log"}
    PROVE  PhaseLogsDeployment' /\ SoloEntry(w)'
PROOF
  BY DEF CatalogInv, PhaseLogsDeployment, SoloEntry

LEMMA EntryRead ==
    ASSUME CatalogInv, NEW w, Workers = {w},
           ReadDeployed(w) \/ ReadCleaned(w) \/ ReadImage(w) \/ ReadSanity(w)
    PROVE  PhaseLogsDeployment' /\ SoloEntry(w)'
PROOF
<1> DEFINE s == msg[w].service
           v == msg[w].version
<1>1. UNCHANGED <<catalog, phases>>
  BY DEF ReadDeployed, ReadCleaned, ReadImage, ReadSanity, store
<1>2. /\ s \in Services /\ v \in Versions /\ msg[w].current \in Versions
      /\ catalog[s] \in Entry \cup {NoEntry}
  BY DEF CatalogInv, TypeOK, Message
<1>3. CASE Finish(w)
  <2>1. stage'[w] = "idle"
    BY <1>3 DEF Finish, Goto, CatalogInv, TypeOK
  <2> QED BY <1>1, <2>1, EntryKept
<1>4. ASSUME NEW e \in Entry, Rewrite(w, e), catalog[s].versions \subseteq e.versions,
             msg[w].kind = "deployed" => e.version = v
      PROVE  PhaseLogsDeployment' /\ SoloEntry(w)'
  <2>1. stage'[w] = "save" /\ entry'[w] = e /\ msg' = msg
    BY <1>4 DEF Rewrite, Goto, CatalogInv, TypeOK
  <2> QED BY <1>1, <1>4, <2>1 DEF CatalogInv, PhaseLogsDeployment, SoloEntry
<1>5. [version |-> v, versions |-> {v}, available |-> {v}] \in Entry
  BY <1>2 DEF Entry
<1>6. ~Known(s) => catalog[s].versions = {}
  BY DEF Known, NoEntry
<1>7. CASE ReadDeployed(w)
  <2>1. Known(s) =>
          /\ [catalog[s] EXCEPT !.version = v] \in Entry
          /\ [catalog[s] EXCEPT !.version = v].version = v
          /\ [catalog[s] EXCEPT !.version = v].versions = catalog[s].versions
    BY <1>2 DEF Entry, Known
  <2> QED BY <1>3, <1>4, <1>5, <1>6, <1>7, <2>1 DEF ReadDeployed
<1>8. CASE ReadCleaned(w)
  <2>1. v \in catalog[s].versions =>
          /\ [catalog[s] EXCEPT !.available = @ \ {v}] \in Entry
          /\ [catalog[s] EXCEPT !.available = @ \ {v}].versions = catalog[s].versions
    BY <1>2 DEF Entry, NoEntry
  <2> QED BY <1>3, <1>4, <1>8, <2>1 DEF ReadCleaned, Busy
<1>9. CASE ReadImage(w)
  <2> DEFINE e == [catalog[s] EXCEPT !.versions = @ \cup {v}, !.available = @ \cup {v}]
  <2>1. Known(s) => e \in Entry /\ e.versions = catalog[s].versions \cup {v}
    BY <1>2 DEF Entry, Known
  <2>2. [version |-> msg[w].current, versions |-> {v}, available |-> {v}] \in Entry
    BY <1>2 DEF Entry
  <2>3. CASE Known(s) /\ Rewrite(w, e)
    BY <1>4, <1>9, <2>1, <2>3 DEF ReadImage, Busy
  <2>4. CASE /\ ~Known(s)
             /\ Rewrite(w, [version |-> msg[w].current, versions |-> {v}, available |-> {v}])
    BY <1>4, <1>6, <1>9, <2>2, <2>4 DEF ReadImage, Busy
  <2> QED BY <1>3, <1>9, <2>3, <2>4 DEF ReadImage
<1>10. CASE ReadSanity(w)
  <2>1. Known(s) => [version |-> v, versions |-> catalog[s].versions \cup {v},
                     available |-> catalog[s].available \cup {v}] \in Entry
    BY <1>2 DEF Entry, Known
  <2> QED BY <1>3, <1>4, <1>10, <2>1 DEF ReadSanity, Busy
<1> QED BY <1>7, <1>8, <1>9, <1>10

LEMMA EntrySaved ==
    ASSUME CatalogInv, NEW w, Workers = {w}, SaveService(w)
    PROVE  /\ PhaseLogsDeployment' /\ SoloEntry(w)'
           /\ \A s \in Services : catalog[s].versions \subseteq catalog'[s].versions
PROOF
<1> DEFINE s == msg[w].service
<1>1. /\ stage[w] = "save" /\ phases' = phases
      /\ entry[w] \in Entry
      /\ catalog[s].versions \subseteq entry[w].versions
      /\ msg[w].kind = "deployed" => entry[w].version = msg[w].version
  BY DEF SaveService, CatalogInv, SoloEntry
<1>2. /\ s \in Services /\ catalog'[s] = entry[w]
      /\ \A x \in Services : x # s => catalog'[x] = catalog[x]
  BY DEF SaveService, CatalogInv, TypeOK, Message
<1>3. entry[w] # NoEntry
  BY <1>1, ConstantsAssumption DEF Entry, NoEntry
<1>4. SoloEntry(w)'
  <2>1. CASE msg[w].kind = "deployed" /\ Goto(w, "log") /\ UNCHANGED <<msg, locals>>
    <3>1. stage'[w] = "log" /\ msg' = msg
      BY <2>1 DEF Goto, CatalogInv, TypeOK
    <3> QED BY <1>1, <1>2, <1>3, <2>1, <3>1 DEF SoloEntry, Known
  <2>2. CASE Goto(w, "dispatch") \/ Finish(w)
    <3>1. stage'[w] \in {"dispatch", "idle"}
      BY <2>2 DEF Finish, Goto, CatalogInv, TypeOK
    <3> QED BY <3>1 DEF SoloEntry
  <2> QED BY <2>1, <2>2 DEF SaveService
<1> QED BY <1>1, <1>2, <1>4 DEF CatalogInv, PhaseLogsDeployment

LEMMA EntryLogged ==
    ASSUME CatalogInv, NEW w, Workers = {w}, LogPhase(w)
    PROVE  PhaseLogsDeployment' /\ SoloEntry(w)'
PROOF
<1> DEFINE s == msg[w].service
           r == [updated |-> s, to |-> msg[w].version, services |-> CurrentPhase]
<1>1. /\ stage[w] = "log" /\ Known(s) /\ catalog[s].version = msg[w].version
      /\ phases' = phases \cup {r} /\ s \in Services
  BY DEF LogPhase, CatalogInv, SoloEntry, TypeOK, Message
<1>2. r.services[r.updated] = r.to
  BY <1>1 DEF CurrentPhase, Catalogued
<1>3. stage'[w] \in {"continue", "idle"}
  BY DEF LogPhase, Finish, Goto, CatalogInv, TypeOK
<1> HIDE DEF r
<1> QED BY <1>1, <1>2, <1>3 DEF CatalogInv, PhaseLogsDeployment, SoloEntry

LEMMA EntryOthers ==
    ASSUME CatalogInv, NEW w, Workers = {w},
           \/ Receive(w) \/ ReceiveCheck(w) \/ Crash(w) \/ DispatchNewVersion(w)
           \/ ContinuePlan(w) \/ RunStep(w) \/ CallOverseer(w) \/ ReplacePlan(w)
           \/ Solve(w) \/ SolveBestPhase(w) \/ BuildSteps(w)
           \/ DisableScheduled(w) \/ InsertPlan(w)
    PROVE  UNCHANGED catalog /\ PhaseLogsDeployment' /\ SoloEntry(w)'
PROOF
<1>1. UNCHANGED <<catalog, phases>>
  BY DEF Receive, ReceiveCheck, Take, Crash, DispatchNewVersion, ContinuePlan, RunStep,
         CallOverseer, ReplacePlan, Solve, SolveBestPhase, BuildSteps, DisableScheduled,
         InsertPlan, store
<1>2. ASSUME NEW st, Goto(w, st) PROVE stage'[w] = st
  BY <1>2 DEF Goto, CatalogInv, TypeOK
<1>3. Finish(w) => stage'[w] \notin {"save", "log"}
  BY <1>2 DEF Finish
<1>4. \A k : FirstStage(k) \notin {"save", "log"}
  BY DEF FirstStage
<1>5. stage'[w] \notin {"save", "log"}
  <2>1. CASE Receive(w) \/ ReceiveCheck(w) \/ Crash(w)
    BY <1>2, <1>4, <2>1 DEF Receive, ReceiveCheck, Take, Crash
  <2>2. CASE DispatchNewVersion(w) \/ ReplacePlan(w) \/ InsertPlan(w)
    BY <1>3, <2>2 DEF DispatchNewVersion, ReplacePlan, InsertPlan
  <2>3. CASE ContinuePlan(w) \/ RunStep(w) \/ CallOverseer(w)
    BY <1>2, <1>3, <2>3 DEF ContinuePlan, RunStep, CallOverseer
  <2>4. CASE Solve(w) \/ SolveBestPhase(w) \/ BuildSteps(w) \/ DisableScheduled(w)
    BY <1>2, <1>3, <2>4 DEF Solve, SolveBestPhase, BuildSteps, DisableScheduled
  <2> QED BY <2>1, <2>2, <2>3, <2>4
<1> QED BY <1>1, <1>5, EntryKept

LEMMA CatalogNext ==
    ASSUME NEW w, Workers = {w}
    PROVE  CatalogInv /\ TypeOK' /\ [Next]_vars =>
               /\ CatalogInv'
               /\ \A s \in Services : catalog[s].versions \subseteq catalog'[s].versions
PROOF
<1> SUFFICES ASSUME CatalogInv, TypeOK', [Next]_vars
             PROVE  /\ PhaseLogsDeployment' /\ SoloEntry(w)'
                    /\ \A s \in Services : catalog[s].versions \subseteq catalog'[s].versions
  BY DEF CatalogInv
<1>1. CASE Quiet \/ UNCHANGED vars
  <2>1. UNCHANGED <<catalog, phases, stage, msg, entry>>
    BY <1>1 DEF Quiet, vars
  <2> QED BY <2>1 DEF CatalogInv, PhaseLogsDeployment, SoloEntry, Known
<1>2. CASE ReadDeployed(w) \/ ReadCleaned(w) \/ ReadImage(w) \/ ReadSanity(w)
  <2>1. UNCHANGED catalog
    BY <1>2 DEF ReadDeployed, ReadCleaned, ReadImage, ReadSanity, store
  <2> QED BY <1>2, <2>1, EntryRead
<1>3. CASE SaveService(w)
  BY <1>3, EntrySaved
<1>4. CASE LogPhase(w)
  <2>1. UNCHANGED catalog
    BY <1>4 DEF LogPhase
  <2> QED BY <1>4, <2>1, EntryLogged
<1>5. CASE \/ Receive(w) \/ ReceiveCheck(w) \/ Crash(w) \/ DispatchNewVersion(w)
           \/ ContinuePlan(w) \/ RunStep(w) \/ CallOverseer(w) \/ ReplacePlan(w)
           \/ Solve(w) \/ SolveBestPhase(w) \/ BuildSteps(w)
           \/ DisableScheduled(w) \/ InsertPlan(w)
  BY <1>5, EntryOthers
<1> QED BY <1>1, <1>2, <1>3, <1>4, <1>5 DEF Next, Work

LEMMA CatalogInit ==
    ASSUME NEW w, Workers = {w} PROVE Init => CatalogInv
PROOF
  BY TypeInit DEF Init, CatalogInv, PhaseLogsDeployment, SoloEntry

(* With a single worker a logged phase holds the version whose deployment  *)
(* it logs: on_service_deployed reads the phase after its save, and        *)
(* nothing writes the catalog between the two.                             *)
THEOREM LoggedPhases ==
    ASSUME NEW w, Workers = {w} PROVE Spec => []PhaseLogsDeployment
PROOF
<1>1. CatalogInv => PhaseLogsDeployment
  BY DEF CatalogInv
<1> QED BY <1>1, CatalogInit, CatalogNext, TypeCorrect, PTL DEF Spec

(* With a single worker no version announced is ever forgotten: every      *)
(* handler of the catalog writes back at least the versions stored.        *)
THEOREM VersionsKept ==
    ASSUME NEW w, Workers = {w} PROVE Spec => NoVersionLost
PROOF
<1>1. CatalogInv /\ TypeOK' /\ [Next]_vars =>
          [\A s \in Services : catalog[s].versions \subseteq catalog'[s].versions]_vars
  BY CatalogNext
<1> QED
  BY <1>1, CatalogInit, CatalogNext, TypeCorrect, PTL DEF Spec, NoVersionLost
=============================================================================
