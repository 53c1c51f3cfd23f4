------------------------------- MODULE Monitoring -------------------------------
(***************************************************************************)
(* The monitorer and the trigger together: the monitorer's announcements   *)
(* are the trigger's input (reports), what they say is what RabbitMQ said  *)
(* (level), and the trigger's `add` has the monitorer track each resource. *)
(* The steps are those of the two modules; only the RPC `track` is a step  *)
(* of both.                                                                *)
(***************************************************************************)
EXTENDS Naturals, Sequences, FiniteSets

CONSTANTS Queues, Instances, Levels, InitialLevels, NoLatency, Unreadable, NoMetrics,
          Over, Under, Rulesets, Installed, Resources, RulesOf, Workers,
          MaxReports, Inputs, MaxInputs

VARIABLES tracked, check, tick, fresh, picked, metrics,
          rulesets, told, nextId, stage, report, todo, current, verdict, changed,
          level, reports, inputs

(* The environment steps of each.  A change of the load is one of the      *)
(* monitorer here; crashes of the trigger's handlers are left to Trigger.  *)
MInputs == Inputs \cap {"change", "outage", "fail"}
TInputs == Inputs \cap {"add", "delete", "change", "crash", "restart"}

M == INSTANCE MonitorerRabbitmq WITH Inputs <- MInputs
T == INSTANCE Trigger WITH Inputs <- TInputs

ASSUME MonitoringAssumption ==
    M!MonitorerAssumption /\ T!TriggerConstants /\ Inputs \subseteq MInputs \cup TInputs

monitorerOwn == <<tracked, check, tick, fresh, picked, metrics>>
triggerOwn == <<rulesets, told, nextId, stage, report, todo, current, verdict, changed>>
vars == <<monitorerOwn, triggerOwn, level, reports, inputs>>

(* The queues of the rulesets there are have been tracked, perhaps others. *)
Init ==
    /\ M!Init /\ T!Init
    /\ \A s \in DOMAIN rulesets : T!Uses(s) \subseteq M!TrackedQueues

(* The RPC track, a step of the trigger's add and of the monitorer.        *)
TrackResource(w, q) ==
    /\ T!AskTrack(w, q)
    /\ M!Track(q)
    /\ UNCHANGED <<tick, picked, metrics>>

MonitorerStep(i) == M!Timer(i) /\ UNCHANGED triggerOwn
MonitorerFails(i) == M!Fail(i) /\ UNCHANGED triggerOwn
QueueGetsDue(q) == M!GetsDue(q) /\ UNCHANGED triggerOwn
LevelChanges(q) == M!Change(q) /\ UNCHANGED triggerOwn

TriggerStep(w) == T!Worker(w) /\ UNCHANGED monitorerOwn
TriggerRestarts == T!Restart /\ UNCHANGED monitorerOwn
AddRuleset(w, s) == T!Add(w, s) /\ UNCHANGED monitorerOwn
DeleteRuleset(w, s) == T!Delete(w, s) /\ UNCHANGED monitorerOwn
ResultsAge == T!TimePasses /\ UNCHANGED monitorerOwn

Next ==
    \/ \E i \in Instances : MonitorerStep(i) \/ MonitorerFails(i)
    \/ \E q \in Queues : QueueGetsDue(q) \/ LevelChanges(q)
    \/ \E w \in Workers :
          \/ TriggerStep(w)
          \/ \E s \in Rulesets : AddRuleset(w, s) \/ DeleteRuleset(w, s)
          \/ \E q \in Queues : TrackResource(w, q)
    \/ TriggerRestarts
    \/ ResultsAge

Spec == Init /\ [][Next]_vars

(* Timers fire again and again, ticks and workers go on, time passes.      *)
Fairness ==
    /\ \A i \in Instances : WF_vars(MonitorerStep(i))
    /\ \A w \in Workers : WF_vars(TriggerStep(w) \/ \E q \in Queues : TrackResource(w, q))
    /\ \A q \in Queues : WF_vars(QueueGetsDue(q))
    /\ WF_vars(ResultsAge)

FairSpec == Spec /\ Fairness

-----------------------------------------------------------------------------
(* Properties                                                              *)

TypeOK == M!TypeOK /\ T!TypeOK

(* However many instances there are, no queue is polled twice within 4     *)
(* seconds, unless it is tracked again in between, by the add of a ruleset *)
(* about it: find_and_modify hands it to one of them.                      *)
OnePollPerPeriod ==
    [][\A i \in Instances : tick[i] = "search" /\ tick'[i] = "measure" =>
          check[picked'[i]] # "recent"]_vars

(* Every tracked queue is polled again and again, although failures cut    *)
(* some ticks short, and however quickly the queues before it get old;     *)
(* unless one of those never has a readable answer: that one ends every    *)
(* tick that finds it due, before the queues after it are reached.         *)
EveryQueuePolled ==
    \A q \in Queues : []<>(q \in M!Reached => check[q] = "recent")

(* Between two handlers of the one worker, the owner of a ruleset knows    *)
(* the recorded result of every rule.                                      *)
OwnerKnows == T!OwnerKnows

(* A report that confirms a result never starts the wait of a since-clause *)
(* over.                                                                   *)
SinceCountsFromChange == T!SinceCountsFromChange

(* A rule that waits for another to have held for long comes to hold only  *)
(* when that one was already recorded as holding for as long.              *)
SinceIsWaited == T!SinceIsWaited

(* A load that stays is acted on: in the end the owner of every ruleset    *)
(* that can be computed has been told, and goes on believing, what its     *)
(* rules say of the load the queues now have, whatever was polled by two   *)
(* instances at once, lost, or reported in the wrong order.  The queues    *)
(* have readable answers, and those before them in the collection too.     *)
OwnerToldTheTruth ==
    <>[](\A s \in DOMAIN rulesets :
            ~ T!Raises(s) /\ T!Uses(s) \subseteq M!Reached \ Unreadable => told[s] = T!Truth(s))
=============================================================================
