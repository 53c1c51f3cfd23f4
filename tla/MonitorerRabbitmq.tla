------------------------ MODULE MonitorerRabbitmq ------------------------
(***************************************************************************)
(* The monitorer_rabbitmq service (services/monitorer/monitorer_rabbitmq): *)
(* every 5 seconds each of its instances polls the queues that nobody has  *)
(* polled for 4 seconds, one find_and_modify at a time, and announces what *)
(* the management API of RabbitMQ says of each (metrics_updated).          *)
(*                                                                         *)
(* Dates are abstracted to what the query tells apart, and to whether a    *)
(* queue was polled in the last 4 seconds.  A queue is "recent" when it    *)
(* was and its last_check says so; "again" when it was, and has been       *)
(* tracked since, which resets last_check; and otherwise "due".  The date  *)
(* `since` is computed once, when a tick starts: fresh[i] is the set of    *)
(* the queues that the query of instance i leaves out, those that were     *)
(* recent when its tick started and those polled by anyone ever since.     *)
(*                                                                         *)
(* The metrics are what the rules of the trigger tell apart, `level`:      *)
(* NoLatency stands for the metrics without a latency, which are those of  *)
(* a queue that does not exist and of a queue that delivers nothing.       *)
(***************************************************************************)
EXTENDS Naturals, Sequences, FiniteSets

CONSTANTS
    Queues,         \* names of queues
    Instances,      \* instances of the service
    Levels,         \* what RabbitMQ may say of a queue
    InitialLevels,  \* what it may say at the start
    NoLatency,      \* the metrics without a latency
    Unreadable,     \* queues whose answer lacks a field
    MaxReports,     \* bound: announcements under way to the trigger
    Inputs,         \* the kinds of environment steps
    MaxInputs       \* bound: steps of the environment

(* What is assumed of the constants.                                       *)
MonitorerAssumption ==
    /\ IsFiniteSet(Queues) /\ Unreadable \subseteq Queues
    /\ NoLatency \in Levels /\ InitialLevels \subseteq Levels
    /\ Inputs \subseteq {"change", "outage", "fail"}
    /\ MaxReports \in Nat \ {0} /\ MaxInputs \in Nat

VARIABLES
    tracked,        \* collection service_to_track, in natural order
    check,          \* per queue: when it was polled, and last_check
    level,          \* per queue: what RabbitMQ says now
    tick,           \* per instance: what its timer does next
    fresh,          \* per instance: the queues its query leaves out
    picked,         \* per instance: the queue it polls
    metrics,        \* per instance: what it read of that queue
    reports,        \* metrics_updated, on their way to the trigger
    inputs          \* steps of the environment so far

timers == <<tick, fresh, picked, metrics>>
monitorerVars == <<tracked, check, level, tick, fresh, picked, metrics,
                   reports, inputs>>

Ages == {"due", "recent", "again"}
Report == [queue: Queues, metrics: Levels]
TrackedQueues == {tracked[n] : n \in DOMAIN tracked}
AnyQueue == CHOOSE q \in Queues : TRUE

(* The queues of the collection up to the first whose answer lacks a       *)
(* field, this one included.                                               *)
Reached == {tracked[n] : n \in {m \in DOMAIN tracked :
                                  \A k \in 1 .. m - 1 : tracked[k] \notin Unreadable}}

-----------------------------------------------------------------------------
(* Some instances are running, and some queues are tracked already.        *)
Init ==
    /\ \E n \in 0 .. Cardinality(Queues) :
          /\ tracked \in [1 .. n -> Queues]
          /\ Cardinality(TrackedQueues) = n
    /\ check = [q \in Queues |-> "due"]
    /\ level \in [Queues -> InitialLevels]
    /\ tick \in [Instances -> {"idle", "off"}] /\ \E i \in Instances : tick[i] = "idle"
    /\ fresh = [i \in Instances |-> {}]
    /\ picked = [i \in Instances |-> AnyQueue]
    /\ metrics = [i \in Instances |-> NoLatency]
    /\ reports = << >>
    /\ inputs = 0

-----------------------------------------------------------------------------
(* Around the service                                                      *)

Environment(k) == k \in Inputs /\ inputs < MaxInputs /\ inputs' = inputs + 1

(* The load of a queue changes; it appears or disappears.                  *)
Change(q) ==
    /\ Environment("change")
    /\ \E l \in Levels \ {level[q]} : level' = [level EXCEPT ![q] = l]
    /\ UNCHANGED <<tracked, check, timers, reports>>

(* Four seconds have passed since q was polled.                            *)
GetsDue(q) ==
    /\ check[q] # "due"
    /\ check' = [check EXCEPT ![q] = "due"]
    /\ UNCHANGED <<tracked, level, timers, reports, inputs>>

-----------------------------------------------------------------------------
(* track: the document is replaced in place, or appended; last_check is    *)
(* None, however recently the queue was polled.                            *)
Tracked(age) == IF age = "due" THEN "due" ELSE "again"

TrackAgain(q) ==                                     \* mutant: inserted, not replaced
    /\ tracked' = Append(tracked, q)
    /\ check' = [check EXCEPT ![q] = Tracked(@)]
    /\ fresh' = [i \in Instances |-> fresh[i] \ {q}]
Track(q) ==
    /\ tracked' = IF q \in TrackedQueues THEN tracked ELSE Append(tracked, q)
    /\ check' = [check EXCEPT ![q] = Tracked(@)]
    /\ fresh' = [i \in Instances |-> fresh[i] \ {q}]

-----------------------------------------------------------------------------
(* time_tick                                                               *)

Goto(i, s) == tick' = [tick EXCEPT ![i] = s]

(* The variables of the loop are of no use any more.                       *)
Forget(i) == /\ picked' = [picked EXCEPT ![i] = AnyQueue]
             /\ metrics' = [metrics EXCEPT ![i] = NoLatency]

(* An exception, or a crash, ends the tick.                                *)
Abort(i) == Goto(i, "idle") /\ fresh' = [fresh EXCEPT ![i] = {}] /\ Forget(i)

(* The timer of an instance runs one tick at a time; of the 5 seconds of   *)
(* its period nothing is assumed.                                          *)
StartTick(i) ==
    /\ tick[i] = "idle"
    /\ Goto(i, "search")
    /\ fresh' = [fresh EXCEPT ![i] = {q \in Queues : check[q] = "recent"}]
    /\ UNCHANGED <<tracked, check, level, picked, metrics, reports, inputs>>

(* The places of the queues that the query finds.                          *)
FoundNow(i) == {n \in DOMAIN tracked : check[tracked[n]] # "recent"}    \* mutant: since recomputed
FoundAny(i) == DOMAIN tracked                        \* mutant: the dates are not compared
Found(i) == {n \in DOMAIN tracked : tracked[n] \notin fresh[i]}

(* find_and_modify: the first queue found, whose date is set at once.      *)
Pick(i) ==
    /\ tick[i] = "search"
    /\ \E n \in Found(i) :
          /\ \A k \in Found(i) : n <= k
          /\ LET q == tracked[n]
             IN  /\ picked' = [picked EXCEPT ![i] = q]
                 /\ check' = [check EXCEPT ![q] = "recent"]
                 /\ fresh' = [j \in Instances |->
                                IF tick[j] \in {"idle", "off"} THEN fresh[j] ELSE fresh[j] \cup {q}]
    /\ Goto(i, "measure")
    /\ UNCHANGED <<tracked, level, metrics, reports, inputs>>

EndTick(i) ==
    /\ tick[i] = "search"
    /\ Found(i) = {}
    /\ Goto(i, "idle")
    /\ fresh' = [fresh EXCEPT ![i] = {}]
    /\ UNCHANGED <<tracked, check, level, picked, metrics, reports, inputs>>

(* _compute_queue: an unreachable API is taken for a queue that does not   *)
(* exist; an answer that lacks a field raises, which ends the tick.        *)
Measure(i) ==
    /\ tick[i] = "measure"
    /\ \/ /\ \/ /\ picked[i] \notin Unreadable
                /\ metrics' = [metrics EXCEPT ![i] = level[picked[i]]]
                /\ UNCHANGED inputs
             \/ /\ Environment("outage")
                /\ metrics' = [metrics EXCEPT ![i] = NoLatency]
          /\ Goto(i, "dispatch")
          /\ UNCHANGED <<fresh, picked>>
       \/ /\ picked[i] \in Unreadable
          /\ Abort(i)
          /\ UNCHANGED inputs
    /\ UNCHANGED <<tracked, check, level, reports>>

Dispatch(i) ==
    /\ tick[i] = "dispatch"
    /\ Len(reports) < MaxReports
    /\ reports' = Append(reports, [queue |-> picked[i], metrics |-> metrics[i]])
    /\ Goto(i, "search")
    /\ Forget(i)
    /\ UNCHANGED <<tracked, check, level, fresh, inputs>>

(* The tick ends early: this time the answer of the API cannot be decoded  *)
(* or lacks a field, or the instance crashes.                              *)
Fail(i) ==
    /\ tick[i] \notin {"idle", "off"}
    /\ Environment("fail")
    /\ Abort(i)
    /\ UNCHANGED <<tracked, check, level, reports>>

Timer(i) == StartTick(i) \/ Pick(i) \/ EndTick(i) \/ Measure(i) \/ Dispatch(i)

TypeOK ==
    /\ tracked \in Seq(Queues) /\ Cardinality(TrackedQueues) = Len(tracked)
    /\ check \in [Queues -> Ages]
    /\ level \in [Queues -> Levels]
    /\ tick \in [Instances -> {"off", "idle", "search", "measure", "dispatch"}]
    /\ fresh \in [Instances -> SUBSET Queues]
    /\ picked \in [Instances -> Queues]
    /\ metrics \in [Instances -> Levels]
    /\ reports \in Seq(Report) /\ Len(reports) <= MaxReports
    /\ inputs \in 0 .. MaxInputs
=============================================================================
