--------------------------------- MODULE Trigger ---------------------------------
(***************************************************************************)
(* The trigger service (services/monitorer/trigger): it keeps rulesets,    *)
(* each with the last metrics of the queues it is about and the last       *)
(* result of each of its rules, computes the rules whenever metrics are    *)
(* announced, and tells the owner of the ruleset when a result changes.    *)
(*                                                                         *)
(* A handler is split at its accesses to mongo and at its RPCs: stage[w]   *)
(* is the access worker w makes next, and report, todo, current, verdict,  *)
(* changed are the handler's local variables.  A worker computes with the  *)
(* copies of the rulesets it read at the start of its handler.             *)
(*                                                                         *)
(* Expressions are abstracted to what they say of the metrics: a rule      *)
(* holds when the metrics of a queue are over or under a limit (neither    *)
(* holds without a latency: any comparison with None is false), when       *)
(* another rule has held for long enough ("held": rules:x and              *)
(* rules:x:since > ...), or it raises (an unknown name, or no syntax).     *)
(* Dates are abstracted to held, the rules whose last result is old enough *)
(* for the since-clauses.                                                  *)
(*                                                                         *)
(* Not modelled: several resources of a ruleset with the same queue, the   *)
(* read-only RPCs compute and list.                                        *)
(***************************************************************************)
EXTENDS Naturals, Sequences, FiniteSets

CONSTANTS
    Queues,         \* names of queues
    Levels,         \* the metrics of a queue
    InitialLevels,  \* the levels the queues may have at the start
    NoMetrics,      \* no metrics received yet
    Over, Under,    \* the levels over, and under, the limits of the rules
    Rulesets,       \* names of rulesets
    Installed,      \* the sets of rulesets there may be at the start
    Resources,      \* per ruleset: the queues of its resources, in order
    RulesOf,        \* per ruleset: its rules, in order
    Workers,        \* workers of the pool
    MaxReports,     \* bound: announcements under way to the trigger
    Inputs,         \* the kinds of environment steps
    MaxInputs       \* bound: steps of the environment

Uses(s) == {Resources[s][n] : n \in DOMAIN Resources[s]}
Names(s) == {RulesOf[s][n].name : n \in DOMAIN RulesOf[s]}
Verdicts == {"unset", "yes", "no"}
Document(s) == [id: Nat,
                metrics: [Uses(s) -> Levels \cup {NoMetrics}],
                result: [Names(s) -> Verdicts],
                held: SUBSET Names(s)]

(* What is assumed of the constants; a rule is referred to by its name.    *)
TriggerConstants ==
    /\ Rulesets # {}
    /\ InitialLevels \subseteq Levels /\ NoMetrics \notin Levels
    /\ Over \subseteq Levels /\ Under \subseteq Levels
    /\ Resources \in [Rulesets -> Seq(Queues) \ {<< >>}]
    /\ \A s \in Rulesets :
          /\ RulesOf[s] \in Seq([name: STRING, op: {"over", "under"}, arg: Uses(s)]
                               \cup [name: STRING, op: {"held", "raises"}, arg: Names(s)])
          /\ \A m, n \in DOMAIN RulesOf[s] : RulesOf[s][m].name = RulesOf[s][n].name => m = n
    /\ Installed \subseteq SUBSET Rulesets
    /\ Inputs \subseteq {"add", "delete", "change", "crash", "restart"}
    /\ MaxReports \in Nat \ {0} /\ MaxInputs \in Nat

ASSUME TriggerAssumption == TriggerConstants

VARIABLES
    rulesets,       \* collection rulesets: name -> document
    told,           \* per ruleset: the results last sent to its owner
    nextId,         \* _id of the next document
    level,          \* per queue: what RabbitMQ says of it
    reports,        \* metrics_updated, on their way to the trigger
    stage,          \* per worker: the access its handler makes next
    report,         \* per worker: the announcement it handles
    todo,           \* per worker: the rulesets to compute, as they were read
    current,        \* per worker: the ruleset it computes, or adds
    verdict,        \* per worker: the results it computed
    changed,        \* per worker: the places of the rules to save, or of
                    \* the resources to track
    inputs          \* steps of the environment so far

locals == <<stage, report, todo, current, verdict, changed>>
triggerVars == <<rulesets, told, nextId, level, reports, locals, inputs>>

Report == [queue: Queues, metrics: Levels]
NoReport == CHOOSE r \in Report : TRUE
AnyRuleset == CHOOSE s \in Rulesets : TRUE
Stages == {"idle", "metrics", "results", "dispatch", "track"}
NewDocument(s, id) == [id |-> id,
                       metrics |-> [q \in Uses(s) |-> NoMetrics],
                       result |-> [r \in Names(s) |-> "unset"],
                       held |-> {}]

Empty == << >>
Without(f, x) == [y \in DOMAIN f \ {x} |-> f[y]]
With(f, x, v) == [y \in DOMAIN f \cup {x} |-> IF y = x THEN v ELSE f[y]]

-----------------------------------------------------------------------------
(* _solve_rules                                                            *)

(* get_rule_result and get_since for rule r, seen from the results so far  *)
(* and from the document d: the date counts for nothing when the result    *)
(* has just changed.                                                       *)
ResultSoFar(d, so, r) == IF r \in DOMAIN so THEN so[r] = "yes" ELSE d.result[r] = "yes"
HeldSoFarAnyway(d, so, r) == r \in d.held            \* mutant: the date is trusted
HeldSoFar(d, so, r) == r \in d.held /\ (r \in DOMAIN so => so[r] = d.result[r])

Holds(d, so, rule) ==
    CASE rule.op = "over" -> d.metrics[rule.arg] \in Over
      [] rule.op = "under" -> d.metrics[rule.arg] \in Under
      [] rule.op = "held" -> ResultSoFar(d, so, rule.arg) /\ HeldSoFar(d, so, rule.arg)
      [] OTHER -> FALSE

(* The results of the rules of s, each computed with those before it.      *)
Solve(s, d) ==
    LET rules == RulesOf[s]
        upto[n \in 0 .. Len(rules)] ==
            IF n = 0 THEN Empty
            ELSE With(upto[n - 1], rules[n].name,
                      IF Holds(d, upto[n - 1], rules[n]) THEN "yes" ELSE "no")
    IN  upto[Len(rules)]

Raises(s) == \E n \in DOMAIN RulesOf[s] : RulesOf[s][n].op = "raises"

(* _compute_ruleset answers: all the metrics are there and no rule raises. *)
Computes(s, d) == (\A q \in Uses(s) : d.metrics[q] # NoMetrics) /\ ~ Raises(s)

-----------------------------------------------------------------------------
Init ==
    /\ \E I \in Installed : rulesets = [s \in I |-> NewDocument(s, 0)]
    /\ nextId = 1
    /\ told = [s \in Rulesets |-> [r \in Names(s) |-> "unset"]]
    /\ level \in [Queues -> InitialLevels]
    /\ reports = << >>
    /\ stage = [w \in Workers |-> "idle"]
    /\ report = [w \in Workers |-> NoReport]
    /\ todo = [w \in Workers |-> Empty]
    /\ current = [w \in Workers |-> AnyRuleset]
    /\ verdict = [w \in Workers |-> Empty]
    /\ changed = [w \in Workers |-> {}]
    /\ inputs = 0

(* A step of the environment: a request, a change of the load, a crash.    *)
Environment(k) == k \in Inputs /\ inputs < MaxInputs /\ inputs' = inputs + 1

-----------------------------------------------------------------------------
(* on_metrics_updated                                                      *)

Goto(w, s) == stage' = [stage EXCEPT ![w] = s]

(* The handler goes on with the rulesets left, or is done: its locals are  *)
(* forgotten.                                                              *)
GoOn(w, left) ==
    /\ todo' = [todo EXCEPT ![w] = left]
    /\ Goto(w, IF left = Empty THEN "idle" ELSE "metrics")
    /\ report' = IF left = Empty THEN [report EXCEPT ![w] = NoReport] ELSE report
    /\ current' = [current EXCEPT ![w] = AnyRuleset]
    /\ verdict' = [verdict EXCEPT ![w] = Empty]
    /\ changed' = [changed EXCEPT ![w] = {}]

(* The announcement, and find: the rulesets about the queue are copied.    *)
Take(w) ==
    /\ stage[w] = "idle" /\ reports # << >>
    /\ reports' = Tail(reports)
    /\ LET q == Head(reports).queue
           found == {s \in DOMAIN rulesets : q \in Uses(s)}
       IN  /\ found # {}
           /\ todo' = [todo EXCEPT ![w] = [s \in found |-> rulesets[s]]]
    /\ report' = [report EXCEPT ![w] = Head(reports)]
    /\ Goto(w, "metrics")
    /\ UNCHANGED <<rulesets, told, nextId, level, current, verdict, changed, inputs>>

(* Nobody uses the queue.                                                  *)
Ignore(w) ==
    /\ stage[w] = "idle" /\ reports # << >>
    /\ \A s \in DOMAIN rulesets : Head(reports).queue \notin Uses(s)
    /\ reports' = Tail(reports)
    /\ UNCHANGED <<rulesets, told, nextId, level, locals, inputs>>

(* _save_metrics: positional update of the document with that _id, unless  *)
(* the copy has the same metrics.                                          *)
SaveMetricsUpsert(s, d, q, m) ==                     \* mutant: upsert
    rulesets' = IF s \in DOMAIN rulesets
                THEN [rulesets EXCEPT ![s].metrics[q] = m]
                ELSE With(rulesets, s, [d EXCEPT !.metrics = [p \in {q} |-> m]])
SaveMetrics(s, d, q, m) ==
    rulesets' = IF d.metrics[q] # m /\ s \in DOMAIN rulesets /\ rulesets[s].id = d.id
                THEN [rulesets EXCEPT ![s].metrics[q] = m]
                ELSE rulesets

(* The rules whose result is to be saved; they are in the order of their   *)
(* places.                                                                 *)
First(S) == CHOOSE n \in S : \A m \in S : n <= m
ChangedOrNot(s, d) == DOMAIN RulesOf[s]              \* mutant: every result is saved anew
ChangedFirst(s, d) ==                                \* mutant: `updated or save` saves one only
    LET v == Solve(s, d)
        all == {n \in DOMAIN RulesOf[s] : v[RulesOf[s][n].name] # d.result[RulesOf[s][n].name]}
    IN  IF all = {} THEN all ELSE {First(all)}
Changed(s, d) ==
    LET v == Solve(s, d)
    IN  {n \in DOMAIN RulesOf[s] : v[RulesOf[s][n].name] # d.result[RulesOf[s][n].name]}

(* The rulesets left once s is done, well or not: an exception is caught.   *)
LeftUntilError(w, s) ==                              \* mutant: it ends the loop
    IF Raises(s) THEN Empty ELSE Without(todo[w], s)
Left(w, s) == Without(todo[w], s)

(* The next ruleset: its metrics are saved and its rules computed; a       *)
(* ruleset without all its metrics, or that raises, is left there.         *)
Compute(w, s) ==
    LET m == report[w].metrics
        d == [todo[w][s] EXCEPT !.metrics[report[w].queue] = m]
    IN  /\ SaveMetrics(s, todo[w][s], report[w].queue, m)
        /\ \/ /\ Computes(s, d) /\ Changed(s, d) # {}
              /\ current' = [current EXCEPT ![w] = s]
              /\ verdict' = [verdict EXCEPT ![w] = Solve(s, d)]
              /\ changed' = [changed EXCEPT ![w] = Changed(s, d)]
              /\ Goto(w, "results")
              /\ UNCHANGED <<todo, report>>
           \/ /\ ~ (Computes(s, d) /\ Changed(s, d) # {})
              /\ GoOn(w, Left(w, s))
ComputeNext(w) ==
    /\ stage[w] = "metrics"
    /\ \E s \in DOMAIN todo[w] : Compute(w, s)
    /\ UNCHANGED <<told, nextId, level, reports, inputs>>

(* _save_rules_results: positional update of the document with the _id of  *)
(* the copy.                                                               *)
SaveResult(w) ==
    /\ stage[w] = "results"
    /\ LET s == current[w]
           r == RulesOf[s][First(changed[w])].name
           v == verdict[w][r]
       IN  rulesets' = IF s \in DOMAIN rulesets /\ rulesets[s].id = todo[w][s].id
                       THEN [rulesets EXCEPT ![s].result[r] = v, ![s].held = @ \ {r}]
                       ELSE rulesets
    /\ changed' = [changed EXCEPT ![w] = @ \ {First(@)}]
    /\ Goto(w, IF changed[w] = {First(changed[w])} THEN "dispatch" ELSE "results")
    /\ UNCHANGED <<told, nextId, level, reports, report, todo, current, verdict, inputs>>

(* ruleset_triggered.                                                      *)
TellBefore(w) ==                                     \* mutant: the history read, not the results
    told' = [told EXCEPT ![current[w]] = todo[w][current[w]].result]
Tell(w) == told' = [told EXCEPT ![current[w]] = verdict[w]]

Dispatch(w) ==
    /\ stage[w] = "dispatch"
    /\ Tell(w)
    /\ GoOn(w, Without(todo[w], current[w]))
    /\ UNCHANGED <<rulesets, nextId, level, reports, inputs>>

-----------------------------------------------------------------------------
(* RPCs                                                                    *)

(* add: the document is replaced, keeping its _id; the ruleset an owner    *)
(* gives has no history.  Then each resource is tracked, one RPC each.     *)
Replace(s) ==
    IF s \in DOMAIN rulesets
    THEN /\ rulesets' = [rulesets EXCEPT ![s] = NewDocument(s, @.id)]
         /\ nextId' = nextId
    ELSE /\ rulesets' = With(rulesets, s, NewDocument(s, nextId))
         /\ nextId' = nextId + 1

Add(w, s) ==
    /\ Environment("add")
    /\ stage[w] = "idle"
    /\ Replace(s)
    /\ told' = [told EXCEPT ![s] = [r \in Names(s) |-> "unset"]]
    /\ current' = [current EXCEPT ![w] = s]
    /\ changed' = [changed EXCEPT ![w] = DOMAIN Resources[s]]
    /\ Goto(w, "track")
    /\ UNCHANGED <<level, reports, report, todo, verdict>>

(* The monitorer is asked to track the next resource, q.                   *)
AskTrack(w, q) ==
    /\ stage[w] = "track" /\ q = Resources[current[w]][First(changed[w])]
    /\ changed' = [changed EXCEPT ![w] = @ \ {First(@)}]
    /\ IF changed[w] = {First(changed[w])}
          THEN Goto(w, "idle") /\ current' = [current EXCEPT ![w] = AnyRuleset]
          ELSE UNCHANGED <<stage, current>>
    /\ UNCHANGED <<rulesets, told, nextId, level, reports, report, todo, verdict,
                   inputs>>

(* delete; purge deletes the rulesets of an owner this way.                *)
Delete(w, s) ==
    /\ Environment("delete")
    /\ stage[w] = "idle"
    /\ rulesets' = Without(rulesets, s)
    /\ UNCHANGED <<told, nextId, level, reports, locals>>

-----------------------------------------------------------------------------
(* Around the service                                                      *)

(* The results of some ruleset's rules get old enough for its              *)
(* since-clauses, in the documents and in the copies.                      *)
Old(d) == [d EXCEPT !.held = {r \in DOMAIN d.result : d.result[r] # "unset"}]
TimePasses ==
    /\ rulesets' = [s \in DOMAIN rulesets |-> Old(rulesets[s])]
    /\ todo' = [w \in Workers |-> [s \in DOMAIN todo[w] |-> Old(todo[w][s])]]
    /\ rulesets' # rulesets
    /\ UNCHANGED <<told, nextId, level, reports, stage, report, current, verdict, changed,
                   inputs>>

(* The load of a queue changes.                                            *)
Change(q) ==
    /\ Environment("change")
    /\ \E l \in Levels \ {level[q]} : level' = [level EXCEPT ![q] = l]
    /\ UNCHANGED <<rulesets, told, nextId, reports, locals>>

(* The monitorer polls q and announces its metrics (MonitorerRabbitmq).    *)
Poll(q) ==
    /\ Len(reports) < MaxReports
    /\ reports' = Append(reports, [queue |-> q, metrics |-> level[q]])
    /\ UNCHANGED <<rulesets, told, nextId, level, locals, inputs>>

(* A worker crashes, or the RPC it made fails.  The announcements are not  *)
(* persistent: that of the worker is redelivered, or lost.                 *)
Crash(w) ==
    /\ stage[w] # "idle"
    /\ Environment("crash")
    /\ GoOn(w, Empty)
    /\ \/ UNCHANGED reports
       \/ /\ stage[w] # "track" /\ Len(reports) < MaxReports
          /\ reports' = << report[w] >> \o reports
    /\ UNCHANGED <<rulesets, told, nextId, level>>

(* The service restarts between two handlers: the announcements are lost.  *)
Restart ==
    /\ reports # << >> /\ \A w \in Workers : stage[w] = "idle"
    /\ Environment("restart")
    /\ reports' = << >>
    /\ UNCHANGED <<rulesets, told, nextId, level, locals>>

Worker(w) ==
    Take(w) \/ Ignore(w) \/ ComputeNext(w) \/ SaveResult(w) \/ Dispatch(w)

Next ==
    \/ \E w \in Workers :
          \/ Worker(w)
          \/ Crash(w)
          \/ \E s \in Rulesets : Add(w, s) \/ Delete(w, s)
          \/ \E q \in Queues : AskTrack(w, q)
    \/ \E q \in Queues : Change(q) \/ Poll(q)
    \/ Restart
    \/ TimePasses

Spec == Init /\ [][Next]_triggerVars

(* Workers go on, time passes, and every queue is polled again and again   *)
(* (strong fairness: MaxReports is a bound of the model).                  *)
Fairness ==
    /\ \A w \in Workers : WF_triggerVars(Worker(w) \/ \E q \in Queues : AskTrack(w, q))
    /\ \A q \in Queues : SF_triggerVars(Poll(q))
    /\ WF_triggerVars(TimePasses)

FairSpec == Spec /\ Fairness

-----------------------------------------------------------------------------
(* Properties                                                              *)

TypeOK ==
    /\ DOMAIN rulesets \subseteq Rulesets
    /\ \A s \in DOMAIN rulesets : rulesets[s] \in Document(s)
    /\ \A s \in Rulesets : told[s] \in [Names(s) -> Verdicts]
    /\ nextId \in Nat
    /\ level \in [Queues -> Levels]
    /\ reports \in Seq(Report) /\ Len(reports) <= MaxReports
    /\ stage \in [Workers -> Stages]
    /\ report \in [Workers -> Report]
    /\ current \in [Workers -> Rulesets]
    /\ \A w \in Workers :
          /\ DOMAIN todo[w] \subseteq Rulesets
          /\ \A s \in DOMAIN todo[w] :
                /\ todo[w][s] \in Document(s)
                /\ report[w].queue \in Uses(s)
          /\ stage[w] \in {"results", "dispatch"} =>
                /\ current[w] \in DOMAIN todo[w]
                /\ verdict[w] \in [Names(current[w]) -> {"yes", "no"}]
                /\ changed[w] \subseteq DOMAIN RulesOf[current[w]]
          /\ stage[w] = "results" => changed[w] # {}
          /\ stage[w] = "track" =>
                changed[w] # {} /\ changed[w] \subseteq DOMAIN Resources[current[w]]
    /\ inputs \in 0 .. MaxInputs

(* Once the load stays as it is, the results recorded for every ruleset    *)
(* come to be what its rules say of it and stay so, whatever the workers   *)
(* did with stale copies, crashes lost, or a ruleset that raises did to    *)
(* those computed with it.                                                 *)
Truth(s) == Solve(s, [rulesets[s] EXCEPT !.metrics = [q \in Uses(s) |-> level[q]]])
ResultsConverge ==
    <>[](\A s \in DOMAIN rulesets : ~ Raises(s) => rulesets[s].result = Truth(s))

(* With one worker and no crash, between two handlers, what the owner was  *)
(* told last is what is recorded of every rule of its ruleset.             *)
OwnerKnows ==
    (\A w \in Workers : stage[w] \notin {"results", "dispatch"}) =>
        \A s \in DOMAIN rulesets : told[s] = rulesets[s].result

(* With one worker, the date from which the since-clauses count moves only *)
(* when the result of the rule changes or the ruleset is added again: a    *)
(* report that confirms a result never starts the wait over.               *)
SinceCountsFromChange ==
    [][\A s \in DOMAIN rulesets : s \in DOMAIN rulesets' =>
          \A r \in rulesets[s].held \ rulesets'[s].held :
             rulesets'[s].result[r] # rulesets[s].result[r]]_triggerVars

(* With one worker, a rule that waits for another to have held for long    *)
(* (a scale down) comes to hold only when that one was already recorded as *)
(* holding for as long: a result that has just come back starts from zero. *)
SinceIsWaited ==
    [][\A s \in DOMAIN rulesets \cap DOMAIN rulesets' : \A n \in DOMAIN RulesOf[s] :
          LET rule == RulesOf[s][n]
          IN  /\ rule.op = "held"
              /\ rulesets[s].result[rule.name] # "yes"
              /\ rulesets'[s].result[rule.name] = "yes"
              => rulesets[s].result[rule.arg] = "yes" /\ rule.arg \in rulesets[s].held
      ]_triggerVars
=============================================================================
