----------------------------- MODULE LoadManager -----------------------------
(***************************************************************************)
(* The overseer_load_manager service (services/overseer/load_manager): it  *)
(* keeps a document per service with the scale and the scale_config it     *)
(* knows, installs the rules of that configuration in the trigger service, *)
(* and, when the rules say so, orders the overseer to scale the service.   *)
(*                                                                         *)
(* Around it: docker holds the real number of replicas; the overseer       *)
(* forwards orders to docker for the services it watches, and announces    *)
(* every change of a watched service; the trigger computes the installed   *)
(* rules against the load and reports their results when they change.      *)
(* The overseer's announcements are taken to be in the order of the        *)
(* changes; its orders reach docker in any order.                          *)
(*                                                                         *)
(* As in UpgradePlaner a handler is split at its accesses to mongo and at  *)
(* its RPCs; stage[w] is the access worker w makes next, and doc, todo are *)
(* the handler's local variables.                                          *)
(*                                                                         *)
(* Not modelled: the expressions of the rules (a rule holds when the load  *)
(* is the one it looks for), dates (a document's rules are recent or more  *)
(* than 30 seconds old), logs and the read-only RPCs.                      *)
(***************************************************************************)
EXTENDS Integers, Sequences, FiniteSets

CONSTANTS
    Services,       \* names of docker services
    Global,         \* the scale of a service in global mode
    DefaultMax,     \* max when the scale_config gives none: 99
    InitialScales,  \* scales the services may have at the start
    MaxReplicas,    \* bound: replicas an operator asks docker for
    Configs,        \* the scale_config that images carry
    Workers,        \* workers of the pool
    Inputs,         \* the kinds of environment steps
    MaxInputs,      \* bound: steps of the environment
    MaxOrders,      \* bound: orders under way to docker
    MaxCrashes,     \* bound: worker crashes
    MaxFailures     \* bound: RPCs of the load manager that raise

(* Rules __scale_up__ and __scale_down__.                                  *)
Signs == {"up", "down"}

(* A scale_config: None, without a "scale" part, or with rules that the    *)
(* trigger accepts or not (valid) and that may lack one of the two.  The   *)
(* bounds it does not give have their default values.                      *)
Config == [kind: {"none", "plain", "scale"}, signs: SUBSET Signs, valid: BOOLEAN,
           min: Nat, max: Nat]

Scales == Nat \cup {Global}

(* The results of a ruleset: the rules it has and those that hold.         *)
Result == [present: BOOLEAN, signs: SUBSET Signs, holds: SUBSET Signs]
NoResult == [present |-> FALSE, signs |-> {}, holds |-> {}]

(* A document of the collection services.                                  *)
Doc == [mode: Scales, config: Configs, rule: Result, old: BOOLEAN]

EnvironmentSteps == {"hand", "config", "load", "monitor", "unmonitor", "unwatch"}

ASSUME ConstantsAssumption ==
    /\ Services # {} /\ IsFiniteSet(Services)
    /\ Global \in Int \ Nat
    /\ Configs \subseteq Config /\ Configs # {}
    /\ \A c \in Configs : c.kind = "none" => c.min = 0 /\ c.max = DefaultMax
    /\ InitialScales \subseteq Scales
    /\ Inputs \subseteq EnvironmentSteps
    /\ MaxReplicas \in Nat /\ MaxInputs \in Nat /\ MaxOrders \in Nat
    /\ MaxCrashes \in Nat /\ MaxFailures \in Nat

VARIABLES
    docs,           \* collection services: monitored service -> document
    rules,          \* the trigger's rulesets: service -> the signs it has
    reported,       \* the trigger's history: service -> signs that held last
    replicas,       \* docker: the scale of each service
    watched,        \* services the overseer monitors
    load,           \* what the rules of a service find: "up", "down" or "fine"
    orders,         \* scale orders on their way from the overseer to docker
    queues,         \* messages to the load manager, a queue per handler
    stage,          \* per worker: the access its handler makes next
    msg,            \* per worker: the message it handles
    doc,            \* per worker: the document it read
    todo,           \* per worker: the documents recheck_rules has yet to see
    inputs,         \* environment steps so far
    crashes,        \* crashes so far
    failures,       \* RPCs that raised so far
    undeleted       \* services whose rules the last trigger.delete did not delete

store == <<docs, rules, reported>>
cluster == <<replicas, watched, load>>
faults == <<crashes, failures, undeleted>>
vars == <<docs, rules, reported, replicas, watched, load, orders, queues,
          stage, msg, doc, todo, inputs, crashes, failures, undeleted>>

-----------------------------------------------------------------------------
(* Data                                                                    *)

Handlers == {"updated", "triggered", "rpc"}
Kinds == {"updated", "triggered", "monitor", "unmonitor", "tick"}
Message == [kind: Kinds, service: Services, diff: {"none", "scale", "config"},
            mode: Scales, config: Configs, rule: Result]
Order == [service: Services, scale: Nat]

AnyConfig == CHOOSE c \in Configs : TRUE
AnyMessage(k, s) == [kind |-> k, service |-> s, diff |-> "none", mode |-> 0,
                     config |-> AnyConfig, rule |-> NoResult]
NoMessage == AnyMessage("tick", CHOOSE s \in Services : TRUE)
NewDoc(m, c) == [mode |-> m, config |-> c, rule |-> NoResult, old |-> FALSE]
NoDoc == NewDoc(0, AnyConfig)

Stages == {"idle", "read", "rules", "save", "remove", "delete", "scan", "execute", "scale"}

(* The first access of a handler.                                          *)
FirstStage(k) == CASE k = "monitor" -> "save"
                   [] k = "unmonitor" -> "remove"
                   [] k = "tick" -> "scan"
                   [] OTHER -> "read"

(* f with d stored for s, and f without s.                                 *)
Store(f, s, d) == [t \in DOMAIN f \cup {s} |-> IF t = s THEN d ELSE f[t]]
Without(f, s) == [t \in DOMAIN f \ {s} |-> f[t]]

(* _create_trigger_ruleset and its evaluation by the trigger: each sign    *)
(* holds when the load is its own.                                         *)
Installable(c) == c.kind = "scale" /\ c.valid
Holding(s) == rules[s] \cap {load[s]}

-----------------------------------------------------------------------------
(* _get_best_scale                                                         *)

Delta(r) == CASE "up" \in r.holds -> 1
              [] "up" \notin r.holds /\ "down" \in r.holds -> -1
              [] OTHER -> 0

Larger(a, b) == IF a > b THEN a ELSE b
Smaller(a, b) == IF a < b THEN a ELSE b

BestScaleUnbounded(d) ==                             \* mutant: the minimum is forgotten
    IF d.mode = Global THEN Global
    ELSE Smaller(Larger(d.mode + Delta(d.rule), 0), d.config.max)
BestScaleAnyway(d) ==                                \* mutant: no default minimum
    IF d.mode = Global THEN Global ELSE Smaller(d.mode + Delta(d.rule), d.config.max)
BestScale(d) ==
    IF d.mode = Global THEN Global
    ELSE Smaller(Larger(d.mode + Delta(d.rule), d.config.min), d.config.max)

-----------------------------------------------------------------------------
(* The system starts with nothing monitored, or with every service         *)
(* attached with the same configuration.                                   *)
Init ==
    /\ replicas \in [Services -> InitialScales]
    /\ \/ docs = << >> /\ rules = << >> /\ watched = {}
       \/ /\ watched = Services
          /\ \E c \in Configs :
                /\ docs = [s \in Services |-> NewDoc(replicas[s], c)]
                /\ rules = [s \in {t \in Services : Installable(c)} |-> c.signs]
    /\ reported = << >>
    /\ load = [s \in Services |-> "fine"]
    /\ orders = << >>
    /\ queues = [h \in Handlers |-> << >>]
    /\ stage = [w \in Workers |-> "idle"]
    /\ msg = [w \in Workers |-> NoMessage]
    /\ doc = [w \in Workers |-> NoDoc]
    /\ todo = [w \in Workers |-> << >>]
    /\ inputs = 0
    /\ crashes = 0
    /\ failures = 0
    /\ undeleted = {}

-----------------------------------------------------------------------------
(* Around the load manager                                                 *)

(* The sequence q with message m sent.                                     *)
Send(h, m) == queues' = [queues EXCEPT ![h] = Append(@, m)]

Environment(step) ==
    /\ step \in Inputs /\ inputs < MaxInputs
    /\ inputs' = inputs + 1
    /\ UNCHANGED <<store, stage, msg, doc, todo, faults>>

(* Docker gives s n replicas, and the overseer announces it if it watches  *)
(* the service.                                                            *)
SetReplicas(s, n) ==
    /\ replicas' = [replicas EXCEPT ![s] = n]
    /\ IF s \in watched
          THEN Send("updated", [AnyMessage("updated", s) EXCEPT !.diff = "scale", !.mode = n])
          ELSE UNCHANGED queues

(* An operator scales a replicated service by hand.                        *)
ScaleByHand(s) ==
    /\ Environment("hand")
    /\ replicas[s] # Global
    /\ \E n \in (0 .. MaxReplicas) \ {replicas[s]} : SetReplicas(s, n)
    /\ UNCHANGED <<watched, load, orders>>

(* An image with another scale_config is deployed.                         *)
NewScaleConfig(s) ==
    /\ Environment("config")
    /\ s \in watched
    /\ \E c \in Configs :
          Send("updated", [AnyMessage("updated", s) EXCEPT !.diff = "config", !.config = c])
    /\ UNCHANGED <<cluster, orders>>

(* overseer.monitor: the load manager is called asynchronously, and an     *)
(* update without any diff is announced.                                   *)
MonitorService(s) ==
    /\ Environment("monitor")
    /\ watched' = watched \cup {s}
    /\ \E c \in Configs :
          LET m == [AnyMessage("monitor", s) EXCEPT !.mode = replicas[s], !.config = c]
          IN queues' = [queues EXCEPT
                            !["rpc"] = Append(@, m),
                            !["updated"] = Append(@, AnyMessage("updated", s))]
    /\ UNCHANGED <<replicas, load, orders>>

(* The RPC unmonitor_service of the load manager, and the overseer's own,  *)
(* which tells the load manager nothing.                                   *)
UnmonitorService(s) ==
    /\ Environment("unmonitor")
    /\ Send("rpc", AnyMessage("unmonitor", s))
    /\ UNCHANGED <<cluster, orders>>

Unwatch(s) ==
    /\ Environment("unwatch")
    /\ watched' = watched \ {s}
    /\ UNCHANGED <<replicas, load, orders, queues>>

ChangeLoad(s) ==
    /\ Environment("load")
    /\ \E l \in {"up", "down", "fine"} \ {load[s]} : load' = [load EXCEPT ![s] = l]
    /\ UNCHANGED <<replicas, watched, orders, queues>>

(* The trigger reports results that differ from the last ones.             *)
Report(s) ==
    /\ s \in DOMAIN rules
    /\ s \in DOMAIN reported => reported[s] # Holding(s)
    /\ reported' = Store(reported, s, Holding(s))
    /\ Send("triggered", [AnyMessage("triggered", s) EXCEPT
                             !.rule = [present |-> TRUE, signs |-> rules[s],
                                       holds |-> Holding(s)]])
    /\ UNCHANGED <<docs, rules, cluster, orders, stage, msg, doc, todo, inputs, faults>>

(* One of the orders reaches docker.  Docker does not change the mode of a *)
(* service, and announces nothing when the scale is already the one asked. *)
ApplyOrder ==
    /\ \E i \in DOMAIN orders :
          LET o == orders[i]
          IN /\ orders' = [j \in 1 .. Len(orders) - 1 |->
                              IF j < i THEN orders[j] ELSE orders[j + 1]]
             /\ IF replicas[o.service] \in {Global, o.scale}
                   THEN UNCHANGED <<replicas, queues>>
                   ELSE SetReplicas(o.service, o.scale)
    /\ UNCHANGED <<store, watched, load, stage, msg, doc, todo, inputs, faults>>

(* Thirty seconds pass.  Orders are not delayed for ever, so that no more  *)
(* than MaxOrders are under way when time passes.                          *)
TimePasses ==
    /\ Len(orders) < MaxOrders
    /\ \E s \in DOMAIN docs : docs[s].rule.present /\ ~docs[s].old
    /\ docs' = [s \in DOMAIN docs |-> [docs[s] EXCEPT !.old = docs[s].rule.present]]
    /\ UNCHANGED <<rules, reported, cluster, orders, queues, stage, msg, doc, todo,
                   inputs, faults>>

-----------------------------------------------------------------------------
(* Workers                                                                 *)

Goto(w, st) == stage' = [stage EXCEPT ![w] = st]

(* A handler returns, or an exception ends it.                             *)
Finish(w) ==
    /\ Goto(w, "idle")
    /\ msg' = [msg EXCEPT ![w] = NoMessage]
    /\ doc' = [doc EXCEPT ![w] = NoDoc]
    /\ todo' = [todo EXCEPT ![w] = << >>]

(* An RPC that the handler awaits raises, which ends it; its message is    *)
(* acknowledged.                                                           *)
Fail(w) ==
    /\ failures < MaxFailures
    /\ failures' = failures + 1
    /\ UNCHANGED crashes
    /\ Finish(w)

Receive(w, h) ==
    /\ stage[w] = "idle"
    /\ queues[h] # << >>
    /\ msg' = [msg EXCEPT ![w] = Head(queues[h])]
    /\ queues' = [queues EXCEPT ![h] = Tail(@)]
    /\ Goto(w, FirstStage(Head(queues[h]).kind))
    /\ UNCHANGED <<store, cluster, orders, doc, todo, inputs, faults>>

(* The process dies.  A message is delivered again; the timer starts over. *)
Crash(w) ==
    /\ stage[w] # "idle"
    /\ crashes < MaxCrashes
    /\ crashes' = crashes + 1
    /\ Goto(w, IF msg[w].kind = "tick" THEN "idle" ELSE FirstStage(msg[w].kind))
    /\ doc' = [doc EXCEPT ![w] = NoDoc]
    /\ todo' = [todo EXCEPT ![w] = << >>]
    /\ msg' = [msg EXCEPT ![w] = IF @.kind = "tick" THEN NoMessage ELSE @]
    /\ UNCHANGED <<store, cluster, orders, queues, inputs, failures, undeleted>>

-----------------------------------------------------------------------------
(* on_service_updated, monitor_service, unmonitor_service                  *)

(* The document is read.  A scale_config that is None raises, one without  *)
(* a "scale" part is ignored.                                              *)
ReadUpdatedMode(w) ==                                \* mutant: only "mode" is looked at
    /\ stage[w] = "read" /\ msg[w].kind = "updated"
    /\ IF msg[w].service \in DOMAIN docs
          THEN /\ doc' = [doc EXCEPT ![w] = docs[msg[w].service]]
               /\ Goto(w, "save") /\ UNCHANGED <<msg, todo>>
          ELSE Finish(w)
    /\ UNCHANGED <<store, cluster, orders, queues, inputs, faults>>
ReadUpdatedUnknown(w) ==                             \* mutant: an unknown service is built
    /\ stage[w] = "read" /\ msg[w].kind = "updated"
    /\ doc' = [doc EXCEPT ![w] = NewDoc(msg[w].mode, msg[w].config)]
    /\ Goto(w, "save")
    /\ UNCHANGED <<store, cluster, orders, queues, msg, todo, inputs, faults>>
ReadUpdated(w) ==
    LET s == msg[w].service
        c == msg[w].config
    IN /\ stage[w] = "read" /\ msg[w].kind = "updated"
       /\ \/ /\ \/ s \notin DOMAIN docs
                \/ msg[w].diff = "config" /\ c.kind = "none"
             /\ Finish(w)
          \/ /\ s \in DOMAIN docs
             /\ \/ /\ msg[w].diff = "scale"
                   /\ doc' = [doc EXCEPT ![w] = [docs[s] EXCEPT !.mode = msg[w].mode]]
                   /\ Goto(w, "save")
                \/ /\ msg[w].diff = "config" /\ c.kind = "scale"
                   /\ doc' = [doc EXCEPT ![w] = [docs[s] EXCEPT !.config = c]]
                   /\ Goto(w, "rules")
                \/ /\ \/ msg[w].diff = "none"
                      \/ msg[w].diff = "config" /\ c.kind = "plain"
                   /\ doc' = [doc EXCEPT ![w] = docs[s]]
                   /\ Goto(w, "save")
             /\ UNCHANGED <<msg, todo>>
       /\ UNCHANGED <<store, cluster, orders, queues, inputs, faults>>

(* _set_trigger_rules: the trigger replaces the ruleset, without history.  *)
(* A ruleset it cannot compute, or a trigger that is not there, is only    *)
(* logged and the previous ruleset stays.  Any other error of compute or   *)
(* of add, which may have stored the ruleset, ends the handler: the        *)
(* document of on_service_updated is not saved.                            *)
SetTriggerRules(w) ==
    LET s == msg[w].service
        c == msg[w].config
    IN /\ stage[w] = "rules"
       /\ \/ /\ Installable(c)
             /\ rules' = Store(rules, s, c.signs)
             /\ reported' = Without(reported, s)
          \/ UNCHANGED <<rules, reported>>
       /\ \/ msg[w].kind = "updated" /\ Goto(w, "save") /\ UNCHANGED <<msg, doc, todo, faults>>
          \/ msg[w].kind = "monitor" /\ Finish(w) /\ UNCHANGED faults
          \/ Fail(w) /\ UNCHANGED undeleted
       /\ UNCHANGED <<docs, cluster, orders, queues, inputs>>

(* The whole document is stored, or stored again, whatever happened to it. *)
SaveUpdated(w) ==
    /\ stage[w] = "save" /\ msg[w].kind = "updated"
    /\ docs' = Store(docs, msg[w].service, doc[w])
    /\ Finish(w)
    /\ UNCHANGED <<rules, reported, cluster, orders, queues, inputs, faults>>

(* A new document replaces the previous one, then the rules follow; a      *)
(* scale_config that is None raises before they do.                        *)
SaveMonitored(w) ==
    LET c == msg[w].config
    IN /\ stage[w] = "save" /\ msg[w].kind = "monitor"
       /\ docs' = Store(docs, msg[w].service, NewDoc(msg[w].mode, c))
       /\ \/ c.kind = "none" /\ Finish(w)
          \/ c.kind = "plain" /\ Goto(w, "delete") /\ UNCHANGED <<msg, doc, todo>>
          \/ c.kind = "scale" /\ Goto(w, "rules") /\ UNCHANGED <<msg, doc, todo>>
       /\ UNCHANGED <<rules, reported, cluster, orders, queues, inputs, faults>>

RemoveService(w) ==
    /\ stage[w] = "remove"
    /\ docs' = Without(docs, msg[w].service)
    /\ Goto(w, "delete")
    /\ UNCHANGED <<rules, reported, cluster, orders, queues, msg, doc, todo, inputs, faults>>

(* trigger.delete, which nothing guards: when it raises, the document is   *)
(* gone, or replaced, and the rules stay.                                  *)
DeleteRulesNot(w) ==                                 \* mutant: the rules are left
    /\ stage[w] = "delete"
    /\ Finish(w)
    /\ UNCHANGED <<store, cluster, orders, queues, inputs, faults>>
DeleteRules(w) ==
    LET s == msg[w].service
    IN /\ stage[w] = "delete"
       /\ \/ /\ rules' = Without(rules, s)
             /\ reported' = Without(reported, s)
             /\ undeleted' = undeleted \ {s}
             /\ Finish(w)
             /\ UNCHANGED <<crashes, failures>>
          \/ /\ Fail(w)
             /\ undeleted' = undeleted \cup {s}
             /\ UNCHANGED <<rules, reported>>
       /\ UNCHANGED <<docs, cluster, orders, queues, inputs>>

-----------------------------------------------------------------------------
(* on_ruleset_triggered, recheck_rules, _execute_ruleset                   *)

(* An unknown service raises.                                              *)
ReadTriggered(w) ==
    LET s == msg[w].service
    IN /\ stage[w] = "read" /\ msg[w].kind = "triggered"
       /\ \/ s \notin DOMAIN docs /\ Finish(w)
          \/ /\ s \in DOMAIN docs
             /\ doc' = [doc EXCEPT ![w] = [docs[s] EXCEPT !.rule = msg[w].rule, !.old = FALSE]]
             /\ Goto(w, "execute")
             /\ UNCHANGED <<msg, todo>>
       /\ UNCHANGED <<store, cluster, orders, queues, inputs, faults>>

(* The timer: the documents are read, then seen one after the other.       *)
RecheckRules(w) ==
    /\ stage[w] = "idle"
    /\ DOMAIN docs # {}
    /\ Goto(w, "scan")
    /\ todo' = [todo EXCEPT ![w] = docs]
    /\ UNCHANGED <<store, cluster, orders, queues, msg, doc, inputs, faults>>

(* A ruleset without "up", or without "down" when "up" does not hold,      *)
(* raises.                                                                 *)
Unreadable(r) == "up" \notin r.signs \/ ("up" \notin r.holds /\ "down" \notin r.signs)
DueBoth(d) == d.rule.present /\ d.rule.holds = Signs /\ d.old  \* mutant: "and" for "or"
Due(d) == d.rule.present /\ d.rule.holds # {} /\ d.old

Recheck(w) ==
    /\ stage[w] = "scan"
    /\ \/ DOMAIN todo[w] = {} /\ Finish(w)
       \/ \E s \in DOMAIN todo[w] :
             LET d == todo[w][s]
             IN \/ d.rule.present /\ Unreadable(d.rule) /\ Finish(w)
                \/ /\ ~(d.rule.present /\ Unreadable(d.rule))
                   /\ todo' = [todo EXCEPT ![w] = Without(@, s)]
                   /\ \/ ~Due(d) /\ UNCHANGED <<stage, msg, doc>>
                      \/ /\ Due(d)
                         /\ msg' = [msg EXCEPT ![w].service = s]
                         /\ doc' = [doc EXCEPT ![w] = [d EXCEPT !.old = FALSE]]
                         /\ Goto(w, "execute")
    /\ UNCHANGED <<store, cluster, orders, queues, inputs, faults>>

(* The timer goes on with the next document, an event is over.             *)
Return(w) ==
    \/ msg[w].kind = "tick" /\ Goto(w, "scan") /\ UNCHANGED <<msg, doc, todo>>
    \/ msg[w].kind # "tick" /\ Finish(w)

(* The results are saved in the document, if it is still there.            *)
ExecuteRuleset(w) ==
    LET s == msg[w].service
    IN /\ stage[w] = "execute"
       /\ docs' = [t \in DOMAIN docs |-> IF t = s THEN doc[w] ELSE docs[t]]
       /\ \/ BestScale(doc[w]) = doc[w].mode /\ Return(w)
          \/ BestScale(doc[w]) # doc[w].mode /\ Goto(w, "scale") /\ UNCHANGED <<msg, doc, todo>>
       /\ UNCHANGED <<rules, reported, cluster, orders, queues, inputs, faults>>

(* The order; a service the overseer does not watch raises, and any other  *)
(* error does, which ends the handler, the timer's too.                    *)
CallScale(w) ==
    LET s == msg[w].service
    IN /\ stage[w] = "scale"
       /\ \/ /\ s \in watched
             /\ orders' = Append(orders, [service |-> s, scale |-> BestScale(doc[w])])
             /\ Return(w)
             /\ UNCHANGED faults
          \/ s \notin watched /\ Finish(w) /\ UNCHANGED <<orders, faults>>
          \/ s \in watched /\ Fail(w) /\ UNCHANGED <<orders, undeleted>>
       /\ UNCHANGED <<store, cluster, queues, inputs>>

-----------------------------------------------------------------------------
Work(w) ==
    \/ ReadUpdated(w) \/ SetTriggerRules(w) \/ SaveUpdated(w) \/ SaveMonitored(w)
    \/ RemoveService(w) \/ DeleteRules(w) \/ ReadTriggered(w) \/ Recheck(w)
    \/ ExecuteRuleset(w) \/ CallScale(w)

(* Nothing is left to do, nothing is monitored and nothing new to report.  *)
Quiet ==
    /\ \A w \in Workers : stage[w] = "idle"
    /\ inputs = MaxInputs /\ DOMAIN docs = {} /\ DOMAIN rules \subseteq DOMAIN reported
    /\ orders = << >> /\ \A h \in Handlers : queues[h] = << >>
    /\ UNCHANGED vars

Next ==
    \/ \E s \in Services :
          \/ ScaleByHand(s) \/ NewScaleConfig(s) \/ MonitorService(s)
          \/ UnmonitorService(s) \/ Unwatch(s) \/ ChangeLoad(s) \/ Report(s)
    \/ ApplyOrder \/ TimePasses \/ Quiet
    \/ \E w \in Workers :
          Work(w) \/ RecheckRules(w) \/ Crash(w) \/ \E h \in Handlers : Receive(w, h)

Spec == Init /\ [][Next]_vars

(* Handlers end, the timer ticks, every queue is consumed, the trigger     *)
(* polls its metrics, docker answers and time passes.  Workers go from one *)
(* message or tick to another, hence strong fairness for taking each kind. *)
Fairness ==
    /\ WF_vars(ApplyOrder) /\ WF_vars(TimePasses)
    /\ \A s \in Services : WF_vars(Report(s))
    /\ \A w \in Workers :
          /\ WF_vars(Work(w))
          /\ SF_vars(RecheckRules(w))
          /\ \A h \in Handlers : SF_vars(Receive(w, h))

FairSpec == Spec /\ Fairness

-----------------------------------------------------------------------------
(* Properties, for any number of workers                                   *)

(* The collections, the messages and the handlers' variables keep their    *)
(* types.  In particular no order asks docker for a negative scale, which  *)
(* scaler_docker would read as "global".                                   *)
TypeOK ==
    /\ DOMAIN docs \subseteq Services
    /\ docs \in [DOMAIN docs -> Doc]
    /\ DOMAIN rules \subseteq Services
    /\ rules \in [DOMAIN rules -> SUBSET Signs]
    /\ DOMAIN reported \subseteq DOMAIN rules
    /\ reported \in [DOMAIN reported -> SUBSET Signs]
    /\ replicas \in [Services -> Scales]
    /\ watched \subseteq Services
    /\ load \in [Services -> {"up", "down", "fine"}]
    /\ orders \in Seq(Order)
    /\ queues \in [Handlers -> Seq(Message)]
    /\ stage \in [Workers -> Stages]
    /\ msg \in [Workers -> Message]
    /\ doc \in [Workers -> Doc]
    /\ DOMAIN todo = Workers
    /\ \A w \in Workers :
          DOMAIN todo[w] \subseteq Services /\ todo[w] \in [DOMAIN todo[w] -> Doc]
    /\ inputs \in Nat
    /\ crashes \in Nat /\ failures \in Nat
    /\ undeleted \subseteq Services

-----------------------------------------------------------------------------
(* Properties that need a single worker                                    *)

(* A service that was unmonitored comes back by monitor_service only: no   *)
(* late event stores its document again (on_service_updated upserts).      *)
NoResurrection ==
    [][\A s \in DOMAIN docs' \ DOMAIN docs :
          \E w \in Workers : msg[w].kind = "monitor" /\ msg[w].service = s]_vars

(* Between two handlers the trigger has rules for monitored services, and  *)
(* for those whose last trigger.delete raised, only: whatever crashes      *)
(* between the document and the rules, and whatever else raises, no        *)
(* ruleset scales a service that nobody manages.                           *)
RulesFollowServices ==
    (\A w \in Workers : stage[w] = "idle") => DOMAIN rules \subseteq DOMAIN docs \cup undeleted

(* An order stays within the bounds of the service's scale_config, and     *)
(* only a rule, or a scale out of bounds, moves the scale the document     *)
(* knows, in its direction.                                                *)
Justified(n, d) ==
    /\ d.config.min <= n /\ n <= d.config.max
    /\ n > d.mode => "up" \in d.rule.holds \/ d.mode < d.config.min
    /\ n < d.mode => \/ "down" \in d.rule.holds /\ "up" \notin d.rule.holds
                     \/ d.mode > d.config.max

OrdersJustified ==
    [][Len(orders') > Len(orders) =>
          LET o == orders'[Len(orders')]
          IN o.service \in DOMAIN docs /\ Justified(o.scale, docs[o.service])]_vars

(* When every announced change was handled, the scale in a document is the *)
(* one docker has: a handler that stores a document it read does not bring *)
(* an old scale back, and the next order starts from the real scale.       *)
(* (monitor_service may store a scale older than an event handled before   *)
(* it: this is for services that are already monitored.)                   *)
KnownScaleIsReal ==
    (\A w \in Workers : stage[w] = "idle") /\ queues["updated"] = << >> =>
        \A s \in DOMAIN docs \cap watched : docs[s].mode = replicas[s]

(* "this service monitor load of service and manage their best scale": a   *)
(* replicated service whose rules ask for more replicas for ever ends at   *)
(* the maximum of its scale_config, although the trigger reports a result  *)
(* only once: recheck_rules executes it again and again.                   *)
Overloaded(s) ==
    /\ s \in DOMAIN docs /\ s \in DOMAIN rules /\ s \in watched
    /\ replicas[s] # Global
    /\ "up" \in rules[s] /\ load[s] = "up"

ScalesUpToMax ==
    \A s \in Services :
        <>[]Overloaded(s) => <>[](s \in DOMAIN docs /\ replicas[s] = docs[s].config.max)
=============================================================================
