--------------------------- MODULE LoadManagerProofs ---------------------------
(***************************************************************************)
(* What LoadManager promises for any services, configurations, messages    *)
(* and crashes: the types for any number of workers, and the properties of *)
(* a single worker (one instance with max_workers at 1).                   *)
(***************************************************************************)
EXTENDS LoadManager, TLAPS

(* The parts of TypeOK.                                                    *)
StoreOK ==
    /\ DOMAIN docs \subseteq Services
    /\ docs \in [DOMAIN docs -> Doc]
    /\ DOMAIN rules \subseteq Services
    /\ rules \in [DOMAIN rules -> SUBSET Signs]
    /\ DOMAIN reported \subseteq DOMAIN rules
    /\ reported \in [DOMAIN reported -> SUBSET Signs]

ClusterOK ==
    /\ replicas \in [Services -> Scales]
    /\ watched \subseteq Services
    /\ load \in [Services -> {"up", "down", "fine"}]

MessagesOK == orders \in Seq(Order) /\ queues \in [Handlers -> Seq(Message)]

WorkersOK ==
    /\ stage \in [Workers -> Stages]
    /\ msg \in [Workers -> Message]
    /\ doc \in [Workers -> Doc]
    /\ DOMAIN todo = Workers
    /\ \A w \in Workers :
          DOMAIN todo[w] \subseteq Services /\ todo[w] \in [DOMAIN todo[w] -> Doc]

CountersOK ==
    inputs \in Nat /\ crashes \in Nat /\ failures \in Nat /\ undeleted \subseteq Services

(* An order is computed for a replicated service only, so that the number  *)
(* it asks docker for is never the one that stands for "global".           *)
ScalingReplicated == \A w \in Workers : stage[w] = "scale" => doc[w].mode # Global

TypeInv ==
    StoreOK /\ ClusterOK /\ MessagesOK /\ WorkersOK /\ CountersOK /\ ScalingReplicated

-----------------------------------------------------------------------------
(* Lemmas on the operators                                                 *)

LEMMA AnyConfigType == AnyConfig \in Configs
  BY ConstantsAssumption DEF AnyConfig

LEMMA ConfigFields ==
    ASSUME NEW c \in Configs
    PROVE  /\ c.kind \in {"none", "plain", "scale"} /\ c.signs \in SUBSET Signs
           /\ c.min \in Nat /\ c.max \in Nat
  BY ConstantsAssumption DEF Config

LEMMA NewDocType ==
    ASSUME NEW m \in Scales, NEW c \in Configs
    PROVE  NewDoc(m, c) \in Doc
  BY DEF NewDoc, Doc, NoResult, Result

LEMMA NoDocType == NoDoc \in Doc /\ NoDoc.mode = 0
  BY AnyConfigType, NewDocType DEF NoDoc, NewDoc, Scales

LEMMA AnyMessageType ==
    ASSUME NEW k \in Kinds, NEW s \in Services
    PROVE  AnyMessage(k, s) \in Message
  BY AnyConfigType DEF AnyMessage, Message, NoResult, Result, Scales

LEMMA NoMessageType == NoMessage \in Message /\ NoMessage.kind = "tick"
<1>1. (CHOOSE s \in Services : TRUE) \in Services
  BY ConstantsAssumption
<1> QED BY <1>1, AnyMessageType DEF NoMessage, AnyMessage, Kinds

LEMMA FirstStageType ==
    ASSUME NEW k \in Kinds
    PROVE  FirstStage(k) \in {"save", "remove", "scan", "read"}
  BY DEF FirstStage

LEMMA StoreType ==
    ASSUME NEW T, NEW f, f \in [DOMAIN f -> T], NEW s, NEW d \in T
    PROVE  /\ DOMAIN Store(f, s, d) = DOMAIN f \cup {s}
           /\ Store(f, s, d) \in [DOMAIN Store(f, s, d) -> T]
           /\ Store(f, s, d)[s] = d
           /\ \A t \in DOMAIN f : t # s => Store(f, s, d)[t] = f[t]
  BY DEF Store

LEMMA WithoutType ==
    ASSUME NEW T, NEW f, f \in [DOMAIN f -> T], NEW s
    PROVE  /\ DOMAIN Without(f, s) = DOMAIN f \ {s}
           /\ Without(f, s) \in [DOMAIN Without(f, s) -> T]
           /\ \A t \in DOMAIN f : t # s => Without(f, s)[t] = f[t]
  BY DEF Without

LEMMA TailFacts ==
    ASSUME NEW S, NEW q \in Seq(S), q # << >>
    PROVE  /\ 1 \in DOMAIN q /\ Head(q) = q[1]
           /\ DOMAIN q = 1 .. Len(q) /\ Len(q) \in Nat
           /\ DOMAIN Tail(q) = 1 .. Len(q) - 1
           /\ \A i \in DOMAIN Tail(q) : i + 1 \in DOMAIN q /\ Tail(q)[i] = q[i + 1]
<1>1. Len(q) \in Nat /\ Len(q) > 0 /\ DOMAIN q = 1 .. Len(q) /\ Head(q) = q[1]
  OBVIOUS
<1>2. Tail(q) \in Seq(S) /\ Len(Tail(q)) = Len(q) - 1
  OBVIOUS
<1>3. DOMAIN Tail(q) = 1 .. Len(q) - 1
  BY <1>2
<1>4. \A i \in 1 .. Len(q) - 1 : Tail(q)[i] = q[i + 1]
  OBVIOUS
<1> QED BY <1>1, <1>3, <1>4

(* _get_best_scale: of a replicated service, a number of replicas.         *)
LEMMA BestScaleType ==
    ASSUME NEW d \in Doc, d.mode # Global
    PROVE  BestScale(d) \in Nat
<1>1. d.mode \in Nat /\ d.config \in Configs
  BY DEF Doc, Scales
<1>2. d.config.min \in Nat /\ d.config.max \in Nat
  BY <1>1, ConfigFields
<1>3. Delta(d.rule) \in {-1, 0, 1}
  BY DEF Delta
<1> QED BY <1>1, <1>2, <1>3 DEF BestScale, Larger, Smaller

-----------------------------------------------------------------------------
(* The types                                                               *)

LEMMA TypeInit == Init => TypeInv
<1> SUFFICES ASSUME Init PROVE TypeInv
  OBVIOUS
<1>1. StoreOK
  <2>1. CASE docs = << >> /\ rules = << >> /\ watched = {}
    BY <2>1 DEF Init, StoreOK
  <2>2. CASE \E c \in Configs :
                /\ docs = [s \in Services |-> NewDoc(replicas[s], c)]
                /\ rules = [s \in {t \in Services : Installable(c)} |-> c.signs]
    <3>1. PICK c \in Configs :
                /\ docs = [s \in Services |-> NewDoc(replicas[s], c)]
                /\ rules = [s \in {t \in Services : Installable(c)} |-> c.signs]
      BY <2>2
    <3>2. \A s \in Services : replicas[s] \in Scales
      BY ConstantsAssumption DEF Init
    <3>3. \A s \in Services : NewDoc(replicas[s], c) \in Doc
      BY <3>2, NewDocType
    <3>4. c.signs \in SUBSET Signs
      BY ConfigFields
    <3> QED BY <3>1, <3>3, <3>4 DEF Init, StoreOK
  <2> QED BY <2>1, <2>2 DEF Init
<1>2. ClusterOK
  BY ConstantsAssumption DEF Init, ClusterOK
<1>3. MessagesOK
  BY DEF Init, MessagesOK
<1>4. WorkersOK
  <2>1. ASSUME NEW w \in Workers
        PROVE  DOMAIN todo[w] \subseteq Services /\ todo[w] \in [DOMAIN todo[w] -> Doc]
    BY DEF Init
  <2> QED BY <2>1, NoMessageType, NoDocType DEF Init, WorkersOK, Stages
<1>5. CountersOK /\ ScalingReplicated
  BY DEF Init, CountersOK, ScalingReplicated
<1> QED BY <1>1, <1>2, <1>3, <1>4, <1>5 DEF TypeInv

(* A worker that changes its stage only.                                   *)
LEMMA GotoType ==
    ASSUME TypeInv, NEW w \in Workers, NEW st \in Stages, Goto(w, st),
           UNCHANGED <<msg, doc, todo>>, st = "scale" => doc[w].mode # Global
    PROVE  WorkersOK' /\ ScalingReplicated'
  BY DEF TypeInv, WorkersOK, ScalingReplicated, Goto

LEMMA FinishType ==
    ASSUME TypeInv, NEW w \in Workers, Finish(w)
    PROVE  WorkersOK' /\ ScalingReplicated'
<1>1. /\ stage' = [stage EXCEPT ![w] = "idle"]
      /\ msg' = [msg EXCEPT ![w] = NoMessage]
      /\ doc' = [doc EXCEPT ![w] = NoDoc]
      /\ todo' = [todo EXCEPT ![w] = << >>]
  BY DEF Finish, Goto
<1>2. stage' \in [Workers -> Stages] /\ msg' \in [Workers -> Message] /\ doc' \in [Workers -> Doc]
  BY <1>1, NoMessageType, NoDocType DEF TypeInv, WorkersOK, Stages
<1>3. /\ DOMAIN todo' = Workers
      /\ \A v \in Workers :
            DOMAIN todo'[v] \subseteq Services /\ todo'[v] \in [DOMAIN todo'[v] -> Doc]
  BY <1>1 DEF TypeInv, WorkersOK
<1>4. ScalingReplicated'
  BY <1>1 DEF TypeInv, WorkersOK, ScalingReplicated
<1> QED BY <1>2, <1>3, <1>4 DEF WorkersOK

(* The document that a worker reads or builds.                             *)
LEMMA TakesDocType ==
    ASSUME TypeInv, NEW w \in Workers, NEW st \in Stages \ {"scale"}, Goto(w, st),
           NEW d \in Doc, doc' = [doc EXCEPT ![w] = d], UNCHANGED <<msg, todo>>
    PROVE  WorkersOK' /\ ScalingReplicated'
  BY DEF TypeInv, WorkersOK, ScalingReplicated, Goto

LEMMA SendType ==
    ASSUME TypeInv, NEW h \in Handlers, NEW m \in Message, Send(h, m)
    PROVE  queues' \in [Handlers -> Seq(Message)]
  BY DEF TypeInv, MessagesOK, Send

LEMMA AppliedOrders ==
    ASSUME MessagesOK, NEW i \in DOMAIN orders
    PROVE  [j \in 1 .. Len(orders) - 1 |-> IF j < i THEN orders[j] ELSE orders[j + 1]]
               \in Seq(Order)
<1>1. Len(orders) - 1 \in Nat
  BY DEF MessagesOK
<1>2. \A j \in 1 .. Len(orders) - 1 :
          (IF j < i THEN orders[j] ELSE orders[j + 1]) \in Order
  BY DEF MessagesOK
<1> QED BY <1>1, <1>2

(* Around the load manager.                                                *)
LEMMA EnvironmentType ==
    ASSUME TypeInv, NEW s \in Services,
           \/ ScaleByHand(s) \/ NewScaleConfig(s) \/ MonitorService(s)
           \/ UnmonitorService(s) \/ Unwatch(s) \/ ChangeLoad(s)
    PROVE  TypeInv'
<1>0. PICK step : Environment(step)
  BY DEF ScaleByHand, NewScaleConfig, MonitorService, UnmonitorService, Unwatch, ChangeLoad
<1>1. StoreOK' /\ WorkersOK' /\ ScalingReplicated'
  BY <1>0 DEF TypeInv, Environment, store, StoreOK, WorkersOK, ScalingReplicated
<1>2. CountersOK'
  BY <1>0 DEF TypeInv, Environment, faults, CountersOK
<1>3. \A k \in Kinds : AnyMessage(k, s) \in Message
  BY AnyMessageType
<1>4. CASE ScaleByHand(s)
  <2>1. PICK n \in 0 .. MaxReplicas : SetReplicas(s, n)
    BY <1>4 DEF ScaleByHand
  <2>2. n \in Scales
    BY ConstantsAssumption DEF Scales
  <2>3. [AnyMessage("updated", s) EXCEPT !.diff = "scale", !.mode = n] \in Message
    BY <1>3, <2>2 DEF Message, Kinds
  <2>4. queues' \in [Handlers -> Seq(Message)]
    BY <2>1, <2>3, SendType DEF SetReplicas, Handlers, TypeInv, MessagesOK
  <2> QED BY <1>1, <1>2, <1>4, <2>1, <2>2, <2>4
          DEF TypeInv, ScaleByHand, SetReplicas, ClusterOK, MessagesOK
<1>5. CASE NewScaleConfig(s)
  <2>1. PICK c \in Configs :
           Send("updated", [AnyMessage("updated", s) EXCEPT !.diff = "config", !.config = c])
    BY <1>5 DEF NewScaleConfig
  <2>2. [AnyMessage("updated", s) EXCEPT !.diff = "config", !.config = c] \in Message
    BY <1>3 DEF Message, Kinds
  <2>3. queues' \in [Handlers -> Seq(Message)]
    BY <2>1, <2>2, SendType DEF Handlers
  <2> QED BY <1>1, <1>2, <1>5, <2>3
          DEF TypeInv, NewScaleConfig, cluster, ClusterOK, MessagesOK
<1>6. CASE MonitorService(s)
  <2> DEFINE M(c) == [AnyMessage("monitor", s) EXCEPT !.mode = replicas[s], !.config = c]
  <2>1. PICK c \in Configs :
           queues' = [queues EXCEPT
                         !["rpc"] = Append(@, M(c)),
                         !["updated"] = Append(@, AnyMessage("updated", s))]
    BY <1>6 DEF MonitorService
  <2>2. M(c) \in Message
    BY <1>3 DEF Message, Kinds, TypeInv, ClusterOK
  <2>3. AnyMessage("updated", s) \in Message
    BY <1>3 DEF Kinds
  <2> HIDE DEF M
  <2>4. [queues EXCEPT !["rpc"] = Append(@, M(c))] \in [Handlers -> Seq(Message)]
    <3>1. Append(queues["rpc"], M(c)) \in Seq(Message)
      BY <2>2 DEF TypeInv, MessagesOK, Handlers
    <3> QED BY <3>1 DEF TypeInv, MessagesOK
  <2>5. Append(queues["updated"], AnyMessage("updated", s)) \in Seq(Message)
    BY <2>3 DEF TypeInv, MessagesOK, Handlers
  <2>6. queues' \in [Handlers -> Seq(Message)]
    BY <2>1, <2>4, <2>5
  <2> QED BY <1>1, <1>2, <1>6, <2>6 DEF TypeInv, MonitorService, ClusterOK, MessagesOK
<1>7. CASE UnmonitorService(s)
  <2>1. queues' \in [Handlers -> Seq(Message)]
    BY <1>3, <1>7, SendType DEF UnmonitorService, Handlers, Kinds
  <2> QED BY <1>1, <1>2, <1>7, <2>1
          DEF TypeInv, UnmonitorService, cluster, ClusterOK, MessagesOK
<1>8. CASE Unwatch(s) \/ ChangeLoad(s)
  BY <1>1, <1>2, <1>8 DEF TypeInv, Unwatch, ChangeLoad, ClusterOK, MessagesOK
<1> QED BY <1>4, <1>5, <1>6, <1>7, <1>8

LEMMA ReportType ==
    ASSUME TypeInv, NEW s \in Services, Report(s)
    PROVE  TypeInv'
<1>1. Holding(s) \in SUBSET Signs /\ rules[s] \in SUBSET Signs /\ s \in DOMAIN rules
  BY DEF Holding, Report, TypeInv, StoreOK
<1>2. StoreOK'
  <2>1. reported' = Store(reported, s, Holding(s)) /\ UNCHANGED <<docs, rules>>
    BY DEF Report
  <2>2. /\ DOMAIN reported' = DOMAIN reported \cup {s}
        /\ reported' \in [DOMAIN reported' -> SUBSET Signs]
    BY <1>1, <2>1 DEF Store, TypeInv, StoreOK
  <2> QED BY <1>1, <2>1, <2>2 DEF TypeInv, StoreOK
<1>3. queues' \in [Handlers -> Seq(Message)]
  <2> DEFINE r == [present |-> TRUE, signs |-> rules[s], holds |-> Holding(s)]
  <2>1. r \in Result
    BY <1>1 DEF Result
  <2> HIDE DEF r
  <2>2. AnyMessage("triggered", s) \in Message
    BY AnyMessageType DEF Kinds
  <2>3. [AnyMessage("triggered", s) EXCEPT !.rule = r] \in Message
    BY <2>1, <2>2 DEF Message
  <2>4. Send("triggered", [AnyMessage("triggered", s) EXCEPT !.rule = r])
    BY DEF Report, r
  <2> QED BY <2>3, <2>4, SendType DEF Handlers
<1> QED BY <1>2, <1>3
        DEF Report, cluster, TypeInv, ClusterOK, MessagesOK, WorkersOK, faults, CountersOK,
            ScalingReplicated

LEMMA ApplyOrderType ==
    ASSUME TypeInv, ApplyOrder
    PROVE  TypeInv'
<1>1. PICK i \in DOMAIN orders :
         /\ orders' = [j \in 1 .. Len(orders) - 1 |->
                          IF j < i THEN orders[j] ELSE orders[j + 1]]
         /\ IF replicas[orders[i].service] \in {Global, orders[i].scale}
               THEN UNCHANGED <<replicas, queues>>
               ELSE SetReplicas(orders[i].service, orders[i].scale)
  BY DEF ApplyOrder
<1>2. orders' \in Seq(Order)
  BY <1>1, AppliedOrders DEF TypeInv
<1>3. orders[i].service \in Services /\ orders[i].scale \in Scales
  <2>1. orders[i] \in Order
    BY <1>1 DEF TypeInv, MessagesOK
  <2> QED BY <2>1 DEF Order, Scales
<1>4. ASSUME NEW s \in Services, NEW n \in Scales, SetReplicas(s, n)
      PROVE  replicas' \in [Services -> Scales] /\ queues' \in [Handlers -> Seq(Message)]
  <2>1. AnyMessage("updated", s) \in Message
    BY AnyMessageType DEF Kinds
  <2>2. [AnyMessage("updated", s) EXCEPT !.diff = "scale", !.mode = n] \in Message
    BY <2>1 DEF Message
  <2> QED BY <1>4, <2>2, SendType DEF SetReplicas, Handlers, TypeInv, MessagesOK, ClusterOK
<1>5. replicas' \in [Services -> Scales] /\ queues' \in [Handlers -> Seq(Message)]
  BY <1>1, <1>3, <1>4 DEF TypeInv, ClusterOK, MessagesOK
<1> QED BY <1>2, <1>5
        DEF ApplyOrder, store, TypeInv, StoreOK, ClusterOK, MessagesOK, WorkersOK, faults, CountersOK,
            ScalingReplicated

LEMMA TimePassesType ==
    ASSUME TypeInv, TimePasses
    PROVE  TypeInv'
<1>1. docs' = [s \in DOMAIN docs |-> [docs[s] EXCEPT !.old = docs[s].rule.present]]
  BY DEF TimePasses
<1>2. \A s \in DOMAIN docs : [docs[s] EXCEPT !.old = docs[s].rule.present] \in Doc
  BY DEF TypeInv, StoreOK, Doc, Result
<1>3. StoreOK'
  BY <1>1, <1>2 DEF TimePasses, TypeInv, StoreOK
<1> QED BY <1>3
        DEF TimePasses, cluster, TypeInv, ClusterOK, MessagesOK, WorkersOK, faults, CountersOK,
            ScalingReplicated

LEMMA ReceiveType ==
    ASSUME TypeInv, NEW w \in Workers, NEW h \in Handlers, Receive(w, h)
    PROVE  TypeInv'
<1>1. /\ queues[h] \in Seq(Message) /\ queues[h] # << >>
      /\ queues' = [queues EXCEPT ![h] = Tail(@)]
      /\ msg' = [msg EXCEPT ![w] = Head(queues[h])]
      /\ Goto(w, FirstStage(Head(queues[h]).kind))
      /\ UNCHANGED <<store, cluster, orders, doc, todo, inputs, faults>>
  BY DEF Receive, TypeInv, MessagesOK
<1>2. Head(queues[h]) \in Message /\ Tail(queues[h]) \in Seq(Message)
  BY <1>1
<1>3. FirstStage(Head(queues[h]).kind) \in Stages \ {"scale"}
  BY <1>2, FirstStageType DEF Message, Stages
<1>4. WorkersOK' /\ ScalingReplicated'
  BY <1>1, <1>2, <1>3 DEF TypeInv, WorkersOK, ScalingReplicated, Goto
<1>5. MessagesOK'
  BY <1>1, <1>2 DEF TypeInv, MessagesOK
<1> QED BY <1>1, <1>4, <1>5 DEF TypeInv, store, cluster, StoreOK, ClusterOK, faults, CountersOK

LEMMA CrashType ==
    ASSUME TypeInv, NEW w \in Workers, Crash(w)
    PROVE  TypeInv'
<1> DEFINE st == IF msg[w].kind = "tick" THEN "idle" ELSE FirstStage(msg[w].kind)
<1>1. msg[w] \in Message
  BY DEF TypeInv, WorkersOK
<1>2. st \in Stages \ {"scale"}
  BY <1>1, FirstStageType DEF Message, Stages
<1>3. Goto(w, st)
  BY DEF Crash
<1> HIDE DEF st
<1>4. msg' \in [Workers -> Message] /\ doc' \in [Workers -> Doc]
  BY <1>1, NoMessageType, NoDocType DEF Crash, TypeInv, WorkersOK
<1>5. /\ DOMAIN todo' = Workers
      /\ \A v \in Workers :
            DOMAIN todo'[v] \subseteq Services /\ todo'[v] \in [DOMAIN todo'[v] -> Doc]
  BY DEF Crash, TypeInv, WorkersOK
<1>6. WorkersOK'
  BY <1>2, <1>3, <1>4, <1>5 DEF TypeInv, WorkersOK, Goto
<1>7. ScalingReplicated'
  BY <1>2, <1>3 DEF Crash, TypeInv, WorkersOK, ScalingReplicated, Goto
<1> QED BY <1>6, <1>7
        DEF Crash, store, cluster, TypeInv, StoreOK, ClusterOK, MessagesOK, faults, CountersOK

(* The handlers.                                                           *)

(* A worker's step that leaves alone what is around the load manager.      *)
LEMMA WorkerKeepsType ==
    ASSUME TypeInv, StoreOK', WorkersOK', ScalingReplicated',
           UNCHANGED <<cluster, orders, queues, inputs, faults>>
    PROVE  TypeInv'
  BY DEF TypeInv, cluster, ClusterOK, MessagesOK, faults, CountersOK

LEMMA ReadType ==
    ASSUME TypeInv, NEW w \in Workers, ReadUpdated(w) \/ ReadTriggered(w)
    PROVE  TypeInv'
<1> DEFINE s == msg[w].service
<1>1. /\ StoreOK'
      /\ UNCHANGED <<cluster, orders, queues, inputs, faults>>
  BY DEF ReadUpdated, ReadTriggered, store, TypeInv, StoreOK
<1>2. msg[w] \in Message
  BY DEF TypeInv, WorkersOK
<1>3. s \in DOMAIN docs => docs[s] \in Doc
  BY DEF TypeInv, StoreOK
<1>4. CASE Finish(w)
  BY <1>1, <1>4, FinishType, WorkerKeepsType
<1>5. ASSUME NEW st \in {"save", "rules", "execute"}, Goto(w, st), NEW d \in Doc,
             doc' = [doc EXCEPT ![w] = d], UNCHANGED <<msg, todo>>
      PROVE  TypeInv'
  <2>1. st \in Stages \ {"scale"}
    BY DEF Stages
  <2> QED BY <1>1, <1>5, <2>1, TakesDocType, WorkerKeepsType
<1>6. CASE ReadUpdated(w) /\ ~Finish(w)
  <2>1. /\ s \in DOMAIN docs
        /\ UNCHANGED <<msg, todo>>
        /\ \/ doc' = [doc EXCEPT ![w] = [docs[s] EXCEPT !.mode = msg[w].mode]] /\ Goto(w, "save")
           \/ doc' = [doc EXCEPT ![w] = [docs[s] EXCEPT !.config = msg[w].config]] /\ Goto(w, "rules")
           \/ doc' = [doc EXCEPT ![w] = docs[s]] /\ Goto(w, "save")
    BY <1>6 DEF ReadUpdated
  <2>2. /\ [docs[s] EXCEPT !.mode = msg[w].mode] \in Doc
        /\ [docs[s] EXCEPT !.config = msg[w].config] \in Doc
    BY <1>2, <1>3, <2>1 DEF Doc, Message
  <2> QED BY <1>3, <1>5, <2>1, <2>2
<1>7. CASE ReadTriggered(w) /\ ~Finish(w)
  <2>1. /\ s \in DOMAIN docs
        /\ UNCHANGED <<msg, todo>>
        /\ doc' = [doc EXCEPT ![w] = [docs[s] EXCEPT !.rule = msg[w].rule, !.old = FALSE]]
        /\ Goto(w, "execute")
    BY <1>7 DEF ReadTriggered
  <2>2. [docs[s] EXCEPT !.rule = msg[w].rule, !.old = FALSE] \in Doc
    BY <1>2, <1>3, <2>1 DEF Doc, Message
  <2> QED BY <1>5, <2>1, <2>2
<1> QED BY <1>4, <1>6, <1>7

LEMMA RulesType ==
    ASSUME TypeInv, NEW w \in Workers, SetTriggerRules(w) \/ DeleteRules(w)
    PROVE  TypeInv'
<1> DEFINE s == msg[w].service
           c == msg[w].config
<1>1. UNCHANGED <<docs, cluster, orders, queues, inputs>>
  BY DEF SetTriggerRules, DeleteRules
<1>2. msg[w] \in Message /\ s \in Services /\ c \in Configs
  BY DEF TypeInv, WorkersOK, Message
<1>3. WorkersOK' /\ ScalingReplicated'
  <2>1. Finish(w) \/ (Goto(w, "save") /\ UNCHANGED <<msg, doc, todo>>)
    BY DEF SetTriggerRules, DeleteRules, Fail
  <2> QED BY <2>1, FinishType, GotoType DEF Stages
<1>4. StoreOK'
  <2>1. CASE rules' = Store(rules, s, c.signs) /\ reported' = Without(reported, s)
    <3>1. c.signs \in SUBSET Signs
      BY <1>2, ConfigFields
    <3> QED BY <1>1, <1>2, <2>1, <3>1 DEF Store, Without, TypeInv, StoreOK
  <2>2. CASE rules' = Without(rules, s) /\ reported' = Without(reported, s)
    BY <1>1, <2>2 DEF Without, TypeInv, StoreOK
  <2>3. CASE UNCHANGED <<rules, reported>>
    BY <1>1, <2>3 DEF TypeInv, StoreOK
  <2> QED BY <2>1, <2>2, <2>3 DEF SetTriggerRules, DeleteRules
<1>5. CountersOK'
  <2>1. crashes' = crashes /\ failures' \in {failures, failures + 1}
    BY DEF SetTriggerRules, DeleteRules, Fail, faults
  <2>2. undeleted' \in {undeleted, undeleted \ {s}, undeleted \cup {s}}
    BY DEF SetTriggerRules, DeleteRules, faults
  <2> QED BY <1>1, <1>2, <2>1, <2>2 DEF TypeInv, CountersOK
<1> QED BY <1>1, <1>3, <1>4, <1>5 DEF TypeInv, cluster, ClusterOK, MessagesOK

LEMMA SaveType ==
    ASSUME TypeInv, NEW w \in Workers, SaveUpdated(w) \/ SaveMonitored(w) \/ RemoveService(w)
    PROVE  TypeInv'
<1> DEFINE s == msg[w].service
           c == msg[w].config
<1>1. UNCHANGED <<rules, reported, cluster, orders, queues, inputs, faults>>
  BY DEF SaveUpdated, SaveMonitored, RemoveService
<1>2. /\ msg[w] \in Message /\ s \in Services /\ doc[w] \in Doc
      /\ NewDoc(msg[w].mode, c) \in Doc
  BY NewDocType DEF TypeInv, WorkersOK, Message
<1>3. WorkersOK' /\ ScalingReplicated'
  <2>1. Finish(w) \/ \E st \in {"delete", "rules"} : Goto(w, st) /\ UNCHANGED <<msg, doc, todo>>
    BY DEF SaveUpdated, SaveMonitored, RemoveService
  <2> QED BY <2>1, FinishType, GotoType DEF Stages
<1>4. StoreOK'
  <2>1. ASSUME NEW d \in Doc, docs' = Store(docs, s, d) PROVE StoreOK'
    BY <1>1, <1>2, <2>1 DEF Store, TypeInv, StoreOK
  <2>2. CASE docs' = Without(docs, s)
    BY <1>1, <2>2 DEF Without, TypeInv, StoreOK
  <2> QED BY <1>2, <2>1, <2>2 DEF SaveUpdated, SaveMonitored, RemoveService
<1> QED BY <1>1, <1>3, <1>4, WorkerKeepsType

LEMMA RecheckType ==
    ASSUME TypeInv, NEW w \in Workers, RecheckRules(w) \/ Recheck(w)
    PROVE  TypeInv'
<1>1. /\ StoreOK'
      /\ UNCHANGED <<cluster, orders, queues, inputs, faults>>
  BY DEF RecheckRules, Recheck, store, TypeInv, StoreOK
<1>2. CASE RecheckRules(w)
  <2>1. WorkersOK' /\ ScalingReplicated'
    BY <1>2 DEF RecheckRules, Goto, TypeInv, StoreOK, WorkersOK, ScalingReplicated, Stages
  <2> QED BY <1>1, <2>1, WorkerKeepsType
<1>3. CASE Finish(w)
  BY <1>1, <1>3, FinishType, WorkerKeepsType
<1>4. CASE Recheck(w) /\ ~Finish(w)
  <2>1. PICK s \in DOMAIN todo[w] :
           /\ todo' = [todo EXCEPT ![w] = Without(@, s)]
           /\ \/ UNCHANGED <<stage, msg, doc>>
              \/ /\ msg' = [msg EXCEPT ![w].service = s]
                 /\ doc' = [doc EXCEPT ![w] = [todo[w][s] EXCEPT !.old = FALSE]]
                 /\ Goto(w, "execute")
    BY <1>4 DEF Recheck
  <2>2. /\ s \in Services /\ todo[w][s] \in Doc /\ msg[w] \in Message
        /\ stage[w] = "scan"
    BY <1>4 DEF TypeInv, WorkersOK, Recheck
  <2>3. [msg[w] EXCEPT !.service = s] \in Message /\ [todo[w][s] EXCEPT !.old = FALSE] \in Doc
    BY <2>2 DEF Message, Doc
  <2>4. /\ DOMAIN todo' = Workers
        /\ \A v \in Workers :
              DOMAIN todo'[v] \subseteq Services /\ todo'[v] \in [DOMAIN todo'[v] -> Doc]
    BY <2>1 DEF Without, TypeInv, WorkersOK
  <2>5. CASE UNCHANGED <<stage, msg, doc>>
    <3>1. WorkersOK' /\ ScalingReplicated'
      BY <2>4, <2>5 DEF TypeInv, WorkersOK, ScalingReplicated
    <3> QED BY <1>1, <3>1, WorkerKeepsType
  <2>6. CASE /\ msg' = [msg EXCEPT ![w].service = s]
             /\ doc' = [doc EXCEPT ![w] = [todo[w][s] EXCEPT !.old = FALSE]]
             /\ Goto(w, "execute")
    <3>1. msg' \in [Workers -> Message] /\ doc' \in [Workers -> Doc]
      BY <2>3, <2>6 DEF TypeInv, WorkersOK
    <3>2. stage' = [stage EXCEPT ![w] = "execute"] /\ stage' \in [Workers -> Stages]
      BY <2>6 DEF Goto, TypeInv, WorkersOK, Stages
    <3>3. ScalingReplicated'
      BY <2>6, <3>2 DEF TypeInv, WorkersOK, ScalingReplicated
    <3>4. WorkersOK'
      BY <2>4, <3>1, <3>2 DEF WorkersOK
    <3> QED BY <1>1, <3>3, <3>4, WorkerKeepsType
  <2> QED BY <2>1, <2>5, <2>6
<1> QED BY <1>2, <1>3, <1>4

LEMMA ScaleType ==
    ASSUME TypeInv, NEW w \in Workers, ExecuteRuleset(w) \/ CallScale(w)
    PROVE  TypeInv'
<1> DEFINE s == msg[w].service
<1>1. s \in Services /\ doc[w] \in Doc
  BY DEF TypeInv, WorkersOK, Message
<1>2. ASSUME Return(w) PROVE WorkersOK' /\ ScalingReplicated'
  BY <1>2, FinishType, GotoType DEF Return, Stages
<1>3. CASE ExecuteRuleset(w)
  <2>1. StoreOK'
    BY <1>1, <1>3 DEF ExecuteRuleset, TypeInv, StoreOK
  <2>2. WorkersOK' /\ ScalingReplicated'
    <3>1. CASE BestScale(doc[w]) # doc[w].mode /\ Goto(w, "scale") /\ UNCHANGED <<msg, doc, todo>>
      <4>1. doc[w].mode # Global
        BY <3>1 DEF BestScale
      <4> QED BY <3>1, <4>1, GotoType DEF Stages
    <3> QED BY <1>2, <1>3, <3>1 DEF ExecuteRuleset
  <2> QED BY <1>3, <2>1, <2>2, WorkerKeepsType DEF ExecuteRuleset
<1>4. CASE CallScale(w)
  <2>1. WorkersOK' /\ ScalingReplicated'
    BY <1>2, <1>4, FinishType DEF CallScale, Fail
  <2>2. stage[w] = "scale" /\ doc[w].mode # Global
    BY <1>4 DEF CallScale, TypeInv, ScalingReplicated
  <2>3. [service |-> s, scale |-> BestScale(doc[w])] \in Order
    BY <1>1, <2>2, BestScaleType DEF Order
  <2>4. orders' \in Seq(Order)
    BY <1>4, <2>3 DEF CallScale, TypeInv, MessagesOK
  <2>5. CountersOK'
    BY <1>4 DEF CallScale, Fail, faults, TypeInv, CountersOK
  <2> QED BY <1>4, <2>1, <2>4, <2>5
          DEF CallScale, TypeInv, store, cluster, StoreOK, ClusterOK, MessagesOK
<1> QED BY <1>3, <1>4

LEMMA TypeStep == TypeInv /\ [Next]_vars => TypeInv'
<1> SUFFICES ASSUME TypeInv, [Next]_vars PROVE TypeInv'
  OBVIOUS
<1>1. ASSUME NEW w \in Workers, Work(w) \/ RecheckRules(w) PROVE TypeInv'
  BY <1>1, ReadType, RulesType, SaveType, RecheckType, ScaleType DEF Work
<1>2. CASE UNCHANGED vars
  BY <1>2 DEF vars, store, cluster, TypeInv, StoreOK, ClusterOK, MessagesOK, WorkersOK,
              faults, CountersOK, ScalingReplicated
<1> QED BY <1>1, <1>2, EnvironmentType, ReportType, ApplyOrderType, TimePassesType,
           ReceiveType, CrashType DEF Next, Quiet

LEMMA TypeInvImplies == TypeInv => TypeOK
  BY DEF TypeInv, StoreOK, ClusterOK, MessagesOK, WorkersOK, CountersOK, TypeOK

(* Whatever the workers, the messages and the crashes, the collections,    *)
(* the messages and the handlers' variables keep their types: an order     *)
(* never asks docker for anything but a number of replicas.                *)
THEOREM TypeCorrect == Spec => []TypeOK
  BY TypeInit, TypeStep, TypeInvImplies, PTL DEF Spec

-----------------------------------------------------------------------------
(* A single worker                                                         *)

(* The stages of the handler of a message; the timer has no message.       *)
StagesOf(k) == CASE k = "updated" -> {"read", "rules", "save"}
                 [] k = "triggered" -> {"read", "execute", "scale"}
                 [] k = "monitor" -> {"save", "rules", "delete"}
                 [] k = "unmonitor" -> {"remove", "delete"}
                 [] k = "tick" -> {"idle", "scan", "execute", "scale"}

(* While the only worker handles a message nobody removes the document it  *)
(* saw, nor those the timer read; and the document it computes an order    *)
(* from is the one in the collection, but for its date.                    *)
SoloHandler(w) ==
    LET s == msg[w].service
    IN /\ stage[w] \in StagesOf(msg[w].kind)
       /\ stage[w] \in {"rules", "execute", "scale"} => s \in DOMAIN docs
       /\ stage[w] = "save" /\ msg[w].kind = "updated" => s \in DOMAIN docs
       /\ stage[w] = "rules" /\ msg[w].kind = "updated" => msg[w].diff = "config"
       /\ DOMAIN todo[w] \subseteq DOMAIN docs
       /\ stage[w] \notin {"scan", "execute", "scale"} => DOMAIN todo[w] = {}
       /\ stage[w] = "scale" => /\ doc[w].mode = docs[s].mode
                                /\ doc[w].config = docs[s].config
                                /\ doc[w].rule = docs[s].rule

(* Only the service that unmonitor_service is removing has rules and no    *)
(* document, but for those whose trigger.delete raised.                    *)
RulesLag(w) ==
    \A s \in DOMAIN rules \ (DOMAIN docs \cup undeleted) :
        msg[w].kind = "unmonitor" /\ msg[w].service = s

SoloInv == TypeInv /\ \A w \in Workers : SoloHandler(w) /\ RulesLag(w)

(* The scale of a watched service is the one of the last update about it   *)
(* that waits, else of the one being handled, else of its document.        *)
IsScale(m, s) == m.kind = "updated" /\ m.diff = "scale" /\ m.service = s

KnownScale(w, s) ==
    LET q == queues["updated"]
    IN \/ \E i \in DOMAIN q :
             /\ IsScale(q[i], s) /\ q[i].mode = replicas[s]
             /\ \A j \in DOMAIN q : j > i => ~IsScale(q[j], s)
       \/ /\ \A i \in DOMAIN q : ~IsScale(q[i], s)
          /\ IF IsScale(msg[w], s) THEN msg[w].mode = replicas[s]
                                   ELSE docs[s].mode = replicas[s]

(* No document that the only worker read or builds has an old scale.       *)
CopiesKnow(w) ==
    LET s == msg[w].service
    IN /\ stage[w] \in {"rules", "save"} /\ msg[w].kind = "updated" =>
             doc[w].mode = IF msg[w].diff = "scale" THEN msg[w].mode ELSE docs[s].mode
       /\ stage[w] \in {"execute", "scale"} => doc[w].mode = docs[s].mode
       /\ \A t \in DOMAIN todo[w] : todo[w][t].mode = docs[t].mode

NotMonitored ==
    /\ \A h \in Handlers : \A i \in DOMAIN queues[h] :
          /\ queues[h][i].kind # "monitor"
          /\ queues[h][i].kind = "updated" => h = "updated"
    /\ \A w \in Workers : msg[w].kind # "monitor"

KnownInv ==
    /\ NotMonitored
    /\ \A w \in Workers :
          CopiesKnow(w) /\ \A s \in DOMAIN docs \cap watched : KnownScale(w, s)

LEMMA SoloInit == Init => \A w \in Workers : SoloHandler(w) /\ RulesLag(w)
<1> SUFFICES ASSUME Init, NEW w \in Workers PROVE SoloHandler(w) /\ RulesLag(w)
  OBVIOUS
<1>1. stage[w] = "idle" /\ msg[w].kind = "tick" /\ DOMAIN todo[w] = {}
  BY NoMessageType DEF Init
<1>2. DOMAIN rules \subseteq DOMAIN docs \cup undeleted
  BY DEF Init
<1> QED BY <1>1, <1>2 DEF SoloHandler, StagesOf, RulesLag

LEMMA SoloFacts ==
    ASSUME SoloInv, NEW w, Workers = {w}
    PROVE  /\ w \in Workers /\ TypeInv /\ SoloHandler(w) /\ RulesLag(w)
           /\ msg[w] \in Message /\ doc[w] \in Doc
           /\ msg[w].kind # "unmonitor" => DOMAIN rules \subseteq DOMAIN docs \cup undeleted
  BY DEF SoloInv, RulesLag, TypeInv, WorkersOK

(* Where a worker is after a step.                                         *)
LEMMA FinishFacts ==
    ASSUME TypeInv, NEW w \in Workers, Finish(w)
    PROVE  /\ stage'[w] = "idle" /\ msg'[w] = NoMessage /\ msg'[w].kind = "tick"
           /\ DOMAIN todo'[w] = {}
  BY NoMessageType DEF Finish, Goto, TypeInv, WorkersOK

LEMMA GotoFacts ==
    ASSUME TypeInv, NEW w \in Workers, NEW st, Goto(w, st)
    PROVE  stage'[w] = st
  BY DEF Goto, TypeInv, WorkersOK

LEMMA SoloFinish ==
    ASSUME SoloInv, NEW w, Workers = {w}, Finish(w), DOMAIN rules' \subseteq DOMAIN docs' \cup undeleted'
    PROVE  SoloHandler(w)' /\ RulesLag(w)'
<1>1. /\ stage'[w] = "idle" /\ msg'[w].kind = "tick" /\ DOMAIN todo'[w] = {}
  BY SoloFacts, FinishFacts
<1> QED BY <1>1 DEF SoloHandler, StagesOf, RulesLag

(* Around the load manager nothing that the handlers rely on changes.      *)
LEMMA SoloOthers ==
    ASSUME SoloInv, NEW w, Workers = {w}, DOMAIN docs' = DOMAIN docs,
           UNCHANGED <<rules, undeleted, stage, msg, doc, todo>>,
           \A s \in DOMAIN docs : /\ docs'[s].mode = docs[s].mode
                                  /\ docs'[s].config = docs[s].config
                                  /\ docs'[s].rule = docs[s].rule
    PROVE  SoloHandler(w)' /\ RulesLag(w)'
<1>1. RulesLag(w)'
  BY SoloFacts DEF RulesLag
<1>2. stage[w] = "scale" => msg[w].service \in DOMAIN docs
  BY SoloFacts DEF SoloHandler
<1>3. SoloHandler(w)'
  BY <1>2, SoloFacts DEF SoloHandler
<1> QED BY <1>1, <1>3

LEMMA SoloReceive ==
    ASSUME SoloInv, NEW w, Workers = {w}, NEW h \in Handlers, Receive(w, h)
    PROVE  SoloHandler(w)' /\ RulesLag(w)'
<1> DEFINE m == Head(queues[h])
<1>1. /\ stage[w] = "idle" /\ Goto(w, FirstStage(m.kind))
      /\ msg' = [msg EXCEPT ![w] = m]
      /\ UNCHANGED <<docs, rules, undeleted, doc, todo>>
  BY DEF Receive, store, faults
<1>2. m \in Message
  BY SoloFacts DEF Receive, TypeInv, MessagesOK
<1> HIDE DEF m
<1>3. stage'[w] = FirstStage(m.kind) /\ msg'[w] = m
  BY <1>1, SoloFacts, GotoFacts DEF TypeInv, WorkersOK
<1>4. DOMAIN todo[w] = {} /\ msg[w].kind = "tick"
  BY <1>1, <1>2, SoloFacts DEF SoloHandler, StagesOf, Message, Kinds
<1>5. FirstStage(m.kind) \in StagesOf(m.kind) \cap {"save", "remove", "scan", "read"}
  BY <1>2 DEF FirstStage, StagesOf, Message, Kinds
<1>6. ~(FirstStage(m.kind) = "save" /\ m.kind = "updated")
  BY DEF FirstStage
<1>7. DOMAIN rules \subseteq DOMAIN docs \cup undeleted
  BY <1>4, SoloFacts
<1> QED BY <1>1, <1>3, <1>4, <1>5, <1>6, <1>7 DEF SoloHandler, RulesLag

LEMMA SoloCrash ==
    ASSUME SoloInv, NEW w, Workers = {w}, Crash(w)
    PROVE  SoloHandler(w)' /\ RulesLag(w)'
<1> DEFINE m == msg[w]
<1>1. /\ Goto(w, IF m.kind = "tick" THEN "idle" ELSE FirstStage(m.kind))
      /\ msg' = [msg EXCEPT ![w] = IF m.kind = "tick" THEN NoMessage ELSE m]
      /\ todo' = [todo EXCEPT ![w] = << >>]
      /\ UNCHANGED <<docs, rules, undeleted>>
  BY DEF Crash, store
<1> HIDE DEF m
<1>2. /\ stage'[w] = IF m.kind = "tick" THEN "idle" ELSE FirstStage(m.kind)
      /\ msg'[w] = IF m.kind = "tick" THEN NoMessage ELSE m
      /\ DOMAIN todo'[w] = {}
  BY <1>1, SoloFacts, GotoFacts DEF TypeInv, WorkersOK
<1>3. m \in Message /\ m = msg[w]
  BY SoloFacts DEF m
<1>4. CASE m.kind = "tick"
  BY <1>1, <1>2, <1>3, <1>4, SoloFacts, NoMessageType DEF SoloHandler, RulesLag, StagesOf
<1>5. CASE m.kind # "tick"
  <2>1. FirstStage(m.kind) \in StagesOf(m.kind) \cap {"save", "remove", "read"}
    BY <1>3, <1>5 DEF FirstStage, StagesOf, Message, Kinds
  <2>2. ~(FirstStage(m.kind) = "save" /\ m.kind = "updated")
    BY DEF FirstStage
  <2>3. RulesLag(w)'
    BY <1>1, <1>2, <1>3, <1>5, SoloFacts DEF RulesLag
  <2> QED BY <1>2, <1>5, <2>1, <2>2, <2>3 DEF SoloHandler
<1> QED BY <1>4, <1>5

LEMMA SoloRead ==
    ASSUME SoloInv, NEW w, Workers = {w}, ReadUpdated(w) \/ ReadTriggered(w)
    PROVE  SoloHandler(w)' /\ RulesLag(w)'
<1> DEFINE s == msg[w].service
<1>1. /\ UNCHANGED <<docs, rules, undeleted>> /\ stage[w] = "read"
      /\ msg[w].kind \in {"updated", "triggered"}
  BY DEF ReadUpdated, ReadTriggered, store, faults
<1>2. DOMAIN rules \subseteq DOMAIN docs \cup undeleted /\ DOMAIN todo[w] = {}
  BY <1>1, SoloFacts DEF SoloHandler
<1>3. CASE Finish(w)
  BY <1>1, <1>2, <1>3, SoloFinish
<1>4. CASE ~Finish(w)
  <2>1. /\ s \in DOMAIN docs /\ UNCHANGED <<msg, todo>>
        /\ \/ msg[w].kind = "updated" /\ Goto(w, "save")
           \/ msg[w].kind = "updated" /\ msg[w].diff = "config" /\ Goto(w, "rules")
           \/ msg[w].kind = "triggered" /\ Goto(w, "execute")
    BY <1>4 DEF ReadUpdated, ReadTriggered
  <2>2. \/ msg[w].kind = "updated" /\ stage'[w] = "save"
        \/ msg[w].kind = "updated" /\ msg[w].diff = "config" /\ stage'[w] = "rules"
        \/ msg[w].kind = "triggered" /\ stage'[w] = "execute"
    BY <2>1, SoloFacts, GotoFacts
  <2> QED BY <1>1, <1>2, <2>1, <2>2 DEF SoloHandler, StagesOf, RulesLag
<1> QED BY <1>3, <1>4

LEMMA SoloRules ==
    ASSUME SoloInv, NEW w, Workers = {w}, SetTriggerRules(w) \/ DeleteRules(w)
    PROVE  SoloHandler(w)' /\ RulesLag(w)'
<1> DEFINE s == msg[w].service
<1>1. UNCHANGED docs
  BY DEF SetTriggerRules, DeleteRules
<1>2. CASE SetTriggerRules(w)
  <2>1. /\ msg[w].kind \in {"updated", "monitor"} /\ stage[w] = "rules"
        /\ s \in DOMAIN docs /\ DOMAIN rules \subseteq DOMAIN docs \cup undeleted /\ DOMAIN todo[w] = {}
    BY <1>2, SoloFacts DEF SetTriggerRules, SoloHandler, StagesOf, Message, Kinds
  <2>2. DOMAIN rules' \subseteq DOMAIN docs' \cup undeleted' /\ UNCHANGED undeleted
    BY <1>1, <1>2, <2>1 DEF SetTriggerRules, Store, faults
  <2>3. CASE Finish(w)
    BY <2>2, <2>3, SoloFinish
  <2>4. CASE ~Finish(w)
    <3>1. msg[w].kind = "updated" /\ stage'[w] = "save" /\ UNCHANGED <<msg, todo>>
      BY <1>2, <2>4, SoloFacts, GotoFacts DEF SetTriggerRules, Fail
    <3> QED BY <1>1, <2>1, <2>2, <3>1 DEF SoloHandler, StagesOf, RulesLag
  <2> QED BY <2>3, <2>4
<1>3. CASE DeleteRules(w)
  <2>1. DOMAIN rules \subseteq DOMAIN docs \cup undeleted \cup {s}
    BY SoloFacts DEF RulesLag
  <2>2. DOMAIN rules' \subseteq DOMAIN docs' \cup undeleted'
    BY <1>1, <1>3, <2>1 DEF DeleteRules, Without
  <2> QED BY <1>3, <2>2, SoloFinish DEF DeleteRules, Fail
<1> QED BY <1>2, <1>3

LEMMA SoloSave ==
    ASSUME SoloInv, NEW w, Workers = {w},
           SaveUpdated(w) \/ SaveMonitored(w) \/ RemoveService(w)
    PROVE  SoloHandler(w)' /\ RulesLag(w)'
<1> DEFINE s == msg[w].service
<1>1. UNCHANGED <<rules, undeleted>>
  BY DEF SaveUpdated, SaveMonitored, RemoveService, faults
<1>2. DOMAIN todo[w] = {}
  BY SoloFacts DEF SaveUpdated, SaveMonitored, RemoveService, SoloHandler
<1>3. CASE SaveUpdated(w) \/ SaveMonitored(w)
  <2>1. DOMAIN rules \subseteq DOMAIN docs \cup undeleted
    BY <1>3, SoloFacts DEF SaveUpdated, SaveMonitored
  <2>2. DOMAIN docs' = DOMAIN docs \cup {s}
    BY <1>3 DEF SaveUpdated, SaveMonitored, Store
  <2>3. CASE Finish(w)
    BY <1>1, <2>1, <2>2, <2>3, SoloFinish
  <2>4. CASE ~Finish(w)
    <3>1. /\ msg[w].kind = "monitor" /\ stage'[w] \in {"delete", "rules"}
          /\ UNCHANGED <<msg, todo>>
      BY <1>3, <2>4, SoloFacts, GotoFacts DEF SaveUpdated, SaveMonitored
    <3> QED BY <1>1, <1>2, <2>1, <2>2, <3>1 DEF SoloHandler, StagesOf, RulesLag
  <2> QED BY <2>3, <2>4
<1>4. CASE RemoveService(w)
  <2>1. /\ stage'[w] = "delete" /\ UNCHANGED <<msg, todo>>
        /\ DOMAIN docs' = DOMAIN docs \ {s} /\ stage[w] = "remove"
    BY <1>4, SoloFacts, GotoFacts DEF RemoveService, Without
  <2>2. msg[w].kind = "unmonitor"
    BY <2>1, SoloFacts DEF SoloHandler, StagesOf, Message, Kinds
  <2>3. RulesLag(w)'
    BY <1>1, <2>1, <2>2, SoloFacts DEF RulesLag
  <2> QED BY <1>2, <2>1, <2>2, <2>3 DEF SoloHandler, StagesOf
<1> QED BY <1>3, <1>4

LEMMA SoloRecheck ==
    ASSUME SoloInv, NEW w, Workers = {w}, RecheckRules(w) \/ Recheck(w)
    PROVE  SoloHandler(w)' /\ RulesLag(w)'
<1>1. /\ UNCHANGED <<docs, rules, undeleted>>
      /\ stage[w] \in {"idle", "scan"}
  BY DEF RecheckRules, Recheck, store, faults
<1>2. msg[w].kind = "tick" /\ DOMAIN rules \subseteq DOMAIN docs \cup undeleted
  BY <1>1, SoloFacts DEF SoloHandler, StagesOf, Message, Kinds
<1>3. CASE RecheckRules(w)
  <2>1. stage'[w] = "scan" /\ todo'[w] = docs /\ UNCHANGED msg
    BY <1>3, SoloFacts, GotoFacts DEF RecheckRules, TypeInv, WorkersOK
  <2> QED BY <1>1, <1>2, <2>1 DEF SoloHandler, StagesOf, RulesLag
<1>4. CASE Finish(w)
  BY <1>1, <1>2, <1>4, SoloFinish
<1>5. CASE Recheck(w) /\ ~Finish(w)
  <2>1. PICK s \in DOMAIN todo[w] :
           /\ todo' = [todo EXCEPT ![w] = Without(@, s)]
           /\ \/ UNCHANGED <<stage, msg, doc>>
              \/ /\ msg' = [msg EXCEPT ![w].service = s]
                 /\ Goto(w, "execute")
    BY <1>5 DEF Recheck
  <2>2. DOMAIN todo[w] \subseteq DOMAIN docs /\ s \in DOMAIN docs
    BY <2>1, SoloFacts DEF SoloHandler
  <2>3. DOMAIN todo'[w] \subseteq DOMAIN docs'
    BY <1>1, <2>1, <2>2, SoloFacts DEF Without, TypeInv, WorkersOK
  <2>4. stage[w] = "scan"
    BY <1>5 DEF Recheck
  <2>5. CASE UNCHANGED <<stage, msg, doc>>
    BY <1>1, <1>2, <2>3, <2>4, <2>5 DEF SoloHandler, StagesOf, RulesLag
  <2>6. CASE msg' = [msg EXCEPT ![w].service = s] /\ Goto(w, "execute")
    <3>1. msg'[w].service = s /\ msg'[w].kind = "tick" /\ stage'[w] = "execute"
      BY <1>2, <2>6, SoloFacts, GotoFacts DEF TypeInv, WorkersOK, Message
    <3> QED BY <1>1, <1>2, <2>2, <2>3, <3>1 DEF SoloHandler, StagesOf, RulesLag
  <2> QED BY <2>1, <2>5, <2>6
<1> QED BY <1>3, <1>4, <1>5

LEMMA SoloScale ==
    ASSUME SoloInv, NEW w, Workers = {w}, ExecuteRuleset(w) \/ CallScale(w)
    PROVE  SoloHandler(w)' /\ RulesLag(w)'
<1> DEFINE s == msg[w].service
<1>1. /\ UNCHANGED <<rules, undeleted>> /\ DOMAIN docs' = DOMAIN docs
      /\ stage[w] \in {"execute", "scale"}
  BY DEF ExecuteRuleset, CallScale, store, faults
<1>2. /\ msg[w].kind \in {"triggered", "tick"} /\ DOMAIN rules \subseteq DOMAIN docs \cup undeleted
      /\ s \in DOMAIN docs /\ DOMAIN todo[w] \subseteq DOMAIN docs
  BY <1>1, SoloFacts DEF SoloHandler, StagesOf, Message, Kinds
<1>3. CASE Finish(w)
  BY <1>1, <1>2, <1>3, SoloFinish
<1>4. CASE ~Finish(w)
  <2>1. /\ UNCHANGED <<msg, doc, todo>>
        /\ \/ msg[w].kind = "tick" /\ stage'[w] = "scan"
           \/ ExecuteRuleset(w) /\ stage'[w] = "scale"
    BY <1>4, SoloFacts, GotoFacts DEF ExecuteRuleset, CallScale, Return, Fail
  <2>2. ExecuteRuleset(w) => docs'[s] = doc[w]
    BY <1>2 DEF ExecuteRuleset
  <2> QED BY <1>1, <1>2, <2>1, <2>2 DEF SoloHandler, StagesOf, RulesLag
<1> QED BY <1>3, <1>4

LEMMA SoloStep ==
    ASSUME NEW w, Workers = {w}
    PROVE  SoloInv /\ [Next]_vars => SoloInv'
<1> SUFFICES ASSUME SoloInv, [Next]_vars PROVE SoloHandler(w)' /\ RulesLag(w)'
  BY TypeStep DEF SoloInv
<1>2. CASE UNCHANGED <<docs, rules, undeleted, stage, msg, doc, todo>>
  BY <1>2, SoloOthers
<1>3. CASE TimePasses
  BY <1>3, SoloOthers, SoloFacts DEF TimePasses, faults, TypeInv, StoreOK, Doc
<1>4. CASE Work(w) \/ RecheckRules(w) \/ Crash(w) \/ \E h \in Handlers : Receive(w, h)
  BY <1>4, SoloRead, SoloRules, SoloSave, SoloRecheck, SoloScale, SoloCrash, SoloReceive
  DEF Work
<1> QED
  BY <1>2, <1>3, <1>4
  DEF Next, ScaleByHand, NewScaleConfig, MonitorService, UnmonitorService, Unwatch,
      ChangeLoad, Environment, Report, ApplyOrder, Quiet, store, faults, vars

LEMMA SoloInvariant ==
    ASSUME NEW w, Workers = {w}
    PROVE  Spec => []SoloInv
<1>1. Init => SoloInv
  BY TypeInit, SoloInit DEF SoloInv
<1> QED BY <1>1, SoloStep, PTL DEF Spec

(* Between two handlers of the only worker the trigger has rules for       *)
(* monitored services, and for services whose trigger.delete raised, only: *)
(* monitor_service, on_service_updated and unmonitor_service may each      *)
(* crash between the document and the rules, and their redelivery finishes *)
(* what they began.                                                        *)
THEOREM RulesAreManaged ==
    ASSUME NEW w, Workers = {w}
    PROVE  Spec => []RulesFollowServices
<1>1. SoloInv => RulesFollowServices
  BY DEF SoloInv, RulesFollowServices, SoloHandler, RulesLag, StagesOf
<1> QED BY <1>1, SoloInvariant, PTL

(* on_service_updated upserts the whole document, yet with one worker it   *)
(* never brings back a service that was unmonitored.                       *)
THEOREM NothingResurrected ==
    ASSUME NEW v, Workers = {v}
    PROVE  Spec => NoResurrection
<1>1. SoloInv /\ [Next]_vars =>
          [\A s \in DOMAIN docs' \ DOMAIN docs :
              \E w \in Workers : msg[w].kind = "monitor" /\ msg[w].service = s]_vars
  <2> SUFFICES ASSUME SoloInv, Next, NEW s \in DOMAIN docs' \ DOMAIN docs
               PROVE  msg[v].kind = "monitor" /\ msg[v].service = s
    OBVIOUS
  <2>1. CASE SaveUpdated(v)
    <3>1. msg[v].service \in DOMAIN docs
      BY <2>1, SoloFacts DEF SaveUpdated, SoloHandler
    <3> QED BY <2>1, <3>1 DEF SaveUpdated, Store
  <2>2. CASE SaveMonitored(v)
    BY <2>2 DEF SaveMonitored, Store
  <2>3. CASE RemoveService(v) \/ ExecuteRuleset(v) \/ TimePasses
    BY <2>3 DEF RemoveService, ExecuteRuleset, TimePasses, Without
  <2>4. CASE UNCHANGED docs
    BY <2>4
  <2>5. CASE Work(v)
    BY <2>1, <2>2, <2>3, <2>4, <2>5
    DEF Work, ReadUpdated, SetTriggerRules, DeleteRules, ReadTriggered, Recheck, CallScale, store
  <2> QED
    BY <2>3, <2>4, <2>5
    DEF Next, ScaleByHand, NewScaleConfig, MonitorService, UnmonitorService, Unwatch,
        ChangeLoad, Environment, Report, ApplyOrder, Quiet, RecheckRules, Crash, Receive,
        store, vars
<1>2. Spec => []SoloInv
  BY SoloInvariant
<1> QED BY <1>1, <1>2, PTL DEF Spec, NoResurrection

(* _get_best_scale: within the bounds, and in the direction of the rules   *)
(* unless the scale was out of the bounds.                                 *)
LEMMA BestScaleJustified ==
    ASSUME NEW d \in Doc, d.mode # Global, d.config.min <= d.config.max
    PROVE  Justified(BestScale(d), d)
<1>1. d.mode \in Nat /\ d.config \in Configs
  BY DEF Doc, Scales
<1>2. d.config.min \in Nat /\ d.config.max \in Nat
  BY <1>1, ConfigFields
<1>3. CASE "up" \in d.rule.holds
  <2>1. BestScale(d) = Smaller(Larger(d.mode + 1, d.config.min), d.config.max)
    BY <1>3 DEF BestScale, Delta
  <2> QED BY <1>1, <1>2, <1>3, <2>1 DEF Justified, Larger, Smaller
<1>4. CASE "up" \notin d.rule.holds /\ "down" \in d.rule.holds
  <2>1. BestScale(d) = Smaller(Larger(d.mode + -1, d.config.min), d.config.max)
    BY <1>4 DEF BestScale, Delta
  <2> QED BY <1>1, <1>2, <1>4, <2>1 DEF Justified, Larger, Smaller
<1>5. CASE "up" \notin d.rule.holds /\ "down" \notin d.rule.holds
  <2>1. BestScale(d) = Smaller(Larger(d.mode + 0, d.config.min), d.config.max)
    BY <1>5 DEF BestScale, Delta
  <2> QED BY <1>1, <1>2, <1>5, <2>1 DEF Justified, Larger, Smaller
<1> QED BY <1>3, <1>4, <1>5

(* With one worker, and configurations whose bounds are in order, every    *)
(* order is within the bounds of the document as it is stored when the     *)
(* order leaves, and a rule or a scale out of bounds explains it, although *)
(* the document was read several steps before.                             *)
THEOREM OrdersAreJustified ==
    ASSUME NEW w, Workers = {w}, \A c \in Configs : c.min <= c.max
    PROVE  Spec => OrdersJustified
<1>1. SoloInv /\ [Next]_vars =>
          [Len(orders') > Len(orders) =>
              LET o == orders'[Len(orders')]
              IN o.service \in DOMAIN docs /\ Justified(o.scale, docs[o.service])]_vars
  <2> DEFINE s == msg[w].service
             o == [service |-> s, scale |-> BestScale(doc[w])]
  <2> SUFFICES ASSUME SoloInv, Next, Len(orders') > Len(orders)
               PROVE  /\ orders'[Len(orders')].service \in DOMAIN docs
                      /\ Justified(orders'[Len(orders')].scale,
                                   docs[orders'[Len(orders')].service])
    OBVIOUS
  <2>1. orders \in Seq(Order)
    BY SoloFacts DEF TypeInv, MessagesOK
  <2>2. ~UNCHANGED orders
    BY <2>1
  <2>3. ASSUME ApplyOrder PROVE FALSE
    <3>1. orders # << >>
      BY <2>1, <2>3 DEF ApplyOrder
    <3>2. PICK i \in DOMAIN orders :
             orders' = [j \in 1 .. Len(orders) - 1 |->
                          IF j < i THEN orders[j] ELSE orders[j + 1]]
      BY <2>3 DEF ApplyOrder
    <3>3. Len(orders) \in Nat /\ Len(orders) > 0
      BY <2>1, <3>1
    <3>4. Len(orders') = Len(orders) - 1
      BY <3>2, <3>3
    <3> QED BY <3>3, <3>4
  <2>4. CallScale(w)
    BY <2>2, <2>3
    DEF Next, Work, ScaleByHand, NewScaleConfig, MonitorService, UnmonitorService, Unwatch,
        ChangeLoad, Report, TimePasses, Quiet, RecheckRules, Crash, Receive, ReadUpdated,
        SetTriggerRules, SaveUpdated, SaveMonitored, RemoveService, DeleteRules,
        ReadTriggered, Recheck, ExecuteRuleset, store, cluster, vars
  <2>5. orders' = Append(orders, o) /\ stage[w] = "scale"
    BY <2>2, <2>4 DEF CallScale
  <2>6. /\ s \in DOMAIN docs /\ doc[w].mode = docs[s].mode
        /\ doc[w].config = docs[s].config /\ doc[w].rule = docs[s].rule
    BY <2>5, SoloFacts DEF SoloHandler
  <2>7. doc[w] \in Doc /\ doc[w].mode # Global /\ doc[w].config \in Configs
    BY <2>5, SoloFacts DEF TypeInv, ScalingReplicated, Doc
  <2>8. Justified(BestScale(doc[w]), doc[w])
    BY <2>7, BestScaleJustified
  <2>9. Justified(BestScale(doc[w]), docs[s])
    BY <2>6, <2>8 DEF Justified
  <2>10. orders'[Len(orders')] = o
    BY <2>1, <2>5
  <2> QED BY <2>6, <2>9, <2>10
<1> QED BY <1>1, SoloInvariant, PTL DEF Spec, OrdersJustified

-----------------------------------------------------------------------------
(* The scale that the documents know                                       *)

LEMMA KnownInit == Init => KnownInv
<1> SUFFICES ASSUME Init PROVE KnownInv
  OBVIOUS
<1>1. NotMonitored
  BY NoMessageType DEF Init, NotMonitored
<1>2. ASSUME NEW w \in Workers PROVE CopiesKnow(w)
  BY <1>2 DEF Init, CopiesKnow
<1>3. ASSUME NEW w \in Workers, NEW s \in DOMAIN docs \cap watched PROVE KnownScale(w, s)
  <2>1. msg[w].kind = "tick" /\ queues["updated"] = << >>
    BY <1>3, NoMessageType DEF Init, Handlers
  <2>2. docs[s].mode = replicas[s]
    BY <1>3 DEF Init, NewDoc
  <2> QED BY <2>1, <2>2 DEF KnownScale, IsScale
<1> QED BY <1>1, <1>2, <1>3 DEF KnownInv

(* A message that is sent, neither from monitor_service nor misplaced.     *)
LEMMA SendNotMonitored ==
    ASSUME TypeInv, NotMonitored, NEW h \in Handlers, NEW m, Send(h, m), UNCHANGED msg,
           m.kind # "monitor", m.kind = "updated" => h = "updated"
    PROVE  NotMonitored'
<1>1. queues' = [queues EXCEPT ![h] = Append(@, m)]
  BY DEF Send
<1>2. \A g \in Handlers : queues[g] \in Seq(Message)
  BY DEF TypeInv, MessagesOK
<1>3. ASSUME NEW g \in Handlers, NEW i \in DOMAIN queues'[g]
      PROVE  queues'[g][i].kind # "monitor" /\ (queues'[g][i].kind = "updated" => g = "updated")
  <2>1. CASE g # h
    BY <1>1, <1>3, <2>1 DEF NotMonitored, TypeInv, MessagesOK
  <2>2. CASE g = h
    <3>1. queues'[g] = Append(queues[h], m)
      BY <1>1, <2>2 DEF TypeInv, MessagesOK
    <3>2. \/ i \in DOMAIN queues[h] /\ queues'[g][i] = queues[h][i]
          \/ queues'[g][i] = m
      BY <1>2, <1>3, <3>1
    <3> QED BY <2>2, <3>2 DEF NotMonitored
  <2> QED BY <2>1, <2>2
<1> QED BY <1>3 DEF NotMonitored

LEMMA NotMonitoredStep ==
    ASSUME NEW w, Workers = {w}, "monitor" \notin Inputs
    PROVE  SoloInv /\ NotMonitored /\ Next => NotMonitored'
<1> SUFFICES ASSUME SoloInv, NotMonitored, Next PROVE NotMonitored'
  OBVIOUS
<1> USE SoloFacts
<1>1. ASSUME NEW s \in Services, NEW n, SetReplicas(s, n), UNCHANGED msg PROVE NotMonitored'
  <2>1. CASE UNCHANGED queues
    BY <1>1, <2>1 DEF NotMonitored
  <2>2. CASE ~UNCHANGED queues
    <3> DEFINE m == [AnyMessage("updated", s) EXCEPT !.diff = "scale", !.mode = n]
    <3>1. Send("updated", m) /\ m.kind = "updated"
      BY <1>1, <2>2 DEF SetReplicas, AnyMessage
    <3> HIDE DEF m
    <3> QED BY <1>1, <3>1, SendNotMonitored DEF Handlers
  <2> QED BY <2>1, <2>2
<1>2. ASSUME NEW s \in Services,
             \/ ScaleByHand(s) \/ NewScaleConfig(s) \/ MonitorService(s)
             \/ UnmonitorService(s) \/ Unwatch(s) \/ ChangeLoad(s) \/ Report(s)
      PROVE  NotMonitored'
  <2>1. UNCHANGED msg
    BY <1>2 DEF ScaleByHand, NewScaleConfig, MonitorService, UnmonitorService, Unwatch,
                ChangeLoad, Report, Environment
  <2>2. CASE ScaleByHand(s)
    BY <1>1, <2>1, <2>2 DEF ScaleByHand
  <2>3. CASE NewScaleConfig(s)
    <3> DEFINE m(c) == [AnyMessage("updated", s) EXCEPT !.diff = "config", !.config = c]
    <3>1. PICK c \in Configs : Send("updated", m(c))
      BY <2>3 DEF NewScaleConfig
    <3>2. m(c).kind = "updated"
      BY DEF AnyMessage
    <3> HIDE DEF m
    <3> QED BY <2>1, <3>1, <3>2, SendNotMonitored DEF Handlers
  <2>4. CASE UnmonitorService(s)
    <3>1. Send("rpc", AnyMessage("unmonitor", s)) /\ AnyMessage("unmonitor", s).kind = "unmonitor"
      BY <2>4 DEF UnmonitorService, AnyMessage
    <3> QED BY <2>1, <3>1, SendNotMonitored DEF Handlers
  <2>5. CASE Report(s)
    <3> DEFINE m == [AnyMessage("triggered", s) EXCEPT
                        !.rule = [present |-> TRUE, signs |-> rules[s], holds |-> Holding(s)]]
    <3>1. Send("triggered", m)
      BY <2>5 DEF Report
    <3>2. m.kind = "triggered"
      BY DEF AnyMessage
    <3> HIDE DEF m
    <3> QED BY <2>1, <3>1, <3>2, SendNotMonitored DEF Handlers
  <2>6. CASE Unwatch(s) \/ ChangeLoad(s)
    BY <2>1, <2>6 DEF Unwatch, ChangeLoad, NotMonitored
  <2> QED BY <1>2, <2>2, <2>3, <2>4, <2>5, <2>6 DEF MonitorService, Environment
<1>3. CASE ApplyOrder
  <2>1. UNCHANGED msg
    BY <1>3 DEF ApplyOrder
  <2>2. PICK i \in DOMAIN orders :
           \/ UNCHANGED queues
           \/ SetReplicas(orders[i].service, orders[i].scale)
    BY <1>3 DEF ApplyOrder
  <2>3. orders[i] \in Order
    BY DEF TypeInv, MessagesOK
  <2> QED BY <1>1, <2>1, <2>2, <2>3 DEF Order, NotMonitored
<1>4. ASSUME NEW h \in Handlers, Receive(w, h) PROVE NotMonitored'
  <2>1. /\ queues[h] \in Seq(Message) /\ queues[h] # << >>
        /\ queues' = [queues EXCEPT ![h] = Tail(@)]
        /\ msg' = [msg EXCEPT ![w] = Head(queues[h])]
    BY <1>4 DEF Receive, TypeInv, MessagesOK
  <2>2. 1 \in DOMAIN queues[h] /\ Head(queues[h]) = queues[h][1]
    BY <2>1
  <2>3. msg'[w].kind # "monitor"
    BY <2>1, <2>2 DEF NotMonitored, TypeInv, WorkersOK
  <2>4. ASSUME NEW g \in Handlers, NEW i \in DOMAIN queues'[g]
        PROVE  \E j \in DOMAIN queues[g] : queues'[g][i] = queues[g][j]
    <3>1. CASE g # h
      BY <2>1, <2>4, <3>1 DEF TypeInv, MessagesOK
    <3>2. CASE g = h
      <4>1. queues'[g] = Tail(queues[h])
        BY <2>1, <3>2 DEF TypeInv, MessagesOK
      <4>2. i + 1 \in DOMAIN queues[h] /\ queues'[g][i] = queues[h][i + 1]
        BY <2>1, <2>4, <4>1, TailFacts
      <4> QED BY <3>2, <4>2
    <3> QED BY <3>1, <3>2
  <2> QED BY <2>3, <2>4 DEF NotMonitored
<1>5. CASE Work(w) \/ RecheckRules(w) \/ Crash(w) \/ TimePasses \/ Quiet
  <2>1. UNCHANGED queues
    BY <1>5 DEF Work, RecheckRules, Crash, TimePasses, Quiet, vars, ReadUpdated,
                SetTriggerRules, SaveUpdated, SaveMonitored, RemoveService, DeleteRules,
                ReadTriggered, Recheck, ExecuteRuleset, CallScale
  <2>2. CASE UNCHANGED msg
    BY <2>1, <2>2 DEF NotMonitored
  <2>3. CASE Finish(w)
    BY <2>1, <2>3, FinishFacts DEF NotMonitored
  <2>4. CASE Crash(w)
    <3>1. msg'[w].kind = msg[w].kind
      BY <2>4, NoMessageType DEF Crash, TypeInv, WorkersOK
    <3> QED BY <2>1, <3>1 DEF NotMonitored
  <2>5. CASE Recheck(w)
    <3>1. CASE \E s : msg' = [msg EXCEPT ![w].service = s]
      <4>1. msg'[w].kind = msg[w].kind
        BY <3>1 DEF TypeInv, WorkersOK, Message
      <4> QED BY <2>1, <4>1 DEF NotMonitored
    <3> QED BY <2>2, <2>3, <2>5, <3>1 DEF Recheck
  <2> QED
    BY <1>5, <2>2, <2>3, <2>4, <2>5
    DEF Work, RecheckRules, TimePasses, Quiet, vars, ReadUpdated, SetTriggerRules,
        SaveUpdated, SaveMonitored, RemoveService, DeleteRules, ReadTriggered,
        ExecuteRuleset, CallScale, Return, Fail
<1> QED BY <1>2, <1>3, <1>4, <1>5 DEF Next

(* No step of the only worker makes one of its copies out of date.         *)
LEMMA CopiesStep ==
    ASSUME NEW w, Workers = {w}
    PROVE  SoloInv /\ NotMonitored /\ CopiesKnow(w) /\ Next => CopiesKnow(w)'
<1> SUFFICES ASSUME SoloInv, NotMonitored, CopiesKnow(w), Next PROVE CopiesKnow(w)'
  OBVIOUS
<1> DEFINE s == msg[w].service
<1> USE SoloFacts
<1>1. ASSUME UNCHANGED <<stage, msg, doc, todo>>, DOMAIN docs' = DOMAIN docs,
             \A t \in DOMAIN docs : docs'[t].mode = docs[t].mode
      PROVE  CopiesKnow(w)'
  <2>1. /\ stage[w] \in {"rules", "execute", "scale"} => s \in DOMAIN docs
        /\ stage[w] = "save" /\ msg[w].kind = "updated" => s \in DOMAIN docs
        /\ DOMAIN todo[w] \subseteq DOMAIN docs
    BY DEF SoloHandler
  <2> QED BY <1>1, <2>1 DEF CopiesKnow
<1>2. ASSUME stage'[w] \in {"idle", "read", "remove", "delete"}, DOMAIN todo'[w] = {}
      PROVE  CopiesKnow(w)'
  BY <1>2 DEF CopiesKnow
<1>3. CASE Finish(w)
  BY <1>2, <1>3, FinishFacts
<1>4. CASE ReadUpdated(w) /\ ~Finish(w)
  <2>1. /\ UNCHANGED <<docs, msg, todo>> /\ stage[w] = "read" /\ s \in DOMAIN docs
        /\ \/ msg[w].diff = "scale" /\ doc' = [doc EXCEPT ![w] = [docs[s] EXCEPT !.mode = msg[w].mode]]
           \/ msg[w].diff # "scale" /\ doc' = [doc EXCEPT ![w] = [docs[s] EXCEPT !.config = msg[w].config]]
           \/ msg[w].diff # "scale" /\ doc' = [doc EXCEPT ![w] = docs[s]]
    BY <1>4 DEF ReadUpdated, store
  <2>2. docs[s] \in Doc
    BY <2>1 DEF TypeInv, StoreOK
  <2>3. doc'[w].mode = IF msg[w].diff = "scale" THEN msg[w].mode ELSE docs[s].mode
    BY <2>1, <2>2 DEF TypeInv, WorkersOK, Doc
  <2>4. stage'[w] \in {"save", "rules"} /\ DOMAIN todo[w] = {}
    BY <1>4, <2>1, GotoFacts DEF ReadUpdated, SoloHandler
  <2> QED BY <2>1, <2>3, <2>4 DEF CopiesKnow
<1>5. CASE ReadTriggered(w) /\ ~Finish(w)
  <2>1. /\ UNCHANGED <<docs, msg, todo>> /\ stage[w] = "read" /\ s \in DOMAIN docs
        /\ doc' = [doc EXCEPT ![w] = [docs[s] EXCEPT !.rule = msg[w].rule, !.old = FALSE]]
    BY <1>5 DEF ReadTriggered, store
  <2>2. docs[s] \in Doc
    BY <2>1 DEF TypeInv, StoreOK
  <2>3. doc'[w].mode = docs[s].mode
    BY <2>1, <2>2 DEF TypeInv, WorkersOK, Doc
  <2>4. stage'[w] = "execute" /\ DOMAIN todo[w] = {}
    BY <1>5, <2>1, GotoFacts DEF ReadTriggered, SoloHandler
  <2> QED BY <2>1, <2>3, <2>4 DEF CopiesKnow
<1>6. CASE SetTriggerRules(w) /\ ~Finish(w)
  <2>1. /\ stage[w] = "rules" /\ msg[w].kind = "updated" /\ stage'[w] = "save"
        /\ UNCHANGED <<docs, msg, doc, todo>>
    BY <1>6, GotoFacts DEF SetTriggerRules, Fail
  <2> QED BY <2>1 DEF CopiesKnow, SoloHandler
<1>7. CASE SaveMonitored(w)
  BY <1>7 DEF SaveMonitored, NotMonitored
<1>8. CASE RemoveService(w)
  <2>1. stage'[w] = "delete" /\ DOMAIN todo'[w] = {}
    BY <1>8, GotoFacts DEF RemoveService, SoloHandler
  <2> QED BY <1>2, <2>1
<1>9. CASE Recheck(w) /\ ~Finish(w)
  <2>1. PICK t \in DOMAIN todo[w] :
           /\ todo' = [todo EXCEPT ![w] = Without(@, t)]
           /\ \/ UNCHANGED <<stage, msg, doc>>
              \/ /\ msg' = [msg EXCEPT ![w].service = t]
                 /\ doc' = [doc EXCEPT ![w] = [todo[w][t] EXCEPT !.old = FALSE]]
                 /\ Goto(w, "execute")
    BY <1>9 DEF Recheck
  <2>2. stage[w] = "scan" /\ UNCHANGED docs
    BY <1>9 DEF Recheck, store
  <2>3. \A r \in DOMAIN todo'[w] : todo'[w][r].mode = docs'[r].mode
    BY <2>1, <2>2 DEF CopiesKnow, Without, TypeInv, WorkersOK
  <2>4. CASE UNCHANGED <<stage, msg, doc>>
    BY <2>2, <2>3, <2>4 DEF CopiesKnow
  <2>5. CASE /\ msg' = [msg EXCEPT ![w].service = t]
             /\ doc' = [doc EXCEPT ![w] = [todo[w][t] EXCEPT !.old = FALSE]]
             /\ Goto(w, "execute")
    <3>1. todo[w][t] \in Doc
      BY DEF TypeInv, WorkersOK
    <3>2. doc'[w].mode = todo[w][t].mode /\ msg'[w].service = t /\ stage'[w] = "execute"
      BY <2>5, <3>1, GotoFacts DEF TypeInv, WorkersOK, Doc, Message
    <3>3. doc'[w].mode = docs'[msg'[w].service].mode
      BY <2>2, <3>2 DEF CopiesKnow
    <3> QED BY <2>3, <3>2, <3>3 DEF CopiesKnow
  <2> QED BY <2>1, <2>4, <2>5
<1>10. CASE (ExecuteRuleset(w) \/ CallScale(w)) /\ ~Finish(w)
  <2>1. /\ UNCHANGED <<msg, doc, todo>> /\ stage'[w] \in {"scan", "scale"}
        /\ DOMAIN docs' = DOMAIN docs /\ stage[w] \in {"execute", "scale"}
        /\ \A t \in DOMAIN docs : docs'[t] = docs[t] \/ (t = s /\ docs'[t] = doc[w])
    BY <1>10, GotoFacts DEF ExecuteRuleset, CallScale, Return, Fail, store
  <2>2. s \in DOMAIN docs /\ doc[w].mode = docs[s].mode /\ DOMAIN todo[w] \subseteq DOMAIN docs
    BY <2>1 DEF CopiesKnow, SoloHandler
  <2>3. \A t \in DOMAIN docs : docs'[t].mode = docs[t].mode
    BY <2>1, <2>2
  <2> QED BY <2>1, <2>2, <2>3 DEF CopiesKnow
<1>11. CASE RecheckRules(w)
  <2>1. stage'[w] = "scan" /\ todo'[w] = docs /\ UNCHANGED docs
    BY <1>11, GotoFacts DEF RecheckRules, store, TypeInv, WorkersOK
  <2> QED BY <2>1 DEF CopiesKnow
<1>12. CASE Crash(w)
  <2>1. /\ stage'[w] = IF msg[w].kind = "tick" THEN "idle" ELSE FirstStage(msg[w].kind)
        /\ DOMAIN todo'[w] = {}
    BY <1>12, GotoFacts DEF Crash, TypeInv, WorkersOK
  <2>2. stage'[w] \in {"idle", "read", "remove"}
    BY <2>1 DEF FirstStage, NotMonitored, Message, Kinds
  <2> QED BY <1>2, <2>1, <2>2
<1>13. ASSUME NEW h \in Handlers, Receive(w, h) PROVE CopiesKnow(w)'
  <2>1. /\ stage'[w] = FirstStage(Head(queues[h]).kind) /\ msg'[w] = Head(queues[h])
        /\ DOMAIN todo'[w] = {}
    BY <1>13, GotoFacts DEF Receive, TypeInv, WorkersOK, SoloHandler
  <2>2. stage'[w] \in {"read", "remove", "scan", "save"} /\ ~(stage'[w] = "save" /\ msg'[w].kind = "updated")
    BY <2>1 DEF FirstStage
  <2> QED BY <2>1, <2>2 DEF CopiesKnow
<1>14. CASE TimePasses
  BY <1>1, <1>14 DEF TimePasses, TypeInv, StoreOK, Doc
<1>15. CASE UNCHANGED <<docs, stage, msg, doc, todo>>
  BY <1>1, <1>15
<1>16. CASE Work(w)
  BY <1>3, <1>4, <1>5, <1>6, <1>7, <1>8, <1>9, <1>10, <1>16
  DEF Work, SaveUpdated, DeleteRules, Fail
<1> QED
  BY <1>11, <1>12, <1>13, <1>14, <1>15, <1>16
  DEF Next, ScaleByHand, NewScaleConfig, MonitorService, UnmonitorService, Unwatch,
      ChangeLoad, Environment, Report, ApplyOrder, Quiet, store, vars

(* A step that neither announces a scale nor stores one.                   *)
LEMMA KnownKeeps ==
    ASSUME NEW w, NEW s, KnownScale(w, s), queues'["updated"] = queues["updated"],
           replicas'[s] = replicas[s],
           IsScale(msg'[w], s) <=> IsScale(msg[w], s),
           IsScale(msg[w], s) => msg'[w].mode = msg[w].mode,
           ~IsScale(msg[w], s) => docs'[s].mode = docs[s].mode
    PROVE  KnownScale(w, s)'
<1>1. KnownScale(w, s)' <=>
         LET q == queues'["updated"]
         IN \/ \E i \in DOMAIN q :
                  /\ IsScale(q[i], s) /\ q[i].mode = replicas'[s]
                  /\ \A j \in DOMAIN q : j > i => ~IsScale(q[j], s)
            \/ /\ \A i \in DOMAIN q : ~IsScale(q[i], s)
               /\ IF IsScale(msg'[w], s) THEN msg'[w].mode = replicas'[s]
                                         ELSE docs'[s].mode = replicas'[s]
  BY DEF KnownScale, IsScale
<1> QED BY <1>1 DEF KnownScale

(* The update that was handled is stored.                                  *)
LEMMA KnownStored ==
    ASSUME NEW w, NEW s, KnownScale(w, s), queues'["updated"] = queues["updated"],
           replicas'[s] = replicas[s], IsScale(msg[w], s), ~IsScale(msg'[w], s),
           docs'[s].mode = msg[w].mode
    PROVE  KnownScale(w, s)'
<1>1. KnownScale(w, s)' <=>
         LET q == queues'["updated"]
         IN \/ \E i \in DOMAIN q :
                  /\ IsScale(q[i], s) /\ q[i].mode = replicas'[s]
                  /\ \A j \in DOMAIN q : j > i => ~IsScale(q[j], s)
            \/ /\ \A i \in DOMAIN q : ~IsScale(q[i], s)
               /\ IF IsScale(msg'[w], s) THEN msg'[w].mode = replicas'[s]
                                         ELSE docs'[s].mode = replicas'[s]
  BY DEF KnownScale, IsScale
<1> QED BY <1>1 DEF KnownScale

(* A message that is announced: a scale, which docker has, or another one. *)
LEMMA KnownAnnounced ==
    ASSUME NEW w, NEW s, NEW m, queues["updated"] \in Seq(Message), UNCHANGED <<msg, docs>>,
           queues'["updated"] = Append(queues["updated"], m),
           \/ IsScale(m, s) /\ m.mode = replicas'[s]
           \/ ~IsScale(m, s) /\ replicas'[s] = replicas[s] /\ KnownScale(w, s)
    PROVE  KnownScale(w, s)'
<1> DEFINE q == queues["updated"]
           p == queues'["updated"]
<1>1. /\ DOMAIN q = 1 .. Len(q) /\ DOMAIN p = 1 .. Len(q) + 1 /\ Len(q) \in Nat
      /\ p[Len(q) + 1] = m /\ \A i \in DOMAIN q : p[i] = q[i]
  OBVIOUS
<1>2. KnownScale(w, s)' <=>
         \/ \E i \in DOMAIN p :
               /\ IsScale(p[i], s) /\ p[i].mode = replicas'[s]
               /\ \A j \in DOMAIN p : j > i => ~IsScale(p[j], s)
         \/ /\ \A i \in DOMAIN p : ~IsScale(p[i], s)
            /\ IF IsScale(msg[w], s) THEN msg[w].mode = replicas'[s]
                                     ELSE docs[s].mode = replicas'[s]
  BY DEF KnownScale, IsScale
<1>3. KnownScale(w, s) <=>
         \/ \E i \in DOMAIN q :
               /\ IsScale(q[i], s) /\ q[i].mode = replicas[s]
               /\ \A j \in DOMAIN q : j > i => ~IsScale(q[j], s)
         \/ /\ \A i \in DOMAIN q : ~IsScale(q[i], s)
            /\ IF IsScale(msg[w], s) THEN msg[w].mode = replicas[s]
                                     ELSE docs[s].mode = replicas[s]
  BY DEF KnownScale
<1> HIDE DEF p, q
<1>4. CASE IsScale(m, s) /\ m.mode = replicas'[s]
  <2>1. \A j \in DOMAIN p : ~(j > Len(q) + 1)
    BY <1>1
  <2> QED BY <1>1, <1>2, <1>4, <2>1
<1>5. CASE ~IsScale(m, s) /\ replicas'[s] = replicas[s] /\ KnownScale(w, s)
  <2>1. CASE \A i \in DOMAIN q : ~IsScale(q[i], s)
    <3>1. \A i \in DOMAIN p : ~IsScale(p[i], s)
      BY <1>1, <1>5, <2>1
    <3> QED BY <1>2, <1>3, <1>5, <2>1, <3>1
  <2>2. CASE \E i \in DOMAIN q : IsScale(q[i], s)
    <3>1. PICK i \in DOMAIN q :
             /\ IsScale(q[i], s) /\ q[i].mode = replicas[s]
             /\ \A j \in DOMAIN q : j > i => ~IsScale(q[j], s)
      BY <1>3, <1>5, <2>2
    <3>2. i \in DOMAIN p /\ p[i] = q[i]
      BY <1>1
    <3>3. \A j \in DOMAIN p : j > i => ~IsScale(p[j], s)
      BY <1>1, <1>5, <3>1
    <3> QED BY <1>2, <1>5, <3>1, <3>2, <3>3
  <2> QED BY <2>1, <2>2
<1> QED BY <1>4, <1>5

(* The first update that waits is taken.                                   *)
LEMMA KnownTaken ==
    ASSUME NEW w, NEW s, queues["updated"] \in Seq(Message), queues["updated"] # << >>,
           queues'["updated"] = Tail(queues["updated"]), UNCHANGED <<docs, replicas>>,
           msg'[w] = Head(queues["updated"]), ~IsScale(msg[w], s), KnownScale(w, s)
    PROVE  KnownScale(w, s)'
<1> DEFINE q == queues["updated"]
           p == queues'["updated"]
<1>1. /\ 1 \in DOMAIN q /\ msg'[w] = q[1] /\ DOMAIN q = 1 .. Len(q) /\ Len(q) \in Nat
      /\ DOMAIN p = 1 .. Len(q) - 1
      /\ \A i \in DOMAIN p : i + 1 \in DOMAIN q /\ p[i] = q[i + 1]
  BY TailFacts
<1>2. KnownScale(w, s)' <=>
         \/ \E i \in DOMAIN p :
               /\ IsScale(p[i], s) /\ p[i].mode = replicas[s]
               /\ \A j \in DOMAIN p : j > i => ~IsScale(p[j], s)
         \/ /\ \A i \in DOMAIN p : ~IsScale(p[i], s)
            /\ IF IsScale(msg'[w], s) THEN msg'[w].mode = replicas[s]
                                      ELSE docs[s].mode = replicas[s]
  BY DEF KnownScale, IsScale
<1>3. KnownScale(w, s) <=>
         \/ \E i \in DOMAIN q :
               /\ IsScale(q[i], s) /\ q[i].mode = replicas[s]
               /\ \A j \in DOMAIN q : j > i => ~IsScale(q[j], s)
         \/ /\ \A i \in DOMAIN q : ~IsScale(q[i], s)
            /\ IF IsScale(msg[w], s) THEN msg[w].mode = replicas[s]
                                     ELSE docs[s].mode = replicas[s]
  BY DEF KnownScale
<1> HIDE DEF p, q
<1>4. CASE \A i \in DOMAIN q : ~IsScale(q[i], s)
  BY <1>1, <1>2, <1>3, <1>4
<1>5. CASE \E i \in DOMAIN q : IsScale(q[i], s)
  <2>1. PICK i \in DOMAIN q :
           /\ IsScale(q[i], s) /\ q[i].mode = replicas[s]
           /\ \A j \in DOMAIN q : j > i => ~IsScale(q[j], s)
    BY <1>3, <1>5
  <2>2. \A j \in DOMAIN p : j + 1 > i => ~IsScale(p[j], s)
    BY <1>1, <2>1
  <2>3. CASE i = 1
    <3>1. \A j \in DOMAIN p : ~IsScale(p[j], s)
      BY <1>1, <2>2, <2>3
    <3> QED BY <1>1, <1>2, <2>1, <2>3, <3>1
  <2>4. CASE i # 1
    <3>1. i - 1 \in DOMAIN p /\ p[i - 1] = q[i]
      BY <1>1, <2>4
    <3>2. \A j \in DOMAIN p : j > i - 1 => ~IsScale(p[j], s)
      BY <1>1, <2>2
    <3> QED BY <1>2, <2>1, <3>1, <3>2
  <2> QED BY <2>3, <2>4
<1> QED BY <1>4, <1>5

LEMMA KnownSetReplicas ==
    ASSUME SoloInv, NEW w, Workers = {w}, NEW s, NEW t \in Services, NEW n,
           SetReplicas(t, n), UNCHANGED <<msg, docs>>, s \in watched, KnownScale(w, s)
    PROVE  KnownScale(w, s)'
<1> DEFINE m == [AnyMessage("updated", t) EXCEPT !.diff = "scale", !.mode = n]
<1>1. m.kind = "updated" /\ m.diff = "scale" /\ m.service = t /\ m.mode = n
  BY DEF AnyMessage
<1>2. /\ replicas' = [replicas EXCEPT ![t] = n]
      /\ IF t \in watched THEN Send("updated", m) ELSE UNCHANGED queues
  BY DEF SetReplicas
<1>3. s \in Services /\ queues["updated"] \in Seq(Message)
  BY SoloFacts DEF TypeInv, ClusterOK, MessagesOK, Handlers
<1> HIDE DEF m
<1>4. replicas'[t] = n /\ (s # t => replicas'[s] = replicas[s])
  BY <1>2, <1>3, SoloFacts DEF TypeInv, ClusterOK
<1>5. CASE t \in watched
  <2>1. queues'["updated"] = Append(queues["updated"], m)
    BY <1>2, <1>5, SoloFacts DEF Send, TypeInv, MessagesOK, Handlers
  <2>2. CASE s = t
    <3>1. IsScale(m, s) /\ m.mode = replicas'[s]
      BY <1>1, <1>4, <2>2 DEF IsScale
    <3> QED BY <1>3, <2>1, <3>1, KnownAnnounced
  <2>3. CASE s # t
    <3>1. ~IsScale(m, s) /\ replicas'[s] = replicas[s]
      BY <1>1, <1>4, <2>3 DEF IsScale
    <3> QED BY <1>3, <2>1, <3>1, KnownAnnounced
  <2> QED BY <2>2, <2>3
<1>6. CASE t \notin watched
  BY <1>2, <1>4, <1>6, KnownKeeps
<1> QED BY <1>5, <1>6

LEMMA KnownStep ==
    ASSUME NEW w, Workers = {w}, "monitor" \notin Inputs, SoloInv, KnownInv, Next,
           NEW s \in DOMAIN docs' \cap watched'
    PROVE  KnownScale(w, s)'
<1> USE SoloFacts
<1>1. s \in DOMAIN docs
  <2>1. CASE SaveUpdated(w)
    BY <2>1 DEF SaveUpdated, Store, SoloHandler
  <2>2. CASE SaveMonitored(w)
    BY <2>2 DEF SaveMonitored, KnownInv, NotMonitored
  <2>3. CASE RemoveService(w) \/ ExecuteRuleset(w) \/ TimePasses
    BY <2>3 DEF RemoveService, ExecuteRuleset, TimePasses, Without
  <2>4. CASE UNCHANGED docs
    BY <2>4
  <2>5. CASE Work(w)
    BY <2>1, <2>2, <2>3, <2>4, <2>5
    DEF Work, ReadUpdated, SetTriggerRules, DeleteRules, ReadTriggered, Recheck, CallScale, store
  <2> QED
    BY <2>3, <2>4, <2>5
    DEF Next, ScaleByHand, NewScaleConfig, MonitorService, UnmonitorService, Unwatch,
        ChangeLoad, Environment, Report, ApplyOrder, Quiet, RecheckRules, Crash, Receive,
        store, vars
<1>2. s \in watched
  BY DEF Next, Work, ScaleByHand, NewScaleConfig, MonitorService, UnmonitorService, Unwatch,
         ChangeLoad, Environment, Report, ApplyOrder, TimePasses, Quiet, RecheckRules, Crash,
         Receive, ReadUpdated, SetTriggerRules, SaveUpdated, SaveMonitored, RemoveService,
         DeleteRules, ReadTriggered, Recheck, ExecuteRuleset, CallScale, cluster, vars
<1>3. /\ KnownScale(w, s) /\ CopiesKnow(w) /\ NotMonitored
      /\ queues["updated"] \in Seq(Message)
  BY <1>1, <1>2 DEF KnownInv, TypeInv, MessagesOK, Handlers
(* The messages that are sent.                                             *)
<1>4. ASSUME NEW t \in Services,
             \/ ScaleByHand(t) \/ NewScaleConfig(t) \/ MonitorService(t)
             \/ UnmonitorService(t) \/ Unwatch(t) \/ ChangeLoad(t) \/ Report(t)
      PROVE  KnownScale(w, s)'
  <2>1. UNCHANGED <<msg, docs>>
    BY <1>4 DEF ScaleByHand, NewScaleConfig, MonitorService, UnmonitorService, Unwatch,
                ChangeLoad, Report, Environment, store
  <2>2. CASE ScaleByHand(t)
    <3>1. PICK n \in 0 .. MaxReplicas : SetReplicas(t, n)
      BY <2>2 DEF ScaleByHand
    <3> QED BY <1>2, <1>3, <2>1, <3>1, KnownSetReplicas
  <2>3. CASE NewScaleConfig(t)
    <3> DEFINE m(c) == [AnyMessage("updated", t) EXCEPT !.diff = "config", !.config = c]
    <3>1. PICK c \in Configs : Send("updated", m(c))
      BY <2>3 DEF NewScaleConfig
    <3>2. ~IsScale(m(c), s)
      BY DEF AnyMessage, IsScale
    <3> HIDE DEF m
    <3>3. queues'["updated"] = Append(queues["updated"], m(c))
      BY <3>1 DEF Send, TypeInv, MessagesOK, Handlers
    <3>4. UNCHANGED replicas
      BY <2>3 DEF NewScaleConfig, cluster
    <3> QED BY <1>3, <2>1, <3>2, <3>3, <3>4, KnownAnnounced
  <2>4. CASE UnmonitorService(t) \/ Report(t)
    <3>1. queues'["updated"] = queues["updated"] /\ UNCHANGED replicas
      BY <2>4 DEF UnmonitorService, Report, Send, TypeInv, MessagesOK, Handlers, cluster
    <3> QED BY <1>3, <2>1, <3>1, KnownKeeps
  <2>5. CASE Unwatch(t) \/ ChangeLoad(t)
    BY <1>3, <2>1, <2>5, KnownKeeps DEF Unwatch, ChangeLoad
  <2> QED BY <1>4, <2>2, <2>3, <2>4, <2>5 DEF MonitorService, Environment
<1>5. CASE ApplyOrder
  <2>1. UNCHANGED <<msg, docs>>
    BY <1>5 DEF ApplyOrder, store
  <2>2. PICK i \in DOMAIN orders :
           \/ UNCHANGED <<replicas, queues>>
           \/ SetReplicas(orders[i].service, orders[i].scale)
    BY <1>5 DEF ApplyOrder
  <2>3. orders[i].service \in Services
    <3>1. orders[i] \in Order
      BY DEF TypeInv, MessagesOK
    <3> QED BY <3>1 DEF Order
  <2>4. CASE UNCHANGED <<replicas, queues>>
    BY <1>3, <2>1, <2>4, KnownKeeps
  <2> QED BY <1>2, <1>3, <2>1, <2>2, <2>3, <2>4, KnownSetReplicas
<1>6. ASSUME NEW h \in Handlers, Receive(w, h) PROVE KnownScale(w, s)'
  <2>1. /\ queues[h] \in Seq(Message) /\ queues[h] # << >>
        /\ queues' = [queues EXCEPT ![h] = Tail(@)]
        /\ msg'[w] = Head(queues[h]) /\ UNCHANGED <<docs, replicas>>
    BY <1>6 DEF Receive, store, cluster, TypeInv, MessagesOK, WorkersOK
  <2>2. ~IsScale(msg[w], s)
    BY <1>6 DEF Receive, SoloHandler, StagesOf, IsScale, Message, Kinds
  <2>3. CASE h = "updated"
    <3>1. queues'["updated"] = Tail(queues["updated"])
      BY <2>1, <2>3 DEF TypeInv, MessagesOK
    <3> QED BY <1>3, <2>1, <2>2, <2>3, <3>1, KnownTaken
  <2>4. CASE h # "updated"
    <3>1. queues'["updated"] = queues["updated"]
      BY <2>1, <2>4 DEF TypeInv, MessagesOK
    <3>2. ~IsScale(msg'[w], s)
      BY <2>1, <2>4, TailFacts, <1>3 DEF NotMonitored, IsScale
    <3> QED BY <1>3, <2>1, <2>2, <3>1, <3>2, KnownKeeps
  <2> QED BY <2>3, <2>4
(* The handlers.                                                           *)
<1>7. CASE TimePasses
  <2>1. docs'[s].mode = docs[s].mode
    BY <1>1, <1>7 DEF TimePasses, TypeInv, StoreOK, Doc
  <2> QED BY <1>3, <1>7, <2>1, KnownKeeps DEF TimePasses, cluster
<1>8. CASE Crash(w)
  <2>1. /\ msg'[w] = IF msg[w].kind = "tick" THEN NoMessage ELSE msg[w]
        /\ UNCHANGED <<docs, replicas, queues>>
    BY <1>8 DEF Crash, store, cluster, TypeInv, WorkersOK
  <2>2. CASE msg[w].kind = "tick"
    BY <1>3, <2>1, <2>2, NoMessageType, KnownKeeps DEF IsScale
  <2>3. CASE msg[w].kind # "tick"
    BY <1>3, <2>1, <2>3, KnownKeeps
  <2> QED BY <2>2, <2>3
<1>9. CASE Work(w) \/ RecheckRules(w)
  <2>1. UNCHANGED <<queues, replicas>>
    BY <1>9 DEF Work, RecheckRules, ReadUpdated, SetTriggerRules, SaveUpdated, SaveMonitored,
                RemoveService, DeleteRules, ReadTriggered, Recheck, ExecuteRuleset, CallScale,
                cluster
  <2>2. ASSUME ~IsScale(msg[w], s), ~IsScale(msg'[w], s), docs'[s].mode = docs[s].mode
        PROVE  KnownScale(w, s)'
    BY <1>3, <2>1, <2>2, KnownKeeps
  <2>3. Finish(w) => ~IsScale(msg'[w], s)
    BY FinishFacts DEF IsScale
  <2>4. ASSUME UNCHANGED <<msg, docs>> PROVE KnownScale(w, s)'
    BY <1>3, <2>1, <2>4, KnownKeeps
  <2>5. CASE ReadUpdated(w) /\ Finish(w)
    <3>1. stage'[w] \notin {"save", "rules"}
      BY <2>5, FinishFacts
    <3>2. ~IsScale(msg[w], s)
      BY <1>1, <2>5, <3>1, GotoFacts DEF ReadUpdated, IsScale
    <3> QED BY <2>2, <2>3, <2>5, <3>2 DEF ReadUpdated, store
  <2>6. CASE SaveUpdated(w)
    <3>1. /\ docs' = Store(docs, msg[w].service, doc[w])
          /\ doc[w].mode = IF msg[w].diff = "scale" THEN msg[w].mode ELSE docs[msg[w].service].mode
          /\ ~IsScale(msg'[w], s)
      BY <1>3, <2>3, <2>6 DEF SaveUpdated, CopiesKnow
    <3>2. CASE IsScale(msg[w], s)
      <4>1. docs'[s].mode = msg[w].mode
        BY <3>1, <3>2 DEF IsScale, Store
      <4> QED BY <1>3, <2>1, <3>1, <3>2, <4>1, KnownStored
    <3>3. CASE ~IsScale(msg[w], s)
      <4>1. docs'[s].mode = docs[s].mode
        BY <1>1, <2>6, <3>1, <3>3 DEF IsScale, Store, SaveUpdated
      <4> QED BY <2>2, <3>1, <3>3, <4>1
    <3> QED BY <3>2, <3>3
  <2>7. CASE ReadTriggered(w) \/ (ReadUpdated(w) /\ ~Finish(w))
    BY <2>2, <2>3, <2>4, <2>7 DEF ReadTriggered, ReadUpdated, IsScale, store
  <2>14. CASE SetTriggerRules(w)
    <3>1. ~IsScale(msg[w], s) /\ UNCHANGED docs
      BY <2>14 DEF SetTriggerRules, SoloHandler, IsScale
    <3> QED BY <2>2, <2>3, <2>4, <2>14, <3>1 DEF SetTriggerRules, Fail
  <2>8. CASE RecheckRules(w)
    BY <2>4, <2>8 DEF RecheckRules, store
  <2>9. CASE SaveMonitored(w)
    BY <1>3, <2>9 DEF SaveMonitored, NotMonitored
  <2>10. CASE RemoveService(w)
    <3>1. docs'[s] = docs[s] /\ UNCHANGED msg
      BY <1>1, <2>10 DEF RemoveService, Without
    <3> QED BY <1>3, <2>1, <3>1, KnownKeeps
  <2>11. CASE DeleteRules(w)
    <3>1. ~IsScale(msg[w], s)
      BY <2>11 DEF DeleteRules, SoloHandler, StagesOf, IsScale
    <3> QED BY <2>2, <2>3, <2>11, <3>1 DEF DeleteRules, Fail
  <2>12. CASE Recheck(w)
    <3>1. stage[w] = "scan" /\ UNCHANGED docs
      BY <2>12 DEF Recheck, store
    <3>2. msg[w].kind = "tick"
      BY <3>1 DEF SoloHandler, StagesOf, Message, Kinds
    <3>3. CASE \E t : msg' = [msg EXCEPT ![w].service = t]
      <4>1. msg'[w].kind = msg[w].kind
        BY <3>3 DEF TypeInv, WorkersOK, Message
      <4> QED BY <2>2, <3>1, <3>2, <4>1 DEF IsScale
    <3> QED BY <2>2, <2>3, <2>4, <2>12, <3>1, <3>2, <3>3 DEF Recheck, IsScale
  <2>13. CASE ExecuteRuleset(w) \/ CallScale(w)
    <3>1. stage[w] \in {"execute", "scale"} /\ (msg' = msg \/ Finish(w))
      BY <2>13 DEF ExecuteRuleset, CallScale, Return, Fail
    <3>2. ~IsScale(msg[w], s)
      BY <3>1 DEF SoloHandler, StagesOf, IsScale
    <3>3. docs'[s].mode = docs[s].mode
      BY <1>1, <1>3, <2>13 DEF ExecuteRuleset, CallScale, CopiesKnow, store
    <3> QED BY <2>2, <2>3, <3>1, <3>2, <3>3
  <2> QED BY <1>9, <2>5, <2>6, <2>7, <2>8, <2>9, <2>10, <2>11, <2>12, <2>13, <2>14
      DEF Work
<1>10. CASE Quiet
  BY <1>3, <1>10, KnownKeeps DEF Quiet, vars, store, cluster
<1> QED BY <1>4, <1>5, <1>6, <1>7, <1>8, <1>9, <1>10 DEF Next

LEMMA KnownInvStep ==
    ASSUME NEW w, Workers = {w}, "monitor" \notin Inputs
    PROVE  SoloInv /\ KnownInv /\ [Next]_vars => KnownInv'
<1> SUFFICES ASSUME SoloInv, KnownInv, [Next]_vars PROVE KnownInv'
  OBVIOUS
<1>1. CASE Next
  <2>1. NotMonitored' /\ CopiesKnow(w)'
    BY <1>1, NotMonitoredStep, CopiesStep DEF KnownInv
  <2>2. \A s \in DOMAIN docs' \cap watched' : KnownScale(w, s)'
    BY <1>1, KnownStep
  <2> QED BY <2>1, <2>2 DEF KnownInv
<1>2. CASE UNCHANGED vars
  BY <1>2 DEF vars, store, cluster, KnownInv, NotMonitored, CopiesKnow, KnownScale
<1> QED BY <1>1, <1>2

(* While no service is monitored anew, the only worker forgets no change   *)
(* that the overseer announced: when its queue is empty, the scale of      *)
(* every document is docker's, whatever the timer, the rules and the       *)
(* crashes stored meanwhile.                                               *)
THEOREM ScalesAreKnown ==
    ASSUME NEW w, Workers = {w}, "monitor" \notin Inputs
    PROVE  Spec => []KnownScaleIsReal
<1>1. Init => KnownInv
  BY KnownInit
<1>2. SoloInv /\ KnownInv => KnownScaleIsReal
  <2> SUFFICES ASSUME SoloInv, KnownInv, stage[w] = "idle", queues["updated"] = << >>,
                      NEW s \in DOMAIN docs \cap watched
               PROVE  docs[s].mode = replicas[s]
    BY DEF KnownScaleIsReal
  <2>1. msg[w].kind = "tick"
    BY SoloFacts DEF SoloHandler, StagesOf, Message, Kinds
  <2>2. KnownScale(w, s)
    BY DEF KnownInv
  <2> QED BY <2>1, <2>2 DEF KnownScale, IsScale
<1> QED BY <1>1, <1>2, SoloInvariant, KnownInvStep, PTL DEF Spec
===============================================================================
