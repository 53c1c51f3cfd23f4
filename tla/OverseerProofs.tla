---------------------------- MODULE OverseerProofs ----------------------------
(***************************************************************************)
(* What Overseer promises for any services, images, messages and crashes:  *)
(* the types for any number of workers, and, for a single worker (one      *)
(* instance with max_workers at 1), that its collection follows docker and *)
(* that its subscribers follow its collection.                             *)
(***************************************************************************)
EXTENDS Overseer, TLAPS

(* The parts of TypeOK.                                                    *)
DockerOK ==
    /\ DOMAIN docker \subseteq Services
    /\ docker \in [DOMAIN docker -> State]
    /\ updating \subseteq DOMAIN docker

EventsOK ==
    /\ events \in Seq(Event)
    /\ listening \in BOOLEAN
    /\ missed \subseteq Services

StoreOK ==
    /\ DOMAIN docs \subseteq Services
    /\ docs \in [DOMAIN docs -> Doc]
    /\ nextId \in Nat
    /\ DOMAIN view \subseteq Services
    /\ view \in [DOMAIN view -> [data: State, config: Configs]]

MessagesOK == calls \in Seq(Call) /\ queues \in [Handlers -> Seq(Message)]

WorkersOK ==
    /\ stage \in [Workers -> Stages]
    /\ msg \in [Workers -> Message]
    /\ doc \in [Workers -> Doc]
    /\ DOMAIN todo = Workers
    /\ \A w \in Workers :
          DOMAIN todo[w] \subseteq Services /\ todo[w] \in [DOMAIN todo[w] -> State]

CountersOK == inputs \in Nat /\ failures \in Nat /\ crashes \in Nat

(* Only the orders reach the call of scaler_docker.                        *)
AskKinds == \A w \in Workers : stage[w] = "ask" => msg[w].kind \in {"scale", "upgrade"}

TypeInv ==
    DockerOK /\ EventsOK /\ StoreOK /\ MessagesOK /\ WorkersOK /\ CountersOK /\ AskKinds

-----------------------------------------------------------------------------
(* Lemmas on the operators                                                 *)

LEMMA AnyStateType == AnyState \in State
<1>1. PICK i \in Images : TRUE
  BY ConstantsAssumption
<1>2. PICK n \in Replicas : TRUE
  BY ConstantsAssumption
<1>3. [image |-> i, mode |-> n] \in State
  BY <1>1, <1>2 DEF State, Modes
<1> QED BY <1>3 DEF AnyState

LEMMA ConfigType ==
    ASSUME NEW d \in State
    PROVE  d.image \in Images /\ d.mode \in Modes /\ ConfigOf[d.image] \in Configs
  BY DEF State, Configs

LEMMA NewDocType ==
    ASSUME NEW d \in State, NEW n \in Nat
    PROVE  /\ NewDoc(d, n) \in Doc
           /\ NewDoc(d, n).data = d /\ NewDoc(d, n).config = ConfigOf[d.image]
  BY ConfigType DEF NewDoc, Doc

LEMMA NoDocType == NoDoc \in Doc
  BY AnyStateType, NewDocType DEF NoDoc

LEMMA AnyMessageType ==
    ASSUME NEW k \in Kinds, NEW s \in Services
    PROVE  AnyMessage(k, s) \in Message /\ AnyMessage(k, s).kind = k
  BY AnyStateType, ConfigType DEF AnyMessage, Message

LEMMA NoMessageType == NoMessage \in Message /\ NoMessage.kind = "boot"
<1>1. (CHOOSE s \in Services : TRUE) \in Services
  BY ConstantsAssumption
<1> QED BY <1>1, AnyMessageType DEF NoMessage, Kinds

LEMMA FirstStageType ==
    ASSUME NEW k \in Kinds
    PROVE  /\ FirstStage(k) \in {"boot", "get", "forget", "ask", "read", "check"}
           /\ FirstStage(k) \in Stages
           /\ FirstStage(k) = "ask" => k \in {"scale", "upgrade"}
           /\ FirstStage(k) = "read" <=> k = "updated"
           /\ FirstStage(k) = "check" => k = "own"
           /\ FirstStage(k) = "forget" => k = "unmonitor"
           /\ FirstStage(k) = "boot" => k = "boot"
           /\ FirstStage(k) = "get" => k = "monitor"
  BY DEF FirstStage, Kinds, Stages

LEMMA MergeType ==
    ASSUME NEW d \in State, NEW diff, NEW e \in State
    PROVE  Merge(d, diff, e) \in State
  BY DEF Merge, State

(* A subscriber that knew the old state knows the new one after the diff.  *)
LEMMA MergeDiff ==
    ASSUME NEW d \in State, NEW e \in State, NEW c
    PROVE  /\ Merge(d, ComputeDiff(d, e, c), e) = e
           /\ ComputeDiff(d, e, c) = {} => d = e
<1>1. "image" \notin ComputeDiff(d, e, c) => d.image = e.image
  BY DEF ComputeDiff, Keys
<1>2. {"scale", "mode"} \cap ComputeDiff(d, e, c) = {} => d.mode = e.mode
  BY DEF ComputeDiff, Keys
<1>3. e = [image |-> e.image, mode |-> e.mode] /\ d = [image |-> d.image, mode |-> d.mode]
  BY DEF State
<1>4. Merge(d, ComputeDiff(d, e, c), e) = [image |-> e.image, mode |-> e.mode]
  BY <1>1, <1>2 DEF Merge
<1> QED BY <1>1, <1>2, <1>3, <1>4

(* The sequence q without its element i.                                   *)
LEMMA AppliedCalls ==
    ASSUME MessagesOK, NEW i \in DOMAIN calls
    PROVE  [j \in 1 .. Len(calls) - 1 |-> IF j < i THEN calls[j] ELSE calls[j + 1]] \in Seq(Call)
<1>1. Len(calls) - 1 \in Nat
  BY DEF MessagesOK
<1>2. \A j \in 1 .. Len(calls) - 1 :
          (IF j < i THEN calls[j] ELSE calls[j + 1]) \in Call
  BY DEF MessagesOK
<1> QED BY <1>1, <1>2

-----------------------------------------------------------------------------
(* The types                                                               *)

LEMMA TypeInit == Init => TypeInv
<1> SUFFICES ASSUME Init PROVE TypeInv
  OBVIOUS
<1> USE DEF Init, InitWith
<1>1. DockerOK
  BY ConstantsAssumption DEF DockerOK
<1>2. EventsOK /\ CountersOK
  BY DEF EventsOK, CountersOK
<1>3. StoreOK
  BY DEF StoreOK
<1>4. MessagesOK
  BY NoMessageType DEF MessagesOK
<1>5. WorkersOK /\ AskKinds
  BY NoMessageType, NoDocType DEF WorkersOK, AskKinds, Stages
<1> QED BY <1>1, <1>2, <1>3, <1>4, <1>5 DEF TypeInv

LEMMA SendType ==
    ASSUME TypeInv, NEW h \in Handlers, NEW m \in Message, Send(h, m)
    PROVE  queues' \in [Handlers -> Seq(Message)]
  BY DEF TypeInv, MessagesOK, Send

LEMMA TellType ==
    ASSUME TypeInv, NEW s \in Services, NEW c \in BOOLEAN, Tell(s, c), UNCHANGED listening
    PROVE  EventsOK'
<1>1. [service |-> s, completed |-> c] \in Event
  BY DEF Event
<1> QED BY <1>1 DEF TypeInv, EventsOK, Tell

LEMMA SetStateType ==
    ASSUME TypeInv, NEW s \in DOMAIN docker, NEW d \in State, SetState(s, d), UNCHANGED listening
    PROVE  DockerOK' /\ EventsOK'
<1>1. s \in Services
  BY DEF TypeInv, DockerOK
<1>2. EventsOK'
  BY <1>1, TellType DEF SetState
<1> QED BY <1>2 DEF SetState, TypeInv, DockerOK

LEMMA EventServices ==
    ASSUME TypeInv
    PROVE  /\ \A i \in DOMAIN events : events[i].service \in Services
           /\ {events[i].service : i \in DOMAIN events} \subseteq Services
<1>1. \A i \in DOMAIN events : events[i] \in Event
  BY DEF TypeInv, EventsOK
<1> QED BY <1>1 DEF Event

(* Around the overseer.                                                    *)
LEMMA ClusterType ==
    ASSUME TypeInv, NEW s \in Services, Completed(s) \/ Deploy(s) \/ RemoveFromDocker(s)
    PROVE  TypeInv'
<1>1. StoreOK' /\ MessagesOK' /\ WorkersOK' /\ CountersOK' /\ AskKinds'
  <2>1. UNCHANGED <<calls, store, queues, locals, failures, crashes>>
    BY DEF Completed, Deploy, RemoveFromDocker, Environment, counters
  <2>2. inputs' \in Nat
    <3>1. inputs' = inputs \/ inputs' = inputs + 1
      BY DEF Completed, Deploy, RemoveFromDocker, Environment, counters
    <3> QED BY <3>1 DEF TypeInv, CountersOK
  <2> QED BY <2>1, <2>2 DEF store, locals, TypeInv, StoreOK, MessagesOK, WorkersOK, CountersOK,
                            AskKinds
<1>2. CASE Completed(s)
  <2>1. EventsOK'
    BY <1>2, TellType DEF Completed
  <2> QED BY <1>1, <1>2, <2>1 DEF Completed, TypeInv, DockerOK
<1>3. CASE Deploy(s)
  <2>1. PICK d \in State : SetState(s, d)
    BY <1>3 DEF Deploy
  <2>2. s \in DOMAIN docker /\ UNCHANGED listening
    BY <1>3 DEF Deploy, Environment
  <2> QED BY <1>1, <2>1, <2>2, SetStateType DEF TypeInv
<1>4. CASE RemoveFromDocker(s)
  BY <1>1, <1>4 DEF RemoveFromDocker, Environment, Without, TypeInv, DockerOK, EventsOK
<1> QED BY <1>2, <1>3, <1>4

LEMMA AskType ==
    ASSUME TypeInv, NEW s \in Services, AskMonitor(s) \/ AskUpdate(s)
    PROVE  TypeInv'
<1>1. DockerOK' /\ EventsOK' /\ StoreOK' /\ WorkersOK' /\ AskKinds'
  BY DEF AskMonitor, AskUpdate, Environment, store, locals,
         TypeInv, DockerOK, EventsOK, StoreOK, WorkersOK, AskKinds
<1>2. CountersOK' /\ UNCHANGED calls
  <2>1. PICK step : Environment(step)
    BY DEF AskMonitor, AskUpdate
  <2> QED BY <2>1 DEF Environment, TypeInv, CountersOK
<1>3. \E m \in Message : Send("rpc", m)
  <2>1. CASE AskMonitor(s)
    <3>1. PICK k \in {"monitor", "unmonitor"} : Send("rpc", AnyMessage(k, s))
      BY <2>1 DEF AskMonitor
    <3>2. AnyMessage(k, s) \in Message
      BY AnyMessageType DEF Kinds
    <3> QED BY <3>1, <3>2
  <2>2. CASE \E n \in Replicas : Send("rpc", [AnyMessage("scale", s) EXCEPT !.data.mode = n])
    <3>1. PICK n \in Replicas : Send("rpc", [AnyMessage("scale", s) EXCEPT !.data.mode = n])
      BY <2>2
    <3>2. AnyMessage("scale", s) \in Message
      BY AnyMessageType DEF Kinds
    <3>3. [AnyMessage("scale", s) EXCEPT !.data.mode = n] \in Message
      BY <3>2 DEF Message, State, Modes
    <3> QED BY <3>1, <3>3
  <2>3. CASE \E i \in Images : Send("rpc", [AnyMessage("upgrade", s) EXCEPT !.data.image = i])
    <3>1. PICK i \in Images : Send("rpc", [AnyMessage("upgrade", s) EXCEPT !.data.image = i])
      BY <2>3
    <3>2. AnyMessage("upgrade", s) \in Message
      BY AnyMessageType DEF Kinds
    <3>3. [AnyMessage("upgrade", s) EXCEPT !.data.image = i] \in Message
      BY <3>2 DEF Message, State
    <3> QED BY <3>1, <3>3
  <2> QED BY <2>1, <2>2, <2>3 DEF AskUpdate
<1>4. queues' \in [Handlers -> Seq(Message)]
  BY <1>3, SendType DEF Handlers
<1> QED BY <1>1, <1>2, <1>4 DEF TypeInv, MessagesOK

LEMMA ListenType ==
    ASSUME TypeInv, Listen
    PROVE  TypeInv'
<1> DEFINE e == Head(events)
           m == [AnyMessage("updated", e.service) EXCEPT
                    !.data = docker[e.service], !.completed = e.completed]
<1>1. e \in Event /\ Tail(events) \in Seq(Event)
  BY DEF Listen, TypeInv, EventsOK
<1>2. e.service \in Services /\ e.completed \in BOOLEAN
  BY <1>1 DEF Event
<1>3. DockerOK' /\ StoreOK' /\ WorkersOK' /\ CountersOK' /\ AskKinds' /\ UNCHANGED calls
  BY DEF Listen, store, locals, counters, TypeInv, DockerOK, StoreOK, WorkersOK, CountersOK, AskKinds
<1>4. EventsOK'
  <2>1. \/ events' = Tail(events) /\ UNCHANGED <<listening, missed>>
        \/ /\ events' = << >> /\ listening' = FALSE
           /\ missed' = missed \cup {events[i].service : i \in DOMAIN events}
    BY DEF Listen
  <2>2. events' \in Seq(Event)
    <3>1. << >> \in Seq(Event)
      OBVIOUS
    <3> QED BY <1>1, <2>1, <3>1, Zenon
  <2>3. listening' \in BOOLEAN /\ missed' \subseteq Services
    BY <2>1, EventServices DEF TypeInv, EventsOK
  <2> QED BY <2>2, <2>3 DEF EventsOK
<1>5. queues' \in [Handlers -> Seq(Message)]
  <2>1. CASE e.service \in DOMAIN docker /\ Send("updated", m)
    <3>1. AnyMessage("updated", e.service) \in Message /\ docker[e.service] \in State
      BY <1>2, <2>1, AnyMessageType DEF Kinds, TypeInv, DockerOK
    <3>2. m \in Message
      BY <1>2, <3>1 DEF Message
    <3> HIDE DEF m
    <3> QED BY <2>1, <3>2, SendType DEF Handlers
  <2>2. CASE UNCHANGED queues
    BY <2>2 DEF TypeInv, MessagesOK
  <2> QED BY <2>1, <2>2 DEF Listen
<1> QED BY <1>3, <1>4, <1>5 DEF TypeInv, MessagesOK

LEMMA RestartScalerType ==
    ASSUME TypeInv, RestartScaler
    PROVE  TypeInv'
<1>1. EventsOK'
  BY EventServices DEF RestartScaler, TypeInv, EventsOK
<1> QED BY <1>1 DEF RestartScaler, store, locals, TypeInv, DockerOK, StoreOK, MessagesOK,
                    WorkersOK, CountersOK, AskKinds

LEMMA UpdateType ==
    ASSUME TypeInv, Update
    PROVE  TypeInv'
<1>1. PICK i \in DOMAIN calls :
         LET s == calls[i].service
             d == calls[i].data
         IN /\ calls' = [j \in 1 .. Len(calls) - 1 |->
                            IF j < i THEN calls[j] ELSE calls[j + 1]]
            /\ \/ UNCHANGED <<docker, updating, events, missed>>
               \/ /\ s \in DOMAIN docker
                  /\ \/ SetState(s, [docker[s] EXCEPT !.image = d.image])
                     \/ SetState(s, [docker[s] EXCEPT !.mode = d.mode])
  BY DEF Update
<1>2. calls' \in Seq(Call) /\ UNCHANGED <<listening, store, queues, locals, counters>>
  BY <1>1, AppliedCalls DEF Update, TypeInv
<1>3. DockerOK' /\ EventsOK'
  <2> DEFINE s == calls[i].service
             d == calls[i].data
  <2>1. d \in State
    <3>1. calls[i] \in Call
      BY DEF TypeInv, MessagesOK
    <3> QED BY <3>1 DEF Call
  <2>2. CASE UNCHANGED <<docker, updating, events, missed>>
    BY <1>2, <2>2 DEF TypeInv, DockerOK, EventsOK
  <2>3. CASE s \in DOMAIN docker
    <3>1. docker[s] \in State
      BY <2>3 DEF TypeInv, DockerOK
    <3>2. [docker[s] EXCEPT !.image = d.image] \in State /\ [docker[s] EXCEPT !.mode = d.mode] \in State
      BY <2>1, <3>1 DEF State
    <3> QED BY <1>1, <1>2, <2>2, <2>3, <3>2, SetStateType
  <2> QED BY <1>1, <2>2, <2>3
<1> QED BY <1>2, <1>3 DEF store, locals, counters, TypeInv, StoreOK, MessagesOK, WorkersOK,
                          CountersOK, AskKinds

(* The workers.                                                            *)
LEMMA GotoFacts ==
    ASSUME TypeInv, NEW w \in Workers, NEW st, Goto(w, st)
    PROVE  stage'[w] = st
  BY DEF Goto, TypeInv, WorkersOK

LEMMA FinishFacts ==
    ASSUME TypeInv, NEW w \in Workers, Finish(w)
    PROVE  /\ stage'[w] = "idle" /\ msg'[w] = NoMessage /\ msg'[w].kind = "boot"
           /\ doc'[w] = NoDoc /\ todo'[w] = << >>
  BY NoMessageType DEF Finish, Goto, TypeInv, WorkersOK

LEMMA GotoType ==
    ASSUME TypeInv, NEW w \in Workers, NEW st \in Stages \ {"ask"}, Goto(w, st),
           UNCHANGED <<msg, doc, todo>>
    PROVE  WorkersOK' /\ AskKinds'
  BY DEF TypeInv, WorkersOK, AskKinds, Goto

LEMMA TakesDocType ==
    ASSUME TypeInv, NEW w \in Workers, NEW st \in Stages \ {"ask"}, Goto(w, st),
           NEW d \in Doc, doc' = [doc EXCEPT ![w] = d], UNCHANGED <<msg, todo>>
    PROVE  WorkersOK' /\ AskKinds'
  BY DEF TypeInv, WorkersOK, AskKinds, Goto

LEMMA FinishType ==
    ASSUME TypeInv, NEW w \in Workers, Finish(w)
    PROVE  WorkersOK' /\ AskKinds'
<1>1. /\ stage' = [stage EXCEPT ![w] = "idle"]
      /\ msg' = [msg EXCEPT ![w] = NoMessage]
      /\ doc' = [doc EXCEPT ![w] = NoDoc]
      /\ todo' = [todo EXCEPT ![w] = << >>]
  BY DEF Finish, Goto
<1>2. stage' \in [Workers -> Stages] /\ msg' \in [Workers -> Message] /\ doc' \in [Workers -> Doc]
  BY <1>1, NoMessageType, NoDocType DEF TypeInv, WorkersOK, Stages
<1>3. /\ DOMAIN todo' = Workers
      /\ \A v \in Workers :
            DOMAIN todo'[v] \subseteq Services /\ todo'[v] \in [DOMAIN todo'[v] -> State]
  BY <1>1 DEF TypeInv, WorkersOK
<1>4. AskKinds'
  BY <1>1 DEF TypeInv, WorkersOK, AskKinds
<1> QED BY <1>2, <1>3, <1>4 DEF WorkersOK

LEMMA FailType ==
    ASSUME TypeInv, NEW w \in Workers, Fail(w), UNCHANGED <<inputs, crashes>>
    PROVE  WorkersOK' /\ AskKinds' /\ CountersOK'
  BY FinishType DEF Fail, TypeInv, CountersOK

LEMMA ReceiveType ==
    ASSUME TypeInv, NEW w \in Workers, NEW h \in Handlers, Receive(w, h)
    PROVE  TypeInv'
<1>1. /\ queues[h] \in Seq(Message) /\ queues[h] # << >>
      /\ queues' = [queues EXCEPT ![h] = Tail(@)]
      /\ msg' = [msg EXCEPT ![w] = Head(queues[h])]
      /\ Goto(w, FirstStage(Head(queues[h]).kind))
      /\ UNCHANGED <<cluster, store, doc, todo, counters>>
  BY DEF Receive, TypeInv, MessagesOK
<1>2. Head(queues[h]) \in Message /\ Tail(queues[h]) \in Seq(Message)
  BY <1>1
<1>3. /\ FirstStage(Head(queues[h]).kind) \in Stages
      /\ FirstStage(Head(queues[h]).kind) = "ask" => Head(queues[h]).kind \in {"scale", "upgrade"}
  BY <1>2, FirstStageType DEF Message
<1>4. WorkersOK' /\ AskKinds'
  BY <1>1, <1>2, <1>3 DEF TypeInv, WorkersOK, AskKinds, Goto
<1>5. MessagesOK'
  BY <1>1, <1>2 DEF TypeInv, MessagesOK, cluster
<1> QED BY <1>1, <1>4, <1>5
        DEF TypeInv, cluster, store, counters, DockerOK, EventsOK, StoreOK, CountersOK

LEMMA CrashType ==
    ASSUME TypeInv, NEW w \in Workers, Crash(w)
    PROVE  TypeInv'
<1>1. msg[w] \in Message
  BY DEF TypeInv, WorkersOK
<1>2. /\ FirstStage(msg[w].kind) \in Stages
      /\ FirstStage(msg[w].kind) = "ask" => msg[w].kind \in {"scale", "upgrade"}
  BY <1>1, FirstStageType DEF Message
<1>3. WorkersOK' /\ AskKinds'
  BY <1>2, NoDocType DEF Crash, Goto, TypeInv, WorkersOK, AskKinds
<1>4. MessagesOK'
  <2>1. queues' \in [Handlers -> Seq(Message)]
    BY NoMessageType, SendType DEF Crash, Handlers, TypeInv, MessagesOK
  <2> QED BY <2>1 DEF Crash, cluster, TypeInv, MessagesOK
<1> QED BY <1>3, <1>4
        DEF Crash, TypeInv, cluster, store, DockerOK, EventsOK, StoreOK, CountersOK

LEMMA WorkerKeepsType ==
    ASSUME TypeInv, StoreOK', WorkersOK', AskKinds', CountersOK', UNCHANGED <<cluster, queues>>
    PROVE  TypeInv'
  BY DEF TypeInv, cluster, DockerOK, EventsOK, MessagesOK

LEMMA FetchType ==
    ASSUME TypeInv, NEW w \in Workers, FetchServices(w) \/ FetchNext(w)
    PROVE  TypeInv'
<1>1. UNCHANGED <<cluster, queues, store>>
  BY DEF FetchServices, FetchNext
<1>2. StoreOK'
  BY <1>1 DEF store, TypeInv, StoreOK
<1>3. CountersOK'
  <2>1. failures' \in {failures, failures + 1} /\ UNCHANGED <<inputs, crashes>>
    BY DEF FetchServices, FetchNext, counters
  <2> QED BY <2>1 DEF TypeInv, CountersOK
<1>4. WorkersOK' /\ AskKinds'
  <2>1. CASE Finish(w)
    BY <2>1, FinishType
  <2>2. CASE FetchServices(w) /\ ~Finish(w)
    BY <2>2 DEF FetchServices, Goto, TypeInv, DockerOK, WorkersOK, AskKinds, Stages
  <2>3. CASE FetchNext(w) /\ ~Finish(w)
    <3>1. PICK s \in DOMAIN todo[w] :
             /\ todo' = [todo EXCEPT ![w] = Without(@, s)] /\ UNCHANGED doc
             /\ \/ msg' = [msg EXCEPT ![w].service = s] /\ Goto(w, "get")
                \/ UNCHANGED <<stage, msg>>
      BY <2>3 DEF FetchNext
    <3>2. /\ DOMAIN todo' = Workers
          /\ \A v \in Workers :
                DOMAIN todo'[v] \subseteq Services /\ todo'[v] \in [DOMAIN todo'[v] -> State]
      BY <3>1 DEF Without, TypeInv, WorkersOK
    <3>3. CASE UNCHANGED <<stage, msg>>
      BY <3>1, <3>2, <3>3 DEF TypeInv, WorkersOK, AskKinds
    <3>4. CASE msg' = [msg EXCEPT ![w].service = s] /\ Goto(w, "get")
      <4>1. s \in Services /\ msg[w] \in Message
        BY DEF TypeInv, WorkersOK
      <4>2. [msg[w] EXCEPT !.service = s] \in Message
        BY <4>1 DEF Message
      <4>3. msg' \in [Workers -> Message]
        BY <3>4, <4>2 DEF TypeInv, WorkersOK
      <4>4. stage' = [stage EXCEPT ![w] = "get"] /\ stage' \in [Workers -> Stages]
        BY <3>4 DEF Goto, TypeInv, WorkersOK, Stages
      <4>5. AskKinds'
        BY <3>4, <4>4 DEF TypeInv, WorkersOK, AskKinds
      <4> QED BY <3>1, <3>2, <4>3, <4>4, <4>5 DEF TypeInv, WorkersOK
    <3> QED BY <3>1, <3>3, <3>4
  <2> QED BY <2>1, <2>2, <2>3
<1> QED BY <1>1, <1>2, <1>3, <1>4, WorkerKeepsType

LEMMA ReadType ==
    ASSUME TypeInv, NEW w \in Workers, GetService(w) \/ ReadUpdated(w)
    PROVE  TypeInv'
<1> DEFINE s == msg[w].service
<1>1. UNCHANGED <<cluster, queues, store, inputs, crashes>>
  BY DEF GetService, ReadUpdated, counters
<1>2. StoreOK'
  BY <1>1 DEF store, TypeInv, StoreOK
<1>3. CASE Fail(w)
  BY <1>1, <1>2, <1>3, FailType, WorkerKeepsType
<1>4. CASE ~Fail(w)
  <2>1. CountersOK'
    BY <1>1, <1>4 DEF GetService, ReadUpdated, counters, TypeInv, CountersOK
  <2>2. \/ Finish(w)
        \/ \E d \in Doc, st \in {"store", "save"} :
              doc' = [doc EXCEPT ![w] = d] /\ Goto(w, st) /\ UNCHANGED <<msg, todo>>
    <3>1. s \in DOMAIN docker => NewDoc(docker[s], 0) \in Doc
      BY NewDocType DEF TypeInv, DockerOK
    <3>2. s \in DOMAIN docs => docs[s] \in Doc
      BY DEF TypeInv, StoreOK
    <3> QED BY <1>4, <3>1, <3>2 DEF GetService, ReadUpdated
  <2>3. WorkersOK' /\ AskKinds'
    BY <2>2, FinishType, TakesDocType DEF Stages
  <2> QED BY <1>1, <1>2, <2>1, <2>3, WorkerKeepsType
<1> QED BY <1>3, <1>4

LEMMA CollectionType ==
    ASSUME TypeInv, NEW w \in Workers,
           StoreMonitored(w) \/ Unmonitor(w) \/ SaveServiceState(w) \/ CheckNewScaleConfig(w)
    PROVE  TypeInv'
<1> DEFINE s == msg[w].service
<1>1. UNCHANGED <<cluster, queues, view, inputs, crashes>>
  BY DEF StoreMonitored, Unmonitor, SaveServiceState, CheckNewScaleConfig, counters
<1>2. s \in Services /\ doc[w] \in Doc /\ msg[w].data \in State
  BY DEF TypeInv, WorkersOK, Message
<1>3. \A t \in DOMAIN docs : docs[t] \in Doc
  BY DEF TypeInv, StoreOK
<1>4. CountersOK'
  <2>1. failures' \in {failures, failures + 1}
    BY DEF StoreMonitored, Unmonitor, SaveServiceState, CheckNewScaleConfig, Fail, counters
  <2> QED BY <1>1, <2>1 DEF TypeInv, CountersOK
<1>5. WorkersOK' /\ AskKinds'
  <2>1. \/ Finish(w)
        \/ \E st \in {"announce", "dispatch", "propagate"} :
              Goto(w, st) /\ UNCHANGED <<msg, doc, todo>>
    BY DEF StoreMonitored, Unmonitor, SaveServiceState, CheckNewScaleConfig, Fail
  <2> QED BY <2>1, FinishType, GotoType DEF Stages
<1>6. DOMAIN docs' \subseteq Services /\ docs' \in [DOMAIN docs' -> Doc]
  <2>1. CASE StoreMonitored(w)
    <3>1. \E n \in Nat : docs' = Store(docs, s, [doc[w] EXCEPT !.id = n])
      BY <1>3, <2>1 DEF StoreMonitored, TypeInv, StoreOK, Doc
    <3>2. \A n \in Nat : [doc[w] EXCEPT !.id = n] \in Doc
      BY <1>2 DEF Doc
    <3> QED BY <1>2, <3>1, <3>2 DEF Store, TypeInv, StoreOK
  <2>2. CASE Unmonitor(w)
    BY <2>2 DEF Unmonitor, Without, TypeInv, StoreOK
  <2>3. CASE SaveServiceState(w)
    <3>1. \A t \in DOMAIN docs : [docs[t] EXCEPT !.data = msg[w].data] \in Doc
      BY <1>2, <1>3 DEF Doc
    <3>2. docs' = Saved(w)
      BY <2>3 DEF SaveServiceState
    <3> QED BY <3>1, <3>2 DEF Saved, TypeInv, StoreOK
  <2>4. CASE CheckNewScaleConfig(w)
    <3>1. NewConfig(msg[w]) \in Configs
      BY <1>2, ConfigType DEF NewConfig
    <3>2. \A t \in DOMAIN docs : [docs[t] EXCEPT !.config = NewConfig(msg[w])] \in Doc
      BY <1>3, <3>1 DEF Doc
    <3>3. CASE UNCHANGED docs
      BY <3>3 DEF TypeInv, StoreOK
    <3>4. CASE docs' = [t \in DOMAIN docs |->
                          IF t = s THEN [docs[t] EXCEPT !.config = NewConfig(msg[w])] ELSE docs[t]]
      BY <3>2, <3>4 DEF TypeInv, StoreOK
    <3> QED BY <2>4, <3>3, <3>4 DEF CheckNewScaleConfig
  <2> QED BY <2>1, <2>2, <2>3, <2>4
<1>7. nextId' \in Nat
  BY DEF StoreMonitored, Unmonitor, SaveServiceState, CheckNewScaleConfig, TypeInv, StoreOK
<1>8. StoreOK'
  BY <1>1, <1>6, <1>7 DEF TypeInv, StoreOK
<1> QED BY <1>1, <1>4, <1>5, <1>8, WorkerKeepsType

LEMMA AnnounceType ==
    ASSUME TypeInv, NEW w \in Workers,
           AnnounceMonitored(w) \/ Dispatch(w) \/ PropagateConfig(w)
    PROVE  TypeInv'
<1> DEFINE s == msg[w].service
           V == [data: State, config: Configs]
<1>1. UNCHANGED <<cluster, docs, nextId, counters>>
  BY DEF AnnounceMonitored, Dispatch, PropagateConfig
<1>2. /\ s \in Services /\ msg[w].data \in State
      /\ doc[w].data \in State /\ doc[w].config \in Configs
  BY DEF TypeInv, WorkersOK, Message, Doc
<1>3. WorkersOK' /\ AskKinds'
  <2>1. Finish(w) \/ (Goto(w, "next") /\ UNCHANGED <<msg, doc, todo>>)
    BY DEF AnnounceMonitored, Dispatch, PropagateConfig
  <2> QED BY <2>1, FinishType, GotoType DEF Stages
<1>4. queues' \in [Handlers -> Seq(Message)]
  <2>1. CASE UNCHANGED queues
    BY <2>1 DEF TypeInv, MessagesOK
  <2>2. CASE Send("own", [AnyMessage("own", s) EXCEPT
                             !.data = msg[w].data, !.diff = Diff(w), !.config = doc[w].config])
    <3> DEFINE m == [AnyMessage("own", s) EXCEPT
                        !.data = msg[w].data, !.diff = Diff(w), !.config = doc[w].config]
    <3>1. AnyMessage("own", s) \in Message
      BY <1>2, AnyMessageType DEF Kinds
    <3>2. Diff(w) \in SUBSET Keys
      BY DEF Diff, ComputeDiff
    <3>3. m \in Message
      BY <1>2, <3>1, <3>2 DEF Message
    <3> HIDE DEF m
    <3>4. Send("own", m)
      BY <2>2 DEF m
    <3> QED BY <3>3, <3>4, SendType DEF Handlers
  <2> QED BY <2>1, <2>2 DEF AnnounceMonitored, Dispatch, PropagateConfig
<1>5. DOMAIN view' \subseteq Services /\ view' \in [DOMAIN view' -> V]
  <2>1. \A t \in DOMAIN view : view[t] \in V
    BY DEF TypeInv, StoreOK
  <2>2. CASE AnnounceMonitored(w)
    <3>1. view' = Store(view, s, [data |-> doc[w].data, config |-> doc[w].config])
      BY <2>2 DEF AnnounceMonitored
    <3> QED BY <1>2, <2>1, <3>1 DEF Store, TypeInv, StoreOK
  <2>3. CASE Dispatch(w)
    <3>1. \A t \in DOMAIN view :
             [view[t] EXCEPT !.data = Merge(view[t].data, Diff(w), msg[w].data)] \in V
      BY <1>2, <2>1, MergeType
    <3>2. view' = [t \in DOMAIN view |->
                      IF t = s
                         THEN [view[t] EXCEPT !.data = Merge(view[t].data, Diff(w), msg[w].data)]
                         ELSE view[t]]
      BY <2>3 DEF Dispatch
    <3> QED BY <2>1, <3>1, <3>2 DEF TypeInv, StoreOK
  <2>4. CASE PropagateConfig(w)
    <3>1. NewConfig(msg[w]) \in Configs
      BY <1>2, ConfigType DEF NewConfig
    <3>2. \A t \in DOMAIN view : [view[t] EXCEPT !.config = NewConfig(msg[w])] \in V
      BY <2>1, <3>1
    <3> QED BY <2>1, <2>4, <3>2 DEF PropagateConfig, TypeInv, StoreOK
  <2> QED BY <2>2, <2>3, <2>4
<1> QED BY <1>1, <1>3, <1>4, <1>5
        DEF TypeInv, cluster, counters, DockerOK, EventsOK, StoreOK, MessagesOK, CountersOK

LEMMA AskedType ==
    ASSUME TypeInv, NEW w \in Workers, UpdateService(w)
    PROVE  TypeInv'
<1> DEFINE m == msg[w]
           c == [kind |-> m.kind, service |-> m.service, data |-> m.data]
<1>1. m \in Message /\ m.kind \in {"scale", "upgrade"}
  BY DEF UpdateService, TypeInv, WorkersOK, AskKinds
<1>2. c \in Call
  BY <1>1 DEF Message, Call
<1> HIDE DEF c
<1>3. calls' = calls \/ calls' = Append(calls, c)
  BY DEF UpdateService, c
<1>4. calls' \in Seq(Call)
  BY <1>2, <1>3 DEF TypeInv, MessagesOK
<1>5. WorkersOK' /\ AskKinds'
  BY FinishType DEF UpdateService
<1> QED BY <1>4, <1>5
        DEF UpdateService, store, counters, TypeInv, DockerOK, EventsOK, StoreOK, MessagesOK,
            CountersOK

LEMMA TypeStep == TypeInv /\ [Next]_vars => TypeInv'
<1> SUFFICES ASSUME TypeInv, [Next]_vars PROVE TypeInv'
  OBVIOUS
<1>1. ASSUME NEW w \in Workers, Work(w) PROVE TypeInv'
  BY <1>1, FetchType, ReadType, CollectionType, AnnounceType, AskedType DEF Work
<1>2. CASE UNCHANGED vars
  BY <1>2 DEF vars, cluster, store, locals, counters, TypeInv, DockerOK, EventsOK, StoreOK,
              MessagesOK, WorkersOK, CountersOK, AskKinds
<1> QED BY <1>1, <1>2, ClusterType, AskType, ListenType, RestartScalerType, UpdateType,
           ReceiveType, CrashType DEF Next, Quiet

LEMMA TypeInvImplies == TypeInv => TypeOK
  BY DEF TypeInv, DockerOK, EventsOK, StoreOK, MessagesOK, WorkersOK, CountersOK, TypeOK

(* Whatever the workers, the messages, the failures and the crashes, the   *)
(* collection, the messages and the handlers' variables keep their types:  *)
(* only orders reach docker, and only states that docker can run.          *)
THEOREM TypeCorrect == Spec => []TypeOK
  BY TypeInit, TypeStep, TypeInvImplies, PTL DEF Spec

-----------------------------------------------------------------------------
(* A single worker                                                         *)

(* The stages of the handler of a message, or of fetch_services.           *)
StagesOf(k) == CASE k = "boot" -> {"idle", "boot", "next", "get", "store", "announce"}
                 [] k = "monitor" -> {"get", "store", "announce"}
                 [] k = "unmonitor" -> {"forget"}
                 [] k \in {"scale", "upgrade"} -> {"ask"}
                 [] k = "updated" -> {"read", "save", "dispatch"}
                 [] k = "own" -> {"check", "propagate"}

(* While the only worker handles a message nobody changes the document it  *)
(* read or stored.                                                         *)
SoloHandler(w) ==
    LET s == msg[w].service
    IN /\ stage[w] \in StagesOf(msg[w].kind)
       /\ stage[w] = "save" => s \in DOMAIN docs /\ doc[w] = docs[s]
       /\ stage[w] = "dispatch" => s \in DOMAIN docs /\ docs[s].data = msg[w].data
       /\ stage[w] = "announce" => /\ docs[s].data = doc[w].data
                                   /\ docs[s].config = doc[w].config
       /\ stage[w] = "propagate" /\ s \in DOMAIN docs => docs[s].config = NewConfig(msg[w])

(* The updates have a queue of their own.                                  *)
UpdatesApart ==
    \A h \in Handlers : \A i \in DOMAIN queues[h] :
        queues[h][i].kind = "updated" <=> h = "updated"

SoloInv == TypeInv /\ UpdatesApart /\ \A w \in Workers : SoloHandler(w)

(* Of a service without an event under way, the last update that waits     *)
(* says what docker runs; without an update either, the one being handled  *)
(* does, else the document, and what monitor is about to store does too.   *)
LastKnows(s) ==
    LET q == queues["updated"]
    IN \A i \in DOMAIN q :
          q[i].service = s /\ (\A j \in DOMAIN q : j > i => q[j].service # s) =>
              q[i].data = docker[s]

HandlerSays(w, s) ==
    /\ stage[w] = "store" /\ msg[w].service = s => doc[w].data = docker[s]
    /\ IF msg[w].kind = "updated" /\ msg[w].service = s
          THEN msg[w].data = docker[s]
          ELSE s \in DOMAIN docs => docs[s].data = docker[s]

HandlerKnows(w, s) ==
    (\A i \in DOMAIN queues["updated"] : queues["updated"][i].service # s) => HandlerSays(w, s)

Heard(s) == \A i \in DOMAIN events : events[i].service # s

DockerKnown(w) ==
    \A s \in DOMAIN docker \ missed : Heard(s) => LastKnows(s) /\ HandlerKnows(w, s)

(* Unless it is being announced, a document is what the subscribers know.  *)
Follows(w, s) ==
    LET here(st) == stage[w] = st /\ msg[w].service = s
    IN here("announce") \/
          /\ s \in DOMAIN view
          /\ view[s].data = IF here("dispatch") THEN doc[w].data ELSE docs[s].data
          /\ here("propagate") \/ view[s].config = docs[s].config

SubscribersFollow(w) == crashes = 0 => \A s \in DOMAIN docs : Follows(w, s)

LEMMA SoloFacts ==
    ASSUME SoloInv, NEW w, Workers = {w}
    PROVE  /\ w \in Workers /\ TypeInv /\ SoloHandler(w) /\ UpdatesApart
           /\ msg[w] \in Message /\ doc[w] \in Doc
  BY DEF SoloInv, TypeInv, WorkersOK

(* The handler of a message, from its stage.                               *)
LEMMA KindOfStage ==
    ASSUME SoloInv, NEW w, Workers = {w}
    PROVE  /\ stage[w] \in {"idle", "boot", "next"} => msg[w].kind = "boot"
           /\ stage[w] \in {"get", "store", "announce"} => msg[w].kind \in {"boot", "monitor"}
           /\ stage[w] = "forget" => msg[w].kind = "unmonitor"
           /\ stage[w] = "ask" => msg[w].kind \in {"scale", "upgrade"}
           /\ stage[w] \in {"read", "save", "dispatch"} <=> msg[w].kind = "updated"
           /\ stage[w] \in {"check", "propagate"} <=> msg[w].kind = "own"
<1>1. stage[w] \in StagesOf(msg[w].kind) /\ msg[w].kind \in Kinds
  BY SoloFacts DEF SoloHandler, Message
<1> QED BY <1>1 DEF StagesOf, Kinds

LEMMA TailFacts ==
    ASSUME NEW S, NEW q \in Seq(S), q # << >>
    PROVE  /\ 1 \in DOMAIN q /\ Head(q) = q[1]
           /\ DOMAIN q = 1 .. Len(q) /\ Len(q) \in Nat
           /\ DOMAIN Tail(q) = 1 .. Len(q) - 1
           /\ \A i \in DOMAIN Tail(q) : i + 1 \in DOMAIN q /\ Tail(q)[i] = q[i + 1]
<1>1. Len(q) \in Nat /\ Len(q) > 0 /\ DOMAIN q = 1 .. Len(q) /\ Head(q) = q[1]
  OBVIOUS
<1>2. Tail(q) \in Seq(S) /\ Len(Tail(q)) = Len(q) - 1
  OBVIOUS
<1>3. DOMAIN Tail(q) = 1 .. Len(q) - 1
  BY <1>2
<1>4. \A i \in 1 .. Len(q) - 1 : Tail(q)[i] = q[i + 1]
  OBVIOUS
<1> QED BY <1>1, <1>3, <1>4

LEMMA AppendFacts ==
    ASSUME NEW S, NEW q \in Seq(S), NEW m
    PROVE  /\ DOMAIN q = 1 .. Len(q) /\ Len(q) \in Nat
           /\ DOMAIN Append(q, m) = 1 .. Len(q) + 1
           /\ Append(q, m)[Len(q) + 1] = m
           /\ \A i \in DOMAIN q : i \in DOMAIN Append(q, m) /\ Append(q, m)[i] = q[i]
           /\ \A i \in DOMAIN Append(q, m) : i \in DOMAIN q \/ i = Len(q) + 1
  OBVIOUS

(* The queues that the handlers read from.                                 *)
LEMMA SendApart ==
    ASSUME TypeInv, UpdatesApart, NEW h \in Handlers, NEW m, Send(h, m),
           m.kind = "updated" <=> h = "updated"
    PROVE  UpdatesApart'
<1>1. queues' = [queues EXCEPT ![h] = Append(@, m)]
  BY DEF Send
<1>2. \A g \in Handlers : queues[g] \in Seq(Message)
  BY DEF TypeInv, MessagesOK
<1>3. ASSUME NEW g \in Handlers, NEW i \in DOMAIN queues'[g]
      PROVE  queues'[g][i].kind = "updated" <=> g = "updated"
  <2>1. CASE g # h
    BY <1>1, <1>3, <2>1 DEF UpdatesApart, TypeInv, MessagesOK
  <2>2. CASE g = h
    <3>1. queues'[g] = Append(queues[h], m)
      BY <1>1, <2>2 DEF TypeInv, MessagesOK
    <3>2. \/ i \in DOMAIN queues[h] /\ queues'[g][i] = queues[h][i]
          \/ queues'[g][i] = m
      BY <1>2, <1>3, <3>1, AppendFacts
    <3> QED BY <2>2, <3>2 DEF UpdatesApart
  <2> QED BY <2>1, <2>2
<1> QED BY <1>3 DEF UpdatesApart

LEMMA ApartStep ==
    ASSUME NEW w, Workers = {w}
    PROVE  SoloInv /\ Next => UpdatesApart'
<1> SUFFICES ASSUME SoloInv, Next PROVE UpdatesApart'
  OBVIOUS
<1> USE SoloFacts
<1>1. CASE UNCHANGED queues
  BY <1>1 DEF UpdatesApart
<1>2. ASSUME NEW s \in Services, AskMonitor(s) \/ AskUpdate(s) PROVE UpdatesApart'
  <2>1. ASSUME NEW m, Send("rpc", m), m.kind # "updated" PROVE UpdatesApart'
    BY <2>1, SendApart DEF Handlers
  <2>2. \A k : AnyMessage(k, s).kind = k
    BY DEF AnyMessage
  <2>3. CASE AskMonitor(s)
    BY <2>1, <2>2, <2>3 DEF AskMonitor
  <2>4. CASE \E n \in Replicas : Send("rpc", [AnyMessage("scale", s) EXCEPT !.data.mode = n])
    <3> DEFINE m(n) == [AnyMessage("scale", s) EXCEPT !.data.mode = n]
    <3>1. PICK n \in Replicas : Send("rpc", m(n))
      BY <2>4
    <3>2. m(n).kind = "scale"
      BY DEF AnyMessage
    <3> HIDE DEF m
    <3> QED BY <2>1, <3>1, <3>2
  <2>5. CASE \E i \in Images : Send("rpc", [AnyMessage("upgrade", s) EXCEPT !.data.image = i])
    <3> DEFINE m(i) == [AnyMessage("upgrade", s) EXCEPT !.data.image = i]
    <3>1. PICK i \in Images : Send("rpc", m(i))
      BY <2>5
    <3>2. m(i).kind = "upgrade"
      BY DEF AnyMessage
    <3> HIDE DEF m
    <3> QED BY <2>1, <3>1, <3>2
  <2> QED BY <1>2, <2>3, <2>4, <2>5 DEF AskUpdate
<1>3. CASE Listen
  <2> DEFINE e == Head(events)
             m == [AnyMessage("updated", e.service) EXCEPT
                      !.data = docker[e.service], !.completed = e.completed]
  <2>1. m.kind = "updated" /\ (UNCHANGED queues \/ Send("updated", m))
    BY <1>3 DEF Listen, AnyMessage
  <2> HIDE DEF m
  <2> QED BY <1>1, <2>1, SendApart DEF Handlers
<1>4. ASSUME NEW h \in Handlers, Receive(w, h) PROVE UpdatesApart'
  <2>1. /\ queues[h] \in Seq(Message) /\ queues[h] # << >>
        /\ queues' = [queues EXCEPT ![h] = Tail(@)]
    BY <1>4 DEF Receive, TypeInv, MessagesOK
  <2>2. ASSUME NEW g \in Handlers, NEW i \in DOMAIN queues'[g]
        PROVE  \E j \in DOMAIN queues[g] : queues'[g][i] = queues[g][j]
    <3>1. CASE g # h
      BY <2>1, <2>2, <3>1 DEF TypeInv, MessagesOK
    <3>2. CASE g = h
      <4>1. queues'[g] = Tail(queues[h])
        BY <2>1, <3>2 DEF TypeInv, MessagesOK
      <4>2. i + 1 \in DOMAIN queues[h] /\ queues'[g][i] = queues[h][i + 1]
        BY <2>1, <2>2, <4>1, TailFacts
      <4> QED BY <3>2, <4>2
    <3> QED BY <3>1, <3>2
  <2> QED BY <2>2 DEF UpdatesApart
<1>5. CASE Crash(w)
  BY <1>1, <1>5, SendApart, NoMessageType DEF Crash, Handlers
<1>6. CASE Dispatch(w)
  <2> DEFINE m == [AnyMessage("own", msg[w].service) EXCEPT
                      !.data = msg[w].data, !.diff = Diff(w), !.config = doc[w].config]
  <2>1. m.kind = "own" /\ (UNCHANGED queues \/ Send("own", m))
    BY <1>6 DEF Dispatch, AnyMessage
  <2> HIDE DEF m
  <2> QED BY <1>1, <2>1, SendApart DEF Handlers
<1> QED
  BY <1>1, <1>2, <1>3, <1>4, <1>5, <1>6
  DEF Next, Work, Completed, Deploy, RemoveFromDocker, RestartScaler, Update, Quiet, vars,
      FetchServices, FetchNext, GetService, StoreMonitored, AnnounceMonitored, Unmonitor,
      UpdateService, ReadUpdated, SaveServiceState, CheckNewScaleConfig, PropagateConfig

(* The handlers.                                                           *)
LEMMA SoloFinish ==
    ASSUME SoloInv, NEW w, Workers = {w}, Finish(w)
    PROVE  SoloHandler(w)'
<1>1. stage'[w] = "idle" /\ msg'[w].kind = "boot"
  BY SoloFacts, FinishFacts
<1> QED BY <1>1 DEF SoloHandler, StagesOf

LEMMA HandlerStep ==
    ASSUME NEW w, Workers = {w}
    PROVE  SoloInv /\ Next => SoloHandler(w)'
<1> SUFFICES ASSUME SoloInv, Next PROVE SoloHandler(w)'
  OBVIOUS
<1> DEFINE s == msg[w].service
<1> USE SoloFacts, KindOfStage
<1>1. CASE UNCHANGED <<docs, stage, msg, doc>>
  BY <1>1 DEF SoloHandler
<1>2. CASE Finish(w)
  BY <1>2, SoloFinish
<1>3. ASSUME stage'[w] \in {"boot", "next", "get", "store", "forget", "ask", "read", "check"},
             stage'[w] \in StagesOf(msg'[w].kind)
      PROVE  SoloHandler(w)'
  BY <1>3 DEF SoloHandler
<1>4. \A k \in Kinds : FirstStage(k) \in StagesOf(k) /\
          FirstStage(k) \in {"boot", "next", "get", "store", "forget", "ask", "read", "check"}
  BY DEF FirstStage, StagesOf, Kinds
<1>5. ASSUME NEW h \in Handlers, Receive(w, h) PROVE SoloHandler(w)'
  <2>1. Head(queues[h]).kind \in Kinds
    <3>1. queues[h] \in Seq(Message) /\ queues[h] # << >>
      BY <1>5 DEF Receive, TypeInv, MessagesOK
    <3>2. Head(queues[h]) \in Message
      BY <3>1
    <3> QED BY <3>2 DEF Message
  <2>2. stage'[w] = FirstStage(msg'[w].kind) /\ msg'[w] = Head(queues[h])
    BY <1>5, GotoFacts DEF Receive, TypeInv, WorkersOK
  <2> QED BY <1>3, <1>4, <2>1, <2>2
<1>6. CASE Crash(w)
  <2>1. msg[w].kind \in Kinds
    BY DEF Message
  <2>2. stage'[w] = FirstStage(msg[w].kind) /\ UNCHANGED msg
    BY <1>6, GotoFacts DEF Crash
  <2> QED BY <1>3, <1>4, <2>1, <2>2
<1>7. CASE FetchServices(w) /\ ~Finish(w)
  <2>1. stage[w] = "boot" /\ stage'[w] = "next" /\ UNCHANGED msg
    BY <1>7, GotoFacts DEF FetchServices
  <2> QED BY <1>3, <2>1 DEF StagesOf
<1>8. CASE FetchNext(w) /\ ~Finish(w)
  <2>1. stage[w] = "next" /\ UNCHANGED <<docs, doc>>
    BY <1>8 DEF FetchNext, store
  <2>2. CASE UNCHANGED <<stage, msg>>
    BY <1>1, <2>1, <2>2
  <2>3. CASE Goto(w, "get") /\ \E t : msg' = [msg EXCEPT ![w].service = t]
    <3>1. stage'[w] = "get" /\ msg'[w].kind = "boot"
      BY <2>1, <2>3, GotoFacts DEF TypeInv, WorkersOK, Message
    <3> QED BY <1>3, <3>1 DEF StagesOf
  <2> QED BY <1>8, <2>2, <2>3 DEF FetchNext
<1>9. CASE GetService(w) /\ ~Finish(w)
  <2>1. stage[w] = "get" /\ stage'[w] = "store" /\ UNCHANGED msg
    BY <1>9, GotoFacts DEF GetService, Fail
  <2> QED BY <1>3, <2>1 DEF StagesOf
<1>10. CASE StoreMonitored(w)
  <2>1. /\ stage[w] = "store" /\ stage'[w] = "announce" /\ UNCHANGED <<msg, doc>>
        /\ \E n : docs' = Store(docs, s, [doc[w] EXCEPT !.id = n])
    BY <1>10, GotoFacts DEF StoreMonitored
  <2>2. docs'[s].data = doc[w].data /\ docs'[s].config = doc[w].config
    BY <2>1 DEF Store, Doc
  <2> QED BY <2>1, <2>2 DEF SoloHandler, StagesOf
<1>11. CASE AnnounceMonitored(w) /\ ~Finish(w)
  <2>1. stage[w] = "announce" /\ stage'[w] = "next" /\ msg[w].kind = "boot" /\ UNCHANGED msg
    BY <1>11, GotoFacts DEF AnnounceMonitored
  <2> QED BY <1>3, <2>1 DEF StagesOf
<1>12. CASE ReadUpdated(w) /\ ~Finish(w)
  <2>1. /\ stage[w] = "read" /\ stage'[w] = "save" /\ s \in DOMAIN docs
        /\ doc'[w] = docs[s] /\ UNCHANGED <<docs, msg>>
    BY <1>12, GotoFacts DEF ReadUpdated, store, TypeInv, WorkersOK
  <2> QED BY <2>1 DEF SoloHandler, StagesOf
<1>13. CASE SaveServiceState(w) /\ ~Finish(w)
  <2>1. /\ stage[w] = "save" /\ stage'[w] = "dispatch" /\ docs' = Saved(w)
        /\ UNCHANGED <<msg, doc>> /\ s \in DOMAIN docs /\ doc[w] = docs[s]
    BY <1>13, GotoFacts DEF SaveServiceState, SoloHandler
  <2>2. s \in DOMAIN docs' /\ docs'[s].data = msg[w].data
    BY <2>1 DEF Saved, Doc
  <2> QED BY <2>1, <2>2 DEF SoloHandler, StagesOf
<1>14. CASE CheckNewScaleConfig(w) /\ ~Finish(w)
  <2>1. /\ stage[w] = "check" /\ stage'[w] = "propagate" /\ UNCHANGED msg
        /\ docs' = [t \in DOMAIN docs |->
                      IF t = s THEN [docs[t] EXCEPT !.config = NewConfig(msg[w])] ELSE docs[t]]
    BY <1>14, GotoFacts DEF CheckNewScaleConfig, Fail
  <2>2. s \in DOMAIN docs => docs[s] \in Doc
    BY DEF TypeInv, StoreOK
  <2>3. s \in DOMAIN docs' => docs'[s].config = NewConfig(msg[w])
    BY <2>1, <2>2 DEF Doc
  <2> QED BY <2>1, <2>3 DEF SoloHandler, StagesOf, NewConfig
<1>15. CASE Work(w)
  BY <1>2, <1>7, <1>8, <1>9, <1>10, <1>11, <1>12, <1>13, <1>14, <1>15
  DEF Work, Unmonitor, UpdateService, Dispatch, PropagateConfig
<1> QED
  BY <1>1, <1>5, <1>6, <1>15
  DEF Next, Completed, Deploy, RemoveFromDocker, AskMonitor, AskUpdate, Environment, Listen,
      RestartScaler, Update, Quiet, vars, store, locals

LEMMA SoloStep ==
    ASSUME NEW w, Workers = {w}
    PROVE  SoloInv /\ [Next]_vars => SoloInv'
<1> SUFFICES ASSUME SoloInv, [Next]_vars PROVE SoloInv'
  OBVIOUS
<1>1. CASE Next
  BY <1>1, TypeStep, ApartStep, HandlerStep DEF SoloInv
<1>2. CASE UNCHANGED vars
  BY <1>2, TypeStep DEF SoloInv, vars, store, locals, UpdatesApart, SoloHandler
<1> QED BY <1>1, <1>2

LEMMA SoloInvariant ==
    ASSUME NEW w, Workers = {w}
    PROVE  Spec => []SoloInv
<1>1. Init => SoloInv
  <2>1. Init => UpdatesApart
    BY NoMessageType DEF Init, InitWith, UpdatesApart
  <2>2. Init => SoloHandler(w)
    BY NoMessageType DEF Init, InitWith, SoloHandler, StagesOf
  <2> QED BY <2>1, <2>2, TypeInit DEF SoloInv
<1> QED BY <1>1, SoloStep, PTL DEF Spec

-----------------------------------------------------------------------------
(* The collection follows docker                                           *)

(* What the other parts do, and what the handlers do without a queue.      *)
LEMMA KnownApart ==
    ASSUME NEW w, DockerKnown(w), UNCHANGED <<docs, stage, msg, doc>>,
           queues'["updated"] = queues["updated"],
           \A t \in DOMAIN docker' \ missed' :
               Heard(t)' => t \in DOMAIN docker \ missed /\ Heard(t) /\ docker'[t] = docker[t]
    PROVE  DockerKnown(w)'
<1> SUFFICES ASSUME NEW t \in DOMAIN docker' \ missed', Heard(t)'
             PROVE  LastKnows(t)' /\ HandlerKnows(w, t)'
  BY DEF DockerKnown
<1>1. LastKnows(t) /\ HandlerKnows(w, t) /\ docker'[t] = docker[t]
  BY DEF DockerKnown
<1> QED BY <1>1 DEF LastKnows, HandlerKnows, HandlerSays

LEMMA KnownByHandler ==
    ASSUME NEW w, DockerKnown(w), UNCHANGED <<docker, events, missed>>,
           queues'["updated"] = queues["updated"],
           \A t \in DOMAIN docker : HandlerSays(w, t) => HandlerSays(w, t)'
    PROVE  DockerKnown(w)'
<1> SUFFICES ASSUME NEW t \in DOMAIN docker \ missed, Heard(t)
             PROVE  LastKnows(t)' /\ HandlerKnows(w, t)'
  BY DEF DockerKnown, Heard
<1>1. LastKnows(t) /\ HandlerKnows(w, t)
  BY DEF DockerKnown
<1> QED BY <1>1 DEF LastKnows, HandlerKnows

LEMMA SendElsewhere ==
    ASSUME TypeInv, NEW h \in Handlers \ {"updated"}, NEW m, Send(h, m)
    PROVE  queues'["updated"] = queues["updated"]
  BY DEF Send, TypeInv, MessagesOK, Handlers

(* A service that changes is told to the listener, or missed.              *)
LEMMA ToldOrMissed ==
    ASSUME TypeInv, NEW s, NEW c, Tell(s, c), NEW t, t \notin missed', Heard(t)'
    PROVE  t # s /\ t \notin missed /\ Heard(t)
<1>1. CASE listening
  <2> DEFINE e == [service |-> s, completed |-> c]
  <2>1. events' = Append(events, e) /\ missed' = missed /\ events \in Seq(Event)
    BY <1>1 DEF Tell, TypeInv, EventsOK
  <2>2. e.service = s
    OBVIOUS
  <2> HIDE DEF e
  <2>3. /\ DOMAIN events' = 1 .. Len(events) + 1 /\ Len(events) \in Nat
        /\ events'[Len(events) + 1] = e
        /\ \A i \in DOMAIN events : i \in DOMAIN events' /\ events'[i] = events[i]
    BY <2>1, AppendFacts
  <2>4. Len(events) + 1 \in DOMAIN events'
    BY <2>3
  <2> QED BY <2>1, <2>2, <2>3, <2>4 DEF Heard
<1>2. CASE ~listening
  BY <1>2 DEF Tell, Heard
<1> QED BY <1>1, <1>2

LEMMA KnownCluster ==
    ASSUME SoloInv, NEW w, Workers = {w}, DockerKnown(w), NEW s,
           \/ Completed(s) \/ Deploy(s) \/ RemoveFromDocker(s)
           \/ AskMonitor(s) \/ AskUpdate(s) \/ RestartScaler \/ Update
    PROVE  DockerKnown(w)'
<1> USE SoloFacts
<1>1. UNCHANGED <<docs, stage, msg, doc>>
  BY DEF Completed, Deploy, RemoveFromDocker, AskMonitor, AskUpdate, RestartScaler, Update,
         Environment, store, locals
<1>2. queues'["updated"] = queues["updated"]
  <2>1. UNCHANGED queues \/ \E m : Send("rpc", m)
    BY DEF Completed, Deploy, RemoveFromDocker, AskMonitor, AskUpdate, RestartScaler, Update
  <2> QED BY <2>1, SendElsewhere DEF Handlers
<1>3. ASSUME NEW t \in DOMAIN docker' \ missed', Heard(t)'
      PROVE  t \in DOMAIN docker \ missed /\ Heard(t) /\ docker'[t] = docker[t]
  <2>1. ASSUME NEW u \in DOMAIN docker, NEW d, SetState(u, d)
        PROVE  t \in DOMAIN docker \ missed /\ Heard(t) /\ docker'[t] = docker[t]
    BY <1>3, <2>1, ToldOrMissed DEF SetState
  <2>2. CASE UNCHANGED <<docker, missed, events>>
    BY <1>3, <2>2 DEF Heard
  <2>3. CASE Completed(s)
    BY <1>3, <2>3, ToldOrMissed DEF Completed
  <2>4. CASE Deploy(s)
    BY <2>1, <2>4 DEF Deploy
  <2>5. CASE RemoveFromDocker(s)
    BY <1>3, <2>5 DEF RemoveFromDocker, Without, Heard
  <2>6. CASE RestartScaler
    BY <1>3, <2>6 DEF RestartScaler, Heard
  <2>7. CASE Update
    BY <2>1, <2>2, <2>7 DEF Update
  <2> QED BY <2>2, <2>3, <2>4, <2>5, <2>6, <2>7 DEF AskMonitor, AskUpdate
<1> QED BY <1>1, <1>2, <1>3, KnownApart

(* An event becomes the last update of its service, with what docker runs; *)
(* a listener that dies has missed what it did not see.                    *)
LEMMA KnownListen ==
    ASSUME SoloInv, NEW w, Workers = {w}, DockerKnown(w), Listen
    PROVE  DockerKnown(w)'
<1> USE SoloFacts
<1>0. PICK s : s = Head(events).service
  OBVIOUS
<1> DEFINE q == queues["updated"]
           m == [AnyMessage("updated", s) EXCEPT
                    !.data = docker[s], !.completed = Head(events).completed]
<1>1. UNCHANGED <<docker, docs, stage, msg, doc>>
  BY DEF Listen, store, locals
<1>2. CASE s \notin DOMAIN docker
  <2>1. /\ UNCHANGED queues /\ missed' = missed \cup {events[i].service : i \in DOMAIN events}
    BY <1>0, <1>2 DEF Listen
  <2> QED BY <1>1, <2>1, KnownApart DEF Heard
<1>3. CASE s \in DOMAIN docker
  <2>1. events' = Tail(events) /\ events # << >> /\ events \in Seq(Event) /\ missed' = missed
    BY <1>0, <1>3 DEF Listen, TypeInv, EventsOK
  <2>2. Send("updated", m) /\ m.service = s /\ m.data = docker[s]
    BY <1>0, <1>3 DEF Listen, AnyMessage
  <2> HIDE DEF m
  <2>3. q \in Seq(Message) /\ q' = Append(q, m)
    BY <2>2 DEF Send, TypeInv, MessagesOK, Handlers
  <2>4. /\ DOMAIN q = 1 .. Len(q) /\ Len(q) \in Nat
        /\ DOMAIN q' = 1 .. Len(q) + 1
        /\ q'[Len(q) + 1] = m
        /\ \A i \in DOMAIN q : i \in DOMAIN q' /\ q'[i] = q[i]
        /\ \A i \in DOMAIN q' : i \in DOMAIN q \/ i = Len(q) + 1
    BY <2>3, AppendFacts
  <2>5. ASSUME NEW t \in DOMAIN docker \ missed, Heard(t)', t # s
        PROVE  LastKnows(t)' /\ HandlerKnows(w, t)'
    <3>1. Heard(t)
      <4>1. ASSUME NEW i \in DOMAIN events PROVE events[i].service # t
        <5>1. CASE i = 1
          BY <1>0, <2>1, <2>5, <5>1
        <5>2. CASE i # 1
          <6>1. i - 1 \in DOMAIN Tail(events) /\ Tail(events)[i - 1] = events[i]
            BY <2>1, <4>1, <5>2, TailFacts
          <6> QED BY <2>1, <2>5, <6>1 DEF Heard
        <5> QED BY <5>1, <5>2
      <4> QED BY <4>1 DEF Heard
    <3>2. LastKnows(t) /\ HandlerKnows(w, t)
      BY <2>5, <3>1 DEF DockerKnown
    <3>3. LastKnows(t)'
      <4> SUFFICES ASSUME NEW i \in DOMAIN q', q'[i].service = t,
                          \A j \in DOMAIN q' : j > i => q'[j].service # t
                   PROVE  q'[i].data = docker[t]
        BY <1>1 DEF LastKnows
      <4>1. i \in DOMAIN q /\ q'[i] = q[i]
        BY <2>2, <2>4, <2>5
      <4>2. \A j \in DOMAIN q : j > i => q[j].service # t
        BY <2>4
      <4> QED BY <3>2, <4>1, <4>2 DEF LastKnows
    <3>4. HandlerKnows(w, t)'
      <4> SUFFICES ASSUME \A i \in DOMAIN q' : q'[i].service # t
                   PROVE  HandlerSays(w, t)'
        BY DEF HandlerKnows
      <4>1. \A i \in DOMAIN q : q[i].service # t
        BY <2>4
      <4> QED BY <1>1, <3>2, <4>1 DEF HandlerKnows, HandlerSays
    <3> QED BY <3>3, <3>4
  <2>6. LastKnows(s)' /\ HandlerKnows(w, s)'
    <3>1. Len(q) + 1 \in DOMAIN q' /\ q'[Len(q) + 1].service = s /\ q'[Len(q) + 1].data = docker[s]
      BY <2>2, <2>4
    <3>2. ASSUME NEW i \in DOMAIN q', i # Len(q) + 1 PROVE Len(q) + 1 > i
      BY <2>4, <3>2
    <3>3. ASSUME NEW i \in DOMAIN q', \A j \in DOMAIN q' : j > i => q'[j].service # s
          PROVE  q'[i].data = docker[s]
      BY <3>1, <3>2, <3>3
    <3>4. HandlerKnows(w, s)'
      BY <3>1 DEF HandlerKnows
    <3> QED BY <1>1, <3>3, <3>4 DEF LastKnows
  <2> QED BY <1>1, <2>1, <2>5, <2>6 DEF DockerKnown
<1> QED BY <1>2, <1>3

LEMMA KnownReceive ==
    ASSUME SoloInv, NEW w, Workers = {w}, DockerKnown(w), NEW h \in Handlers, Receive(w, h)
    PROVE  DockerKnown(w)'
<1> USE SoloFacts, KindOfStage
<1> DEFINE q == queues["updated"]
<1>1. /\ queues[h] \in Seq(Message) /\ queues[h] # << >>
      /\ queues' = [queues EXCEPT ![h] = Tail(@)]
      /\ msg'[w] = Head(queues[h]) /\ msg[w].kind = "boot"
      /\ UNCHANGED <<docker, events, missed, docs>>
  BY DEF Receive, cluster, store, TypeInv, MessagesOK, WorkersOK
<1>2. msg'[w] = queues[h][1] /\ 1 \in DOMAIN queues[h] /\ msg'[w] \in Message
  BY <1>1, TailFacts
<1>3. msg'[w].kind = "updated" <=> h = "updated"
  BY <1>2 DEF UpdatesApart
<1>4. stage'[w] # "store"
  <2>1. stage'[w] = FirstStage(msg'[w].kind) /\ msg'[w].kind \in Kinds
    BY <1>1, <1>2, GotoFacts DEF Receive, Message
  <2> QED BY <2>1, FirstStageType
<1>5. CASE h # "updated"
  <2>1. queues'["updated"] = queues["updated"]
    BY <1>1, <1>5 DEF TypeInv, MessagesOK, Handlers
  <2>2. ASSUME NEW t \in DOMAIN docker, HandlerSays(w, t) PROVE HandlerSays(w, t)'
    BY <1>1, <1>3, <1>4, <1>5, <2>2 DEF HandlerSays
  <2> QED BY <1>1, <2>1, <2>2, KnownByHandler
<1>6. CASE h = "updated"
  <2>1. q' = Tail(q) /\ q \in Seq(Message) /\ q # << >>
    BY <1>1, <1>6 DEF TypeInv, MessagesOK
  <2>2. /\ DOMAIN q = 1 .. Len(q) /\ Len(q) \in Nat /\ 1 \in DOMAIN q
        /\ DOMAIN q' = 1 .. Len(q) - 1
        /\ \A i \in DOMAIN q' : i + 1 \in DOMAIN q /\ q'[i] = q[i + 1]
    BY <2>1, TailFacts
  <2>3. msg'[w] = q[1] /\ msg'[w].kind = "updated"
    BY <1>2, <1>3, <1>6
  <2>4. ASSUME NEW i \in DOMAIN q, i # 1
        PROVE  i - 1 \in DOMAIN q' /\ q'[i - 1] = q[i]
    <3>1. i - 1 \in DOMAIN q' /\ (i - 1) + 1 = i
      BY <2>2, <2>4
    <3> QED BY <2>2, <3>1
  <2>5. ASSUME NEW t \in DOMAIN docker \ missed, Heard(t)
        PROVE  LastKnows(t)' /\ HandlerKnows(w, t)'
    <3>1. LastKnows(t) /\ HandlerKnows(w, t)
      BY <2>5 DEF DockerKnown
    <3>2. LastKnows(t)'
      <4> SUFFICES ASSUME NEW i \in DOMAIN q', q'[i].service = t,
                          \A j \in DOMAIN q' : j > i => q'[j].service # t
                   PROVE  q'[i].data = docker[t]
        BY <1>1 DEF LastKnows
      <4>1. i + 1 \in DOMAIN q /\ q'[i] = q[i + 1] /\ i \in Nat /\ i > 0
        BY <2>2
      <4>2. ASSUME NEW j \in DOMAIN q, j > i + 1 PROVE q[j].service # t
        <5>1. j # 1 /\ j - 1 > i
          BY <2>2, <4>1, <4>2
        <5> QED BY <2>4, <5>1
      <4> QED BY <3>1, <4>1, <4>2 DEF LastKnows
    <3>3. HandlerKnows(w, t)'
      <4> SUFFICES ASSUME \A i \in DOMAIN q' : q'[i].service # t
                   PROVE  HandlerSays(w, t)'
        BY DEF HandlerKnows
      <4>1. \A i \in DOMAIN q : i # 1 => q[i].service # t
        BY <2>4
      <4>2. CASE q[1].service = t
        <5>1. \A j \in DOMAIN q : j > 1 => q[j].service # t
          BY <2>2, <4>1
        <5>2. q[1].data = docker[t]
          BY <2>2, <3>1, <4>2, <5>1 DEF LastKnows
        <5> QED BY <1>1, <1>4, <2>3, <4>2, <5>2 DEF HandlerSays
      <4>3. CASE q[1].service # t
        <5>1. \A i \in DOMAIN q : q[i].service # t
          BY <4>1, <4>3
        <5> QED BY <1>1, <1>4, <2>3, <3>1, <4>3, <5>1 DEF HandlerKnows, HandlerSays
      <4> QED BY <4>2, <4>3
    <3> QED BY <3>2, <3>3
  <2> QED BY <1>1, <2>5 DEF DockerKnown, Heard
<1> QED BY <1>5, <1>6

LEMMA KnownCrash ==
    ASSUME SoloInv, NEW w, Workers = {w}, DockerKnown(w), Crash(w)
    PROVE  DockerKnown(w)'
<1> USE SoloFacts
<1>1. UNCHANGED <<docker, events, missed, docs, msg>>
  BY DEF Crash, cluster, store
<1>2. queues'["updated"] = queues["updated"]
  BY SendElsewhere DEF Crash, Handlers
<1>3. stage'[w] # "store"
  <2>1. stage'[w] = FirstStage(msg[w].kind) /\ msg[w].kind \in Kinds
    BY GotoFacts DEF Crash, Message
  <2> QED BY <2>1, FirstStageType
<1>4. ASSUME NEW t \in DOMAIN docker, HandlerSays(w, t) PROVE HandlerSays(w, t)'
  BY <1>1, <1>3, <1>4 DEF HandlerSays
<1> QED BY <1>1, <1>2, <1>4, KnownByHandler

LEMMA KnownWork ==
    ASSUME SoloInv, NEW w, Workers = {w}, DockerKnown(w), Work(w)
    PROVE  DockerKnown(w)'
<1> DEFINE s == msg[w].service
<1> USE SoloFacts, KindOfStage
<1>1. UNCHANGED <<docker, events, missed>>
  BY DEF Work, FetchServices, FetchNext, GetService, StoreMonitored, AnnounceMonitored, Unmonitor,
         UpdateService, ReadUpdated, SaveServiceState, Dispatch, CheckNewScaleConfig,
         PropagateConfig, cluster
<1>2. queues'["updated"] = queues["updated"]
  <2>1. UNCHANGED queues \/ \E m : Send("own", m)
    BY DEF Work, FetchServices, FetchNext, GetService, StoreMonitored, AnnounceMonitored, Unmonitor,
           UpdateService, ReadUpdated, SaveServiceState, Dispatch, CheckNewScaleConfig,
           PropagateConfig
  <2> QED BY <2>1, SendElsewhere DEF Handlers
<1>3. SUFFICES ASSUME NEW t \in DOMAIN docker, HandlerSays(w, t) PROVE HandlerSays(w, t)'
  BY <1>1, <1>2, KnownByHandler
<1>4. \A u \in DOMAIN docs : docs[u] \in Doc
  BY DEF TypeInv, StoreOK
<1>5. ASSUME stage'[w] \in {"idle", "next", "get", "announce"}, msg'[w].kind # "updated",
             t \in DOMAIN docs' => docs'[t].data = docker[t]
      PROVE  HandlerSays(w, t)'
  BY <1>1, <1>5 DEF HandlerSays
<1>6. ASSUME Finish(w), msg[w].kind # "updated",
             t \in DOMAIN docs' => t \in DOMAIN docs /\ docs'[t].data = docs[t].data
      PROVE  HandlerSays(w, t)'
  BY <1>3, <1>5, <1>6, FinishFacts DEF HandlerSays
<1>7. CASE FetchServices(w)
  <2>1. CASE Finish(w)
    BY <1>6, <1>7, <2>1 DEF FetchServices, store
  <2>2. CASE Goto(w, "next") /\ UNCHANGED msg
    BY <1>3, <1>5, <1>7, <2>2, GotoFacts DEF FetchServices, store, HandlerSays
  <2> QED BY <1>7, <2>1, <2>2 DEF FetchServices
<1>8. CASE FetchNext(w)
  <2>1. CASE Finish(w)
    BY <1>6, <1>8, <2>1 DEF FetchNext, store
  <2>2. CASE ~Finish(w)
    <3>1. stage'[w] \in {"next", "get"} /\ UNCHANGED docs /\ msg[w].kind = "boot"
      BY <1>8, <2>2, GotoFacts DEF FetchNext, store
    <3>2. msg'[w].kind = "boot"
      BY <1>8, <2>2, <3>1 DEF FetchNext, TypeInv, WorkersOK, Message
    <3> QED BY <1>3, <1>5, <3>1, <3>2 DEF HandlerSays
  <2> QED BY <2>1, <2>2
<1>9. CASE GetService(w)
  <2>1. CASE Finish(w)
    BY <1>6, <1>9, <2>1 DEF GetService, store
  <2>2. CASE ~Finish(w)
    <3>1. /\ s \in DOMAIN docker /\ doc' = [doc EXCEPT ![w] = NewDoc(docker[s], 0)]
          /\ UNCHANGED <<msg, docs>> /\ msg[w].kind # "updated"
      BY <1>9, <2>2 DEF GetService, Fail, store
    <3>2. doc'[w].data = docker[s]
      BY <3>1 DEF TypeInv, WorkersOK, NewDoc
    <3> QED BY <1>1, <1>3, <3>1, <3>2 DEF HandlerSays
  <2> QED BY <2>1, <2>2
<1>10. CASE StoreMonitored(w)
  <2>1. /\ stage[w] = "store" /\ stage'[w] = "announce" /\ UNCHANGED msg
        /\ \E n : docs' = Store(docs, s, [doc[w] EXCEPT !.id = n])
    BY <1>10, GotoFacts DEF StoreMonitored
  <2>2. docs'[s].data = doc[w].data /\ (t # s /\ t \in DOMAIN docs' =>
                                           t \in DOMAIN docs /\ docs'[t] = docs[t])
    BY <2>1 DEF Store, Doc
  <2> QED BY <1>3, <1>5, <2>1, <2>2 DEF HandlerSays
<1>11. CASE AnnounceMonitored(w)
  <2>1. CASE Finish(w)
    BY <1>6, <1>11, <2>1 DEF AnnounceMonitored
  <2>2. CASE Goto(w, "next") /\ UNCHANGED msg
    BY <1>3, <1>5, <1>11, <2>2, GotoFacts DEF AnnounceMonitored, HandlerSays
  <2> QED BY <1>11, <2>1, <2>2 DEF AnnounceMonitored
<1>12. CASE Unmonitor(w)
  BY <1>6, <1>12 DEF Unmonitor, Without
<1>13. CASE UpdateService(w)
  BY <1>6, <1>13 DEF UpdateService, store
<1>14. CASE ReadUpdated(w)
  <2>1. stage[w] = "read" /\ msg[w].kind = "updated" /\ UNCHANGED docs
    BY <1>14 DEF ReadUpdated, store
  <2>2. CASE s \notin DOMAIN docs /\ Finish(w)
    BY <1>3, <1>5, <2>1, <2>2, FinishFacts DEF HandlerSays
  <2>3. CASE Goto(w, "save") /\ UNCHANGED msg
    BY <1>1, <1>3, <2>1, <2>3, GotoFacts DEF HandlerSays
  <2> QED BY <1>14, <2>2, <2>3 DEF ReadUpdated
<1>15. CASE SaveServiceState(w)
  <2>1. /\ stage[w] = "save" /\ msg[w].kind = "updated" /\ docs' = Saved(w)
        /\ s \in DOMAIN docs /\ doc[w] = docs[s]
    BY <1>15 DEF SaveServiceState, SoloHandler
  <2>2. docs'[s].data = msg[w].data /\ (t # s /\ t \in DOMAIN docs' =>
                                           t \in DOMAIN docs /\ docs'[t] = docs[t])
    BY <1>4, <2>1 DEF Saved, Doc
  <2>3. CASE Finish(w)
    BY <1>3, <1>5, <2>1, <2>2, <2>3, FinishFacts DEF HandlerSays
  <2>4. CASE Goto(w, "dispatch") /\ UNCHANGED msg
    BY <1>1, <1>3, <2>1, <2>2, <2>4, GotoFacts DEF HandlerSays
  <2> QED BY <1>15, <2>3, <2>4 DEF SaveServiceState
<1>16. CASE Dispatch(w)
  <2>1. /\ stage[w] = "dispatch" /\ msg[w].kind = "updated" /\ UNCHANGED docs /\ Finish(w)
        /\ s \in DOMAIN docs /\ docs[s].data = msg[w].data
    BY <1>16 DEF Dispatch, SoloHandler
  <2> QED BY <1>3, <1>5, <2>1, FinishFacts DEF HandlerSays
<1>17. CASE CheckNewScaleConfig(w)
  <2>1. stage[w] = "check" /\ msg[w].kind = "own"
    BY <1>17 DEF CheckNewScaleConfig
  <2>2. t \in DOMAIN docs' => t \in DOMAIN docs /\ docs'[t].data = docs[t].data
    BY <1>4, <1>17 DEF CheckNewScaleConfig, Doc
  <2>3. CASE Finish(w)
    BY <1>6, <2>1, <2>2, <2>3
  <2>4. CASE Goto(w, "propagate") /\ UNCHANGED msg
    BY <1>1, <1>3, <2>1, <2>2, <2>4, GotoFacts DEF HandlerSays
  <2> QED BY <1>17, <2>3, <2>4 DEF CheckNewScaleConfig, Fail
<1>18. CASE PropagateConfig(w)
  BY <1>6, <1>18 DEF PropagateConfig
<1> QED BY <1>7, <1>8, <1>9, <1>10, <1>11, <1>12, <1>13, <1>14, <1>15, <1>16, <1>17, <1>18 DEF Work

LEMMA KnownStep ==
    ASSUME NEW w, Workers = {w}
    PROVE  SoloInv /\ DockerKnown(w) /\ [Next]_vars => DockerKnown(w)'
<1> SUFFICES ASSUME SoloInv, DockerKnown(w), [Next]_vars PROVE DockerKnown(w)'
  OBVIOUS
<1>1. CASE UNCHANGED vars
  BY <1>1 DEF vars, cluster, store, locals, DockerKnown, Heard, LastKnows, HandlerKnows, HandlerSays
<1>2. CASE Next
  BY <1>1, <1>2, KnownCluster, KnownListen, KnownReceive, KnownCrash, KnownWork DEF Next, Quiet
<1> QED BY <1>1, <1>2

(* With a single worker the documents of the services that docker runs are *)
(* what docker runs once everything was handled, whatever crashed between: *)
(* an event not yet seen, the last update that waits, the one being        *)
(* handled or the document always says it.                                 *)
THEOREM CollectionFollowsDocker ==
    ASSUME NEW w, Workers = {w}
    PROVE  Spec => []KnownStateIsReal
<1>1. Init => DockerKnown(w)
  BY NoMessageType DEF Init, InitWith, DockerKnown, LastKnows, HandlerKnows, HandlerSays, Handlers
<1>2. SoloInv /\ DockerKnown(w) => KnownStateIsReal
  <2> SUFFICES ASSUME SoloInv, DockerKnown(w), Settled,
                      NEW s \in (DOMAIN docs \cap DOMAIN docker) \ missed
               PROVE  docs[s].data = docker[s]
    BY DEF KnownStateIsReal
  <2>1. events = << >> /\ queues["updated"] = << >> /\ stage[w] = "idle" /\ msg[w].kind = "boot"
    BY KindOfStage DEF Settled, Handlers
  <2>2. Heard(s)
    BY <2>1 DEF Heard
  <2>3. HandlerSays(w, s)
    BY <2>1, <2>2 DEF DockerKnown, HandlerKnows
  <2> QED BY <2>1, <2>3 DEF HandlerSays
<1>3. Spec => []SoloInv
  BY SoloInvariant
<1> QED BY <1>1, <1>2, <1>3, KnownStep, PTL DEF Spec

-----------------------------------------------------------------------------
(* The subscribers follow the collection                                   *)

Announcing == {"announce", "dispatch", "propagate"}

(* Nothing is announced, and no document is written.                       *)
LEMMA FollowsApart ==
    ASSUME NEW w, stage[w] \notin Announcing, stage'[w] \notin Announcing, UNCHANGED view,
           NEW t \in DOMAIN docs, docs'[t] = docs[t], Follows(w, t)
    PROVE  Follows(w, t)'
  BY DEF Follows, Announcing

LEMMA FollowsWork ==
    ASSUME SoloInv, NEW w, Workers = {w}, Work(w), \A t \in DOMAIN docs : Follows(w, t),
           NEW t \in DOMAIN docs'
    PROVE  Follows(w, t)'
<1> DEFINE s == msg[w].service
<1> USE SoloFacts
<1>1. \A u \in DOMAIN docs : docs[u] \in Doc /\ Follows(w, u)
  BY DEF TypeInv, StoreOK
<1>2. \A u \in DOMAIN view : view[u] \in [data: State, config: Configs]
  BY DEF TypeInv, StoreOK
<1>3. ASSUME Finish(w) PROVE stage'[w] = "idle" /\ stage'[w] \notin Announcing
  BY <1>3, FinishFacts DEF Announcing
<1>4. ASSUME stage[w] \notin Announcing, Finish(w), UNCHANGED view,
             t \in DOMAIN docs /\ docs'[t] = docs[t]
      PROVE  Follows(w, t)'
  BY <1>1, <1>3, <1>4, FollowsApart
<1>5. CASE \/ FetchServices(w) \/ FetchNext(w) \/ GetService(w) \/ UpdateService(w)
           \/ ReadUpdated(w)
  <2>1. UNCHANGED <<docs, view>> /\ stage[w] \notin Announcing
    BY <1>5 DEF FetchServices, FetchNext, GetService, UpdateService, ReadUpdated, store, Announcing
  <2>2. stage'[w] \notin Announcing
    <3>1. CASE Finish(w)
      BY <1>3, <3>1
    <3>2. CASE \E st \in {"next", "get", "store", "save"} : Goto(w, st)
      BY <3>2, GotoFacts DEF Announcing
    <3>3. CASE UNCHANGED stage
      BY <2>1, <3>3
    <3> QED BY <1>5, <3>1, <3>2, <3>3
            DEF FetchServices, FetchNext, GetService, UpdateService, ReadUpdated, Fail
  <2> QED BY <1>1, <2>1, <2>2, FollowsApart
<1>6. CASE Unmonitor(w)
  BY <1>4, <1>6 DEF Unmonitor, Without, Announcing
<1>7. CASE StoreMonitored(w)
  <2>1. /\ stage[w] = "store" /\ stage'[w] = "announce" /\ UNCHANGED <<msg, view>>
        /\ \E n : docs' = Store(docs, s, [doc[w] EXCEPT !.id = n])
    BY <1>7, GotoFacts DEF StoreMonitored
  <2>2. t # s => t \in DOMAIN docs /\ docs'[t] = docs[t]
    BY <2>1 DEF Store
  <2> QED BY <1>1, <2>1, <2>2 DEF Follows
<1>8. CASE AnnounceMonitored(w)
  <2>1. /\ stage[w] = "announce" /\ UNCHANGED docs
        /\ view' = Store(view, s, [data |-> doc[w].data, config |-> doc[w].config])
        /\ docs[s].data = doc[w].data /\ docs[s].config = doc[w].config
    BY <1>8 DEF AnnounceMonitored, SoloHandler
  <2>2. stage'[w] \notin Announcing
    BY <1>3, <1>8, GotoFacts DEF AnnounceMonitored, Announcing
  <2>3. t \in DOMAIN view' /\ view'[t].data = docs[t].data /\ view'[t].config = docs[t].config
    BY <1>1, <2>1 DEF Store, Follows
  <2> QED BY <2>1, <2>2, <2>3 DEF Follows, Announcing
<1>9. CASE SaveServiceState(w)
  <2>1. /\ stage[w] = "save" /\ docs' = Saved(w) /\ UNCHANGED view
        /\ s \in DOMAIN docs /\ doc[w] = docs[s]
    BY <1>9 DEF SaveServiceState, SoloHandler
  <2>2. /\ docs'[s].data = msg[w].data /\ docs'[s].config = docs[s].config
        /\ t \in DOMAIN docs /\ (t # s => docs'[t] = docs[t])
    BY <1>1, <2>1 DEF Saved, Doc
  <2>3. t \in DOMAIN view /\ view[t].data = docs[t].data /\ view[t].config = docs[t].config
    BY <1>1, <2>1, <2>2 DEF Follows
  <2>4. CASE Diff(w) = {} /\ Finish(w)
    <3>1. msg[w].data \in State /\ doc[w].data \in State
      BY DEF Message, Doc
    <3>2. doc[w].data = msg[w].data
      BY <2>4, <3>1, MergeDiff DEF Diff
    <3> QED BY <1>3, <2>1, <2>2, <2>3, <2>4, <3>2 DEF Follows
  <2>5. CASE Goto(w, "dispatch") /\ UNCHANGED <<msg, doc>>
    <3>1. stage'[w] = "dispatch"
      BY <2>5, GotoFacts
    <3> QED BY <2>1, <2>2, <2>3, <2>5, <3>1 DEF Follows
  <2> QED BY <1>9, <2>4, <2>5 DEF SaveServiceState
<1>10. CASE Dispatch(w)
  <2>1. /\ stage[w] = "dispatch" /\ UNCHANGED docs /\ Finish(w)
        /\ view' = [u \in DOMAIN view |->
                      IF u = s THEN [view[u] EXCEPT !.data = Merge(@, Diff(w), msg[w].data)]
                      ELSE view[u]]
        /\ docs[s].data = msg[w].data
    BY <1>10 DEF Dispatch, SoloHandler
  <2>2. /\ t \in DOMAIN view /\ view[t].config = docs[t].config
        /\ view[t].data = IF t = s THEN doc[w].data ELSE docs[t].data
    BY <1>1, <2>1 DEF Follows
  <2>3. Merge(doc[w].data, Diff(w), msg[w].data) = msg[w].data
    <3>1. msg[w].data \in State /\ doc[w].data \in State
      BY DEF Message, Doc
    <3> QED BY <3>1, MergeDiff DEF Diff
  <2>4. t \in DOMAIN view' /\ view'[t].data = docs[t].data /\ view'[t].config = docs[t].config
    <3>1. CASE t # s
      BY <2>1, <2>2, <3>1
    <3>2. CASE t = s
      BY <1>2, <2>1, <2>2, <2>3, <3>2
    <3> QED BY <3>1, <3>2
  <2> QED BY <1>3, <2>1, <2>4 DEF Follows
<1>11. CASE CheckNewScaleConfig(w)
  <2>1. stage[w] = "check" /\ UNCHANGED view
    BY <1>11 DEF CheckNewScaleConfig
  <2>2. CASE Finish(w) /\ UNCHANGED docs
    BY <1>4, <2>1, <2>2 DEF Announcing
  <2>3. CASE /\ Goto(w, "propagate") /\ UNCHANGED msg
             /\ docs' = [u \in DOMAIN docs |->
                           IF u = s THEN [docs[u] EXCEPT !.config = NewConfig(msg[w])] ELSE docs[u]]
    <3>1. stage'[w] = "propagate"
      BY <2>3, GotoFacts
    <3>2. t \in DOMAIN docs /\ docs'[t].data = docs[t].data /\ (t # s => docs'[t] = docs[t])
      BY <1>1, <2>3 DEF Doc
    <3> QED BY <1>1, <2>1, <2>3, <3>1, <3>2 DEF Follows
  <2> QED BY <1>11, <2>2, <2>3 DEF CheckNewScaleConfig, Fail
<1>12. CASE PropagateConfig(w)
  <2>1. /\ stage[w] = "propagate" /\ UNCHANGED docs /\ Finish(w)
        /\ view' = [u \in DOMAIN view |->
                      IF u = s THEN [view[u] EXCEPT !.config = NewConfig(msg[w])] ELSE view[u]]
        /\ s \in DOMAIN docs => docs[s].config = NewConfig(msg[w])
    BY <1>12 DEF PropagateConfig, SoloHandler
  <2>2. /\ t \in DOMAIN view /\ view[t].data = docs[t].data
        /\ t # s => view[t].config = docs[t].config
    BY <1>1, <2>1 DEF Follows
  <2>3. t \in DOMAIN view' /\ view'[t].data = docs[t].data /\ view'[t].config = docs[t].config
    BY <1>2, <2>1, <2>2
  <2> QED BY <1>3, <2>1, <2>3 DEF Follows
<1> QED BY <1>5, <1>6, <1>7, <1>8, <1>9, <1>10, <1>11, <1>12 DEF Work

LEMMA FollowsStep ==
    ASSUME NEW w, Workers = {w}
    PROVE  SoloInv /\ SubscribersFollow(w) /\ [Next]_vars => SubscribersFollow(w)'
<1> SUFFICES ASSUME SoloInv, SubscribersFollow(w), [Next]_vars, crashes' = 0,
                    NEW t \in DOMAIN docs'
             PROVE  Follows(w, t)'
  BY DEF SubscribersFollow
<1> USE SoloFacts, KindOfStage
<1>1. crashes \in Nat
  BY DEF TypeInv, CountersOK
<1>2. ~RestartScaler /\ ~Crash(w)
  BY <1>1 DEF RestartScaler, Crash
<1>3. crashes = 0 /\ \A u \in DOMAIN docs : Follows(w, u)
  <2>1. crashes' = crashes \/ RestartScaler \/ Crash(w)
    BY DEF Next, Completed, Deploy, RemoveFromDocker, AskMonitor, AskUpdate, Environment, Listen,
           Update, Quiet, vars, counters, Receive, Work, FetchServices, FetchNext, GetService,
           StoreMonitored, AnnounceMonitored, Unmonitor, UpdateService, ReadUpdated,
           SaveServiceState, Dispatch, CheckNewScaleConfig, PropagateConfig
  <2> QED BY <1>2, <2>1 DEF SubscribersFollow
<1>4. CASE UNCHANGED <<docs, view, stage, msg, doc>>
  BY <1>3, <1>4 DEF Follows
<1>5. ASSUME NEW h \in Handlers, Receive(w, h) PROVE Follows(w, t)'
  <2>1. UNCHANGED <<docs, view>> /\ stage[w] \notin Announcing
    BY <1>5 DEF Receive, store, Announcing
  <2>2. stage'[w] \notin Announcing
    <3>1. queues[h] \in Seq(Message) /\ queues[h] # << >>
      BY <1>5 DEF Receive, TypeInv, MessagesOK
    <3>2. Head(queues[h]) \in Message
      BY <3>1
    <3>3. Head(queues[h]).kind \in Kinds /\ stage'[w] = FirstStage(Head(queues[h]).kind)
      BY <1>5, <3>2, GotoFacts DEF Receive, Message
    <3> QED BY <3>3, FirstStageType DEF Announcing
  <2> QED BY <1>3, <2>1, <2>2, FollowsApart
<1>6. CASE Work(w)
  BY <1>3, <1>6, FollowsWork
<1> QED
  BY <1>2, <1>4, <1>5, <1>6
  DEF Next, Completed, Deploy, RemoveFromDocker, AskMonitor, AskUpdate, Environment, Listen,
      Update, Quiet, vars, store, locals

(* With a single worker that never crashed, what the subscribers know of a *)
(* monitored service is its document once everything was handled: the      *)
(* diffs announced add up to it, and so do the scale_configs.              *)
THEOREM AnnouncementsAddUp ==
    ASSUME NEW w, Workers = {w}
    PROVE  Spec => []SubscribersKnow
<1>1. Init => SubscribersFollow(w)
  BY DEF Init, InitWith, SubscribersFollow
<1>2. SoloInv /\ SubscribersFollow(w) => SubscribersKnow
  <2> SUFFICES ASSUME SoloInv, SubscribersFollow(w), Settled, crashes = 0, NEW s \in DOMAIN docs
               PROVE  /\ s \in DOMAIN view
                      /\ view[s].data = docs[s].data
                      /\ view[s].config = docs[s].config
    BY DEF SubscribersKnow
  <2>1. stage[w] = "idle" /\ Follows(w, s)
    BY DEF Settled, SubscribersFollow
  <2> QED BY <2>1 DEF Follows
<1>3. Spec => []SoloInv
  BY SoloInvariant
<1> QED BY <1>1, <1>2, <1>3, FollowsStep, PTL DEF Spec
===============================================================================
