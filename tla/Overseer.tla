------------------------------- MODULE Overseer -------------------------------
(***************************************************************************)
(* The overseer service (services/overseer/overseer) and the listener of   *)
(* scaler_docker that feeds it: the overseer keeps a document per          *)
(* monitored service with its image, its mode and the scale_config of its  *)
(* image, brings it up to date when docker changes the service, announces  *)
(* the difference to the planer and the load manager, and passes their     *)
(* orders to docker.                                                       *)
(*                                                                         *)
(* As in UpgradePlaner a handler is split at its accesses to mongo and at  *)
(* its RPCs.  The history of images (versions, recheck_new_version) is in  *)
(* ImageHistory.                                                           *)
(*                                                                         *)
(* Not modelled: start_config, the rest of what scaler_docker says of a    *)
(* service (ports, instances, environment), the read-only RPCs and logs.   *)
(***************************************************************************)
EXTENDS Integers, Sequences, FiniteSets

CONSTANTS
    Services,     \* names of docker services
    Images,       \* the images they run
    ConfigOf,     \* the scale_config that scale_info prints in an image
    NoConfig,     \* None: an image without scale_info
    Global,       \* the mode of a service in global mode
    Replicas,     \* the numbers of replicas asked for
    InitialStates,\* what the services may run at the start
    Workers,      \* workers of the pool
    Inputs,       \* the kinds of environment steps
    MaxInputs,    \* bound: steps of the environment
    MaxFailures,  \* bound: calls of scaler_docker that raise
    MaxCrashes    \* bound: crashes and restarts of the processes

Modes == Replicas \cup {Global}

(* What docker says of a service.                                          *)
State == [image: Images, mode: Modes]

Configs == {ConfigOf[i] : i \in Images}

EnvironmentSteps == {"deploy", "remove", "monitor", "unmonitor", "scale", "upgrade"}

ASSUME ConstantsAssumption ==
    /\ Services # {} /\ IsFiniteSet(Services)
    /\ Images # {} /\ IsFiniteSet(Images)
    /\ Replicas \subseteq Nat /\ Replicas # {} /\ Global \notin Nat
    /\ InitialStates \subseteq State
    /\ Inputs \subseteq EnvironmentSteps
    /\ MaxInputs \in Nat /\ MaxFailures \in Nat /\ MaxCrashes \in Nat

(* A document of the collection services; id is mongo's _id.               *)
Doc == [data: State, config: Configs, id: Nat]

(* The keys of a diff.                                                     *)
Keys == {"scale", "mode", "image", "state"}

VARIABLES
    docker,       \* the services docker runs, and their state
    updating,     \* services whose update docker has not completed
    events,       \* docker's events the listener has not seen
    listening,    \* whether the listener of scaler_docker runs
    missed,       \* services updated while it did not
    calls,        \* update calls on their way to docker
    docs,         \* collection services: monitored service -> document
    nextId,       \* the next _id
    view,         \* what the subscribers know of the services they were told of
    queues,       \* messages to the overseer, a queue per handler
    stage,        \* per worker: the access its handler makes next
    msg,          \* per worker: the message it handles
    doc,          \* per worker: the document it read or builds
    todo,         \* per worker: services fetch_services has yet to see
    inputs, failures, crashes

cluster == <<docker, updating, events, listening, missed, calls>>
store == <<docs, nextId, view>>
locals == <<stage, msg, doc, todo>>
counters == <<inputs, failures, crashes>>
vars == <<cluster, store, queues, locals, counters>>

-----------------------------------------------------------------------------
(* Data                                                                    *)

Handlers == {"updated", "own", "rpc", "boot"}
Kinds == {"updated", "own", "monitor", "unmonitor", "scale", "upgrade", "boot"}
Message == [kind: Kinds, service: Services, data: State, completed: BOOLEAN,
            diff: SUBSET Keys, config: Configs]
Event == [service: Services, completed: BOOLEAN]
Call == [kind: {"scale", "upgrade"}, service: Services, data: State]

AnyState == CHOOSE d \in State : TRUE
AnyMessage(k, s) == [kind |-> k, service |-> s, data |-> AnyState, completed |-> FALSE,
                     diff |-> {}, config |-> ConfigOf[AnyState.image]]
NoMessage == AnyMessage("boot", CHOOSE s \in Services : TRUE)
NewDoc(d, n) == [data |-> d, config |-> ConfigOf[d.image], id |-> n]
NoDoc == NewDoc(AnyState, 0)

Stages == {"idle", "boot", "next", "get", "store", "announce", "read", "save",
           "dispatch", "check", "propagate", "forget", "ask"}

(* The first access of a handler.                                          *)
FirstStage(k) == CASE k = "boot" -> "boot"
                   [] k = "monitor" -> "get"
                   [] k = "unmonitor" -> "forget"
                   [] k \in {"scale", "upgrade"} -> "ask"
                   [] k = "updated" -> "read"
                   [] k = "own" -> "check"

Store(f, s, d) == [t \in DOMAIN f \cup {s} |-> IF t = s THEN d ELSE f[t]]
Without(f, s) == [t \in DOMAIN f \ {s} |-> f[t]]
Send(h, m) == queues' = [queues EXCEPT ![h] = Append(@, m)]

(* _compute_diff: what changed from old to new.                            *)
ComputeDiff(old, new, completed) ==
    {k \in Keys :
        \/ k = "scale" /\ old.mode # new.mode /\ Global \notin {old.mode, new.mode}
        \/ k = "mode" /\ old.mode # new.mode /\ Global \in {old.mode, new.mode}
        \/ k = "image" /\ old.image # new.image
        \/ k = "state" /\ completed}

(* What a subscriber that knew d knows after a diff to new.                *)
Merge(d, diff, new) ==
    [image |-> IF "image" \in diff THEN new.image ELSE d.image,
     mode |-> IF {"scale", "mode"} \cap diff # {} THEN new.mode ELSE d.mode]

-----------------------------------------------------------------------------
(* Docker runs the services; the overseer starts, or has started long ago  *)
(* and has the services S in its collection.                               *)
InitWith(S) ==
    /\ docker \in [Services -> InitialStates]
    /\ updating = {}
    /\ events = << >>
    /\ listening = TRUE
    /\ missed = {}
    /\ calls = << >>
    /\ docs = [s \in S |-> NewDoc(docker[s], 1)]
    /\ nextId = 2
    /\ view = [s \in S |-> [data |-> docker[s], config |-> ConfigOf[docker[s].image]]]
    /\ queues = [h \in Handlers |-> IF h = "boot" /\ S = {} THEN <<NoMessage>> ELSE << >>]
    /\ stage = [w \in Workers |-> "idle"]
    /\ msg = [w \in Workers |-> NoMessage]
    /\ doc = [w \in Workers |-> NoDoc]
    /\ todo = [w \in Workers |-> << >>]
    /\ inputs = 0 /\ failures = 0 /\ crashes = 0

Init == InitWith({})

-----------------------------------------------------------------------------
(* Docker and scaler_docker                                                *)

(* Docker tells the listener, if there is one.                             *)
Tell(s, completed) ==
    IF listening
       THEN /\ events' = Append(events, [service |-> s, completed |-> completed])
            /\ UNCHANGED missed
       ELSE missed' = missed \cup {s} /\ UNCHANGED events

(* A service gets state d; an update of the image takes time.              *)
SetState(s, d) ==
    /\ docker' = [docker EXCEPT ![s] = d]
    /\ updating' = IF d.image # docker[s].image THEN updating \cup {s} ELSE updating
    /\ Tell(s, FALSE)

(* The update of a service is completed.                                   *)
Completed(s) ==
    /\ s \in updating
    /\ updating' = updating \ {s}
    /\ Tell(s, TRUE)
    /\ UNCHANGED <<docker, listening, calls, store, queues, locals, counters>>

Environment(step) ==
    /\ step \in Inputs /\ inputs < MaxInputs
    /\ inputs' = inputs + 1
    /\ UNCHANGED <<listening, calls, store, locals, failures, crashes>>

(* An operator, or docker that rolls back, changes a service.              *)
Deploy(s) ==
    /\ Environment("deploy")
    /\ s \in DOMAIN docker
    /\ \E d \in State \ {docker[s]} :
          /\ (d.mode = Global) <=> (docker[s].mode = Global)
          /\ SetState(s, d)
    /\ UNCHANGED queues

(* A removal is not an update: the listener skips its event.               *)
RemoveFromDocker(s) ==
    /\ Environment("remove")
    /\ s \in DOMAIN docker
    /\ docker' = Without(docker, s)
    /\ updating' = updating \ {s}
    /\ UNCHANGED <<events, missed, queues>>

(* RPCs of the overseer.                                                   *)
AskMonitor(s) ==
    /\ \E k \in {"monitor", "unmonitor"} : Environment(k) /\ Send("rpc", AnyMessage(k, s))
    /\ UNCHANGED <<docker, updating, events, missed>>

AskUpdate(s) ==
    /\ \/ /\ Environment("scale")
          /\ \E n \in Replicas : Send("rpc", [AnyMessage("scale", s) EXCEPT !.data.mode = n])
       \/ /\ Environment("upgrade")
          /\ \E i \in Images : Send("rpc", [AnyMessage("upgrade", s) EXCEPT !.data.image = i])
    /\ UNCHANGED <<docker, updating, events, missed>>

(* start_listen_events: the service is read when its event is handled.  If *)
(* it is gone by then the exception ends the listener, and nothing starts  *)
(* another one.                                                            *)
Listen ==
    LET s == Head(events).service
    IN /\ listening /\ events # << >>
       /\ \/ /\ s \in DOMAIN docker
             /\ Send("updated", [AnyMessage("updated", s) EXCEPT
                                    !.data = docker[s], !.completed = Head(events).completed])
             /\ events' = Tail(events)
             /\ UNCHANGED <<listening, missed>>
          \/ /\ s \notin DOMAIN docker
             /\ listening' = FALSE
             /\ missed' = missed \cup {events[i].service : i \in DOMAIN events}
             /\ events' = << >>
             /\ UNCHANGED queues
       /\ UNCHANGED <<docker, updating, calls, store, locals, counters>>

(* scaler_docker restarts: it listens from now on.                         *)
RestartScaler ==
    /\ crashes < MaxCrashes
    /\ crashes' = crashes + 1
    /\ listening' = TRUE
    /\ missed' = missed \cup {events[i].service : i \in DOMAIN events}
    /\ events' = << >>
    /\ UNCHANGED <<docker, updating, calls, store, queues, locals, inputs, failures>>

(* update: one of the calls reaches docker, which changes the image or the *)
(* scale of a service that exists, and never the mode of a global one.     *)
Update ==
    /\ \E i \in DOMAIN calls :
          LET s == calls[i].service
              d == calls[i].data
          IN /\ calls' = [j \in 1 .. Len(calls) - 1 |->
                             IF j < i THEN calls[j] ELSE calls[j + 1]]
             /\ \/ s \notin DOMAIN docker /\ UNCHANGED <<docker, updating, events, missed>>
                \/ /\ s \in DOMAIN docker /\ calls[i].kind = "upgrade"
                   /\ SetState(s, [docker[s] EXCEPT !.image = d.image])
                \/ /\ s \in DOMAIN docker /\ calls[i].kind = "scale"
                   /\ IF docker[s].mode = Global
                         THEN UNCHANGED <<docker, updating, events, missed>>
                         ELSE SetState(s, [docker[s] EXCEPT !.mode = d.mode])
    /\ UNCHANGED <<listening, store, queues, locals, counters>>

-----------------------------------------------------------------------------
(* Workers                                                                 *)

Goto(w, st) == stage' = [stage EXCEPT ![w] = st]

(* A handler returns, or an exception ends it.                             *)
Finish(w) ==
    /\ Goto(w, "idle")
    /\ msg' = [msg EXCEPT ![w] = NoMessage]
    /\ doc' = [doc EXCEPT ![w] = NoDoc]
    /\ todo' = [todo EXCEPT ![w] = << >>]

(* A call of scaler_docker raises.                                         *)
Fail(w) ==
    /\ failures < MaxFailures
    /\ failures' = failures + 1
    /\ Finish(w)

Receive(w, h) ==
    /\ stage[w] = "idle"
    /\ queues[h] # << >>
    /\ msg' = [msg EXCEPT ![w] = Head(queues[h])]
    /\ queues' = [queues EXCEPT ![h] = Tail(@)]
    /\ Goto(w, FirstStage(Head(queues[h]).kind))
    /\ UNCHANGED <<cluster, store, doc, todo, counters>>

(* The process dies: the message is delivered again, and fetch_services    *)
(* runs again.                                                             *)
Crash(w) ==
    /\ crashes < MaxCrashes
    /\ stage[w] # "idle"
    /\ crashes' = crashes + 1
    /\ Goto(w, FirstStage(msg[w].kind))
    /\ doc' = [doc EXCEPT ![w] = NoDoc]
    /\ todo' = [todo EXCEPT ![w] = << >>]
    /\ IF msg[w].kind = "boot" THEN UNCHANGED queues ELSE Send("boot", NoMessage)
    /\ UNCHANGED <<cluster, store, msg, inputs, failures>>

-----------------------------------------------------------------------------
(* fetch_services, monitor, unmonitor_service                              *)

(* Nothing is done unless the collection is empty.                         *)
FetchServices(w) ==
    /\ stage[w] = "boot"
    /\ \/ (DOMAIN docs # {} \/ DOMAIN docker = {}) /\ Finish(w)
       \/ /\ DOMAIN docs = {} /\ DOMAIN docker # {}
          /\ todo' = [todo EXCEPT ![w] = docker]
          /\ Goto(w, "next")
          /\ UNCHANGED <<msg, doc>>
    /\ UNCHANGED <<cluster, store, queues, counters>>

(* The services with a scale_config, in docker's order, are monitored; one *)
(* whose image cannot be run is passed over.                               *)
FetchNext(w) ==
    /\ stage[w] = "next"
    /\ \/ DOMAIN todo[w] = {} /\ Finish(w) /\ UNCHANGED failures
       \/ \E s \in DOMAIN todo[w] :
             /\ todo' = [todo EXCEPT ![w] = Without(@, s)]
             /\ \/ /\ ConfigOf[todo[w][s].image] # NoConfig
                   /\ msg' = [msg EXCEPT ![w].service = s]
                   /\ Goto(w, "get")
                   /\ UNCHANGED <<doc, failures>>
                \/ /\ \/ ConfigOf[todo[w][s].image] = NoConfig /\ UNCHANGED failures
                      \/ failures < MaxFailures /\ failures' = failures + 1
                   /\ UNCHANGED <<stage, msg, doc>>
    /\ UNCHANGED <<cluster, store, queues, inputs, crashes>>

(* monitor: what docker runs now, and the scale_config of its image.  A    *)
(* service docker does not know raises.                                    *)
GetService(w) ==
    LET s == msg[w].service
    IN /\ stage[w] = "get"
       /\ \/ s \notin DOMAIN docker /\ Finish(w) /\ UNCHANGED failures
          \/ s \in DOMAIN docker /\ Fail(w)
          \/ /\ s \in DOMAIN docker
             /\ doc' = [doc EXCEPT ![w] = NewDoc(docker[s], 0)]
             /\ Goto(w, "store")
             /\ UNCHANGED <<msg, todo, failures>>
       /\ UNCHANGED <<cluster, store, queues, inputs, crashes>>

(* The document is replaced, which keeps its _id, or inserted.             *)
StoreMonitored(w) ==
    LET s == msg[w].service
    IN /\ stage[w] = "store"
       /\ \/ /\ s \in DOMAIN docs
             /\ docs' = Store(docs, s, [doc[w] EXCEPT !.id = docs[s].id])
             /\ UNCHANGED nextId
          \/ /\ s \notin DOMAIN docs
             /\ docs' = Store(docs, s, [doc[w] EXCEPT !.id = nextId])
             /\ nextId' = nextId + 1
       /\ Goto(w, "announce")
       /\ UNCHANGED <<cluster, view, queues, msg, doc, todo, counters>>

(* The load manager is told, and an update without a diff announced, which *)
(* check_new_scale_config ignores.                                         *)
AnnounceMonitored(w) ==
    LET s == msg[w].service
    IN /\ stage[w] = "announce"
       /\ view' = Store(view, s, [data |-> doc[w].data, config |-> doc[w].config])
       /\ \/ msg[w].kind = "monitor" /\ Finish(w)
          \/ msg[w].kind = "boot" /\ Goto(w, "next") /\ UNCHANGED <<msg, doc, todo>>
       /\ UNCHANGED <<cluster, docs, nextId, queues, counters>>

Unmonitor(w) ==
    /\ stage[w] = "forget"
    /\ docs' = Without(docs, msg[w].service)
    /\ Finish(w)
    /\ UNCHANGED <<cluster, nextId, view, queues, counters>>

(* scale and upgrade_service: a service that is not monitored raises.      *)
UpdateService(w) ==
    LET m == msg[w]
    IN /\ stage[w] = "ask"
       /\ calls' = IF m.service \notin DOMAIN docs THEN calls
                   ELSE Append(calls, [kind |-> m.kind, service |-> m.service, data |-> m.data])
       /\ Finish(w)
       /\ UNCHANGED <<docker, updating, events, listening, missed, store, queues, counters>>

-----------------------------------------------------------------------------
(* on_service_updated, check_new_scale_config                              *)

ReadUpdated(w) ==
    LET s == msg[w].service
    IN /\ stage[w] = "read"
       /\ \/ s \notin DOMAIN docs /\ Finish(w)
          \/ /\ s \in DOMAIN docs
             /\ doc' = [doc EXCEPT ![w] = docs[s]]
             /\ Goto(w, "save")
             /\ UNCHANGED <<msg, todo>>
       /\ UNCHANGED <<cluster, store, queues, counters>>

Diff(w) == ComputeDiff(doc[w].data, msg[w].data, msg[w].completed)

(* The document that was read, if it is still there, gets the new state.   *)
SavedMode(w) ==                                      \* mutant: the image is left out
    [t \in DOMAIN docs |->
        IF t = msg[w].service /\ docs[t].id = doc[w].id
           THEN [docs[t] EXCEPT !.data.mode = msg[w].data.mode] ELSE docs[t]]
Saved(w) ==
    [t \in DOMAIN docs |->
        IF t = msg[w].service /\ docs[t].id = doc[w].id
           THEN [docs[t] EXCEPT !.data = msg[w].data] ELSE docs[t]]

SaveServiceStateFirst(w) ==                          \* mutant: saved before it is compared
    /\ stage[w] = "save"
    /\ docs' = Saved(w)
    /\ Finish(w)
    /\ UNCHANGED <<cluster, nextId, view, queues, counters>>
SaveServiceState(w) ==
    /\ stage[w] = "save"
    /\ docs' = Saved(w)
    /\ \/ Diff(w) = {} /\ Finish(w)
       \/ Diff(w) # {} /\ Goto(w, "dispatch") /\ UNCHANGED <<msg, doc, todo>>
    /\ UNCHANGED <<cluster, nextId, view, queues, counters>>

(* The subscribers that know the service follow the diff.  The overseer is *)
(* one of them, with the rest of the document as it was read; it ignores a *)
(* diff without an image.                                                  *)
Dispatch(w) ==
    LET s == msg[w].service
    IN /\ stage[w] = "dispatch"
       /\ view' = [t \in DOMAIN view |->
                      IF t = s THEN [view[t] EXCEPT !.data = Merge(@, Diff(w), msg[w].data)]
                      ELSE view[t]]
       /\ IF "image" \in Diff(w)
             THEN Send("own", [AnyMessage("own", s) EXCEPT
                                  !.data = msg[w].data, !.diff = Diff(w), !.config = doc[w].config])
             ELSE UNCHANGED queues
       /\ Finish(w)
       /\ UNCHANGED <<cluster, docs, nextId, counters>>

(* A new image may bring a new scale_config, compared with the one of the  *)
(* announcement.                                                           *)
NewConfigImage(m) == m.data.image                    \* mutant: the image is not run
NewConfig(m) == ConfigOf[m.data.image]

CheckNewScaleConfig(w) ==
    LET s == msg[w].service
        c == NewConfig(msg[w])
    IN /\ stage[w] = "check"
       /\ \/ msg[w].config = c /\ Finish(w) /\ UNCHANGED <<docs, failures>>
          \/ Fail(w) /\ UNCHANGED docs
          \/ /\ msg[w].config # c
             /\ docs' = [t \in DOMAIN docs |->
                            IF t = s THEN [docs[t] EXCEPT !.config = c] ELSE docs[t]]
             /\ Goto(w, "propagate")
             /\ UNCHANGED <<msg, doc, todo, failures>>
       /\ UNCHANGED <<cluster, nextId, view, queues, inputs, crashes>>

PropagateConfig(w) ==
    LET s == msg[w].service
        c == NewConfig(msg[w])
    IN /\ stage[w] = "propagate"
       /\ view' = [t \in DOMAIN view |->
                      IF t = s THEN [view[t] EXCEPT !.config = c] ELSE view[t]]
       /\ Finish(w)
       /\ UNCHANGED <<cluster, docs, nextId, queues, counters>>

-----------------------------------------------------------------------------
Work(w) ==
    \/ FetchServices(w) \/ FetchNext(w) \/ GetService(w) \/ StoreMonitored(w)
    \/ AnnounceMonitored(w) \/ Unmonitor(w) \/ UpdateService(w)
    \/ ReadUpdated(w) \/ SaveServiceState(w) \/ Dispatch(w)
    \/ CheckNewScaleConfig(w) \/ PropagateConfig(w)

(* Everything announced by docker, asked or announced was handled.         *)
Settled ==
    /\ events = << >> /\ calls = << >>
    /\ \A h \in Handlers : queues[h] = << >>
    /\ \A w \in Workers : stage[w] = "idle"

(* Nothing is left to do.                                                  *)
Quiet == Settled /\ updating = {} /\ inputs = MaxInputs /\ UNCHANGED vars

Next ==
    \/ \E s \in Services :
          \/ Completed(s) \/ Deploy(s) \/ RemoveFromDocker(s)
          \/ AskMonitor(s) \/ AskUpdate(s)
    \/ Listen \/ RestartScaler \/ Update \/ Quiet
    \/ \E w \in Workers : Work(w) \/ Crash(w) \/ \E h \in Handlers : Receive(w, h)

Spec == Init /\ [][Next]_vars

-----------------------------------------------------------------------------
(* Properties, for any number of workers                                   *)

(* The collection, the messages, the calls and the handlers' variables     *)
(* keep their types.                                                       *)
TypeOK ==
    /\ DOMAIN docker \subseteq Services
    /\ docker \in [DOMAIN docker -> State]
    /\ updating \subseteq DOMAIN docker
    /\ events \in Seq(Event)
    /\ listening \in BOOLEAN
    /\ missed \subseteq Services
    /\ calls \in Seq(Call)
    /\ DOMAIN docs \subseteq Services
    /\ docs \in [DOMAIN docs -> Doc]
    /\ nextId \in Nat
    /\ DOMAIN view \subseteq Services
    /\ view \in [DOMAIN view -> [data: State, config: Configs]]
    /\ queues \in [Handlers -> Seq(Message)]
    /\ stage \in [Workers -> Stages]
    /\ msg \in [Workers -> Message]
    /\ doc \in [Workers -> Doc]
    /\ DOMAIN todo = Workers
    /\ \A w \in Workers :
          DOMAIN todo[w] \subseteq Services /\ todo[w] \in [DOMAIN todo[w] -> State]
    /\ inputs \in Nat /\ failures \in Nat /\ crashes \in Nat

-----------------------------------------------------------------------------
(* Properties that need a single worker                                    *)

(* When everything was handled, the document of a service that docker runs *)
(* is what docker runs, unless it changed while nobody listened: monitor,  *)
(* which reads docker itself, and the updates under way do not undo each   *)
(* other, whatever crashes.                                                *)
KnownStateIsReal ==
    Settled => \A s \in (DOMAIN docs \cap DOMAIN docker) \ missed :
                  docs[s].data = docker[s]

(* When everything was handled and nothing crashed, the subscribers know   *)
(* of a monitored service what its document says: the diffs that were      *)
(* announced add up to the document, and no scale_config is stored without *)
(* being announced.                                                        *)
SubscribersKnow ==
    Settled /\ crashes = 0 =>
        \A s \in DOMAIN docs :
            /\ s \in DOMAIN view
            /\ view[s].data = docs[s].data
            /\ view[s].config = docs[s].config
=============================================================================
