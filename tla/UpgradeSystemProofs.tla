-------------------------- MODULE UpgradeSystemProofs --------------------------
(***************************************************************************)
(* Proofs about UpgradeSystem with a single worker of the planer and a     *)
(* single one of the overseer, for any services, versions, solver, images, *)
(* deployments, crashes and restarts.                                      *)
(***************************************************************************)
EXTENDS UpgradeSystem, UpgradePlanerProofs

Single(w, o) == Workers = {w} /\ Overseers = {o}

(* The messages of a queue, and the last one about service s, if any.      *)
Items(q) == {q[i] : i \in DOMAIN q}
Newest(q, s) ==
    {q[i] : i \in {j \in DOMAIN q : /\ q[j].service = s
                                   /\ \A l \in DOMAIN q : l > j => q[l].service # s}}

-----------------------------------------------------------------------------
(* What holds of docker, the overseer and the queue of the planer, whoever *)
(* deploys and whatever crashes                                            *)

(* No service is removed or added, so that scaler_docker goes on listening *)
(* until it restarts, and only a restart makes it miss an event.           *)
DockerOK ==
    /\ docker \in [Services -> O!State]
    /\ updating \subseteq Services
    /\ events \in Seq(O!Event)
    /\ calls \in Seq(O!Call)
    /\ \A c \in Items(calls) : c.kind = "upgrade"
    /\ listening = TRUE
    /\ restarts \in Nat
    /\ restarts = 0 => missed = {}

(* Every service is monitored, by the document it had at the start.        *)
DocsOK ==
    /\ docs \in [Services -> O!Doc]
    /\ \A s \in Services : docs[s].id = 1

(* A queue holds the messages of its handler; nobody calls the overseer    *)
(* but the planer, which waits for the answer.                             *)
QueuesOK ==
    /\ queues \in [O!Handlers -> Seq(O!Message)]
    /\ queues["rpc"] = << >>
    /\ \A h \in O!Handlers : \A m \in Items(queues[h]) : m.kind = h

MailOK == mail \in Seq(Message) /\ \A m \in Items(mail) : m.kind = "deployed"

(* The stages of the handler of a message of kind k.                       *)
OverseerStages(k) ==
    CASE k = "updated" -> {"read", "save", "dispatch"}
      [] k = "own" -> {"check", "propagate"}
      [] OTHER -> {"idle", "boot"}

(* While the only worker handles an update nobody else writes the document.*)
OverseerOK(o) ==
    /\ ostage \in [Overseers -> O!Stages]
    /\ omsg \in [Overseers -> O!Message]
    /\ doc \in [Overseers -> O!Doc]
    /\ omsg[o].kind \in {"updated", "own", "boot"}
    /\ ostage[o] \in OverseerStages(omsg[o].kind)
    /\ ostage[o] = "save" => doc[o] = docs[omsg[o].service]
    /\ ostage[o] = "dispatch" => docs[omsg[o].service].data = omsg[o].data

ClusterOK(o) == DockerOK /\ DocsOK /\ QueuesOK /\ MailOK /\ OverseerOK(o)

-----------------------------------------------------------------------------
(* Lemmas on the operators                                                 *)

LEMMA Appended ==
    ASSUME NEW S, NEW q \in Seq(S), NEW m \in S
    PROVE  /\ Append(q, m) \in Seq(S)
           /\ Items(Append(q, m)) = Items(q) \cup {m}
           /\ \A s : Newest(Append(q, m), s) = IF m.service = s THEN {m} ELSE Newest(q, s)
<1> DEFINE r == Append(q, m)
<1>1. /\ r \in Seq(S) /\ DOMAIN r = DOMAIN q \cup {Len(q) + 1} /\ r[Len(q) + 1] = m
      /\ \A i \in DOMAIN q : r[i] = q[i] /\ i \in Nat /\ i <= Len(q)
      /\ Len(q) \in Nat
  OBVIOUS
<1> HIDE DEF r
<1>2. Items(r) = Items(q) \cup {m}
  BY <1>1 DEF Items
<1>3. ASSUME NEW s, m.service = s PROVE Newest(r, s) = {m}
  <2> DEFINE n == Len(q) + 1
             ends == {j \in DOMAIN r : /\ r[j].service = s
                                     /\ \A l \in DOMAIN r : l > j => r[l].service # s}
  <2>1. n \in ends /\ \A j \in ends : j = n
    BY <1>1, <1>3
  <2>2. Newest(r, s) = {r[i] : i \in ends}
    BY DEF Newest
  <2> HIDE DEF ends
  <2> QED BY <1>1, <2>1, <2>2
<1>4. ASSUME NEW s, m.service # s PROVE Newest(r, s) = Newest(q, s)
  <2> DEFINE Ends(p) == {j \in DOMAIN p : /\ p[j].service = s
                                        /\ \A l \in DOMAIN p : l > j => p[l].service # s}
  <2>1. Ends(r) = Ends(q) /\ \A i \in Ends(q) : r[i] = q[i]
    BY <1>1, <1>4
  <2> QED BY <2>1 DEF Newest
<1> QED BY <1>1, <1>2, <1>3, <1>4 DEF r

LEMMA Removed ==
    ASSUME NEW S, NEW q \in Seq(S), q # << >>
    PROVE  /\ Tail(q) \in Seq(S) /\ Head(q) \in S
           /\ Items(q) = Items(Tail(q)) \cup {Head(q)}
           /\ \A s : Newest(q, s) = IF Newest(Tail(q), s) = {} /\ Head(q).service = s
                                     THEN {Head(q)} ELSE Newest(Tail(q), s)
           /\ Len(q) = 1 => Tail(q) = << >>
<1> DEFINE r == Tail(q)
<1>1. /\ r \in Seq(S) /\ Head(q) \in S /\ Head(q) = q[1]
      /\ Len(q) \in Nat /\ Len(q) > 0
      /\ DOMAIN q = 1 .. Len(q) /\ DOMAIN r = 1 .. Len(q) - 1
      /\ \A i \in DOMAIN r : r[i] = q[i + 1]
      /\ Len(q) = 1 => r = << >>
  <2>1. Len(q) \in Nat /\ Len(q) > 0 /\ DOMAIN q = 1 .. Len(q)
    OBVIOUS
  <2>2. r \in Seq(S) /\ Len(r) = Len(q) - 1 /\ DOMAIN r = 1 .. Len(q) - 1
    OBVIOUS
  <2>3. \A i \in 1 .. Len(q) - 1 : r[i] = q[i + 1]
    OBVIOUS
  <2>4. Head(q) \in S /\ Head(q) = q[1]
    OBVIOUS
  <2>5. Len(q) = 1 => r = << >>
    BY <2>2
  <2> QED BY <2>1, <2>2, <2>3, <2>4, <2>5
<1>2. /\ \A i \in DOMAIN q : i # 1 => i - 1 \in DOMAIN r /\ q[i] = r[i - 1]
      /\ \A i \in DOMAIN r : i + 1 \in DOMAIN q /\ i + 1 # 1
  BY <1>1
<1> HIDE DEF r
<1>3. Items(q) = Items(r) \cup {Head(q)}
  BY <1>1, <1>2 DEF Items
<1>4. ASSUME NEW s
      PROVE  Newest(q, s) = IF Newest(r, s) = {} /\ Head(q).service = s
                               THEN {Head(q)} ELSE Newest(r, s)
  <2> DEFINE Ends(p) == {j \in DOMAIN p : /\ p[j].service = s
                                        /\ \A l \in DOMAIN p : l > j => p[l].service # s}
  <2>1. ASSUME NEW j \in DOMAIN r PROVE j \in Ends(r) <=> j + 1 \in Ends(q)
    <3>1. j \in Nat /\ j + 1 \in DOMAIN q /\ r[j] = q[j + 1]
      BY <1>1, <1>2
    <3>2. ASSUME \A l \in DOMAIN r : l > j => r[l].service # s, NEW l \in DOMAIN q, l > j + 1
          PROVE  q[l].service # s
      <4>1. l \in Nat /\ l # 1 /\ l - 1 > j
        BY <1>1, <3>1, <3>2
      <4>2. l - 1 \in DOMAIN r /\ q[l] = r[l - 1]
        BY <1>2, <3>2, <4>1
      <4> QED BY <3>2, <4>1, <4>2
    <3>3. ASSUME \A l \in DOMAIN q : l > j + 1 => q[l].service # s, NEW l \in DOMAIN r, l > j
          PROVE  r[l].service # s
      BY <1>1, <1>2, <3>1, <3>3
    <3> QED BY <3>1, <3>2, <3>3
  <2>2. 1 \in Ends(q) <=> q[1].service = s /\ \A l \in DOMAIN r : r[l].service # s
    BY <1>1, <1>2
  <2>3. Ends(r) = {} <=> \A l \in DOMAIN r : r[l].service # s
    <3>1. SUFFICES ASSUME NEW l \in DOMAIN r, r[l].service = s PROVE Ends(r) # {}
      OBVIOUS
    <3> DEFINE T == {l2 \in DOMAIN r : r[l2].service = s}
               N == {Len(q) - l2 : l2 \in T}
    <3>2. N \in SUBSET Nat /\ N # {}
      BY <1>1, <3>1
    <3>3. PICK x \in N : \A y \in N : x <= y
      <4> HIDE DEF N
      <4> QED BY <3>2, LeastElement
    <3>4. PICK j \in T : x = Len(q) - j
      BY <3>3
    <3>5. \A l2 \in T : Len(q) - j <= Len(q) - l2
      BY <3>3, <3>4
    <3>6. j \in Ends(r)
      BY <1>1, <3>4, <3>5
    <3> QED BY <3>6
  <2>4. Newest(q, s) = {q[i] : i \in Ends(q)} /\ Newest(r, s) = {r[i] : i \in Ends(r)}
    BY DEF Newest
  <2>5. Newest(r, s) = {} <=> Ends(r) = {}
    BY <2>4
  <2>6. /\ Ends(q) \subseteq DOMAIN q /\ Ends(r) \subseteq DOMAIN r
        /\ \A i \in Ends(q) : q[i].service = s
        /\ \A i \in Ends(q) : i # 1 => i - 1 \in Ends(r) /\ q[i] = r[i - 1]
        /\ \A i \in Ends(r) : i + 1 \in Ends(q) /\ r[i] = q[i + 1]
    <3>1. ASSUME NEW i \in Ends(q), i # 1 PROVE i - 1 \in Ends(r) /\ q[i] = r[i - 1]
      <4>1. i \in DOMAIN q /\ i - 1 \in DOMAIN r /\ q[i] = r[i - 1] /\ (i - 1) + 1 = i
        BY <1>1, <1>2, <3>1
      <4> HIDE DEF Ends
      <4> QED BY <2>1, <3>1, <4>1
    <3> QED BY <1>1, <2>1, <3>1
  <2> HIDE DEF Ends
  <2>7. CASE Ends(r) = {}
    <3>1. Ends(q) \subseteq {1}
      BY <2>6, <2>7
    <3> QED BY <1>1, <2>2, <2>3, <2>4, <2>5, <2>6, <2>7, <3>1
  <2>8. CASE Ends(r) # {}
    <3>1. 1 \notin Ends(q)
      BY <2>2, <2>3, <2>8
    <3>2. {q[i] : i \in Ends(q)} = {r[i] : i \in Ends(r)}
      BY <2>6, <3>1
    <3> QED BY <2>4, <2>5, <2>8, <3>2
  <2> QED BY <2>7, <2>8
<1> QED BY <1>1, <1>3, <1>4 DEF r

LEMMA Emptied == Items(<< >>) = {} /\ \A s : Newest(<< >>, s) = {}
  BY DEF Items, Newest

LEMMA SomeState == O!AnyState \in O!State
<1>1. PICK v \in Versions : TRUE
  BY ConstantsAssumption
<1>2. [image |-> v, mode |-> Global] \in O!State
  BY DEF O!State, O!Modes
<1> QED BY <1>2 DEF O!AnyState

LEMMA ConfigType == \A v \in Versions : ConfigOf[v] \in O!Configs
  BY DEF O!Configs

LEMMA OverseerMessage ==
    ASSUME NEW k \in O!Kinds, NEW s \in Services
    PROVE  O!AnyMessage(k, s) \in O!Message
<1>1. O!AnyState.image \in Versions
  BY SomeState DEF O!State
<1> QED BY <1>1, SomeState, ConfigType DEF O!AnyMessage, O!Message

LEMMA OverseerNeutral ==
    /\ O!NoMessage \in O!Message /\ O!NoMessage.kind = "boot"
    /\ O!NoDoc \in O!Doc
<1>1. (CHOOSE s \in Services : TRUE) \in Services
  BY ConstantsAssumption
<1>2. O!NoMessage \in O!Message
  BY <1>1, OverseerMessage DEF O!NoMessage, O!Kinds
<1>3. O!AnyState.image \in Versions
  BY SomeState DEF O!State
<1> QED BY <1>2, <1>3, SomeState, ConfigType
        DEF O!NoMessage, O!AnyMessage, O!NoDoc, O!NewDoc, O!Doc

LEMMA OverseerFinish ==
    ASSUME NEW w, NEW o, Single(w, o), OverseerOK(o), O!Finish(o)
    PROVE  /\ ostage' \in [Overseers -> O!Stages] /\ ostage'[o] = "idle"
           /\ omsg' \in [Overseers -> O!Message] /\ omsg'[o].kind = "boot"
           /\ doc' \in [Overseers -> O!Doc]
           /\ OverseerOK(o)'
<1>1. /\ ostage' \in [Overseers -> O!Stages] /\ ostage'[o] = "idle"
      /\ omsg' \in [Overseers -> O!Message] /\ omsg'[o].kind = "boot"
      /\ doc' \in [Overseers -> O!Doc]
  BY OverseerNeutral DEF O!Finish, O!Goto, OverseerOK, Single, O!Stages
<1>2. OverseerStages("boot") = {"idle", "boot"}
  BY DEF OverseerStages
<1> QED BY <1>1, <1>2 DEF OverseerOK
-----------------------------------------------------------------------------
(* Steps of docker and scaler_docker                                       *)

dockerVars == <<docker, updating, events, listening, missed, calls>>
overseerVars == <<docs, queues, ostage, omsg, doc, restarts>>

(* Service s gets state d, and docker tells the listener.                  *)
Changes(s, d) ==
    /\ s \in Services /\ d \in O!State
    /\ docker' = [docker EXCEPT ![s] = d]
    /\ updating' = IF d.image # docker[s].image THEN updating \cup {s} ELSE updating
    /\ events' = Append(events, [service |-> s, completed |-> FALSE])
    /\ UNCHANGED <<listening, missed>>

LEMMA StateSet ==
    ASSUME NEW o, ClusterOK(o), NEW s \in Services, NEW d \in O!State, O!SetState(s, d),
           UNCHANGED listening
    PROVE  Changes(s, d)
  BY DEF O!SetState, O!Tell, Changes, ClusterOK, DockerOK

(* An update of docker passes an image on.                                 *)
LEMMA UpdateEffect ==
    ASSUME NEW o, ClusterOK(o), Update
    PROVE  /\ \E c \in Items(calls) :
                  Changes(c.service, [docker[c.service] EXCEPT !.image = c.data.image])
           /\ calls' \in Seq(O!Call) /\ Items(calls') \subseteq Items(calls)
           /\ Len(calls) = 1 => calls' = << >>
           /\ UNCHANGED <<overseerVars, planer, inputs, mail, history>>
<1>1. PICK i \in DOMAIN calls :
         LET s == calls[i].service
         IN /\ calls' = [j \in 1 .. Len(calls) - 1 |->
                            IF j < i THEN calls[j] ELSE calls[j + 1]]
            /\ \/ s \notin DOMAIN docker
               \/ calls[i].kind = "upgrade"
                    /\ O!SetState(s, [docker[s] EXCEPT !.image = calls[i].data.image])
               \/ calls[i].kind = "scale"
  BY DEF Update, O!Update
<1>2. UNCHANGED <<listening, overseerVars, planer, inputs, mail, history>>
  BY DEF Update, O!Update, O!store, O!locals, O!counters, overseerVars
<1>3. calls[i] \in Items(calls) /\ calls[i] \in O!Call /\ calls[i].kind = "upgrade"
  BY DEF Items, ClusterOK, DockerOK
<1> DEFINE c == calls[i]
           d == [docker[c.service] EXCEPT !.image = c.data.image]
<1>4. c.service \in Services /\ c.service \in DOMAIN docker /\ d \in O!State
  BY <1>3 DEF O!Call, O!State, ClusterOK, DockerOK
<1>5. Changes(c.service, d)
  BY <1>1, <1>2, <1>3, <1>4, StateSet
<1>6. calls \in Seq(O!Call)
  BY DEF ClusterOK, DockerOK
<1>7. /\ calls' \in [1 .. Len(calls) - 1 -> O!Call]
      /\ \A j \in 1 .. Len(calls) - 1 : \E k \in DOMAIN calls : calls'[j] = calls[k]
      /\ Len(calls) - 1 \in Nat
  BY <1>1, <1>6
<1>8. Items(calls') \subseteq Items(calls)
  BY <1>7 DEF Items
<1>9. calls' \in Seq(O!Call) /\ (Len(calls) = 1 => calls' = << >>)
  <2>1. calls' \in Seq(O!Call) /\ Len(calls') = Len(calls) - 1
    BY <1>7
  <2> QED BY <2>1
<1> QED BY <1>2, <1>3, <1>5, <1>8, <1>9

LEMMA DeployEffect ==
    ASSUME NEW o, ClusterOK(o), NEW s \in Services, DeployByHand(s)
    PROVE  /\ \E d \in O!State : d.mode = docker[s].mode /\ Changes(s, d)
           /\ inputs' = inputs + 1
           /\ interference' = interference \cup {"deployed"}
           /\ UNCHANGED <<calls, overseerVars, planer, mail, outdated>>
<1>1. PICK d \in O!State : O!SetState(s, d)
  BY DEF DeployByHand, O!Deploy
<1>2. /\ docker'[s].mode = docker[s].mode /\ docker' = [docker EXCEPT ![s] = d]
      /\ UNCHANGED listening
      /\ inputs' = inputs + 1
      /\ interference' = interference \cup {"deployed"}
      /\ UNCHANGED <<calls, overseerVars, planer, mail, outdated>>
  BY <1>1 DEF DeployByHand, O!Deploy, O!Environment, O!SetState, O!store, O!locals,
              overseerVars
<1>3. Changes(s, d) /\ d.mode = docker[s].mode
  BY <1>1, <1>2, StateSet DEF ClusterOK, DockerOK
<1> QED BY <1>2, <1>3

LEMMA CompleteEffect ==
    ASSUME NEW o, ClusterOK(o), Complete
    PROVE  \E s \in updating :
               /\ updating' = updating \ {s}
               /\ events' = Append(events, [service |-> s, completed |-> TRUE])
               /\ UNCHANGED <<docker, calls, listening, missed, overseerVars,
                              planer, inputs, mail, history>>
  BY DEF Complete, O!Completed, O!Tell, ClusterOK, DockerOK, O!store, O!locals, O!counters,
         overseerVars

(* The listener reads the service when it handles the event.               *)
LEMMA ListenEffect ==
    ASSUME NEW o, ClusterOK(o), Listen
    PROVE  \E m \in O!Message :
               /\ m.kind = "updated"
               /\ m.service = Head(events).service /\ m.data = docker[m.service]
               /\ events # << >> /\ events' = Tail(events)
               /\ queues' = [queues EXCEPT !["updated"] = Append(@, m)]
               /\ UNCHANGED <<docker, updating, calls, listening, missed, docs, ostage,
                              omsg, doc, restarts, planer, inputs, mail, history>>
<1> DEFINE s == Head(events).service
           m == [O!AnyMessage("updated", s) EXCEPT !.data = docker[s],
                                                   !.completed = Head(events).completed]
<1>1. events # << >>
  BY DEF Listen, O!Listen
<1>2. Head(events) \in O!Event
  BY <1>1, Removed DEF ClusterOK, DockerOK
<1>3. s \in Services /\ s \in DOMAIN docker /\ docker[s] \in O!State
      /\ Head(events).completed \in BOOLEAN
  BY <1>2 DEF ClusterOK, DockerOK, O!Event
<1>4. O!AnyMessage("updated", s) \in O!Message
  BY <1>3, OverseerMessage DEF O!Kinds
<1>5. /\ m \in O!Message /\ m.kind = "updated" /\ m.service = s /\ m.data = docker[s]
  BY <1>3, <1>4 DEF O!Message, O!AnyMessage
<1>6. /\ events' = Tail(events)
      /\ queues' = [queues EXCEPT !["updated"] = Append(@, m)]
      /\ UNCHANGED <<docker, updating, calls, listening, missed, docs, ostage,
                     omsg, doc, restarts, planer, inputs, mail, history>>
  BY <1>3 DEF Listen, O!Listen, O!Send, O!store, O!locals, O!counters
<1> HIDE DEF m
<1> QED BY <1>1, <1>5, <1>6

LEMMA ScalerEffect ==
    ASSUME NEW o, ClusterOK(o), ScalerRestart
    PROVE  /\ restarts' = restarts + 1 /\ listening' = TRUE /\ events' = << >>
           /\ UNCHANGED <<docker, updating, calls, docs, queues, ostage, omsg, doc,
                          planer, inputs, mail, history>>
  BY DEF ScalerRestart, O!RestartScaler, O!store, O!locals
-----------------------------------------------------------------------------
(* Steps of the overseer                                                   *)

(* The only worker takes the oldest message of a queue.                    *)
LEMMA TakenEffect ==
    ASSUME NEW w, NEW o, Single(w, o), ClusterOK(o), NEW h \in O!Handlers, O!Receive(o, h),
           UNCHANGED <<planer, mail, history>>
    PROVE  /\ h \in {"updated", "own", "boot"} /\ queues[h] # << >>
           /\ LET m == Head(queues[h])
              IN /\ m \in O!Message /\ m.kind = h
                 /\ omsg' = [omsg EXCEPT ![o] = m] /\ omsg'[o] = m
           /\ queues' = [queues EXCEPT ![h] = Tail(@)]
           /\ ostage[o] = "idle" /\ omsg[o].kind = "boot"
           /\ ostage' \in [Overseers -> O!Stages]
           /\ ostage'[o] = CASE h = "updated" -> "read" [] h = "own" -> "check"
                             [] OTHER -> "boot"
           /\ UNCHANGED <<dockerVars, docs, doc, restarts, inputs, planer, mail, history>>
<1>1. ostage[o] = "idle" /\ queues[h] # << >>
  BY DEF O!Receive
<1>2. omsg[o].kind = "boot"
  BY <1>1 DEF ClusterOK, OverseerOK, OverseerStages
<1>3. /\ Head(queues[h]) \in O!Message /\ Head(queues[h]).kind = h
      /\ h \in {"updated", "own", "boot"}
  <2>1. queues[h] \in Seq(O!Message)
    BY DEF ClusterOK, QueuesOK
  <2>2. Head(queues[h]) \in O!Message /\ Head(queues[h]) \in Items(queues[h])
    BY <1>1, <2>1, Removed
  <2> QED BY <1>1, <2>2 DEF ClusterOK, QueuesOK, O!Handlers
<1>4. O!FirstStage(h) = CASE h = "updated" -> "read" [] h = "own" -> "check" [] OTHER -> "boot"
  BY <1>3 DEF O!FirstStage
<1>5. /\ omsg' = [omsg EXCEPT ![o] = Head(queues[h])]
      /\ ostage' = [ostage EXCEPT ![o] = O!FirstStage(h)]
      /\ queues' = [queues EXCEPT ![h] = Tail(@)]
      /\ UNCHANGED <<dockerVars, docs, doc, restarts, inputs, planer, mail, history>>
  BY <1>3 DEF O!Receive, O!Goto, O!cluster, O!store, O!counters, dockerVars
<1>6. /\ omsg'[o] = Head(queues[h]) /\ ostage'[o] = O!FirstStage(h)
      /\ ostage' \in [Overseers -> O!Stages]
  BY <1>3, <1>4, <1>5 DEF ClusterOK, OverseerOK, Single, O!Stages
<1> QED BY <1>1, <1>2, <1>3, <1>4, <1>5, <1>6

(* fetch_services finds the collection filled.                             *)
LEMMA BootEffect ==
    ASSUME NEW w, NEW o, Single(w, o), ClusterOK(o), O!FetchServices(o),
           UNCHANGED <<planer, mail, history>>
    PROVE  /\ O!Finish(o)
           /\ ostage[o] = "boot" /\ omsg[o].kind = "boot"
           /\ UNCHANGED <<dockerVars, docs, queues, restarts, inputs, planer, mail, history>>
<1>1. DOMAIN docs # {}
  BY ConstantsAssumption DEF ClusterOK, DocsOK
<1>2. ostage[o] = "boot" /\ omsg[o].kind = "boot"
  BY DEF O!FetchServices, ClusterOK, OverseerOK, OverseerStages
<1> QED BY <1>1, <1>2 DEF O!FetchServices, O!cluster, O!store, O!counters, dockerVars

LEMMA ReadEffect ==
    ASSUME NEW w, NEW o, Single(w, o), ClusterOK(o), O!ReadUpdated(o),
           UNCHANGED <<planer, mail, history>>
    PROVE  /\ ostage[o] = "read" /\ omsg[o].kind = "updated" /\ omsg[o].service \in Services
           /\ doc' = [doc EXCEPT ![o] = docs[omsg[o].service]]
           /\ ostage' = [ostage EXCEPT ![o] = "save"] /\ ostage'[o] = "save"
           /\ UNCHANGED <<dockerVars, docs, queues, omsg, restarts, inputs, planer, mail,
                          history>>
<1>1. ostage[o] = "read" /\ omsg[o].kind = "updated" /\ omsg[o].service \in Services
  BY DEF O!ReadUpdated, ClusterOK, OverseerOK, OverseerStages, Single, O!Message
<1>2. omsg[o].service \in DOMAIN docs
  BY <1>1 DEF ClusterOK, DocsOK
<1> QED
  BY <1>1, <1>2 DEF O!ReadUpdated, O!Goto, O!cluster, O!store, O!counters, dockerVars,
                    ClusterOK, OverseerOK, Single

(* The document was not written since it was read, and gets the new state. *)
LEMMA SaveEffect ==
    ASSUME NEW w, NEW o, Single(w, o), ClusterOK(o), O!SaveServiceState(o),
           UNCHANGED <<planer, mail, history>>
    PROVE  LET s == omsg[o].service
           IN /\ ostage[o] = "save" /\ omsg[o].kind = "updated" /\ s \in Services
              /\ docs' = [docs EXCEPT ![s].data = omsg[o].data]
              /\ \/ /\ O!Finish(o) /\ docs[s].data.image = omsg[o].data.image
                 \/ /\ ostage' = [ostage EXCEPT ![o] = "dispatch"]
                    /\ ostage'[o] = "dispatch" /\ UNCHANGED <<omsg, doc>>
              /\ UNCHANGED <<dockerVars, queues, restarts, inputs, planer, mail, history>>
<1> DEFINE s == omsg[o].service
<1>1. /\ ostage[o] = "save" /\ omsg[o].kind = "updated" /\ s \in Services
      /\ doc[o] = docs[s]
  BY DEF O!SaveServiceState, ClusterOK, OverseerOK, OverseerStages, Single, O!Message
<1>2. docs' = [docs EXCEPT ![s].data = omsg[o].data]
  BY <1>1 DEF O!SaveServiceState, O!Saved, ClusterOK, DocsOK
<1>3. O!Diff(o) = {} => docs[s].data.image = omsg[o].data.image
  BY <1>1 DEF O!Diff, O!ComputeDiff, O!Keys
<1> QED
  BY <1>1, <1>2, <1>3 DEF O!SaveServiceState, O!Goto, O!cluster, O!store, O!counters,
                          dockerVars, ClusterOK, OverseerOK, Single

(* The planer is told; so is the overseer itself if the image is another   *)
(* one.                                                                    *)
LEMMA DispatchEffect ==
    ASSUME NEW w, NEW o, Single(w, o), ClusterOK(o), O!Dispatch(o), DispatchUpdated(o)
    PROVE  /\ O!Finish(o)
           /\ ostage[o] = "dispatch" /\ omsg[o].kind = "updated"
           /\ omsg[o].service \in Services
           /\ \E b \in BOOLEAN :
                 mail' = Append(mail, ServiceUpdated(omsg[o].service, omsg[o].data, b))
           /\ \/ UNCHANGED queues
              \/ \E m \in O!Message :
                    /\ m.kind = "own" /\ m.service = omsg[o].service
                    /\ m.data = omsg[o].data
                    /\ queues' = [queues EXCEPT !["own"] = Append(@, m)]
           /\ UNCHANGED <<dockerVars, docs, restarts, inputs, planer, history>>
<1> DEFINE s == omsg[o].service
           m == [O!AnyMessage("own", s) EXCEPT !.data = omsg[o].data, !.diff = O!Diff(o),
                                               !.config = doc[o].config]
<1>1. /\ ostage[o] = "dispatch" /\ omsg[o].kind = "updated" /\ s \in Services
      /\ omsg[o].data \in O!State /\ doc[o] \in O!Doc
  BY DEF O!Dispatch, ClusterOK, OverseerOK, OverseerStages, Single, O!Message
<1>2. ~ O!PropagateConfig(o)
  BY <1>1 DEF O!PropagateConfig
<1>3. m \in O!Message /\ m.kind = "own" /\ m.service = s /\ m.data = omsg[o].data
  <2>1. O!AnyMessage("own", s) \in O!Message
    BY <1>1, OverseerMessage DEF O!Kinds
  <2> QED BY <1>1, <2>1 DEF O!Message, O!AnyMessage, O!Doc, O!Diff, O!ComputeDiff
<1>4. UNCHANGED queues \/ queues' = [queues EXCEPT !["own"] = Append(@, m)]
  BY DEF O!Dispatch, O!Send
<1>5. \/ UNCHANGED queues
      \/ \E n \in O!Message :
            /\ n.kind = "own" /\ n.service = s /\ n.data = omsg[o].data
            /\ queues' = [queues EXCEPT !["own"] = Append(@, n)]
  <2> HIDE DEF m
  <2> QED BY <1>3, <1>4
<1>6. O!Finish(o) /\ UNCHANGED <<dockerVars, docs, restarts, inputs>>
  BY DEF O!Dispatch, O!cluster, O!counters, dockerVars
<1>7. /\ mail' = Append(mail, ServiceUpdated(s, omsg[o].data, "state" \in O!Diff(o)))
      /\ UNCHANGED <<planer, history>>
  BY <1>2 DEF DispatchUpdated, history
<1>8. ("state" \in O!Diff(o)) \in BOOLEAN
  OBVIOUS
<1> QED BY <1>1, <1>5, <1>6, <1>7, <1>8

LEMMA CheckEffect ==
    ASSUME NEW w, NEW o, Single(w, o), ClusterOK(o), O!CheckNewScaleConfig(o),
           UNCHANGED <<planer, mail, history>>
    PROVE  /\ ostage[o] = "check" /\ omsg[o].kind = "own" /\ omsg[o].service \in Services
           /\ docs' \in [Services -> O!Doc]
           /\ \A s \in Services : docs'[s].data = docs[s].data /\ docs'[s].id = docs[s].id
           /\ \/ O!Finish(o)
              \/ /\ ostage' = [ostage EXCEPT ![o] = "propagate"]
                 /\ ostage'[o] = "propagate" /\ UNCHANGED <<omsg, doc>>
           /\ UNCHANGED <<dockerVars, queues, restarts, inputs, planer, mail, history>>
<1>1. /\ ostage[o] = "check" /\ omsg[o].kind = "own" /\ omsg[o].service \in Services
      /\ omsg[o].data.image \in Versions
  BY DEF O!CheckNewScaleConfig, ClusterOK, OverseerOK, OverseerStages, Single, O!Message,
         O!State
<1>2. O!NewConfig(omsg[o]) \in O!Configs
  BY <1>1, ConfigType DEF O!NewConfig
<1>3. /\ docs' \in [Services -> O!Doc]
      /\ \A s \in Services : docs'[s].data = docs[s].data /\ docs'[s].id = docs[s].id
  <2>1. CASE UNCHANGED docs
    BY <2>1 DEF ClusterOK, DocsOK
  <2>2. CASE docs' = [t \in DOMAIN docs |->
                        IF t = omsg[o].service
                           THEN [docs[t] EXCEPT !.config = O!NewConfig(omsg[o])] ELSE docs[t]]
    BY <1>2, <2>2 DEF ClusterOK, DocsOK, O!Doc
  <2> QED BY <2>1, <2>2 DEF O!CheckNewScaleConfig
<1> QED
  BY <1>1, <1>3 DEF O!CheckNewScaleConfig, O!Fail, O!Goto, O!cluster, dockerVars,
                    ClusterOK, OverseerOK, Single

LEMMA PropagateEffect ==
    ASSUME NEW w, NEW o, Single(w, o), ClusterOK(o), O!PropagateConfig(o), DispatchUpdated(o)
    PROVE  LET s == omsg[o].service
           IN /\ O!Finish(o)
              /\ ostage[o] = "propagate" /\ omsg[o].kind = "own" /\ s \in Services
              /\ mail' = Append(mail, ServiceUpdated(s, omsg[o].data, FALSE))
              /\ outdated' = IF docs[s].data.image # omsg[o].data.image
                                THEN outdated \cup {s} ELSE outdated
              /\ UNCHANGED <<dockerVars, docs, queues, restarts, inputs, planer, interference>>
<1>1. /\ ostage[o] = "propagate" /\ omsg[o].kind = "own" /\ omsg[o].service \in Services
  BY DEF O!PropagateConfig, ClusterOK, OverseerOK, OverseerStages, Single, O!Message
<1>2. omsg[o].service \in DOMAIN docs
  BY <1>1 DEF ClusterOK, DocsOK
<1>3. ~ O!Dispatch(o)
  BY <1>1 DEF O!Dispatch
<1> QED
  BY <1>1, <1>2, <1>3 DEF DispatchUpdated, O!PropagateConfig, O!cluster, O!counters,
                          dockerVars

LEMMA OverseerCrashEffect ==
    ASSUME NEW w, NEW o, Single(w, o), ClusterOK(o), OverseerCrash(o)
    PROVE  /\ restarts' = restarts + 1
           /\ ostage[o] # "idle"
           /\ ostage' \in [Overseers -> O!Stages] /\ doc' \in [Overseers -> O!Doc]
           /\ ostage'[o] = CASE omsg[o].kind = "updated" -> "read"
                             [] omsg[o].kind = "own" -> "check" [] OTHER -> "boot"
           /\ \/ UNCHANGED queues
              \/ \E m \in O!Message :
                    /\ m.kind = "boot"
                    /\ queues' = [queues EXCEPT !["boot"] = Append(@, m)]
           /\ UNCHANGED <<dockerVars, docs, omsg, inputs, planer, mail, history>>
<1>1. /\ O!FirstStage(omsg[o].kind) = CASE omsg[o].kind = "updated" -> "read"
                             [] omsg[o].kind = "own" -> "check" [] OTHER -> "boot"
      /\ O!FirstStage(omsg[o].kind) \in O!Stages
  BY DEF O!FirstStage, O!Stages, ClusterOK, OverseerOK
<1>2. /\ ostage' = [ostage EXCEPT ![o] = O!FirstStage(omsg[o].kind)]
      /\ doc' = [doc EXCEPT ![o] = O!NoDoc]
      /\ UNCHANGED queues \/ queues' = [queues EXCEPT !["boot"] = Append(@, O!NoMessage)]
      /\ restarts' = restarts + 1 /\ ostage[o] # "idle"
      /\ UNCHANGED <<dockerVars, docs, omsg, inputs, planer, mail, history>>
  BY DEF OverseerCrash, O!Crash, O!Goto, O!Send, O!cluster, O!store, dockerVars
<1> QED
  BY <1>1, <1>2, OverseerNeutral DEF ClusterOK, OverseerOK, Single
-----------------------------------------------------------------------------
(* The steps of the system                                                 *)

OverseerHandler(o) ==
    /\ \/ \E h \in O!Handlers : O!Receive(o, h)
       \/ O!FetchServices(o) \/ O!ReadUpdated(o) \/ O!SaveServiceState(o)
       \/ O!CheckNewScaleConfig(o)
    /\ UNCHANGED <<planer, mail, history>>

ClusterStep(o) ==
    \/ Listen \/ Update \/ Complete \/ ScalerRestart
    \/ \E s \in Services : DeployByHand(s)
    \/ OverseerHandler(o) \/ OverseerCrash(o)
    \/ DispatchUpdated(o) /\ O!Dispatch(o)
    \/ DispatchUpdated(o) /\ O!PropagateConfig(o)

PlanerMoves(w) ==
    \/ PlanerStep(w) \/ CallUpgrade(w) \/ TakeMail(w)
    \/ TakeCheck(w) \/ AskUpgrade(w) \/ PlanerCrash(w)

(* The overseer never reaches the handlers of its RPCs.                    *)
LEMMA SystemSteps ==
    ASSUME NEW w, NEW o, Single(w, o), ClusterOK(o), [SystemNext]_systemVars
    PROVE  ClusterStep(o) \/ PlanerMoves(w) \/ UNCHANGED systemVars
<1>1. ostage[o] \notin {"next", "get", "store", "announce", "forget", "ask"}
  BY DEF ClusterOK, OverseerOK, OverseerStages
<1>2. OverseerStep(o) => ClusterStep(o)
  <2> SUFFICES ASSUME OverseerStep(o) PROVE ClusterStep(o)
    OBVIOUS
  <2>1. CASE DispatchUpdated(o)
    BY <2>1 DEF DispatchUpdated, ClusterStep
  <2>2. CASE /\ ostage[o] \notin {"dispatch", "propagate"}
             /\ O!Work(o) \/ \E h \in O!Handlers : O!Receive(o, h)
             /\ UNCHANGED <<planer, mail, history>>
    <3>1. ~ O!FetchNext(o) /\ ~ O!GetService(o) /\ ~ O!StoreMonitored(o)
          /\ ~ O!AnnounceMonitored(o) /\ ~ O!Unmonitor(o) /\ ~ O!UpdateService(o)
      BY <1>1 DEF O!FetchNext, O!GetService, O!StoreMonitored, O!AnnounceMonitored,
                  O!Unmonitor, O!UpdateService
    <3>2. ~ O!Dispatch(o) /\ ~ O!PropagateConfig(o)
      BY <2>2 DEF O!Dispatch, O!PropagateConfig
    <3> QED BY <2>2, <3>1, <3>2 DEF O!Work, OverseerHandler, ClusterStep
  <2> QED BY <2>1, <2>2 DEF OverseerStep
<1>3. ASSUME NEW s \in Manual, DeployByHand(s) PROVE ClusterStep(o)
  <2>1. s \in Services
    BY <1>3 DEF DeployByHand, O!Deploy, ClusterOK, DockerOK
  <2> QED BY <1>3, <2>1 DEF ClusterStep
<1>4. SystemQuiet => UNCHANGED systemVars
  BY DEF SystemQuiet
<1> QED
  BY <1>2, <1>3, <1>4 DEF SystemNext, Internal, ClusterStep, PlanerMoves, Single

-----------------------------------------------------------------------------
(* Types                                                                   *)

LEMMA ClusterInit ==
    ASSUME NEW w, NEW o, Single(w, o) PROVE SystemInit => ClusterOK(o)
<1> SUFFICES ASSUME SystemInit PROVE ClusterOK(o)
  OBVIOUS
<1>1. \A s \in Services : docker[s] \in O!State
  BY SystemAssumption DEF SystemInit, O!InitWith, O!State, O!Modes
<1>2. docker \in [Services -> O!State] /\ DOMAIN docker = Services
  BY <1>1 DEF SystemInit, O!InitWith
<1>3. DockerOK
  BY <1>2, Emptied DEF SystemInit, O!InitWith, DockerOK
<1>4. \A s \in Services : O!NewDoc(docker[s], 1) \in O!Doc /\ O!NewDoc(docker[s], 1).id = 1
  <2> SUFFICES ASSUME NEW s \in Services
               PROVE  O!NewDoc(docker[s], 1) \in O!Doc /\ O!NewDoc(docker[s], 1).id = 1
    OBVIOUS
  <2>1. docker[s].image \in Versions
    BY <1>1 DEF O!State
  <2> QED BY <1>1, <2>1, ConfigType DEF O!NewDoc, O!Doc
<1>5. DocsOK
  BY <1>4 DEF SystemInit, O!InitWith, DocsOK
<1>6. queues = [h \in O!Handlers |-> << >>]
  BY ConstantsAssumption DEF SystemInit, O!InitWith
<1>7. QueuesOK
  BY <1>6, Emptied DEF QueuesOK, O!Handlers
<1>8. MailOK
  BY Emptied DEF SystemInit, MailOK
<1>9. OverseerOK(o)
  BY OverseerNeutral DEF SystemInit, O!InitWith, OverseerOK, OverseerStages, Single, O!Stages
<1> QED BY <1>3, <1>5, <1>7, <1>8, <1>9 DEF ClusterOK

LEMMA ClusterDocker ==
    ASSUME NEW o, ClusterOK(o),
           \/ Listen \/ Update \/ Complete \/ ScalerRestart
           \/ \E s \in Services : DeployByHand(s)
    PROVE  ClusterOK(o)'
<1>1. \A s \in Services, b \in BOOLEAN : [service |-> s, completed |-> b] \in O!Event
  BY DEF O!Event
<1>2. ASSUME UNCHANGED <<docs, queues, mail, ostage, omsg, doc>>
      PROVE  (DocsOK /\ QueuesOK /\ MailOK /\ OverseerOK(o))'
  BY <1>2 DEF ClusterOK, DocsOK, QueuesOK, MailOK, OverseerOK
<1>3. ASSUME NEW s, NEW d, Changes(s, d), UNCHANGED restarts,
             calls' \in Seq(O!Call), Items(calls') \subseteq Items(calls)
      PROVE  DockerOK'
  BY <1>1, <1>3, Appended DEF Changes, ClusterOK, DockerOK
<1>4. CASE Update
  BY <1>2, <1>3, <1>4, UpdateEffect DEF overseerVars, ClusterOK
<1>5. CASE \E s \in Services : DeployByHand(s)
  <2>1. PICK s \in Services, d \in O!State : Changes(s, d) /\ DeployByHand(s)
    BY <1>5, DeployEffect
  <2>2. UNCHANGED <<calls, overseerVars, mail>>
    BY <2>1, DeployEffect
  <2>3. UNCHANGED <<docs, queues, mail, ostage, omsg, doc, restarts>>
    BY <2>2 DEF overseerVars
  <2> QED BY <1>2, <1>3, <2>1, <2>2, <2>3 DEF ClusterOK, DockerOK
<1>6. CASE Complete
  <2>1. PICK s \in updating :
               /\ updating' = updating \ {s}
               /\ events' = Append(events, [service |-> s, completed |-> TRUE])
               /\ UNCHANGED <<docker, calls, listening, missed, overseerVars, mail>>
    BY <1>6, CompleteEffect
  <2>2. s \in Services
    BY DEF ClusterOK, DockerOK
  <2>3. events' \in Seq(O!Event)
    BY <1>1, <2>1, <2>2, Appended DEF ClusterOK, DockerOK
  <2>4. DockerOK'
    BY <2>1, <2>3 DEF overseerVars, ClusterOK, DockerOK
  <2> QED BY <1>2, <2>1, <2>4 DEF ClusterOK, overseerVars
<1>7. CASE ScalerRestart
  <2>1. DockerOK'
    <3>1. /\ restarts' = restarts + 1 /\ listening' = TRUE /\ events' = << >>
          /\ UNCHANGED <<docker, updating, calls>>
      BY <1>7, ScalerEffect
    <3>2. restarts' \in Nat /\ restarts' # 0
      BY <3>1 DEF ClusterOK, DockerOK
    <3>3. << >> \in Seq(O!Event)
      OBVIOUS
    <3> QED BY <3>1, <3>2, <3>3 DEF ClusterOK, DockerOK
  <2> QED BY <1>2, <1>7, <2>1, ScalerEffect DEF ClusterOK
<1>8. CASE Listen
  <2>1. PICK m \in O!Message :
               /\ m.kind = "updated"
               /\ events # << >> /\ events' = Tail(events)
               /\ queues' = [queues EXCEPT !["updated"] = Append(@, m)]
               /\ UNCHANGED <<docker, updating, calls, listening, missed, docs, ostage,
                              omsg, doc, restarts, mail>>
    BY <1>8, ListenEffect
  <2>2. DockerOK'
    BY <2>1, Removed DEF ClusterOK, DockerOK
  <2>3. "updated" \in O!Handlers /\ queues["updated"] \in Seq(O!Message)
    BY DEF ClusterOK, QueuesOK, O!Handlers
  <2>4. /\ Append(queues["updated"], m) \in Seq(O!Message)
        /\ Items(Append(queues["updated"], m)) = Items(queues["updated"]) \cup {m}
    BY <2>3, Appended
  <2>5. QueuesOK'
    BY <2>1, <2>3, <2>4 DEF ClusterOK, QueuesOK
  <2> QED BY <2>1, <2>2, <2>5 DEF ClusterOK, DocsOK, MailOK, OverseerOK
<1> QED BY <1>4, <1>5, <1>6, <1>7, <1>8
LEMMA ClusterOverseer ==
    ASSUME NEW w, NEW o, Single(w, o), ClusterOK(o), OverseerHandler(o) \/ OverseerCrash(o)
    PROVE  ClusterOK(o)'
<1>1. ASSUME UNCHANGED dockerVars, restarts' = restarts \/ restarts' = restarts + 1
      PROVE  DockerOK'
  BY <1>1 DEF dockerVars, ClusterOK, DockerOK
<1>2. UNCHANGED queues => QueuesOK'
  BY DEF ClusterOK, QueuesOK
<1>3. UNCHANGED docs => DocsOK'
  BY DEF ClusterOK, DocsOK
<1>4. UNCHANGED mail => MailOK'
  BY DEF ClusterOK, MailOK
<1>5. O!Finish(o) => OverseerOK(o)'
  BY OverseerFinish DEF ClusterOK
<1>6. ASSUME NEW h \in O!Handlers, O!Receive(o, h), UNCHANGED <<planer, mail, history>>
      PROVE  ClusterOK(o)'
  <2> DEFINE m == Head(queues[h])
  <2>1. /\ h \in {"updated", "own", "boot"} /\ queues[h] # << >>
        /\ m \in O!Message /\ m.kind = h
        /\ omsg' = [omsg EXCEPT ![o] = m] /\ omsg'[o] = m
        /\ queues' = [queues EXCEPT ![h] = Tail(@)]
        /\ ostage' \in [Overseers -> O!Stages]
        /\ ostage'[o] = CASE h = "updated" -> "read" [] h = "own" -> "check"
                          [] OTHER -> "boot"
        /\ UNCHANGED <<dockerVars, docs, doc, restarts, mail>>
    BY <1>6, TakenEffect
  <2>2. queues[h] \in Seq(O!Message)
    BY DEF ClusterOK, QueuesOK
  <2>3. Tail(queues[h]) \in Seq(O!Message) /\ Items(Tail(queues[h])) \subseteq Items(queues[h])
    BY <2>1, <2>2, Removed
  <2>4. QueuesOK'
    BY <2>1, <2>3 DEF ClusterOK, QueuesOK
  <2>5. OverseerOK(o)'
    BY <2>1 DEF ClusterOK, OverseerOK, OverseerStages
  <2> QED BY <1>1, <1>3, <1>4, <2>1, <2>4, <2>5 DEF ClusterOK
<1>7. ASSUME O!FetchServices(o), UNCHANGED <<planer, mail, history>> PROVE ClusterOK(o)'
  BY <1>1, <1>2, <1>3, <1>4, <1>5, <1>7, BootEffect DEF ClusterOK
<1>8. ASSUME O!ReadUpdated(o), UNCHANGED <<planer, mail, history>> PROVE ClusterOK(o)'
  <2>1. /\ ostage[o] = "read" /\ omsg[o].kind = "updated" /\ omsg[o].service \in Services
        /\ doc' = [doc EXCEPT ![o] = docs[omsg[o].service]]
        /\ ostage' = [ostage EXCEPT ![o] = "save"] /\ ostage'[o] = "save"
        /\ UNCHANGED <<dockerVars, docs, queues, omsg, restarts, mail>>
    BY <1>8, ReadEffect
  <2>2. docs[omsg[o].service] \in O!Doc
    BY <2>1 DEF ClusterOK, DocsOK
  <2>3. OverseerOK(o)'
    BY <2>1, <2>2 DEF ClusterOK, OverseerOK, OverseerStages, Single, O!Stages
  <2> QED BY <1>1, <1>2, <1>3, <1>4, <2>1, <2>3 DEF ClusterOK
<1>9. ASSUME O!SaveServiceState(o), UNCHANGED <<planer, mail, history>> PROVE ClusterOK(o)'
  <2> DEFINE s == omsg[o].service
  <2>1. /\ ostage[o] = "save" /\ omsg[o].kind = "updated" /\ s \in Services
        /\ docs' = [docs EXCEPT ![s].data = omsg[o].data]
        /\ \/ O!Finish(o)
           \/ /\ ostage' = [ostage EXCEPT ![o] = "dispatch"]
              /\ ostage'[o] = "dispatch" /\ UNCHANGED <<omsg, doc>>
        /\ UNCHANGED <<dockerVars, queues, restarts, mail>>
    BY <1>9, SaveEffect
  <2>2. omsg[o].data \in O!State
    BY DEF ClusterOK, OverseerOK, Single, O!Message
  <2>3. DocsOK' /\ docs'[s].data = omsg[o].data
    BY <2>1, <2>2 DEF ClusterOK, DocsOK, O!Doc
  <2>4. OverseerOK(o)'
    <3>1. CASE O!Finish(o)
      BY <1>5, <3>1
    <3>2. CASE /\ ostage' = [ostage EXCEPT ![o] = "dispatch"]
               /\ ostage'[o] = "dispatch" /\ UNCHANGED <<omsg, doc>>
      BY <2>1, <2>3, <3>2 DEF ClusterOK, OverseerOK, OverseerStages, O!Stages
    <3> QED BY <2>1, <3>1, <3>2
  <2> QED BY <1>1, <1>2, <1>4, <2>1, <2>3, <2>4 DEF ClusterOK
<1>10. ASSUME O!CheckNewScaleConfig(o), UNCHANGED <<planer, mail, history>>
       PROVE  ClusterOK(o)'
  <2>1. /\ ostage[o] = "check" /\ omsg[o].kind = "own"
        /\ docs' \in [Services -> O!Doc]
        /\ \A s \in Services : docs'[s].id = docs[s].id
        /\ \/ O!Finish(o)
           \/ /\ ostage' = [ostage EXCEPT ![o] = "propagate"]
              /\ ostage'[o] = "propagate" /\ UNCHANGED <<omsg, doc>>
        /\ UNCHANGED <<dockerVars, queues, restarts, mail>>
    BY <1>10, CheckEffect
  <2>2. DocsOK'
    BY <2>1 DEF ClusterOK, DocsOK
  <2>3. OverseerOK(o)'
    <3>1. CASE O!Finish(o)
      BY <1>5, <3>1
    <3>2. CASE /\ ostage' = [ostage EXCEPT ![o] = "propagate"]
               /\ ostage'[o] = "propagate" /\ UNCHANGED <<omsg, doc>>
      BY <2>1, <3>2 DEF ClusterOK, OverseerOK, OverseerStages, O!Stages
    <3> QED BY <2>1, <3>1, <3>2
  <2> QED BY <1>1, <1>2, <1>4, <2>1, <2>2, <2>3 DEF ClusterOK
<1>11. CASE OverseerCrash(o)
  <2>1. /\ restarts' = restarts + 1
        /\ ostage' \in [Overseers -> O!Stages] /\ doc' \in [Overseers -> O!Doc]
        /\ ostage'[o] = CASE omsg[o].kind = "updated" -> "read"
                          [] omsg[o].kind = "own" -> "check" [] OTHER -> "boot"
        /\ \/ UNCHANGED queues
           \/ \E m \in O!Message :
                 m.kind = "boot" /\ queues' = [queues EXCEPT !["boot"] = Append(@, m)]
        /\ UNCHANGED <<dockerVars, docs, omsg, mail>>
    BY <1>11, OverseerCrashEffect
  <2>2. QueuesOK'
    <3>1. ASSUME NEW m \in O!Message, m.kind = "boot",
                 queues' = [queues EXCEPT !["boot"] = Append(@, m)]
          PROVE  QueuesOK'
      <4>1. "boot" \in O!Handlers /\ queues["boot"] \in Seq(O!Message)
        BY DEF ClusterOK, QueuesOK, O!Handlers
      <4>2. /\ Append(queues["boot"], m) \in Seq(O!Message)
            /\ Items(Append(queues["boot"], m)) = Items(queues["boot"]) \cup {m}
        BY <4>1, Appended
      <4> QED BY <3>1, <4>1, <4>2 DEF ClusterOK, QueuesOK
    <3> QED BY <1>2, <2>1, <3>1
  <2>3. OverseerOK(o)'
    BY <2>1 DEF ClusterOK, OverseerOK, OverseerStages
  <2> QED BY <1>1, <1>3, <1>4, <2>1, <2>2, <2>3 DEF ClusterOK
<1> QED BY <1>6, <1>7, <1>8, <1>9, <1>10, <1>11 DEF OverseerHandler

LEMMA UpdatedMessage ==
    ASSUME NEW s \in Services, NEW d \in O!State, NEW b \in BOOLEAN
    PROVE  /\ ServiceUpdated(s, d, b) \in Message
           /\ ServiceUpdated(s, d, b).kind = "deployed"
           /\ ServiceUpdated(s, d, b).service = s
           /\ ServiceUpdated(s, d, b).version = d.image
           /\ d.mode = 0 => ServiceUpdated(s, d, b).finished
  BY DEF ServiceUpdated, Message, Kinds, O!State

LEMMA ClusterDispatch ==
    ASSUME NEW w, NEW o, Single(w, o), ClusterOK(o), DispatchUpdated(o)
    PROVE  ClusterOK(o)'
<1>1. omsg[o].data \in O!State /\ omsg[o].service \in Services
  BY DEF ClusterOK, OverseerOK, Single, O!Message
<1>2. /\ O!Finish(o) /\ UNCHANGED <<dockerVars, docs, restarts>>
      /\ \E b \in BOOLEAN :
             mail' = Append(mail, ServiceUpdated(omsg[o].service, omsg[o].data, b))
      /\ \/ UNCHANGED queues
         \/ \E m \in O!Message :
               m.kind = "own" /\ queues' = [queues EXCEPT !["own"] = Append(@, m)]
  <2>1. CASE O!Dispatch(o)
    BY <2>1, DispatchEffect
  <2>2. CASE O!PropagateConfig(o)
    BY <2>2, PropagateEffect
  <2> QED BY <2>1, <2>2 DEF DispatchUpdated
<1>3. OverseerOK(o)' /\ DocsOK' /\ DockerOK'
  BY <1>2, OverseerFinish DEF dockerVars, ClusterOK, DocsOK, DockerOK
<1>4. MailOK'
  <2>1. PICK b \in BOOLEAN :
            mail' = Append(mail, ServiceUpdated(omsg[o].service, omsg[o].data, b))
    BY <1>2
  <2>2. /\ ServiceUpdated(omsg[o].service, omsg[o].data, b) \in Message
        /\ ServiceUpdated(omsg[o].service, omsg[o].data, b).kind = "deployed"
    BY <1>1, UpdatedMessage
  <2> QED BY <2>1, <2>2, Appended DEF ClusterOK, MailOK
<1>5. QueuesOK'
  <2>1. CASE UNCHANGED queues
    BY <2>1 DEF ClusterOK, QueuesOK
  <2>2. ASSUME NEW m \in O!Message, m.kind = "own",
               queues' = [queues EXCEPT !["own"] = Append(@, m)]
        PROVE  QueuesOK'
    <3>1. "own" \in O!Handlers /\ queues["own"] \in Seq(O!Message)
      BY DEF ClusterOK, QueuesOK, O!Handlers
    <3>2. /\ Append(queues["own"], m) \in Seq(O!Message)
          /\ Items(Append(queues["own"], m)) = Items(queues["own"]) \cup {m}
      BY <3>1, Appended
    <3> QED BY <2>2, <3>1, <3>2 DEF ClusterOK, QueuesOK
  <2> QED BY <1>2, <2>1, <2>2
<1> QED BY <1>3, <1>4, <1>5 DEF ClusterOK

-----------------------------------------------------------------------------
(* Steps of the planer in the system                                       *)

(* The overseer monitors the service, so that it passes the order on.      *)
LEMMA CallEffect ==
    ASSUME NEW w, NEW o, Single(w, o), ClusterOK(o), PlanInv, CallUpgrade(w)
    PROVE  /\ stage[w] \in {"call", "first_call"} /\ ostage[o] = "idle"
           /\ CallOverseer(w)
           /\ \E n \in Launched(w) :
                 LET st == sched[w].steps[n]
                 IN /\ stage' = [stage EXCEPT ![w] =
                                    IF stage[w] = "call" THEN "replace" ELSE "disable"]
                    /\ sched' = [sched EXCEPT ![w] = SetStep(@, n, "running")]
                    /\ \E c \in O!Call :
                          /\ c.kind = "upgrade" /\ c.service = st.service
                          /\ c.data.image = st.to
                          /\ calls' = Append(calls, c)
           /\ UNCHANGED <<docker, updating, events, listening, missed, overseerVars, mail,
                          history, inputs, store, checks, msg, entry, schedId, goals, crashes>>
<1>1. PICK n \in Launched(w) :
          LET st == sched[w].steps[n]
          IN \/ /\ st.service \in DOMAIN docs /\ stage'[w] # "idle"
                /\ calls' = Append(calls,
                      [kind |-> "upgrade", service |-> st.service,
                       data |-> [O!AnyState EXCEPT !.image = st.to]])
             \/ st.service \notin DOMAIN docs
  BY DEF CallUpgrade
<1> DEFINE st == sched[w].steps[n]
           c == [kind |-> "upgrade", service |-> st.service,
                 data |-> [O!AnyState EXCEPT !.image = st.to]]
<1>2. stage[w] \in {"call", "first_call"} /\ CallOverseer(w)
  BY DEF CallUpgrade, CallOverseer
<1>3. w \in Workers /\ n \in DOMAIN sched[w].steps /\ st \in Step
  BY <1>2, LaunchedIsStep DEF Single
<1>4. st.service \in DOMAIN docs /\ stage'[w] # "idle" /\ calls' = Append(calls, c)
  BY <1>1, <1>3 DEF ClusterOK, DocsOK, Step
<1>5. c \in O!Call /\ c.kind = "upgrade" /\ c.service = st.service /\ c.data.image = st.to
  BY <1>3, SomeState DEF Step, O!Call, O!State
<1>6. ~ Finish(w)
  BY <1>3, <1>4 DEF Finish, Goto, PlanInv, TypeOK
<1>7. \A m \in Launched(w) : m = n
  <2>1. Launched(w) \subseteq DOMAIN sched[w].steps /\ sched[w].steps \in Seq(Step)
    BY <1>2, <1>3, LaunchedIsStep DEF PlanInv, TypeOK, Plan
  <2>2. \A m \in Launched(w) : m \in Nat
    BY <2>1
  <2> QED BY <2>2 DEF Launched, NextStep
<1>8. /\ stage' = [stage EXCEPT ![w] = IF stage[w] = "call" THEN "replace" ELSE "disable"]
      /\ sched' = [sched EXCEPT ![w] = SetStep(@, n, "running")]
      /\ UNCHANGED <<msg, entry, schedId, goals>>
  BY <1>2, <1>6, <1>7 DEF CallOverseer, Goto
<1>9. UNCHANGED <<docker, updating, events, listening, missed, overseerVars, mail,
                  history, inputs, store, checks, crashes>>
  BY DEF CallUpgrade, CallOverseer, overseerVars
<1>10. ostage[o] = "idle"
  BY DEF CallUpgrade, Single
<1> HIDE DEF c
<1> QED BY <1>2, <1>4, <1>5, <1>8, <1>9, <1>10
LEMMA ClusterPlaner ==
    ASSUME NEW w, NEW o, Single(w, o), ClusterOK(o), PlanInv, PlanerMoves(w)
    PROVE  ClusterOK(o)'
<1>1. ASSUME UNCHANGED <<docs, queues, ostage, omsg, doc>>
      PROVE  (DocsOK /\ QueuesOK /\ OverseerOK(o))'
  BY <1>1 DEF ClusterOK, DocsOK, QueuesOK, OverseerOK
<1>2. ASSUME UNCHANGED <<overseer, mail>> PROVE ClusterOK(o)'
  <2>1. UNCHANGED <<docs, queues, ostage, omsg, doc>> /\ DockerOK' /\ MailOK'
    BY <1>2 DEF overseer, ClusterOK, DockerOK, MailOK
  <2> QED BY <1>1, <2>1 DEF ClusterOK
<1>3. CASE CallUpgrade(w)
  <2>1. PICK c \in O!Call : c.kind = "upgrade" /\ calls' = Append(calls, c)
    BY <1>3, CallEffect
  <2>2. UNCHANGED <<docker, updating, events, listening, missed, overseerVars, mail>>
    BY <1>3, CallEffect
  <2>3. calls' \in Seq(O!Call) /\ Items(calls') = Items(calls) \cup {c}
    BY <2>1, Appended DEF ClusterOK, DockerOK
  <2>4. DockerOK' /\ MailOK'
    BY <2>1, <2>2, <2>3 DEF overseerVars, ClusterOK, DockerOK, MailOK
  <2> QED BY <1>1, <2>2, <2>4 DEF overseerVars, ClusterOK
<1>4. CASE TakeMail(w)
  <2>1. mail # << >> /\ mail' = Tail(mail) /\ UNCHANGED overseer
    BY <1>4 DEF TakeMail
  <2>2. MailOK'
    BY <2>1, Removed DEF ClusterOK, MailOK
  <2>3. UNCHANGED <<docs, queues, ostage, omsg, doc>> /\ DockerOK'
    BY <2>1 DEF overseer, ClusterOK, DockerOK
  <2> QED BY <1>1, <2>2, <2>3 DEF ClusterOK
<1> QED
  BY <1>2, <1>3, <1>4 DEF PlanerMoves, PlanerStep, TakeCheck, AskUpgrade, PlanerCrash

-----------------------------------------------------------------------------
(* The planer keeps its own invariants in the system, where the mail brings*)
(* it the updates and the operator counts among the inputs.                *)

LEMMA PlanerKept ==
    ASSUME NEW w, Workers = {w}, SoloInv, CatalogInv, UNCHANGED planer, inputs' \in Nat
    PROVE  SoloInv' /\ CatalogInv'
<1>1. TypeOK'
  BY DEF SoloInv, PlanInv, TypeOK, planer
<1>2. UNCHANGED <<catalog, phases, scheduling, requests, stage, msg, entry, sched, schedId>>
  BY DEF planer
<1>3. StoredPlans'
  BY <1>2, SameStore DEF SoloInv
<1>4. HandlerPlan(w)'
  <2>1. HandlerPlan(w)
    BY DEF SoloInv, PlanInv, HandlersPlans
  <2> QED
    BY <1>2, <2>1
    DEF HandlerPlan, Storable, Continuing, Fresh, Wellformed, WaitingLast,
        DistinctServices, Requested, InProgress, NoneWaiting, NextStep, WaitingElsewhere
<1>5. OneRunning' /\ SoloHandler(w)'
  BY <1>2 DEF SoloInv, OneRunning, Running, SoloHandler
<1>6. PhaseLogsDeployment' /\ SoloEntry(w)'
  BY <1>2 DEF CatalogInv, PhaseLogsDeployment, SoloEntry, Known
<1> QED
  BY <1>1, <1>3, <1>4, <1>5, <1>6 DEF SoloInv, PlanInv, HandlersPlans, CatalogInv

LEMMA MailTaken ==
    ASSUME NEW w, NEW o, Single(w, o), ClusterOK(o), TakeMail(w), SoloInv
    PROVE  LET m == Head(mail)
           IN /\ stage[w] = "idle" /\ mail # << >> /\ mail' = Tail(mail)
              /\ m \in Message /\ m \in Items(mail) /\ m.kind = "deployed"
              /\ Goto(w, "read") /\ stage'[w] = "read"
              /\ msg' = [msg EXCEPT ![w] = m] /\ msg'[w] = m
              /\ UNCHANGED <<store, requests, checks, locals, crashes, inputs, overseer,
                             history>>
<1> DEFINE m == Head(mail)
<1>1. /\ stage[w] = "idle" /\ mail # << >> /\ mail' = Tail(mail)
      /\ Goto(w, FirstStage(m.kind)) /\ msg' = [msg EXCEPT ![w] = m]
      /\ UNCHANGED <<store, requests, checks, locals, crashes, inputs, overseer, history>>
  BY DEF TakeMail, Take
<1>2. m \in Message /\ m \in Items(mail) /\ m.kind = "deployed"
  BY <1>1, Removed DEF ClusterOK, MailOK
<1>3. FirstStage(m.kind) = "read"
  BY <1>2 DEF FirstStage
<1>4. stage'[w] = "read" /\ msg'[w] = m
  BY <1>1, <1>3 DEF Goto, SoloInv, PlanInv, TypeOK, Single
<1> QED BY <1>1, <1>2, <1>3, <1>4

LEMMA MailKeeps ==
    ASSUME NEW w, NEW o, Single(w, o), ClusterOK(o), TakeMail(w), SoloInv, CatalogInv
    PROVE  SoloInv' /\ CatalogInv'
<1>1. /\ Head(mail) \in Message /\ Goto(w, "read") /\ stage'[w] = "read"
      /\ msg' = [msg EXCEPT ![w] = Head(mail)]
      /\ UNCHANGED <<store, requests, checks, locals, crashes, inputs>>
  BY MailTaken
<1>2. TypeOK'
  BY <1>1 DEF Goto, SoloInv, PlanInv, TypeOK, Stages, store, locals
<1>3. UNCHANGED <<catalog, phases, scheduling, requests, entry, sched, schedId>>
  BY <1>1 DEF store, locals
<1>4. StoredPlans' /\ HandlersPlans'
  <2>1. "read" \in NoPlanHeld
    BY DEF NoPlanHeld, Stages
  <2> QED BY <1>1, <1>3, <2>1, NoPlanStep DEF Single, SoloInv
<1>5. OneRunning' /\ SoloHandler(w)'
  BY <1>1, <1>3, SoloKeeps DEF SoloApart, Stages, Single
<1>6. PhaseLogsDeployment' /\ SoloEntry(w)'
  BY <1>1, <1>3, EntryKept DEF Single
<1> QED BY <1>2, <1>4, <1>5, <1>6 DEF SoloInv, PlanInv, CatalogInv, Single

LEMMA PlanerNext ==
    ASSUME NEW w, NEW o, Single(w, o), ClusterOK(o), PlanerMoves(w), SoloInv, CatalogInv
    PROVE  /\ SoloInv' /\ CatalogInv'
           /\ \A s \in Services : catalog[s].versions \subseteq catalog'[s].versions
<1>1. CASE TakeMail(w)
  <2>1. UNCHANGED catalog
    BY <1>1, MailTaken DEF store
  <2> QED BY <1>1, <2>1, MailKeeps
<1>2. CASE ~ TakeMail(w)
  <2>1. Next
    BY <1>2 DEF PlanerMoves, PlanerStep, CallUpgrade, TakeCheck, AskUpgrade, PlanerCrash,
                Next, Work, Single
  <2> QED BY <2>1, SoloInvNext, CatalogNext DEF Single, SoloInv, PlanInv
<1> QED BY <1>1, <1>2

-----------------------------------------------------------------------------
(* What the handler of the only worker knows of the catalog                *)

(* The stages of the handler of a message of kind k.                       *)
PlanerStages(k) ==
    CASE k = "deployed" -> {"read", "save", "log", "continue", "step", "call", "replace"}
      [] k \in {"image", "cleaned"} -> {"read", "save", "dispatch"}
      [] OTHER -> {"solve", "best", "build", "first_step", "first_call", "disable", "insert"}

(* Every service is listed.  From the save on the catalog has the version  *)
(* of the update that is handled; another handler keeps the version.       *)
PlanerOK(w) ==
    /\ \A s \in Services : catalog[s] \in Entry
    /\ msg[w].kind \in {"deployed", "image", "cleaned", "check", "upgrade"}
    /\ stage[w] = "idle" \/ stage[w] \in PlanerStages(msg[w].kind)
    /\ stage[w] = "idle" => msg[w].kind = "check"
    /\ stage[w] = "save" =>
          entry[w].version = IF msg[w].kind = "deployed" THEN msg[w].version
                             ELSE catalog[msg[w].service].version
    /\ stage[w] \in {"log", "continue", "step", "call", "replace"} =>
          catalog[msg[w].service].version = msg[w].version

PlanerInv(w) == SoloInv /\ CatalogInv /\ PlanerOK(w)

LEMMA Entries ==
    ASSUME NEW w, PlanerOK(w), NEW s \in Services
    PROVE  /\ catalog[s] \in Entry /\ Known(s)
           /\ catalog[s].version \in Versions /\ catalog[s].versions \subseteq Versions
<1>1. catalog[s] \in Entry
  BY DEF PlanerOK
<1>2. catalog[s] # NoEntry
  BY <1>1, ConstantsAssumption DEF Entry, NoEntry
<1> QED BY <1>1, <1>2 DEF Entry, Known

LEMMA NoMessageKind == NoMessage.kind = "check"
  BY DEF NoMessage, AnyMessage

LEMMA Moved1 ==
    ASSUME NEW w, Workers = {w}, SoloInv
    PROVE  /\ \A st : Goto(w, st) => stage'[w] = st
           /\ Finish(w) => stage'[w] = "idle" /\ msg'[w].kind = "check"
           /\ \A e : Rewrite(w, e) => stage'[w] = "save" /\ entry'[w] = e /\ msg' = msg
           /\ w \in Workers
  BY NoMessageKind DEF Goto, Finish, Rewrite, SoloInv, PlanInv, TypeOK
(* A step that writes neither the catalog nor a copy of an entry.          *)
LEMMA PlanerGoes ==
    ASSUME NEW w, Workers = {w}, PlanerInv(w), UNCHANGED catalog,
           \/ stage'[w] = "idle" /\ msg'[w].kind = "check"
           \/ /\ msg'[w].kind \in {"deployed", "image", "cleaned", "check", "upgrade"}
              /\ stage'[w] = FirstStage(msg'[w].kind)
           \/ /\ msg'[w] = msg[w] /\ stage[w] # "idle"
              /\ stage'[w] \in PlanerStages(msg[w].kind)
              /\ stage'[w] \notin {"idle", "save", "log"}
              /\ stage'[w] \in {"continue", "step", "call", "replace"} =>
                    stage[w] \in {"log", "continue", "step", "call"}
    PROVE  PlanerOK(w)'
<1>1. \A s \in Services : catalog'[s] \in Entry
  BY DEF PlanerInv, PlanerOK
<1>2. \A k \in {"deployed", "image", "cleaned", "check", "upgrade"} :
          /\ FirstStage(k) \in PlanerStages(k)
          /\ FirstStage(k) \notin {"idle", "save", "log", "continue", "step", "call", "replace"}
  BY DEF FirstStage, PlanerStages
<1> QED BY <1>1, <1>2 DEF PlanerInv, PlanerOK

LEMMA PlanerReads ==
    ASSUME NEW w, Workers = {w}, PlanerInv(w), NEW e, Rewrite(w, e), UNCHANGED catalog,
           msg[w].kind \in {"deployed", "image", "cleaned"},
           e.version = IF msg[w].kind = "deployed" THEN msg[w].version
                       ELSE catalog[msg[w].service].version
    PROVE  PlanerOK(w)'
<1>1. stage'[w] = "save" /\ entry'[w] = e /\ msg' = msg
  BY Moved1 DEF PlanerInv
<1> QED BY <1>1 DEF PlanerInv, PlanerOK, PlanerStages

(* What each handler reads and writes.                                     *)
LEMMA ReadVersions ==
    ASSUME NEW w, Workers = {w}, PlanerInv(w),
           ReadDeployed(w) \/ ReadCleaned(w) \/ ReadImage(w) \/ ReadSanity(w)
    PROVE  LET s == msg[w].service
           IN /\ s \in Services /\ stage[w] = "read"
              /\ msg[w].kind \in {"deployed", "image", "cleaned"}
              /\ \/ /\ Finish(w)
                    /\ msg[w].kind = "deployed" => catalog[s].version = msg[w].version
                 \/ \E e \in Entry :
                       /\ Rewrite(w, e)
                       /\ e.version = IF msg[w].kind = "deployed" THEN msg[w].version
                                      ELSE catalog[s].version
                       /\ msg[w].kind = "deployed" =>
                             catalog[s].version # msg[w].version
              /\ UNCHANGED <<store, requests, checks, inputs, crashes>>
<1> DEFINE s == msg[w].service
           v == msg[w].version
<1>1. s \in Services /\ v \in Versions
  BY DEF PlanerInv, SoloInv, PlanInv, TypeOK, Message
<1>2. catalog[s] \in Entry /\ Known(s)
  BY <1>1, Entries DEF PlanerInv
<1>3. msg[w].kind # "sanity"
  BY DEF PlanerInv, PlanerOK
<1>4. CASE ReadDeployed(w)
  <2>1. /\ [catalog[s] EXCEPT !.version = v] \in Entry
        /\ [catalog[s] EXCEPT !.version = v].version = v
    BY <1>1, <1>2 DEF Entry
  <2> QED BY <1>1, <1>2, <1>4, <2>1 DEF ReadDeployed, Busy
<1>5. CASE ReadCleaned(w)
  <2>1. /\ [catalog[s] EXCEPT !.available = @ \ {v}] \in Entry
        /\ [catalog[s] EXCEPT !.available = @ \ {v}].version = catalog[s].version
    BY <1>2 DEF Entry
  <2> QED BY <1>1, <1>5, <2>1 DEF ReadCleaned, Busy
<1>6. CASE ReadImage(w)
  <2> DEFINE e == [catalog[s] EXCEPT !.versions = @ \cup {v}, !.available = @ \cup {v}]
  <2>1. e \in Entry /\ e.version = catalog[s].version
    BY <1>1, <1>2 DEF Entry
  <2> QED BY <1>1, <1>2, <1>6, <2>1 DEF ReadImage, Busy
<1> QED BY <1>3, <1>4, <1>5, <1>6 DEF ReadSanity, Busy

LEMMA SaveVersions ==
    ASSUME NEW w, Workers = {w}, PlanerInv(w), SaveService(w)
    PROVE  LET s == msg[w].service
               v == IF msg[w].kind = "deployed" THEN msg[w].version ELSE catalog[s].version
           IN /\ stage[w] = "save" /\ s \in Services /\ entry[w] \in Entry
              /\ catalog' = [catalog EXCEPT ![s] = entry[w]] /\ catalog'[s].version = v
              /\ catalog[s].versions \subseteq entry[w].versions
              /\ \/ msg[w].kind = "deployed" /\ Goto(w, "log") /\ UNCHANGED <<msg, locals>>
                 \/ msg[w].kind = "image" /\ Goto(w, "dispatch") /\ UNCHANGED <<msg, locals>>
                 \/ msg[w].kind = "cleaned" /\ Finish(w)
              /\ UNCHANGED <<phases, scheduling, requests, checks, inputs, crashes>>
<1> DEFINE s == msg[w].service
<1>1. stage[w] = "save" /\ s \in Services
  BY DEF SaveService, PlanerInv, SoloInv, PlanInv, TypeOK, Message
<1>2. /\ entry[w] \in Entry /\ catalog[s].versions \subseteq entry[w].versions
      /\ entry[w].version = IF msg[w].kind = "deployed" THEN msg[w].version
                            ELSE catalog[s].version
  BY <1>1 DEF PlanerInv, CatalogInv, SoloEntry, PlanerOK
<1>3. msg[w].kind \in {"deployed", "image", "cleaned"}
  BY <1>1 DEF PlanerInv, PlanerOK, PlanerStages
<1>4. catalog' = [catalog EXCEPT ![s] = entry[w]] /\ catalog'[s] = entry[w]
  BY <1>1 DEF SaveService, PlanerInv, SoloInv, PlanInv, TypeOK
<1> QED BY <1>1, <1>2, <1>3, <1>4 DEF SaveService

LEMMA PlanerSaves ==
    ASSUME NEW w, Workers = {w}, PlanerInv(w), SaveService(w)
    PROVE  PlanerOK(w)'
<1> DEFINE s == msg[w].service
<1>1. \A x \in Services : catalog'[x] \in Entry
  <2>1. catalog' = [catalog EXCEPT ![s] = entry[w]] /\ entry[w] \in Entry
    BY SaveVersions
  <2> QED BY <2>1 DEF PlanerInv, PlanerOK, SoloInv, PlanInv, TypeOK
<1>2. CASE msg[w].kind = "deployed" /\ Goto(w, "log") /\ UNCHANGED <<msg, locals>>
  <2>1. stage'[w] = "log" /\ msg'[w] = msg[w]
    BY <1>2, Moved1 DEF PlanerInv
  <2>2. catalog'[s].version = msg[w].version
    BY <1>2, SaveVersions
  <2> QED BY <1>1, <1>2, <2>1, <2>2 DEF PlanerOK, PlanerStages
<1>3. CASE msg[w].kind = "image" /\ Goto(w, "dispatch") /\ UNCHANGED <<msg, locals>>
  <2>1. stage'[w] = "dispatch" /\ msg'[w] = msg[w]
    BY <1>3, Moved1 DEF PlanerInv
  <2> QED BY <1>1, <1>3, <2>1 DEF PlanerOK, PlanerStages
<1>4. CASE msg[w].kind = "cleaned" /\ Finish(w)
  <2>1. stage'[w] = "idle" /\ msg'[w].kind = "check"
    BY <1>4, Moved1 DEF PlanerInv
  <2> QED BY <1>1, <2>1 DEF PlanerOK
<1> QED BY <1>2, <1>3, <1>4, SaveVersions

(* The handlers of the plans and of the upgrades.                          *)
LEMMA PlanerOthers ==
    ASSUME NEW w, Workers = {w}, PlanerInv(w),
           \/ LogPhase(w) \/ DispatchNewVersion(w)
           \/ ContinuePlan(w) \/ RunStep(w) \/ CallOverseer(w) \/ ReplacePlan(w)
           \/ Solve(w) \/ SolveBestPhase(w) \/ BuildSteps(w)
           \/ DisableScheduled(w) \/ InsertPlan(w)
    PROVE  UNCHANGED <<catalog, inputs, crashes>> /\ PlanerOK(w)'
<1>1. UNCHANGED <<catalog, inputs, crashes>>
  BY DEF LogPhase, DispatchNewVersion, ContinuePlan, RunStep, CallOverseer, ReplacePlan,
         Solve, SolveBestPhase, BuildSteps, DisableScheduled, InsertPlan, store
<1>2. Finish(w) => PlanerOK(w)'
  BY <1>1, PlanerGoes, Moved1 DEF PlanerInv
<1>3. ASSUME NEW st, Goto(w, st), msg' = msg, stage[w] # "idle",
             st \in PlanerStages(msg[w].kind) \ {"idle", "save", "log"},
             st \in {"continue", "step", "call", "replace"} =>
                 stage[w] \in {"log", "continue", "step", "call"}
      PROVE  PlanerOK(w)'
  <2>1. stage'[w] = st
    BY <1>3, Moved1 DEF PlanerInv
  <2> QED BY <1>1, <1>3, <2>1, PlanerGoes
<1>4. stage[w] = "idle" \/ stage[w] \in PlanerStages(msg[w].kind)
  BY DEF PlanerInv, PlanerOK
<1>5. CASE LogPhase(w) \/ ContinuePlan(w) \/ ReplacePlan(w)
  <2>1. stage[w] \in {"log", "continue", "replace"}
    BY <1>5 DEF LogPhase, ContinuePlan, ReplacePlan
  <2>2. {"continue", "step", "replace"} \subseteq PlanerStages(msg[w].kind)
    BY <1>4, <2>1 DEF PlanerStages
  <2> QED BY <1>1, <1>2, <1>3, <1>5, <2>1, <2>2 DEF LogPhase, ContinuePlan, ReplacePlan
<1>6. CASE DispatchNewVersion(w) \/ InsertPlan(w)
  BY <1>1, <1>2, <1>6 DEF DispatchNewVersion, InsertPlan
<1>7. CASE RunStep(w) \/ CallOverseer(w)
  <2>1. stage[w] \in {"step", "first_step", "call", "first_call"}
    BY <1>7 DEF RunStep, CallOverseer
  <2>2. stage[w] \in {"step", "call"} => {"call", "replace"} \subseteq PlanerStages(msg[w].kind)
    BY <1>4 DEF PlanerStages
  <2>3. stage[w] \in {"first_step", "first_call"} =>
            {"first_call", "disable"} \subseteq PlanerStages(msg[w].kind)
    BY <1>4 DEF PlanerStages
  <2> QED BY <1>1, <1>2, <1>3, <1>7, <2>1, <2>2, <2>3 DEF RunStep, CallOverseer
<1>8. CASE Solve(w) \/ SolveBestPhase(w) \/ BuildSteps(w) \/ DisableScheduled(w)
  <2>1. stage[w] \in {"solve", "best", "build", "disable"}
    BY <1>8 DEF Solve, SolveBestPhase, BuildSteps, DisableScheduled
  <2>2. {"best", "build", "first_step", "insert"} \subseteq PlanerStages(msg[w].kind)
    BY <1>4, <2>1 DEF PlanerStages
  <2> QED BY <1>1, <1>2, <1>3, <1>8, <2>1, <2>2
          DEF Solve, SolveBestPhase, BuildSteps, DisableScheduled, locals
<1> QED BY <1>1, <1>5, <1>6, <1>7, <1>8

LEMMA PlanerOKNext ==
    ASSUME NEW w, NEW o, Single(w, o), ClusterOK(o), PlanerInv(w), PlanerMoves(w)
    PROVE  PlanerOK(w)'
<1>1. Workers = {w}
  BY DEF Single
<1>2. CASE TakeMail(w)
  <2>1. stage'[w] = "read" /\ msg'[w].kind = "deployed" /\ UNCHANGED catalog
    BY <1>2, MailTaken DEF store, PlanerInv
  <2>2. FirstStage("deployed") = "read"
    BY DEF FirstStage
  <2> QED BY <1>1, <2>1, <2>2, PlanerGoes
<1>3. CASE TakeCheck(w) \/ AskUpgrade(w)
  <2>1. PICK m : Take(w, m)
    BY <1>3 DEF TakeCheck, AskUpgrade, ReceiveCheck, Receive
  <2>2. stage'[w] = FirstStage(m.kind) /\ msg'[w] = m /\ UNCHANGED catalog
    BY <1>1, <2>1 DEF Take, Goto, store, PlanerInv, SoloInv, PlanInv, TypeOK
  <2>3. msg'[w].kind \in {"check", "upgrade", "image", "cleaned"}
    <3>1. CASE AskUpgrade(w)
      BY <3>1 DEF AskUpgrade
    <3>2. CASE TakeCheck(w)
      <4>1. msg'[w] = AnyMessage("check")
        BY <1>1, <3>2 DEF TakeCheck, ReceiveCheck, Take, PlanerInv, SoloInv, PlanInv, TypeOK
      <4> QED BY <4>1 DEF AnyMessage
    <3> QED BY <1>3, <3>1, <3>2
  <2> QED BY <1>1, <2>2, <2>3, PlanerGoes
<1>4. CASE PlanerCrash(w)
  <2>1. stage'[w] = FirstStage(msg[w].kind) /\ msg' = msg /\ UNCHANGED catalog
    BY <1>1, <1>4 DEF PlanerCrash, Crash, Goto, store, PlanerInv, SoloInv, PlanInv, TypeOK
  <2> QED BY <1>1, <2>1, PlanerGoes DEF PlanerInv, PlanerOK
<1>5. CASE PlanerStep(w) \/ CallUpgrade(w)
  <2>1. Work(w)
    BY <1>5 DEF PlanerStep, CallUpgrade, Work
  <2>2. CASE ReadDeployed(w) \/ ReadCleaned(w) \/ ReadImage(w) \/ ReadSanity(w)
    <3>1. CASE Finish(w)
      BY <1>1, <2>2, <3>1, ReadVersions, PlanerGoes, Moved1 DEF store, PlanerInv
    <3>2. CASE ~ Finish(w)
      BY <1>1, <2>2, <3>2, ReadVersions, PlanerReads DEF store
    <3> QED BY <3>1, <3>2
  <2>3. CASE SaveService(w)
    BY <1>1, <2>3, PlanerSaves
  <2> QED BY <1>1, <2>1, <2>2, <2>3, PlanerOthers DEF Work
<1> QED BY <1>2, <1>3, <1>4, <1>5 DEF PlanerMoves

-----------------------------------------------------------------------------
(* The invariant of the types and of the handlers, whoever deploys and     *)
(* whatever crashes                                                        *)

SystemInv(w, o) == PlanerInv(w) /\ ClusterOK(o)

LEMMA SystemInvInit ==
    ASSUME NEW w, NEW o, Single(w, o) PROVE SystemInit => SystemInv(w, o)
<1> SUFFICES ASSUME SystemInit PROVE SystemInv(w, o)
  OBVIOUS
<1>1. Init /\ ClusterOK(o)
  BY ClusterInit DEF SystemInit
<1>2. SoloInv /\ CatalogInv
  BY <1>1, SoloInvInit, CatalogInit DEF Single
<1>3. \A s \in Services : catalog[s] \in Entry
  <2> SUFFICES ASSUME NEW s \in Services PROVE catalog[s] \in Entry
    OBVIOUS
  <2>1. catalog[s].version \in Versions
    BY <1>1 DEF SystemInit, ClusterOK, DockerOK, O!State
  <2>2. catalog[s] # NoEntry
    BY <2>1, ConstantsAssumption DEF NoEntry
  <2> QED BY <1>2, <2>2 DEF CatalogInv, TypeOK
<1>4. PlanerOK(w)
  BY <1>1, <1>3, NoMessageKind DEF Init, PlanerOK, Single
<1> QED BY <1>1, <1>2, <1>4 DEF SystemInv, PlanerInv

LEMMA SystemInvNext ==
    ASSUME NEW w, NEW o, Single(w, o)
    PROVE  SystemInv(w, o) /\ [SystemNext]_systemVars => SystemInv(w, o)'
<1> SUFFICES ASSUME SystemInv(w, o), [SystemNext]_systemVars PROVE SystemInv(w, o)'
  OBVIOUS
<1>1. ClusterOK(o) /\ PlanerInv(w) /\ SoloInv /\ CatalogInv /\ PlanInv /\ PlanerOK(w)
  BY DEF SystemInv, PlanerInv, SoloInv
<1>2. CASE PlanerMoves(w)
  BY <1>1, <1>2, ClusterPlaner, PlanerNext, PlanerOKNext DEF SystemInv, PlanerInv
<1>3. ASSUME UNCHANGED planer, inputs' \in Nat PROVE PlanerInv(w)'
  <2>1. SoloInv' /\ CatalogInv'
    BY <1>1, <1>3, PlanerKept DEF Single
  <2>2. UNCHANGED <<catalog, stage, msg, entry>>
    BY <1>3 DEF planer
  <2> QED BY <1>1, <2>1, <2>2 DEF PlanerInv, PlanerOK
<1>4. CASE ClusterStep(o)
  <2>1. ClusterOK(o)'
    BY <1>1, <1>4, ClusterDocker, ClusterOverseer, ClusterDispatch DEF ClusterStep
  <2>2. UNCHANGED planer /\ inputs' \in Nat
    <3>1. inputs \in Nat
      BY <1>1 DEF SoloInv, PlanInv, TypeOK
    <3>2. CASE Listen \/ Update \/ Complete \/ ScalerRestart
      BY <1>1, <3>1, <3>2, ListenEffect, UpdateEffect, CompleteEffect, ScalerEffect
    <3>3. CASE \E s \in Services : DeployByHand(s)
      BY <1>1, <3>1, <3>3, DeployEffect
    <3>4. CASE OverseerHandler(o)
      BY <1>1, <3>1, <3>4, TakenEffect, BootEffect, ReadEffect, SaveEffect, CheckEffect
      DEF OverseerHandler
    <3>5. CASE \/ OverseerCrash(o)
               \/ DispatchUpdated(o) /\ O!Dispatch(o)
               \/ DispatchUpdated(o) /\ O!PropagateConfig(o)
      BY <1>1, <3>1, <3>5, OverseerCrashEffect, DispatchEffect, PropagateEffect
    <3> QED BY <1>4, <3>2, <3>3, <3>4, <3>5 DEF ClusterStep
  <2> QED BY <1>3, <2>1, <2>2 DEF SystemInv
<1>5. CASE UNCHANGED systemVars
  <2>1. UNCHANGED <<planer, overseer, inputs, mail>>
    BY <1>5 DEF systemVars
  <2>2. ClusterOK(o)'
    BY <1>1, <2>1 DEF overseer, ClusterOK, DockerOK, DocsOK, QueuesOK, MailOK, OverseerOK
  <2> QED BY <1>1, <1>3, <2>1, <2>2 DEF SystemInv, SoloInv, PlanInv, TypeOK
<1> QED BY <1>1, <1>2, <1>4, <1>5, SystemSteps
-----------------------------------------------------------------------------
(* What the planer believes in the end                                     *)

(* Until the overseer or scaler_docker restarts, news of a service travels *)
(* in one direction, and the last that is under way says what docker runs: *)
(* an event that the listener will read, the last update queued, the one   *)
(* the overseer handles, or else its document.                             *)
Unheard(s) == \E e \in Items(events) : e.service = s
UpdateSays(o, s) ==
    IF Newest(queues["updated"], s) # {}
       THEN \A m \in Newest(queues["updated"], s) : m.data = docker[s]
       ELSE IF ostage[o] \in {"read", "save"} /\ omsg[o].service = s
               THEN omsg[o].data = docker[s]
               ELSE docs[s].data = docker[s]
DocsFollow(o) == restarts = 0 => \A s \in Services : Unheard(s) \/ UpdateSays(o, s)

(* From the document on: the overseer is about to announce its image, or   *)
(* the last mail says it, or the update the planer handles, or else its    *)
(* catalog; but for a service announced late with an image that is gone.   *)
Announcing(o, s) ==
    ostage[o] = "dispatch" /\ omsg[o].service = s /\ doc[o].data.image # omsg[o].data.image
Believed(w, s) == IF msg[w].kind = "deployed" /\ msg[w].service = s
                     THEN msg[w].version ELSE catalog[s].version
MailSays(w, s) ==
    IF Newest(mail, s) # {}
       THEN \A m \in Newest(mail, s) : m.version = docs[s].data.image
       ELSE Believed(w, s) = docs[s].data.image
NewsFollows(w, o) ==
    restarts = 0 => \A s \in Services \ outdated : Announcing(o, s) \/ MailSays(w, s)

FollowInv(w, o) == SystemInv(w, o) /\ DocsFollow(o) /\ NewsFollows(w, o)

LEMMA RestartsGrow ==
    ASSUME NEW w, NEW o, Single(w, o), ClusterOK(o),
           ClusterStep(o) \/ PlanerMoves(w) \/ UNCHANGED systemVars, restarts' = 0
    PROVE  restarts = 0
<1>1. restarts \in Nat
  BY DEF ClusterOK, DockerOK
<1>2. restarts' = restarts \/ restarts' = restarts + 1
  <2>1. CASE Listen \/ Update \/ Complete \/ ScalerRestart \/ \E s \in Services : DeployByHand(s)
    BY <2>1, ListenEffect, UpdateEffect, CompleteEffect, ScalerEffect, DeployEffect
    DEF overseerVars
  <2>2. CASE OverseerHandler(o)
    BY <2>2, TakenEffect, BootEffect, ReadEffect, SaveEffect, CheckEffect DEF OverseerHandler
  <2>3. CASE \/ OverseerCrash(o)
             \/ DispatchUpdated(o) /\ O!Dispatch(o)
             \/ DispatchUpdated(o) /\ O!PropagateConfig(o)
    BY <2>3, OverseerCrashEffect, DispatchEffect, PropagateEffect
  <2>4. CASE PlanerMoves(w)
    BY <2>4 DEF PlanerMoves, PlanerStep, CallUpgrade, TakeMail, TakeCheck, AskUpgrade,
                PlanerCrash, overseer
  <2>5. CASE UNCHANGED systemVars
    BY <2>5 DEF systemVars, overseer
  <2> QED BY <2>1, <2>2, <2>3, <2>4, <2>5 DEF ClusterStep
<1> QED BY <1>1, <1>2

LEMMA EventTold ==
    ASSUME NEW o, ClusterOK(o), NEW s \in Services, NEW b \in BOOLEAN,
           events' = Append(events, [service |-> s, completed |-> b])
    PROVE  Items(events') = Items(events) \cup {[service |-> s, completed |-> b]}
<1>1. events \in Seq(O!Event) /\ [service |-> s, completed |-> b] \in O!Event
  BY DEF ClusterOK, DockerOK, O!Event
<1> QED BY <1>1, Appended

(* A message joins a queue, or leaves it.                                  *)
LEMMA QueueGrows ==
    ASSUME NEW o, ClusterOK(o), NEW h \in O!Handlers, NEW m \in O!Message,
           queues' = [queues EXCEPT ![h] = Append(@, m)]
    PROVE  /\ Items(queues'[h]) = Items(queues[h]) \cup {m}
           /\ \A s : Newest(queues'[h], s) = IF m.service = s THEN {m}
                                              ELSE Newest(queues[h], s)
           /\ \A g \in O!Handlers : g # h => queues'[g] = queues[g]
<1>1. queues[h] \in Seq(O!Message)
  BY DEF ClusterOK, QueuesOK
<1>2. /\ Items(Append(queues[h], m)) = Items(queues[h]) \cup {m}
      /\ \A s : Newest(Append(queues[h], m), s) = IF m.service = s THEN {m}
                                                   ELSE Newest(queues[h], s)
  <2> DEFINE M == O!Message
             q == queues[h]
  <2>1. q \in Seq(M) /\ m \in M
    BY <1>1
  <2> HIDE DEF M, q
  <2>2. /\ Items(Append(q, m)) = Items(q) \cup {m}
        /\ \A s : Newest(Append(q, m), s) = IF m.service = s THEN {m} ELSE Newest(q, s)
    BY <2>1, Appended
  <2> QED BY <2>2 DEF q
<1>3. /\ queues'[h] = Append(queues[h], m)
      /\ \A g \in O!Handlers : g # h => queues'[g] = queues[g]
  BY DEF ClusterOK, QueuesOK
<1> QED BY <1>2, <1>3

LEMMA QueueShrinks ==
    ASSUME NEW o, ClusterOK(o), NEW h \in O!Handlers, queues[h] # << >>,
           queues' = [queues EXCEPT ![h] = Tail(@)]
    PROVE  /\ Items(queues[h]) = Items(queues'[h]) \cup {Head(queues[h])}
           /\ \A s : Newest(queues[h], s) =
                        IF Newest(queues'[h], s) = {} /\ Head(queues[h]).service = s
                           THEN {Head(queues[h])} ELSE Newest(queues'[h], s)
           /\ \A g \in O!Handlers : g # h => queues'[g] = queues[g]
<1>1. queues[h] \in Seq(O!Message)
  BY DEF ClusterOK, QueuesOK
<1>2. /\ Items(queues[h]) = Items(Tail(queues[h])) \cup {Head(queues[h])}
      /\ \A s : Newest(queues[h], s) =
                   IF Newest(Tail(queues[h]), s) = {} /\ Head(queues[h]).service = s
                      THEN {Head(queues[h])} ELSE Newest(Tail(queues[h]), s)
  BY <1>1, Removed
<1>3. /\ queues'[h] = Tail(queues[h])
      /\ \A g \in O!Handlers : g # h => queues'[g] = queues[g]
  BY DEF ClusterOK, QueuesOK
<1> QED BY <1>2, <1>3

(* The image of service s, or its scale, changes and an event tells it.    *)
LEMMA FollowChange ==
    ASSUME NEW o, ClusterOK(o), DocsFollow(o), restarts = 0, NEW s, NEW d, Changes(s, d),
           UNCHANGED overseerVars
    PROVE  DocsFollow(o)'
<1> SUFFICES ASSUME NEW t \in Services PROVE Unheard(t)' \/ UpdateSays(o, t)'
  BY DEF DocsFollow
<1>1. Items(events') = Items(events) \cup {[service |-> s, completed |-> FALSE]}
  BY EventTold DEF Changes
<1>2. CASE t = s
  <2>1. [service |-> s, completed |-> FALSE] \in Items(events')
    BY <1>1
  <2>2. [service |-> s, completed |-> FALSE].service = t
    BY <1>2
  <2> QED BY <2>1, <2>2 DEF Unheard
<1>3. CASE t # s
  <2>1. docker'[t] = docker[t]
    BY <1>3 DEF Changes, ClusterOK, DockerOK
  <2>2. UNCHANGED <<docs, queues, ostage, omsg>>
    BY DEF overseerVars
  <2> QED BY <1>1, <2>1, <2>2 DEF DocsFollow, Unheard, UpdateSays
<1> QED BY <1>2, <1>3

LEMMA DocsFollowDocker ==
    ASSUME NEW w, NEW o, Single(w, o), ClusterOK(o), DocsFollow(o), restarts = 0, restarts' = 0,
           \/ Listen \/ Update \/ Complete \/ ScalerRestart
           \/ \E s \in Services : DeployByHand(s)
    PROVE  DocsFollow(o)'
<1>1. CASE Update
  BY <1>1, UpdateEffect, FollowChange
<1>2. CASE \E s \in Services : DeployByHand(s)
  BY <1>2, DeployEffect, FollowChange
<1>3. CASE Complete
  <2>1. PICK s \in updating :
               /\ events' = Append(events, [service |-> s, completed |-> TRUE])
               /\ UNCHANGED <<docker, overseerVars>>
    BY <1>3, CompleteEffect
  <2>2. Items(events) \subseteq Items(events')
    BY <2>1, EventTold DEF ClusterOK, DockerOK
  <2> QED BY <2>1, <2>2 DEF DocsFollow, Unheard, UpdateSays, overseerVars
<1>4. CASE ScalerRestart
  BY <1>4, ScalerEffect
<1>5. CASE Listen
  <2>1. PICK m \in O!Message :
               /\ m.kind = "updated"
               /\ m.service = Head(events).service /\ m.data = docker[m.service]
               /\ events # << >> /\ events' = Tail(events)
               /\ queues' = [queues EXCEPT !["updated"] = Append(@, m)]
               /\ UNCHANGED <<docker, docs, ostage, omsg>>
    BY <1>5, ListenEffect
  <2>2. Items(events) = Items(events') \cup {Head(events)}
    BY <2>1, Removed DEF ClusterOK, DockerOK
  <2>3. "updated" \in O!Handlers
    BY DEF O!Handlers
  <2>5. \A s : Newest(queues'["updated"], s) =
                   IF m.service = s THEN {m} ELSE Newest(queues["updated"], s)
    BY <2>1, <2>3, QueueGrows
  <2> SUFFICES ASSUME NEW s \in Services PROVE Unheard(s)' \/ UpdateSays(o, s)'
    BY DEF DocsFollow
  <2>6. CASE s = m.service
    <3>1. Newest(queues'["updated"], s) = {m} /\ m.data = docker'[s]
      BY <2>1, <2>5, <2>6
    <3>2. /\ Newest(queues'["updated"], s) # {}
          /\ \A n \in Newest(queues'["updated"], s) : n.data = docker'[s]
      BY <3>1
    <3> QED BY <3>2 DEF UpdateSays
  <2>7. CASE s # m.service
    BY <2>1, <2>2, <2>5, <2>7 DEF DocsFollow, Unheard, UpdateSays
  <2> QED BY <2>6, <2>7
<1> QED BY <1>1, <1>2, <1>3, <1>4, <1>5

(* A worker that is not about to read or save an update.                   *)
LEMMA DocsFollowElsewhere ==
    ASSUME NEW o, DocsFollow(o), restarts = 0, UNCHANGED <<docker, events>>,
           queues'["updated"] = queues["updated"],
           \A s \in Services : docs'[s].data = docs[s].data,
           ostage[o] \notin {"read", "save"}, ostage'[o] \notin {"read", "save"}
    PROVE  DocsFollow(o)'
  BY DEF DocsFollow, Unheard, UpdateSays

LEMMA DocsFollowOverseer ==
    ASSUME NEW w, NEW o, Single(w, o), ClusterOK(o), DocsFollow(o), restarts = 0, restarts' = 0,
           \/ OverseerHandler(o) \/ OverseerCrash(o)
           \/ DispatchUpdated(o) /\ O!Dispatch(o)
           \/ DispatchUpdated(o) /\ O!PropagateConfig(o)
    PROVE  DocsFollow(o)'
<1>1. O!Finish(o) => ostage'[o] = "idle"
  BY OverseerFinish DEF ClusterOK
<1>2. ASSUME NEW h \in O!Handlers, O!Receive(o, h), UNCHANGED <<planer, mail, history>>
      PROVE  DocsFollow(o)'
  <2> DEFINE m == Head(queues[h])
  <2>1. /\ h \in {"updated", "own", "boot"} /\ queues[h] # << >>
        /\ omsg'[o] = m /\ ostage[o] = "idle"
        /\ queues' = [queues EXCEPT ![h] = Tail(@)]
        /\ ostage'[o] = CASE h = "updated" -> "read" [] h = "own" -> "check"
                          [] OTHER -> "boot"
        /\ UNCHANGED <<docker, events, docs>>
    BY <1>2, TakenEffect DEF dockerVars
  <2>2. CASE h # "updated"
    <3>1. queues'["updated"] = queues["updated"]
      BY <2>1, <2>2 DEF ClusterOK, QueuesOK
    <3> QED BY <2>1, <2>2, <3>1, DocsFollowElsewhere
  <2>3. CASE h = "updated"
    <3>3. \A s : Newest(queues["updated"], s) =
                    IF Newest(queues'["updated"], s) = {} /\ m.service = s
                       THEN {m} ELSE Newest(queues'["updated"], s)
      BY <2>1, <2>3, QueueShrinks
    <3> SUFFICES ASSUME NEW s \in Services PROVE Unheard(s)' \/ UpdateSays(o, s)'
      BY DEF DocsFollow
    <3> HIDE DEF m
    <3>4. Unheard(s) \/ UpdateSays(o, s)
      BY DEF DocsFollow
    <3>5. ostage'[o] = "read" /\ ostage[o] \notin {"read", "save"}
      BY <2>1, <2>3
    <3>6. CASE m.service = s
      BY <2>1, <3>3, <3>4, <3>5, <3>6 DEF Unheard, UpdateSays
    <3>7. CASE m.service # s
      BY <2>1, <3>3, <3>4, <3>5, <3>7 DEF Unheard, UpdateSays
    <3> QED BY <3>6, <3>7
  <2> QED BY <2>2, <2>3
<1>3. ASSUME O!FetchServices(o), UNCHANGED <<planer, mail, history>> PROVE DocsFollow(o)'
  BY <1>1, <1>3, BootEffect, DocsFollowElsewhere DEF dockerVars
<1>4. ASSUME O!ReadUpdated(o), UNCHANGED <<planer, mail, history>> PROVE DocsFollow(o)'
  <2>1. /\ ostage[o] = "read" /\ ostage'[o] = "save"
        /\ UNCHANGED <<docker, events, docs, queues, omsg>>
    BY <1>4, ReadEffect DEF dockerVars
  <2> QED BY <2>1 DEF DocsFollow, Unheard, UpdateSays
<1>5. ASSUME O!SaveServiceState(o), UNCHANGED <<planer, mail, history>> PROVE DocsFollow(o)'
  <2> DEFINE u == omsg[o].service
  <2>1. /\ ostage[o] = "save" /\ u \in Services
        /\ docs' = [docs EXCEPT ![u].data = omsg[o].data]
        /\ O!Finish(o) \/ ostage'[o] = "dispatch"
        /\ UNCHANGED <<docker, events, queues>>
    BY <1>5, SaveEffect DEF dockerVars
  <2>2. docs'[u].data = omsg[o].data /\ \A t \in Services : t # u => docs'[t] = docs[t]
    BY <2>1 DEF ClusterOK, DocsOK, O!Doc
  <2>3. ostage'[o] \notin {"read", "save"}
    BY <1>1, <2>1
  <2> SUFFICES ASSUME NEW s \in Services PROVE Unheard(s)' \/ UpdateSays(o, s)'
    BY DEF DocsFollow
  <2>4. CASE s = u
    BY <2>1, <2>2, <2>3, <2>4 DEF DocsFollow, Unheard, UpdateSays
  <2>5. CASE s # u
    BY <2>1, <2>2, <2>3, <2>5 DEF DocsFollow, Unheard, UpdateSays
  <2> QED BY <2>4, <2>5
<1>6. ASSUME O!CheckNewScaleConfig(o), UNCHANGED <<planer, mail, history>>
      PROVE  DocsFollow(o)'
  BY <1>1, <1>6, CheckEffect, DocsFollowElsewhere DEF dockerVars
<1>7. ASSUME DispatchUpdated(o), O!Dispatch(o) PROVE DocsFollow(o)'
  <2>1. /\ ostage[o] = "dispatch" /\ O!Finish(o) /\ UNCHANGED <<docker, events, docs>>
        /\ \/ UNCHANGED queues
           \/ \E m : queues' = [queues EXCEPT !["own"] = Append(@, m)]
    BY <1>7, DispatchEffect DEF dockerVars
  <2>2. queues'["updated"] = queues["updated"]
    <3>1. "updated" \in O!Handlers /\ "own" # "updated"
      BY DEF O!Handlers
    <3> QED BY <2>1, <3>1 DEF ClusterOK, QueuesOK
  <2> QED BY <1>1, <2>1, <2>2, DocsFollowElsewhere
<1>8. ASSUME DispatchUpdated(o), O!PropagateConfig(o) PROVE DocsFollow(o)'
  BY <1>1, <1>8, PropagateEffect, DocsFollowElsewhere DEF dockerVars
<1>9. CASE OverseerCrash(o)
  BY <1>9, OverseerCrashEffect
<1> QED BY <1>2, <1>3, <1>4, <1>5, <1>6, <1>7, <1>8, <1>9 DEF OverseerHandler
LEMMA MailGrows ==
    ASSUME NEW o, ClusterOK(o), NEW m \in Message, mail' = Append(mail, m)
    PROVE  /\ Items(mail') = Items(mail) \cup {m}
           /\ \A s : Newest(mail', s) = IF m.service = s THEN {m} ELSE Newest(mail, s)
<1> DEFINE M == Message
<1>1. mail \in Seq(M) /\ m \in M
  BY DEF ClusterOK, MailOK
<1> HIDE DEF M
<1> QED BY <1>1, Appended

LEMMA MailShrinks ==
    ASSUME NEW o, ClusterOK(o), mail # << >>, mail' = Tail(mail)
    PROVE  /\ Items(mail) = Items(mail') \cup {Head(mail)}
           /\ \A s : Newest(mail, s) = IF Newest(mail', s) = {} /\ Head(mail).service = s
                                          THEN {Head(mail)} ELSE Newest(mail', s)
<1>1. mail \in Seq(Message)
  BY DEF ClusterOK, MailOK
<1> QED BY <1>1, Removed

(* A step of the overseer or of docker that announces nothing.             *)
LEMMA NewsElsewhere ==
    ASSUME NEW w, NEW o, NewsFollows(w, o), restarts = 0,
           UNCHANGED <<planer, mail, outdated>>,
           \A s \in Services : docs'[s].data = docs[s].data,
           ostage[o] # "dispatch" \/ UNCHANGED <<ostage, omsg, doc>>
    PROVE  NewsFollows(w, o)'
<1> SUFFICES ASSUME NEW s \in Services \ outdated
             PROVE  Announcing(o, s)' \/ MailSays(w, s)'
  BY DEF NewsFollows
<1>1. Announcing(o, s) \/ MailSays(w, s)
  BY DEF NewsFollows
<1>2. UNCHANGED <<msg, catalog>>
  BY DEF planer
<1>3. MailSays(w, s) => MailSays(w, s)'
  BY <1>2 DEF MailSays, Believed
<1>4. Announcing(o, s) => Announcing(o, s)'
  BY DEF Announcing
<1> QED BY <1>1, <1>3, <1>4

LEMMA NewsFollowsCluster ==
    ASSUME NEW w, NEW o, Single(w, o), ClusterOK(o), NewsFollows(w, o),
           restarts = 0, restarts' = 0, ClusterStep(o)
    PROVE  NewsFollows(w, o)'
<1>1. CASE Listen \/ Update \/ Complete \/ \E s \in Services : DeployByHand(s)
  <2>1. UNCHANGED <<planer, mail, outdated, docs, ostage, omsg, doc>>
    BY <1>1, ListenEffect, UpdateEffect, CompleteEffect, DeployEffect
    DEF overseerVars, history
  <2> QED BY <2>1, NewsElsewhere
<1>2. CASE ScalerRestart \/ OverseerCrash(o)
  BY <1>2, ScalerEffect, OverseerCrashEffect DEF ClusterOK, DockerOK
<1>3. ASSUME \/ \E h \in O!Handlers : O!Receive(o, h)
             \/ O!FetchServices(o) \/ O!ReadUpdated(o) \/ O!CheckNewScaleConfig(o),
             UNCHANGED <<planer, mail, history>>
      PROVE  NewsFollows(w, o)'
  <2>1. ostage[o] # "dispatch"
    BY <1>3 DEF O!Receive, O!FetchServices, O!ReadUpdated, O!CheckNewScaleConfig
  <2>2. \A s \in Services : docs'[s].data = docs[s].data
    BY <1>3, TakenEffect, BootEffect, ReadEffect, CheckEffect
  <2>3. UNCHANGED <<planer, mail, outdated>>
    BY <1>3 DEF history
  <2> QED BY <2>1, <2>2, <2>3, NewsElsewhere
<1>4. ASSUME O!SaveServiceState(o), UNCHANGED <<planer, mail, history>>
      PROVE  NewsFollows(w, o)'
  <2> DEFINE u == omsg[o].service
  <2>1. /\ ostage[o] = "save" /\ u \in Services
        /\ docs' = [docs EXCEPT ![u].data = omsg[o].data]
        /\ \/ O!Finish(o) /\ docs[u].data.image = omsg[o].data.image
           \/ ostage'[o] = "dispatch" /\ UNCHANGED <<omsg, doc>>
    BY <1>4, SaveEffect
  <2>2. docs'[u].data = omsg[o].data /\ \A t \in Services : t # u => docs'[t] = docs[t]
    BY <2>1 DEF ClusterOK, DocsOK, O!Doc
  <2>3. doc[o].data = docs[u].data
    BY <2>1 DEF ClusterOK, OverseerOK
  <2>4. UNCHANGED <<msg, catalog, mail, outdated>>
    BY <1>4 DEF planer, history
  <2> SUFFICES ASSUME NEW s \in Services \ outdated
               PROVE  Announcing(o, s)' \/ MailSays(w, s)'
    BY <2>4 DEF NewsFollows
  <2>5. MailSays(w, s)
    BY <2>1 DEF NewsFollows, Announcing
  <2>6. CASE docs'[s].data.image = docs[s].data.image
    BY <2>4, <2>5, <2>6 DEF MailSays, Believed
  <2>7. CASE docs'[s].data.image # docs[s].data.image
    <3>1. s = u /\ docs[u].data.image # omsg[o].data.image
      BY <2>2, <2>7
    <3> QED BY <2>1, <2>3, <3>1 DEF Announcing
  <2> QED BY <2>6, <2>7
<1>5. ASSUME DispatchUpdated(o), O!Dispatch(o) \/ O!PropagateConfig(o)
      PROVE  NewsFollows(w, o)'
  <2> DEFINE u == omsg[o].service
             d == omsg[o].data
  <2>1. PICK b \in BOOLEAN : mail' = Append(mail, ServiceUpdated(u, d, b))
    BY <1>5, DispatchEffect, PropagateEffect
  <2>2. u \in Services /\ d \in O!State
    BY DEF ClusterOK, OverseerOK, Single, O!Message
  <2>3. /\ ServiceUpdated(u, d, b) \in Message /\ ServiceUpdated(u, d, b).service = u
        /\ ServiceUpdated(u, d, b).version = d.image
    BY <2>2, UpdatedMessage
  <2>4. \A s : Newest(mail', s) = IF u = s THEN {ServiceUpdated(u, d, b)}
                                  ELSE Newest(mail, s)
    BY <2>1, <2>3, MailGrows
  <2>5. UNCHANGED <<docs, msg, catalog>> /\ outdated \subseteq outdated'
    BY <1>5, DispatchEffect, PropagateEffect DEF planer, history
  <2>6. u \in Services \ outdated' => docs[u].data.image = d.image
    <3>1. CASE O!Dispatch(o)
      BY <1>5, <3>1, DispatchEffect DEF ClusterOK, OverseerOK
    <3>2. CASE O!PropagateConfig(o)
      BY <1>5, <3>2, PropagateEffect
    <3> QED BY <1>5, <3>1, <3>2
  <2> SUFFICES ASSUME NEW s \in Services \ outdated'
               PROVE  MailSays(w, s)'
    BY DEF NewsFollows
  <2>7. CASE s = u
    <3>1. Newest(mail', s) = {ServiceUpdated(u, d, b)}
      BY <2>4, <2>7
    <3>2. /\ Newest(mail', s) # {}
          /\ \A m \in Newest(mail', s) : m.version = docs'[s].data.image
      BY <2>3, <2>5, <2>6, <2>7, <3>1
    <3> QED BY <3>2 DEF MailSays
  <2>8. CASE s # u
    <3>1. MailSays(w, s)
      BY <2>5, <2>8 DEF NewsFollows, Announcing
    <3> QED BY <2>4, <2>5, <2>8, <3>1 DEF MailSays, Believed
  <2> QED BY <2>7, <2>8
<1> QED BY <1>1, <1>2, <1>3, <1>4, <1>5 DEF ClusterStep, OverseerHandler

(* The version the planer believes a service runs only changes when it     *)
(* takes the mail about it.                                                *)
LEMMA BelievedKept ==
    ASSUME NEW w, NEW o, Single(w, o), ClusterOK(o), PlanerInv(w), PlanerMoves(w),
           ~ TakeMail(w), NEW s \in Services
    PROVE  Believed(w, s)' = Believed(w, s)
<1>1. Workers = {w} /\ SoloInv
  BY DEF Single, PlanerInv
<1>2. CASE TakeCheck(w) \/ AskUpgrade(w)
  <2>1. stage[w] = "idle" /\ UNCHANGED catalog
    BY <1>2 DEF TakeCheck, AskUpgrade, ReceiveCheck, Receive, Take, store
  <2>2. msg[w].kind = "check"
    BY <2>1 DEF PlanerInv, PlanerOK
  <2>3. msg'[w].kind # "deployed"
    <3>1. CASE AskUpgrade(w)
      BY <3>1 DEF AskUpgrade
    <3>2. CASE TakeCheck(w)
      <4>1. msg'[w] = AnyMessage("check")
        BY <1>1, <3>2 DEF TakeCheck, ReceiveCheck, Take, SoloInv, PlanInv, TypeOK
      <4> QED BY <4>1 DEF AnyMessage
    <3> QED BY <1>2, <3>1, <3>2
  <2> QED BY <2>1, <2>2, <2>3 DEF Believed
<1>3. CASE PlanerCrash(w)
  BY <1>3 DEF PlanerCrash, Crash, store, Believed
<1>4. ASSUME Finish(w), UNCHANGED catalog,
             msg[w].kind = "deployed" => catalog[msg[w].service].version = msg[w].version
      PROVE  Believed(w, s)' = Believed(w, s)
  BY <1>1, <1>4, Moved1 DEF Believed
<1>5. CASE PlanerStep(w) \/ CallUpgrade(w)
  <2>1. Work(w)
    BY <1>5 DEF PlanerStep, CallUpgrade, Work
  <2>2. CASE ReadDeployed(w) \/ ReadCleaned(w) \/ ReadImage(w) \/ ReadSanity(w)
    <3>1. CASE Finish(w)
      <4>1. msg[w].kind = "deployed" => catalog[msg[w].service].version = msg[w].version
        BY <1>1, <2>2, <3>1, ReadVersions, Moved1 DEF Rewrite
      <4>2. UNCHANGED catalog
        BY <1>1, <2>2, ReadVersions DEF store
      <4> QED BY <1>4, <3>1, <4>1, <4>2
    <3>2. CASE ~ Finish(w)
      BY <1>1, <2>2, <3>2, ReadVersions DEF Rewrite, store, Believed
    <3> QED BY <3>1, <3>2
  <2>3. CASE SaveService(w)
    <3> DEFINE u == msg[w].service
    <3>1. /\ u \in Services
          /\ catalog' = [catalog EXCEPT ![u] = entry[w]]
          /\ catalog'[u].version = IF msg[w].kind = "deployed" THEN msg[w].version
                                   ELSE catalog[u].version
          /\ msg' = msg \/ (msg[w].kind = "cleaned" /\ Finish(w))
      BY <1>1, <2>3, SaveVersions
    <3>2. s # u => catalog'[s] = catalog[s]
      BY <3>1 DEF SoloInv, PlanInv, TypeOK
    <3>3. msg' = msg \/ (msg[w].kind # "deployed" /\ msg'[w].kind # "deployed")
      BY <1>1, <3>1, Moved1
    <3> QED BY <3>1, <3>2, <3>3 DEF Believed
  <2>4. CASE ~ \/ ReadDeployed(w) \/ ReadCleaned(w) \/ ReadImage(w) \/ ReadSanity(w)
               \/ SaveService(w)
    <3>1. UNCHANGED catalog
      BY <1>1, <2>1, <2>4, PlanerOthers DEF Work
    <3>2. msg' = msg \/ Finish(w)
      BY <2>1, <2>4 DEF Work, LogPhase, DispatchNewVersion, ContinuePlan, RunStep,
                        CallOverseer, ReplacePlan, Solve, SolveBestPhase, BuildSteps,
                        DisableScheduled, InsertPlan
    <3>3. stage[w] \notin {"read", "save", "idle"}
      BY <2>1, <2>4 DEF Work, LogPhase, DispatchNewVersion, ContinuePlan, RunStep,
                        CallOverseer, ReplacePlan, Solve, SolveBestPhase, BuildSteps,
                        DisableScheduled, InsertPlan
    <3>4. msg[w].kind = "deployed" => catalog[msg[w].service].version = msg[w].version
      BY <3>3 DEF PlanerInv, PlanerOK, PlanerStages
    <3> QED BY <1>4, <3>1, <3>2, <3>4 DEF Believed
  <2> QED BY <2>1, <2>2, <2>3, <2>4
<1> QED BY <1>2, <1>3, <1>5 DEF PlanerMoves

LEMMA NewsFollowsPlaner ==
    ASSUME NEW w, NEW o, Single(w, o), SystemInv(w, o), NewsFollows(w, o),
           restarts = 0, PlanerMoves(w)
    PROVE  NewsFollows(w, o)'
<1>1. ClusterOK(o) /\ PlanerInv(w) /\ SoloInv
  BY DEF SystemInv, PlanerInv
<1>2. UNCHANGED <<docs, ostage, omsg, doc, outdated>>
  BY DEF PlanerMoves, PlanerStep, CallUpgrade, TakeMail, TakeCheck, AskUpgrade,
         PlanerCrash, overseer, history
<1> SUFFICES ASSUME NEW s \in Services \ outdated
             PROVE  Announcing(o, s)' \/ MailSays(w, s)'
  BY <1>2 DEF NewsFollows
<1>3. Announcing(o, s) => Announcing(o, s)'
  BY <1>2 DEF Announcing
<1>4. ASSUME MailSays(w, s) PROVE MailSays(w, s)'
  <2>1. CASE ~ TakeMail(w)
    <3>1. UNCHANGED mail
      BY <2>1 DEF PlanerMoves, PlanerStep, CallUpgrade, TakeCheck, AskUpgrade, PlanerCrash
    <3>2. Believed(w, s)' = Believed(w, s)
      BY <1>1, <2>1, BelievedKept
    <3> QED BY <1>2, <1>4, <3>1, <3>2 DEF MailSays
  <2>2. CASE TakeMail(w)
    <3> DEFINE m == Head(mail)
    <3>1. /\ stage[w] = "idle" /\ mail # << >> /\ mail' = Tail(mail)
          /\ m.kind = "deployed" /\ msg'[w] = m /\ UNCHANGED catalog
      BY <1>1, <2>2, MailTaken DEF store
    <3>2. msg[w].kind = "check"
      BY <1>1, <3>1 DEF PlanerInv, PlanerOK
    <3>3. Newest(mail, s) = IF Newest(mail', s) = {} /\ m.service = s
                               THEN {m} ELSE Newest(mail', s)
      BY <1>1, <3>1, MailShrinks
    <3> HIDE DEF m
    <3>4. CASE Newest(mail', s) # {}
      BY <1>2, <1>4, <3>3, <3>4 DEF MailSays
    <3>5. CASE Newest(mail', s) = {} /\ m.service = s
      <4>1. m.version = docs[s].data.image
        BY <1>4, <3>3, <3>5 DEF MailSays
      <4> QED BY <1>2, <3>1, <3>5, <4>1 DEF MailSays, Believed
    <3>6. CASE Newest(mail', s) = {} /\ m.service # s
      BY <1>2, <1>4, <3>1, <3>2, <3>3, <3>6 DEF MailSays, Believed
    <3> QED BY <3>4, <3>5, <3>6
  <2> QED BY <2>1, <2>2
<1> QED BY <1>3, <1>4 DEF NewsFollows

LEMMA FollowInit ==
    ASSUME NEW w, NEW o, Single(w, o) PROVE SystemInit => FollowInv(w, o)
<1> SUFFICES ASSUME SystemInit PROVE FollowInv(w, o)
  OBVIOUS
<1>1. SystemInv(w, o)
  BY SystemInvInit
<1>2. \A s \in Services : docs[s].data = docker[s]
  BY DEF SystemInit, O!InitWith, O!NewDoc
<1>3. queues["updated"] = << >> /\ mail = << >>
  BY DEF SystemInit, O!InitWith, O!Handlers
<1>4. DocsFollow(o)
  BY <1>2, <1>3, Emptied DEF SystemInit, O!InitWith, DocsFollow, UpdateSays, Single
<1>5. msg[w].kind = "check"
  BY NoMessageKind DEF SystemInit, Init, Single
<1>6. NewsFollows(w, o)
  BY <1>2, <1>3, <1>5, Emptied DEF SystemInit, NewsFollows, MailSays, Believed
<1> QED BY <1>1, <1>4, <1>6 DEF FollowInv

LEMMA FollowNext ==
    ASSUME NEW w, NEW o, Single(w, o)
    PROVE  FollowInv(w, o) /\ [SystemNext]_systemVars => FollowInv(w, o)'
<1> SUFFICES ASSUME FollowInv(w, o), [SystemNext]_systemVars PROVE FollowInv(w, o)'
  OBVIOUS
<1>1. SystemInv(w, o)'
  BY SystemInvNext DEF FollowInv
<1>2. ClusterOK(o) /\ PlanInv
  BY DEF FollowInv, SystemInv, PlanerInv, SoloInv
<1>3. ClusterStep(o) \/ PlanerMoves(w) \/ UNCHANGED systemVars
  BY <1>2, SystemSteps
<1>4. CASE restarts' # 0
  BY <1>1, <1>4 DEF FollowInv, DocsFollow, NewsFollows
<1>5. CASE restarts' = 0
  <2>1. restarts = 0
    BY <1>2, <1>3, <1>5, RestartsGrow
  <2>2. CASE ClusterStep(o)
    <3>1. DocsFollow(o)'
      BY <1>2, <1>5, <2>1, <2>2, DocsFollowDocker, DocsFollowOverseer
      DEF FollowInv, ClusterStep
    <3> QED BY <1>1, <1>2, <1>5, <2>1, <2>2, <3>1, NewsFollowsCluster DEF FollowInv
  <2>3. CASE PlanerMoves(w)
    <3>1. UNCHANGED <<docker, events, queues, ostage, omsg, docs>>
      BY <2>3 DEF PlanerMoves, PlanerStep, CallUpgrade, TakeMail, TakeCheck, AskUpgrade,
                  PlanerCrash, overseer
    <3>2. DocsFollow(o)'
      BY <2>1, <3>1 DEF FollowInv, DocsFollow, Unheard, UpdateSays
    <3> QED BY <1>1, <2>1, <2>3, <3>2, NewsFollowsPlaner DEF FollowInv
  <2>4. CASE UNCHANGED systemVars
    <3>1. UNCHANGED <<docker, events, queues, ostage, omsg, doc, docs, msg, catalog, mail,
                      outdated>>
      BY <2>4 DEF systemVars, overseer, planer, history
    <3> QED
      BY <1>1, <2>1, <3>1 DEF FollowInv, DocsFollow, Unheard, UpdateSays, NewsFollows,
                              Announcing, MailSays, Believed
  <2> QED BY <1>3, <2>2, <2>3, <2>4
<1> QED BY <1>4, <1>5

LEMMA FollowSettled ==
    ASSUME NEW w, NEW o, Single(w, o), FollowInv(w, o) PROVE CatalogFollowsDocker
<1> SUFFICES ASSUME Settled, restarts = 0,
                    NEW s \in (DOMAIN docs \cap DOMAIN docker) \ (missed \cup outdated)
             PROVE  catalog[s].version = docker[s].image
  BY DEF CatalogFollowsDocker
<1>1. s \in Services
  BY DEF FollowInv, SystemInv, ClusterOK, DockerOK
<1>2. /\ events = << >> /\ queues["updated"] = << >> /\ mail = << >>
      /\ ostage[o] = "idle" /\ stage[w] = "idle"
  BY DEF Settled, O!Settled, O!Handlers, Single
<1>3. docs[s].data = docker[s]
  BY <1>1, <1>2, Emptied DEF FollowInv, DocsFollow, Unheard, UpdateSays
<1>4. msg[w].kind = "check"
  BY <1>2 DEF FollowInv, SystemInv, PlanerInv, PlanerOK
<1>5. Believed(w, s) = docs[s].data.image
  BY <1>1, <1>2, Emptied DEF FollowInv, NewsFollows, Announcing, MailSays
<1> QED BY <1>3, <1>4, <1>5 DEF Believed

(* With a single worker of each service the catalog of the planer has, when*)
(* everything was handled, the version that docker runs of each service:   *)
(* whatever was deployed by hand, and whatever the planer crashed over, as *)
(* long as the overseer and scaler_docker did not restart, and but for a   *)
(* service whose scale_config was announced after its next image.          *)
THEOREM CatalogIsReal ==
    ASSUME NEW w, NEW o, Single(w, o) PROVE SystemSpec => []CatalogFollowsDocker
<1>1. FollowInv(w, o) => CatalogFollowsDocker
  BY FollowSettled
<1> QED BY <1>1, FollowInit, FollowNext, PTL DEF SystemSpec

-----------------------------------------------------------------------------
(* The path that a plan takes through the cluster                          *)

(* As long as nothing disturbed it the cluster is on the path of the plan  *)
(* last launched, p, of which k steps were ordered: the first k - 1 are    *)
(* deployed, and the k-th one once docker has taken its order.             *)
Over(k, n) == n \in 1 .. k /\ (n = k => calls = << >>)
Reached(p, k) == {p.steps[n].service : n \in {i \in DOMAIN p.steps : Over(k, i)}}

(* What the solver explained when it made p: every mix of versions between *)
(* its steps, the services it does not move staying as they are.           *)
Between(p, n, f) ==
    /\ \A i \in DOMAIN p.steps :
          f[p.steps[i].service] = IF i <= n THEN p.steps[i].to ELSE p.steps[i].from
    /\ \A s \in Services :
          (\A i \in DOMAIN p.steps : p.steps[i].service # s) => f[s] = docker[s].image
PathExplained(p) ==
    \A n \in DOMAIN p.steps : \A f \in [Services -> Versions] :
        Between(p, n, f) => f \in Explained

Ordered(p, k) ==
    \/ calls = << >>
    \/ /\ k \in DOMAIN p.steps /\ Len(calls) = 1
       /\ \A c \in Items(calls) :
             c.service = p.steps[k].service /\ c.data.image = p.steps[k].to

Path(p, k) ==
    /\ p \in Plan /\ k \in 0 .. Len(p.steps)
    /\ DistinctServices(p)
    /\ Ordered(p, k)
    /\ PathExplained(p)
    /\ \A n \in DOMAIN p.steps :
          LET st == p.steps[n]
          IN /\ st.from # st.to /\ st.to \in catalog[st.service].versions
             /\ docker[st.service].image = IF Over(k, n) THEN st.to ELSE st.from

(* All that is under way is about the services R, and true of them.        *)
Says(R, m) == m.service \in R /\ m.data = docker[m.service]
Tells(R, m) ==
    /\ m.service \in R /\ m.version = docker[m.service].image
    /\ docker[m.service].mode = 0 => m.finished
Told(R) == updating \subseteq R /\ \A e \in Items(events) : e.service \in R
Queued(o, R) ==
    /\ \A m \in Items(queues["updated"]) : Says(R, m)
    /\ \A m \in Items(queues["own"]) : Says(R, m) /\ docs[m.service].data = m.data
    /\ omsg[o].kind # "boot" => Says(R, omsg[o])
    /\ omsg[o].kind = "own" => docs[omsg[o].service].data = omsg[o].data
Mailed(R) == \A m \in Items(mail) : Tells(R, m)
Truthful(o, R) == Told(R) /\ Queued(o, R) /\ Mailed(R) /\ outdated = {}

(* A copy of the plan, as far as it was stored.                            *)
Matches(q, p, k) ==
    /\ Len(q.steps) = Len(p.steps)
    /\ \A n \in DOMAIN p.steps :
          /\ q.steps[n].service = p.steps[n].service /\ q.steps[n].to = p.steps[n].to
          /\ n > k => q.steps[n].state = "waiting"
          /\ q.steps[n].state = "done" => Over(k, n)

(* The catalog follows, at most one step behind; the planer only goes on   *)
(* with the step that was ordered last, and the plans it may continue are  *)
(* copies of p.                                                            *)
Catching(p, k) ==
    \A n \in DOMAIN p.steps :
        LET st == p.steps[n]
        IN catalog[st.service].version \in
               IF n < k THEN {st.to} ELSE IF n > k THEN {st.from} ELSE {st.from, st.to}
Attends(w, p, k) ==
    k \in DOMAIN p.steps /\ msg[w].service = p.steps[k].service /\ calls = << >>
Following(w, p, k) ==
    /\ Catching(p, k)
    /\ msg[w].kind = "deployed" => Tells(Reached(p, k), msg[w])
    /\ msg[w].kind = "deployed" /\ stage[w] \in {"save", "log", "continue", "step", "call"} =>
          Attends(w, p, k)
    /\ IF stage[w] \in {"disable", "insert"} THEN Matches(sched[w], p, k)
       ELSE \A i \in Running : Matches(scheduling[i], p, k)
    /\ stage[w] \in {"step", "call", "replace"} => Matches(sched[w], p, k)

OnPath(w, o, p, k) == Path(p, k) /\ Truthful(o, Reached(p, k)) /\ Following(w, p, k)

(* A plan is launched from where it was made.                              *)
Ready(w) == stage[w] \in {"first_step", "first_call"} => InStep /\ Path(sched[w], 0)

-----------------------------------------------------------------------------
(* All that is under way stays true                                        *)

LEMMA TruthfulKept ==
    ASSUME NEW o, NEW R
    PROVE  /\ Told(R) /\ UNCHANGED <<updating, events>> => Told(R)'
           /\ Queued(o, R) /\ UNCHANGED <<docker, queues, docs, omsg>> => Queued(o, R)'
           /\ Mailed(R) /\ UNCHANGED <<docker, mail>> => Mailed(R)'
<1>1. Told(R) /\ UNCHANGED <<updating, events>> => Told(R)'
  BY DEF Told
<1>2. Queued(o, R) /\ UNCHANGED <<docker, queues, docs, omsg>> => Queued(o, R)'
  BY DEF Queued, Says
<1>3. Mailed(R) /\ UNCHANGED <<docker, mail>> => Mailed(R)'
  BY DEF Mailed, Tells
<1> QED BY <1>1, <1>2, <1>3

LEMMA TruthfulDocker ==
    ASSUME NEW w, NEW o, Single(w, o), ClusterOK(o), NEW R, Truthful(o, R),
           Listen \/ Complete \/ ScalerRestart
    PROVE  Truthful(o, R)'
<1>1. Told(R) /\ Queued(o, R) /\ Mailed(R) /\ outdated = {}
  BY DEF Truthful
<1>2. CASE Complete
  <2>1. PICK s \in updating :
               /\ updating' = updating \ {s}
               /\ events' = Append(events, [service |-> s, completed |-> TRUE])
               /\ UNCHANGED <<docker, queues, docs, omsg, mail, outdated>>
    BY <1>2, CompleteEffect DEF overseerVars, history
  <2>2. s \in R /\ s \in Services
    BY <1>1 DEF Told, ClusterOK, DockerOK
  <2>3. Items(events') = Items(events) \cup {[service |-> s, completed |-> TRUE]}
    BY <2>1, <2>2, EventTold
  <2>4. updating' \subseteq R
    BY <1>1, <2>1 DEF Told
  <2>5. \A e \in Items(events') : e.service \in R
    BY <1>1, <2>2, <2>3 DEF Told
  <2>6. Told(R)'
    BY <2>4, <2>5 DEF Told
  <2> QED BY <1>1, <2>1, <2>6, TruthfulKept DEF Truthful
<1>3. CASE ScalerRestart
  <2>1. events' = << >> /\ UNCHANGED <<docker, updating, queues, docs, omsg, mail, outdated>>
    BY <1>3, ScalerEffect DEF history
  <2>2. Told(R)'
    BY <1>1, <2>1, Emptied DEF Told
  <2> QED BY <1>1, <2>1, <2>2, TruthfulKept DEF Truthful
<1>4. CASE Listen
  <2>1. PICK m \in O!Message :
               /\ m.kind = "updated"
               /\ m.service = Head(events).service /\ m.data = docker[m.service]
               /\ events # << >> /\ events' = Tail(events)
               /\ queues' = [queues EXCEPT !["updated"] = Append(@, m)]
               /\ UNCHANGED <<docker, updating, docs, omsg, mail, outdated>>
    BY <1>4, ListenEffect DEF history
  <2>2. Items(events) = Items(events') \cup {Head(events)}
    BY <2>1, Removed DEF ClusterOK, DockerOK
  <2>3. "updated" \in O!Handlers /\ "own" \in O!Handlers /\ "own" # "updated"
    BY DEF O!Handlers
  <2>4. /\ Items(queues'["updated"]) = Items(queues["updated"]) \cup {m}
        /\ queues'["own"] = queues["own"]
    BY <2>1, <2>3, QueueGrows
  <2>5. Told(R)' /\ m.service \in R
    BY <1>1, <2>1, <2>2 DEF Told
  <2>6. Queued(o, R)'
    BY <1>1, <2>1, <2>4, <2>5 DEF Queued, Says
  <2> QED BY <1>1, <2>1, <2>5, <2>6, TruthfulKept DEF Truthful
<1> QED BY <1>2, <1>3, <1>4

(* Docker changes the image of a service nothing under way is about.       *)
LEMMA TruthfulMoved ==
    ASSUME NEW o, ClusterOK(o), NEW R, Truthful(o, R), NEW s, NEW d, Changes(s, d), s \notin R,
           UNCHANGED <<queues, docs, omsg, mail, outdated>>
    PROVE  Truthful(o, R \cup {s})'
<1>1. /\ s \in Services /\ docker' = [docker EXCEPT ![s] = d]
      /\ updating' \subseteq updating \cup {s}
      /\ events' = Append(events, [service |-> s, completed |-> FALSE])
  BY DEF Changes
<1>2. \A t \in R : docker'[t] = docker[t]
  BY <1>1 DEF ClusterOK, DockerOK
<1>3. Told(R) /\ Queued(o, R) /\ Mailed(R) /\ outdated = {}
  BY DEF Truthful
<1>4. Items(events') = Items(events) \cup {[service |-> s, completed |-> FALSE]}
  BY <1>1, EventTold
<1>5. updating' \subseteq R \cup {s}
  BY <1>1, <1>3 DEF Told
<1>6. \A e \in Items(events') : e.service \in R \cup {s}
  BY <1>3, <1>4 DEF Told
<1>7. Told(R \cup {s})'
  BY <1>5, <1>6 DEF Told
<1>8. Queued(o, R \cup {s})'
  BY <1>2, <1>3 DEF Queued, Says
<1>9. Mailed(R \cup {s})'
  BY <1>2, <1>3 DEF Mailed, Tells
<1> QED BY <1>3, <1>7, <1>8, <1>9 DEF Truthful

LEMMA TruthfulOverseer ==
    ASSUME NEW w, NEW o, Single(w, o), ClusterOK(o), NEW R, Truthful(o, R),
           OverseerHandler(o) \/ OverseerCrash(o)
    PROVE  Truthful(o, R)'
<1>1. Told(R) /\ Queued(o, R) /\ Mailed(R) /\ outdated = {}
  BY DEF Truthful
<1>2. /\ UNCHANGED <<docker, updating, events, mail, outdated>>
      /\ Queued(o, R)' => Truthful(o, R)'
  <2>1. UNCHANGED <<docker, updating, events, mail, outdated>>
    <3>1. CASE OverseerHandler(o)
      BY <3>1, TakenEffect, BootEffect, ReadEffect, SaveEffect, CheckEffect
      DEF OverseerHandler, dockerVars, history
    <3>2. CASE OverseerCrash(o)
      BY <3>2, OverseerCrashEffect DEF dockerVars, history
    <3> QED BY <3>1, <3>2
  <2> QED BY <1>1, <2>1, TruthfulKept DEF Truthful
<1>3. O!Finish(o) => omsg'[o].kind = "boot"
  BY OverseerFinish DEF ClusterOK
<1>4. ASSUME \A s \in Services : docs'[s].data = docs[s].data,
             queues'["updated"] = queues["updated"], queues'["own"] = queues["own"],
             UNCHANGED omsg \/ omsg'[o].kind = "boot"
      PROVE  Queued(o, R)'
  <2>1. /\ \A m \in Items(queues["own"]) : m.service \in Services
        /\ omsg[o].service \in Services
    <3>1. queues["own"] \in Seq(O!Message)
      BY DEF ClusterOK, QueuesOK, O!Handlers
    <3>2. \A m \in Items(queues["own"]) : m \in O!Message
      BY <3>1 DEF Items
    <3> QED BY <3>2 DEF O!Message, ClusterOK, OverseerOK, Single
  <2> QED BY <1>1, <1>2, <1>4, <2>1 DEF Queued, Says
<1>5. ASSUME NEW h \in O!Handlers, O!Receive(o, h), UNCHANGED <<planer, mail, history>>
      PROVE  Queued(o, R)'
  <2> DEFINE m == Head(queues[h])
  <2>1. /\ h \in {"updated", "own", "boot"} /\ queues[h] # << >>
        /\ m.kind = h /\ omsg'[o] = m
        /\ queues' = [queues EXCEPT ![h] = Tail(@)]
        /\ UNCHANGED docs
    BY <1>5, TakenEffect
  <2>2. /\ Items(queues[h]) = Items(queues'[h]) \cup {m}
        /\ \A g \in O!Handlers : g # h => queues'[g] = queues[g]
    BY <2>1, QueueShrinks
  <2>3. \A g \in {"updated", "own"} : Items(queues'[g]) \subseteq Items(queues[g])
    BY <2>2 DEF O!Handlers
  <2>4. m \in Items(queues[h])
    BY <2>2
  <2> HIDE DEF m
  <2> QED BY <1>1, <1>2, <2>1, <2>3, <2>4 DEF Queued, Says
<1>6. ASSUME O!FetchServices(o), UNCHANGED <<planer, mail, history>> PROVE Queued(o, R)'
  BY <1>3, <1>4, <1>6, BootEffect
<1>7. ASSUME O!ReadUpdated(o), UNCHANGED <<planer, mail, history>> PROVE Queued(o, R)'
  BY <1>4, <1>7, ReadEffect
<1>8. ASSUME O!SaveServiceState(o), UNCHANGED <<planer, mail, history>> PROVE Queued(o, R)'
  <2> DEFINE u == omsg[o].service
  <2>1. /\ u \in Services /\ omsg[o].kind = "updated"
        /\ docs' = [docs EXCEPT ![u].data = omsg[o].data]
        /\ O!Finish(o) \/ UNCHANGED omsg
        /\ UNCHANGED queues
    BY <1>8, SaveEffect
  <2>2. docs'[u].data = omsg[o].data /\ \A t \in Services : t # u => docs'[t] = docs[t]
    BY <2>1 DEF ClusterOK, DocsOK, O!Doc
  <2>3. omsg[o].data = docker[u]
    BY <1>1, <2>1 DEF Queued, Says
  <2>4. ASSUME NEW m \in Items(queues["own"])
        PROVE  Says(R, m)' /\ docs'[m.service].data = m.data
    <3>1. m \in O!Message /\ Says(R, m) /\ docs[m.service].data = m.data
      <4>1. queues["own"] \in Seq(O!Message)
        BY DEF ClusterOK, QueuesOK, O!Handlers
      <4> QED BY <1>1, <4>1 DEF Items, Queued
    <3>2. m.service \in Services
      BY <3>1 DEF O!Message
    <3> QED BY <1>2, <2>2, <2>3, <3>1, <3>2 DEF Says
  <2> QED BY <1>1, <1>2, <1>3, <2>1, <2>4 DEF Queued, Says
<1>9. ASSUME O!CheckNewScaleConfig(o), UNCHANGED <<planer, mail, history>>
      PROVE  Queued(o, R)'
  BY <1>3, <1>4, <1>9, CheckEffect
<1>10. CASE OverseerCrash(o)
  <2>1. /\ UNCHANGED <<docs, omsg>>
        /\ \/ UNCHANGED queues
           \/ \E m : queues' = [queues EXCEPT !["boot"] = Append(@, m)]
    BY <1>10, OverseerCrashEffect
  <2>2. queues'["updated"] = queues["updated"] /\ queues'["own"] = queues["own"]
    BY <2>1 DEF ClusterOK, QueuesOK, O!Handlers
  <2> QED BY <1>2, <1>4, <2>1, <2>2
<1> QED BY <1>2, <1>5, <1>6, <1>7, <1>8, <1>9, <1>10 DEF OverseerHandler

LEMMA TruthfulAnnounced ==
    ASSUME NEW w, NEW o, Single(w, o), ClusterOK(o), NEW R, Truthful(o, R),
           DispatchUpdated(o), O!Dispatch(o) \/ O!PropagateConfig(o)
    PROVE  Truthful(o, R)'
<1>1. Told(R) /\ Queued(o, R) /\ Mailed(R) /\ outdated = {}
  BY DEF Truthful
<1> DEFINE s == omsg[o].service
           d == omsg[o].data
<1>2. PICK b \in BOOLEAN : mail' = Append(mail, ServiceUpdated(s, d, b))
  BY DispatchEffect, PropagateEffect
<1>3. /\ s \in Services /\ d \in O!State /\ omsg[o].kind # "boot"
      /\ UNCHANGED <<docker, updating, events, docs>>
      /\ O!Finish(o)
  BY DispatchEffect, PropagateEffect DEF dockerVars, ClusterOK, OverseerOK, Single, O!Message
<1>4. omsg'[o].kind = "boot"
  BY <1>3, OverseerFinish DEF ClusterOK
<1>5. s \in R /\ d = docker[s]
  BY <1>1, <1>3 DEF Queued, Says
<1>6. Told(R)'
  BY <1>1, <1>3, TruthfulKept
<1>7. Mailed(R)'
  <2>1. PICK m \in Message :
              /\ mail' = Append(mail, m)
              /\ m.service = s /\ m.version = d.image
              /\ d.mode = 0 => m.finished
    BY <1>2, <1>3, UpdatedMessage
  <2>2. Items(mail') = Items(mail) \cup {m}
    BY <2>1, MailGrows
  <2>3. Tells(R, m)'
    BY <1>3, <1>5, <2>1 DEF Tells
  <2> QED BY <1>1, <1>3, <2>2, <2>3 DEF Mailed, Tells
<1>8. outdated' = {} /\ Queued(o, R)'
  <2>1. CASE O!Dispatch(o)
    <3>1. /\ outdated' = {} /\ omsg[o].kind = "updated" /\ ostage[o] = "dispatch"
          /\ \/ UNCHANGED queues
             \/ \E m \in O!Message :
                   /\ m.kind = "own" /\ m.service = s /\ m.data = d
                   /\ queues' = [queues EXCEPT !["own"] = Append(@, m)]
      BY <1>1, <2>1, DispatchEffect DEF history
    <3>2. CASE UNCHANGED queues
      BY <1>1, <1>3, <1>4, <3>1, <3>2 DEF Queued, Says
    <3>3. ASSUME NEW m \in O!Message, m.service = s, m.data = d,
                 queues' = [queues EXCEPT !["own"] = Append(@, m)]
          PROVE  Queued(o, R)'
      <4>1. "own" \in O!Handlers /\ "updated" \in O!Handlers
        BY DEF O!Handlers
      <4>2. /\ Items(queues'["own"]) = Items(queues["own"]) \cup {m}
            /\ queues'["updated"] = queues["updated"]
        BY <3>3, <4>1, QueueGrows
      <4>3. docs[s].data = d
        BY <3>1 DEF ClusterOK, OverseerOK
      <4> QED BY <1>1, <1>3, <1>4, <1>5, <3>3, <4>2, <4>3 DEF Queued, Says
    <3> QED BY <3>1, <3>2, <3>3
  <2>2. CASE O!PropagateConfig(o)
    <3>1. /\ omsg[o].kind = "own" /\ UNCHANGED queues
          /\ outdated' = IF docs[s].data.image # d.image
                            THEN outdated \cup {s} ELSE outdated
      BY <2>2, PropagateEffect
    <3>2. docs[s].data = d
      BY <1>1, <3>1 DEF Queued
    <3> QED BY <1>1, <1>3, <1>4, <3>1, <3>2 DEF Queued, Says
  <2> QED BY <2>1, <2>2
<1> QED BY <1>6, <1>7, <1>8 DEF Truthful

-----------------------------------------------------------------------------
(* Docker and the overseer leave the path only when an operator deploys    *)

LEMMA FollowingKept ==
    ASSUME NEW w, NEW p \in Plan, NEW k \in Nat, Following(w, p, k), UNCHANGED planer,
           calls = << >> => calls' = << >>,
           \A t \in Reached(p, k) : docker'[t] = docker[t]
    PROVE  Following(w, p, k)'
<1>1. UNCHANGED <<catalog, scheduling, stage, msg, sched>>
  BY DEF planer
<1>2. \A n : Over(k, n) => Over(k, n)'
  BY DEF Over
<1>3. Reached(p, k) \subseteq Reached(p, k)'
  BY <1>2 DEF Reached
<1>4. msg[w].kind = "deployed" => Tells(Reached(p, k), msg[w])'
  BY <1>1, <1>3 DEF Following, Tells
<1>5. Running' = Running
  BY <1>1 DEF Running
<1>6. stage[w] \in {"disable", "insert"} => Matches(sched[w], p, k)'
  BY <1>1, <1>2 DEF Following, Matches
<1>7. stage[w] \in {"step", "call", "replace"} => Matches(sched[w], p, k)'
  BY <1>1, <1>2 DEF Following, Matches
<1>8. stage[w] \notin {"disable", "insert"} => \A i \in Running' : Matches(scheduling[i], p, k)'
  <2> SUFFICES ASSUME stage[w] \notin {"disable", "insert"}, NEW i \in Running
               PROVE  Matches(scheduling[i], p, k)'
    BY <1>5
  <2>1. Matches(scheduling[i], p, k)
    BY DEF Following
  <2> QED BY <1>1, <1>2, <2>1 DEF Matches
<1>9. stage' = stage /\ msg' = msg
  BY <1>1
<1>10. Catching(p, k)'
  BY <1>1 DEF Following, Catching
<1> QED BY <1>1, <1>4, <1>6, <1>7, <1>8, <1>9, <1>10 DEF Following, Attends

LEMMA PathKept ==
    ASSUME NEW p, NEW k, Path(p, k), UNCHANGED <<docker, calls, catalog>>
    PROVE  Path(p, k)' /\ Reached(p, k)' = Reached(p, k)
<1>1. \A n : Over(k, n)' = Over(k, n)
  BY DEF Over
<1>2. Reached(p, k)' = Reached(p, k)
  BY <1>1 DEF Reached
<1>3. PathExplained(p)'
  BY DEF Path, PathExplained, Between
<1>4. Ordered(p, k)'
  BY DEF Path, Ordered
<1> QED BY <1>1, <1>2, <1>3, <1>4 DEF Path

(* The order that is on its way is that of step k.                         *)
LEMMA PathUpdate ==
    ASSUME NEW w, NEW o, SystemInv(w, o), NEW p, NEW k, Path(p, k), Update
    PROVE  /\ k \in DOMAIN p.steps /\ p.steps[k] \in Step
           /\ LET st == p.steps[k]
                  d == [docker[st.service] EXCEPT !.image = st.to]
              IN /\ Changes(st.service, d)
                 /\ docker[st.service].image = st.from
                 /\ st.service \notin Reached(p, k)
                 /\ Reached(p, k)' = Reached(p, k) \cup {st.service}
           /\ calls # << >> /\ calls' = << >>
           /\ UNCHANGED <<overseerVars, planer, inputs, mail, history>>
<1> DEFINE st == p.steps[k]
<1>1. ClusterOK(o)
  BY DEF SystemInv
<1>2. PICK c \in Items(calls) :
          Changes(c.service, [docker[c.service] EXCEPT !.image = c.data.image])
  BY <1>1, UpdateEffect
<1>3. calls # << >>
  BY <1>2, Emptied
<1>4. /\ k \in DOMAIN p.steps /\ Len(calls) = 1
      /\ c.service = st.service /\ c.data.image = st.to
  BY <1>2, <1>3 DEF Path, Ordered
<1>5. st \in Step
  BY <1>4 DEF Path, Plan
<1>6. calls' = << >> /\ UNCHANGED <<overseerVars, planer, inputs, mail, history>>
  BY <1>1, <1>4, UpdateEffect
<1>7. k \in Nat /\ k >= 1 /\ k \in 0 .. Len(p.steps) /\ DOMAIN p.steps = 1 .. Len(p.steps)
  <2>1. p.steps \in Seq(Step)
    BY DEF Path, Plan
  <2>2. DOMAIN p.steps = 1 .. Len(p.steps) /\ Len(p.steps) \in Nat
    BY <2>1
  <2> QED BY <1>4, <2>2 DEF Path
<1>8. /\ ~ Over(k, k) /\ Over(k, k)'
      /\ \A n \in DOMAIN p.steps : n # k => (Over(k, n)' <=> Over(k, n))
  BY <1>3, <1>6, <1>7 DEF Over
<1>9. docker[st.service].image = st.from
  BY <1>4, <1>8 DEF Path
<1>10. st.service \notin Reached(p, k)
  BY <1>4, <1>8 DEF Path, DistinctServices, Reached
<1>11. Reached(p, k)' = Reached(p, k) \cup {st.service}
  BY <1>4, <1>8 DEF Reached
<1> QED BY <1>2, <1>3, <1>4, <1>5, <1>6, <1>9, <1>10, <1>11

LEMMA PathUpdated ==
    ASSUME NEW w, NEW o, SystemInv(w, o), NEW p, NEW k, Path(p, k), Update
    PROVE  Path(p, k)'
<1> DEFINE st == p.steps[k]
<1>1. /\ k \in DOMAIN p.steps /\ st \in Step
      /\ Changes(st.service, [docker[st.service] EXCEPT !.image = st.to])
      /\ calls # << >> /\ calls' = << >> /\ UNCHANGED planer
  BY PathUpdate
<1>2. /\ docker'[st.service].image = st.to
      /\ \A t \in Services : t # st.service => docker'[t] = docker[t]
      /\ UNCHANGED catalog
  BY <1>1 DEF Changes, SystemInv, ClusterOK, DockerOK, O!State, planer
<1>3. p \in Plan /\ k \in 0 .. Len(p.steps) /\ DistinctServices(p) /\ PathExplained(p)
  BY DEF Path
<1>4. p.steps \in Seq(Step)
  BY <1>3 DEF Plan
<1>5. k \in 1 .. k
  BY <1>1, <1>4
<1>6. \A n \in DOMAIN p.steps : Over(k, n)' <=> n = k \/ Over(k, n)
  BY <1>1, <1>5 DEF Over
<1>7. ASSUME NEW n \in DOMAIN p.steps
      PROVE  LET x == p.steps[n]
             IN /\ x.from # x.to /\ x.to \in catalog'[x.service].versions
                /\ docker'[x.service].image = IF Over(k, n)' THEN x.to ELSE x.from
  <2> DEFINE x == p.steps[n]
  <2>1. /\ x.from # x.to /\ x.to \in catalog[x.service].versions
        /\ docker[x.service].image = IF Over(k, n) THEN x.to ELSE x.from
    BY DEF Path
  <2>2. CASE n = k
    BY <1>2, <1>6, <2>1, <2>2
  <2>3. CASE n # k
    <3>1. x.service # st.service
      BY <1>1, <1>3, <2>3 DEF DistinctServices
    <3>2. x \in Step
      BY <1>4
    <3>3. x.service \in Services
      BY <3>2 DEF Step
    <3> QED BY <3>3, <1>2, <1>6, <2>1, <2>3, <3>1
  <2> QED BY <2>2, <2>3
<1>8. PathExplained(p)'
  <2> SUFFICES ASSUME NEW n \in DOMAIN p.steps, NEW f \in [Services -> Versions],
                      Between(p, n, f)'
               PROVE  f \in Explained
    BY DEF PathExplained
  <2>1. Between(p, n, f)
    BY <1>1, <1>2 DEF Between
  <2> QED BY <1>3, <2>1 DEF PathExplained
<1>9. Ordered(p, k)'
  BY <1>1 DEF Ordered
<1> QED BY <1>3, <1>7, <1>8, <1>9 DEF Path, DistinctServices

LEMMA OnPathCluster ==
    ASSUME NEW w, NEW o, Single(w, o), SystemInv(w, o), NEW p, NEW k, OnPath(w, o, p, k),
           ClusterStep(o), interference' = {}
    PROVE  OnPath(w, o, p, k)'
<1>1. ClusterOK(o) /\ Path(p, k) /\ Truthful(o, Reached(p, k)) /\ Following(w, p, k)
  BY DEF SystemInv, OnPath
<1>2. p \in Plan /\ k \in Nat
  BY <1>1 DEF Path
<1>3. PICK R : R = Reached(p, k)
  OBVIOUS
<1>4. Truthful(o, R)
  BY <1>1, <1>3
<1>5. CASE Update
  <2>1. PICK s : s = p.steps[k].service
    OBVIOUS
  <2>2. /\ \E d : Changes(s, d)
        /\ s \notin R /\ Reached(p, k)' = R \cup {s}
        /\ calls' = << >> /\ UNCHANGED <<overseerVars, planer, mail, outdated>>
    BY <1>1, <1>3, <1>5, <2>1, PathUpdate DEF history
  <2>3. Truthful(o, R \cup {s})'
    BY <1>1, <1>4, <2>2, TruthfulMoved DEF overseerVars
  <2>4. \A t \in Reached(p, k) : docker'[t] = docker[t]
    BY <1>1, <1>3, <2>2 DEF Changes, ClusterOK, DockerOK
  <2>5. Following(w, p, k)'
    BY <1>1, <1>2, <2>2, <2>4, FollowingKept
  <2>6. Path(p, k)'
    BY <1>1, <1>5, PathUpdated
  <2> QED BY <2>2, <2>3, <2>5, <2>6 DEF OnPath
<1>6. ASSUME NEW s \in Services, DeployByHand(s) PROVE FALSE
  BY <1>1, <1>6, DeployEffect
<1>7. ASSUME UNCHANGED <<docker, calls, planer>>, Truthful(o, R)' PROVE OnPath(w, o, p, k)'
  <2>1. UNCHANGED catalog
    BY <1>7 DEF planer
  <2>2. Path(p, k)' /\ Reached(p, k)' = R
    BY <1>1, <1>3, <1>7, <2>1, PathKept
  <2>3. Following(w, p, k)'
    BY <1>1, <1>2, <1>7, FollowingKept
  <2> QED BY <1>7, <2>2, <2>3 DEF OnPath
<1>8. CASE Listen \/ Complete \/ ScalerRestart
  <2>1. UNCHANGED <<docker, calls, planer>>
    BY <1>1, <1>8, ListenEffect, CompleteEffect, ScalerEffect
  <2> QED BY <1>1, <1>4, <1>7, <1>8, <2>1, TruthfulDocker
<1>9. CASE OverseerHandler(o)
  <2>1. UNCHANGED <<docker, calls, planer>>
    BY <1>1, <1>9, TakenEffect, BootEffect, ReadEffect, SaveEffect, CheckEffect
    DEF OverseerHandler, dockerVars
  <2> QED BY <1>1, <1>4, <1>7, <1>9, <2>1, TruthfulOverseer
<1>10. CASE OverseerCrash(o)
  <2>1. UNCHANGED <<docker, calls, planer>>
    BY <1>1, <1>10, OverseerCrashEffect DEF dockerVars
  <2> QED BY <1>1, <1>4, <1>7, <1>10, <2>1, TruthfulOverseer
<1>11. CASE DispatchUpdated(o) /\ (O!Dispatch(o) \/ O!PropagateConfig(o))
  <2>1. UNCHANGED <<docker, calls, planer>>
    BY <1>1, <1>11, DispatchEffect, PropagateEffect DEF dockerVars
  <2> QED BY <1>1, <1>4, <1>7, <1>11, <2>1, TruthfulAnnounced
<1> QED BY <1>5, <1>6, <1>8, <1>9, <1>10, <1>11 DEF ClusterStep

(* Where nothing is under way scaler_docker may only restart.              *)
LEMMA ReadyCluster ==
    ASSUME NEW w, NEW o, Single(w, o), SystemInv(w, o), Ready(w), ClusterStep(o),
           interference' = {}
    PROVE  Ready(w)'
<1>1. ClusterOK(o)
  BY DEF SystemInv
<1>2. UNCHANGED planer
  <2>1. CASE Listen \/ Update \/ Complete \/ ScalerRestart
    BY <1>1, <2>1, ListenEffect, UpdateEffect, CompleteEffect, ScalerEffect
  <2>2. CASE \E s \in Services : DeployByHand(s)
    BY <1>1, <2>2, DeployEffect
  <2>3. CASE OverseerHandler(o)
    BY <2>3 DEF OverseerHandler
  <2>4. CASE OverseerCrash(o)
    BY <2>4 DEF OverseerCrash
  <2>5. CASE DispatchUpdated(o)
    BY <2>5 DEF DispatchUpdated
  <2> QED BY <2>1, <2>2, <2>3, <2>4, <2>5 DEF ClusterStep
<1>3. stage' = stage /\ sched' = sched /\ catalog' = catalog
  BY <1>2 DEF planer
<1> SUFFICES ASSUME stage[w] \in {"first_step", "first_call"}
             PROVE  InStep' /\ Path(sched[w], 0)'
  BY <1>3 DEF Ready
<1>4. InStep /\ Path(sched[w], 0)
  BY DEF Ready
<1>5. /\ events = << >> /\ calls = << >> /\ mail = << >> /\ updating = {}
      /\ \A h \in O!Handlers : queues[h] = << >>
      /\ ostage[o] = "idle"
      /\ \A s \in Services : catalog[s].version = docker[s].image
  BY <1>4 DEF InStep, O!Settled, Single
<1>6. CASE ScalerRestart
  <2>1. /\ events' = << >>
        /\ UNCHANGED <<docker, updating, calls, queues, ostage, mail>>
    BY <1>1, <1>6, ScalerEffect
  <2>2. InStep'
    BY <1>3, <1>4, <2>1 DEF InStep, O!Settled
  <2> QED BY <1>3, <1>4, <2>1, <2>2 DEF Path, Ordered, Over, PathExplained, Between, DistinctServices
<1>7. ~ Listen /\ ~ Update /\ ~ Complete
  <2>1. ~ Listen
    BY <1>1, <1>5, ListenEffect
  <2>2. ~ Update
    BY <1>1, <1>5, UpdateEffect, Emptied
  <2>3. ~ Complete
    BY <1>1, <1>5, CompleteEffect
  <2> QED BY <2>1, <2>2, <2>3
<1>8. ~ \E s \in Services : DeployByHand(s)
  BY <1>1, DeployEffect
<1>9. ~ OverseerHandler(o)
  BY <1>5 DEF OverseerHandler, O!Receive, O!FetchServices, O!ReadUpdated,
              O!SaveServiceState, O!CheckNewScaleConfig
<1>10. ~ OverseerCrash(o) /\ ~ O!Dispatch(o) /\ ~ O!PropagateConfig(o)
  BY <1>5 DEF OverseerCrash, O!Crash, O!Dispatch, O!PropagateConfig
<1> QED BY <1>6, <1>7, <1>8, <1>9, <1>10 DEF ClusterStep

-----------------------------------------------------------------------------
(* The planer goes on with the step that was ordered last                  *)

(* A step of the planer that takes no order to the overseer.               *)
LEMMA PathGoes ==
    ASSUME NEW w, NEW o, Single(w, o), SystemInv(w, o), NEW p, NEW k, OnPath(w, o, p, k),
           PlanerMoves(w), ~ CallUpgrade(w)
    PROVE  /\ UNCHANGED <<docker, calls>>
           /\ \A n : Over(k, n)' = Over(k, n)
           /\ Reached(p, k)' = Reached(p, k)
           /\ Path(p, k)' /\ Truthful(o, Reached(p, k))'
<1>1. /\ ClusterOK(o) /\ Path(p, k) /\ Truthful(o, Reached(p, k))
      /\ SoloInv /\ CatalogInv
  BY DEF SystemInv, PlanerInv, OnPath
<1>2. UNCHANGED <<docker, updating, events, calls, docs, queues, omsg, outdated>>
  BY DEF PlanerMoves, PlanerStep, TakeMail, TakeCheck, AskUpgrade, PlanerCrash, overseer,
         history
<1>3. \A n : Over(k, n)' = Over(k, n)
  BY <1>2 DEF Over
<1>4. Reached(p, k)' = Reached(p, k)
  BY <1>3 DEF Reached
<1>5. Path(p, k)'
  <2>1. \A s \in Services : catalog[s].versions \subseteq catalog'[s].versions
    BY <1>1, PlanerNext
  <2>2. \A n \in DOMAIN p.steps : p.steps[n].service \in Services
    <3>1. p.steps \in Seq(Step)
      BY <1>1 DEF Path, Plan
    <3>2. \A n \in DOMAIN p.steps : p.steps[n] \in Step
      BY <3>1
    <3> QED BY <3>2 DEF Step
  <2>3. PathExplained(p)'
    BY <1>1, <1>2 DEF Path, PathExplained, Between
  <2>4. Ordered(p, k)'
    BY <1>1, <1>2 DEF Path, Ordered
  <2> QED BY <1>1, <1>2, <1>3, <2>1, <2>2, <2>3, <2>4 DEF Path
<1>6. PICK R : R = Reached(p, k)
  OBVIOUS
<1>7. Told(R)' /\ Queued(o, R)' /\ outdated' = {}
  BY <1>1, <1>2, <1>6, TruthfulKept DEF Truthful
<1>8. Mailed(R)'
  <2>1. Mailed(R)
    BY <1>1, <1>6 DEF Truthful
  <2>2. Items(mail') \subseteq Items(mail)
    <3>1. CASE TakeMail(w)
      BY <1>1, <3>1, MailTaken, MailShrinks
    <3>2. CASE ~ TakeMail(w)
      BY <3>2 DEF PlanerMoves, PlanerStep, TakeCheck, AskUpgrade, PlanerCrash
    <3> QED BY <3>1, <3>2
  <2> QED BY <1>2, <2>1, <2>2 DEF Mailed, Tells
<1> QED BY <1>2, <1>3, <1>4, <1>5, <1>6, <1>7, <1>8 DEF Truthful

(* What has to be seen of such a step.                                     *)
LEMMA FollowingGoes ==
    ASSUME NEW w, NEW p, NEW k, Following(w, p, k), UNCHANGED <<docker, calls>>,
           Reached(p, k)' = Reached(p, k), Catching(p, k)',
           msg'[w].kind = "deployed" => Tells(Reached(p, k), msg'[w]),
           msg'[w].kind = "deployed" /\ stage'[w] \in {"save", "log", "continue", "step", "call"}
              => msg'[w].service = msg[w].service /\ Attends(w, p, k),
           stage'[w] \notin {"disable", "insert"},
           \A i \in Running' : Matches(scheduling'[i], p, k),
           stage'[w] \in {"step", "call", "replace"} => Matches(sched'[w], p, k)
    PROVE  Following(w, p, k)'
<1>1. \A n : Over(k, n)' = Over(k, n)
  BY DEF Over
<1>2. \A i \in Running' : Matches(scheduling[i], p, k)'
  BY <1>1 DEF Matches
<1>3. stage'[w] \in {"step", "call", "replace"} => Matches(sched[w], p, k)'
  BY <1>1 DEF Matches
<1>4. (msg[w].kind = "deployed")' => Tells(Reached(p, k), msg[w])'
  BY DEF Tells
<1>5. msg'[w].kind = "deployed" /\ stage'[w] \in {"save", "log", "continue", "step", "call"}
         => Attends(w, p, k)'
  BY DEF Attends
<1> QED BY <1>2, <1>3, <1>4, <1>5 DEF Following

(* A step that writes neither the catalog nor a plan.                      *)
LEMMA FollowingStays ==
    ASSUME NEW w, NEW p, NEW k, Following(w, p, k), UNCHANGED <<docker, calls, catalog, scheduling>>,
           Reached(p, k)' = Reached(p, k),
           msg'[w].kind = "deployed" => Tells(Reached(p, k), msg'[w]),
           msg'[w].kind = "deployed" /\ stage'[w] \in {"save", "log", "continue", "step", "call"}
              => msg'[w].service = msg[w].service /\ Attends(w, p, k),
           stage[w] \notin {"disable", "insert"}, stage'[w] \notin {"disable", "insert"},
           stage'[w] \in {"step", "call", "replace"} => Matches(sched'[w], p, k)
    PROVE  Following(w, p, k)'
<1>1. Catching(p, k)'
  BY DEF Following, Catching
<1>2. \A i \in Running' : Matches(scheduling'[i], p, k)
  BY DEF Following, Running
<1> QED BY <1>1, <1>2, FollowingGoes

LEMMA FollowingTaken ==
    ASSUME NEW w, NEW o, Single(w, o), SystemInv(w, o), NEW p, NEW k, OnPath(w, o, p, k),
           \/ TakeMail(w) \/ TakeCheck(w) \/ AskUpgrade(w)
           \/ PlanerCrash(w) /\ interference' = {}
    PROVE  Following(w, p, k)'
<1>1. ClusterOK(o) /\ SoloInv /\ CatalogInv /\ Following(w, p, k) /\ PlanerInv(w)
  BY DEF SystemInv, PlanerInv, OnPath
<1>2. ~ CallUpgrade(w) => UNCHANGED <<docker, calls>> /\ Reached(p, k)' = Reached(p, k)
  BY PathGoes DEF PlanerMoves
<1>3. ~ CallUpgrade(w)
  <2>1. TakeMail(w) \/ TakeCheck(w) \/ AskUpgrade(w) => stage[w] = "idle"
    BY DEF TakeMail, TakeCheck, AskUpgrade, ReceiveCheck, Receive, Take
  <2>2. PlanerCrash(w) => crashes' # crashes
    BY <1>1 DEF PlanerCrash, Crash, SoloInv, PlanInv, TypeOK
  <2> QED BY <2>1, <2>2 DEF CallUpgrade, CallOverseer
<1>4. UNCHANGED <<docker, calls>> /\ Reached(p, k)' = Reached(p, k)
  BY <1>2, <1>3
<1>5. CASE TakeMail(w)
  <2>1. /\ stage[w] = "idle" /\ stage'[w] = "read" /\ msg'[w] \in Items(mail)
        /\ UNCHANGED <<catalog, scheduling>>
    BY <1>1, <1>5, MailTaken DEF store
  <2>2. Tells(Reached(p, k), msg'[w])
    BY <2>1 DEF OnPath, Truthful, Mailed
  <2> QED BY <1>1, <1>4, <2>1, <2>2, FollowingStays
<1>6. CASE TakeCheck(w) \/ AskUpgrade(w)
  <2>1. stage[w] = "idle" /\ UNCHANGED <<catalog, scheduling>>
    BY <1>6 DEF TakeCheck, AskUpgrade, ReceiveCheck, Receive, Take, store
  <2>2. msg'[w].kind \in {"check", "upgrade", "image", "cleaned"}
        /\ stage'[w] = FirstStage(msg'[w].kind)
    <3>1. PICK m : Take(w, m) /\ (TakeCheck(w) => m = AnyMessage("check"))
      BY <1>6 DEF TakeCheck, AskUpgrade, ReceiveCheck, Receive
    <3>2. stage'[w] = FirstStage(m.kind) /\ msg'[w] = m
      BY <1>1, <3>1 DEF Take, Goto, SoloInv, PlanInv, TypeOK, Single
    <3>3. m.kind \in {"check", "upgrade", "image", "cleaned"}
      BY <1>6, <3>1, <3>2 DEF AskUpgrade, AnyMessage
    <3> QED BY <3>2, <3>3
  <2>3. stage'[w] \in {"solve", "read"} /\ msg'[w].kind # "deployed"
    BY <2>2 DEF FirstStage
  <2> QED BY <1>1, <1>4, <2>1, <2>3, FollowingStays
<1>7. CASE PlanerCrash(w) /\ interference' = {}
  <2>1. /\ stage[w] # "idle" /\ stage[w] \notin {"disable", "insert"}
        /\ stage'[w] = FirstStage(msg[w].kind) /\ msg' = msg
        /\ UNCHANGED <<catalog, scheduling>>
    BY <1>1, <1>7 DEF PlanerCrash, Crash, Goto, store, SoloInv, PlanInv, TypeOK, Single
  <2>2. stage'[w] \in {"solve", "read"}
    BY <1>1, <2>1 DEF FirstStage, PlanerInv, PlanerOK
  <2> QED BY <1>1, <1>4, <2>1, <2>2, FollowingStays DEF Following
<1> QED BY <1>5, <1>6, <1>7

(* An update that is news for the catalog is that of step k.               *)
LEMMA NewsIsOrdered ==
    ASSUME NEW w, NEW o, SystemInv(w, o), NEW p, NEW k, OnPath(w, o, p, k),
           msg[w].kind = "deployed", catalog[msg[w].service].version # msg[w].version
    PROVE  Attends(w, p, k)
<1>1. Path(p, k) /\ Following(w, p, k) /\ Tells(Reached(p, k), msg[w])
  BY DEF OnPath, Following
<1>2. PICK n \in DOMAIN p.steps : Over(k, n) /\ p.steps[n].service = msg[w].service
  BY <1>1 DEF Tells, Reached
<1>3. msg[w].version = p.steps[n].to
  BY <1>1, <1>2 DEF Tells, Path
<1>4. ~ (n < k)
  BY <1>1, <1>2, <1>3 DEF Following, Catching
<1>5. n \in Nat /\ k \in Nat /\ n <= k
  <2>1. p.steps \in Seq(Step)
    BY <1>1 DEF Path, Plan
  <2> QED BY <1>1, <1>2, <2>1 DEF Over, Path
<1>6. n = k
  BY <1>4, <1>5
<1> QED BY <1>2, <1>6 DEF Attends, Over

LEMMA FollowingReads ==
    ASSUME NEW w, NEW o, Single(w, o), SystemInv(w, o), NEW p, NEW k, OnPath(w, o, p, k),
           PlanerStep(w),
           ReadDeployed(w) \/ ReadCleaned(w) \/ ReadImage(w) \/ ReadSanity(w)
    PROVE  Following(w, p, k)'
<1>1. PlanerInv(w) /\ SoloInv /\ Workers = {w} /\ Following(w, p, k)
  BY DEF SystemInv, PlanerInv, OnPath, Single
<1>2. /\ UNCHANGED <<docker, calls>> /\ Reached(p, k)' = Reached(p, k)
  BY PathGoes DEF PlanerMoves, PlanerStep, CallUpgrade, CallOverseer
<1>3. /\ stage[w] = "read" /\ UNCHANGED <<catalog, scheduling>>
      /\ \/ Finish(w)
         \/ \E e : /\ Rewrite(w, e)
                   /\ msg[w].kind = "deployed" =>
                         catalog[msg[w].service].version # msg[w].version
  BY <1>1, ReadVersions DEF store
<1>4. CASE Finish(w)
  <2>1. stage'[w] = "idle" /\ msg'[w].kind = "check"
    BY <1>1, <1>4, Moved1
  <2> QED BY <1>1, <1>2, <1>3, <2>1, FollowingStays
<1>5. CASE ~ Finish(w)
  <2>1. /\ stage'[w] = "save" /\ msg' = msg
        /\ msg[w].kind = "deployed" => catalog[msg[w].service].version # msg[w].version
    BY <1>1, <1>3, <1>5, Moved1
  <2>2. msg[w].kind = "deployed" => Attends(w, p, k) /\ Tells(Reached(p, k), msg[w])
    BY <2>1, <1>1, NewsIsOrdered DEF Following
  <2> QED BY <1>1, <1>2, <1>3, <2>1, <2>2, FollowingStays
<1> QED BY <1>4, <1>5

LEMMA FollowingSaves ==
    ASSUME NEW w, NEW o, Single(w, o), SystemInv(w, o), NEW p, NEW k, OnPath(w, o, p, k),
           PlanerStep(w), SaveService(w)
    PROVE  Following(w, p, k)'
<1>1. /\ PlanerInv(w) /\ SoloInv /\ Workers = {w} /\ Following(w, p, k) /\ Path(p, k)
      /\ catalog \in [Services -> Entry \cup {NoEntry}]
  BY DEF SystemInv, PlanerInv, OnPath, Single, SoloInv, PlanInv, TypeOK
<1>2. UNCHANGED <<docker, calls>> /\ Reached(p, k)' = Reached(p, k)
  BY PathGoes DEF PlanerMoves, PlanerStep, CallUpgrade, CallOverseer
<1> DEFINE s == msg[w].service
<1>3. /\ stage[w] = "save" /\ s \in Services /\ UNCHANGED scheduling
      /\ catalog' = [catalog EXCEPT ![s] = entry[w]]
      /\ catalog'[s].version = IF msg[w].kind = "deployed" THEN msg[w].version
                               ELSE catalog[s].version
      /\ \/ msg[w].kind = "deployed" /\ Goto(w, "log") /\ UNCHANGED <<msg, locals>>
         \/ msg[w].kind = "image" /\ Goto(w, "dispatch") /\ UNCHANGED <<msg, locals>>
         \/ msg[w].kind = "cleaned" /\ Finish(w)
  BY <1>1, SaveVersions
<1>4. \A t \in Services : t # s => catalog'[t] = catalog[t]
  BY <1>1, <1>3
<1>5. p.steps \in Seq(Step) /\ k \in Nat
  BY <1>1 DEF Path, Plan
<1>6. Catching(p, k)'
  <2> SUFFICES ASSUME NEW n \in DOMAIN p.steps
               PROVE  LET st == p.steps[n]
                      IN catalog'[st.service].version \in
                            IF n < k THEN {st.to} ELSE IF n > k THEN {st.from}
                                          ELSE {st.from, st.to}
    BY DEF Catching
  <2> DEFINE st == p.steps[n]
  <2>1. st.service \in Services /\ n \in Nat
    <3>1. st \in Step /\ n \in Nat
      BY <1>5
    <3> QED BY <3>1 DEF Step
  <2>2. catalog[st.service].version \in
            IF n < k THEN {st.to} ELSE IF n > k THEN {st.from} ELSE {st.from, st.to}
    BY <1>1 DEF Following, Catching
  <2>3. CASE catalog'[st.service].version = catalog[st.service].version
    BY <2>2, <2>3
  <2>4. CASE catalog'[st.service].version # catalog[st.service].version
    <3>1. st.service = s /\ msg[w].kind = "deployed"
      BY <1>3, <1>4, <2>1, <2>4
    <3>2. Attends(w, p, k) /\ Tells(Reached(p, k), msg[w])
      BY <1>1, <1>3, <3>1 DEF Following
    <3>3. n = k
      BY <1>1, <3>1, <3>2 DEF Attends, Path, DistinctServices
    <3>4. Over(k, k)
      BY <1>5, <2>1, <3>2, <3>3 DEF Over, Attends
    <3>5. docker[st.service].image = st.to
      BY <1>1, <3>3, <3>4 DEF Path
    <3>6. catalog'[st.service].version = st.to
      BY <1>3, <3>1, <3>2, <3>5 DEF Tells
    <3> QED BY <3>3, <3>6
  <2> QED BY <2>3, <2>4
<1>7. \A i \in Running' : Matches(scheduling'[i], p, k)
  BY <1>1, <1>3 DEF Following, Running
<1>8. CASE msg[w].kind = "deployed" /\ Goto(w, "log") /\ UNCHANGED <<msg, locals>>
  <2>1. stage'[w] = "log" /\ msg' = msg
    BY <1>1, <1>8, Moved1
  <2>2. Attends(w, p, k) /\ Tells(Reached(p, k), msg[w])
    BY <1>1, <1>3, <1>8 DEF Following
  <2> QED BY <1>1, <1>2, <1>6, <1>7, <2>1, <2>2, FollowingGoes
<1>9. CASE msg[w].kind = "image" /\ Goto(w, "dispatch") /\ UNCHANGED <<msg, locals>>
  <2>1. stage'[w] = "dispatch" /\ msg' = msg
    BY <1>1, <1>9, Moved1
  <2> QED BY <1>1, <1>2, <1>6, <1>7, <1>9, <2>1, FollowingGoes
<1>10. CASE Finish(w)
  <2>1. stage'[w] = "idle" /\ msg'[w].kind = "check"
    BY <1>1, <1>10, Moved1
  <2> QED BY <1>1, <1>2, <1>6, <1>7, <2>1, FollowingGoes
<1> QED BY <1>3, <1>8, <1>9, <1>10

LEMMA FollowingOthers ==
    ASSUME NEW w, NEW o, Single(w, o), SystemInv(w, o), NEW p, NEW k, OnPath(w, o, p, k),
           PlanerStep(w),
           \/ LogPhase(w) \/ DispatchNewVersion(w) \/ RunStep(w)
           \/ Solve(w) \/ SolveBestPhase(w) \/ BuildSteps(w)
    PROVE  Following(w, p, k)'
<1>1. PlanerInv(w) /\ SoloInv /\ Workers = {w} /\ Following(w, p, k)
  BY DEF SystemInv, PlanerInv, OnPath, Single
<1>2. UNCHANGED <<docker, calls>> /\ Reached(p, k)' = Reached(p, k)
  BY PathGoes DEF PlanerMoves, PlanerStep, CallUpgrade, CallOverseer
<1>3. /\ UNCHANGED <<catalog, scheduling>>
      /\ stage[w] \in {"log", "dispatch", "step", "first_step", "solve", "best", "build"}
  BY DEF LogPhase, DispatchNewVersion, RunStep, Solve, SolveBestPhase, BuildSteps, store
<1>4. CASE Finish(w)
  <2>1. stage'[w] = "idle" /\ msg'[w].kind = "check"
    BY <1>1, <1>4, Moved1
  <2> QED BY <1>1, <1>2, <1>3, <2>1, FollowingStays
<1>5. CASE ~ Finish(w)
  <2>1. /\ msg' = msg
        /\ \/ stage[w] = "log" /\ Goto(w, "continue")
           \/ stage[w] = "step" /\ Goto(w, "call") /\ UNCHANGED sched
           \/ Goto(w, "best") \/ Goto(w, "build")
           \/ Goto(w, "first_step") \/ Goto(w, "first_call")
    BY <1>5 DEF LogPhase, DispatchNewVersion, RunStep, Solve, SolveBestPhase, BuildSteps,
                locals
  <2>2. \/ stage[w] = "log" /\ stage'[w] = "continue"
        \/ stage[w] = "step" /\ stage'[w] = "call" /\ sched' = sched
        \/ stage'[w] \in {"best", "build", "first_step", "first_call"}
    BY <1>1, <2>1, Moved1
  <2>3. /\ msg[w].kind = "deployed" => Tells(Reached(p, k), msg[w])
        /\ msg[w].kind = "deployed" /\ stage[w] \in {"log", "step"} => Attends(w, p, k)
        /\ stage[w] = "step" => Matches(sched[w], p, k)
    BY <1>1 DEF Following
  <2> QED BY <1>1, <1>2, <1>3, <2>1, <2>2, <2>3, FollowingStays
<1> QED BY <1>4, <1>5

(* A copy of the plan in which step k is done.                             *)
LEMMA MatchesDone ==
    ASSUME NEW p, NEW k, Path(p, k), NEW q \in Plan, Matches(q, p, k), NEW s,
           k \in DOMAIN p.steps, p.steps[k].service = s, calls = << >>,
           NEW u \in UpdatedStep(q, s)
    PROVE  /\ u = k
           /\ LET r == SetStep(q, u, "done")
              IN Matches(r, p, k) /\ Matches([r EXCEPT !.state = "done"], p, k)
<1>1. p.steps \in Seq(Step) /\ q.steps \in Seq(Step) /\ Len(q.steps) = Len(p.steps)
  BY DEF Path, Plan, Matches
<1>2. DOMAIN q.steps = DOMAIN p.steps
  BY <1>1
<1>3. u \in DOMAIN q.steps /\ q.steps[u].service = s
  BY DEF UpdatedStep
<1>4. u = k
  BY <1>2, <1>3 DEF Matches, Path, DistinctServices
<1> DEFINE r == SetStep(q, u, "done")
<1>5. /\ r \in Plan /\ DOMAIN r.steps = DOMAIN q.steps
      /\ \A j \in DOMAIN q.steps :
            /\ r.steps[j].service = q.steps[j].service /\ r.steps[j].to = q.steps[j].to
            /\ r.steps[j].state = IF j = u THEN "done" ELSE q.steps[j].state
  BY <1>3, SetStepFacts DEF States
<1> HIDE DEF r
<1>6. Len(r.steps) = Len(p.steps)
  <2>1. r.steps \in Seq(Step)
    BY <1>5 DEF Plan
  <2> QED BY <1>1, <1>2, <1>5, <2>1
<1>7. Over(k, k)
  BY <1>1 DEF Over
<1>8. Matches(r, p, k)
  BY <1>2, <1>4, <1>5, <1>6, <1>7 DEF Matches
<1>9. [r EXCEPT !.state = "done"].steps = r.steps
  BY <1>5 DEF Plan
<1>10. Matches([r EXCEPT !.state = "done"], p, k)
  BY <1>8, <1>9 DEF Matches
<1> QED BY <1>4, <1>8, <1>10 DEF r

LEMMA FollowingContinues ==
    ASSUME NEW w, NEW o, Single(w, o), SystemInv(w, o), NEW p, NEW k, OnPath(w, o, p, k),
           PlanerStep(w), ContinuePlan(w)
    PROVE  Following(w, p, k)'
<1>1. /\ PlanerInv(w) /\ SoloInv /\ Workers = {w} /\ Following(w, p, k) /\ Path(p, k)
      /\ scheduling \in Seq(Plan)
  BY DEF SystemInv, PlanerInv, OnPath, Single, SoloInv, PlanInv, TypeOK
<1>2. UNCHANGED <<docker, calls>> /\ Reached(p, k)' = Reached(p, k)
  BY PathGoes DEF PlanerMoves, PlanerStep, CallUpgrade, CallOverseer
<1>3. stage[w] = "continue" /\ UNCHANGED <<catalog, scheduling>>
  BY DEF ContinuePlan, store
<1>4. CASE Finish(w)
  <2>1. stage'[w] = "idle" /\ msg'[w].kind = "check"
    BY <1>1, <1>4, Moved1
  <2> QED BY <1>1, <1>2, <1>3, <2>1, FollowingStays
<1>5. CASE ~ Finish(w)
  <2> DEFINE s == msg[w].service
  <2>1. PICK i \in Running : \E u \in UpdatedStep(scheduling[i], s) :
           /\ \/ /\ Goto(w, "replace")
                 /\ sched' = [sched EXCEPT ![w] = [SetStep(scheduling[i], u, "done")
                                                      EXCEPT !.state = "done"]]
              \/ /\ Goto(w, "step")
                 /\ sched' = [sched EXCEPT ![w] = SetStep(scheduling[i], u, "done")]
           /\ UNCHANGED msg
    BY <1>5 DEF ContinuePlan
  <2>2. scheduling[i] \in Plan /\ Matches(scheduling[i], p, k)
    BY <1>1, <1>3 DEF Following, Running
  <2>3. msg[w].kind = "deployed"
    BY <1>1, <1>3 DEF PlanerInv, PlanerOK, PlanerStages
  <2>4. Attends(w, p, k) /\ Tells(Reached(p, k), msg[w])
    BY <1>1, <1>3, <2>3 DEF Following
  <2>5. stage'[w] \in {"replace", "step"} /\ msg' = msg
    BY <1>1, <2>1, Moved1
  <2>6. Matches(sched'[w], p, k)
    <3>1. PICK u \in UpdatedStep(scheduling[i], s) :
             \/ sched' = [sched EXCEPT ![w] = [SetStep(scheduling[i], u, "done")
                                                      EXCEPT !.state = "done"]]
             \/ sched' = [sched EXCEPT ![w] = SetStep(scheduling[i], u, "done")]
      BY <2>1
    <3>2. k \in DOMAIN p.steps /\ p.steps[k].service = s /\ calls = << >>
      BY <2>4 DEF Attends
    <3>3. /\ Matches(SetStep(scheduling[i], u, "done"), p, k)
          /\ Matches([SetStep(scheduling[i], u, "done") EXCEPT !.state = "done"], p, k)
      BY <1>1, <2>2, <3>2, MatchesDone
    <3>4. sched \in [{w} -> Plan]
      BY <1>1 DEF SoloInv, PlanInv, TypeOK
    <3> QED BY <3>1, <3>3, <3>4
  <2> QED BY <1>1, <1>2, <1>3, <2>4, <2>5, <2>6, FollowingStays
<1> QED BY <1>4, <1>5

LEMMA FollowingWrites ==
    ASSUME NEW w, NEW o, Single(w, o), SystemInv(w, o), NEW p, NEW k, OnPath(w, o, p, k),
           PlanerStep(w), ReplacePlan(w) \/ DisableScheduled(w) \/ InsertPlan(w)
    PROVE  Following(w, p, k)'
<1>1. /\ PlanerInv(w) /\ SoloInv /\ Workers = {w} /\ Following(w, p, k)
      /\ scheduling \in Seq(Plan) /\ SoloHandler(w)
  BY DEF SystemInv, PlanerInv, OnPath, Single, SoloInv, PlanInv, TypeOK
<1>2. UNCHANGED <<docker, calls>> /\ Reached(p, k)' = Reached(p, k)
  BY PathGoes DEF PlanerMoves, PlanerStep, CallUpgrade, CallOverseer
<1>3. UNCHANGED catalog
  BY DEF ReplacePlan, DisableScheduled, InsertPlan
<1>4. Catching(p, k)'
  BY <1>1, <1>3 DEF Following, Catching
<1>5. Finish(w) => stage'[w] = "idle" /\ msg'[w].kind = "check"
  BY <1>1, Moved1
<1>6. CASE ReplacePlan(w)
  <2>1. /\ stage[w] = "replace" /\ Finish(w) /\ schedId[w] \in Running
        /\ scheduling' = [scheduling EXCEPT ![schedId[w]] = sched[w]]
        /\ Matches(sched[w], p, k)
    BY <1>1, <1>6 DEF ReplacePlan, SoloHandler, Following
  <2>2. \A i \in Running' : Matches(scheduling'[i], p, k)
    <3> SUFFICES ASSUME NEW i \in Running' PROVE Matches(scheduling'[i], p, k)
      OBVIOUS
    <3>1. i \in DOMAIN scheduling /\ scheduling'[i].state = "running"
      BY <2>1 DEF Running
    <3>2. CASE i = schedId[w]
      BY <2>1, <3>1, <3>2
    <3>3. CASE i # schedId[w]
      BY <1>1, <2>1, <3>1, <3>3 DEF Following, Running
    <3> QED BY <3>2, <3>3
  <2> QED BY <1>1, <1>2, <1>4, <1>5, <2>1, <2>2, FollowingGoes
<1>7. CASE DisableScheduled(w)
  <2>1. /\ stage[w] = "disable" /\ stage'[w] = "insert" /\ UNCHANGED <<msg, sched>>
        /\ Matches(sched[w], p, k)
    BY <1>1, <1>7, Moved1 DEF DisableScheduled, Following, locals
  <2>2. \A n : Over(k, n)' = Over(k, n)
    BY <1>2 DEF Over
  <2>3. Matches(sched[w], p, k)'
    BY <2>1, <2>2 DEF Matches
  <2>4. msg[w].kind = "deployed" => Tells(Reached(p, k), msg[w])'
    BY <1>1, <1>2, <2>1 DEF Following, Tells
  <2> QED BY <1>4, <2>1, <2>3, <2>4 DEF Following
<1>8. CASE InsertPlan(w)
  <2>1. /\ stage[w] = "insert" /\ Finish(w) /\ Running = {}
        /\ scheduling' = Append(scheduling, sched[w])
        /\ Matches(sched[w], p, k)
    BY <1>1, <1>8 DEF InsertPlan, SoloHandler, Following
  <2>2. \A i \in Running' : scheduling'[i] = sched[w]
    <3>1. /\ DOMAIN scheduling' = DOMAIN scheduling \cup {Len(scheduling) + 1}
          /\ scheduling'[Len(scheduling) + 1] = sched[w]
          /\ \A i \in DOMAIN scheduling : scheduling'[i] = scheduling[i]
      BY <1>1, <2>1
    <3> QED BY <2>1, <3>1 DEF Running
  <2>3. \A i \in Running' : Matches(scheduling'[i], p, k)
    BY <2>1, <2>2
  <2> QED BY <1>1, <1>2, <1>4, <1>5, <2>1, <2>3, FollowingGoes
<1> QED BY <1>6, <1>7, <1>8

LEMMA OnPathPlaner ==
    ASSUME NEW w, NEW o, Single(w, o), SystemInv(w, o), NEW p, NEW k, OnPath(w, o, p, k),
           PlanerMoves(w), ~ CallUpgrade(w), interference' = {}
    PROVE  OnPath(w, o, p, k)'
<1>1. Path(p, k)' /\ Truthful(o, Reached(p, k))'
  BY PathGoes
<1>2. Following(w, p, k)'
  <2>1. CASE TakeMail(w) \/ TakeCheck(w) \/ AskUpgrade(w) \/ PlanerCrash(w)
    BY <2>1, FollowingTaken
  <2>2. CASE PlanerStep(w)
    <3>1. ~ CallOverseer(w)
      BY <2>2 DEF PlanerStep, CallOverseer
    <3> QED
      BY <2>2, <3>1, FollowingReads, FollowingSaves, FollowingOthers, FollowingContinues,
         FollowingWrites DEF PlanerStep, Work
  <2> QED BY <2>1, <2>2 DEF PlanerMoves
<1> QED BY <1>1, <1>2 DEF OnPath

-----------------------------------------------------------------------------
(* A plan is launched from where it was made                               *)

(* The versions a plan of the planer passes through, when the catalog has  *)
(* the versions that run.                                                  *)
LEMMA PlanForPath ==
    ASSUME NEW w, NEW o, SystemInv(w, o), InStep, NEW g \in Phase,
           DOMAIN g \subseteq Catalogued, Moved(g) # {}, NEW ord \in SafeOrders(g)
    PROVE  Path(PlanFor(g, ord), 0)
<1> DEFINE p == PlanFor(g, ord)
           c == Cardinality(Moved(g))
<1>1. catalog \in [Services -> Entry \cup {NoEntry}] /\ PlanerOK(w)
  BY DEF SystemInv, PlanerInv, SoloInv, PlanInv, TypeOK
<1>2. p \in Plan /\ DistinctServices(p)
  BY <1>1, PlanForFacts
<1>3. Catalogued = Services
  BY <1>1, Entries DEF Catalogued
<1>4. calls = << >> /\ \A s \in Services : catalog[s].version = docker[s].image
  BY DEF InStep, O!Settled
<1>5. p.steps = [i \in 1 .. c |-> [service |-> ord[i], from |-> catalog[ord[i]].version,
                                   to |-> g[ord[i]], state |-> "waiting"]]
  BY DEF PlanFor
<1>6. /\ ord \in [1 .. c -> Moved(g)]
      /\ \A n \in 1 .. c : /\ Listed(PhaseAfter(g, ord, n))
                           /\ PhaseAfter(g, ord, n) \in Explained
  BY DEF SafeOrders, Orders
<1>7. DOMAIN p.steps = 1 .. c
  BY <1>5
<1>8. ASSUME NEW n \in 1 .. c
      PROVE  /\ ord[n] \in Services /\ ord[n] \in DOMAIN g
             /\ p.steps[n].service = ord[n]
             /\ p.steps[n].from = docker[ord[n]].image
             /\ p.steps[n].to = g[ord[n]] /\ catalog[ord[n]].version # g[ord[n]]
             /\ g[ord[n]] \in catalog[ord[n]].versions
  <2>1. ord[n] \in Moved(g)
    BY <1>6
  <2>2. ord[n] \in DOMAIN g /\ ord[n] \in Services /\ catalog[ord[n]].version # g[ord[n]]
    BY <2>1, <1>3 DEF Moved
  <2>3. g[ord[n]] \in catalog[ord[n]].versions
    <3> DEFINE ph == PhaseAfter(g, ord, n)
    <3>1. DOMAIN ph = Services /\ ph[ord[n]] = g[ord[n]]
      <4>1. ph = [s \in Services |-> IF \E i \in 1 .. n : ord[i] = s THEN g[s]
                                     ELSE catalog[s].version]
        BY <1>3 DEF PhaseAfter
      <4>2. \E i \in 1 .. n : ord[i] = ord[n]
        <5>1. n \in 1 .. n
          OBVIOUS
        <5> QED BY <5>1
      <4> QED BY <2>2, <4>1, <4>2
    <3>2. Listed(ph)
      BY <1>6
    <3> QED BY <2>2, <3>1, <3>2 DEF Listed
  <2> QED BY <1>4, <1>5, <2>2, <2>3
<1> HIDE DEF p, c
<1>9. PathExplained(p)
  <2> SUFFICES ASSUME NEW n \in 1 .. c, NEW f \in [Services -> Versions], Between(p, n, f)
               PROVE  f \in Explained
    BY <1>7 DEF PathExplained
  <2>1. \A i \in 1 .. c : f[ord[i]] = IF i <= n THEN g[ord[i]] ELSE docker[ord[i]].image
    BY <1>7, <1>8 DEF Between
  <2>2. \A s \in Services : (\A i \in 1 .. c : ord[i] # s) => f[s] = docker[s].image
    BY <1>7, <1>8 DEF Between
  <2>3. \A i \in 1 .. n : i \in 1 .. c /\ i <= n
    <3>1. p.steps \in Seq(Step)
      BY <1>2 DEF Plan, p
    <3>2. Len(p.steps) \in Nat /\ 1 .. c = 1 .. Len(p.steps)
      BY <1>7, <3>1
    <3>3. n \in 1 .. Len(p.steps)
      BY <3>2
    <3>4. \A i \in 1 .. n : i \in 1 .. Len(p.steps) /\ i <= n
      BY <3>2, <3>3
    <3> QED BY <3>2, <3>4
  <2>4. ASSUME NEW s \in Services
        PROVE  f[s] = IF \E i \in 1 .. n : ord[i] = s THEN g[s] ELSE catalog[s].version
    <3>1. CASE \E i \in 1 .. n : ord[i] = s
      BY <2>1, <2>3, <3>1
    <3>2. CASE ~ \E i \in 1 .. n : ord[i] = s
      <4>1. \A i \in 1 .. c : ord[i] = s => ~ (i <= n)
        BY <3>2
      <4> QED BY <1>4, <2>1, <2>2, <3>2, <4>1
    <3> QED BY <3>1, <3>2
  <2>5. f = PhaseAfter(g, ord, n)
    BY <1>3, <2>4 DEF PhaseAfter
  <2> QED BY <1>6, <2>5 DEF c
<1>10. /\ 0 \in 0 .. Len(p.steps)
       /\ \A n \in DOMAIN p.steps :
             LET st == p.steps[n]
             IN /\ st.from # st.to /\ st.to \in catalog[st.service].versions
                /\ docker[st.service].image = st.from
  <2>1. p.steps \in Seq(Step)
    BY <1>2 DEF Plan
  <2>2. 0 \in 0 .. Len(p.steps)
    BY <2>1
  <2> QED BY <1>4, <1>7, <1>8, <2>2
<1>11. \A n : ~ Over(0, n)
  BY DEF Over
<1> QED BY <1>2, <1>4, <1>9, <1>10, <1>11 DEF Path, Ordered, p

LEMMA ReadyPlaner ==
    ASSUME NEW w, NEW o, Single(w, o), SystemInv(w, o), Ready(w), PlanerMoves(w),
           interference = {}, interference' = {}
    PROVE  Ready(w)'
<1>1. PlanerInv(w) /\ SoloInv /\ Workers = {w} /\ ClusterOK(o)
  BY DEF SystemInv, PlanerInv, Single
<1> SUFFICES ASSUME stage'[w] \in {"first_step", "first_call"}
             PROVE  InStep' /\ Path(sched[w], 0)'
  BY DEF Ready
<1>2. Finish(w) => stage'[w] = "idle"
  BY <1>1, Moved1
<1>3. /\ \/ BuildSteps(w) /\ stage'[w] = "first_step"
         \/ RunStep(w) /\ stage[w] = "first_step" /\ UNCHANGED sched
      /\ PlanerStep(w)
  <2>1. ~ TakeMail(w) /\ ~ TakeCheck(w) /\ ~ AskUpgrade(w) /\ ~ PlanerCrash(w)
    <3>1. \A k : FirstStage(k) \notin {"first_step", "first_call"}
      BY DEF FirstStage
    <3>2. ASSUME NEW m, Take(w, m) PROVE FALSE
      <4>1. stage'[w] = FirstStage(m.kind)
        BY <1>1, <3>2, Moved1 DEF Take
      <4> QED BY <3>1, <4>1
    <3>3. ~ PlanerCrash(w)
      BY <1>1, <3>1, Moved1 DEF PlanerCrash, Crash
    <3> QED BY <3>2, <3>3 DEF TakeMail, TakeCheck, AskUpgrade, ReceiveCheck, Receive
  <2>2. ~ CallUpgrade(w)
    BY <1>1, <1>2, Moved1 DEF CallUpgrade, CallOverseer
  <2>3. PlanerStep(w) /\ Work(w)
    BY <2>1, <2>2 DEF PlanerMoves, PlanerStep
  <2>4. BuildSteps(w) \/ RunStep(w)
    BY <1>1, <1>2, <2>3, Moved1
    DEF PlanerStep, Work, ReadDeployed, ReadCleaned, ReadImage, ReadSanity, SaveService,
        LogPhase, DispatchNewVersion, ContinuePlan, CallOverseer, ReplacePlan, Solve,
        SolveBestPhase, DisableScheduled, InsertPlan
  <2>5. BuildSteps(w) => stage'[w] = "first_step"
    BY <1>1, <1>2, Moved1 DEF BuildSteps
  <2>6. RunStep(w) => stage[w] = "first_step" /\ UNCHANGED sched
    BY <1>1, <1>2, Moved1 DEF RunStep, locals
  <2> QED BY <2>3, <2>4, <2>5, <2>6
<1>4. UNCHANGED <<catalog, docker, calls, overseer, mail>>
  BY <1>3 DEF PlanerStep, BuildSteps, RunStep, store, overseer
<1>5. InStep /\ Path(sched'[w], 0)
  <2>1. CASE BuildSteps(w) /\ stage'[w] = "first_step"
    <3>1. InStep
      BY <1>3, <2>1 DEF PlanerStep
    <3>2. PICK g \in goals[w] : \E ord \in SafeOrders(g) :
             /\ DOMAIN g \subseteq Catalogued /\ Moved(g) # {}
             /\ sched' = [sched EXCEPT ![w] = PlanFor(g, ord)]
      BY <1>2, <2>1 DEF BuildSteps
    <3>3. PICK ord \in SafeOrders(g) :
             /\ DOMAIN g \subseteq Catalogued /\ Moved(g) # {}
             /\ sched' = [sched EXCEPT ![w] = PlanFor(g, ord)]
      BY <3>2
    <3>4. g \in Phase /\ sched'[w] = PlanFor(g, ord)
      BY <1>1, <3>3 DEF SoloInv, PlanInv, TypeOK
    <3> QED BY <3>1, <3>3, <3>4, PlanForPath
  <2>2. CASE RunStep(w) /\ stage[w] = "first_step" /\ UNCHANGED sched
    BY <2>2 DEF Ready
  <2> QED BY <1>3, <2>1, <2>2
<1>6. InStep'
  BY <1>4, <1>5 DEF InStep, O!Settled, overseer
<1>7. PICK q : q = sched'[w]
  OBVIOUS
<1>8. Path(q, 0)'
  BY <1>4, <1>5, <1>7, PathKept
<1> QED BY <1>6, <1>7, <1>8

-----------------------------------------------------------------------------
(* An order goes to the overseer                                           *)

LEMMA OneCall ==
    ASSUME NEW c \in O!Call, calls = << >>, calls' = Append(calls, c)
    PROVE  calls' # << >> /\ Len(calls') = 1 /\ Items(calls') = {c}
<1> DEFINE q == Append(<< >>, c)
<1>1. DOMAIN q = {1} /\ q[1] = c /\ Len(q) = 1
  OBVIOUS
<1> HIDE DEF q
<1>2. Items(q) = {c}
  BY <1>1 DEF Items
<1>3. q # << >>
  BY <1>1, <1>2, Emptied
<1> QED BY <1>1, <1>2, <1>3 DEF q

(* The order of step n of the handler's copy.                              *)
LEMMA OrderTaken ==
    ASSUME NEW w, NEW o, Single(w, o), SystemInv(w, o), CallUpgrade(w), calls = << >>
    PROVE  \E n \in Launched(w) :
              /\ n \in DOMAIN sched[w].steps /\ sched[w] \in Plan
              /\ sched'[w] = SetStep(sched[w], n, "running")
              /\ stage'[w] = IF stage[w] = "call" THEN "replace" ELSE "disable"
              /\ calls' # << >> /\ Len(calls') = 1
              /\ \A c \in Items(calls') : /\ c.service = sched[w].steps[n].service
                                          /\ c.data.image = sched[w].steps[n].to
<1>1. ClusterOK(o) /\ PlanInv /\ Workers = {w}
  BY DEF SystemInv, PlanerInv, SoloInv, Single
<1>2. PICK n \in Launched(w) :
         /\ stage' = [stage EXCEPT ![w] =
                         IF stage[w] = "call" THEN "replace" ELSE "disable"]
         /\ sched' = [sched EXCEPT ![w] = SetStep(@, n, "running")]
         /\ \E c \in O!Call : /\ c.service = sched[w].steps[n].service
                             /\ c.data.image = sched[w].steps[n].to
                             /\ calls' = Append(calls, c)
  BY <1>1, CallEffect
<1>3. PICK c \in O!Call : /\ c.service = sched[w].steps[n].service
                         /\ c.data.image = sched[w].steps[n].to
                         /\ calls' = Append(calls, c)
  BY <1>2
<1>6. n \in DOMAIN sched[w].steps /\ sched[w] \in Plan
  BY <1>1, <1>2, LaunchedIsStep, CallEffect
<1>4. stage'[w] = (IF stage[w] = "call" THEN "replace" ELSE "disable")
      /\ sched'[w] = SetStep(sched[w], n, "running")
  BY <1>1, <1>2 DEF PlanInv, TypeOK
<1>5. calls' # << >> /\ Len(calls') = 1 /\ Items(calls') = {c}
  BY <1>3, OneCall
<1> QED BY <1>3, <1>4, <1>5, <1>6

(* The first order starts the path of its plan.                            *)
LEMMA OnPathFirst ==
    ASSUME NEW w, NEW o, Single(w, o), SystemInv(w, o), Ready(w), outdated = {},
           CallUpgrade(w), stage[w] = "first_call", NEW p, p = sched[w]
    PROVE  OnPath(w, o, p, 1)'
<1>1. /\ ClusterOK(o) /\ PlanInv /\ PlanerOK(w) /\ Workers = {w}
      /\ InStep /\ Path(p, 0)
  BY DEF SystemInv, PlanerInv, SoloInv, Single, Ready
<1>2. /\ events = << >> /\ calls = << >> /\ mail = << >> /\ updating = {}
      /\ queues["updated"] = << >> /\ queues["own"] = << >>
      /\ ostage[o] = "idle"
      /\ \A s \in Services : catalog[s].version = docker[s].image
  BY <1>1 DEF InStep, O!Settled, O!Handlers, Single
<1>3. omsg[o].kind = "boot"
  BY <1>1, <1>2 DEF ClusterOK, OverseerOK, OverseerStages
<1>4. UNCHANGED <<docker, updating, events, queues, omsg, mail, outdated, msg, catalog>>
  BY <1>1, CallEffect DEF overseerVars, history, store
<1>5. /\ 1 \in DOMAIN p.steps /\ p \in Plan
      /\ sched'[w] = SetStep(p, 1, "running") /\ stage'[w] = "disable"
      /\ calls' # << >> /\ Len(calls') = 1
      /\ \A c \in Items(calls') : /\ c.service = p.steps[1].service
                                  /\ c.data.image = p.steps[1].to
  BY <1>2, OrderTaken DEF Launched
<1>6. \A n : ~ Over(0, n) /\ ~ Over(1, n)'
  BY <1>5 DEF Over
<1>7. Reached(p, 1)' = {}
  BY <1>6 DEF Reached
<1>8. p.steps \in Seq(Step) /\ \A n \in DOMAIN p.steps : p.steps[n] \in Step /\ n \in Nat
  BY <1>5 DEF Plan
<1>9. ASSUME NEW n \in DOMAIN p.steps
      PROVE  /\ p.steps[n].from # p.steps[n].to
             /\ p.steps[n].to \in catalog[p.steps[n].service].versions
             /\ docker[p.steps[n].service].image = p.steps[n].from
             /\ catalog[p.steps[n].service].version = p.steps[n].from
  <2>1. p.steps[n].service \in Services
    BY <1>8 DEF Step
  <2> QED BY <1>1, <1>2, <1>6, <2>1 DEF Path
<1>10. Path(p, 1)'
  <2>1. PathExplained(p)'
    BY <1>1, <1>4 DEF Path, PathExplained, Between
  <2>2. 1 \in 0 .. Len(p.steps)
    BY <1>5, <1>8
  <2> QED BY <1>1, <1>4, <1>5, <1>6, <1>9, <2>1, <2>2 DEF Path, Ordered
<1>11. Truthful(o, Reached(p, 1))'
  BY <1>2, <1>3, <1>4, <1>7, Emptied DEF Truthful, Told, Queued, Mailed
<1>12. Following(w, p, 1)'
  <2>1. msg'[w].kind # "deployed"
    BY <1>1, <1>4 DEF PlanerOK, PlanerStages
  <2>2. Catching(p, 1)'
    BY <1>4, <1>8, <1>9 DEF Catching
  <2>3. Matches(sched[w], p, 1)'
    <3>1. \A n \in DOMAIN p.steps : p.steps[n].state = "waiting"
      BY <1>1 DEF PlanInv, HandlersPlans, HandlerPlan, Fresh
    <3>2. PICK q : q = SetStep(p, 1, "running")
      OBVIOUS
    <3>3. /\ q \in Plan /\ DOMAIN q.steps = DOMAIN p.steps
          /\ \A j \in DOMAIN p.steps :
                /\ q.steps[j].service = p.steps[j].service /\ q.steps[j].to = p.steps[j].to
                /\ q.steps[j].state = IF j = 1 THEN "running" ELSE p.steps[j].state
      BY <1>5, <3>2, SetStepFacts DEF States
    <3>4. Len(q.steps) = Len(p.steps)
      <4>1. q.steps \in Seq(Step)
        BY <3>3 DEF Plan
      <4> QED BY <1>8, <3>3, <4>1
    <3>5. sched'[w] = q
      BY <1>5, <3>2
    <3> QED BY <1>8, <3>1, <3>3, <3>4, <3>5 DEF Matches
  <2> QED BY <1>5, <2>1, <2>2, <2>3 DEF Following
<1> QED BY <1>10, <1>11, <1>12 DEF OnPath

(* The next order goes one step along the path.                            *)
LEMMA NextIsNext ==
    ASSUME NEW w, NEW o, Single(w, o), SystemInv(w, o), NEW p, NEW k, OnPath(w, o, p, k),
           stage[w] \in {"step", "call"}, NEW n \in Launched(w)
    PROVE  /\ n = k + 1 /\ n \in DOMAIN p.steps /\ Attends(w, p, k)
           /\ msg[w].kind = "deployed" /\ Matches(sched[w], p, k) /\ k \in Nat
<1>1. /\ PlanInv /\ PlanerOK(w) /\ w \in Workers /\ Path(p, k) /\ Following(w, p, k)
  BY DEF SystemInv, PlanerInv, SoloInv, OnPath, Single
<1>2. msg[w].kind = "deployed"
  BY <1>1 DEF PlanerOK, PlanerStages
<1>3. Attends(w, p, k) /\ Matches(sched[w], p, k)
  BY <1>1, <1>2 DEF Following
<1>4. PICK q : q = sched[w]
  OBVIOUS
<1>5. PICK s : s = msg[w].service
  OBVIOUS
<1>6. n \in DOMAIN q.steps /\ q.steps \in Seq(Step) /\ p.steps \in Seq(Step)
  BY <1>1, <1>4, LaunchedIsStep DEF Path, Plan
<1>7. DOMAIN q.steps = DOMAIN p.steps /\ DOMAIN p.steps = 1 .. Len(p.steps) /\ Len(p.steps) \in Nat
  BY <1>3, <1>4, <1>6 DEF Matches
<1>8. n \in NextStep(q, s)
  BY <1>4, <1>5 DEF Launched
<1>9. /\ WaitingLast(q)
      /\ \A i \in DOMAIN q.steps : q.steps[i].service = s => q.steps[i].state # "waiting"
  BY <1>1, <1>4, <1>5 DEF PlanInv, HandlersPlans, HandlerPlan, Continuing, Wellformed
<1>10. k \in DOMAIN p.steps /\ p.steps[k].service = s
  BY <1>3, <1>5 DEF Attends
<1>11. q.steps[n].state = "waiting" /\ q.steps[n].service # s
  BY <1>8 DEF NextStep, WaitingElsewhere
<1>12. q.steps[k].service = s
  BY <1>3, <1>4, <1>10 DEF Matches
<1>13. n > k
  <2>1. n # k
    BY <1>11, <1>12
  <2>2. ~ (n < k)
    BY <1>6, <1>7, <1>9, <1>10, <1>11, <1>12 DEF WaitingLast
  <2> QED BY <1>6, <1>7, <1>10, <2>1, <2>2
<1>14. k + 1 \in DOMAIN p.steps /\ k + 1 > k /\ k + 1 # k
  BY <1>6, <1>7, <1>10, <1>13
<1>15. k + 1 \in WaitingElsewhere(q, s)
  <2>1. q.steps[k + 1].state = "waiting"
    BY <1>3, <1>4, <1>14 DEF Matches
  <2>2. p.steps[k + 1].service # s
    BY <1>1, <1>10, <1>14 DEF Path, DistinctServices
  <2>3. q.steps[k + 1].service # s
    BY <1>3, <1>4, <1>14, <2>2 DEF Matches
  <2> QED BY <1>7, <1>14, <2>1, <2>3 DEF WaitingElsewhere
<1>16. n <= k + 1
  BY <1>8, <1>15 DEF NextStep
<1>17. n = k + 1
  BY <1>6, <1>7, <1>10, <1>13, <1>16
<1> QED BY <1>2, <1>3, <1>7, <1>10, <1>14, <1>17

LEMMA MatchesNext ==
    ASSUME NEW p \in Plan, NEW k \in Nat, NEW q \in Plan, Matches(q, p, k), calls = << >>,
           calls' # << >>
    PROVE  /\ Matches(q, p, k + 1)'
           /\ k + 1 \in DOMAIN p.steps => Matches(SetStep(q, k + 1, "running"), p, k + 1)'
<1>1. /\ p.steps \in Seq(Step) /\ q.steps \in Seq(Step) /\ Len(q.steps) = Len(p.steps)
      /\ \A n \in DOMAIN p.steps : n \in Nat
  BY DEF Plan, Matches
<1>2. DOMAIN q.steps = DOMAIN p.steps
  BY <1>1
<1>3. \A n \in DOMAIN p.steps : Over(k, n) => Over(k + 1, n)'
  BY <1>1 DEF Over
<1>4. \A n \in DOMAIN p.steps : n > k + 1 => n > k
  BY <1>1
<1>5. Matches(q, p, k + 1)'
  BY <1>3, <1>4 DEF Matches
<1>6. ASSUME k + 1 \in DOMAIN p.steps
      PROVE  Matches(SetStep(q, k + 1, "running"), p, k + 1)'
  <2>1. PICK r : r = SetStep(q, k + 1, "running")
    OBVIOUS
  <2>2. /\ r \in Plan /\ DOMAIN r.steps = DOMAIN q.steps
        /\ \A j \in DOMAIN q.steps :
              /\ r.steps[j].service = q.steps[j].service /\ r.steps[j].to = q.steps[j].to
              /\ r.steps[j].state = IF j = k + 1 THEN "running" ELSE q.steps[j].state
    BY <1>2, <1>6, <2>1, SetStepFacts DEF States
  <2>3. Len(r.steps) = Len(p.steps)
    <3>1. r.steps \in Seq(Step)
      BY <2>2 DEF Plan
    <3> QED BY <1>1, <1>2, <2>2, <3>1
  <2>4. Matches(r, p, k + 1)'
    BY <1>2, <1>3, <1>4, <2>2, <2>3 DEF Matches
  <2> QED BY <2>1, <2>4
<1> QED BY <1>5, <1>6

LEMMA OnPathNext ==
    ASSUME NEW w, NEW o, Single(w, o), SystemInv(w, o), NEW p, NEW k, OnPath(w, o, p, k),
           CallUpgrade(w), stage[w] = "call"
    PROVE  OnPath(w, o, p, k + 1)'
<1>1. /\ ClusterOK(o) /\ PlanInv /\ PlanerOK(w) /\ Workers = {w}
      /\ Path(p, k) /\ Truthful(o, Reached(p, k)) /\ Following(w, p, k)
  BY DEF SystemInv, PlanerInv, SoloInv, Single, OnPath
<1>2. /\ k + 1 \in DOMAIN p.steps /\ Attends(w, p, k) /\ k \in Nat
      /\ msg[w].kind = "deployed" /\ Matches(sched[w], p, k)
      /\ \A n \in Launched(w) : n = k + 1
  <2>1. PICK n \in Launched(w) : TRUE
    BY <1>1, CallEffect
  <2> QED BY <2>1, NextIsNext
<1>3. calls = << >> /\ k \in DOMAIN p.steps /\ msg[w].service = p.steps[k].service
  BY <1>2 DEF Attends
<1>4. /\ UNCHANGED <<docker, updating, events, queues, docs, omsg, mail, outdated, msg,
                     catalog, scheduling>>
  BY <1>1, CallEffect DEF overseerVars, history, store
<1>5. PICK q : q = sched[w]
  OBVIOUS
<1>6. /\ q \in Plan /\ sched'[w] = SetStep(q, k + 1, "running") /\ stage'[w] = "replace"
      /\ calls' # << >> /\ Len(calls') = 1
      /\ \A c \in Items(calls') : /\ c.service = q.steps[k + 1].service
                                  /\ c.data.image = q.steps[k + 1].to
  BY <1>2, <1>3, <1>5, OrderTaken
<1>7. /\ p \in Plan /\ p.steps \in Seq(Step) /\ k + 1 \in 0 .. Len(p.steps)
      /\ \A n \in DOMAIN p.steps : n \in Nat /\ p.steps[n] \in Step
  <2>1. p \in Plan /\ p.steps \in Seq(Step)
    BY <1>1 DEF Path, Plan
  <2> QED BY <1>2, <2>1
<1>8. \A n \in DOMAIN p.steps : Over(k + 1, n)' = Over(k, n)
  BY <1>2, <1>3, <1>6, <1>7 DEF Over
<1>9. Reached(p, k + 1)' = Reached(p, k)
  BY <1>8 DEF Reached
<1>10. Path(p, k + 1)'
  <2>1. PathExplained(p)'
    BY <1>1, <1>4 DEF Path, PathExplained, Between
  <2>2. Ordered(p, k + 1)'
    BY <1>2, <1>5, <1>6 DEF Ordered, Matches
  <2> QED BY <1>1, <1>4, <1>7, <1>8, <2>1, <2>2 DEF Path
<1>11. Truthful(o, Reached(p, k + 1))'
  <2>1. PICK R : R = Reached(p, k)
    OBVIOUS
  <2> QED BY <1>1, <1>4, <1>9, <2>1, TruthfulKept DEF Truthful
<1>12. Following(w, p, k + 1)'
  <2>1. Catching(p, k + 1)'
    <3> SUFFICES ASSUME NEW n \in DOMAIN p.steps
                 PROVE  LET st == p.steps[n]
                        IN catalog'[st.service].version \in
                              IF n < k + 1 THEN {st.to} ELSE IF n > k + 1 THEN {st.from}
                                               ELSE {st.from, st.to}
      BY DEF Catching
    <3>1. LET st == p.steps[n]
          IN catalog[st.service].version \in
                IF n < k THEN {st.to} ELSE IF n > k THEN {st.from} ELSE {st.from, st.to}
      BY <1>1 DEF Following, Catching
    <3>2. CASE n = k
      <4>1. catalog[msg[w].service].version = msg[w].version
        BY <1>1 DEF PlanerOK, CallUpgrade
      <4>2. Over(k, k)
        BY <1>2, <1>3, <1>7 DEF Over
      <4>3. msg[w].version = p.steps[k].to
        BY <1>1, <1>2, <1>3, <4>2 DEF Following, Tells, Path
      <4> QED BY <1>2, <1>3, <1>4, <3>2, <4>1, <4>3
    <3>3. CASE n # k
      BY <1>2, <1>4, <1>7, <3>1, <3>3
    <3> QED BY <3>2, <3>3
  <2>2. Tells(Reached(p, k + 1), msg[w])'
    BY <1>1, <1>2, <1>4, <1>9 DEF Following, Tells
  <2>3. \A i \in Running' : Matches(scheduling[i], p, k + 1)'
    <3> SUFFICES ASSUME NEW i \in Running PROVE Matches(scheduling[i], p, k + 1)'
      BY <1>4 DEF Running
    <3>1. scheduling[i] \in Plan /\ Matches(scheduling[i], p, k)
      BY <1>1 DEF Following, Running, PlanInv, TypeOK
    <3>2. PICK x : x = scheduling[i]
      OBVIOUS
    <3>3. Matches(x, p, k + 1)'
      BY <1>2, <1>3, <1>6, <1>7, <3>1, <3>2, MatchesNext
    <3> QED BY <1>4, <3>2, <3>3 DEF Matches
  <2>4. Matches(sched[w], p, k + 1)'
    <3>1. Matches(SetStep(q, k + 1, "running"), p, k + 1)'
      BY <1>2, <1>3, <1>5, <1>6, <1>7, MatchesNext
    <3> QED BY <1>6, <3>1 DEF Matches
  <2>5. stage'[w] = "replace"
    BY <1>6
  <2> QED BY <2>1, <2>2, <2>3, <2>4, <2>5 DEF Following
<1> QED BY <1>10, <1>11, <1>12 DEF OnPath

-----------------------------------------------------------------------------
(* A plan that no crash of the planer broke                                *)

(* Every step but the last one ordered is done in the stored plan; and as  *)
(* long as the update of a service without replicas was not handled, the   *)
(* catalog has the version the step moves it from: its next update is news.*)
Begun(q, k) == \A n \in DOMAIN q.steps : n < k => q.steps[n].state = "done"
Ended(q) == \A n \in DOMAIN q.steps : q.steps[n].state = "done"

Steady(w, k) ==
    /\ stage[w] \in {"disable", "insert"} => k = 1
    /\ stage[w] \notin {"disable", "insert", "replace"} =>
          \A i \in Running : Begun(scheduling[i], k)
    /\ stage[w] \in {"step", "call"} => Begun(sched[w], k + 1)
    /\ stage[w] = "replace" =>
          Begun(sched[w], k) /\ (sched[w].state = "done" => Ended(sched[w]))
    /\ \A i \in DOMAIN scheduling : scheduling[i].state = "done" => Ended(scheduling[i])

Active(w) == Running # {} \/ stage[w] \in {"disable", "insert"}
Going(w) ==
    \/ stage[w] \in {"log", "continue", "step", "call"}
    \/ stage[w] = "replace" /\ sched[w].state = "done"
Awaits(w, p, k) ==
    k \in DOMAIN p.steps /\ docker[p.steps[k].service].mode = 0 =>
        /\ stage[w] = "log" => msg[w].finished
        /\ Active(w) /\ ~ Going(w) => catalog[p.steps[k].service].version = p.steps[k].from

Unbroken(w, p, k) == crashes = 0 => Steady(w, k) /\ Awaits(w, p, k)

-----------------------------------------------------------------------------
LEMMA ClusterKeeps ==
    ASSUME NEW w, NEW o, Single(w, o), ClusterOK(o), ClusterStep(o)
    PROVE  UNCHANGED planer /\ \A s \in Services : docker'[s].mode = docker[s].mode
<1>1. \A s, d : Changes(s, d) /\ d.mode = docker[s].mode =>
         \A t \in Services : docker'[t].mode = docker[t].mode
  BY DEF Changes, ClusterOK, DockerOK
<1>2. CASE Listen \/ Complete \/ ScalerRestart
  BY <1>2, ListenEffect, CompleteEffect, ScalerEffect
<1>3. CASE Update
  <2>1. PICK c \in Items(calls) :
           Changes(c.service, [docker[c.service] EXCEPT !.image = c.data.image])
    BY <1>3, UpdateEffect
  <2>2. [docker[c.service] EXCEPT !.image = c.data.image].mode = docker[c.service].mode
    BY <2>1 DEF Changes, ClusterOK, DockerOK, O!State
  <2> QED BY <1>1, <1>3, <2>1, <2>2, UpdateEffect
<1>4. CASE \E s \in Services : DeployByHand(s)
  BY <1>1, <1>4, DeployEffect
<1>5. CASE OverseerHandler(o)
  BY <1>5, TakenEffect, BootEffect, ReadEffect, SaveEffect, CheckEffect
  DEF OverseerHandler, dockerVars
<1>6. CASE \/ OverseerCrash(o)
           \/ DispatchUpdated(o) /\ (O!Dispatch(o) \/ O!PropagateConfig(o))
  BY <1>6, OverseerCrashEffect, DispatchEffect, PropagateEffect
  DEF dockerVars, OverseerCrash, DispatchUpdated
<1> QED BY <1>2, <1>3, <1>4, <1>5, <1>6 DEF ClusterStep

(* Any step that leaves the planer alone.                                  *)
LEMMA UnbrokenKept ==
    ASSUME NEW w, NEW p \in Plan, NEW k, Unbroken(w, p, k), UNCHANGED planer,
           \A s \in Services : docker'[s].mode = docker[s].mode
    PROVE  Unbroken(w, p, k)'
<1>1. UNCHANGED <<catalog, scheduling, stage, msg, sched, crashes>>
  BY DEF planer
<1>2. Running' = Running
  BY <1>1 DEF Running
<1>3. k \in DOMAIN p.steps => p.steps[k].service \in Services
  <2>1. p.steps \in Seq(Step)
    BY DEF Plan
  <2>2. k \in DOMAIN p.steps => p.steps[k] \in Step
    BY <2>1
  <2> QED BY <2>2 DEF Step
<1>4. Steady(w, k) => Steady(w, k)'
  BY <1>1, <1>2 DEF Steady, Begun, Ended
<1>5. Awaits(w, p, k) => Awaits(w, p, k)'
  BY <1>1, <1>2, <1>3 DEF Awaits, Active, Going
<1> QED BY <1>1, <1>4, <1>5 DEF Unbroken

(* A step of the planer outside of a plan.                                 *)
LEMMA UnbrokenStays ==
    ASSUME NEW w, NEW p, NEW k, Unbroken(w, p, k), crashes = 0,
           UNCHANGED <<docker, scheduling>>,
           k \in DOMAIN p.steps =>
              catalog'[p.steps[k].service].version = catalog[p.steps[k].service].version,
           {stage[w], stage'[w]} \cap
              {"disable", "insert", "replace", "log", "continue", "step", "call"} = {}
    PROVE  Unbroken(w, p, k)'
<1>1. Running' = Running
  BY DEF Running
<1>2. Steady(w, k) /\ Awaits(w, p, k)
  BY DEF Unbroken
<1>3. stage'[w] \notin {"disable", "insert", "replace", "log", "continue", "step", "call"}
      /\ stage[w] \notin {"disable", "insert", "replace", "log", "continue", "step", "call"}
  OBVIOUS
<1>4. Steady(w, k)'
  BY <1>1, <1>2, <1>3 DEF Steady, Begun, Ended
<1>5. Awaits(w, p, k)'
  BY <1>1, <1>2, <1>3 DEF Awaits, Active, Going
<1> QED BY <1>4, <1>5 DEF Unbroken

LEMMA NextExists ==
    ASSUME NEW q \in Plan, NEW s PROVE NextStep(q, s) = {} <=> WaitingElsewhere(q, s) = {}
<1>1. q.steps \in Seq(Step)
  BY DEF Plan
<1>2. WaitingElsewhere(q, s) \in SUBSET Nat
  BY <1>1 DEF WaitingElsewhere
<1>3. WaitingElsewhere(q, s) # {} => NextStep(q, s) # {}
  BY <1>2, LeastElement DEF NextStep
<1> QED BY <1>3 DEF NextStep

(* The update of step k finds exactly that step, and ends a plan only when *)
(* it is the last one.                                                     *)
LEMMA FindsStep ==
    ASSUME NEW p, NEW k, Path(p, k), NEW q \in Plan, Matches(q, p, k), Begun(q, k),
           k \in DOMAIN p.steps, NEW s, p.steps[k].service = s
    PROVE  /\ UpdatedStep(q, s) = {k}
           /\ Begun(SetStep(q, k, "done"), k + 1) /\ Begun(SetStep(q, k, "done"), k)
           /\ NextStep(q, s) = {} =>
                 LET r == [SetStep(q, k, "done") EXCEPT !.state = "done"]
                 IN Ended(r) /\ Begun(r, k)
<1>1. p.steps \in Seq(Step) /\ q.steps \in Seq(Step) /\ Len(q.steps) = Len(p.steps)
  BY DEF Path, Plan, Matches
<1>2. DOMAIN q.steps = DOMAIN p.steps /\ \A n \in DOMAIN q.steps : n \in Nat
  BY <1>1
<1>3. k \in DOMAIN q.steps /\ q.steps[k].service = s
      /\ \A n \in DOMAIN q.steps : q.steps[n].service = s => n = k
  BY <1>2 DEF Matches, Path, DistinctServices
<1>4. \A n \in WaitingElsewhere(q, s) : k < n
  BY <1>2, <1>3 DEF WaitingElsewhere, Begun
<1>5. \A n \in NextStep(q, s) : k < n
  BY <1>4 DEF NextStep
<1>6. UpdatedStep(q, s) = {k}
  BY <1>2, <1>3, <1>5 DEF UpdatedStep
<1>7. PICK r : r = SetStep(q, k, "done")
  OBVIOUS
<1>8. /\ r \in Plan /\ DOMAIN r.steps = DOMAIN q.steps
      /\ \A j \in DOMAIN q.steps : r.steps[j].state = IF j = k THEN "done" ELSE q.steps[j].state
  BY <1>3, <1>7, SetStepFacts DEF States
<1>9. Begun(r, k + 1) /\ Begun(r, k)
  BY <1>2, <1>3, <1>8 DEF Begun
<1>10. [r EXCEPT !.state = "done"].steps = r.steps
  BY <1>8 DEF Plan
<1>11. ASSUME NextStep(q, s) = {} PROVE Ended(r)
  <2>1. WaitingElsewhere(q, s) = {}
    BY <1>11, NextExists
  <2>2. \A n \in DOMAIN q.steps : n # k => ~ (n > k)
    BY <1>2, <1>3, <2>1 DEF WaitingElsewhere, Matches
  <2> QED BY <1>2, <1>3, <1>8, <2>2 DEF Ended, Begun
<1> QED BY <1>6, <1>7, <1>9, <1>10, <1>11 DEF Ended, Begun

-----------------------------------------------------------------------------
(* The steps of the planer within a plan                                   *)

LEMMA SavesUnbroken ==
    ASSUME NEW w, NEW o, Single(w, o), SystemInv(w, o), NEW p, NEW k, OnPath(w, o, p, k),
           Unbroken(w, p, k), crashes = 0, UNCHANGED docker, SaveService(w)
    PROVE  Unbroken(w, p, k)'
<1>1. PlanerInv(w) /\ SoloInv /\ Workers = {w} /\ Path(p, k) /\ Following(w, p, k)
      /\ Steady(w, k) /\ Awaits(w, p, k)
  BY DEF SystemInv, PlanerInv, OnPath, Single, Unbroken
<1> DEFINE s == msg[w].service
<1>2. /\ stage[w] = "save" /\ s \in Services /\ UNCHANGED scheduling
      /\ catalog' = [catalog EXCEPT ![s] = entry[w]]
      /\ catalog'[s].version = IF msg[w].kind = "deployed" THEN msg[w].version
                               ELSE catalog[s].version
      /\ \/ msg[w].kind = "deployed" /\ Goto(w, "log") /\ UNCHANGED <<msg, locals>>
         \/ msg[w].kind = "image" /\ Goto(w, "dispatch") /\ UNCHANGED <<msg, locals>>
         \/ msg[w].kind = "cleaned" /\ Finish(w)
  BY <1>1, SaveVersions
<1>3. CASE msg[w].kind = "deployed"
  <2>1. stage'[w] = "log" /\ msg' = msg
    BY <1>1, <1>2, <1>3, Moved1
  <2>2. Running' = Running
    BY <1>2 DEF Running
  <2>3. Steady(w, k)'
    BY <1>1, <1>2, <2>1, <2>2 DEF Steady, Begun, Ended
  <2>4. Attends(w, p, k) /\ Tells(Reached(p, k), msg[w])
    BY <1>1, <1>2, <1>3 DEF Following
  <2>5. Awaits(w, p, k)'
    BY <2>1, <2>4 DEF Awaits, Going, Attends, Tells
  <2> QED BY <2>3, <2>5 DEF Unbroken
<1>4. CASE msg[w].kind # "deployed"
  <2>1. \A t \in Services : catalog'[t].version = catalog[t].version
    BY <1>1, <1>2, <1>4 DEF SoloInv, PlanInv, TypeOK
  <2>2. stage'[w] \in {"dispatch", "idle"}
    BY <1>1, <1>2, <1>4, Moved1
  <2>3. k \in DOMAIN p.steps => p.steps[k].service \in Services
    <3>1. p.steps \in Seq(Step)
      BY <1>1 DEF Path, Plan
    <3>2. k \in DOMAIN p.steps => p.steps[k] \in Step
      BY <3>1
    <3> QED BY <3>2 DEF Step
  <2>4. k \in DOMAIN p.steps =>
           catalog'[p.steps[k].service].version = catalog[p.steps[k].service].version
    BY <2>1, <2>3
  <2> QED BY <1>2, <2>2, <2>4, UnbrokenStays
<1> QED BY <1>3, <1>4

LEMMA LogsUnbroken ==
    ASSUME NEW w, NEW o, Single(w, o), SystemInv(w, o), NEW p, NEW k, OnPath(w, o, p, k),
           Unbroken(w, p, k), crashes = 0, UNCHANGED docker, LogPhase(w)
    PROVE  Unbroken(w, p, k)'
<1>1. SoloInv /\ Workers = {w} /\ Steady(w, k) /\ Awaits(w, p, k)
  BY DEF SystemInv, PlanerInv, Single, Unbroken
<1>2. /\ stage[w] = "log" /\ UNCHANGED scheduling
      /\ stage'[w] = IF msg[w].finished THEN "continue" ELSE "idle"
  BY <1>1, Moved1 DEF LogPhase
<1>3. Running' = Running
  BY <1>2 DEF Running
<1>4. Steady(w, k)'
  BY <1>1, <1>2, <1>3 DEF Steady, Begun, Ended
<1>5. Awaits(w, p, k)'
  BY <1>1, <1>2 DEF Awaits, Going
<1> QED BY <1>4, <1>5 DEF Unbroken

LEMMA ContinuesUnbroken ==
    ASSUME NEW w, NEW o, Single(w, o), SystemInv(w, o), NEW p, NEW k, OnPath(w, o, p, k),
           Unbroken(w, p, k), crashes = 0, UNCHANGED docker, ContinuePlan(w)
    PROVE  Unbroken(w, p, k)'
<1>1. /\ PlanerInv(w) /\ SoloInv /\ Workers = {w} /\ Following(w, p, k) /\ Path(p, k)
      /\ scheduling \in Seq(Plan) /\ sched \in [{w} -> Plan] /\ Steady(w, k)
  BY DEF SystemInv, PlanerInv, OnPath, Single, SoloInv, PlanInv, TypeOK, Unbroken
<1>2. stage[w] = "continue" /\ UNCHANGED scheduling /\ Running' = Running
  BY DEF ContinuePlan, store, Running
<1>3. /\ \A i \in Running : Begun(scheduling[i], k)
      /\ \A i \in DOMAIN scheduling : scheduling[i].state = "done" => Ended(scheduling[i])
  BY <1>1, <1>2 DEF Steady
<1>4. CASE Running = {}
  <2>1. stage'[w] = "idle"
    BY <1>1, <1>4, Moved1 DEF ContinuePlan
  <2>2. Steady(w, k)'
    BY <1>2, <1>3, <1>4, <2>1 DEF Steady, Begun, Ended
  <2>3. Awaits(w, p, k)'
    BY <1>2, <1>4, <2>1 DEF Awaits, Active
  <2> QED BY <2>2, <2>3 DEF Unbroken
<1>5. CASE Running # {}
  <2> DEFINE s == msg[w].service
  <2>1. msg[w].kind = "deployed"
    BY <1>1, <1>2 DEF PlanerInv, PlanerOK, PlanerStages
  <2>2. k \in DOMAIN p.steps /\ p.steps[k].service = s
    BY <1>1, <1>2, <2>1 DEF Following, Attends
  <2>3. PICK i \in Running :
           \/ UpdatedStep(scheduling[i], s) = {}
           \/ \E u \in UpdatedStep(scheduling[i], s) :
                 \/ /\ NextStep(scheduling[i], s) = {}
                    /\ sched' = [sched EXCEPT ![w] = [SetStep(scheduling[i], u, "done")
                                                         EXCEPT !.state = "done"]]
                    /\ Goto(w, "replace")
                 \/ /\ NextStep(scheduling[i], s) # {}
                    /\ sched' = [sched EXCEPT ![w] = SetStep(scheduling[i], u, "done")]
                    /\ Goto(w, "step")
    BY <1>5 DEF ContinuePlan
  <2>4. PICK q : q = scheduling[i]
    OBVIOUS
  <2>5. q \in Plan /\ Matches(q, p, k) /\ Begun(q, k)
    BY <1>1, <1>2, <1>3, <2>4 DEF Following, Running
  <2>6. /\ UpdatedStep(q, s) = {k}
        /\ Begun(SetStep(q, k, "done"), k + 1)
        /\ NextStep(q, s) = {} =>
              LET r == [SetStep(q, k, "done") EXCEPT !.state = "done"]
              IN Ended(r) /\ Begun(r, k)
    BY <1>1, <2>2, <2>5, FindsStep
  <2>7. \/ /\ NextStep(q, s) = {}
           /\ sched' = [sched EXCEPT ![w] = [SetStep(q, k, "done") EXCEPT !.state = "done"]]
           /\ Goto(w, "replace")
        \/ /\ sched' = [sched EXCEPT ![w] = SetStep(q, k, "done")]
           /\ Goto(w, "step")
    BY <2>3, <2>4, <2>6
  <2>8. CASE /\ NextStep(q, s) = {}
             /\ sched' = [sched EXCEPT ![w] = [SetStep(q, k, "done") EXCEPT !.state = "done"]]
             /\ Goto(w, "replace")
    <3>1. PICK r : r = [SetStep(q, k, "done") EXCEPT !.state = "done"]
      OBVIOUS
    <3>2. Ended(r) /\ Begun(r, k) /\ sched'[w] = r /\ stage'[w] = "replace"
      BY <1>1, <2>6, <2>8, <3>1, Moved1
    <3>3. r.state = "done"
      <4>1. SetStep(q, k, "done").state = q.state /\ SetStep(q, k, "done") \in Plan
        <5>1. k \in DOMAIN q.steps
          <6>1. q.steps \in Seq(Step) /\ p.steps \in Seq(Step)
            BY <1>1, <2>5 DEF Path, Plan
          <6> QED BY <2>2, <2>5, <6>1 DEF Matches
        <5> QED BY <2>5, <5>1, SetStepFacts DEF States
      <4> QED BY <3>1, <4>1 DEF Plan
    <3>4. Steady(w, k)'
      BY <1>2, <1>3, <3>2 DEF Steady, Begun, Ended
    <3>5. Awaits(w, p, k)'
      BY <3>2, <3>3 DEF Awaits, Going
    <3> QED BY <3>4, <3>5 DEF Unbroken
  <2>9. CASE sched' = [sched EXCEPT ![w] = SetStep(q, k, "done")] /\ Goto(w, "step")
    <3>1. PICK r : r = SetStep(q, k, "done")
      OBVIOUS
    <3>2. Begun(r, k + 1) /\ sched'[w] = r /\ stage'[w] = "step"
      BY <1>1, <2>6, <2>9, <3>1, Moved1
    <3>3. Steady(w, k)'
      BY <1>2, <1>3, <3>2 DEF Steady, Begun, Ended
    <3>4. Awaits(w, p, k)'
      BY <3>2 DEF Awaits, Going
    <3> QED BY <3>3, <3>4 DEF Unbroken
  <2> QED BY <2>7, <2>8, <2>9
<1> QED BY <1>4, <1>5

(* The next step's version is still listed: the plan is not given up.      *)
LEMMA RunsUnbroken ==
    ASSUME NEW w, NEW o, Single(w, o), SystemInv(w, o), NEW p, NEW k, OnPath(w, o, p, k),
           Unbroken(w, p, k), crashes = 0, UNCHANGED docker, RunStep(w)
    PROVE  Unbroken(w, p, k)'
<1>1. SoloInv /\ PlanInv /\ Workers = {w} /\ Path(p, k) /\ Steady(w, k) /\ w \in Workers
  BY DEF SystemInv, PlanerInv, SoloInv, OnPath, Single, Unbroken
<1>2. UNCHANGED <<catalog, scheduling>> /\ Running' = Running
  BY DEF RunStep, store, Running
<1>3. CASE stage[w] = "first_step"
  <2>1. stage'[w] \in {"first_call", "idle"}
    BY <1>1, <1>3, Moved1 DEF RunStep
  <2> QED BY <1>2, <1>3, <2>1, UnbrokenStays
<1>4. CASE stage[w] = "step"
  <2>1. PICK n \in Launched(w) :
           LET st == sched[w].steps[n]
           IN st.to \in catalog[st.service].versions =>
                 Goto(w, "call") /\ UNCHANGED <<msg, locals>>
    BY <1>4 DEF RunStep
  <2>2. n \in DOMAIN p.steps /\ Matches(sched[w], p, k)
    BY <1>4, NextIsNext
  <2>3. sched[w].steps[n].to \in catalog[sched[w].steps[n].service].versions
    BY <1>1, <2>2 DEF Path, Matches
  <2>4. stage'[w] = "call" /\ sched' = sched
    BY <1>1, <2>1, <2>3, Moved1 DEF locals
  <2>5. Steady(w, k)'
    BY <1>1, <1>2, <1>4, <2>4 DEF Steady, Begun, Ended
  <2>6. Awaits(w, p, k)'
    BY <2>4 DEF Awaits, Going
  <2> QED BY <2>5, <2>6 DEF Unbroken
<1> QED BY <1>3, <1>4 DEF RunStep

LEMMA WritesUnbroken ==
    ASSUME NEW w, NEW o, Single(w, o), SystemInv(w, o), NEW p, NEW k, OnPath(w, o, p, k),
           Unbroken(w, p, k), crashes = 0, UNCHANGED docker,
           ReplacePlan(w) \/ DisableScheduled(w) \/ InsertPlan(w)
    PROVE  Unbroken(w, p, k)'
<1>1. /\ SoloInv /\ Workers = {w} /\ SoloHandler(w) /\ OneRunning
      /\ scheduling \in Seq(Plan) /\ Steady(w, k) /\ Awaits(w, p, k)
  BY DEF SystemInv, PlanerInv, Single, SoloInv, PlanInv, TypeOK, Unbroken
<1>2. UNCHANGED catalog
  BY DEF ReplacePlan, DisableScheduled, InsertPlan
<1>3. CASE ReplacePlan(w)
  <2>1. /\ stage[w] = "replace" /\ stage'[w] = "idle" /\ schedId[w] \in Running
        /\ scheduling' = [scheduling EXCEPT ![schedId[w]] = sched[w]]
    BY <1>1, <1>3, Moved1 DEF ReplacePlan, SoloHandler
  <2>2. /\ DOMAIN scheduling' = DOMAIN scheduling
        /\ \A i \in DOMAIN scheduling :
              scheduling'[i] = IF i = schedId[w] THEN sched[w] ELSE scheduling[i]
    BY <2>1
  <2>3. \A i \in Running' : i = schedId[w] /\ sched[w].state = "running"
    BY <1>1, <2>1, <2>2 DEF Running, OneRunning
  <2>4. Begun(sched[w], k) /\ (sched[w].state = "done" => Ended(sched[w]))
    BY <1>1, <2>1 DEF Steady
  <2>5. \A i \in Running' : Begun(scheduling'[i], k)
    BY <2>2, <2>3, <2>4 DEF Running
  <2>6. \A i \in DOMAIN scheduling' : scheduling'[i].state = "done" => Ended(scheduling'[i])
    BY <1>1, <2>2, <2>4 DEF Steady
  <2>7. Steady(w, k)'
    BY <2>1, <2>5, <2>6 DEF Steady, Begun, Ended
  <2>8. Awaits(w, p, k)'
    <3>1. Active(w)' => sched[w].state = "running"
      BY <2>1, <2>3 DEF Active
    <3>2. Active(w)' => Active(w) /\ ~ Going(w)
      BY <2>1, <3>1 DEF Active, Going
    <3> QED BY <1>1, <1>2, <2>1, <3>2 DEF Awaits
  <2> QED BY <2>7, <2>8 DEF Unbroken
<1>4. CASE DisableScheduled(w)
  <2>1. /\ stage[w] = "disable" /\ stage'[w] = "insert" /\ k = 1
    BY <1>1, <1>4, Moved1 DEF DisableScheduled, Steady
  <2>2. /\ DOMAIN scheduling' = DOMAIN scheduling
        /\ \A i \in DOMAIN scheduling :
              /\ scheduling'[i].steps = scheduling[i].steps
              /\ scheduling'[i].state = "done" => scheduling[i].state = "done"
    <3>1. /\ DOMAIN scheduling' = DOMAIN scheduling
          /\ \A i \in DOMAIN scheduling :
                scheduling'[i] = IF i \in Running THEN [scheduling[i] EXCEPT !.state = "aborded"]
                                 ELSE scheduling[i]
      BY <1>4 DEF DisableScheduled
    <3>2. \A x \in Plan : /\ [x EXCEPT !.state = "aborded"].steps = x.steps
                          /\ [x EXCEPT !.state = "aborded"].state = "aborded"
      BY DEF Plan
    <3>3. \A i \in DOMAIN scheduling : scheduling[i] \in Plan
      BY <1>1
    <3> QED BY <3>1, <3>2, <3>3
  <2>3. Steady(w, k)'
    BY <1>1, <2>1, <2>2 DEF Steady, Ended
  <2>4. Active(w) /\ ~ Going(w)
    BY <2>1 DEF Active, Going
  <2>5. Awaits(w, p, k)'
    BY <1>1, <1>2, <2>1, <2>4 DEF Awaits
  <2> QED BY <2>3, <2>5 DEF Unbroken
<1>5. CASE InsertPlan(w)
  <2>1. /\ stage[w] = "insert" /\ stage'[w] = "idle" /\ k = 1 /\ Running = {}
        /\ sched[w].state = "running"
        /\ scheduling' = Append(scheduling, sched[w])
    BY <1>1, <1>5, Moved1 DEF InsertPlan, Steady, SoloHandler, Lifecycle!JustLaunched
  <2>2. /\ DOMAIN scheduling' = DOMAIN scheduling \cup {Len(scheduling) + 1}
        /\ scheduling'[Len(scheduling) + 1] = sched[w]
        /\ \A i \in DOMAIN scheduling : scheduling'[i] = scheduling[i]
    BY <1>1, <2>1
  <2>3. Begun(sched[w], 1)
    <3>1. sched[w].steps \in Seq(Step)
      BY <1>1 DEF SoloInv, PlanInv, TypeOK, Plan
    <3> QED BY <3>1 DEF Begun
  <2>4. \A i \in Running' : Begun(scheduling'[i], k)
    BY <2>1, <2>2, <2>3 DEF Running
  <2>5. \A i \in DOMAIN scheduling' : scheduling'[i].state = "done" => Ended(scheduling'[i])
    BY <1>1, <2>1, <2>2 DEF Steady
  <2>6. Steady(w, k)'
    BY <2>1, <2>4, <2>5 DEF Steady, Begun, Ended
  <2>7. Active(w) /\ ~ Going(w)
    BY <2>1 DEF Active, Going
  <2>8. Awaits(w, p, k)'
    BY <1>1, <1>2, <2>1, <2>7 DEF Awaits
  <2> QED BY <2>6, <2>8 DEF Unbroken
<1> QED BY <1>3, <1>4, <1>5

LEMMA UnbrokenPlaner ==
    ASSUME NEW w, NEW o, Single(w, o), SystemInv(w, o), NEW p, NEW k, OnPath(w, o, p, k),
           Unbroken(w, p, k), PlanerMoves(w), ~ CallUpgrade(w)
    PROVE  Unbroken(w, p, k)'
<1>1. PlanerInv(w) /\ SoloInv /\ Workers = {w} /\ crashes \in Nat
  BY DEF SystemInv, PlanerInv, Single, SoloInv, PlanInv, TypeOK
<1>2. UNCHANGED docker
  BY PathGoes
<1>3. CASE PlanerCrash(w)
  BY <1>1, <1>3 DEF PlanerCrash, Crash, Unbroken
<1>4. CASE crashes # 0 /\ ~ PlanerCrash(w)
  <2>1. UNCHANGED crashes
    BY <1>4 DEF PlanerMoves, PlanerStep, TakeMail, TakeCheck, AskUpgrade, ReceiveCheck, Receive,
           Take, Work, ReadDeployed, ReadCleaned, ReadImage, ReadSanity, SaveService, LogPhase,
           DispatchNewVersion, ContinuePlan, RunStep, CallOverseer, ReplacePlan, Solve,
           SolveBestPhase, BuildSteps, DisableScheduled, InsertPlan
  <2> QED BY <1>4, <2>1 DEF Unbroken
<1> SUFFICES ASSUME crashes = 0, ~ PlanerCrash(w) PROVE Unbroken(w, p, k)'
  BY <1>3, <1>4
<1>5. CASE TakeMail(w) \/ TakeCheck(w) \/ AskUpgrade(w)
  <2>1. PICK m : Take(w, m)
    BY <1>5 DEF TakeMail, TakeCheck, AskUpgrade, ReceiveCheck, Receive
  <2>2. /\ stage[w] = "idle" /\ stage'[w] = FirstStage(m.kind) /\ msg'[w] = m
        /\ UNCHANGED <<catalog, scheduling>>
    BY <1>1, <2>1, Moved1 DEF Take, store, SoloInv, PlanInv, TypeOK
  <2>3. m.kind \in {"deployed", "image", "cleaned", "check", "upgrade"}
    <3>1. CASE TakeMail(w)
      <4>1. ClusterOK(o) /\ msg'[w].kind = "deployed"
        BY <1>1, <3>1, MailTaken DEF SystemInv
      <4> QED BY <2>2, <4>1
    <3>2. CASE AskUpgrade(w)
      BY <2>2, <3>2 DEF AskUpgrade
    <3>3. CASE TakeCheck(w)
      <4>1. msg'[w] = AnyMessage("check")
        BY <1>1, <3>3 DEF TakeCheck, ReceiveCheck, Take, SoloInv, PlanInv, TypeOK
      <4> QED BY <2>2, <4>1 DEF AnyMessage
    <3> QED BY <1>5, <3>1, <3>2, <3>3
  <2>4. stage'[w] \in {"read", "solve"}
    BY <2>2, <2>3 DEF FirstStage
  <2> QED BY <1>2, <2>2, <2>4, UnbrokenStays
<1>6. CASE PlanerStep(w)
  <2>1. ~ CallOverseer(w)
    BY <1>6 DEF PlanerStep, CallOverseer
  <2>2. CASE ReadDeployed(w) \/ ReadCleaned(w) \/ ReadImage(w) \/ ReadSanity(w)
    <3>1. /\ stage[w] = "read" /\ UNCHANGED <<catalog, scheduling>>
          /\ stage'[w] \in {"idle", "save"}
      BY <1>1, <2>2, ReadVersions, Moved1 DEF store
    <3> QED BY <1>2, <3>1, UnbrokenStays
  <2>3. CASE DispatchNewVersion(w) \/ Solve(w) \/ SolveBestPhase(w) \/ BuildSteps(w)
    <3>1. /\ UNCHANGED <<catalog, scheduling>>
          /\ stage[w] \in {"dispatch", "solve", "best", "build"}
          /\ Finish(w) \/ Goto(w, "best") \/ Goto(w, "build") \/ Goto(w, "first_step")
      BY <2>3 DEF DispatchNewVersion, Solve, SolveBestPhase, BuildSteps, store
    <3>2. stage'[w] \in {"idle", "best", "build", "first_step"}
      BY <1>1, <3>1, Moved1
    <3> QED BY <1>2, <3>1, <3>2, UnbrokenStays
  <2> QED
    BY <1>2, <1>6, <2>1, <2>2, <2>3, SavesUnbroken, LogsUnbroken, ContinuesUnbroken,
       RunsUnbroken, WritesUnbroken DEF PlanerStep, Work
<1> QED BY <1>5, <1>6 DEF PlanerMoves

(* An order goes to the overseer.                                          *)
LEMMA UnbrokenNext ==
    ASSUME NEW w, NEW o, Single(w, o), SystemInv(w, o), NEW p, NEW k, OnPath(w, o, p, k),
           Unbroken(w, p, k), CallUpgrade(w), stage[w] = "call"
    PROVE  Unbroken(w, p, k + 1)'
<1>1. /\ ClusterOK(o) /\ PlanInv /\ Workers = {w} /\ w \in Workers /\ Following(w, p, k)
  BY DEF SystemInv, PlanerInv, SoloInv, Single, OnPath
<1>2. UNCHANGED <<docker, catalog, scheduling, crashes>>
  BY <1>1, CallEffect DEF store
<1> SUFFICES ASSUME crashes = 0 PROVE Steady(w, k + 1)' /\ Awaits(w, p, k + 1)'
  BY <1>2 DEF Unbroken
<1>3. PICK q : q = sched[w]
  OBVIOUS
<1>4. PICK n \in Launched(w) :
         /\ n \in DOMAIN q.steps /\ q \in Plan
         /\ sched'[w] = SetStep(q, n, "running") /\ stage'[w] = "replace"
  <2>1. calls = << >>
    <3>1. PICK n \in Launched(w) : TRUE
      BY <1>1, CallEffect
    <3> QED BY <3>1, NextIsNext DEF Attends
  <2> QED BY <1>3, <2>1, OrderTaken
<1>5. n = k + 1 /\ n \in DOMAIN p.steps /\ k \in Nat
  BY NextIsNext
<1>6. PICK r : r = SetStep(q, n, "running")
  OBVIOUS
<1>7. /\ r.state = q.state /\ DOMAIN r.steps = DOMAIN q.steps
      /\ \A j \in DOMAIN q.steps :
            r.steps[j].state = IF j = n THEN "running" ELSE q.steps[j].state
  BY <1>4, <1>6, SetStepFacts DEF States
<1>8. q.state = "running"
  BY <1>1, <1>3 DEF PlanInv, HandlersPlans, HandlerPlan, Continuing
<1>9. Begun(q, k + 1)
  BY <1>3 DEF Unbroken, Steady
<1>10. Begun(r, k + 1)
  <2>1. q.steps \in Seq(Step)
    BY <1>4 DEF Plan
  <2> QED BY <1>5, <1>7, <1>9, <2>1 DEF Begun
<1>11. Steady(w, k + 1)'
  BY <1>2, <1>4, <1>6, <1>7, <1>8, <1>10 DEF Unbroken, Steady, Begun, Ended
<1>12. catalog[p.steps[k + 1].service].version = p.steps[k + 1].from
  <2>1. Catching(p, k)
    BY <1>1 DEF Following
  <2>2. n > k /\ ~ (n < k)
    BY <1>5
  <2>3. catalog[p.steps[n].service].version \in {p.steps[n].from}
    BY <1>5, <2>1, <2>2 DEF Catching
  <2> QED BY <1>5, <2>3
<1>13. Awaits(w, p, k + 1)'
  BY <1>2, <1>4, <1>12 DEF Awaits
<1> QED BY <1>11, <1>13

LEMMA UnbrokenFirst ==
    ASSUME NEW w, NEW o, Single(w, o), SystemInv(w, o), Ready(w),
           NEW x, NEW y, Unbroken(w, x, y),
           CallUpgrade(w), stage[w] = "first_call", NEW p, p = sched[w]
    PROVE  Unbroken(w, p, 1)'
<1>1. /\ ClusterOK(o) /\ PlanInv /\ Workers = {w} /\ w \in Workers /\ InStep /\ Path(p, 0)
  BY DEF SystemInv, PlanerInv, SoloInv, Single, Ready
<1>2. UNCHANGED <<docker, catalog, scheduling, crashes>>
  BY <1>1, CallEffect DEF store
<1>3. stage'[w] = "disable"
  BY <1>1, CallEffect DEF PlanInv, TypeOK
<1> SUFFICES ASSUME crashes = 0 PROVE Steady(w, 1)' /\ Awaits(w, p, 1)'
  BY <1>2 DEF Unbroken
<1>4. Steady(w, 1)'
  BY <1>2, <1>3 DEF Unbroken, Steady, Ended
<1>5. 1 \in DOMAIN p.steps => catalog[p.steps[1].service].version = p.steps[1].from
  <2>1. \A s \in Services : catalog[s].version = docker[s].image
    BY <1>1 DEF InStep
  <2>2. p.steps \in Seq(Step)
    BY <1>1 DEF Path, Plan
  <2>3. 1 \in DOMAIN p.steps => p.steps[1] \in Step
    BY <2>2
  <2>4. ~ Over(0, 1)
    BY DEF Over
  <2> QED BY <1>1, <2>1, <2>3, <2>4 DEF Path, Step
<1>6. Awaits(w, p, 1)'
  BY <1>2, <1>3, <1>5 DEF Awaits
<1> QED BY <1>4, <1>6

-----------------------------------------------------------------------------
(* The invariant of the path                                               *)

RollInv(w, o) ==
    /\ SystemInv(w, o)
    /\ Undisturbed =>
          Ready(w) /\ \E p \in Plan, k \in Nat : OnPath(w, o, p, k) /\ Unbroken(w, p, k)

LEMMA RollInit ==
    ASSUME NEW w, NEW o, Single(w, o) PROVE SystemInit => RollInv(w, o)
<1> SUFFICES ASSUME SystemInit PROVE RollInv(w, o)
  OBVIOUS
<1>1. SystemInv(w, o)
  BY SystemInvInit
<1>2. NoPlan \in Plan /\ NoPlan.steps = << >> /\ DOMAIN NoPlan.steps = {} /\ Len(NoPlan.steps) = 0
  BY Neutral DEF NoPlan
<1>3. /\ stage[w] = "idle" /\ msg[w].kind = "check" /\ scheduling = << >> /\ calls = << >>
      /\ updating = {} /\ events = << >> /\ mail = << >> /\ outdated = {}
      /\ queues["updated"] = << >> /\ queues["own"] = << >>
      /\ omsg[o].kind = "boot"
  BY NoMessageKind, OverseerNeutral DEF SystemInit, Init, O!InitWith, O!Handlers, Single
<1>4. Path(NoPlan, 0)
  BY <1>2, <1>3 DEF Path, DistinctServices, Ordered, PathExplained
<1>5. Truthful(o, Reached(NoPlan, 0))
  BY <1>3, Emptied DEF Truthful, Told, Queued, Mailed
<1>6. Following(w, NoPlan, 0)
  BY <1>2, <1>3 DEF Following, Catching, Running
<1>7. Ready(w)
  BY <1>3 DEF Ready
<1>8. Unbroken(w, NoPlan, 0)
  BY <1>2, <1>3 DEF Unbroken, Steady, Awaits, Running
<1> QED BY <1>1, <1>2, <1>4, <1>5, <1>6, <1>7, <1>8 DEF RollInv, OnPath

LEMMA InterferenceGrows ==
    ASSUME NEW w, NEW o, Single(w, o), ClusterOK(o),
           ClusterStep(o) \/ PlanerMoves(w) \/ UNCHANGED systemVars
    PROVE  interference \subseteq interference'
<1>1. CASE Listen \/ Update \/ Complete \/ ScalerRestart
  BY <1>1, ListenEffect, UpdateEffect, CompleteEffect, ScalerEffect DEF history
<1>2. CASE \E s \in Services : DeployByHand(s)
  BY <1>2, DeployEffect
<1>3. CASE OverseerHandler(o) \/ OverseerCrash(o) \/ DispatchUpdated(o)
  BY <1>3 DEF OverseerHandler, OverseerCrash, DispatchUpdated, history
<1>4. CASE PlanerMoves(w)
  BY <1>4 DEF PlanerMoves, PlanerStep, CallUpgrade, TakeMail, TakeCheck, AskUpgrade,
              PlanerCrash, history
<1>5. CASE UNCHANGED systemVars
  BY <1>5 DEF systemVars, history
<1> QED BY <1>1, <1>2, <1>3, <1>4, <1>5 DEF ClusterStep

LEMMA OnPathStays ==
    ASSUME NEW w, NEW o, NEW p, NEW k, OnPath(w, o, p, k), UNCHANGED systemVars
    PROVE  OnPath(w, o, p, k)'
<1>1. /\ UNCHANGED <<planer, docker, updating, events, calls, docs, queues, omsg, mail, outdated>>
      /\ UNCHANGED catalog
  BY DEF systemVars, overseer, history, planer
<1>2. Path(p, k) /\ Truthful(o, Reached(p, k)) /\ Following(w, p, k) /\ p \in Plan /\ k \in Nat
  BY DEF OnPath, Path
<1>3. Path(p, k)' /\ Reached(p, k)' = Reached(p, k)
  BY <1>1, <1>2, PathKept
<1>4. PICK R : R = Reached(p, k)
  OBVIOUS
<1>5. Truthful(o, R)'
  BY <1>1, <1>2, <1>4, TruthfulKept DEF Truthful
<1>6. Following(w, p, k)'
  BY <1>1, <1>2, FollowingKept
<1> QED BY <1>3, <1>4, <1>5, <1>6 DEF OnPath

LEMMA ReadyStays ==
    ASSUME NEW w, Ready(w), UNCHANGED systemVars PROVE Ready(w)'
<1>1. UNCHANGED <<docker, catalog, calls, stage, sched>>
  BY DEF systemVars, overseer, planer
<1> SUFFICES ASSUME stage[w] \in {"first_step", "first_call"}
             PROVE  InStep' /\ Path(sched[w], 0)'
  BY <1>1 DEF Ready
<1>2. InStep /\ Path(sched[w], 0)
  BY DEF Ready
<1>3. InStep'
  BY <1>2 DEF InStep, O!Settled, systemVars, overseer, planer
<1>4. PICK q : q = sched[w]
  OBVIOUS
<1>5. Path(q, 0)'
  BY <1>1, <1>2, <1>4, PathKept
<1>6. sched'[w] = q
  BY <1>1, <1>4
<1> QED BY <1>3, <1>5, <1>6 DEF Path, Ordered, Over, PathExplained, Between, DistinctServices

LEMMA RollNext ==
    ASSUME NEW w, NEW o, Single(w, o)
    PROVE  RollInv(w, o) /\ [SystemNext]_systemVars => RollInv(w, o)'
<1> SUFFICES ASSUME RollInv(w, o), [SystemNext]_systemVars PROVE RollInv(w, o)'
  OBVIOUS
<1>1. SystemInv(w, o) /\ SystemInv(w, o)' /\ ClusterOK(o) /\ PlanInv
  BY SystemInvNext DEF RollInv, SystemInv, PlanerInv, SoloInv
<1>2. ClusterStep(o) \/ PlanerMoves(w) \/ UNCHANGED systemVars
  BY <1>1, SystemSteps
<1> SUFFICES ASSUME interference' = {}
             PROVE  /\ Ready(w)'
                    /\ \E p \in Plan, k \in Nat : (OnPath(w, o, p, k) /\ Unbroken(w, p, k))'
  BY <1>1 DEF RollInv, Undisturbed
<1>3. interference = {}
  BY <1>1, <1>2, InterferenceGrows
<1>4. PICK p \in Plan, k \in Nat : OnPath(w, o, p, k) /\ Unbroken(w, p, k)
  BY <1>3 DEF RollInv, Undisturbed
<1>5. Ready(w)
  BY <1>3 DEF RollInv, Undisturbed
<1>6. CASE ClusterStep(o)
  <2>1. OnPath(w, o, p, k)' /\ Ready(w)'
    BY <1>1, <1>4, <1>5, <1>6, OnPathCluster, ReadyCluster
  <2>2. Unbroken(w, p, k)'
    BY <1>1, <1>4, <1>6, ClusterKeeps, UnbrokenKept
  <2> QED BY <2>1, <2>2
<1>7. CASE PlanerMoves(w)
  <2>1. Ready(w)'
    BY <1>1, <1>3, <1>5, <1>7, ReadyPlaner
  <2>2. CASE ~ CallUpgrade(w)
    <3>1. OnPath(w, o, p, k)'
      BY <1>1, <1>4, <1>7, <2>2, OnPathPlaner
    <3>2. Unbroken(w, p, k)'
      BY <1>1, <1>4, <1>7, <2>2, UnbrokenPlaner
    <3> QED BY <2>1, <3>1, <3>2
  <2>3. CASE CallUpgrade(w) /\ stage[w] = "call"
    <3>1. OnPath(w, o, p, k + 1)' /\ k + 1 \in Nat
      BY <1>1, <1>4, <2>3, OnPathNext
    <3>2. Unbroken(w, p, k + 1)'
      BY <1>1, <1>4, <2>3, UnbrokenNext
    <3> QED BY <2>1, <3>1, <3>2
  <2>4. CASE CallUpgrade(w) /\ stage[w] = "first_call"
    <3>1. PICK q : q = sched[w]
      OBVIOUS
    <3>2. outdated = {}
      BY <1>4 DEF OnPath, Truthful
    <3>3. OnPath(w, o, q, 1)'
      BY <1>1, <1>5, <2>4, <3>1, <3>2, OnPathFirst
    <3>4. q \in Plan
      BY <1>1, <3>1 DEF PlanInv, TypeOK, Single
    <3>5. Unbroken(w, q, 1)'
      BY <1>1, <1>4, <1>5, <2>4, <3>1, UnbrokenFirst
    <3> QED BY <2>1, <3>3, <3>4, <3>5
  <2> QED BY <2>2, <2>3, <2>4 DEF CallUpgrade, CallOverseer
<1>8. CASE UNCHANGED systemVars
  <2>1. OnPath(w, o, p, k)' /\ Ready(w)'
    BY <1>4, <1>5, <1>8, OnPathStays, ReadyStays
  <2>2. Unbroken(w, p, k)'
    BY <1>4, <1>8, UnbrokenKept DEF systemVars, overseer
  <2> QED BY <2>1, <2>2
<1> QED BY <1>2, <1>6, <1>7, <1>8

-----------------------------------------------------------------------------
(* Upgrades are rolling                                                    *)

LEMMA RollingInit ==
    ASSUME NEW w, NEW o, Single(w, o) PROVE SystemInit => Rolling!Init
<1> SUFFICES ASSUME SystemInit PROVE Rolling!Init
  OBVIOUS
<1>1. docker \in [Services -> O!State]
  BY SystemInvInit DEF SystemInv, ClusterOK, DockerOK
<1>2. \A s \in Services : docker[s].image \in Versions
  BY <1>1 DEF O!State
<1>3. [s \in Services |-> docker[s].image] \in [Services -> Versions]
  BY <1>2
<1>4. ~ Undisturbed = FALSE
  BY DEF SystemInit, Undisturbed
<1> QED BY <1>3, <1>4 DEF Rolling!Init

(* A change of one service moves one service.                              *)
LEMMA ChangeMoves ==
    ASSUME NEW o, ClusterOK(o), NEW s, NEW d, Changes(s, d) PROVE Rolling!MoveOne
<1>1. s \in Services /\ d.image \in Versions /\ docker' = [docker EXCEPT ![s] = d]
      /\ docker \in [Services -> O!State]
  BY DEF Changes, ClusterOK, DockerOK, O!State
<1>2. [t \in Services |-> docker'[t].image] =
         [[t \in Services |-> docker[t].image] EXCEPT ![s] = d.image]
  BY <1>1
<1> QED BY <1>1, <1>2 DEF Rolling!MoveOne

(* What runs when docker has taken the order of step k is between the      *)
(* steps k and k + 1 of the plan.                                          *)
LEMMA UpdateExplained ==
    ASSUME NEW w, NEW o, SystemInv(w, o), NEW p, NEW k, Path(p, k), Update
    PROVE  [s \in Services |-> docker'[s].image] \in Explained
<1>1. PICK f : f = [s \in Services |-> docker'[s].image]
  OBVIOUS
<1>2. /\ k \in DOMAIN p.steps /\ p.steps[k] \in Step
      /\ Changes(p.steps[k].service, [docker[p.steps[k].service] EXCEPT !.image = p.steps[k].to])
      /\ calls' = << >>
  BY PathUpdate
<1>3. /\ p.steps \in Seq(Step) /\ k \in Nat
      /\ \A n \in DOMAIN p.steps : n \in Nat /\ n >= 1 /\ p.steps[n] \in Step
  <2>1. p.steps \in Seq(Step) /\ k \in Nat
    BY DEF Path, Plan
  <2> QED BY <2>1
<1>4. ClusterOK(o)' \/ docker' \in [Services -> O!State]
  BY <1>2 DEF Changes, SystemInv, ClusterOK, DockerOK
<1>5. f \in [Services -> Versions]
  <2>1. docker' \in [Services -> O!State]
    BY <1>4 DEF ClusterOK, DockerOK
  <2>2. \A s \in Services : docker'[s].image \in Versions
    BY <2>1 DEF O!State
  <2> QED BY <1>1, <2>2
<1>6. \A i \in DOMAIN p.steps :
         f[p.steps[i].service] = IF i <= k THEN p.steps[i].to ELSE p.steps[i].from
  <2>1. Path(p, k)'
    BY PathUpdated
  <2> SUFFICES ASSUME NEW i \in DOMAIN p.steps
               PROVE  f[p.steps[i].service] = IF i <= k THEN p.steps[i].to ELSE p.steps[i].from
    OBVIOUS
  <2>2. docker'[p.steps[i].service].image =
           IF Over(k, i)' THEN p.steps[i].to ELSE p.steps[i].from
    BY <2>1 DEF Path
  <2>3. Over(k, i)' <=> i <= k
    BY <1>2, <1>3 DEF Over
  <2>4. p.steps[i].service \in Services
    BY <1>3 DEF Step
  <2> QED BY <1>1, <2>2, <2>3, <2>4
<1>7. ASSUME NEW s \in Services, \A i \in DOMAIN p.steps : p.steps[i].service # s
      PROVE  f[s] = docker[s].image
  BY <1>1, <1>2, <1>7 DEF Changes, SystemInv, ClusterOK, DockerOK
<1>8. Between(p, k, f)
  BY <1>6, <1>7 DEF Between
<1> QED BY <1>1, <1>2, <1>5, <1>8 DEF Path, PathExplained

LEMMA RollingNext ==
    ASSUME NEW w, NEW o, Single(w, o), RollInv(w, o), [SystemNext]_systemVars
    PROVE  [Rolling!Next]_<<[s \in Services |-> docker[s].image], ~ Undisturbed>>
<1> DEFINE running == [s \in Services |-> docker[s].image]
<1>1. SystemInv(w, o) /\ ClusterOK(o)
  BY DEF RollInv, SystemInv
<1>2. ClusterStep(o) \/ PlanerMoves(w) \/ UNCHANGED systemVars
  BY <1>1, SystemSteps
<1>3. interference \subseteq interference'
  BY <1>1, <1>2, InterferenceGrows
<1>4. CASE UNCHANGED docker
  <2>1. UNCHANGED running
    BY <1>4
  <2>2. CASE Undisturbed'
    <3>1. Undisturbed
      BY <1>3, <2>2 DEF Undisturbed
    <3> QED BY <2>1, <2>2, <3>1
  <2>3. CASE ~ Undisturbed'
    BY <2>1, <2>3 DEF Rolling!Next, Rolling!Disturb
  <2> QED BY <2>2, <2>3
<1>5. CASE \E s \in Services : DeployByHand(s)
  <2>1. Rolling!MoveOne
    BY <1>1, <1>5, DeployEffect, ChangeMoves
  <2>2. ~ Undisturbed'
    BY <1>1, <1>5, DeployEffect DEF Undisturbed
  <2> QED BY <2>1, <2>2 DEF Rolling!Next, Rolling!Disturb
<1>6. CASE Update
  <2>1. Rolling!MoveOne
    BY <1>1, <1>6, UpdateEffect, ChangeMoves
  <2>2. Undisturbed' = Undisturbed
    BY <1>1, <1>6, UpdateEffect DEF history, Undisturbed
  <2>3. Undisturbed => running' \in Explained
    <3> SUFFICES ASSUME Undisturbed PROVE running' \in Explained
      OBVIOUS
    <3>1. PICK p \in Plan, k \in Nat : OnPath(w, o, p, k)
      BY DEF RollInv
    <3> QED BY <1>1, <1>6, <3>1, UpdateExplained DEF OnPath
  <2> QED BY <2>1, <2>2, <2>3 DEF Rolling!Next, Rolling!Upgrade
<1>7. CASE Listen \/ Complete \/ ScalerRestart
  BY <1>1, <1>4, <1>7, ListenEffect, CompleteEffect, ScalerEffect
<1>8. CASE OverseerHandler(o)
  BY <1>1, <1>4, <1>8, TakenEffect, BootEffect, ReadEffect, SaveEffect, CheckEffect
  DEF OverseerHandler, dockerVars
<1>9. CASE \/ OverseerCrash(o)
           \/ DispatchUpdated(o) /\ (O!Dispatch(o) \/ O!PropagateConfig(o))
  BY <1>1, <1>4, <1>9, OverseerCrashEffect, DispatchEffect, PropagateEffect DEF dockerVars
<1>10. CASE PlanerMoves(w)
  BY <1>4, <1>10 DEF PlanerMoves, PlanerStep, CallUpgrade, TakeMail, TakeCheck, AskUpgrade,
                     PlanerCrash, overseer
<1>11. CASE UNCHANGED systemVars
  BY <1>4, <1>11 DEF systemVars, overseer
<1> QED BY <1>2, <1>5, <1>6, <1>7, <1>8, <1>9, <1>10, <1>11 DEF ClusterStep

(* With a single worker of each service, upgrades are rolling: from any    *)
(* initial versions, with any solver, whatever crashes and restarts, and   *)
(* whatever is lost of the events of docker, the versions that run change  *)
(* one service at a time through mixes that the solver has explained,      *)
(* until somebody deploys by hand, makes a plan while the cluster still    *)
(* moves, or a plan is lost with its first step launched.                  *)
THEOREM UpgradesRoll ==
    ASSUME NEW w, NEW o, Single(w, o) PROVE SystemSpec => UpgradesAreRolling
<1>1. SystemInit => Rolling!Init
  BY RollingInit
<1>2. RollInv(w, o) /\ [SystemNext]_systemVars
         => [Rolling!Next]_<<[s \in Services |-> docker[s].image], ~ Undisturbed>>
  BY RollingNext
<1> QED BY <1>1, <1>2, RollInit, RollNext, PTL
        DEF SystemSpec, UpgradesAreRolling, Rolling!Spec

(* A step that a handler writes as done was ordered, and docker has it.    *)
LEMMA DoneDeployed ==
    ASSUME NEW w, NEW o, Single(w, o), RollInv(w, o), [SystemNext]_systemVars, Undisturbed,
           NEW i \in DOMAIN scheduling, NEW n \in DOMAIN scheduling[i].steps,
           ~ DoneStep(i, n), DoneStep(i, n)'
    PROVE  docker[scheduling[i].steps[n].service].image = scheduling[i].steps[n].to
<1>1. SystemInv(w, o) /\ ClusterOK(o) /\ SoloInv /\ scheduling \in Seq(Plan) /\ SoloHandler(w)
  BY DEF RollInv, SystemInv, PlanerInv, SoloInv, PlanInv, TypeOK, Single
<1>2. ClusterStep(o) \/ PlanerMoves(w) \/ UNCHANGED systemVars
  BY <1>1, SystemSteps
<1>3. ~ (UNCHANGED scheduling)
  BY DEF DoneStep
<1>4. ~ (scheduling'[i].steps = scheduling[i].steps)
  BY DEF DoneStep
<1>5. ReplacePlan(w)
  <2>1. ~ ClusterStep(o)
    <3>1. ClusterStep(o) => UNCHANGED planer
      BY <1>1, ClusterKeeps
    <3> QED BY <1>3, <3>1 DEF planer
  <2>2. ~ UNCHANGED systemVars
    BY <1>3 DEF systemVars, planer
  <2>3. PlanerStep(w)
    BY <1>2, <1>3, <2>1, <2>2
    DEF PlanerMoves, CallUpgrade, CallOverseer, TakeMail, TakeCheck, AskUpgrade, PlanerCrash,
        ReceiveCheck, Receive, Take, Crash, store
  <2>4. ReplacePlan(w) \/ DisableScheduled(w) \/ InsertPlan(w)
    BY <1>3, <2>3
    DEF PlanerStep, Work, ReadDeployed, ReadCleaned, ReadImage, ReadSanity, SaveService,
        LogPhase, DispatchNewVersion, ContinuePlan, RunStep, CallOverseer, Solve,
        SolveBestPhase, BuildSteps, store
  <2>5. ~ DisableScheduled(w)
    <3> SUFFICES ASSUME DisableScheduled(w) PROVE FALSE
      OBVIOUS
    <3>1. scheduling'[i] = IF i \in Running THEN [scheduling[i] EXCEPT !.state = "aborded"]
                           ELSE scheduling[i]
      BY DEF DisableScheduled
    <3>2. scheduling[i] \in Plan
      BY <1>1
    <3> QED BY <1>4, <3>1, <3>2 DEF Plan
  <2>6. ~ InsertPlan(w)
    BY <1>1, <1>4 DEF InsertPlan
  <2> QED BY <2>4, <2>5, <2>6
<1>6. /\ stage[w] = "replace" /\ schedId[w] \in Running
      /\ scheduling' = [scheduling EXCEPT ![schedId[w]] = sched[w]]
  BY <1>1, <1>5 DEF ReplacePlan, SoloHandler
<1>7. i = schedId[w] /\ i \in Running /\ scheduling'[i] = sched[w]
  BY <1>1, <1>4, <1>6
<1>8. n \in DOMAIN sched[w].steps /\ sched[w].steps[n].state = "done"
  BY <1>7 DEF DoneStep
<1>9. PICK p \in Plan, k \in Nat : OnPath(w, o, p, k)
  BY DEF RollInv
<1>10. /\ Matches(sched[w], p, k) /\ Matches(scheduling[i], p, k) /\ Path(p, k)
  BY <1>6, <1>7, <1>9 DEF OnPath, Following
<1>11. n \in DOMAIN p.steps
  <2>1. scheduling[i] \in Plan
    BY <1>1
  <2>2. scheduling[i].steps \in Seq(Step) /\ p.steps \in Seq(Step)
    BY <2>1 DEF Plan
  <2> QED BY <1>10, <2>2 DEF Matches
<1>12. Over(k, n)
  BY <1>8, <1>10, <1>11 DEF Matches
<1>13. docker[p.steps[n].service].image = p.steps[n].to
  BY <1>10, <1>11, <1>12 DEF Path
<1> QED BY <1>10, <1>11, <1>13 DEF Matches

(* With a single worker of each service, an undisturbed plan finds a step  *)
(* done only when docker runs its version: no event of another step, of    *)
(* another plan or of an older image is ever taken for the end of a step,  *)
(* whatever crashes and restarts.                                          *)
THEOREM DoneStepsAreDeployed ==
    ASSUME NEW w, NEW o, Single(w, o) PROVE SystemSpec => DoneStepsDeployed
<1>1. RollInv(w, o) /\ [SystemNext]_systemVars =>
         [Undisturbed => \A i \in DOMAIN scheduling : \A n \in DOMAIN scheduling[i].steps :
             ~DoneStep(i, n) /\ DoneStep(i, n)' =>
                 LET st == scheduling[i].steps[n]
                 IN docker[st.service].image = st.to]_systemVars
  BY DoneDeployed
<1> QED BY <1>1, RollInit, RollNext, PTL DEF SystemSpec, DoneStepsDeployed

-----------------------------------------------------------------------------
(* Plans that nothing broke                                                *)

LEMMA DoneComplete ==
    ASSUME NEW w, NEW o, RollInv(w, o) PROVE DonePlansComplete
<1> SUFFICES ASSUME Undisturbed, crashes = 0, NEW i \in DOMAIN scheduling,
                    scheduling[i].state = "done", NEW n \in DOMAIN scheduling[i].steps
             PROVE  scheduling[i].steps[n].state = "done"
  BY DEF DonePlansComplete
<1>1. PICK p \in Plan, k \in Nat : Unbroken(w, p, k)
  BY DEF RollInv
<1>2. Ended(scheduling[i])
  BY <1>1 DEF Unbroken, Steady
<1> QED BY <1>2 DEF Ended

(* With a single worker of each service, a plan is done only when each of  *)
(* its steps is, if it was not disturbed and the planer did not crash.     *)
THEOREM PlansDoneCompletely ==
    ASSUME NEW w, NEW o, Single(w, o) PROVE SystemSpec => []DonePlansComplete
<1>1. RollInv(w, o) => DonePlansComplete
  BY DoneComplete
<1> QED BY <1>1, RollInit, RollNext, PTL DEF SystemSpec

(* The step that runs is the last one ordered; its update is still news    *)
(* for the catalog, which cannot be when everything was handled.           *)
LEMMA NoEmptyStep ==
    ASSUME NEW w, NEW o, Single(w, o), RollInv(w, o), FollowInv(w, o) PROVE EmptyStepsEnd
<1> SUFFICES ASSUME Settled, NothingFailed, Undisturbed, NEW s \in Services,
                    Deployed(s), docker[s].mode = 0
             PROVE  FALSE
  BY DEF EmptyStepsEnd
<1>1. /\ stage[w] = "idle" /\ crashes = 0 /\ restarts = 0 /\ missed = {}
      /\ ClusterOK(o) /\ scheduling \in Seq(Plan)
  BY DEF Settled, NothingFailed, Single, RollInv, SystemInv, PlanerInv, SoloInv, PlanInv, TypeOK
<1>2. PICK p \in Plan, k \in Nat : OnPath(w, o, p, k) /\ Unbroken(w, p, k)
  BY DEF RollInv
<1>3. PICK i \in Running : \E n \in DOMAIN scheduling[i].steps :
         LET st == scheduling[i].steps[n]
         IN st.service = s /\ st.state = "running" /\ st.to = docker[s].image
  BY DEF Deployed
<1>4. PICK n \in DOMAIN scheduling[i].steps :
         LET st == scheduling[i].steps[n]
         IN st.service = s /\ st.state = "running" /\ st.to = docker[s].image
  BY <1>3
<1>5. /\ Path(p, k) /\ Matches(scheduling[i], p, k) /\ Begun(scheduling[i], k)
      /\ Awaits(w, p, k) /\ outdated = {}
  BY <1>1, <1>2, <1>3 DEF OnPath, Truthful, Following, Unbroken, Steady
<1>6. n \in DOMAIN p.steps /\ n \in Nat
  <2>1. scheduling[i] \in Plan
    BY <1>1, <1>3 DEF Running
  <2>2. scheduling[i].steps \in Seq(Step) /\ p.steps \in Seq(Step)
    BY <2>1 DEF Plan
  <2> QED BY <1>4, <1>5, <2>2 DEF Matches
<1>7. n = k
  <2>1. ~ (n < k)
    BY <1>4, <1>5 DEF Begun
  <2>2. ~ (n > k)
    BY <1>4, <1>5, <1>6 DEF Matches
  <2> QED BY <1>6, <2>1, <2>2
<1>8. p.steps[k].service = s /\ p.steps[k].to = docker[s].image /\ p.steps[k].from # p.steps[k].to
  BY <1>4, <1>5, <1>6, <1>7 DEF Matches, Path
<1>9. catalog[s].version = p.steps[k].from
  BY <1>1, <1>3, <1>5, <1>6, <1>7, <1>8 DEF Awaits, Active, Going
<1>10. catalog[s].version = docker[s].image
  <2>1. CatalogFollowsDocker
    BY FollowSettled
  <2>2. s \in (DOMAIN docs \cap DOMAIN docker) \ (missed \cup outdated)
    BY <1>1, <1>5 DEF ClusterOK, DocsOK, DockerOK
  <2> QED BY <1>1, <2>1, <2>2 DEF CatalogFollowsDocker
<1> QED BY <1>8, <1>9, <1>10

(* With a single worker of each service, no step that upgrades a service   *)
(* without replicas is left running when everything was handled, if        *)
(* nothing crashed, no call failed and the plan was not disturbed.         *)
THEOREM EmptyServicesStep ==
    ASSUME NEW w, NEW o, Single(w, o) PROVE SystemSpec => []EmptyStepsEnd
<1>1. RollInv(w, o) /\ FollowInv(w, o) => EmptyStepsEnd
  BY NoEmptyStep
<1> QED BY <1>1, RollInit, RollNext, FollowInit, FollowNext, PTL DEF SystemSpec
===============================================================================
