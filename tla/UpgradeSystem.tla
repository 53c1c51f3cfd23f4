----------------------------- MODULE UpgradeSystem -----------------------------
(***************************************************************************)
(* The upgrade loop: the planer asks the overseer for an upgrade, the      *)
(* overseer asks docker, docker's events come back through scaler_docker   *)
(* and the overseer, and make the planer go on with its plan.              *)
(*                                                                         *)
(* The steps are those of UpgradePlaner, which this module extends, and of *)
(* Overseer (O).  A step of both is: the RPC upgrade_service, by which a   *)
(* worker of the planer waits for the overseer's answer; the dispatch of   *)
(* service_updated, which adds to mail, the planer's queue; and the        *)
(* handling of that queue, in order.  An image is its version.  The events *)
(* new_image and cleaned_image, which the overseer takes from its history  *)
(* of images (ImageHistory), reach the planer at any time.                 *)
(***************************************************************************)
EXTENDS UpgradePlaner, Integers

CONSTANTS
    ConfigOf, NoConfig, Global, Replicas, InitialStates, MaxFailures,
    Overseers,        \* workers of the overseer; Workers are the planer's
    Manual,           \* bound: the services that an operator deploys
    MaxRestarts,      \* bound: crashes of the overseer and of scaler_docker
    MaxDisturbances   \* bound: inputs and crashes together

ASSUME SystemAssumption ==
    /\ Replicas \subseteq Nat /\ Replicas # {} /\ Global \notin Nat
    /\ InitialStates \subseteq [image: Versions, mode: Replicas \cup {Global}]
    /\ MaxRestarts \in Nat

VARIABLES
    docker, updating, events, listening, missed, calls,    \* the overseer
    docs, nextId, view, queues, ostage, omsg, doc, todo, failures, restarts,
    mail,             \* service_updated events the planer has not handled
    interference,     \* what came between a plan and the cluster (history)
    outdated          \* services announced with an image that is gone (history)

planer == <<catalog, phases, scheduling, requests, checks,
            stage, msg, entry, sched, schedId, goals, crashes>>
overseer == <<docker, updating, events, listening, missed, calls,
              docs, nextId, view, queues, ostage, omsg, doc, todo, failures, restarts>>
history == <<interference, outdated>>
systemVars == <<planer, overseer, inputs, mail, history>>

O == INSTANCE Overseer WITH
        Workers <- Overseers, Images <- Versions, Inputs <- {"deploy"},
        MaxCrashes <- MaxRestarts, stage <- ostage, msg <- omsg, crashes <- restarts

-----------------------------------------------------------------------------
(* Both have been running for long: the overseer monitors every service,   *)
(* and the planer knows the version each one runs.                         *)
SystemInit ==
    /\ Init
    /\ O!InitWith(Services)
    /\ \A s \in Services : catalog[s].version = docker[s].image
    /\ mail = << >>
    /\ interference = {} /\ outdated = {}

Disturb == inputs + crashes + restarts < MaxDisturbances

-----------------------------------------------------------------------------
(* The planer                                                              *)

(* Every order, event and message was handled and docker is done, and the  *)
(* versions of the catalog are those that run.                             *)
InStep ==
    /\ O!Settled /\ mail = << >> /\ updating = {}
    /\ \A s \in Services : catalog[s].version = docker[s].image

(* Any step of a handler but the RPC to the overseer.  Nothing keeps the   *)
(* planer from making a plan while the cluster still moves: that plan      *)
(* starts from a phase the cluster has left.                               *)
PlanerStep(w) ==
    /\ stage[w] \notin {"call", "first_call"}
    /\ Work(w)
    /\ interference' = IF stage'[w] = "first_step" /\ ~InStep
                          THEN interference \cup {"hasty"} ELSE interference
    /\ UNCHANGED <<overseer, mail, outdated>>

(* The RPC upgrade_service, which the overseer handles when it has a free  *)
(* worker: it passes the order to docker, or raises if it does not monitor *)
(* the service.                                                            *)
CallUpgrade(w) ==
    /\ \E o \in Overseers : ostage[o] = "idle"
    /\ CallOverseer(w)
    /\ \E n \in Launched(w) :
          LET st == sched[w].steps[n]
          IN \/ /\ st.service \in DOMAIN docs /\ stage'[w] # "idle"
                /\ calls' = Append(calls,
                      [kind |-> "upgrade", service |-> st.service,
                       data |-> [O!AnyState EXCEPT !.image = st.to]])
             \/ st.service \notin DOMAIN docs /\ stage'[w] = "idle" /\ UNCHANGED calls
    /\ UNCHANGED <<docker, updating, events, listening, missed,
                   docs, nextId, view, queues, ostage, omsg, doc, todo, failures, restarts,
                   mail, history>>

(* on_service_deployed: the planer takes the oldest service_updated.       *)
TakeMail(w) ==
    /\ mail # << >>
    /\ Take(w, Head(mail))
    /\ mail' = Tail(mail)
    /\ UNCHANGED <<checks, overseer, inputs, history>>

(* on_new_version_check_upgrade.                                           *)
TakeCheck(w) == ReceiveCheck(w) /\ UNCHANGED <<overseer, mail, history>>

(* The RPC run_available_upgrade, and the events new_image and             *)
(* cleaned_image; the first says which version its service runs.           *)
AskUpgrade(w) ==
    /\ Disturb /\ Receive(w)
    /\ msg'[w].kind \in {"upgrade", "image", "cleaned"}
    /\ msg'[w].kind = "image" => msg'[w].current = docker[msg'[w].service].image
    /\ UNCHANGED <<overseer, mail, history>>

(* A crash may lose a plan whose first step was launched.                  *)
PlanerCrash(w) ==
    /\ Disturb /\ Crash(w)
    /\ interference' = IF stage[w] \in {"disable", "insert"}
                          THEN interference \cup {"lost"} ELSE interference
    /\ UNCHANGED <<overseer, mail, outdated>>

-----------------------------------------------------------------------------
(* The overseer                                                            *)

(* The event service_updated as the planer reads it: a change of service s *)
(* that runs d is finished when docker says so, or has no replica to       *)
(* replace.                                                                *)
UpdatedCompleted(s, d, completed) ==                 \* mutant: no replica, no end
    [kind |-> "deployed", service |-> s, version |-> d.image, current |-> d.image,
     finished |-> completed]
ServiceUpdated(s, d, completed) ==
    [kind |-> "deployed", service |-> s, version |-> d.image, current |-> d.image,
     finished |-> completed \/ d.mode = 0]

(* The two dispatches of service_updated: a service has changed, or has a  *)
(* new scale_config; that one carries the service as it was when the image *)
(* changed.  (Every service is monitored from the start.)                  *)
DispatchUpdated(w) ==
    LET s == omsg[w].service
    IN /\ \/ /\ O!Dispatch(w)
             /\ mail' = Append(mail,
                           ServiceUpdated(s, omsg[w].data, "state" \in O!Diff(w)))
             /\ UNCHANGED outdated
          \/ /\ O!PropagateConfig(w)
             /\ mail' = Append(mail, ServiceUpdated(s, omsg[w].data, FALSE))
             /\ outdated' = IF s \in DOMAIN docs /\ docs[s].data.image # omsg[w].data.image
                            THEN outdated \cup {s} ELSE outdated
       /\ UNCHANGED <<planer, interference>>

OverseerStep(w) ==
    \/ DispatchUpdated(w)
    \/ /\ ostage[w] \notin {"dispatch", "propagate"}
       /\ O!Work(w) \/ \E h \in O!Handlers : O!Receive(w, h)
       /\ UNCHANGED <<planer, mail, history>>

OverseerCrash(w) == Disturb /\ O!Crash(w) /\ UNCHANGED <<planer, mail, history>>

-----------------------------------------------------------------------------
(* Docker and scaler_docker                                                *)

Listen == O!Listen /\ UNCHANGED <<planer, mail, history>>
Update == O!Update /\ UNCHANGED <<planer, mail, history>>
Complete == \E s \in Services : O!Completed(s) /\ UNCHANGED <<planer, mail, history>>

ScalerRestart == Disturb /\ O!RestartScaler /\ UNCHANGED <<planer, mail, history>>

(* An operator deploys another version, with as many replicas.             *)
DeployByHand(s) ==
    /\ Disturb /\ O!Deploy(s) /\ docker'[s].mode = docker[s].mode
    /\ interference' = interference \cup {"deployed"}
    /\ UNCHANGED <<planer, mail, outdated>>

-----------------------------------------------------------------------------
(* Every order, event and message was handled.                             *)
Settled ==
    /\ O!Settled /\ mail = << >>
    /\ \A w \in Workers : stage[w] = "idle"

SystemQuiet == Settled /\ updating = {} /\ ~Disturb /\ UNCHANGED systemVars

(* What the services and docker do by themselves: everything but requests, *)
(* images, deployments and crashes.                                        *)
Internal ==
    \/ \E w \in Workers : PlanerStep(w) \/ CallUpgrade(w) \/ TakeMail(w) \/ TakeCheck(w)
    \/ \E w \in Overseers : OverseerStep(w)
    \/ Listen \/ Update \/ Complete

SystemNext ==
    \/ Internal
    \/ \E w \in Workers : AskUpgrade(w) \/ PlanerCrash(w)
    \/ \E w \in Overseers : OverseerCrash(w)
    \/ \E s \in Manual : DeployByHand(s)
    \/ ScalerRestart \/ SystemQuiet

SystemSpec == SystemInit /\ [][SystemNext]_systemVars

(* Nothing is left undone for ever: as every request causes finitely many  *)
(* steps, no order among workers, queues and updates need be assumed.      *)
Fairness == WF_systemVars(Internal)

FairSystemSpec == SystemSpec /\ Fairness

-----------------------------------------------------------------------------
(* Properties                                                              *)

(* Nobody deployed a service by hand, no plan was made while the cluster   *)
(* still moved, and no plan was lost with its first step launched.         *)
Undisturbed == interference = {}

(* Upgrades that only the planer asks for move the cluster one service at  *)
(* a time through explained phases, whatever crashes, as long as plans are *)
(* made from the phase the cluster is in.                                  *)
Rolling == INSTANCE RollingUpgrade WITH
              running <- [s \in Services |-> docker[s].image],
              disturbed <- ~Undisturbed
UpgradesAreRolling == Rolling!Spec

(* What the planer believes in the end: when everything was handled its    *)
(* catalog has the version that docker runs of each monitored service,     *)
(* unless it changed while nobody listened, the overseer crashed, or the   *)
(* new scale_config of one image was announced after the next image: the   *)
(* planer takes that for a deployment of the image that is gone.           *)
CatalogFollowsDocker ==
    Settled /\ restarts = 0 =>
        \A s \in (DOMAIN docs \cap DOMAIN docker) \ (missed \cup outdated) :
            catalog[s].version = docker[s].image

(* A step is found done only when docker runs its version: an event is     *)
(* never taken for the end of a step that was not made.                    *)
DoneStep(i, n) ==
    i \in DOMAIN scheduling /\ n \in DOMAIN scheduling[i].steps
        /\ scheduling[i].steps[n].state = "done"
DoneStepsDeployed ==
    [][Undisturbed => \A i \in DOMAIN scheduling : \A n \in DOMAIN scheduling[i].steps :
          ~DoneStep(i, n) /\ DoneStep(i, n)' =>
              LET st == scheduling[i].steps[n] IN docker[st.service].image = st.to]_systemVars

(* A plan is done only when all its steps are, unless the plan was         *)
(* disturbed, or the planer crashed between the order of its last step and *)
(* the save of the plan.                                                   *)
DonePlansComplete ==
    Undisturbed /\ crashes = 0 =>
        \A i \in DOMAIN scheduling : scheduling[i].state = "done" =>
            \A n \in DOMAIN scheduling[i].steps : scheduling[i].steps[n].state = "done"

(* A step of the running plan whose upgrade docker has completed.          *)
Deployed(s) ==
    /\ s \in DOMAIN docker /\ s \notin updating
    /\ \E i \in Running : \E n \in DOMAIN scheduling[i].steps :
          LET st == scheduling[i].steps[n]
          IN st.service = s /\ st.state = "running" /\ st.to = docker[s].image

NothingFailed == crashes = 0 /\ restarts = 0 /\ failures = 0 /\ missed = {}

(* A plan goes on when the upgrade of a service without replicas is done:  *)
(* no such step is left running when everything was handled, if nothing    *)
(* crashes, no call fails and the plan is not disturbed.                   *)
EmptyStepsEnd ==
    Settled /\ NothingFailed /\ Undisturbed =>
        ~ \E s \in Services : Deployed(s) /\ docker[s].mode = 0

-----------------------------------------------------------------------------
(* What the comments of the code say                                       *)

(* "whene this is done, we will be notified by another                     *)
(* overseer.service_updated signal": a plan goes on when an upgrade it     *)
(* asked for is done, if nothing crashes, no call fails and the plan is    *)
(* not disturbed.                                                          *)
StepOver == NothingFailed /\ Undisturbed /\ \E s \in Services : Deployed(s)
StepsEnd == StepOver ~> ~StepOver
=============================================================================
