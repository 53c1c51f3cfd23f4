----------------------------- MODULE ImageHistory -----------------------------
(***************************************************************************)
(* The overseer's history of images: on_image_updated, which announces the *)
(* image a registry says was pushed, and recheck_new_version, which        *)
(* compares the tags of the registry with the collection versions every    *)
(* thirty minutes, announces what is new or gone, and makes up for the     *)
(* notifications that were missed.                                         *)
(*                                                                         *)
(* All the services use one image of the registry; a service is interested *)
(* in the tags of its species only.  As in UpgradePlaner a handler is      *)
(* split at its accesses to mongo and at its RPCs.                         *)
(*                                                                         *)
(* Not modelled: what an announcement says of the image beside its tag     *)
(* (digest, scale_config).                                                 *)
(***************************************************************************)
EXTENDS Integers, Sequences, FiniteSets

CONSTANTS
    Services,      \* names of services
    Tags,          \* tags of the image
    Users,         \* tag -> the services that use its species
    Workers,       \* workers of the pool
    Inputs,        \* the kinds of environment steps
    MaxInputs,     \* bound: steps of the environment
    MaxFailures,   \* bound: calls of scaler_docker that raise
    MaxCrashes     \* bound: worker crashes

ASSUME ConstantsAssumption ==
    /\ Services # {} /\ IsFiniteSet(Services)
    /\ Tags # {} /\ IsFiniteSet(Tags)
    /\ Users \in [Tags -> SUBSET Services]
    /\ Inputs \subseteq {"push", "delete", "watch"}
    /\ MaxInputs \in Nat /\ MaxFailures \in Nat /\ MaxCrashes \in Nat

VARIABLES
    registry,      \* the tags the registry has
    pushes,        \* notifications on their way to the overseer
    watched,       \* the monitored services
    versions,      \* collection versions
    nextId,        \* the next _id
    known,         \* service -> the tags its subscribers were told of
    stage,         \* per worker: the access its handler makes next
    job,           \* per worker: its handler's variables
    inputs, failures, crashes

outside == <<registry, pushes, watched>>
store == <<versions, nextId, known>>
counters == <<inputs, failures, crashes>>
vars == <<outside, store, stage, job, counters>>

(* A document of versions; id is mongo's _id.                              *)
Version == [tag: Tags, id: Nat]

-----------------------------------------------------------------------------
(* Data                                                                    *)

AnyTag == CHOOSE t \in Tags : TRUE

(* A handler: the services and the tags it read, what it has yet to        *)
(* announce as gone or as new, the image it notifies of and the services   *)
(* it has yet to tell, and the images it inserted, which have their _id.   *)
Job == [services: SUBSET Services, listed: SUBSET Tags,
        gone: SUBSET [version: Version, service: Services],
        new: SUBSET [tag: Tags, service: Services],
        tag: Tags, tell: SUBSET Services, inserted: SUBSET Tags, removing: Nat]
NoJob == [services |-> {}, listed |-> {}, gone |-> {}, new |-> {},
          tag |-> AnyTag, tell |-> {}, inserted |-> {}, removing |-> 0]

Stages == {"idle", "list", "compare", "clean", "remove", "find", "tell", "insert"}

Recorded == {v.tag : v \in versions}

(* The tags found in the collection, with one document each: the last read.*)
Found == {f \in SUBSET versions :
             \A t \in Recorded : Cardinality({v \in f : v.tag = t}) = 1}

Init ==
    /\ registry \in SUBSET Tags
    /\ pushes = << >>
    /\ watched = Services
    /\ versions = {}
    /\ nextId = 1
    /\ known = [s \in Services |-> {}]
    /\ stage = [w \in Workers |-> "idle"]
    /\ job = [w \in Workers |-> NoJob]
    /\ inputs = 0 /\ failures = 0 /\ crashes = 0

-----------------------------------------------------------------------------
(* The registry and the operators                                          *)

Environment(step) ==
    /\ step \in Inputs /\ inputs < MaxInputs
    /\ inputs' = inputs + 1
    /\ UNCHANGED <<store, stage, job, failures, crashes>>

(* A tag is pushed, and the overseer notified or not.                      *)
Push(t) ==
    /\ Environment("push")
    /\ registry' = registry \cup {t}
    /\ \/ pushes' = Append(pushes, t)
       \/ UNCHANGED pushes
    /\ UNCHANGED watched

Delete(t) ==
    /\ Environment("delete")
    /\ t \in registry
    /\ registry' = registry \ {t}
    /\ UNCHANGED <<pushes, watched>>

(* A service is monitored, or not any more.                                *)
Watch(s) ==
    /\ Environment("watch")
    /\ \/ s \in watched /\ watched' = watched \ {s}
       \/ s \notin watched /\ watched' = watched \cup {s}
    /\ UNCHANGED <<registry, pushes>>

-----------------------------------------------------------------------------
(* Workers                                                                 *)

Goto(w, st, j) == stage' = [stage EXCEPT ![w] = st] /\ job' = [job EXCEPT ![w] = j]

(* A handler returns, or an exception ends it.                             *)
Finish(w) == Goto(w, "idle", NoJob)

(* A call of scaler_docker raises.                                         *)
Fail(w) == failures < MaxFailures /\ failures' = failures + 1 /\ Finish(w)

(* The process dies.  Notifications are not kept for the next one.         *)
Crash(w) ==
    /\ stage[w] # "idle"
    /\ crashes < MaxCrashes
    /\ crashes' = crashes + 1
    /\ Finish(w)
    /\ UNCHANGED <<outside, store, inputs, failures>>

(* on_image_updated                                                        *)
OnImageUpdated(w) ==
    /\ stage[w] = "idle"
    /\ pushes # << >>
    /\ pushes' = Tail(pushes)
    /\ Goto(w, "find", [NoJob EXCEPT !.tag = Head(pushes)])
    /\ UNCHANGED <<registry, watched, store, counters>>

-----------------------------------------------------------------------------
(* recheck_new_version                                                     *)

(* The timer: the services are read.                                       *)
RecheckNewVersion(w) ==
    /\ stage[w] = "idle"
    /\ watched # {}
    /\ Goto(w, "list", [NoJob EXCEPT !.services = watched])
    /\ UNCHANGED <<outside, store, counters>>

ListTags(w) ==
    /\ stage[w] = "list"
    /\ \/ Fail(w)
       \/ /\ Goto(w, "compare", [job[w] EXCEPT !.listed = registry])
          /\ UNCHANGED failures
    /\ UNCHANGED <<outside, store, inputs, crashes>>

(* The versions are read: the tags that are gone and the tags that are     *)
(* new, for the services of their species.                                 *)
Compare(w) ==
    /\ stage[w] = "compare"
    /\ \E found \in Found :
          Goto(w, "clean", [job[w] EXCEPT
             !.gone = {g \in [version: {v \in found : v.tag \notin job[w].listed},
                              service: job[w].services] :
                          g.service \in Users[g.version.tag]},
             !.new = {n \in [tag: job[w].listed \ Recorded, service: job[w].services] :
                          n.service \in Users[n.tag]}])
    /\ UNCHANGED <<outside, store, counters>>

(* A tag is gone: the service is told, then the document removed, if the   *)
(* previous service did not do it.                                         *)
CleanImage(w) ==
    /\ stage[w] = "clean"
    /\ job[w].gone # {}
    /\ \E g \in job[w].gone :
          /\ known' = [known EXCEPT ![g.service] = @ \ {g.version.tag}]
          /\ Goto(w, "remove", [job[w] EXCEPT !.gone = @ \ {g}, !.removing = g.version.id])
    /\ UNCHANGED <<outside, versions, nextId, counters>>

RemoveVersions(w) ==                               \* mutant: all are removed
    /\ stage[w] = "remove"
    /\ versions' = {}
    /\ Goto(w, "clean", job[w])
    /\ UNCHANGED <<outside, nextId, known, counters>>
RemoveVersion(w) ==
    /\ stage[w] = "remove"
    /\ versions' = {v \in versions : v.id # job[w].removing}
    /\ Goto(w, "clean", job[w])
    /\ UNCHANGED <<outside, nextId, known, counters>>

(* A tag is new: once for each service that was read, every service that   *)
(* uses it is notified.                                                    *)
CheckNewUntagged(w) ==                               \* mutant: the image has no tag
    /\ stage[w] = "clean"
    /\ job[w].gone = {}
    /\ \/ job[w].new = {} /\ Finish(w)
       \/ \E n \in job[w].new :
             Goto(w, "find", [job[w] EXCEPT !.new = @ \ {n}, !.tag = "untagged"])
    /\ UNCHANGED <<outside, store, counters>>
CheckNew(w) ==
    /\ stage[w] = "clean"
    /\ job[w].gone = {}
    /\ \/ job[w].new = {} /\ Finish(w)
       \/ \E n \in job[w].new :
             Goto(w, "find", [job[w] EXCEPT !.new = @ \ {n}, !.tag = n.tag])
    /\ UNCHANGED <<outside, store, counters>>

-----------------------------------------------------------------------------
(* _notify_new_image                                                       *)

FindServices(w) ==
    /\ stage[w] = "find"
    /\ Goto(w, "tell", [job[w] EXCEPT !.tell = watched \cap Users[job[w].tag]])
    /\ UNCHANGED <<outside, store, counters>>

(* The scale_config of the image is fetched and the service is told.       *)
NotifyNewImage(w) ==
    /\ stage[w] = "tell"
    /\ \/ job[w].tell = {} /\ Goto(w, "clean", job[w]) /\ UNCHANGED <<known, failures>>
       \/ job[w].tell # {} /\ Fail(w) /\ UNCHANGED known
       \/ \E s \in job[w].tell :
             /\ known' = [known EXCEPT ![s] = @ \cup {job[w].tag}]
             /\ Goto(w, "insert", [job[w] EXCEPT !.tell = @ \ {s}])
             /\ UNCHANGED failures
    /\ UNCHANGED <<outside, versions, nextId, inputs, crashes>>

InsertVersionNot(w) ==                               \* mutant: nothing is recorded
    /\ stage[w] = "insert"
    /\ Goto(w, "tell", job[w])
    /\ UNCHANGED <<outside, store, counters>>

(* The image is recorded.  The second time it has the _id it was given the *)
(* first time, and the driver may refuse it.                               *)
InsertVersion(w) ==
    /\ stage[w] = "insert"
    /\ \/ /\ job[w].tag \in job[w].inserted
          /\ Finish(w)
          /\ UNCHANGED <<versions, nextId>>
       \/ /\ versions' = versions \cup {[tag |-> job[w].tag, id |-> nextId]}
          /\ nextId' = nextId + 1
          /\ Goto(w, "tell", [job[w] EXCEPT !.inserted = @ \cup {job[w].tag}])
    /\ UNCHANGED <<outside, known, counters>>

-----------------------------------------------------------------------------
Work(w) ==
    \/ ListTags(w) \/ Compare(w) \/ CleanImage(w) \/ RemoveVersion(w) \/ CheckNew(w)
    \/ FindServices(w) \/ NotifyNewImage(w) \/ InsertVersion(w)

(* Nothing is left to do, and nothing is monitored.                        *)
Quiet ==
    /\ inputs = MaxInputs /\ watched = {} /\ pushes = << >>
    /\ \A w \in Workers : stage[w] = "idle"
    /\ UNCHANGED vars

Next ==
    \/ \E t \in Tags : Push(t) \/ Delete(t)
    \/ \E s \in Services : Watch(s)
    \/ \E w \in Workers :
          Work(w) \/ OnImageUpdated(w) \/ RecheckNewVersion(w) \/ Crash(w)
    \/ Quiet

Spec == Init /\ [][Next]_vars

(* Handlers end, the timer ticks and the notifications are consumed; a     *)
(* worker goes from one to the other, hence strong fairness for taking     *)
(* each.                                                                   *)
Fairness == \A w \in Workers :
    WF_vars(Work(w)) /\ SF_vars(OnImageUpdated(w)) /\ SF_vars(RecheckNewVersion(w))

FairSpec == Spec /\ Fairness

-----------------------------------------------------------------------------
(* Properties                                                              *)

(* The collection, the announcements and the handlers' variables keep      *)
(* their types, and no two documents have one _id.                         *)
TypeOK ==
    /\ registry \subseteq Tags
    /\ pushes \in Seq(Tags)
    /\ watched \subseteq Services
    /\ versions \subseteq Version
    /\ nextId \in Nat
    /\ \A v \in versions : v.id < nextId
    /\ \A v, x \in versions : v.id = x.id => v = x
    /\ known \in [Services -> SUBSET Tags]
    /\ stage \in [Workers -> Stages]
    /\ job \in [Workers -> Job]
    /\ inputs \in Nat /\ failures \in Nat /\ crashes \in Nat

(* A tag of one service only: two services that share a species also share *)
(* the documents of its tags.                                              *)
Private(t, s) == Users[t] = {s}

(* Between two handlers a tag the subscribers know is recorded, or its     *)
(* removal from the registry would never be noticed; whatever fails, as    *)
(* long as nothing crashes.  (With one worker.)                            *)
KnownIsRecorded ==
    crashes = 0 /\ (\A w \in Workers : stage[w] = "idle") =>
        \A s \in Services, t \in Tags : Private(t, s) /\ t \in known[s] => t \in Recorded

(* A tag that is gone for good ends unknown: a late notification does not  *)
(* leave a version the planer could choose although nothing can run it.    *)
RemovedImagesCleaned ==
    [](crashes = 0) => \A s \in Services, t \in Tags :
        Private(t, s) /\ <>[](t \notin registry /\ s \in watched) => <>[](t \notin known[s])
=============================================================================
