--------------------------- MODULE ImageHistoryProofs ---------------------------
(***************************************************************************)
(* What ImageHistory promises for any images, services and failures: the   *)
(* types for any number of workers, and, for a single worker (one instance *)
(* with max_workers at 1), that a tag the subscribers know is in the       *)
(* collection between two handlers.                                        *)
(***************************************************************************)
EXTENDS ImageHistory, TLAPS

(* The parts of TypeOK.                                                    *)
OutsideOK == registry \subseteq Tags /\ pushes \in Seq(Tags) /\ watched \subseteq Services
VersionsOK ==
    /\ versions \subseteq Version
    /\ nextId \in Nat
    /\ \A v \in versions : v.id < nextId
    /\ \A v, x \in versions : v.id = x.id => v = x
KnownOK == known \in [Services -> SUBSET Tags]
HandlersOK == stage \in [Workers -> Stages] /\ job \in [Workers -> Job]
CountersOK == inputs \in Nat /\ failures \in Nat /\ crashes \in Nat

LEMMA TypeParts == TypeOK <=> OutsideOK /\ VersionsOK /\ KnownOK /\ HandlersOK /\ CountersOK
  BY DEF TypeOK, OutsideOK, VersionsOK, KnownOK, HandlersOK, CountersOK

LEMMA TypePartsNext ==
    ASSUME OutsideOK', VersionsOK', KnownOK', HandlersOK', CountersOK'
    PROVE  TypeOK'
  BY DEF TypeOK, OutsideOK, VersionsOK, KnownOK, HandlersOK, CountersOK

LEMMA NoJobTyped == AnyTag \in Tags /\ NoJob \in Job
PROOF
  <1>1. AnyTag \in Tags
    BY ConstantsAssumption DEF AnyTag
  <1> QED
    BY <1>1 DEF NoJob, Job

(* A handler goes on; the others stay where they are.                      *)
LEMMA GotoFacts ==
    ASSUME HandlersOK, NEW w \in Workers, NEW st \in Stages, NEW j \in Job, Goto(w, st, j)
    PROVE  HandlersOK' /\ stage'[w] = st /\ job'[w] = j
  BY DEF Goto, HandlersOK

LEMMA FinishFacts ==
    ASSUME HandlersOK, NEW w \in Workers, Finish(w)
    PROVE  HandlersOK' /\ stage'[w] = "idle" /\ job'[w] = NoJob
  BY NoJobTyped, GotoFacts DEF Finish, Stages

(* The fields of a job.                                                    *)
LEMMA JobFields ==
    ASSUME HandlersOK, NEW w \in Workers
    PROVE  /\ job[w] \in Job
           /\ job[w].services \subseteq Services /\ job[w].listed \subseteq Tags
           /\ job[w].gone \subseteq [version: Version, service: Services]
           /\ job[w].new \subseteq [tag: Tags, service: Services]
           /\ job[w].tag \in Tags /\ job[w].tell \subseteq Services
           /\ job[w].inserted \subseteq Tags /\ job[w].removing \in Nat
  BY DEF HandlersOK, Job

-----------------------------------------------------------------------------
(* Each step of a handler: what it makes of its variables.                 *)

LEMMA StartRecheck ==
    ASSUME HandlersOK, OutsideOK, NEW w \in Workers, RecheckNewVersion(w)
    PROVE  /\ HandlersOK' /\ stage'[w] = "list"
           /\ job'[w].gone = {} /\ job'[w].inserted = {}
PROOF
  <1> DEFINE j == [NoJob EXCEPT !.services = watched]
  <1>1. j \in Job /\ j.gone = {} /\ j.inserted = {}
    BY NoJobTyped DEF Job, NoJob, OutsideOK
  <1>2. Goto(w, "list", j)
    BY DEF RecheckNewVersion
  <1> HIDE DEF j
  <1> QED
    BY <1>1, <1>2, GotoFacts DEF Stages

LEMMA StartNotification ==
    ASSUME HandlersOK, OutsideOK, NEW w \in Workers, OnImageUpdated(w)
    PROVE  /\ HandlersOK' /\ OutsideOK' /\ stage'[w] = "find"
           /\ job'[w].gone = {} /\ job'[w].inserted = {}
PROOF
  <1> DEFINE j == [NoJob EXCEPT !.tag = Head(pushes)]
  <1>1. pushes \in Seq(Tags) /\ pushes # << >>
    BY DEF OnImageUpdated, OutsideOK
  <1>2. Head(pushes) \in Tags /\ Tail(pushes) \in Seq(Tags)
    BY <1>1
  <1>3. j \in Job /\ j.gone = {} /\ j.inserted = {}
    BY <1>2, NoJobTyped DEF Job, NoJob
  <1>4. Goto(w, "find", j)
    BY DEF OnImageUpdated
  <1> HIDE DEF j
  <1>5. OutsideOK'
    BY <1>2 DEF OnImageUpdated, OutsideOK
  <1> QED
    BY <1>3, <1>4, <1>5, GotoFacts DEF Stages

LEMMA ListTagsFacts ==
    ASSUME HandlersOK, OutsideOK, NEW w \in Workers, ListTags(w)
    PROVE  /\ HandlersOK'
           /\ \/ stage'[w] = "idle" /\ job'[w] = NoJob
              \/ /\ stage'[w] = "compare" /\ stage[w] = "list"
                 /\ job'[w].gone = job[w].gone /\ job'[w].inserted = job[w].inserted
PROOF
  <1> DEFINE j == [job[w] EXCEPT !.listed = registry]
  <1>1. j \in Job /\ j.gone = job[w].gone /\ j.inserted = job[w].inserted
    BY JobFields DEF Job, OutsideOK
  <1>2. stage[w] = "list" /\ (Fail(w) \/ Goto(w, "compare", j))
    BY DEF ListTags
  <1> HIDE DEF j
  <1> QED
    BY <1>1, <1>2, GotoFacts, FinishFacts DEF Fail, Stages

LEMMA CompareFacts ==
    ASSUME HandlersOK, VersionsOK, NEW w \in Workers, Compare(w)
    PROVE  /\ HandlersOK' /\ stage'[w] = "clean" /\ stage[w] = "compare"
           /\ \A g \in job'[w].gone : g.version \in versions /\ g.service \in Users[g.version.tag]
           /\ job'[w].inserted = job[w].inserted
PROOF
  <1>0. PICK found \in Found :
           Goto(w, "clean", [job[w] EXCEPT
             !.gone = {g \in [version: {v \in found : v.tag \notin job[w].listed},
                              service: job[w].services] :
                          g.service \in Users[g.version.tag]},
             !.new = {n \in [tag: job[w].listed \ Recorded, service: job[w].services] :
                          n.service \in Users[n.tag]}])
    BY DEF Compare
  <1> DEFINE gone == {g \in [version: {v \in found : v.tag \notin job[w].listed},
                             service: job[w].services] : g.service \in Users[g.version.tag]}
             new == {n \in [tag: job[w].listed \ Recorded, service: job[w].services] :
                          n.service \in Users[n.tag]}
             j == [job[w] EXCEPT !.gone = gone, !.new = new]
  <1>1. found \subseteq versions /\ versions \subseteq Version
    BY DEF Found, VersionsOK
  <1>2. gone \subseteq [version: Version, service: Services]
    BY <1>1, JobFields
  <1>3. new \subseteq [tag: Tags, service: Services]
    BY JobFields
  <1>4. \A g \in gone : g.version \in versions /\ g.service \in Users[g.version.tag]
    BY <1>1
  <1>5. Goto(w, "clean", j) /\ stage[w] = "compare"
    BY <1>0 DEF Compare
  <1> HIDE DEF gone, new
  <1>6. j \in Job /\ j.gone = gone /\ j.inserted = job[w].inserted
    BY <1>2, <1>3, JobFields DEF Job
  <1> HIDE DEF j
  <1> QED
    BY <1>4, <1>5, <1>6, GotoFacts DEF Stages

LEMMA CleanImageFacts ==
    ASSUME HandlersOK, KnownOK, NEW w \in Workers, CleanImage(w)
    PROVE  /\ HandlersOK' /\ KnownOK' /\ stage[w] = "clean" /\ stage'[w] = "remove"
           /\ \E g \in job[w].gone :
                 /\ g.service \in Services
                 /\ known' = [known EXCEPT ![g.service] = @ \ {g.version.tag}]
                 /\ job'[w].removing = g.version.id
           /\ job'[w].gone \subseteq job[w].gone
           /\ job'[w].inserted = job[w].inserted
PROOF
  <1>1. PICK g \in job[w].gone :
           /\ known' = [known EXCEPT ![g.service] = @ \ {g.version.tag}]
           /\ Goto(w, "remove", [job[w] EXCEPT !.gone = @ \ {g}, !.removing = g.version.id])
    BY DEF CleanImage
  <1> DEFINE j == [job[w] EXCEPT !.gone = @ \ {g}, !.removing = g.version.id]
  <1>2. g.service \in Services /\ g.version.id \in Nat
    BY JobFields DEF Version
  <1>3. /\ j \in Job /\ j.removing = g.version.id /\ j.gone \subseteq job[w].gone
        /\ j.inserted = job[w].inserted
    BY <1>2, JobFields DEF Job
  <1>4. Goto(w, "remove", j) /\ stage[w] = "clean"
    BY <1>1 DEF CleanImage
  <1> HIDE DEF j
  <1>5. HandlersOK' /\ stage'[w] = "remove" /\ job'[w] = j
    BY <1>3, <1>4, GotoFacts DEF Stages
  <1>6. KnownOK'
    BY <1>1, <1>2 DEF KnownOK
  <1> QED
    BY <1>1, <1>2, <1>3, <1>4, <1>5, <1>6

LEMMA RemoveVersionFacts ==
    ASSUME HandlersOK, VersionsOK, NEW w \in Workers, RemoveVersion(w)
    PROVE  /\ HandlersOK' /\ VersionsOK' /\ stage[w] = "remove" /\ stage'[w] = "clean"
           /\ job'[w] = job[w]
           /\ versions' = {v \in versions : v.id # job[w].removing}
PROOF
  <1>1. stage[w] = "remove" /\ Goto(w, "clean", job[w]) /\ nextId' = nextId
        /\ versions' = {v \in versions : v.id # job[w].removing}
    BY DEF RemoveVersion
  <1>2. HandlersOK' /\ stage'[w] = "clean" /\ job'[w] = job[w]
    BY <1>1, JobFields, GotoFacts DEF Stages
  <1>3. VersionsOK'
    BY <1>1 DEF VersionsOK
  <1> QED
    BY <1>1, <1>2, <1>3

LEMMA CheckNewFacts ==
    ASSUME HandlersOK, NEW w \in Workers, CheckNew(w)
    PROVE  /\ HandlersOK'
           /\ \/ stage'[w] = "idle" /\ job'[w] = NoJob
              \/ /\ stage'[w] = "find" /\ job'[w].gone = {}
                 /\ job'[w].inserted = job[w].inserted
PROOF
  <1>1. CASE Finish(w)
    BY <1>1, FinishFacts
  <1>2. ASSUME NEW n \in job[w].new,
               Goto(w, "find", [job[w] EXCEPT !.new = @ \ {n}, !.tag = n.tag])
        PROVE  /\ HandlersOK' /\ stage'[w] = "find" /\ job'[w].gone = job[w].gone
               /\ job'[w].inserted = job[w].inserted
    <2> DEFINE j == [job[w] EXCEPT !.new = @ \ {n}, !.tag = n.tag]
    <2>1. n.tag \in Tags
      BY JobFields
    <2>2. j \in Job /\ j.gone = job[w].gone /\ j.inserted = job[w].inserted
      BY <2>1, JobFields DEF Job
    <2>3. Goto(w, "find", j)
      BY <1>2
    <2> HIDE DEF j
    <2> QED
      BY <2>2, <2>3, GotoFacts DEF Stages
  <1> QED
    BY <1>1, <1>2 DEF CheckNew

LEMMA FindServicesFacts ==
    ASSUME HandlersOK, OutsideOK, NEW w \in Workers, FindServices(w)
    PROVE  /\ HandlersOK' /\ stage[w] = "find" /\ stage'[w] = "tell"
           /\ job'[w].gone = job[w].gone /\ job'[w].inserted = job[w].inserted
PROOF
  <1> DEFINE j == [job[w] EXCEPT !.tell = watched \cap Users[job[w].tag]]
  <1>1. j \in Job /\ j.gone = job[w].gone /\ j.inserted = job[w].inserted
    BY JobFields DEF Job, OutsideOK
  <1>2. Goto(w, "tell", j) /\ stage[w] = "find"
    BY DEF FindServices
  <1> HIDE DEF j
  <1> QED
    BY <1>1, <1>2, GotoFacts DEF Stages

LEMMA NotifyFacts ==
    ASSUME HandlersOK, KnownOK, NEW w \in Workers, NotifyNewImage(w)
    PROVE  /\ HandlersOK' /\ KnownOK' /\ stage[w] = "tell"
           /\ \/ /\ known' = known
                 /\ \/ stage'[w] = "clean" /\ job'[w] = job[w]
                    \/ stage'[w] = "idle" /\ job'[w] = NoJob
              \/ /\ \E s \in Services : known' = [known EXCEPT ![s] = @ \cup {job[w].tag}]
                 /\ stage'[w] = "insert" /\ job'[w].tag = job[w].tag
                 /\ job'[w].gone = job[w].gone /\ job'[w].inserted = job[w].inserted
PROOF
  <1>0. stage[w] = "tell"
    BY DEF NotifyNewImage
  <1>1. CASE Goto(w, "clean", job[w]) /\ known' = known
    <2>1. KnownOK'
      BY <1>1 DEF KnownOK
    <2> QED
      BY <1>0, <1>1, <2>1, JobFields, GotoFacts DEF Stages
  <1>2. CASE Finish(w) /\ known' = known
    <2>1. KnownOK'
      BY <1>2 DEF KnownOK
    <2> QED
      BY <1>0, <1>2, <2>1, FinishFacts
  <1>3. ASSUME NEW s \in job[w].tell,
               known' = [known EXCEPT ![s] = @ \cup {job[w].tag}],
               Goto(w, "insert", [job[w] EXCEPT !.tell = @ \ {s}])
        PROVE  /\ HandlersOK' /\ KnownOK' /\ s \in Services
               /\ stage'[w] = "insert" /\ job'[w].tag = job[w].tag
               /\ job'[w].gone = job[w].gone /\ job'[w].inserted = job[w].inserted
    <2> DEFINE j == [job[w] EXCEPT !.tell = @ \ {s}]
    <2>1. j \in Job /\ j.tag = job[w].tag /\ j.gone = job[w].gone /\ j.inserted = job[w].inserted
      BY JobFields DEF Job
    <2>2. Goto(w, "insert", j)
      BY <1>3
    <2> HIDE DEF j
    <2>3. HandlersOK' /\ stage'[w] = "insert" /\ job'[w] = j
      BY <2>1, <2>2, GotoFacts DEF Stages
    <2>4. s \in Services /\ job[w].tag \in Tags
      BY JobFields
    <2>5. KnownOK'
      BY <1>3, <2>4 DEF KnownOK
    <2> QED
      BY <2>1, <2>3, <2>4, <2>5
  <1> QED
    BY <1>0, <1>1, <1>2, <1>3 DEF NotifyNewImage, Fail

LEMMA InsertFacts ==
    ASSUME HandlersOK, VersionsOK, NEW w \in Workers, InsertVersion(w)
    PROVE  /\ HandlersOK' /\ VersionsOK' /\ stage[w] = "insert"
           /\ \/ /\ job[w].tag \in job[w].inserted /\ versions' = versions
                 /\ stage'[w] = "idle" /\ job'[w] = NoJob
              \/ /\ versions' = versions \cup {[tag |-> job[w].tag, id |-> nextId]}
                 /\ stage'[w] = "tell" /\ job'[w].gone = job[w].gone
                 /\ job'[w].inserted = job[w].inserted \cup {job[w].tag}
PROOF
  <1>0. stage[w] = "insert"
    BY DEF InsertVersion
  <1>1. CASE job[w].tag \in job[w].inserted /\ Finish(w) /\ UNCHANGED <<versions, nextId>>
    <2>1. VersionsOK'
      BY <1>1 DEF VersionsOK
    <2> QED
      BY <1>0, <1>1, <2>1, FinishFacts
  <1>2. CASE /\ versions' = versions \cup {[tag |-> job[w].tag, id |-> nextId]}
             /\ nextId' = nextId + 1
             /\ Goto(w, "tell", [job[w] EXCEPT !.inserted = @ \cup {job[w].tag}])
    <2> DEFINE j == [job[w] EXCEPT !.inserted = @ \cup {job[w].tag}]
    <2>1. j \in Job /\ j.gone = job[w].gone /\ j.inserted = job[w].inserted \cup {job[w].tag}
      BY JobFields DEF Job
    <2>2. Goto(w, "tell", j)
      BY <1>2
    <2> HIDE DEF j
    <2>3. HandlersOK' /\ stage'[w] = "tell" /\ job'[w] = j
      BY <2>1, <2>2, GotoFacts DEF Stages
    <2>4. job[w].tag \in Tags
      BY JobFields
    <2>5. VersionsOK'
      BY <1>2, <2>4 DEF VersionsOK, Version
    <2> QED
      BY <1>0, <1>2, <2>1, <2>3, <2>5
  <1> QED
    BY <1>1, <1>2 DEF InsertVersion

-----------------------------------------------------------------------------
LEMMA TypeInit == Init => TypeOK
PROOF
  <1> SUFFICES ASSUME Init PROVE TypeOK
    OBVIOUS
  <1>1. OutsideOK
    BY DEF Init, OutsideOK
  <1>2. VersionsOK /\ KnownOK /\ CountersOK
    BY DEF Init, VersionsOK, KnownOK, CountersOK
  <1>3. HandlersOK
    BY NoJobTyped DEF Init, HandlersOK, Stages
  <1> QED
    BY <1>1, <1>2, <1>3, TypeParts

LEMMA PushFacts ==
    ASSUME OutsideOK, NEW t \in Tags, Push(t)
    PROVE  OutsideOK'
PROOF
  <1>1. pushes' = pushes \/ pushes' = Append(pushes, t)
    BY DEF Push
  <1>2. pushes \in Seq(Tags)
    BY DEF OutsideOK
  <1>3. pushes' \in Seq(Tags)
    BY <1>1, <1>2
  <1> QED
    BY <1>3 DEF Push, OutsideOK

LEMMA EnvironmentKeeps ==
    ASSUME TypeOK, NEW step, Environment(step)
    PROVE  /\ VersionsOK' /\ KnownOK' /\ HandlersOK' /\ CountersOK'
           /\ UNCHANGED <<versions, known, stage, job, crashes>>
  BY TypeParts DEF Environment, store, VersionsOK, KnownOK, HandlersOK, CountersOK

LEMMA TypeStep == TypeOK /\ [Next]_vars => TypeOK'
PROOF
  <1> SUFFICES ASSUME TypeOK, [Next]_vars PROVE TypeOK'
    OBVIOUS
  <1>0. OutsideOK /\ VersionsOK /\ KnownOK /\ HandlersOK /\ CountersOK
    BY TypeParts
  <1>1. ASSUME NEW t \in Tags, Push(t) \/ Delete(t) PROVE TypeOK'
    <2>1. OutsideOK'
      BY <1>0, <1>1, PushFacts DEF Delete, OutsideOK
    <2> QED
      BY <1>1, <2>1, EnvironmentKeeps, TypePartsNext DEF Push, Delete
  <1>2. ASSUME NEW s \in Services, Watch(s) PROVE TypeOK'
    <2>1. OutsideOK'
      BY <1>0, <1>2 DEF Watch, OutsideOK
    <2> QED
      BY <1>2, <2>1, EnvironmentKeeps, TypePartsNext DEF Watch
  <1>3. ASSUME NEW w \in Workers, Work(w) \/ OnImageUpdated(w) \/ RecheckNewVersion(w) \/ Crash(w)
        PROVE  TypeOK'
    <2> USE <1>0
    <2>1. HandlersOK'
      BY <1>3, StartRecheck, StartNotification, ListTagsFacts, CompareFacts, CleanImageFacts,
         RemoveVersionFacts, CheckNewFacts, FindServicesFacts, NotifyFacts, InsertFacts,
         FinishFacts DEF Work, Crash
    <2>2. OutsideOK'
      <3>1. CASE OnImageUpdated(w)
        BY <3>1, StartNotification
      <3>2. CASE ~ OnImageUpdated(w)
        BY <1>3, <3>2
        DEF Work, Crash, RecheckNewVersion, ListTags, Compare, CleanImage, RemoveVersion,
            CheckNew, FindServices, NotifyNewImage, InsertVersion, outside, OutsideOK
      <3> QED
        BY <3>1, <3>2
    <2>3. VersionsOK'
      <3>1. CASE RemoveVersion(w) \/ InsertVersion(w)
        BY <3>1, RemoveVersionFacts, InsertFacts
      <3>2. CASE ~ (RemoveVersion(w) \/ InsertVersion(w))
        BY <1>3, <3>2
        DEF Work, Crash, OnImageUpdated, RecheckNewVersion, ListTags, Compare, CleanImage,
            CheckNew, FindServices, NotifyNewImage, store, VersionsOK
      <3> QED
        BY <3>1, <3>2
    <2>4. KnownOK'
      <3>1. CASE CleanImage(w) \/ NotifyNewImage(w)
        BY <3>1, CleanImageFacts, NotifyFacts
      <3>2. CASE ~ (CleanImage(w) \/ NotifyNewImage(w))
        BY <1>3, <3>2
        DEF Work, Crash, OnImageUpdated, RecheckNewVersion, ListTags, Compare, RemoveVersion,
            CheckNew, FindServices, InsertVersion, store, KnownOK
      <3> QED
        BY <3>1, <3>2
    <2>5. CountersOK'
      <3>1. \/ UNCHANGED counters
            \/ failures' = failures + 1 /\ UNCHANGED <<inputs, crashes>>
            \/ crashes' = crashes + 1 /\ UNCHANGED <<inputs, failures>>
        BY <1>3
        DEF Work, Crash, OnImageUpdated, RecheckNewVersion, ListTags, Compare, CleanImage,
            RemoveVersion, CheckNew, FindServices, NotifyNewImage, InsertVersion, Fail, counters
      <3> QED
        BY <3>1 DEF counters, CountersOK
    <2> QED
      BY <2>1, <2>2, <2>3, <2>4, <2>5, TypePartsNext
  <1>4. CASE UNCHANGED vars
    BY <1>0, <1>4, TypePartsNext
    DEF vars, outside, store, counters, OutsideOK, VersionsOK, KnownOK, HandlersOK, CountersOK
  <1> QED
    BY <1>1, <1>2, <1>3, <1>4 DEF Next, Quiet

(* For any number of workers, whatever fails or crashes: types, and every  *)
(* document of versions has an _id of its own, so that clean_image removes *)
(* one document at most.                                                   *)
THEOREM TypeCorrect == Spec => []TypeOK
  BY TypeInit, TypeStep, PTL DEF Spec

-----------------------------------------------------------------------------
(* One worker                                                              *)

(* Tags are announced as new, by a recheck or a notification, once nothing *)
(* is left to announce as gone; a handler that has inserted something      *)
(* removes nothing any more.                                               *)
GoneFirst(w) ==
    /\ stage[w] \in {"find", "tell", "insert"} => job[w].gone = {}
    /\ job[w].inserted # {} =>
          job[w].gone = {} /\ stage[w] \in {"clean", "find", "tell", "insert"}
    /\ job[w].inserted \subseteq Recorded

(* What is to be announced as gone is a tag of the service told, and the   *)
(* document to remove after it is that of the tag: its _id is no other's.  *)
GoneKnows(w) ==
    \A g \in job[w].gone :
        /\ g.service \in Users[g.version.tag]
        /\ \A v \in versions : v.id = g.version.id => v = g.version

(* Of the tag that is removed its service has been told already.           *)
ToldGone(w) ==
    stage[w] = "remove" =>
        \A v \in versions : v.id = job[w].removing =>
            \A s \in Services : Private(v.tag, s) => v.tag \notin known[s]

(* A tag that is known is recorded, or about to be.                        *)
KnownRecorded(w) ==
    crashes = 0 =>
        \A s \in Services, t \in Tags : Private(t, s) /\ t \in known[s] =>
            t \in Recorded \/ (stage[w] = "insert" /\ job[w].tag = t)

SoloInv(w) == GoneFirst(w) /\ GoneKnows(w) /\ ToldGone(w) /\ KnownRecorded(w)

LEMMA SoloInit ==
    ASSUME NEW w \in Workers, Init
    PROVE  SoloInv(w)
PROOF
  <1>1. stage[w] = "idle" /\ job[w] = NoJob /\ \A s \in Services : known[s] = {}
    BY DEF Init
  <1>2. job[w].gone = {} /\ job[w].inserted = {}
    BY <1>1 DEF NoJob
  <1> QED
    BY <1>1, <1>2 DEF SoloInv, GoneFirst, GoneKnows, ToldGone, KnownRecorded

(* A handler that has nothing to announce as gone, and has inserted        *)
(* nothing, or only what is recorded.                                      *)
LEMMA NothingGone ==
    ASSUME NEW w, job'[w].gone = {}, stage'[w] # "remove",
           job'[w].inserted \subseteq Recorded',
           job'[w].inserted # {} => stage'[w] \in {"clean", "find", "tell", "insert"}
    PROVE  GoneFirst(w)' /\ GoneKnows(w)' /\ ToldGone(w)'
  BY DEF GoneFirst, GoneKnows, ToldGone

LEMMA HandlerEnds ==
    ASSUME NEW w, stage'[w] = "idle", job'[w] = NoJob
    PROVE  GoneFirst(w)' /\ GoneKnows(w)' /\ ToldGone(w)'
PROOF
  <1>1. job'[w].gone = {} /\ job'[w].inserted = {}
    BY DEF NoJob
  <1> QED
    BY <1>1, NothingGone

LEMMA KnownSame ==
    ASSUME NEW w, KnownRecorded(w), UNCHANGED <<versions, known, crashes>>, stage[w] # "insert"
    PROVE  KnownRecorded(w)'
  BY DEF KnownRecorded, Recorded

LEMMA SoloSame ==
    ASSUME NEW w, SoloInv(w), UNCHANGED <<versions, known, stage, job, crashes>>
    PROVE  SoloInv(w)'
  BY DEF SoloInv, GoneFirst, GoneKnows, ToldGone, KnownRecorded, Recorded

(* The steps of a handler that change neither the collection nor what is   *)
(* known.                                                                  *)
LEMMA QuietSteps ==
    ASSUME TypeOK, NEW w \in Workers, SoloInv(w),
           \/ RecheckNewVersion(w) \/ OnImageUpdated(w) \/ ListTags(w) \/ Compare(w)
           \/ CheckNew(w) \/ FindServices(w)
    PROVE  SoloInv(w)'
PROOF
  <1>0. OutsideOK /\ VersionsOK /\ KnownOK /\ HandlersOK
    BY TypeParts
  <1>1. GoneFirst(w) /\ GoneKnows(w) /\ KnownRecorded(w)
    BY DEF SoloInv
  <1>2. UNCHANGED <<versions, known, crashes>> /\ stage[w] # "insert"
    BY DEF RecheckNewVersion, OnImageUpdated, ListTags, Compare, CheckNew, FindServices, store,
           counters, Fail
  <1>3. KnownRecorded(w)' /\ Recorded' = Recorded
    BY <1>1, <1>2, KnownSame DEF Recorded
  <1>4. CASE RecheckNewVersion(w) \/ OnImageUpdated(w)
    BY <1>0, <1>3, <1>4, StartRecheck, StartNotification, NothingGone DEF SoloInv
  <1>5. CASE ListTags(w)
    <2>1. CASE stage'[w] = "idle" /\ job'[w] = NoJob
      BY <1>3, <2>1, HandlerEnds DEF SoloInv
    <2>2. CASE /\ stage'[w] = "compare" /\ stage[w] = "list"
               /\ job'[w].gone = job[w].gone /\ job'[w].inserted = job[w].inserted
      BY <1>1, <1>2, <1>3, <2>2 DEF SoloInv, GoneFirst, GoneKnows, ToldGone
    <2> QED
      BY <1>0, <1>5, <2>1, <2>2, ListTagsFacts
  <1>6. CASE Compare(w)
    <2>1. /\ stage'[w] = "clean" /\ stage[w] = "compare"
          /\ \A g \in job'[w].gone : g.version \in versions /\ g.service \in Users[g.version.tag]
          /\ job'[w].inserted = job[w].inserted
      BY <1>0, <1>6, CompareFacts
    <2>2. job[w].inserted = {}
      BY <1>1, <2>1 DEF GoneFirst
    <2> QED
      BY <1>0, <1>1, <1>2, <1>3, <2>1, <2>2
      DEF SoloInv, GoneFirst, GoneKnows, ToldGone, VersionsOK
  <1>7. CASE CheckNew(w)
    BY <1>0, <1>1, <1>3, <1>7, CheckNewFacts, HandlerEnds, NothingGone DEF SoloInv, GoneFirst
  <1>8. CASE FindServices(w)
    <2>1. /\ stage[w] = "find" /\ stage'[w] = "tell"
          /\ job'[w].gone = job[w].gone /\ job'[w].inserted = job[w].inserted
      BY <1>0, <1>8, FindServicesFacts
    <2> QED
      BY <1>1, <1>3, <2>1, NothingGone DEF SoloInv, GoneFirst
  <1> QED
    BY <1>4, <1>5, <1>6, <1>7, <1>8

(* clean_image: the service forgets the tag before its document goes.      *)
LEMMA CleanSolo ==
    ASSUME TypeOK, NEW w \in Workers, SoloInv(w), CleanImage(w)
    PROVE  SoloInv(w)'
PROOF
  <1>0. VersionsOK /\ KnownOK /\ HandlersOK
    BY TypeParts
  <1>1. GoneFirst(w) /\ GoneKnows(w) /\ KnownRecorded(w)
    BY DEF SoloInv
  <1>2. /\ stage[w] = "clean" /\ stage'[w] = "remove" /\ job'[w].gone \subseteq job[w].gone
        /\ job'[w].inserted = job[w].inserted
    BY <1>0, CleanImageFacts
  <1>3. PICK g \in job[w].gone :
           /\ g.service \in Services
           /\ known' = [known EXCEPT ![g.service] = @ \ {g.version.tag}]
           /\ job'[w].removing = g.version.id
    BY <1>0, CleanImageFacts
  <1>4. versions' = versions /\ crashes' = crashes
    BY DEF CleanImage, counters
  <1>5. \A s \in Services : known'[s] \subseteq known[s]
    BY <1>0, <1>3 DEF KnownOK
  <1>6. job[w].inserted = {}
    BY <1>1, <1>3 DEF GoneFirst
  <1>7. GoneFirst(w)' /\ GoneKnows(w)'
    BY <1>1, <1>2, <1>4, <1>6 DEF GoneFirst, GoneKnows
  <1>8. ToldGone(w)'
    <2> SUFFICES ASSUME NEW v \in versions, v.id = g.version.id,
                        NEW s \in Services, Private(v.tag, s)
                 PROVE  v.tag \notin known'[s]
      BY <1>3, <1>4 DEF ToldGone, Private
    <2>1. v = g.version /\ g.service \in Users[g.version.tag]
      BY <1>1, <1>3 DEF GoneKnows
    <2>2. s = g.service
      BY <2>1 DEF Private
    <2> QED
      BY <1>0, <1>3, <2>1, <2>2 DEF KnownOK
  <1>9. KnownRecorded(w)'
    BY <1>1, <1>2, <1>4, <1>5 DEF KnownRecorded, Recorded
  <1> QED
    BY <1>7, <1>8, <1>9 DEF SoloInv

LEMMA RemoveSolo ==
    ASSUME TypeOK, NEW w \in Workers, SoloInv(w), RemoveVersion(w)
    PROVE  SoloInv(w)'
PROOF
  <1>0. VersionsOK /\ HandlersOK
    BY TypeParts
  <1>1. GoneFirst(w) /\ GoneKnows(w) /\ ToldGone(w) /\ KnownRecorded(w)
    BY DEF SoloInv
  <1>2. /\ stage[w] = "remove" /\ stage'[w] = "clean" /\ job'[w] = job[w]
        /\ versions' = {v \in versions : v.id # job[w].removing}
    BY <1>0, RemoveVersionFacts
  <1>3. known' = known /\ crashes' = crashes
    BY DEF RemoveVersion, counters
  <1>4. job[w].inserted = {}
    BY <1>1, <1>2 DEF GoneFirst
  <1>5. GoneFirst(w)' /\ GoneKnows(w)' /\ ToldGone(w)'
    BY <1>1, <1>2, <1>4 DEF GoneFirst, GoneKnows, ToldGone
  <1>6. KnownRecorded(w)'
    <2> SUFFICES ASSUME crashes = 0, NEW s \in Services, NEW t \in Tags,
                        Private(t, s), t \in known[s]
                 PROVE  \E v \in versions' : v.tag = t
      BY <1>3 DEF KnownRecorded, Recorded, Private
    <2>1. PICK v \in versions : v.tag = t
      BY <1>1, <1>2 DEF KnownRecorded, Recorded
    <2>2. v.id # job[w].removing
      BY <1>1, <1>2, <2>1 DEF ToldGone
    <2> QED
      BY <1>2, <2>1, <2>2
  <1> QED
    BY <1>5, <1>6 DEF SoloInv

LEMMA NotifySolo ==
    ASSUME TypeOK, NEW w \in Workers, SoloInv(w), NotifyNewImage(w)
    PROVE  SoloInv(w)'
PROOF
  <1>0. KnownOK /\ HandlersOK
    BY TypeParts
  <1>1. GoneFirst(w) /\ KnownRecorded(w)
    BY DEF SoloInv
  <1>2. stage[w] = "tell" /\ versions' = versions /\ crashes' = crashes /\ Recorded' = Recorded
    BY <1>0, NotifyFacts DEF NotifyNewImage, Recorded
  <1>3. CASE known' = known
    <2>1. KnownRecorded(w)'
      BY <1>1, <1>2, <1>3, KnownSame
    <2>2. GoneFirst(w)' /\ GoneKnows(w)' /\ ToldGone(w)'
      <3>1. CASE stage'[w] = "idle" /\ job'[w] = NoJob
        BY <3>1, HandlerEnds
      <3>2. CASE ~ (stage'[w] = "idle" /\ job'[w] = NoJob)
        <4>1. /\ job'[w].gone = job[w].gone /\ job'[w].inserted = job[w].inserted
              /\ stage'[w] \in {"clean", "insert"}
          BY <1>0, <3>2, NotifyFacts
        <4> QED
          BY <1>1, <1>2, <4>1, NothingGone DEF GoneFirst
      <3> QED
        BY <3>1, <3>2
    <2> QED
      BY <2>1, <2>2 DEF SoloInv
  <1>4. ASSUME NEW s \in Services, known' = [known EXCEPT ![s] = @ \cup {job[w].tag}],
               stage'[w] = "insert", job'[w].tag = job[w].tag,
               job'[w].gone = job[w].gone, job'[w].inserted = job[w].inserted
        PROVE  SoloInv(w)'
    <2>1. GoneFirst(w)' /\ GoneKnows(w)' /\ ToldGone(w)'
      BY <1>1, <1>2, <1>4, NothingGone DEF GoneFirst
    <2>2. \A x \in Services : \A t \in known'[x] : t \in known[x] \/ t = job[w].tag
      BY <1>0, <1>4 DEF KnownOK
    <2>3. KnownRecorded(w)'
      BY <1>1, <1>2, <1>4, <2>2 DEF KnownRecorded, Private
    <2> QED
      BY <2>1, <2>3 DEF SoloInv
  <1> QED
    BY <1>0, <1>3, <1>4, NotifyFacts

(* insert_version: recorded now, or already by this handler.               *)
LEMMA InsertSolo ==
    ASSUME TypeOK, NEW w \in Workers, SoloInv(w), InsertVersion(w)
    PROVE  SoloInv(w)'
PROOF
  <1>0. VersionsOK /\ HandlersOK
    BY TypeParts
  <1>1. GoneFirst(w) /\ KnownRecorded(w)
    BY DEF SoloInv
  <1>2. stage[w] = "insert" /\ known' = known /\ crashes' = crashes
    BY <1>0, InsertFacts DEF InsertVersion, counters
  <1>3. CASE /\ job[w].tag \in job[w].inserted /\ versions' = versions
             /\ stage'[w] = "idle" /\ job'[w] = NoJob
    <2>1. job[w].tag \in Recorded
      BY <1>1, <1>3 DEF GoneFirst
    <2>2. KnownRecorded(w)'
      BY <1>1, <1>2, <1>3, <2>1 DEF KnownRecorded, Recorded
    <2> QED
      BY <1>3, <2>2, HandlerEnds DEF SoloInv
  <1>4. CASE /\ versions' = versions \cup {[tag |-> job[w].tag, id |-> nextId]}
             /\ stage'[w] = "tell" /\ job'[w].gone = job[w].gone
             /\ job'[w].inserted = job[w].inserted \cup {job[w].tag}
    <2>1. Recorded' = Recorded \cup {job[w].tag}
      <3>1. PICK x : x = [tag |-> job[w].tag, id |-> nextId]
        OBVIOUS
      <3>2. x.tag = job[w].tag /\ versions' = versions \cup {x}
        BY <1>4, <3>1
      <3>3. {v.tag : v \in versions \cup {x}} = {v.tag : v \in versions} \cup {x.tag}
        OBVIOUS
      <3> QED
        BY <3>2, <3>3 DEF Recorded
    <2>2. job'[w].inserted \subseteq Recorded' /\ job'[w].gone = {}
      BY <1>1, <1>2, <1>4, <2>1 DEF GoneFirst
    <2>3. GoneFirst(w)' /\ GoneKnows(w)' /\ ToldGone(w)'
      BY <1>4, <2>2, NothingGone
    <2>4. KnownRecorded(w)'
      BY <1>1, <1>2, <2>1 DEF KnownRecorded, Private
    <2> QED
      BY <2>3, <2>4 DEF SoloInv
  <1> QED
    BY <1>0, <1>3, <1>4, InsertFacts

LEMMA SoloStep ==
    ASSUME NEW w, Workers = {w}, TypeOK, SoloInv(w), [Next]_vars
    PROVE  SoloInv(w)'
PROOF
  <1>1. ASSUME NEW t \in Tags, Push(t) \/ Delete(t) PROVE SoloInv(w)'
    BY <1>1, EnvironmentKeeps, SoloSame DEF Push, Delete
  <1>2. ASSUME NEW s \in Services, Watch(s) PROVE SoloInv(w)'
    BY <1>2, EnvironmentKeeps, SoloSame DEF Watch
  <1>3. CASE Crash(w)
    <2>1. stage'[w] = "idle" /\ job'[w] = NoJob
      BY <1>3, FinishFacts, TypeParts DEF Crash
    <2>2. crashes' # 0
      BY <1>3, TypeParts DEF Crash, CountersOK
    <2> QED
      BY <2>1, <2>2, HandlerEnds DEF SoloInv, KnownRecorded
  <1>4. CASE Work(w) \/ OnImageUpdated(w) \/ RecheckNewVersion(w)
    BY <1>4, QuietSteps, CleanSolo, RemoveSolo, NotifySolo, InsertSolo DEF Work
  <1>5. CASE UNCHANGED vars
    BY <1>5, SoloSame DEF vars, store, counters
  <1> QED
    BY <1>1, <1>2, <1>3, <1>4, <1>5 DEF Next, Quiet

(* on_image_updated, recheck_new_version: with one worker and until it     *)
(* crashes, whatever calls fail, a tag that a service alone uses and was   *)
(* told of is in the collection between two handlers: were it not, nobody  *)
(* would ever notice that the registry has lost it.                        *)
THEOREM HistoryIsComplete ==
    ASSUME NEW w, Workers = {w}
    PROVE  Spec => []KnownIsRecorded
PROOF
  <1>1. Init => SoloInv(w)
    BY SoloInit
  <1>2. TypeOK /\ SoloInv(w) /\ [Next]_vars => SoloInv(w)'
    BY SoloStep
  <1>3. SoloInv(w) => KnownIsRecorded
    BY DEF SoloInv, KnownRecorded, KnownIsRecorded
  <1>4. Spec => []TypeOK
    BY TypeCorrect
  <1> QED
    BY <1>1, <1>2, <1>3, <1>4, PTL DEF Spec
===============================================================================
