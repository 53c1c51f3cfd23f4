---------------------------- MODULE MonitoringProofs ----------------------------
(***************************************************************************)
(* What Monitoring promises for every number of instances, queues and      *)
(* rulesets: no queue is polled twice in a period unless it is tracked     *)
(* again, as what find_and_modify leaves out for a tick is at least what   *)
(* was polled recently and not tracked since; the types,                   *)
(* for any number of workers of the trigger; and, for a single one, that   *)
(* the owner of a ruleset is told what is recorded, that the date of a     *)
(* result only changes with it, and that a since-clause waits.             *)
(***************************************************************************)
EXTENDS Monitoring, FiniteSetTheorems, WellFoundedInduction, TLAPS

Recent == {q \in Queues : check[q] = "recent"}

(* The part of the monitorer's types that the dates depend on.             *)
TrackedOK == tracked \in Seq(Queues)
TimersOK ==
    /\ check \in [Queues -> M!Ages]
    /\ tick \in [Instances -> {"off", "idle", "search", "measure", "dispatch"}]
    /\ fresh \in [Instances -> SUBSET Queues]
    /\ picked \in [Instances -> Queues \cup {M!AnyQueue}]

(* An instance whose tick is under way leaves out every recent queue, so   *)
(* that the date `since` of a tick is never too late.                      *)
RecentLeftOut == \A i \in Instances : tick[i] \notin {"idle", "off"} => Recent \subseteq fresh[i]

PollInv == TrackedOK /\ TimersOK /\ RecentLeftOut

-----------------------------------------------------------------------------
(* The queues that a find_and_modify may pick are due.                     *)
LEMMA FoundDue ==
    ASSUME PollInv, NEW i \in Instances, tick[i] = "search", NEW n \in M!Found(i)
    PROVE  tracked[n] \in Queues /\ check[tracked[n]] # "recent"
PROOF
  <1>1. n \in DOMAIN tracked /\ tracked[n] \notin fresh[i]
    BY DEF M!Found
  <1>2. tracked[n] \in Queues
    BY <1>1 DEF PollInv, TrackedOK
  <1>3. Recent \subseteq fresh[i]
    BY DEF PollInv, RecentLeftOut
  <1> QED
    BY <1>1, <1>2, <1>3 DEF Recent

LEMMA PollInit == Init => PollInv
PROOF
  <1> SUFFICES ASSUME Init PROVE PollInv
    OBVIOUS
  <1>1. PICK n \in 0 .. M!Cardinality(Queues) : tracked \in [1 .. n -> Queues]
    BY DEF Init, M!Init
  <1>2. TrackedOK
    <2>1. n \in Nat
      OBVIOUS
    <2> QED
      BY <1>1, <2>1 DEF TrackedOK
  <1>3. TimersOK
    BY DEF Init, M!Init, TimersOK, M!Ages
  <1>4. RecentLeftOut
    BY DEF Init, M!Init, RecentLeftOut
  <1> QED
    BY <1>2, <1>3, <1>4 DEF PollInv

-----------------------------------------------------------------------------
(* The steps of the monitorer.                                             *)

LEMMA TimerKeeps ==
    ASSUME PollInv, NEW i \in Instances, M!Timer(i)
    PROVE  PollInv'
PROOF
  <1> USE DEF PollInv, TimersOK, TrackedOK, RecentLeftOut, Recent, M!Goto, M!Forget, M!Abort,
             M!Ages
  <1>1. CASE M!StartTick(i)
    BY <1>1 DEF M!StartTick
  <1>2. CASE M!Pick(i)
    <2>1. PICK n \in M!Found(i) :
             /\ picked' = [picked EXCEPT ![i] = tracked[n]]
             /\ check' = [check EXCEPT ![tracked[n]] = "recent"]
             /\ fresh' = [j \in Instances |->
                             IF tick[j] \in {"idle", "off"} THEN fresh[j]
                             ELSE fresh[j] \cup {tracked[n]}]
      BY <1>2 DEF M!Pick
    <2>2. tick[i] = "search" /\ tick' = [tick EXCEPT ![i] = "measure"] /\ tracked' = tracked
      BY <1>2 DEF M!Pick
    <2>3. tracked[n] \in Queues
      BY <2>2, FoundDue
    <2> QED
      BY <2>1, <2>2, <2>3
  <1>3. CASE M!EndTick(i)
    BY <1>3 DEF M!EndTick
  <1>4. CASE M!Measure(i)
    BY <1>4 DEF M!Measure
  <1>5. CASE M!Dispatch(i)
    BY <1>5 DEF M!Dispatch
  <1> QED
    BY <1>1, <1>2, <1>3, <1>4, <1>5 DEF M!Timer

LEMMA FailKeeps ==
    ASSUME PollInv, NEW i \in Instances, M!Fail(i)
    PROVE  PollInv'
  BY DEF PollInv, TimersOK, TrackedOK, RecentLeftOut, Recent, M!Fail, M!Abort, M!Goto, M!Forget

(* A queue that gets due, or whose document is replaced, is recent no more. *)
LEMMA DueKeeps ==
    ASSUME PollInv, NEW q \in Queues, M!GetsDue(q)
    PROVE  PollInv'
  BY DEF PollInv, TimersOK, TrackedOK, RecentLeftOut, Recent, M!GetsDue, M!timers, M!Ages

LEMMA TrackKeeps ==
    ASSUME PollInv, NEW q \in Queues, M!Track(q), UNCHANGED <<tick, picked, metrics>>
    PROVE  PollInv'
  BY DEF PollInv, TimersOK, TrackedOK, RecentLeftOut, Recent, M!Track, M!Tracked, M!Ages

LEMMA OthersKeep ==
    ASSUME PollInv, UNCHANGED <<tracked, check, tick, fresh, picked>>
    PROVE  PollInv'
  BY DEF PollInv, TimersOK, TrackedOK, RecentLeftOut, Recent

LEMMA PollStep == PollInv /\ [Next]_vars => PollInv'
PROOF
  <1> SUFFICES ASSUME PollInv, [Next]_vars PROVE PollInv'
    OBVIOUS
  <1>1. ASSUME NEW i \in Instances, MonitorerStep(i) PROVE PollInv'
    BY <1>1, TimerKeeps DEF MonitorerStep
  <1>2. ASSUME NEW i \in Instances, MonitorerFails(i) PROVE PollInv'
    BY <1>2, FailKeeps DEF MonitorerFails
  <1>3. ASSUME NEW q \in Queues, QueueGetsDue(q) PROVE PollInv'
    BY <1>3, DueKeeps DEF QueueGetsDue
  <1>4. ASSUME NEW w \in Workers, NEW q \in Queues, TrackResource(w, q) PROVE PollInv'
    BY <1>4, TrackKeeps DEF TrackResource
  <1>5. CASE UNCHANGED <<tracked, check, tick, fresh, picked>>
    BY <1>5, OthersKeep
  <1> QED
    BY <1>1, <1>2, <1>3, <1>4, <1>5
    DEF Next, LevelChanges, M!Change, M!timers, TriggerStep, AddRuleset, DeleteRuleset,
        TriggerRestarts, ResultsAge, monitorerOwn, vars

(* The types of the timers, and that no tick has a date too late, hold of  *)
(* every behaviour, with or without fairness.                              *)
THEOREM PollInvariant == Spec => []PollInv
  BY PollInit, PollStep, PTL DEF Spec

(* time_tick: of any number of instances, none polls a queue that another, *)
(* or itself, polled in the last 4 seconds, unless track reset the date of *)
(* the queue since that poll.                                              *)
THEOREM QueuesPolledOnce == Spec => OnePollPerPeriod
PROOF
  <1>1. PollInv /\ [Next]_vars =>
            [\A i \in Instances : tick[i] = "search" /\ tick'[i] = "measure" =>
                check[picked'[i]] # "recent"]_vars
    <2> SUFFICES ASSUME PollInv, Next, NEW i \in Instances,
                        tick[i] = "search", tick'[i] = "measure"
                 PROVE  check[picked'[i]] # "recent"
      OBVIOUS
    <2>1. ASSUME NEW j \in Instances, M!Pick(j) PROVE check[picked'[i]] # "recent"
      <3>1. i = j
        BY <2>1 DEF M!Pick, M!Goto, PollInv, TimersOK
      <3>2. PICK n \in M!Found(i) : picked' = [picked EXCEPT ![i] = tracked[n]]
        BY <2>1, <3>1 DEF M!Pick
      <3>3. check[tracked[n]] # "recent"
        BY FoundDue
      <3> QED
        BY <3>2, <3>3 DEF PollInv, TimersOK
    <2>2. ASSUME NEW j \in Instances, M!Timer(j) PROVE M!Pick(j)
      BY <2>2 DEF M!Timer, M!StartTick, M!EndTick, M!Measure, M!Abort, M!Dispatch,
                  M!Goto, PollInv, TimersOK
    <2>3. ASSUME NEW j \in Instances, M!Fail(j) PROVE FALSE
      BY <2>3 DEF M!Fail, M!Abort, M!Goto, PollInv, TimersOK
    <2>4. tick' # tick
      OBVIOUS
    <2> QED
      BY <2>1, <2>2, <2>3, <2>4
      DEF Next, MonitorerStep, MonitorerFails, QueueGetsDue, M!GetsDue, LevelChanges,
          M!Change, M!timers, TrackResource, TriggerStep, AddRuleset, DeleteRuleset,
          TriggerRestarts, ResultsAge, monitorerOwn
  <1> QED
    BY <1>1, PollInvariant, PTL DEF Spec, OnePollPerPeriod

-----------------------------------------------------------------------------
(* Lemmas on the operators of the trigger                                  *)

(* A set of numbers has a least one.                                       *)
LEMMA LeastOf ==
    ASSUME NEW S \in SUBSET Nat, S # {}
    PROVE  \E m \in S : \A n \in S : m <= n
PROOF
  <1> DEFINE R == OpToRel(<, Nat)
  <1>1. IsWellFoundedOn(R, Nat)
    BY NatLessThanWellFounded
  <1>2. \A x, y \in Nat : <<x, y>> \in R <=> x < y
    BY DEF OpToRel
  <1> HIDE DEF R
  <1>3. PICK m \in S : \A n \in S : ~ (<<n, m>> \in R)
    BY <1>1, WFMin
  <1>4. ASSUME NEW n \in S PROVE m <= n
    <2>1. m \in Nat /\ n \in Nat
      OBVIOUS
    <2>2. ~ (n < m)
      BY <1>2, <1>3, <2>1
    <2> QED
      BY <2>1, <2>2
  <1> QED
    BY <1>4

LEMMA FirstFacts ==
    ASSUME NEW S \in SUBSET Nat, S # {}
    PROVE  T!First(S) \in S /\ \A n \in S : T!First(S) <= n
  BY LeastOf DEF T!First

LEMMA RulesFacts ==
    ASSUME NEW s \in Rulesets
    PROVE  /\ Len(RulesOf[s]) \in Nat /\ DOMAIN RulesOf[s] = 1 .. Len(RulesOf[s])
           /\ \A n \in DOMAIN RulesOf[s] :
                 /\ RulesOf[s][n].name \in T!Names(s)
                 /\ RulesOf[s][n].op = "held" => RulesOf[s][n].arg \in T!Names(s)
           /\ \A m, n \in DOMAIN RulesOf[s] : RulesOf[s][m].name = RulesOf[s][n].name => m = n
PROOF
  <1> DEFINE R == [name: STRING, op: {"over", "under"}, arg: T!Uses(s)]
                    \cup [name: STRING, op: {"held", "raises"}, arg: T!Names(s)]
  <1>1. /\ RulesOf[s] \in Seq(R)
        /\ \A m, n \in DOMAIN RulesOf[s] : RulesOf[s][m].name = RulesOf[s][n].name => m = n
    BY MonitoringAssumption DEF T!TriggerConstants
  <1>2. Len(RulesOf[s]) \in Nat /\ DOMAIN RulesOf[s] = 1 .. Len(RulesOf[s])
    BY <1>1
  <1>3. \A n \in DOMAIN RulesOf[s] : RulesOf[s][n] \in R
    BY <1>1
  <1>4. \A n \in DOMAIN RulesOf[s] : RulesOf[s][n].op = "held" => RulesOf[s][n].arg \in T!Names(s)
    BY <1>3
  <1> QED
    BY <1>1, <1>2, <1>4 DEF T!Names

(* One more rule is computed.                                              *)
Computed(s, d, so, n) ==
    T!With(so, RulesOf[s][n].name, IF T!Holds(d, so, RulesOf[s][n]) THEN "yes" ELSE "no")

(* The results of the first rules, up to n.                                *)
IsUpto(s, d, n, u) == u = [k \in 0 .. n |-> IF k = 0 THEN << >> ELSE Computed(s, d, u[k - 1], k)]

LEMMA UptoExists ==
    ASSUME NEW s, NEW d, NEW L \in Nat
    PROVE  \E u : IsUpto(s, d, L, u)
PROOF
  <1> DEFINE S == {n \in Nat : ~ \E u : IsUpto(s, d, n, u)}
  <1>1. SUFFICES S = {}
    OBVIOUS
  <1>2. SUFFICES ASSUME S # {} PROVE FALSE
    OBVIOUS
  <1>3. PICK m \in S : \A n \in S : m <= n
    BY <1>2, LeastOf
  <1>4. m \in Nat /\ ~ \E u : IsUpto(s, d, m, u)
    OBVIOUS
  <1>5. CASE m = 0
    <2>1. IsUpto(s, d, 0, [k \in 0 .. 0 |-> << >>])
      BY DEF IsUpto
    <2> QED
      BY <1>4, <1>5, <2>1
  <1>6. CASE m # 0
    <2>1. m - 1 \in Nat /\ m - 1 \notin S
      BY <1>3, <1>4, <1>6
    <2>2. PICK u : IsUpto(s, d, m - 1, u)
      BY <2>1
    <2> DEFINE v == [k \in 0 .. m |-> IF k < m THEN u[k] ELSE Computed(s, d, u[m - 1], m)]
    <2>3. \A k \in 0 .. m : v[k] = IF k = 0 THEN << >> ELSE Computed(s, d, v[k - 1], k)
      <3> SUFFICES ASSUME NEW k \in 0 .. m
                   PROVE  v[k] = IF k = 0 THEN << >> ELSE Computed(s, d, v[k - 1], k)
        OBVIOUS
      <3>1. CASE k < m
        <4>1. k \in 0 .. m - 1
          BY <1>4, <3>1
        <4>2. v[k] = u[k] /\ (k # 0 => v[k - 1] = u[k - 1])
          BY <1>4, <3>1
        <4> QED
          BY <2>2, <4>1, <4>2 DEF IsUpto
      <3>2. CASE k = m
        BY <1>4, <1>6, <3>2
      <3> QED
        BY <1>4, <3>1, <3>2
    <2>4. v = [k \in 0 .. m |-> IF k = 0 THEN << >> ELSE Computed(s, d, v[k - 1], k)]
      <3> HIDE DEF v
      <3>1. v = [k \in 0 .. m |-> v[k]]
        BY DEF v
      <3> QED
        BY <2>3, <3>1
    <2> QED
      BY <1>4, <2>4 DEF IsUpto
  <1> QED
    BY <1>5, <1>6

LEMMA SolveUpto ==
    ASSUME NEW s \in Rulesets, NEW d
    PROVE  \E u : IsUpto(s, d, Len(RulesOf[s]), u) /\ T!Solve(s, d) = u[Len(RulesOf[s])]
PROOF
  <1>1. \E u : IsUpto(s, d, Len(RulesOf[s]), u)
    BY UptoExists, RulesFacts
  <1> QED
    BY <1>1 DEF IsUpto, Computed, T!Solve, T!Empty

(* The results so far: one per rule computed, with those before it.        *)
ResultOf(s, d, u, k) == IF T!Holds(d, u[k - 1], RulesOf[s][k]) THEN "yes" ELSE "no"

UptoGood(s, d, u, n) ==
    /\ u[n] \in [{RulesOf[s][k].name : k \in 1 .. n} -> {"yes", "no"}]
    /\ \A k \in 1 .. n : u[n][RulesOf[s][k].name] = ResultOf(s, d, u, k)

LEMMA UptoValues ==
    ASSUME NEW s \in Rulesets, NEW d, NEW u, IsUpto(s, d, Len(RulesOf[s]), u)
    PROVE  \A n \in 0 .. Len(RulesOf[s]) : UptoGood(s, d, u, n)
PROOF
  <1> DEFINE L == Len(RulesOf[s])
             name(k) == RulesOf[s][k].name
             result(k) == ResultOf(s, d, u, k)
             S == {n \in 0 .. L : ~ UptoGood(s, d, u, n)}
  <1>1. L \in Nat /\ \A j, k \in 1 .. L : name(j) = name(k) => j = k
    BY RulesFacts
  <1>2. /\ u[0] = << >>
        /\ \A n \in 1 .. L : u[n] = T!With(u[n - 1], name(n), result(n))
    BY <1>1 DEF IsUpto, Computed, ResultOf
  <1>3. \A k : result(k) \in {"yes", "no"}
    BY DEF ResultOf
  <1>10. ASSUME NEW n
         PROVE  UptoGood(s, d, u, n) <=>
                   /\ u[n] \in [{name(k) : k \in 1 .. n} -> {"yes", "no"}]
                   /\ \A k \in 1 .. n : u[n][name(k)] = result(k)
    BY DEF UptoGood
  <1> HIDE DEF L, name, result
  <1>4. SUFFICES S = {}
    BY DEF L
  <1>5. SUFFICES ASSUME S # {} PROVE FALSE
    OBVIOUS
  <1>6. PICK m \in S : \A n \in S : m <= n
    <2>1. S \in SUBSET Nat
      BY <1>1
    <2> QED
      BY <1>5, <2>1, LeastOf
  <1>7. m \in 0 .. L /\ ~ UptoGood(s, d, u, m)
    OBVIOUS
  <1>8. CASE m = 0
    <2>1. {name(k) : k \in 1 .. 0} = {}
      OBVIOUS
    <2>2. << >> \in [{} -> {"yes", "no"}]
      OBVIOUS
    <2>3. UptoGood(s, d, u, 0)
      <3>1. u[0] = << >>
        BY <1>2
      <3>2. u[0] \in [{name(k) : k \in 1 .. 0} -> {"yes", "no"}]
        BY <2>1, <2>2, <3>1
      <3>3. \A k \in 1 .. 0 : u[0][name(k)] = result(k)
        OBVIOUS
      <3> QED
        BY <1>10, <3>2, <3>3
    <2> QED
      BY <1>7, <1>8, <2>3
  <1>9. CASE m # 0
    <2>1. m \in 1 .. L /\ m - 1 \in 0 .. L /\ m - 1 \notin S
      BY <1>1, <1>6, <1>7, <1>9
    <2>2. /\ u[m - 1] \in [{name(k) : k \in 1 .. m - 1} -> {"yes", "no"}]
          /\ \A k \in 1 .. m - 1 : u[m - 1][name(k)] = result(k)
      BY <1>10, <2>1
    <2>3. u[m] = [y \in DOMAIN u[m - 1] \cup {name(m)} |->
                     IF y = name(m) THEN result(m) ELSE u[m - 1][y]]
      BY <1>2, <2>1 DEF T!With
    <2>4. {name(k) : k \in 1 .. m} = {name(k) : k \in 1 .. m - 1} \cup {name(m)}
      <3>1. \A k \in 1 .. m : k \in 1 .. m - 1 \/ k = m
        BY <2>1
      <3>2. m \in 1 .. m /\ \A k \in 1 .. m - 1 : k \in 1 .. m
        BY <2>1
      <3> QED
        BY <3>1, <3>2
    <2>5. u[m] \in [{name(k) : k \in 1 .. m} -> {"yes", "no"}]
      BY <1>3, <2>2, <2>3, <2>4
    <2>6. ASSUME NEW k \in 1 .. m PROVE u[m][name(k)] = result(k)
      <3>1. CASE k = m
        BY <2>3, <3>1
      <3>2. CASE k # m
        <4>1. k \in 1 .. m - 1 /\ k \in 1 .. L /\ name(k) # name(m)
          BY <1>1, <2>1, <3>2
        <4> QED
          BY <2>2, <2>3, <4>1
      <3> QED
        BY <3>1, <3>2
    <2> QED
      BY <1>7, <1>10, <2>5, <2>6
  <1> QED
    BY <1>8, <1>9

(* _solve_rules: a result per rule; a rule that waits for another holds    *)
(* only if that one had held for long and, if computed before, still does. *)
LEMMA SolveFacts ==
    ASSUME NEW s \in Rulesets, NEW d
    PROVE  /\ T!Solve(s, d) \in [T!Names(s) -> {"yes", "no"}]
           /\ \A n \in DOMAIN RulesOf[s] :
                 LET rule == RulesOf[s][n]
                 IN rule.op = "held" /\ T!Solve(s, d)[rule.name] = "yes" =>
                       /\ d.result[rule.arg] = "yes" /\ rule.arg \in d.held
                       /\ \A k \in DOMAIN RulesOf[s] :
                             k < n /\ RulesOf[s][k].name = rule.arg =>
                                T!Solve(s, d)[rule.arg] = d.result[rule.arg]
PROOF
  <1> DEFINE L == Len(RulesOf[s])
  <1>1. PICK u : IsUpto(s, d, L, u) /\ T!Solve(s, d) = u[L]
    BY SolveUpto
  <1>2. L \in Nat /\ DOMAIN RulesOf[s] = 1 .. L
    BY RulesFacts
  <1> HIDE DEF L
  <1>3. \A n \in 0 .. L : UptoGood(s, d, u, n)
    BY <1>1, UptoValues DEF L
  <1>6. UptoGood(s, d, u, L)
    BY <1>2, <1>3
  <1>4. T!Solve(s, d) \in [T!Names(s) -> {"yes", "no"}]
    BY <1>1, <1>2, <1>6 DEF T!Names, UptoGood
  <1>5. ASSUME NEW n \in 1 .. L, RulesOf[s][n].op = "held",
               T!Solve(s, d)[RulesOf[s][n].name] = "yes"
        PROVE  LET x == RulesOf[s][n].arg
               IN /\ d.result[x] = "yes" /\ x \in d.held
                  /\ \A k \in 1 .. L : k < n /\ RulesOf[s][k].name = x =>
                        T!Solve(s, d)[x] = d.result[x]
    <2> DEFINE x == RulesOf[s][n].arg
               so == u[n - 1]
    <2>1. n - 1 \in 0 .. L
      BY <1>2
    <2>2. T!Holds(d, so, RulesOf[s][n])
      BY <1>1, <1>5, <1>6 DEF UptoGood, ResultOf
    <2>3. T!ResultSoFar(d, so, x) /\ T!HeldSoFar(d, so, x)
      BY <1>5, <2>2 DEF T!Holds
    <2>4. d.result[x] = "yes" /\ x \in d.held /\ (x \in DOMAIN so => so[x] = d.result[x])
      BY <2>3 DEF T!ResultSoFar, T!HeldSoFar
    <2>5. ASSUME NEW k \in 1 .. L, k < n, RulesOf[s][k].name = x
          PROVE  T!Solve(s, d)[x] = d.result[x]
      <3>1. k \in 1 .. n - 1
        BY <1>2, <2>5
      <3>2. UptoGood(s, d, u, n - 1)
        BY <1>3, <2>1
      <3>3. x \in DOMAIN so /\ so[x] = ResultOf(s, d, u, k)
        BY <2>5, <3>1, <3>2 DEF UptoGood
      <3>4. u[L][x] = ResultOf(s, d, u, k)
        BY <1>6, <2>5 DEF UptoGood
      <3> QED
        BY <1>1, <2>4, <3>3, <3>4
    <2> QED
      BY <2>4, <2>5
  <1> QED
    BY <1>2, <1>4, <1>5

-----------------------------------------------------------------------------
(* The types                                                               *)

AgendaOK == TrackedOK /\ M!Cardinality(M!TrackedQueues) = Len(tracked)
PollsOK == TimersOK /\ picked \in [Instances -> Queues] /\ metrics \in [Instances -> Levels]
ReportsOK ==
    /\ level \in [Queues -> Levels]
    /\ reports \in Seq(T!Report) /\ Len(reports) <= MaxReports
    /\ inputs \in 0 .. MaxInputs
RulesetsOK ==
    /\ DOMAIN rulesets \subseteq Rulesets
    /\ \A s \in DOMAIN rulesets : rulesets[s] \in T!Document(s)
    /\ nextId \in Nat
ToldOK ==
    /\ DOMAIN told = Rulesets
    /\ \A s \in Rulesets : told[s] \in [T!Names(s) -> T!Verdicts]

(* The locals of a handler.                                                *)
CopiesOK(w) ==
    /\ DOMAIN todo[w] \subseteq Rulesets
    /\ \A s \in DOMAIN todo[w] : todo[w][s] \in T!Document(s) /\ report[w].queue \in T!Uses(s)
SavingOK(w) ==
    /\ stage[w] \in {"results", "dispatch"} =>
          /\ current[w] \in DOMAIN todo[w]
          /\ verdict[w] \in [T!Names(current[w]) -> {"yes", "no"}]
          /\ changed[w] \subseteq DOMAIN RulesOf[current[w]]
    /\ stage[w] = "results" => changed[w] # {}
    /\ stage[w] = "track" =>
          changed[w] # {} /\ changed[w] \subseteq DOMAIN Resources[current[w]]
HandlersOK ==
    /\ stage \in [Workers -> T!Stages]
    /\ report \in [Workers -> T!Report]
    /\ current \in [Workers -> Rulesets]
    /\ DOMAIN todo = Workers /\ DOMAIN verdict = Workers /\ DOMAIN changed = Workers
    /\ \A w \in Workers : CopiesOK(w) /\ SavingOK(w)

TriggerInv == RulesetsOK /\ ToldOK /\ HandlersOK
TypeInv == AgendaOK /\ PollsOK /\ ReportsOK /\ TriggerInv

LEMMA TriggerInvIsTypeOK == ReportsOK /\ TriggerInv => T!TypeOK
PROOF
  <1> SUFFICES ASSUME ReportsOK, TriggerInv PROVE T!TypeOK
    OBVIOUS
  <1>1. RulesetsOK /\ ToldOK /\ HandlersOK
    BY DEF TriggerInv
  <1>2. \A w \in Workers : CopiesOK(w) /\ SavingOK(w)
    BY <1>1 DEF HandlersOK
  <1> QED
    BY <1>1, <1>2 DEF T!TypeOK, ReportsOK, RulesetsOK, ToldOK, HandlersOK, CopiesOK, SavingOK

LEMMA TypeInvIsTypeOK == TypeInv => TypeOK
PROOF
  <1> SUFFICES ASSUME TypeInv PROVE TypeOK
    OBVIOUS
  <1>1. M!TypeOK
    BY DEF TypeInv, M!TypeOK, AgendaOK, TrackedOK, PollsOK, TimersOK, ReportsOK, M!Report,
           T!Report
  <1>2. T!TypeOK
    BY TriggerInvIsTypeOK DEF TypeInv
  <1> QED
    BY <1>1, <1>2 DEF TypeOK

-----------------------------------------------------------------------------
(* Facts about the constants.                                              *)

LEMMA ConstantsFacts ==
    /\ MaxReports \in Nat \ {0} /\ MaxInputs \in Nat
    /\ NoLatency \in Levels /\ InitialLevels \subseteq Levels /\ NoMetrics \notin Levels
    /\ Installed \subseteq SUBSET Rulesets
    /\ M!AnyQueue \in Queues /\ T!AnyRuleset \in Rulesets /\ T!NoReport \in T!Report
    /\ \A s \in Rulesets : T!Uses(s) \subseteq Queues
    /\ \A s \in Rulesets : DOMAIN Resources[s] \in SUBSET Nat /\ DOMAIN Resources[s] # {}
PROOF
  <1>1. M!MonitorerAssumption /\ T!TriggerConstants
    BY MonitoringAssumption
  <1>2. /\ MaxReports \in Nat \ {0} /\ MaxInputs \in Nat
        /\ NoLatency \in Levels /\ InitialLevels \subseteq Levels
    BY <1>1 DEF M!MonitorerAssumption
  <1>3. /\ Installed \subseteq SUBSET Rulesets /\ Rulesets # {} /\ NoMetrics \notin Levels
        /\ Resources \in [Rulesets -> Seq(Queues) \ {<< >>}]
    BY <1>1 DEF T!TriggerConstants
  <1>4. ASSUME NEW s \in Rulesets
        PROVE  /\ DOMAIN Resources[s] \in SUBSET Nat /\ DOMAIN Resources[s] # {}
               /\ T!Uses(s) \subseteq Queues
    <2>1. Resources[s] \in Seq(Queues) /\ Resources[s] # << >>
      BY <1>3
    <2>2. Len(Resources[s]) \in Nat \ {0} /\ DOMAIN Resources[s] = 1 .. Len(Resources[s])
      BY <2>1
    <2>3. \A n \in DOMAIN Resources[s] : Resources[s][n] \in Queues
      BY <2>1
    <2>4. 1 \in DOMAIN Resources[s]
      BY <2>2
    <2> QED
      BY <2>2, <2>3, <2>4 DEF T!Uses
  <1>5. T!AnyRuleset \in Rulesets
    BY <1>3 DEF T!AnyRuleset
  <1>6. Queues # {}
    <2>1. PICK n \in DOMAIN Resources[T!AnyRuleset] : TRUE
      BY <1>4, <1>5
    <2>2. Resources[T!AnyRuleset][n] \in Queues
      BY <1>4, <1>5 DEF T!Uses
    <2> QED
      BY <2>2
  <1>7. M!AnyQueue \in Queues
    BY <1>6 DEF M!AnyQueue
  <1>8. T!NoReport \in T!Report
    <2>1. [queue |-> M!AnyQueue, metrics |-> NoLatency] \in T!Report
      BY <1>2, <1>7 DEF T!Report
    <2> QED
      BY <2>1 DEF T!NoReport
  <1> QED
    BY <1>2, <1>3, <1>4, <1>5, <1>7, <1>8

-----------------------------------------------------------------------------
(* What the trigger does to a document leaves it a document of its ruleset. *)

LEMMA DocumentFields ==
    ASSUME NEW s \in Rulesets, NEW d
    PROVE  d \in T!Document(s) <=>
              /\ d = [id |-> d.id, metrics |-> d.metrics, result |-> d.result, held |-> d.held]
              /\ d.id \in Nat
              /\ d.metrics \in [T!Uses(s) -> Levels \cup {NoMetrics}]
              /\ d.result \in [T!Names(s) -> T!Verdicts]
              /\ d.held \in SUBSET T!Names(s)
  BY DEF T!Document

LEMMA MetricsKeepDocument ==
    ASSUME NEW s \in Rulesets, NEW d \in T!Document(s), NEW q, NEW m \in Levels
    PROVE  [d EXCEPT !.metrics[q] = m] \in T!Document(s)
PROOF
  <1> DEFINE x == [d.metrics EXCEPT ![q] = m]
  <1>1. x \in [T!Uses(s) -> Levels \cup {NoMetrics}]
    BY DocumentFields
  <1>2. [d EXCEPT !.metrics[q] = m] = [d EXCEPT !.metrics = x]
    BY DocumentFields
  <1> HIDE DEF x
  <1> QED
    BY <1>1, <1>2 DEF T!Document

LEMMA ResultKeepsDocument ==
    ASSUME NEW s \in Rulesets, NEW d \in T!Document(s), NEW r, NEW v \in T!Verdicts
    PROVE  [d EXCEPT !.result[r] = v, !.held = @ \ {r}] \in T!Document(s)
PROOF
  <1> DEFINE x == [d.result EXCEPT ![r] = v]
             h == d.held \ {r}
  <1>1. x \in [T!Names(s) -> T!Verdicts] /\ h \in SUBSET T!Names(s)
    BY DocumentFields
  <1>2. [d EXCEPT !.result[r] = v, !.held = @ \ {r}] = [d EXCEPT !.result = x, !.held = h]
    BY DocumentFields
  <1> HIDE DEF x, h
  <1> QED
    BY <1>1, <1>2 DEF T!Document

LEMMA AgeKeepsDocument ==
    ASSUME NEW s \in Rulesets, NEW d \in T!Document(s)
    PROVE  T!Old(d) \in T!Document(s)
PROOF
  <1> DEFINE h == {r \in DOMAIN d.result : d.result[r] # "unset"}
  <1>1. h \in SUBSET T!Names(s)
    BY DocumentFields
  <1>2. T!Old(d) = [d EXCEPT !.held = h]
    BY DEF T!Old
  <1> HIDE DEF h
  <1> QED
    BY <1>1, <1>2 DEF T!Document

LEMMA NewIsDocument ==
    ASSUME NEW s \in Rulesets, NEW id \in Nat
    PROVE  T!NewDocument(s, id) \in T!Document(s)
PROOF
  <1> DEFINE x == [q \in T!Uses(s) |-> NoMetrics]
             y == [r \in T!Names(s) |-> "unset"]
  <1>1. /\ x \in [T!Uses(s) -> Levels \cup {NoMetrics}]
        /\ y \in [T!Names(s) -> T!Verdicts]
    BY DEF T!Verdicts
  <1>2. T!NewDocument(s, id) = [id |-> id, metrics |-> x, result |-> y, held |-> {}]
    BY DEF T!NewDocument
  <1> HIDE DEF x, y
  <1> QED
    BY <1>1, <1>2 DEF T!Document

-----------------------------------------------------------------------------
LEMMA SameCardinality ==
    ASSUME NEW S
    PROVE  M!Cardinality(S) = Cardinality(S) /\ (M!IsFiniteSet(S) <=> IsFiniteSet(S))
  BY DEF M!Cardinality, Cardinality, M!IsFiniteSet, IsFiniteSet

LEMMA InitReports ==
    ASSUME M!Init
    PROVE  ReportsOK
PROOF
  <1>1. level \in [Queues -> Levels]
    BY ConstantsFacts DEF M!Init
  <1>2. reports = << >> /\ inputs = 0
    BY DEF M!Init
  <1>3. << >> \in Seq(T!Report) /\ Len(<< >>) = 0
    OBVIOUS
  <1>4. Len(reports) <= MaxReports /\ 0 \in 0 .. MaxInputs
    BY <1>2, <1>3, ConstantsFacts
  <1> QED
    BY <1>1, <1>2, <1>3, <1>4 DEF ReportsOK

LEMMA InitTrigger ==
    ASSUME T!Init
    PROVE  TriggerInv
PROOF
  <1>1. RulesetsOK
    <2>1. PICK I \in Installed : rulesets = [s \in I |-> T!NewDocument(s, 0)]
      BY DEF T!Init
    <2>2. I \subseteq Rulesets
      BY <2>1, ConstantsFacts
    <2>3. \A s \in I : rulesets[s] \in T!Document(s)
      BY <2>1, <2>2, NewIsDocument
    <2>4. nextId \in Nat
      BY DEF T!Init
    <2> QED
      BY <2>1, <2>2, <2>3, <2>4 DEF RulesetsOK
  <1>2. ToldOK
    BY DEF T!Init, ToldOK, T!Verdicts
  <1>3. /\ stage = [w \in Workers |-> "idle"]
        /\ report = [w \in Workers |-> T!NoReport]
        /\ todo = [w \in Workers |-> << >>]
        /\ current = [w \in Workers |-> T!AnyRuleset]
        /\ verdict = [w \in Workers |-> << >>]
        /\ changed = [w \in Workers |-> {}]
    BY DEF T!Init, T!Empty
  <1>4. ASSUME NEW w \in Workers PROVE CopiesOK(w) /\ SavingOK(w)
    BY <1>3 DEF CopiesOK, SavingOK
  <1>5. HandlersOK
    <2>1. /\ stage \in [Workers -> T!Stages] /\ report \in [Workers -> T!Report]
          /\ current \in [Workers -> Rulesets]
          /\ DOMAIN todo = Workers /\ DOMAIN verdict = Workers /\ DOMAIN changed = Workers
      BY <1>3, ConstantsFacts DEF T!Stages
    <2> QED
      BY <1>4, <2>1 DEF HandlersOK
  <1> QED
    BY <1>1, <1>2, <1>5 DEF TriggerInv

LEMMA InitMonitor ==
    ASSUME Init
    PROVE  AgendaOK /\ PollsOK
PROOF
  <1>1. PollInv
    BY PollInit
  <1>2. AgendaOK
    <2>1. PICK n \in 0 .. M!Cardinality(Queues) :
             tracked \in [1 .. n -> Queues] /\ M!Cardinality(M!TrackedQueues) = n
      BY DEF Init, M!Init
    <2>2. n \in Nat
      OBVIOUS
    <2>3. Len(tracked) = n
      BY <2>1, <2>2
    <2> QED
      BY <1>1, <2>1, <2>3 DEF AgendaOK, PollInv
  <1>3. PollsOK
    <2>1. /\ picked = [i \in Instances |-> M!AnyQueue]
          /\ metrics = [i \in Instances |-> NoLatency]
      BY DEF Init, M!Init
    <2> QED
      BY <1>1, <2>1, ConstantsFacts DEF PollsOK, PollInv
  <1> QED
    BY <1>2, <1>3

(* The steps of the monitorer alone.                                       *)
LEMMA AnnounceFacts ==
    ASSUME NEW Q \in Seq(T!Report), NEW x \in T!Report, Len(Q) < MaxReports
    PROVE  Append(Q, x) \in Seq(T!Report) /\ Len(Append(Q, x)) <= MaxReports
PROOF
  <1>1. Append(Q, x) \in Seq(T!Report) /\ Len(Append(Q, x)) = Len(Q) + 1 /\ Len(Q) \in Nat
    OBVIOUS
  <1> QED
    BY <1>1, ConstantsFacts

LEMMA TimerKeepsTypes ==
    ASSUME AgendaOK, PollsOK, ReportsOK, PollInv, NEW i \in Instances, M!Timer(i)
    PROVE  AgendaOK' /\ PollsOK' /\ ReportsOK'
PROOF
  <1>1. PollInv'
    BY TimerKeeps
  <1>2. tracked' = tracked
    BY DEF M!Timer, M!StartTick, M!Pick, M!EndTick, M!Measure, M!Dispatch
  <1>3. AgendaOK'
    BY <1>2 DEF AgendaOK, TrackedOK, M!TrackedQueues
  <1>4. /\ picked \in [Instances -> Queues] /\ metrics \in [Instances -> Levels]
        /\ level \in [Queues -> Levels]
    BY DEF PollsOK, ReportsOK
  <1>5. picked' \in [Instances -> Queues] /\ metrics' \in [Instances -> Levels]
    <2>1. CASE M!Pick(i)
      <3>1. tick[i] = "search" /\ metrics' = metrics
        BY <2>1 DEF M!Pick
      <3>2. PICK n \in M!Found(i) : picked' = [picked EXCEPT ![i] = tracked[n]]
        BY <2>1 DEF M!Pick
      <3>3. tracked[n] \in Queues
        BY <3>1, FoundDue
      <3> QED
        BY <1>4, <3>1, <3>2, <3>3
    <2>2. CASE M!Measure(i)
      BY <1>4, <2>2, ConstantsFacts DEF M!Measure, M!Abort, M!Forget
    <2>3. CASE M!Dispatch(i)
      BY <1>4, <2>3, ConstantsFacts DEF M!Dispatch, M!Forget
    <2>4. CASE M!StartTick(i) \/ M!EndTick(i)
      BY <1>4, <2>4 DEF M!StartTick, M!EndTick
    <2> QED
      BY <2>1, <2>2, <2>3, <2>4 DEF M!Timer
  <1>6. ReportsOK'
    <2>1. CASE M!Dispatch(i)
      <3> DEFINE x == [queue |-> picked[i], metrics |-> metrics[i]]
      <3>1. x \in T!Report
        BY <1>4 DEF T!Report
      <3>2. Len(reports) < MaxReports /\ reports' = Append(reports, x)
            /\ level' = level /\ inputs' = inputs
        BY <2>1 DEF M!Dispatch
      <3> HIDE DEF x
      <3>3. reports \in Seq(T!Report)
        BY DEF ReportsOK
      <3>4. reports' \in Seq(T!Report) /\ Len(reports') <= MaxReports
        BY <3>1, <3>2, <3>3, AnnounceFacts
      <3> QED
        BY <3>2, <3>4 DEF ReportsOK
    <2>2. CASE M!Measure(i)
      BY <2>2, ConstantsFacts DEF M!Measure, M!Environment, ReportsOK
    <2>3. CASE M!StartTick(i) \/ M!EndTick(i) \/ M!Pick(i)
      BY <2>3 DEF M!StartTick, M!EndTick, M!Pick, ReportsOK
    <2> QED
      BY <2>1, <2>2, <2>3 DEF M!Timer
  <1> QED
    BY <1>1, <1>3, <1>5, <1>6 DEF PollsOK, PollInv

LEMMA FailKeepsTypes ==
    ASSUME AgendaOK, PollsOK, ReportsOK, PollInv, NEW i \in Instances, M!Fail(i)
    PROVE  AgendaOK' /\ PollsOK' /\ ReportsOK'
PROOF
  <1>1. PollInv'
    BY FailKeeps
  <1>2. AgendaOK'
    BY DEF M!Fail, AgendaOK, TrackedOK, M!TrackedQueues
  <1>3. picked' \in [Instances -> Queues] /\ metrics' \in [Instances -> Levels]
    BY ConstantsFacts DEF M!Fail, M!Abort, M!Forget, PollsOK
  <1>4. ReportsOK'
    BY ConstantsFacts DEF M!Fail, M!Environment, ReportsOK
  <1> QED
    BY <1>1, <1>2, <1>3, <1>4 DEF PollsOK, PollInv

LEMMA ChangeKeepsTypes ==
    ASSUME AgendaOK, PollsOK, ReportsOK, PollInv, NEW q \in Queues, M!Change(q) \/ M!GetsDue(q)
    PROVE  AgendaOK' /\ PollsOK' /\ ReportsOK'
PROOF
  <1>1. PollInv'
    <2>1. CASE M!Change(q)
      BY <2>1, OthersKeep DEF M!Change, M!timers
    <2> QED
      BY <2>1, DueKeeps
  <1>2. AgendaOK'
    BY DEF M!Change, M!GetsDue, AgendaOK, TrackedOK, M!TrackedQueues
  <1>3. picked' \in [Instances -> Queues] /\ metrics' \in [Instances -> Levels]
    BY DEF M!Change, M!GetsDue, M!timers, PollsOK
  <1>4. ReportsOK'
    BY ConstantsFacts DEF M!Change, M!GetsDue, M!Environment, ReportsOK
  <1> QED
    BY <1>1, <1>2, <1>3, <1>4 DEF PollsOK, PollInv

(* track: the queue is there once, whether or not it was tracked before.   *)
LEMMA TrackKeepsTypes ==
    ASSUME AgendaOK, PollsOK, PollInv, NEW q \in Queues, M!Track(q),
           UNCHANGED <<tick, picked, metrics>>
    PROVE  AgendaOK' /\ PollsOK'
PROOF
  <1>1. PollInv'
    BY TrackKeeps
  <1>2. PollsOK'
    BY <1>1 DEF PollsOK, PollInv
  <1>3. CASE q \in M!TrackedQueues
    <2>1. tracked' = tracked
      BY <1>3 DEF M!Track
    <2> QED
      BY <1>2, <2>1 DEF AgendaOK, TrackedOK, M!TrackedQueues
  <1>4. CASE q \notin M!TrackedQueues
    <2>1. tracked' = Append(tracked, q) /\ tracked \in Seq(Queues)
      BY <1>4 DEF M!Track, AgendaOK, TrackedOK
    <2>2. /\ Len(tracked) \in Nat /\ DOMAIN tracked = 1 .. Len(tracked)
          /\ Len(tracked') = Len(tracked) + 1 /\ DOMAIN tracked' = 1 .. Len(tracked) + 1
          /\ \A n \in 1 .. Len(tracked) : tracked'[n] = tracked[n]
          /\ tracked'[Len(tracked) + 1] = q
      BY <2>1
    <2>3. M!TrackedQueues' = M!TrackedQueues \cup {q}
      <3>1. \A n \in 1 .. Len(tracked) + 1 : n \in 1 .. Len(tracked) \/ n = Len(tracked) + 1
        BY <2>2
      <3>2. \A n \in 1 .. Len(tracked) : n \in 1 .. Len(tracked) + 1
        BY <2>2
      <3>3. Len(tracked) + 1 \in 1 .. Len(tracked) + 1
        BY <2>2
      <3> QED
        BY <2>2, <3>1, <3>2, <3>3 DEF M!TrackedQueues
    <2>4. IsFiniteSet(M!TrackedQueues)
      <3>1. IsFiniteSet(Queues)
        BY MonitoringAssumption, SameCardinality DEF M!MonitorerAssumption
      <3>2. M!TrackedQueues \subseteq Queues
        BY <2>1 DEF M!TrackedQueues
      <3> QED
        BY <3>1, <3>2, FS_Subset
    <2>5. Cardinality(M!TrackedQueues \cup {q}) = Cardinality(M!TrackedQueues) + 1
      BY <1>4, <2>4, FS_AddElement
    <2>6. M!Cardinality(M!TrackedQueues') = Len(tracked')
      <3>1. M!Cardinality(M!TrackedQueues \cup {q}) = M!Cardinality(M!TrackedQueues) + 1
        BY <2>5, SameCardinality
      <3>2. M!Cardinality(M!TrackedQueues) = Len(tracked)
        BY DEF AgendaOK
      <3> QED
        BY <2>2, <2>3, <3>1, <3>2
    <2> QED
      BY <1>1, <1>2, <2>6 DEF AgendaOK, PollInv
  <1> QED
    BY <1>2, <1>3, <1>4

-----------------------------------------------------------------------------
(* The steps of the trigger.                                               *)

LocalTypes ==
    /\ stage \in [Workers -> T!Stages]
    /\ report \in [Workers -> T!Report]
    /\ current \in [Workers -> Rulesets]
    /\ DOMAIN todo = Workers /\ DOMAIN verdict = Workers /\ DOMAIN changed = Workers

(* What a handler does leaves the locals of the others alone.              *)
OthersSame(w) ==
    \A v \in Workers \ {w} :
       /\ stage'[v] = stage[v] /\ report'[v] = report[v] /\ todo'[v] = todo[v]
       /\ current'[v] = current[v] /\ verdict'[v] = verdict[v] /\ changed'[v] = changed[v]

LEMMA HandlerKeeps ==
    ASSUME HandlersOK, NEW w \in Workers, LocalTypes', OthersSame(w),
           CopiesOK(w)', SavingOK(w)'
    PROVE  HandlersOK'
PROOF
  <1>1. ASSUME NEW v \in Workers PROVE CopiesOK(v)' /\ SavingOK(v)'
    <2>1. CASE v = w
      BY <2>1
    <2>2. CASE v # w
      <3>1. CopiesOK(v) /\ SavingOK(v)
        BY DEF HandlersOK
      <3>2. /\ stage'[v] = stage[v] /\ report'[v] = report[v] /\ todo'[v] = todo[v]
            /\ current'[v] = current[v] /\ verdict'[v] = verdict[v] /\ changed'[v] = changed[v]
        BY <2>2 DEF OthersSame
      <3> QED
        BY <3>1, <3>2 DEF CopiesOK, SavingOK
    <2> QED
      BY <2>1, <2>2
  <1> QED
    BY <1>1 DEF HandlersOK, LocalTypes

LEMMA LocalsTyped ==
    ASSUME HandlersOK
    PROVE  LocalTypes /\ \A w \in Workers : CopiesOK(w) /\ SavingOK(w)
  BY DEF HandlersOK, LocalTypes

LEMMA WithoutFacts ==
    ASSUME NEW f, NEW x
    PROVE  /\ DOMAIN T!Without(f, x) = DOMAIN f \ {x}
           /\ \A y \in DOMAIN f \ {x} : T!Without(f, x)[y] = f[y]
  BY DEF T!Without

(* GoOn: what is left are copies the handler had.                          *)
LEMMA GoOnFacts ==
    ASSUME LocalTypes, NEW w \in Workers, NEW left, T!GoOn(w, left)
    PROVE  /\ LocalTypes' /\ OthersSame(w)
           /\ stage'[w] = (IF left = T!Empty THEN "idle" ELSE "metrics")
           /\ todo'[w] = left
           /\ left # T!Empty => report'[w] = report[w]
           /\ changed'[w] = {}
PROOF
  <1>1. /\ todo' = [todo EXCEPT ![w] = left]
        /\ stage' = [stage EXCEPT ![w] = IF left = T!Empty THEN "idle" ELSE "metrics"]
        /\ current' = [current EXCEPT ![w] = T!AnyRuleset]
        /\ verdict' = [verdict EXCEPT ![w] = T!Empty]
        /\ changed' = [changed EXCEPT ![w] = {}]
    BY DEF T!GoOn, T!Goto
  <1>2. /\ report' = (IF left = T!Empty THEN [report EXCEPT ![w] = T!NoReport] ELSE report)
    BY DEF T!GoOn
  <1>3. /\ stage'[w] = (IF left = T!Empty THEN "idle" ELSE "metrics")
        /\ \A v \in Workers \ {w} : stage'[v] = stage[v]
        /\ stage' \in [Workers -> T!Stages]
    BY <1>1 DEF LocalTypes, T!Stages
  <1>4. /\ left # T!Empty => report'[w] = report[w]
        /\ \A v \in Workers \ {w} : report'[v] = report[v]
        /\ report' \in [Workers -> T!Report]
    BY <1>2, ConstantsFacts DEF LocalTypes
  <1>5. /\ \A v \in Workers \ {w} : current'[v] = current[v]
        /\ current' \in [Workers -> Rulesets]
    BY <1>1, ConstantsFacts DEF LocalTypes
  <1>6. /\ todo'[w] = left /\ changed'[w] = {}
        /\ DOMAIN todo' = Workers /\ DOMAIN verdict' = Workers /\ DOMAIN changed' = Workers
        /\ \A v \in Workers \ {w} :
              todo'[v] = todo[v] /\ verdict'[v] = verdict[v] /\ changed'[v] = changed[v]
    BY <1>1 DEF LocalTypes
  <1> QED
    BY <1>3, <1>4, <1>5, <1>6 DEF LocalTypes, OthersSame

LEMMA GoOnKeepsTypes ==
    ASSUME HandlersOK, NEW w \in Workers, NEW s, T!GoOn(w, T!Without(todo[w], s))
    PROVE  HandlersOK'
PROOF
  <1> DEFINE left == T!Without(todo[w], s)
  <1>1. LocalTypes /\ CopiesOK(w)
    BY LocalsTyped
  <1>2. /\ LocalTypes' /\ OthersSame(w) /\ stage'[w] \in {"idle", "metrics"}
        /\ todo'[w] = left /\ (left # T!Empty => report'[w] = report[w])
    BY <1>1, GoOnFacts
  <1>3. SavingOK(w)'
    BY <1>2 DEF SavingOK
  <1>4. DOMAIN left = DOMAIN todo[w] \ {s} /\ \A t \in DOMAIN left : left[t] = todo[w][t]
    BY WithoutFacts
  <1> HIDE DEF left
  <1>5. CopiesOK(w)'
    <2>1. CASE left = T!Empty
      <3>1. DOMAIN todo'[w] = {}
        BY <1>2, <2>1 DEF T!Empty
      <3> QED
        BY <3>1 DEF CopiesOK
    <2>2. CASE left # T!Empty
      BY <1>1, <1>2, <1>4, <2>2 DEF CopiesOK
    <2> QED
      BY <2>1, <2>2
  <1> QED
    BY <1>2, <1>3, <1>5, HandlerKeeps

(* Reports are taken in order.                                             *)
LEMMA TakenFacts ==
    ASSUME ReportsOK, reports # << >>
    PROVE  Head(reports) \in T!Report /\ Tail(reports) \in Seq(T!Report)
           /\ Len(Tail(reports)) <= MaxReports
PROOF
  <1>1. reports \in Seq(T!Report) /\ reports # << >> /\ Len(reports) <= MaxReports
    BY DEF ReportsOK
  <1>2. /\ Head(reports) \in T!Report /\ Tail(reports) \in Seq(T!Report)
        /\ Len(Tail(reports)) = Len(reports) - 1 /\ Len(reports) \in Nat
    BY <1>1
  <1> QED
    BY <1>1, <1>2, ConstantsFacts

LEMMA TakeKeepsTypes ==
    ASSUME ReportsOK, TriggerInv, NEW w \in Workers, T!Take(w)
    PROVE  ReportsOK' /\ TriggerInv'
PROOF
  <1> DEFINE r == Head(reports)
             found == {s \in DOMAIN rulesets : r.queue \in T!Uses(s)}
  <1>1. LocalTypes /\ RulesetsOK /\ ToldOK /\ HandlersOK
    BY LocalsTyped DEF TriggerInv
  <1>2. /\ r \in T!Report
        /\ reports' = Tail(reports) /\ level' = level /\ inputs' = inputs
        /\ todo' = [todo EXCEPT ![w] = [s \in found |-> rulesets[s]]]
        /\ report' = [report EXCEPT ![w] = r]
        /\ stage' = [stage EXCEPT ![w] = "metrics"]
        /\ UNCHANGED <<rulesets, told, nextId, current, verdict, changed>>
    BY TakenFacts DEF T!Take, T!Goto
  <1>3. ReportsOK'
    BY <1>2, TakenFacts DEF T!Take, ReportsOK
  <1> HIDE DEF r
  <1>4. LocalTypes' /\ OthersSame(w) /\ stage'[w] = "metrics" /\ report'[w] = r
        /\ todo'[w] = [s \in found |-> rulesets[s]]
    BY <1>1, <1>2 DEF LocalTypes, OthersSame, T!Stages
  <1>5. SavingOK(w)'
    BY <1>4 DEF SavingOK
  <1>6. CopiesOK(w)'
    BY <1>1, <1>4 DEF RulesetsOK, CopiesOK
  <1>7. HandlersOK'
    BY <1>1, <1>4, <1>5, <1>6, HandlerKeeps
  <1>8. RulesetsOK' /\ ToldOK'
    BY <1>1, <1>2 DEF RulesetsOK, ToldOK
  <1> QED
    BY <1>3, <1>7, <1>8 DEF TriggerInv

(* _save_metrics, _save_rules_results: one document, or none, is changed.  *)
LEMMA SaveMetricsFacts ==
    ASSUME RulesetsOK, NEW s, NEW d, NEW q, NEW m \in Levels, T!SaveMetrics(s, d, q, m)
    PROVE  /\ DOMAIN rulesets' = DOMAIN rulesets
           /\ \A t \in DOMAIN rulesets :
                 /\ rulesets'[t] \in T!Document(t)
                 /\ rulesets'[t].id = rulesets[t].id
                 /\ rulesets'[t].result = rulesets[t].result
                 /\ rulesets'[t].held = rulesets[t].held
PROOF
  <1>1. \A t \in DOMAIN rulesets : t \in Rulesets /\ rulesets[t] \in T!Document(t)
    BY DEF RulesetsOK
  <1>2. CASE rulesets' = rulesets
    BY <1>1, <1>2
  <1>3. CASE /\ s \in DOMAIN rulesets
             /\ rulesets' = [rulesets EXCEPT ![s].metrics[q] = m]
    <2> DEFINE x == [rulesets[s] EXCEPT !.metrics[q] = m]
    <2>1. rulesets' = [t \in DOMAIN rulesets |-> IF t = s THEN x ELSE rulesets[t]]
      BY <1>3
    <2>2. x \in T!Document(s)
      BY <1>1, <1>3, MetricsKeepDocument
    <2>3. x.id = rulesets[s].id /\ x.result = rulesets[s].result /\ x.held = rulesets[s].held
      BY <1>1, <1>3, DocumentFields
    <2> HIDE DEF x
    <2> QED
      BY <1>1, <2>1, <2>2, <2>3
  <1> QED
    BY <1>2, <1>3 DEF T!SaveMetrics

LEMMA SaveResultFacts ==
    ASSUME RulesetsOK, HandlersOK, NEW w \in Workers, T!SaveResult(w)
    PROVE  LET s == current[w]
               n == T!First(changed[w])
               r == RulesOf[s][n].name
           IN  /\ s \in Rulesets /\ s \in DOMAIN todo[w]
               /\ n \in DOMAIN RulesOf[s] /\ n \in changed[w]
               /\ r \in T!Names(s) /\ verdict[w][r] \in {"yes", "no"}
               /\ IF s \in DOMAIN rulesets /\ rulesets[s].id = todo[w][s].id
                  THEN /\ DOMAIN rulesets' = DOMAIN rulesets
                       /\ rulesets'[s] \in T!Document(s)
                       /\ rulesets'[s].id = rulesets[s].id
                       /\ rulesets'[s].result = [rulesets[s].result EXCEPT ![r] = verdict[w][r]]
                       /\ rulesets'[s].held = rulesets[s].held \ {r}
                       /\ \A t \in DOMAIN rulesets \ {s} : rulesets'[t] = rulesets[t]
                  ELSE rulesets' = rulesets
PROOF
  <1> DEFINE s == current[w]
             n == T!First(changed[w])
             r == RulesOf[s][n].name
             v == verdict[w][r]
  <1>1. stage[w] = "results"
    BY DEF T!SaveResult
  <1>2. /\ s \in DOMAIN todo[w] /\ s \in Rulesets /\ changed[w] # {}
        /\ verdict[w] \in [T!Names(s) -> {"yes", "no"}] /\ changed[w] \subseteq DOMAIN RulesOf[s]
    <2>1. CopiesOK(w) /\ SavingOK(w)
      BY LocalsTyped
    <2> QED
      BY <1>1, <2>1 DEF CopiesOK, SavingOK
  <1>3. DOMAIN RulesOf[s] \subseteq Nat
    BY <1>2, RulesFacts
  <1>4. n \in changed[w]
    BY <1>2, <1>3, FirstFacts
  <1>5. n \in DOMAIN RulesOf[s] /\ r \in T!Names(s) /\ v \in {"yes", "no"}
    BY <1>2, <1>4, RulesFacts
  <1>6. rulesets' = IF s \in DOMAIN rulesets /\ rulesets[s].id = todo[w][s].id
                    THEN [rulesets EXCEPT ![s].result[r] = v, ![s].held = @ \ {r}]
                    ELSE rulesets
    BY DEF T!SaveResult
  <1> DEFINE x == [rulesets[s] EXCEPT !.result[r] = v, !.held = @ \ {r}]
  <1>7. CASE s \in DOMAIN rulesets /\ rulesets[s].id = todo[w][s].id
    <2>1. rulesets[s] \in T!Document(s)
      BY <1>7 DEF RulesetsOK
    <2> HIDE DEF s, r, v
    <2>2. rulesets' = [t \in DOMAIN rulesets |-> IF t = s THEN x ELSE rulesets[t]]
      BY <1>6, <1>7
    <2>3. x \in T!Document(s)
      BY <1>2, <1>5, <2>1, ResultKeepsDocument DEF T!Verdicts
    <2>4. /\ x.id = rulesets[s].id
          /\ x.result = [rulesets[s].result EXCEPT ![r] = v]
          /\ x.held = rulesets[s].held \ {r}
      BY <1>2, <2>1, DocumentFields
    <2> HIDE DEF x
    <2>5. /\ DOMAIN rulesets' = DOMAIN rulesets /\ rulesets'[s] = x
          /\ \A t \in DOMAIN rulesets \ {s} : rulesets'[t] = rulesets[t]
      BY <1>7, <2>2
    <2>6. /\ rulesets'[s] \in T!Document(s)
          /\ rulesets'[s].id = rulesets[s].id
          /\ rulesets'[s].result = [rulesets[s].result EXCEPT ![r] = v]
          /\ rulesets'[s].held = rulesets[s].held \ {r}
      BY <2>3, <2>4, <2>5
    <2> QED
      BY <1>2, <1>4, <1>5, <1>7, <2>5, <2>6 DEF s, r, v
  <1>8. CASE ~ (s \in DOMAIN rulesets /\ rulesets[s].id = todo[w][s].id)
    BY <1>2, <1>4, <1>5, <1>6, <1>8
  <1> QED
    BY <1>7, <1>8

LEMMA ComputeKeepsTypes ==
    ASSUME ReportsOK, TriggerInv, NEW w \in Workers, T!ComputeNext(w)
    PROVE  ReportsOK' /\ TriggerInv'
PROOF
  <1>1. LocalTypes /\ RulesetsOK /\ ToldOK /\ HandlersOK /\ CopiesOK(w)
    BY LocalsTyped DEF TriggerInv
  <1>2. ReportsOK' /\ ToldOK'
    BY <1>1 DEF T!ComputeNext, ReportsOK, ToldOK
  <1>3. PICK s \in DOMAIN todo[w] : T!Compute(w, s)
    BY DEF T!ComputeNext
  <1> DEFINE m == report[w].metrics
             d == [todo[w][s] EXCEPT !.metrics[report[w].queue] = m]
  <1>4. s \in Rulesets /\ m \in Levels
    BY <1>1 DEF CopiesOK, LocalTypes, T!Report
  <1>5. RulesetsOK'
    <2>1. T!SaveMetrics(s, todo[w][s], report[w].queue, m)
      BY <1>3 DEF T!Compute
    <2>2. DOMAIN rulesets' = DOMAIN rulesets /\ \A t \in DOMAIN rulesets : rulesets'[t] \in T!Document(t)
      BY <1>1, <1>4, <2>1, SaveMetricsFacts
    <2>3. nextId' = nextId
      BY DEF T!ComputeNext
    <2> QED
      BY <1>1, <2>2, <2>3 DEF RulesetsOK
  <1>6. HandlersOK'
    <2>1. CASE T!GoOn(w, T!Left(w, s))
      BY <1>1, <2>1, GoOnKeepsTypes DEF T!Left
    <2>2. CASE /\ T!Computes(s, d) /\ T!Changed(s, d) # {}
               /\ current' = [current EXCEPT ![w] = s]
               /\ verdict' = [verdict EXCEPT ![w] = T!Solve(s, d)]
               /\ changed' = [changed EXCEPT ![w] = T!Changed(s, d)]
               /\ T!Goto(w, "results")
               /\ UNCHANGED <<todo, report>>
      <3>1. /\ T!Solve(s, d) \in [T!Names(s) -> {"yes", "no"}]
            /\ T!Changed(s, d) \subseteq DOMAIN RulesOf[s]
        BY <1>4, SolveFacts DEF T!Changed
      <3> HIDE DEF d
      <3>2. stage' = [stage EXCEPT ![w] = "results"]
        BY <2>2 DEF T!Goto
      <3>3. LocalTypes' /\ OthersSame(w)
        BY <1>1, <1>4, <2>2, <3>2 DEF LocalTypes, OthersSame, T!Stages
      <3>4. /\ stage'[w] = "results" /\ current'[w] = s /\ verdict'[w] = T!Solve(s, d)
            /\ changed'[w] = T!Changed(s, d)
        BY <1>1, <2>2, <3>2 DEF LocalTypes
      <3>5. CopiesOK(w)' /\ SavingOK(w)'
        BY <1>1, <2>2, <3>1, <3>4 DEF CopiesOK, SavingOK
      <3> QED
        BY <1>1, <3>3, <3>5, HandlerKeeps
    <2> QED
      BY <1>3, <2>1, <2>2 DEF T!Compute
  <1> QED
    BY <1>2, <1>5, <1>6 DEF TriggerInv

LEMMA SaveResultKeepsTypes ==
    ASSUME ReportsOK, TriggerInv, NEW w \in Workers, T!SaveResult(w)
    PROVE  ReportsOK' /\ TriggerInv'
PROOF
  <1>1. LocalTypes /\ RulesetsOK /\ ToldOK /\ HandlersOK /\ CopiesOK(w) /\ SavingOK(w)
    BY LocalsTyped DEF TriggerInv
  <1>2. ReportsOK' /\ ToldOK'
    BY <1>1 DEF T!SaveResult, ReportsOK, ToldOK
  <1>3. RulesetsOK'
    <2>1. DOMAIN rulesets' = DOMAIN rulesets
      BY <1>1, SaveResultFacts
    <2>2. \A t \in DOMAIN rulesets : rulesets'[t] \in T!Document(t)
      BY <1>1, SaveResultFacts DEF RulesetsOK
    <2>3. nextId' = nextId
      BY DEF T!SaveResult
    <2> QED
      BY <1>1, <2>1, <2>2, <2>3 DEF RulesetsOK
  <1>4. HandlersOK'
    <2>1. /\ stage[w] = "results"
          /\ stage' = [stage EXCEPT ![w] =
                          IF changed[w] = {T!First(changed[w])} THEN "dispatch" ELSE "results"]
          /\ changed' = [changed EXCEPT ![w] = changed[w] \ {T!First(changed[w])}]
          /\ UNCHANGED <<report, todo, current, verdict>>
      BY DEF T!SaveResult, T!Goto
    <2>2. LocalTypes' /\ OthersSame(w)
      BY <1>1, <2>1 DEF LocalTypes, OthersSame, T!Stages
    <2>3. /\ stage'[w] = (IF changed[w] = {T!First(changed[w])} THEN "dispatch" ELSE "results")
          /\ changed'[w] = changed[w] \ {T!First(changed[w])}
      BY <1>1, <2>1 DEF LocalTypes
    <2>4. CopiesOK(w)'
      BY <1>1, <2>1 DEF CopiesOK
    <2>5. SavingOK(w)'
      <3>1. T!First(changed[w]) \in changed[w]
        BY <1>1, SaveResultFacts
      <3> QED
        BY <1>1, <2>1, <2>3, <3>1 DEF SavingOK
    <2> QED
      BY <1>1, <2>2, <2>4, <2>5, HandlerKeeps
  <1> QED
    BY <1>2, <1>3, <1>4 DEF TriggerInv

LEMMA DispatchKeepsTypes ==
    ASSUME ReportsOK, TriggerInv, NEW w \in Workers, T!Dispatch(w)
    PROVE  ReportsOK' /\ TriggerInv'
PROOF
  <1>1. LocalTypes /\ RulesetsOK /\ ToldOK /\ HandlersOK /\ CopiesOK(w) /\ SavingOK(w)
    BY LocalsTyped DEF TriggerInv
  <1>2. ReportsOK' /\ RulesetsOK'
    BY <1>1 DEF T!Dispatch, ReportsOK, RulesetsOK
  <1>3. ToldOK'
    <2>1. told' = [told EXCEPT ![current[w]] = verdict[w]]
      BY DEF T!Dispatch, T!Tell
    <2>2. verdict[w] \in [T!Names(current[w]) -> T!Verdicts]
      BY <1>1 DEF T!Dispatch, SavingOK, T!Verdicts
    <2> QED
      BY <1>1, <2>1, <2>2 DEF ToldOK
  <1>4. HandlersOK'
    BY <1>1, GoOnKeepsTypes DEF T!Dispatch
  <1> QED
    BY <1>2, <1>3, <1>4 DEF TriggerInv

LEMMA ReplaceFacts ==
    ASSUME RulesetsOK, NEW s \in Rulesets, T!Replace(s)
    PROVE  /\ RulesetsOK' /\ DOMAIN rulesets' = DOMAIN rulesets \cup {s}
           /\ rulesets'[s].result = [r \in T!Names(s) |-> "unset"] /\ rulesets'[s].held = {}
           /\ \A t \in DOMAIN rulesets \ {s} : rulesets'[t] = rulesets[t]
PROOF
  <1>1. PICK id \in Nat : rulesets' = [t \in DOMAIN rulesets \cup {s} |->
                                         IF t = s THEN T!NewDocument(s, id) ELSE rulesets[t]]
    <2>1. CASE s \in DOMAIN rulesets
      <3>1. rulesets[s].id \in Nat
        BY <2>1, DocumentFields DEF RulesetsOK
      <3>2. rulesets' = [t \in DOMAIN rulesets \cup {s} |->
                           IF t = s THEN T!NewDocument(s, rulesets[s].id) ELSE rulesets[t]]
        <4>1. DOMAIN rulesets \cup {s} = DOMAIN rulesets
          BY <2>1
        <4>2. rulesets' = [rulesets EXCEPT ![s] = T!NewDocument(s, rulesets[s].id)]
          BY <2>1 DEF T!Replace
        <4> QED
          BY <4>1, <4>2
      <3> QED
        BY <3>1, <3>2
    <2>2. CASE s \notin DOMAIN rulesets
      <3>1. nextId \in Nat
        BY DEF RulesetsOK
      <3>2. rulesets' = T!With(rulesets, s, T!NewDocument(s, nextId))
        BY <2>2 DEF T!Replace
      <3> QED
        BY <3>1, <3>2 DEF T!With
    <2> QED
      BY <2>1, <2>2
  <1>2. nextId' \in Nat
    BY DEF T!Replace, RulesetsOK
  <1>3. T!NewDocument(s, id) \in T!Document(s)
    BY <1>1, NewIsDocument
  <1>4. RulesetsOK'
    BY <1>1, <1>2, <1>3 DEF RulesetsOK
  <1> QED
    BY <1>1, <1>4 DEF T!NewDocument

LEMMA AddKeepsTypes ==
    ASSUME ReportsOK, TriggerInv, NEW w \in Workers, NEW s \in Rulesets, T!Add(w, s)
    PROVE  ReportsOK' /\ TriggerInv'
PROOF
  <1>1. LocalTypes /\ RulesetsOK /\ ToldOK /\ HandlersOK /\ CopiesOK(w)
    BY LocalsTyped DEF TriggerInv
  <1>2. /\ stage' = [stage EXCEPT ![w] = "track"]
        /\ current' = [current EXCEPT ![w] = s]
        /\ changed' = [changed EXCEPT ![w] = DOMAIN Resources[s]]
        /\ told' = [told EXCEPT ![s] = [r \in T!Names(s) |-> "unset"]]
        /\ UNCHANGED <<level, reports, report, todo, verdict>>
        /\ T!Replace(s) /\ T!Environment("add")
    BY DEF T!Add, T!Goto
  <1>3. ReportsOK'
    BY <1>2, ConstantsFacts DEF T!Environment, ReportsOK
  <1>4. RulesetsOK'
    BY <1>1, <1>2, ReplaceFacts
  <1>5. ToldOK'
    BY <1>1, <1>2 DEF ToldOK, T!Verdicts
  <1>6. LocalTypes' /\ OthersSame(w)
    BY <1>1, <1>2 DEF LocalTypes, OthersSame, T!Stages
  <1>7. stage'[w] = "track" /\ current'[w] = s /\ changed'[w] = DOMAIN Resources[s]
    BY <1>1, <1>2 DEF LocalTypes
  <1>8. CopiesOK(w)' /\ SavingOK(w)'
    BY <1>1, <1>2, <1>7, ConstantsFacts DEF CopiesOK, SavingOK
  <1> QED
    BY <1>1, <1>3, <1>4, <1>5, <1>6, <1>8, HandlerKeeps DEF TriggerInv

LEMMA AskTrackKeepsTypes ==
    ASSUME ReportsOK, TriggerInv, NEW w \in Workers, NEW q, T!AskTrack(w, q)
    PROVE  ReportsOK' /\ TriggerInv'
PROOF
  <1> DEFINE C == changed[w]
             f == T!First(C)
  <1>1. LocalTypes /\ RulesetsOK /\ ToldOK /\ HandlersOK /\ CopiesOK(w) /\ SavingOK(w)
    BY LocalsTyped DEF TriggerInv
  <1>2. ReportsOK' /\ RulesetsOK' /\ ToldOK'
    BY <1>1 DEF T!AskTrack, ReportsOK, RulesetsOK, ToldOK
  <1>3. C # {} /\ C \subseteq DOMAIN Resources[current[w]] /\ f \in C
    <2>1. C # {} /\ C \subseteq DOMAIN Resources[current[w]] /\ current[w] \in Rulesets
      BY <1>1 DEF T!AskTrack, SavingOK, LocalTypes
    <2>2. C \in SUBSET Nat
      BY <2>1, ConstantsFacts
    <2> QED
      BY <2>1, <2>2, FirstFacts
  <1>4. /\ stage[w] = "track" /\ changed' = [changed EXCEPT ![w] = C \ {f}]
        /\ UNCHANGED <<report, todo, verdict>>
    BY DEF T!AskTrack
  <1>5. CASE C = {f}
    <2>1. /\ stage' = [stage EXCEPT ![w] = "idle"]
          /\ current' = [current EXCEPT ![w] = T!AnyRuleset]
      BY <1>5 DEF T!AskTrack, T!Goto
    <2>2. LocalTypes' /\ OthersSame(w) /\ stage'[w] = "idle"
      BY <1>1, <1>4, <2>1, ConstantsFacts DEF LocalTypes, OthersSame, T!Stages
    <2>3. CopiesOK(w)' /\ SavingOK(w)'
      BY <1>1, <1>4, <2>2 DEF CopiesOK, SavingOK
    <2> QED
      BY <1>1, <1>2, <2>2, <2>3, HandlerKeeps DEF TriggerInv
  <1>6. CASE C # {f}
    <2>1. stage' = stage /\ current' = current
      BY <1>6 DEF T!AskTrack
    <2>2. LocalTypes' /\ OthersSame(w) /\ changed'[w] = C \ {f}
      BY <1>1, <1>4, <2>1 DEF LocalTypes, OthersSame
    <2>3. CopiesOK(w)' /\ SavingOK(w)'
      BY <1>1, <1>3, <1>4, <1>6, <2>1, <2>2 DEF CopiesOK, SavingOK
    <2> QED
      BY <1>1, <1>2, <2>2, <2>3, HandlerKeeps DEF TriggerInv
  <1> QED
    BY <1>5, <1>6

LEMMA LocalsSameKeep ==
    ASSUME HandlersOK, UNCHANGED T!locals
    PROVE  HandlersOK'
  BY DEF HandlersOK, CopiesOK, SavingOK, T!locals

LEMMA DeleteKeepsTypes ==
    ASSUME ReportsOK, TriggerInv, NEW w \in Workers, NEW s \in Rulesets, T!Delete(w, s)
    PROVE  ReportsOK' /\ TriggerInv'
PROOF
  <1>1. ReportsOK'
    BY ConstantsFacts DEF T!Delete, T!Environment, ReportsOK
  <1>2. rulesets' = [t \in DOMAIN rulesets \ {s} |-> rulesets[t]] /\ nextId' = nextId
    BY DEF T!Delete, T!Without
  <1>3. RulesetsOK'
    BY <1>2 DEF TriggerInv, RulesetsOK
  <1>4. ToldOK' /\ HandlersOK'
    BY LocalsSameKeep DEF T!Delete, TriggerInv, ToldOK
  <1> QED
    BY <1>1, <1>3, <1>4 DEF TriggerInv

(* Announcements go, nothing else changes: Ignore, Restart.                *)
LEMMA QueueKeepsTypes ==
    ASSUME ReportsOK, TriggerInv, T!Restart \/ \E w \in Workers : T!Ignore(w)
    PROVE  ReportsOK' /\ TriggerInv'
PROOF
  <1>1. TriggerInv'
    <2>1. UNCHANGED <<rulesets, told, nextId, T!locals>>
      BY DEF T!Restart, T!Ignore
    <2> QED
      BY <2>1, LocalsSameKeep DEF TriggerInv, RulesetsOK, ToldOK
  <1>2. CASE T!Restart
    <2>1. reports' = << >> /\ level' = level /\ inputs' \in 0 .. MaxInputs
      BY <1>2, ConstantsFacts DEF T!Restart, T!Environment, ReportsOK
    <2>2. << >> \in Seq(T!Report) /\ Len(<< >>) = 0
      OBVIOUS
    <2>3. Len(<< >>) <= MaxReports
      BY <2>2, ConstantsFacts
    <2> QED
      BY <1>1, <2>1, <2>2, <2>3 DEF ReportsOK
  <1>3. ASSUME NEW w \in Workers, T!Ignore(w) PROVE ReportsOK'
    BY <1>3, TakenFacts DEF T!Ignore, ReportsOK
  <1> QED
    BY <1>1, <1>2, <1>3

LEMMA TimeKeepsTypes ==
    ASSUME ReportsOK, TriggerInv, T!TimePasses
    PROVE  ReportsOK' /\ TriggerInv'
PROOF
  <1>1. LocalTypes /\ RulesetsOK /\ ToldOK /\ HandlersOK
    BY LocalsTyped DEF TriggerInv
  <1>2. /\ rulesets' = [s \in DOMAIN rulesets |-> T!Old(rulesets[s])]
        /\ todo' = [w \in Workers |-> [s \in DOMAIN todo[w] |-> T!Old(todo[w][s])]]
        /\ UNCHANGED <<told, nextId, level, reports, stage, report, current, verdict, changed,
                       inputs>>
    BY DEF T!TimePasses
  <1>3. ReportsOK' /\ ToldOK'
    BY <1>1, <1>2 DEF ReportsOK, ToldOK
  <1>4. RulesetsOK'
    <2>1. \A s \in DOMAIN rulesets : s \in Rulesets /\ rulesets[s] \in T!Document(s)
      BY <1>1 DEF RulesetsOK
    <2>2. \A s \in DOMAIN rulesets : T!Old(rulesets[s]) \in T!Document(s)
      BY <2>1, AgeKeepsDocument
    <2> QED
      BY <1>1, <1>2, <2>2 DEF RulesetsOK
  <1>5. ASSUME NEW w \in Workers PROVE CopiesOK(w)' /\ SavingOK(w)'
    <2>1. CopiesOK(w) /\ SavingOK(w)
      BY <1>1, LocalsTyped
    <2>2. todo'[w] = [s \in DOMAIN todo[w] |-> T!Old(todo[w][s])]
      BY <1>2
    <2>3. \A s \in DOMAIN todo[w] : T!Old(todo[w][s]) \in T!Document(s)
      BY <2>1, AgeKeepsDocument DEF CopiesOK
    <2> QED
      BY <1>2, <2>1, <2>2, <2>3 DEF CopiesOK, SavingOK
  <1>6. LocalTypes'
    BY <1>1, <1>2 DEF LocalTypes
  <1> QED
    BY <1>3, <1>4, <1>5, <1>6 DEF TriggerInv, HandlersOK, LocalTypes

-----------------------------------------------------------------------------
LEMMA MonitorStepKeepsTypes ==
    ASSUME TypeInv, PollInv, UNCHANGED triggerOwn,
           \/ \E i \in Instances : M!Timer(i) \/ M!Fail(i)
           \/ \E q \in Queues : M!GetsDue(q) \/ M!Change(q)
    PROVE  TypeInv'
PROOF
  <1>1. AgendaOK' /\ PollsOK' /\ ReportsOK'
    BY TimerKeepsTypes, FailKeepsTypes, ChangeKeepsTypes DEF TypeInv
  <1>2. RulesetsOK' /\ ToldOK'
    BY DEF triggerOwn, TypeInv, TriggerInv, RulesetsOK, ToldOK
  <1>3. HandlersOK'
    BY LocalsSameKeep DEF triggerOwn, T!locals, TypeInv, TriggerInv
  <1> QED
    BY <1>1, <1>2, <1>3 DEF TypeInv, TriggerInv

LEMMA TriggerStepKeepsTypes ==
    ASSUME TypeInv, UNCHANGED monitorerOwn,
           \/ \E w \in Workers : \/ T!Worker(w)
                                 \/ \E s \in Rulesets : T!Add(w, s) \/ T!Delete(w, s)
           \/ T!Restart \/ T!TimePasses
    PROVE  TypeInv'
PROOF
  <1>1. AgendaOK' /\ PollsOK'
    BY DEF monitorerOwn, TypeInv, AgendaOK, TrackedOK, M!TrackedQueues, PollsOK, TimersOK
  <1>2. ReportsOK /\ TriggerInv
    BY DEF TypeInv
  <1>3. ReportsOK' /\ TriggerInv'
    BY <1>2, TakeKeepsTypes, ComputeKeepsTypes, SaveResultKeepsTypes, DispatchKeepsTypes,
       AddKeepsTypes, DeleteKeepsTypes, QueueKeepsTypes, TimeKeepsTypes DEF T!Worker
  <1> QED
    BY <1>1, <1>3 DEF TypeInv

LEMMA TypeStep == TypeInv /\ PollInv /\ [Next]_vars => TypeInv'
PROOF
  <1> SUFFICES ASSUME TypeInv, PollInv, [Next]_vars PROVE TypeInv'
    OBVIOUS
  <1>1. ASSUME NEW w \in Workers, NEW q \in Queues, TrackResource(w, q) PROVE TypeInv'
    <2>1. T!AskTrack(w, q) /\ M!Track(q) /\ UNCHANGED <<tick, picked, metrics>>
      BY <1>1 DEF TrackResource
    <2> QED
      BY <2>1, AskTrackKeepsTypes, TrackKeepsTypes DEF TypeInv
  <1>2. CASE \/ \E i \in Instances : MonitorerStep(i) \/ MonitorerFails(i)
             \/ \E q \in Queues : QueueGetsDue(q) \/ LevelChanges(q)
    BY <1>2, MonitorStepKeepsTypes DEF MonitorerStep, MonitorerFails, QueueGetsDue, LevelChanges
  <1>3. CASE \/ \E w \in Workers : \/ TriggerStep(w)
                                   \/ \E s \in Rulesets : AddRuleset(w, s) \/ DeleteRuleset(w, s)
             \/ TriggerRestarts \/ ResultsAge
    BY <1>3, TriggerStepKeepsTypes
    DEF TriggerStep, AddRuleset, DeleteRuleset, TriggerRestarts, ResultsAge
  <1>4. CASE UNCHANGED vars
    <2>1. AgendaOK' /\ PollsOK' /\ ReportsOK'
      BY <1>4 DEF vars, monitorerOwn, TypeInv, AgendaOK, TrackedOK, M!TrackedQueues, PollsOK,
                  TimersOK, ReportsOK
    <2>2. RulesetsOK' /\ ToldOK'
      BY <1>4 DEF vars, triggerOwn, TypeInv, TriggerInv, RulesetsOK, ToldOK
    <2>3. HandlersOK'
      BY <1>4, LocalsSameKeep DEF vars, triggerOwn, T!locals, TypeInv, TriggerInv
    <2> QED
      BY <2>1, <2>2, <2>3 DEF TypeInv, TriggerInv
  <1> QED
    BY <1>1, <1>2, <1>3, <1>4 DEF Next

THEOREM TypeInvariant == Spec => []TypeInv
PROOF
  <1>1. Init => TypeInv
    BY InitMonitor, InitReports, InitTrigger DEF Init, TypeInv
  <1> QED
    BY <1>1, TypeStep, PollInvariant, PTL DEF Spec

(* Types of monitorer and trigger together, for any numbers of instances,  *)
(* queues, workers and rulesets: in particular a queue is tracked once     *)
(* (track replaces its document), a handler saves results only of a        *)
(* ruleset it copied, and one result for each of its rules.                *)
THEOREM TypeCorrect == Spec => []TypeOK
  BY TypeInvariant, TypeInvIsTypeOK, PTL

-----------------------------------------------------------------------------
(* The trigger alone: its own specification, whose handlers crash and      *)
(* whose polls come from anywhere                                          *)

LEMMA PollKeepsTypes ==
    ASSUME ReportsOK, TriggerInv, NEW q \in Queues, T!Poll(q) \/ T!Change(q)
    PROVE  ReportsOK' /\ TriggerInv'
PROOF
  <1>1. TriggerInv'
    <2>1. UNCHANGED <<rulesets, told, nextId, T!locals>>
      BY DEF T!Poll, T!Change
    <2> QED
      BY <2>1, LocalsSameKeep DEF TriggerInv, RulesetsOK, ToldOK
  <1>2. CASE T!Poll(q)
    <2> DEFINE x == [queue |-> q, metrics |-> level[q]]
    <2>1. x \in T!Report
      BY DEF ReportsOK, T!Report
    <2>2. Len(reports) < MaxReports /\ reports' = Append(reports, x)
          /\ level' = level /\ inputs' = inputs
      BY <1>2 DEF T!Poll
    <2> HIDE DEF x
    <2> QED
      BY <1>1, <2>1, <2>2, AnnounceFacts DEF ReportsOK
  <1>3. CASE T!Change(q)
    BY <1>1, <1>3, ConstantsFacts DEF T!Change, T!Environment, ReportsOK
  <1> QED
    BY <1>2, <1>3

(* A crash puts the announcement back, first, or loses it.                 *)
LEMMA CrashKeepsTypes ==
    ASSUME ReportsOK, TriggerInv, NEW w \in Workers, T!Crash(w)
    PROVE  ReportsOK' /\ TriggerInv'
PROOF
  <1>1. LocalTypes /\ RulesetsOK /\ ToldOK /\ HandlersOK
    BY LocalsTyped DEF TriggerInv
  <1>2. RulesetsOK' /\ ToldOK'
    BY <1>1 DEF T!Crash, RulesetsOK, ToldOK
  <1>3. HandlersOK'
    <2>1. LocalTypes' /\ OthersSame(w) /\ stage'[w] = "idle" /\ todo'[w] = T!Empty
      BY <1>1, GoOnFacts DEF T!Crash
    <2>2. CopiesOK(w)' /\ SavingOK(w)'
      BY <2>1 DEF CopiesOK, SavingOK, T!Empty
    <2> QED
      BY <1>1, <2>1, <2>2, HandlerKeeps
  <1>4. reports' \in Seq(T!Report) /\ Len(reports') <= MaxReports
    <2>1. CASE UNCHANGED reports
      BY <2>1 DEF ReportsOK
    <2>2. CASE Len(reports) < MaxReports /\ reports' = << report[w] >> \o reports
      <3>1. report[w] \in T!Report /\ reports \in Seq(T!Report)
        BY <1>1 DEF LocalTypes, ReportsOK
      <3>2. << report[w] >> \in Seq(T!Report) /\ Len(<< report[w] >>) = 1
        BY <3>1
      <3>3. /\ << report[w] >> \o reports \in Seq(T!Report)
            /\ Len(<< report[w] >> \o reports) = 1 + Len(reports)
            /\ Len(reports) \in Nat
        BY <3>1, <3>2
      <3> QED
        BY <2>2, <3>3, ConstantsFacts
    <2> QED
      BY <2>1, <2>2 DEF T!Crash
  <1>5. level' = level /\ inputs' \in 0 .. MaxInputs
    BY ConstantsFacts DEF T!Crash, T!Environment, ReportsOK
  <1> QED
    BY <1>2, <1>3, <1>4, <1>5 DEF ReportsOK, TriggerInv

LEMMA TriggerTypeStep ==
    ReportsOK /\ TriggerInv /\ [T!Next]_T!triggerVars => (ReportsOK /\ TriggerInv)'
PROOF
  <1> SUFFICES ASSUME ReportsOK, TriggerInv, [T!Next]_T!triggerVars
               PROVE  ReportsOK' /\ TriggerInv'
    OBVIOUS
  <1>1. CASE \E w \in Workers : T!Worker(w)
    BY <1>1, TakeKeepsTypes, ComputeKeepsTypes, SaveResultKeepsTypes, DispatchKeepsTypes,
       QueueKeepsTypes DEF T!Worker
  <1>2. CASE \E w \in Workers :
                \/ T!Crash(w)
                \/ \E s \in Rulesets : T!Add(w, s) \/ T!Delete(w, s)
                \/ \E q \in Queues : T!AskTrack(w, q)
    BY <1>2, CrashKeepsTypes, AddKeepsTypes, DeleteKeepsTypes, AskTrackKeepsTypes
  <1>3. CASE (\E q \in Queues : T!Change(q) \/ T!Poll(q)) \/ T!Restart \/ T!TimePasses
    BY <1>3, PollKeepsTypes, QueueKeepsTypes, TimeKeepsTypes
  <1>4. CASE UNCHANGED T!triggerVars
    <2>1. UNCHANGED <<rulesets, told, nextId, T!locals>> /\ UNCHANGED <<level, reports, inputs>>
      BY <1>4 DEF T!triggerVars
    <2> QED
      BY <2>1, LocalsSameKeep DEF ReportsOK, TriggerInv, RulesetsOK, ToldOK
  <1> QED
    BY <1>1, <1>2, <1>3, <1>4 DEF T!Next

(* Types of the trigger by itself, for any workers, queues and rulesets:   *)
(* wherever a handler crashes, whatever announcement comes back or is      *)
(* lost, and whatever happened to the documents it holds copies of, it     *)
(* saves results of a ruleset it copied only, one for each of its rules.   *)
THEOREM TriggerTypeCorrect == T!Spec => []T!TypeOK
PROOF
  <1>1. T!Init => ReportsOK /\ TriggerInv
    <2> SUFFICES ASSUME T!Init PROVE ReportsOK
      BY InitTrigger
    <2>1. level \in [Queues -> Levels] /\ reports = << >> /\ inputs = 0
      BY ConstantsFacts DEF T!Init
    <2>2. << >> \in Seq(T!Report) /\ Len(<< >>) = 0
      OBVIOUS
    <2> QED
      BY <2>1, <2>2, ConstantsFacts DEF ReportsOK
  <1>2. ReportsOK /\ TriggerInv => T!TypeOK
    BY TriggerInvIsTypeOK
  <1> QED
    BY <1>1, <1>2, TriggerTypeStep, PTL DEF T!Spec

-----------------------------------------------------------------------------
(* One worker                                                              *)

(* The worker is saving the results of ruleset s, or has saved them and    *)
(* not told the owner.                                                     *)
Saving(w, s) == stage[w] \in {"results", "dispatch"} /\ current[w] = s

(* The one worker's copies are what is recorded: nobody else writes        *)
(* results, and requests are handled between two handlers.                 *)
CopiesFresh(w) ==
    /\ stage[w] \in {"idle", "track"} => DOMAIN todo[w] = {}
    /\ \A s \in DOMAIN todo[w] :
          /\ s \in DOMAIN rulesets /\ todo[w][s].id = rulesets[s].id
          /\ ~ Saving(w, s) => /\ todo[w][s].result = rulesets[s].result
                               /\ todo[w][s].held = rulesets[s].held

(* A rule to save that waits for another: what it waits for is recorded,   *)
(* and no rule that is saved before it changes that.                       *)
Waited(w, s, n) ==
    LET rule == RulesOf[s][n]
    IN  rule.op = "held" /\ verdict[w][rule.name] = "yes" =>
           /\ rulesets[s].result[rule.arg] = "yes" /\ rule.arg \in rulesets[s].held
           /\ \A k \in changed[w] : k < n => RulesOf[s][k].name # rule.arg

(* While results are saved: those left to save, and no others, differ from *)
(* what is recorded.                                                       *)
LeftToSave(w) ==
    /\ stage[w] = "dispatch" => changed[w] = {}
    /\ \A s \in DOMAIN rulesets : Saving(w, s) =>
          /\ \A n \in DOMAIN RulesOf[s] :
                n \in changed[w] <=> verdict[w][RulesOf[s][n].name]
                                       # rulesets[s].result[RulesOf[s][n].name]
          /\ \A n \in changed[w] : Waited(w, s, n)

(* Only a result that is there gets old.                                   *)
HeldSet == \A s \in DOMAIN rulesets : \A r \in rulesets[s].held : rulesets[s].result[r] # "unset"

(* The owner was told the results recorded, but for the ruleset being      *)
(* saved.                                                                  *)
ToldRecorded(w) ==
    \A s \in DOMAIN rulesets : ~ Saving(w, s) => told[s] = rulesets[s].result

SoloInv(w) == CopiesFresh(w) /\ LeftToSave(w) /\ HeldSet /\ ToldRecorded(w)

LEMMA SoloInit ==
    ASSUME NEW w, Workers = {w}, T!Init
    PROVE  SoloInv(w)
PROOF
  <1>1. PICK I \in Installed : rulesets = [s \in I |-> T!NewDocument(s, 0)]
    BY DEF T!Init
  <1>2. /\ stage[w] = "idle" /\ todo[w] = << >>
        /\ told = [s \in Rulesets |-> [r \in T!Names(s) |-> "unset"]]
    BY DEF T!Init, T!Empty
  <1>3. \A s \in I : /\ s \in Rulesets /\ rulesets[s].held = {}
                     /\ rulesets[s].result = [r \in T!Names(s) |-> "unset"]
    BY <1>1, ConstantsFacts DEF T!NewDocument
  <1>4. CopiesFresh(w) /\ LeftToSave(w)
    BY <1>2 DEF CopiesFresh, LeftToSave, Saving
  <1>5. HeldSet /\ ToldRecorded(w)
    BY <1>1, <1>2, <1>3 DEF HeldSet, ToldRecorded
  <1> QED
    BY <1>4, <1>5 DEF SoloInv

LEMMA SoloSame ==
    ASSUME NEW w, SoloInv(w), UNCHANGED <<rulesets, told, T!locals>>
    PROVE  SoloInv(w)'
  BY DEF SoloInv, CopiesFresh, LeftToSave, HeldSet, ToldRecorded, Waited, Saving, T!locals

(* SaveMetrics changes no result and no date.                              *)
SameResults ==
    /\ DOMAIN rulesets' = DOMAIN rulesets
    /\ \A s \in DOMAIN rulesets : /\ rulesets'[s].id = rulesets[s].id
                                  /\ rulesets'[s].result = rulesets[s].result
                                  /\ rulesets'[s].held = rulesets[s].held

LEMMA HeldSetSame ==
    ASSUME HeldSet, SameResults
    PROVE  HeldSet'
  BY DEF HeldSet, SameResults

(* A handler that goes on with the rulesets left saves nothing any more.   *)
LEMMA GoOnSolo ==
    ASSUME NEW w \in Workers, LocalTypes, CopiesFresh(w), SameResults, NEW s,
           T!GoOn(w, T!Without(todo[w], s)), \A t : Saving(w, t) => t = s
    PROVE  CopiesFresh(w)' /\ LeftToSave(w)' /\ \A t : ~ Saving(w, t)'
PROOF
  <1> DEFINE left == T!Without(todo[w], s)
  <1>1. /\ stage'[w] = (IF left = T!Empty THEN "idle" ELSE "metrics")
        /\ todo'[w] = left
    BY GoOnFacts
  <1>2. DOMAIN left = DOMAIN todo[w] \ {s} /\ \A t \in DOMAIN left : left[t] = todo[w][t]
    BY WithoutFacts
  <1> HIDE DEF left
  <1>3. \A t : ~ Saving(w, t)'
    BY <1>1 DEF Saving
  <1>4. LeftToSave(w)'
    BY <1>1, <1>3 DEF LeftToSave
  <1>5. stage'[w] \in {"idle", "track"} => DOMAIN todo'[w] = {}
    BY <1>1 DEF T!Empty
  <1>6. ASSUME NEW t \in DOMAIN todo'[w]
        PROVE  /\ t \in DOMAIN rulesets' /\ todo'[w][t].id = rulesets'[t].id
               /\ todo'[w][t].result = rulesets'[t].result
               /\ todo'[w][t].held = rulesets'[t].held
    <2>1. t \in DOMAIN todo[w] /\ todo'[w][t] = todo[w][t] /\ ~ Saving(w, t)
      BY <1>1, <1>2
    <2> QED
      BY <2>1 DEF CopiesFresh, SameResults
  <1>7. CopiesFresh(w)'
    BY <1>5, <1>6 DEF CopiesFresh
  <1> QED
    BY <1>3, <1>4, <1>7

LEMMA TakeSolo ==
    ASSUME NEW w, Workers = {w}, TriggerInv, SoloInv(w), T!Take(w)
    PROVE  SoloInv(w)'
PROOF
  <1>1. LocalTypes
    BY LocalsTyped DEF TriggerInv
  <1>2. /\ stage[w] = "idle" /\ stage' = [stage EXCEPT ![w] = "metrics"]
        /\ UNCHANGED <<rulesets, told, nextId, current, verdict, changed>>
    BY DEF T!Take, T!Goto
  <1>3. PICK found \in SUBSET DOMAIN rulesets : todo' = [todo EXCEPT ![w] = [s \in found |-> rulesets[s]]]
    BY DEF T!Take
  <1>4. stage'[w] = "metrics" /\ todo'[w] = [s \in found |-> rulesets[s]]
    BY <1>1, <1>2, <1>3 DEF LocalTypes
  <1>5. CopiesFresh(w)' /\ LeftToSave(w)'
    BY <1>2, <1>4 DEF CopiesFresh, LeftToSave, Saving
  <1>6. HeldSet'
    BY <1>2 DEF SoloInv, HeldSet
  <1>7. ToldRecorded(w)'
    BY <1>2 DEF SoloInv, ToldRecorded, Saving
  <1> QED
    BY <1>5, <1>6, <1>7 DEF SoloInv

LEMMA ComputeSolo ==
    ASSUME NEW w, Workers = {w}, TriggerInv, SoloInv(w), T!ComputeNext(w)
    PROVE  SoloInv(w)'
PROOF
  <1>1. LocalTypes /\ RulesetsOK /\ HandlersOK /\ CopiesOK(w)
    BY LocalsTyped DEF TriggerInv
  <1>2. CopiesFresh(w) /\ HeldSet /\ ToldRecorded(w)
    BY DEF SoloInv
  <1>3. stage[w] = "metrics" /\ told' = told
    BY DEF T!ComputeNext
  <1>4. PICK s \in DOMAIN todo[w] : T!Compute(w, s)
    BY DEF T!ComputeNext
  <1> DEFINE m == report[w].metrics
             d == [todo[w][s] EXCEPT !.metrics[report[w].queue] = m]
  <1>5. s \in Rulesets /\ m \in Levels
    BY <1>1 DEF CopiesOK, LocalTypes, T!Report
  <1>6. SameResults
    <2>1. T!SaveMetrics(s, todo[w][s], report[w].queue, m)
      BY <1>4 DEF T!Compute
    <2> QED
      BY <1>1, <1>5, <2>1, SaveMetricsFacts DEF SameResults
  <1>7. HeldSet'
    BY <1>2, <1>6, HeldSetSame
  <1>8. \A t : ~ Saving(w, t)
    BY <1>3 DEF Saving
  <1>9. \A t \in DOMAIN rulesets' : told'[t] = rulesets'[t].result
    BY <1>2, <1>3, <1>6, <1>8 DEF SameResults, ToldRecorded
  <1>10. ToldRecorded(w)'
    BY <1>9 DEF ToldRecorded
  <1>11. CASE T!GoOn(w, T!Left(w, s))
    <2>1. CopiesFresh(w)' /\ LeftToSave(w)'
      BY <1>1, <1>2, <1>6, <1>8, <1>11, GoOnSolo DEF T!Left
    <2> QED
      BY <1>7, <1>10, <2>1 DEF SoloInv
  <1>12. CASE /\ T!Computes(s, d) /\ T!Changed(s, d) # {}
              /\ current' = [current EXCEPT ![w] = s]
              /\ verdict' = [verdict EXCEPT ![w] = T!Solve(s, d)]
              /\ changed' = [changed EXCEPT ![w] = T!Changed(s, d)]
              /\ T!Goto(w, "results")
              /\ UNCHANGED <<todo, report>>
    <2>1. d.result = rulesets'[s].result /\ d.held = rulesets'[s].held
      <3>1. todo[w][s] \in T!Document(s)
        BY <1>1 DEF CopiesOK
      <3>2. d.result = todo[w][s].result /\ d.held = todo[w][s].held
        BY <1>5, <3>1, DocumentFields
      <3> QED
        BY <1>2, <1>6, <1>8, <3>2 DEF CopiesFresh, SameResults
    <2>2. /\ \A n \in DOMAIN RulesOf[s] :
                n \in T!Changed(s, d) <=> T!Solve(s, d)[RulesOf[s][n].name] # d.result[RulesOf[s][n].name]
          /\ T!Changed(s, d) \subseteq DOMAIN RulesOf[s]
      BY DEF T!Changed
    <2> HIDE DEF d
    <2>3. stage' = [stage EXCEPT ![w] = "results"]
      BY <1>12 DEF T!Goto
    <2>4. /\ stage'[w] = "results" /\ current'[w] = s /\ verdict'[w] = T!Solve(s, d)
          /\ changed'[w] = T!Changed(s, d) /\ todo' = todo
      BY <1>1, <1>12, <2>3 DEF LocalTypes
    <2>5. CopiesFresh(w)'
      BY <1>2, <1>6, <1>8, <2>4 DEF CopiesFresh, SameResults
    <2>6. ASSUME NEW n \in changed'[w] PROVE Waited(w, s, n)'
      <3> DEFINE x == RulesOf[s][n].arg
      <3>1. n \in DOMAIN RulesOf[s]
        BY <2>2, <2>4
      <3>2. SUFFICES ASSUME RulesOf[s][n].op = "held", T!Solve(s, d)[RulesOf[s][n].name] = "yes"
                     PROVE  /\ d.result[x] = "yes" /\ x \in d.held
                            /\ \A k \in T!Changed(s, d) : k < n => RulesOf[s][k].name # x
        BY <2>1, <2>4 DEF Waited
      <3>3. /\ d.result[x] = "yes" /\ x \in d.held
            /\ \A k \in DOMAIN RulesOf[s] :
                  k < n /\ RulesOf[s][k].name = x => T!Solve(s, d)[x] = d.result[x]
        BY <1>5, <3>1, <3>2, SolveFacts
      <3> QED
        BY <2>2, <3>3
    <2>7. LeftToSave(w)'
      BY <2>1, <2>2, <2>4, <2>6 DEF LeftToSave, Saving
    <2> QED
      BY <1>7, <1>10, <2>5, <2>7 DEF SoloInv
  <1> QED
    BY <1>4, <1>11, <1>12 DEF T!Compute

(* A result saved: the document is there, with the _id of the copy.        *)
LEMMA SaveResultStep ==
    ASSUME NEW w, Workers = {w}, TriggerInv, SoloInv(w), T!SaveResult(w)
    PROVE  LET s == current[w]
               n == T!First(changed[w])
               r == RulesOf[s][n].name
           IN  /\ s \in Rulesets /\ s \in DOMAIN todo[w] /\ s \in DOMAIN rulesets
               /\ stage[w] = "results" /\ n \in DOMAIN RulesOf[s] /\ n \in changed[w]
               /\ \A k \in changed[w] : n <= k
               /\ changed[w] \subseteq DOMAIN RulesOf[s]
               /\ r \in T!Names(s) /\ verdict[w][r] \in {"yes", "no"}
               /\ DOMAIN rulesets' = DOMAIN rulesets
               /\ rulesets'[s].id = rulesets[s].id
               /\ rulesets'[s].result = [rulesets[s].result EXCEPT ![r] = verdict[w][r]]
               /\ rulesets'[s].held = rulesets[s].held \ {r}
               /\ \A t \in DOMAIN rulesets \ {s} : rulesets'[t] = rulesets[t]
               /\ changed'[w] = changed[w] \ {n}
               /\ stage'[w] = (IF changed[w] = {n} THEN "dispatch" ELSE "results")
               /\ UNCHANGED <<told, todo, current, verdict>>
PROOF
  <1> DEFINE s == current[w]
             n == T!First(changed[w])
             r == RulesOf[s][n].name
  <1>1. RulesetsOK /\ HandlersOK /\ LocalTypes /\ SavingOK(w)
    BY LocalsTyped DEF TriggerInv
  <1>2. /\ s \in Rulesets /\ s \in DOMAIN todo[w]
        /\ n \in DOMAIN RulesOf[s] /\ n \in changed[w]
        /\ r \in T!Names(s) /\ verdict[w][r] \in {"yes", "no"}
    BY <1>1, SaveResultFacts
  <1>3. s \in DOMAIN rulesets /\ rulesets[s].id = todo[w][s].id
    BY <1>2 DEF SoloInv, CopiesFresh
  <1>4. /\ DOMAIN rulesets' = DOMAIN rulesets
        /\ rulesets'[s].id = rulesets[s].id
        /\ rulesets'[s].result = [rulesets[s].result EXCEPT ![r] = verdict[w][r]]
        /\ rulesets'[s].held = rulesets[s].held \ {r}
        /\ \A t \in DOMAIN rulesets \ {s} : rulesets'[t] = rulesets[t]
    BY <1>1, <1>3, SaveResultFacts
  <1>5. /\ stage[w] = "results"
        /\ changed' = [changed EXCEPT ![w] = @ \ {n}]
        /\ stage' = [stage EXCEPT ![w] = IF changed[w] = {n} THEN "dispatch" ELSE "results"]
        /\ UNCHANGED <<told, todo, current, verdict>>
    BY DEF T!SaveResult, T!Goto
  <1>6. changed[w] \subseteq DOMAIN RulesOf[s]
    BY <1>1, <1>5 DEF SavingOK
  <1>7. \A k \in changed[w] : n <= k
    <2>1. changed[w] \in SUBSET Nat /\ changed[w] # {}
      BY <1>2, <1>6, RulesFacts
    <2> QED
      BY <2>1, FirstFacts
  <1>8. /\ changed'[w] = changed[w] \ {n}
        /\ stage'[w] = (IF changed[w] = {n} THEN "dispatch" ELSE "results")
    BY <1>1, <1>5 DEF LocalTypes
  <1> QED
    BY <1>2, <1>3, <1>4, <1>5, <1>6, <1>7, <1>8

(* Saving the first rule changed what no rule after it waits for.          *)
LEMMA SaveResultLeft ==
    ASSUME NEW w, Workers = {w}, TriggerInv, SoloInv(w), T!SaveResult(w)
    PROVE  LeftToSave(w)'
PROOF
  <1>0. PICK s, f, r : s = current[w] /\ f = T!First(changed[w]) /\ r = RulesOf[s][f].name
    OBVIOUS
  <1>1. /\ s \in Rulesets /\ s \in DOMAIN rulesets
        /\ stage[w] = "results" /\ f \in DOMAIN RulesOf[s] /\ f \in changed[w]
        /\ \A k \in changed[w] : f <= k
        /\ changed[w] \subseteq DOMAIN RulesOf[s]
        /\ r \in T!Names(s)
        /\ DOMAIN rulesets' = DOMAIN rulesets
        /\ rulesets'[s].result = [rulesets[s].result EXCEPT ![r] = verdict[w][r]]
        /\ rulesets'[s].held = rulesets[s].held \ {r}
        /\ changed'[w] = changed[w] \ {f}
        /\ stage'[w] = (IF changed[w] = {f} THEN "dispatch" ELSE "results")
        /\ UNCHANGED <<current, verdict>>
    BY <1>0, SaveResultStep
  <1>2. \A t : Saving(w, t)' => t = s
    BY <1>0, <1>1 DEF Saving
  <1>3. Saving(w, s)
    BY <1>0, <1>1 DEF Saving
  <1>4. \A n \in DOMAIN RulesOf[s] :
           n \in changed[w] <=> verdict[w][RulesOf[s][n].name] # rulesets[s].result[RulesOf[s][n].name]
    BY <1>1, <1>3 DEF SoloInv, LeftToSave
  <1>5. rulesets[s].result \in [T!Names(s) -> T!Verdicts]
    BY <1>1, DocumentFields DEF TriggerInv, RulesetsOK
  <1>6. ASSUME NEW x \in T!Names(s)
        PROVE  rulesets'[s].result[x] = IF x = r THEN verdict[w][r] ELSE rulesets[s].result[x]
    BY <1>1, <1>5
  <1>7. \A m, n \in DOMAIN RulesOf[s] : RulesOf[s][m].name = RulesOf[s][n].name => m = n
    BY <1>1, RulesFacts
  <1>8. \A n \in DOMAIN RulesOf[s] :
           /\ RulesOf[s][n].name \in T!Names(s)
           /\ RulesOf[s][n].op = "held" => RulesOf[s][n].arg \in T!Names(s)
    BY <1>1, RulesFacts
  <1>9. ASSUME NEW n \in DOMAIN RulesOf[s]
        PROVE  n \in changed'[w] <=> verdict'[w][RulesOf[s][n].name]
                                        # rulesets'[s].result[RulesOf[s][n].name]
    <2>1. CASE n = f
      BY <1>0, <1>1, <1>6, <1>8, <2>1
    <2>2. CASE n # f
      <3>1. RulesOf[s][n].name # r
        BY <1>0, <1>1, <1>7, <2>2
      <3> QED
        BY <1>1, <1>4, <1>6, <1>8, <2>2, <3>1
    <2> QED
      BY <2>1, <2>2
  <1>10. ASSUME NEW n \in changed'[w] PROVE Waited(w, s, n)'
    <2> DEFINE x == RulesOf[s][n].arg
    <2>1. n \in changed[w] /\ n # f /\ n \in DOMAIN RulesOf[s]
      BY <1>1
    <2>2. SUFFICES ASSUME RulesOf[s][n].op = "held", verdict[w][RulesOf[s][n].name] = "yes"
                   PROVE  /\ rulesets'[s].result[x] = "yes" /\ x \in rulesets'[s].held
                          /\ \A k \in changed'[w] : k < n => RulesOf[s][k].name # x
      BY <1>1 DEF Waited
    <2>3. Waited(w, s, n)
      BY <1>1, <1>3, <2>1 DEF SoloInv, LeftToSave
    <2>4. /\ rulesets[s].result[x] = "yes" /\ x \in rulesets[s].held
          /\ \A k \in changed[w] : k < n => RulesOf[s][k].name # x
      BY <2>2, <2>3 DEF Waited
    <2>5. f < n
      <3>1. f \in Nat /\ n \in Nat
        BY <1>1, <2>1, RulesFacts
      <3> QED
        BY <1>1, <2>1, <3>1
    <2>6. x # r /\ x \in T!Names(s)
      BY <1>0, <1>1, <1>8, <2>1, <2>2, <2>4, <2>5
    <2> QED
      BY <1>1, <1>6, <2>4, <2>6
  <1>11. stage'[w] = "dispatch" => changed'[w] = {}
    BY <1>1
  <1> QED
    BY <1>2, <1>9, <1>10, <1>11 DEF LeftToSave

LEMMA SaveResultSolo ==
    ASSUME NEW w, Workers = {w}, TriggerInv, SoloInv(w), T!SaveResult(w)
    PROVE  SoloInv(w)'
PROOF
  <1>0. PICK s, f, r : s = current[w] /\ f = T!First(changed[w]) /\ r = RulesOf[s][f].name
    OBVIOUS
  <1>1. /\ s \in Rulesets /\ s \in DOMAIN rulesets
        /\ stage[w] = "results" /\ r \in T!Names(s) /\ verdict[w][r] \in {"yes", "no"}
        /\ DOMAIN rulesets' = DOMAIN rulesets
        /\ rulesets'[s].id = rulesets[s].id
        /\ rulesets'[s].result = [rulesets[s].result EXCEPT ![r] = verdict[w][r]]
        /\ rulesets'[s].held = rulesets[s].held \ {r}
        /\ \A t \in DOMAIN rulesets \ {s} : rulesets'[t] = rulesets[t]
        /\ stage'[w] \in {"dispatch", "results"}
        /\ UNCHANGED <<told, todo, current, verdict>>
    BY <1>0, SaveResultStep
  <1>2. \A t : (Saving(w, t) <=> t = s) /\ (Saving(w, t)' <=> t = s)
    BY <1>0, <1>1 DEF Saving
  <1>3. CopiesFresh(w)'
    BY <1>1, <1>2 DEF SoloInv, CopiesFresh
  <1>4. HeldSet'
    <2>1. rulesets[s].result \in [T!Names(s) -> T!Verdicts] /\ rulesets[s].held \subseteq T!Names(s)
      BY <1>1, DocumentFields DEF TriggerInv, RulesetsOK
    <2>2. ASSUME NEW x \in rulesets'[s].held PROVE rulesets'[s].result[x] # "unset"
      BY <1>1, <2>1 DEF SoloInv, HeldSet
    <2>3. ASSUME NEW t \in DOMAIN rulesets', NEW x \in rulesets'[t].held
          PROVE  rulesets'[t].result[x] # "unset"
      <3>1. CASE t = s
        BY <2>2, <3>1
      <3>2. CASE t # s
        BY <1>1, <3>2 DEF SoloInv, HeldSet
      <3> QED
        BY <3>1, <3>2
    <2> QED
      BY <2>3 DEF HeldSet
  <1>5. ToldRecorded(w)'
    BY <1>1, <1>2 DEF SoloInv, ToldRecorded
  <1> QED
    BY <1>3, <1>4, <1>5, SaveResultLeft DEF SoloInv

LEMMA DispatchSolo ==
    ASSUME NEW w, Workers = {w}, TriggerInv, SoloInv(w), T!Dispatch(w)
    PROVE  SoloInv(w)'
PROOF
  <1>1. LocalTypes /\ RulesetsOK /\ ToldOK /\ CopiesOK(w) /\ SavingOK(w)
    BY LocalsTyped DEF TriggerInv
  <1>2. CopiesFresh(w) /\ LeftToSave(w) /\ HeldSet /\ ToldRecorded(w)
    BY DEF SoloInv
  <1>0. PICK s : s = current[w]
    OBVIOUS
  <1>3. /\ stage[w] = "dispatch" /\ rulesets' = rulesets
        /\ told' = [told EXCEPT ![s] = verdict[w]]
        /\ T!GoOn(w, T!Without(todo[w], s))
    BY <1>0 DEF T!Dispatch, T!Tell
  <1>4. \A t : Saving(w, t) <=> t = s
    BY <1>0, <1>3 DEF Saving
  <1>5. SameResults /\ HeldSet'
    BY <1>2, <1>3 DEF SameResults, HeldSet
  <1>6. CopiesFresh(w)' /\ LeftToSave(w)' /\ \A t : ~ Saving(w, t)'
    BY <1>1, <1>2, <1>3, <1>4, <1>5, GoOnSolo
  <1>7. /\ s \in DOMAIN rulesets /\ s \in Rulesets /\ changed[w] = {}
        /\ verdict[w] \in [T!Names(s) -> {"yes", "no"}]
    BY <1>0, <1>1, <1>2, <1>3 DEF CopiesFresh, CopiesOK, SavingOK, LeftToSave
  <1>8. verdict[w] = rulesets[s].result
    <2>1. rulesets[s].result \in [T!Names(s) -> T!Verdicts]
      BY <1>1, <1>7, DocumentFields DEF RulesetsOK
    <2>2. \A n \in DOMAIN RulesOf[s] :
             verdict[w][RulesOf[s][n].name] = rulesets[s].result[RulesOf[s][n].name]
      BY <1>2, <1>4, <1>7 DEF LeftToSave
    <2>3. \A x \in T!Names(s) : verdict[w][x] = rulesets[s].result[x]
      BY <2>2 DEF T!Names
    <2> QED
      BY <1>7, <2>1, <2>3
  <1>9. ToldRecorded(w)'
    BY <1>1, <1>2, <1>3, <1>4, <1>7, <1>8 DEF ToldRecorded, ToldOK, RulesetsOK
  <1> QED
    BY <1>5, <1>6, <1>9 DEF SoloInv

LEMMA AddSolo ==
    ASSUME NEW w, Workers = {w}, TriggerInv, SoloInv(w), NEW s \in Rulesets, T!Add(w, s)
    PROVE  SoloInv(w)'
PROOF
  <1>1. LocalTypes /\ RulesetsOK /\ ToldOK
    BY LocalsTyped DEF TriggerInv
  <1>2. /\ stage[w] = "idle" /\ stage' = [stage EXCEPT ![w] = "track"]
        /\ told' = [told EXCEPT ![s] = [r \in T!Names(s) |-> "unset"]]
        /\ todo' = todo /\ T!Replace(s)
    BY DEF T!Add, T!Goto
  <1>3. /\ DOMAIN rulesets' = DOMAIN rulesets \cup {s}
        /\ rulesets'[s].result = [r \in T!Names(s) |-> "unset"] /\ rulesets'[s].held = {}
        /\ \A t \in DOMAIN rulesets \ {s} : rulesets'[t] = rulesets[t]
    BY <1>1, <1>2, ReplaceFacts
  <1>4. stage'[w] = "track" /\ (\A t : ~ Saving(w, t)) /\ (\A t : ~ Saving(w, t)')
    BY <1>1, <1>2 DEF LocalTypes, Saving
  <1>5. CopiesFresh(w)' /\ LeftToSave(w)'
    BY <1>2, <1>4 DEF SoloInv, CopiesFresh, LeftToSave
  <1>6. HeldSet'
    BY <1>3 DEF SoloInv, HeldSet
  <1>7. ToldRecorded(w)'
    BY <1>1, <1>2, <1>3, <1>4 DEF SoloInv, ToldRecorded, ToldOK, RulesetsOK
  <1> QED
    BY <1>5, <1>6, <1>7 DEF SoloInv

LEMMA AskTrackSolo ==
    ASSUME NEW w, Workers = {w}, TriggerInv, SoloInv(w), NEW q, T!AskTrack(w, q)
    PROVE  SoloInv(w)'
PROOF
  <1>1. LocalTypes
    BY LocalsTyped DEF TriggerInv
  <1>2. /\ stage[w] = "track" /\ UNCHANGED <<rulesets, told, todo>>
        /\ stage' = [stage EXCEPT ![w] = "idle"] \/ stage' = stage
    BY DEF T!AskTrack, T!Goto
  <1>3. stage'[w] \in {"idle", "track"} /\ (\A t : ~ Saving(w, t)) /\ (\A t : ~ Saving(w, t)')
    BY <1>1, <1>2 DEF LocalTypes, Saving
  <1>4. CopiesFresh(w)' /\ LeftToSave(w)'
    BY <1>2, <1>3 DEF SoloInv, CopiesFresh, LeftToSave
  <1>5. HeldSet' /\ ToldRecorded(w)'
    BY <1>2, <1>3 DEF SoloInv, HeldSet, ToldRecorded
  <1> QED
    BY <1>4, <1>5 DEF SoloInv

LEMMA DeleteSolo ==
    ASSUME NEW w, Workers = {w}, TriggerInv, SoloInv(w), NEW s \in Rulesets, T!Delete(w, s)
    PROVE  SoloInv(w)'
PROOF
  <1>1. /\ stage[w] = "idle" /\ rulesets' = T!Without(rulesets, s)
        /\ UNCHANGED <<told, stage, todo, current, verdict, changed>>
    BY DEF T!Delete, T!locals
  <1>2. DOMAIN rulesets' \subseteq DOMAIN rulesets
        /\ \A t \in DOMAIN rulesets' : rulesets'[t] = rulesets[t]
    BY <1>1, WithoutFacts
  <1>3. (\A t : ~ Saving(w, t)) /\ (\A t : ~ Saving(w, t)')
    BY <1>1 DEF Saving
  <1>4. CopiesFresh(w)' /\ LeftToSave(w)'
    BY <1>1, <1>3 DEF SoloInv, CopiesFresh, LeftToSave
  <1>5. HeldSet' /\ ToldRecorded(w)'
    BY <1>1, <1>2, <1>3 DEF SoloInv, HeldSet, ToldRecorded
  <1> QED
    BY <1>4, <1>5 DEF SoloInv

LEMMA OldFacts ==
    ASSUME NEW s \in Rulesets, NEW d \in T!Document(s)
    PROVE  /\ T!Old(d).id = d.id /\ T!Old(d).result = d.result
           /\ T!Old(d).held = {r \in T!Names(s) : d.result[r] # "unset"}
PROOF
  <1> DEFINE h == {r \in DOMAIN d.result : d.result[r] # "unset"}
  <1>1. h = {r \in T!Names(s) : d.result[r] # "unset"}
    BY DocumentFields
  <1>2. T!Old(d) = [d EXCEPT !.held = h]
    BY DEF T!Old
  <1> HIDE DEF h
  <1>3. T!Old(d).id = d.id /\ T!Old(d).result = d.result /\ T!Old(d).held = h
    BY <1>2, DocumentFields
  <1> QED
    BY <1>1, <1>3

LEMMA TimeSolo ==
    ASSUME NEW w, Workers = {w}, TriggerInv, SoloInv(w), T!TimePasses
    PROVE  SoloInv(w)'
PROOF
  <1>1. RulesetsOK /\ CopiesOK(w)
    BY LocalsTyped DEF TriggerInv
  <1>2. CopiesFresh(w) /\ LeftToSave(w) /\ HeldSet /\ ToldRecorded(w)
    BY DEF SoloInv
  <1>3. /\ rulesets' = [s \in DOMAIN rulesets |-> T!Old(rulesets[s])]
        /\ todo'[w] = [s \in DOMAIN todo[w] |-> T!Old(todo[w][s])]
        /\ UNCHANGED <<told, stage, current, verdict, changed>>
    BY DEF T!TimePasses
  <1>4. ASSUME NEW s \in DOMAIN rulesets
        PROVE  /\ rulesets'[s].id = rulesets[s].id /\ rulesets'[s].result = rulesets[s].result
               /\ rulesets'[s].held = {r \in T!Names(s) : rulesets[s].result[r] # "unset"}
               /\ rulesets[s].held \subseteq rulesets'[s].held
    <2>1. s \in Rulesets /\ rulesets[s] \in T!Document(s)
      BY <1>1 DEF RulesetsOK
    <2>2. rulesets[s].held \subseteq T!Names(s)
      BY <2>1, DocumentFields
    <2>3. rulesets'[s] = T!Old(rulesets[s])
      BY <1>3
    <2> QED
      BY <1>2, <2>1, <2>2, <2>3, OldFacts DEF HeldSet
  <1>5. ASSUME NEW s \in DOMAIN todo[w]
        PROVE  /\ todo'[w][s].id = todo[w][s].id /\ todo'[w][s].result = todo[w][s].result
               /\ todo'[w][s].held = {r \in T!Names(s) : todo[w][s].result[r] # "unset"}
    <2>1. s \in Rulesets /\ todo[w][s] \in T!Document(s)
      BY <1>1 DEF CopiesOK
    <2>2. todo'[w][s] = T!Old(todo[w][s])
      BY <1>3
    <2> QED
      BY <2>1, <2>2, OldFacts
  <1>6. DOMAIN rulesets' = DOMAIN rulesets /\ DOMAIN todo'[w] = DOMAIN todo[w]
    BY <1>3
  <1>7. \A s : Saving(w, s)' <=> Saving(w, s)
    BY <1>3 DEF Saving
  <1>8. CopiesFresh(w)'
    <2>1. ASSUME NEW s \in DOMAIN todo[w]
          PROVE  /\ s \in DOMAIN rulesets /\ todo'[w][s].id = rulesets'[s].id
                 /\ ~ Saving(w, s) => /\ todo'[w][s].result = rulesets'[s].result
                                      /\ todo'[w][s].held = rulesets'[s].held
      <3>1. /\ s \in DOMAIN rulesets /\ todo[w][s].id = rulesets[s].id
            /\ ~ Saving(w, s) => todo[w][s].result = rulesets[s].result
        BY <1>2 DEF CopiesFresh
      <3> QED
        BY <1>4, <1>5, <3>1
    <2>2. stage'[w] \in {"idle", "track"} => DOMAIN todo'[w] = {}
      BY <1>2, <1>3, <1>6 DEF CopiesFresh
    <2> QED
      BY <1>6, <1>7, <2>1, <2>2 DEF CopiesFresh
  <1>9. LeftToSave(w)'
    <2>1. ASSUME NEW s \in DOMAIN rulesets, Saving(w, s), NEW n \in changed[w], Waited(w, s, n)
          PROVE  Waited(w, s, n)'
      BY <1>3, <1>4, <2>1 DEF Waited
    <2>2. ASSUME NEW s \in DOMAIN rulesets, Saving(w, s)
          PROVE  /\ \A n \in DOMAIN RulesOf[s] :
                       n \in changed'[w] <=> verdict'[w][RulesOf[s][n].name]
                                               # rulesets'[s].result[RulesOf[s][n].name]
                 /\ \A n \in changed[w] : Waited(w, s, n)'
      BY <1>2, <1>3, <1>4, <2>1, <2>2 DEF LeftToSave
    <2>3. changed' = changed /\ (stage'[w] = "dispatch" => changed'[w] = {})
      BY <1>2, <1>3 DEF LeftToSave
    <2> QED
      BY <1>6, <1>7, <2>2, <2>3 DEF LeftToSave
  <1>10. HeldSet'
    BY <1>4, <1>6 DEF HeldSet
  <1>11. ToldRecorded(w)'
    BY <1>2, <1>3, <1>4, <1>6, <1>7 DEF ToldRecorded
  <1> QED
    BY <1>8, <1>9, <1>10, <1>11 DEF SoloInv

LEMMA SoloStep ==
    ASSUME NEW w, Workers = {w}, TypeInv, SoloInv(w), [Next]_vars
    PROVE  SoloInv(w)'
PROOF
  <1>1. TriggerInv
    BY DEF TypeInv
  <1>2. CASE \/ \E i \in Instances : MonitorerStep(i) \/ MonitorerFails(i)
             \/ \E q \in Queues : QueueGetsDue(q) \/ LevelChanges(q)
             \/ UNCHANGED vars
    <2>1. UNCHANGED <<rulesets, told, T!locals>>
      BY <1>2 DEF MonitorerStep, MonitorerFails, QueueGetsDue, LevelChanges, vars, triggerOwn,
                  T!locals
    <2> QED
      BY <2>1, SoloSame
  <1>3. CASE TriggerRestarts
    <2>1. UNCHANGED <<rulesets, told, T!locals>>
      BY <1>3 DEF TriggerRestarts, T!Restart
    <2> QED
      BY <2>1, SoloSame
  <1>4. CASE ResultsAge
    BY <1>1, <1>4, TimeSolo DEF ResultsAge
  <1>5. CASE TriggerStep(w)
    <2>1. CASE T!Ignore(w)
      <3>1. UNCHANGED <<rulesets, told, T!locals>>
        BY <2>1 DEF T!Ignore
      <3> QED
        BY <3>1, SoloSame
    <2> QED
      BY <1>1, <1>5, <2>1, TakeSolo, ComputeSolo, SaveResultSolo, DispatchSolo
      DEF TriggerStep, T!Worker
  <1>6. ASSUME NEW s \in Rulesets, AddRuleset(w, s) \/ DeleteRuleset(w, s) PROVE SoloInv(w)'
    BY <1>1, <1>6, AddSolo, DeleteSolo DEF AddRuleset, DeleteRuleset
  <1>7. ASSUME NEW q \in Queues, TrackResource(w, q) PROVE SoloInv(w)'
    BY <1>1, <1>7, AskTrackSolo DEF TrackResource
  <1> QED
    BY <1>2, <1>3, <1>4, <1>5, <1>6, <1>7 DEF Next

LEMMA SoloInvariant ==
    ASSUME NEW w, Workers = {w}
    PROVE  Spec => []SoloInv(w)
PROOF
  <1>1. Init => SoloInv(w)
    BY SoloInit DEF Init
  <1>2. TypeInv /\ SoloInv(w) /\ [Next]_vars => SoloInv(w)'
    BY SoloStep
  <1>3. Spec => []TypeInv
    BY TypeInvariant
  <1> QED
    BY <1>1, <1>2, <1>3, PTL DEF Spec

(* on_metrics_updated, add: with one worker, between two handlers, the     *)
(* owner of every ruleset was told the recorded result of each of its      *)
(* rules, whatever reports, requests and results crossed before.           *)
THEOREM OwnerIsTold ==
    ASSUME NEW w, Workers = {w}
    PROVE  Spec => []OwnerKnows
PROOF
  <1>1. SoloInv(w) => OwnerKnows
    BY DEF SoloInv, ToldRecorded, Saving, OwnerKnows, T!OwnerKnows
  <1>2. Spec => []SoloInv(w)
    BY SoloInvariant
  <1> QED
    BY <1>1, <1>2, PTL

(* A step of the one worker or of anyone else changes the documents in one *)
(* of these ways.                                                          *)
Untouched == \A s \in DOMAIN rulesets \cap DOMAIN rulesets' :
                rulesets'[s].result = rulesets[s].result /\ rulesets[s].held \subseteq rulesets'[s].held

LEMMA DocumentsChange ==
    ASSUME NEW w, Workers = {w}, TypeInv, SoloInv(w), [Next]_vars
    PROVE  \/ Untouched
           \/ T!SaveResult(w)
           \/ \E s \in Rulesets : T!Add(w, s)
PROOF
  <1>1. TriggerInv /\ RulesetsOK /\ LocalTypes /\ CopiesOK(w)
    BY LocalsTyped DEF TypeInv, TriggerInv
  <1>2. CASE rulesets' = rulesets
    BY <1>2 DEF Untouched
  <1>3. ASSUME NEW s \in Rulesets, T!Delete(w, s) PROVE Untouched
    <2>1. rulesets' = [t \in DOMAIN rulesets \ {s} |-> rulesets[t]]
      BY <1>3 DEF T!Delete, T!Without
    <2> QED
      BY <2>1 DEF Untouched
  <1>4. CASE T!TimePasses
    <2>1. \A s \in DOMAIN rulesets :
             /\ s \in Rulesets /\ rulesets[s] \in T!Document(s)
             /\ \A r \in rulesets[s].held : r \in T!Names(s) /\ rulesets[s].result[r] # "unset"
      BY <1>1, DocumentFields DEF RulesetsOK, SoloInv, HeldSet
    <2>2. rulesets' = [s \in DOMAIN rulesets |-> T!Old(rulesets[s])]
      BY <1>4 DEF T!TimePasses
    <2> QED
      BY <2>1, <2>2, OldFacts DEF Untouched
  <1>5. CASE T!ComputeNext(w)
    <2>1. PICK s \in DOMAIN todo[w] : T!Compute(w, s)
      BY <1>5 DEF T!ComputeNext
    <2>2. report[w].metrics \in Levels
      BY <1>1 DEF LocalTypes, T!Report
    <2>3. T!SaveMetrics(s, todo[w][s], report[w].queue, report[w].metrics)
      BY <2>1 DEF T!Compute
    <2> QED
      BY <1>1, <2>2, <2>3, SaveMetricsFacts DEF Untouched
  <1>6. CASE TriggerStep(w)
    BY <1>2, <1>5, <1>6 DEF TriggerStep, T!Worker, T!Take, T!Ignore, T!Dispatch
  <1>7. ASSUME NEW q \in Queues, TrackResource(w, q) PROVE rulesets' = rulesets
    BY <1>7 DEF TrackResource, T!AskTrack
  <1>8. CASE \/ \E i \in Instances : MonitorerStep(i) \/ MonitorerFails(i)
             \/ \E q \in Queues : QueueGetsDue(q) \/ LevelChanges(q)
             \/ TriggerRestarts \/ UNCHANGED vars
    BY <1>2, <1>8 DEF MonitorerStep, MonitorerFails, QueueGetsDue, LevelChanges, TriggerRestarts,
                      T!Restart, vars, triggerOwn
  <1> QED
    BY <1>2, <1>3, <1>4, <1>6, <1>7, <1>8 DEF Next, AddRuleset, DeleteRuleset, ResultsAge

LEMMA AddedDocuments ==
    ASSUME TypeInv, NEW w \in Workers, NEW s \in Rulesets, T!Add(w, s)
    PROVE  /\ rulesets'[s].result = [r \in T!Names(s) |-> "unset"]
           /\ \A t \in DOMAIN rulesets \ {s} : rulesets'[t] = rulesets[t]
  BY ReplaceFacts DEF T!Add, TypeInv, TriggerInv

(* _save_rules_results: with one worker, the date from which the since-    *)
(* clauses count is set anew only with a result that differs.              *)
THEOREM DatesFollowResults ==
    ASSUME NEW w, Workers = {w}
    PROVE  Spec => SinceCountsFromChange
PROOF
  <1>1. ASSUME TypeInv, SoloInv(w), [Next]_vars,
               NEW s \in DOMAIN rulesets, s \in DOMAIN rulesets',
               NEW r \in rulesets[s].held \ rulesets'[s].held
        PROVE  rulesets'[s].result[r] # rulesets[s].result[r]
    <2>1. TriggerInv /\ HeldSet /\ s \in Rulesets /\ rulesets[s] \in T!Document(s)
      BY <1>1 DEF TypeInv, TriggerInv, RulesetsOK, SoloInv
    <2>2. rulesets[s].result[r] # "unset" /\ r \in T!Names(s)
      BY <2>1, DocumentFields DEF HeldSet
    <2>3. CASE Untouched
      BY <2>3, <1>1 DEF Untouched
    <2>4. CASE T!SaveResult(w)
      <3> DEFINE n == T!First(changed[w])
      <3>1. /\ stage[w] = "results" /\ n \in DOMAIN RulesOf[current[w]] /\ n \in changed[w]
            /\ rulesets'[current[w]].result = [rulesets[current[w]].result EXCEPT
                   ![RulesOf[current[w]][n].name] = verdict[w][RulesOf[current[w]][n].name]]
            /\ rulesets'[current[w]].held
                   = rulesets[current[w]].held \ {RulesOf[current[w]][n].name}
            /\ \A t \in DOMAIN rulesets \ {current[w]} : rulesets'[t] = rulesets[t]
        BY <1>1, <2>1, <2>4, SaveResultStep
      <3>2. s = current[w] /\ r = RulesOf[s][n].name
        BY <1>1, <3>1
      <3>3. verdict[w][r] # rulesets[s].result[r]
        BY <1>1, <3>1, <3>2 DEF SoloInv, LeftToSave, Saving
      <3>4. rulesets[s].result \in [T!Names(s) -> T!Verdicts]
        BY <2>1, DocumentFields
      <3> QED
        BY <2>2, <3>1, <3>2, <3>3, <3>4
    <2>5. ASSUME NEW t \in Rulesets, T!Add(w, t)
          PROVE  rulesets'[s].result[r] # rulesets[s].result[r]
      <3>1. CASE s = t
        BY <1>1, <2>2, <2>5, <3>1, AddedDocuments
      <3>2. CASE s # t
        BY <1>1, <2>5, <3>2, AddedDocuments
      <3> QED
        BY <3>1, <3>2
    <2> QED
      BY <1>1, <2>3, <2>4, <2>5, DocumentsChange
  <1>2. TypeInv /\ SoloInv(w) /\ [Next]_vars =>
           [\A s \in DOMAIN rulesets : s \in DOMAIN rulesets' =>
               \A r \in rulesets[s].held \ rulesets'[s].held :
                  rulesets'[s].result[r] # rulesets[s].result[r]]_T!triggerVars
    BY <1>1
  <1>3. Spec => []SoloInv(w)
    BY SoloInvariant
  <1> QED
    BY <1>2, <1>3, TypeInvariant, PTL DEF Spec, SinceCountsFromChange, T!SinceCountsFromChange

(* _solve_rules, get_since: with one worker, a rule that waits for another *)
(* is recorded as holding only when that one was recorded as holding, and  *)
(* for long enough, before the step.                                       *)
THEOREM WaitsAreLong ==
    ASSUME NEW w, Workers = {w}
    PROVE  Spec => SinceIsWaited
PROOF
  <1>1. ASSUME TypeInv, SoloInv(w), [Next]_vars,
               NEW s \in DOMAIN rulesets, s \in DOMAIN rulesets', NEW n \in DOMAIN RulesOf[s],
               RulesOf[s][n].op = "held",
               rulesets[s].result[RulesOf[s][n].name] # "yes",
               rulesets'[s].result[RulesOf[s][n].name] = "yes"
        PROVE  rulesets[s].result[RulesOf[s][n].arg] = "yes"
               /\ RulesOf[s][n].arg \in rulesets[s].held
    <2>1. TriggerInv /\ s \in Rulesets /\ rulesets[s] \in T!Document(s)
      BY <1>1 DEF TypeInv, TriggerInv, RulesetsOK
    <2>2. RulesOf[s][n].name \in T!Names(s)
      BY <2>1, RulesFacts
    <2>3. CASE Untouched
      BY <1>1, <2>3 DEF Untouched
    <2>4. ASSUME NEW t \in Rulesets, T!Add(w, t) PROVE FALSE
      <3>1. CASE s = t
        BY <1>1, <2>2, <2>4, <3>1, AddedDocuments
      <3>2. CASE s # t
        BY <1>1, <2>4, <3>2, AddedDocuments
      <3> QED
        BY <3>1, <3>2
    <2>5. CASE T!SaveResult(w)
      <3> DEFINE k == T!First(changed[w])
      <3>1. /\ stage[w] = "results" /\ k \in DOMAIN RulesOf[current[w]] /\ k \in changed[w]
            /\ rulesets'[current[w]].result = [rulesets[current[w]].result EXCEPT
                   ![RulesOf[current[w]][k].name] = verdict[w][RulesOf[current[w]][k].name]]
            /\ \A t \in DOMAIN rulesets \ {current[w]} : rulesets'[t] = rulesets[t]
        BY <1>1, <2>1, <2>5, SaveResultStep
      <3>2. rulesets[s].result \in [T!Names(s) -> T!Verdicts]
        BY <2>1, DocumentFields
      <3>3. s = current[w] /\ RulesOf[s][n].name = RulesOf[s][k].name
        BY <1>1, <2>2, <3>1, <3>2
      <3>4. n = k /\ verdict[w][RulesOf[s][n].name] = "yes"
        BY <1>1, <2>1, <2>2, <3>1, <3>2, <3>3, RulesFacts
      <3>5. Waited(w, s, n)
        BY <1>1, <3>1, <3>3, <3>4 DEF SoloInv, LeftToSave, Saving
      <3> QED
        BY <1>1, <3>4, <3>5 DEF Waited
    <2> QED
      BY <1>1, <2>3, <2>4, <2>5, DocumentsChange
  <1>2. TypeInv /\ SoloInv(w) /\ [Next]_vars =>
           [\A s \in DOMAIN rulesets \cap DOMAIN rulesets' : \A n \in DOMAIN RulesOf[s] :
               LET rule == RulesOf[s][n]
               IN  /\ rule.op = "held"
                   /\ rulesets[s].result[rule.name] # "yes"
                   /\ rulesets'[s].result[rule.name] = "yes"
                   => rulesets[s].result[rule.arg] = "yes" /\ rule.arg \in rulesets[s].held
           ]_T!triggerVars
    BY <1>1
  <1>3. Spec => []SoloInv(w)
    BY SoloInvariant
  <1> QED
    BY <1>2, <1>3, TypeInvariant, PTL DEF Spec, SinceIsWaited, T!SinceIsWaited
===============================================================================
