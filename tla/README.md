# Formal models of maiev

TLA+ specifications of [maiev](../src), the set of nameko micro-services that
watches a docker swarm, scales its services with their load and upgrades them
through compatible sets of versions. TLC checks the models on small instances;
TLAPS proves the theorems for every value of the constants.

## The system

Paths are below `src/services/`.

| Component | State it keeps | Operations | Talks to |
|---|---|---|---|
| `scaler/scaler_docker` | none (docker holds it) | `update`, `get`, `list_services`, `fetch_image_config`; docker events; registry notifications over HTTP | docker; emits `service_updated`, `image_updated` |
| `overseer/overseer` | `services` (monitored services: mode, image, scale_config), `versions` | `on_service_updated`, `check_new_scale_config`, `on_image_updated`, `recheck_new_version`, `monitor`, `unmonitor_service`, `scale`, `upgrade_service` | calls scaler_docker and load_manager asynchronously; emits `service_updated`, `new_image`, `cleaned_image` |
| `overseer/upgrade_planer` | `catalog`, `phases`, `scheduling` | `on_service_deployed`, `on_image_cleaned`, `on_new_version`, `on_new_version_check_upgrade`, `run_available_upgrade`, `continue_scheduled_plan`, `sanity_check` | calls dependency_solver and overseer; emits and consumes `new_version` |
| `overseer/dependency_solver` | none | `solve_dependencies`, `explain` | called by upgrade_planer |
| `overseer/load_manager` | `services` (a second document per service: mode, scale_config, latest results) | `on_ruleset_triggered`, `on_service_updated`, `recheck_rules` (timer), `monitor_service`, `unmonitor_service` | calls trigger and overseer |
| `monitorer/trigger` | `rulesets` with the history of metrics and results | `on_metrics_updated`, `compute`, `add`, `delete`, `purge` | calls the monitorers; emits `ruleset_triggered` |
| `monitorer/monitorer_rabbitmq` | `service_to_track` | `track`, `time_tick` (timer) | RabbitMQ's HTTP API; emits `metrics_updated` |
| `maiev-base` | none | nameko entry points, mongo driver, `ImageVersion` | used by all |

Two loops run through the components. **Scaling**: rabbitmq metrics → trigger
→ load_manager → overseer → docker → overseer → load_manager. **Upgrading**:
image pushed → overseer → upgrade_planer (→ dependency_solver) → overseer →
docker → overseer → upgrade_planer, which launches the next step of its plan.

### What is hard, and what correct means

Each service is a pool of workers (`max_workers`, 10 by default) and may have
several instances. A worker that waits for mongo or for an RPC lets the others
run, there are no transactions, and most handlers read a whole document, change
it and write it back. A message is acknowledged when its handler returns or
raises; if the process dies it is delivered again. So:

* *upgrade_planer*: one plan at a time; a plan advances in its order, never
  back; a running plan waits for an upgrade that was really asked for; a
  version that was announced is not forgotten; the cluster moves through
  compatible phases only.
* *load_manager*: orders within the bounds of the scale_config; the scale it
  knows is the one docker has; rules exist for the services it manages and for
  no other; an overloaded service ends at its maximum.
* *overseer*: every change of a monitored service is announced, once, and its
  document ends up like docker.
* *trigger*: a change of a rule's result is reported; results are computed from
  the latest metrics of every resource.
* *monitorer_rabbitmq*: a tracked queue is polled once per period.
* *dependency_solver*: the phases it solves are those whose requirements hold,
  and `explain` agrees with them.

`PROJECT.json` lists the hazards at their lines.

## Modules

| Module | What it is |
|---|---|
| `UpgradePlaner` | the upgrade planer, handler by handler |
| `PlanLifecycle` | what it promises of the collection `scheduling` |
| `UpgradePlanerProofs` | theorems about `UpgradePlaner`: any number of workers, then a single one and the refinement |
| `LoadManager` | the load manager with the overseer, the trigger and docker around it |
| `Overseer` | the monitored services, with docker and scaler_docker around them |
| `ImageHistory` | the overseer's history of images and the registry |
| `DependencySolver` | the backtracking search and `explain` |
| `Trigger` | rulesets, their histories, the computation of rules |
| `MonitorerRabbitmq` | the tracked queues and the timer that polls them |
| `Monitoring` | `MonitorerRabbitmq` and `Trigger` composed |
| `MonitoringProofs` | theorems about `Monitoring`: the polls, the types (of `Trigger` by itself too), and the results with a single worker |
| `LoadManagerProofs`, `OverseerProofs`, `ImageHistoryProofs` | theorems about these modules: types for any number of workers, safety for a single one |
| `DependencySolverProofs` | the search is sound and complete, for every catalog |
| `UpgradeSystem` | `UpgradePlaner` and `Overseer` composed, with docker |
| `UpgradeSystemProofs` | theorems about `UpgradeSystem`, a single worker of each: the refinement of `RollingUpgrade`, the catalog, steps and plans |
| `RollingUpgrade` | what that system promises of the versions that run |
| `ImageVersion` | the comparisons of image versions, with theorems |
| `MC...` | the instances of these modules for TLC |

### Conventions

A handler becomes one action per access to mongo and per RPC; `stage[w]` is the
access worker `w` makes next and the handler's local variables are functions of
the worker (`entry`, `sched`, `doc`, `todo`...). Two workers thus interleave at
every access, as nameko's greenlets do. With a single worker a handler runs to
its end before the next one, while the environment still moves between its
steps. `Crash` puts the handler back to its first access (the message is
delivered again) with its local variables lost. An exception is `Finish`: nameko
acknowledges the message. Numbers that only bound the exploration are constants
named `Max...`, used in guards of the environment's actions or of the clock.
Some operators are marked *mutant*: they are the variants of the next
definition, with the bug that the comment names, against which the properties
were tried.

### UpgradePlaner

* `catalog` keeps, per service, its current version, the versions listed and
  those still available. Versions are numbers in the order of `ImageVersion`;
  `Latest` is the number of the tag `latest`.
* `ReadDeployed`, `SaveService`, `LogPhase` and `ContinuePlan` ... `ReplacePlan`
  are `on_service_deployed`; `ReadImage`, `SaveService`, `DispatchNewVersion` are
  `on_new_version`; `ReadCleaned` is `on_image_cleaned`; `ReadSanity` one turn of
  the loop of `sanity_check`.
* `Solve`, `SolveBestPhase`, `BuildSteps`, `RunStep`, `CallOverseer`,
  `DisableScheduled`, `InsertPlan` are `run_available_upgrade` with
  `resolve_upgrade_and_steps`. The reads of `explain_phase` inside `build_steps`
  are taken as one access.
* The dependency solver is two constants: `Solvable`, the phases
  `solve_dependencies` accepts, and `Explained`, those `explain` reports no
  failure of. Nothing is assumed to relate them. `SolveDependencies` is the
  configuration key that replaces the solver by the latest versions.
* The environment is open: events of the overseer carry any service and any
  version, because services are also redeployed by hand.
* `_abord_scheduled` iterates over the keys of the plan and raises; so every
  path that should abort a plan is a `Finish` that stores nothing.

`PlanLifecycle` knows only `scheduling`: plans are appended when none runs,
advance step by step, and never change once ended. `UpgradePlaner` with one
worker implements it (`PlansFollowLifecycle`; the mapping is the identity on
`scheduling`, all other variables are hidden).

### LoadManager

* `docs` is the collection `services` of the load manager, `rules` and
  `reported` the part of the trigger it depends on, `replicas` docker,
  `watched` the overseer's monitored services, `orders` the calls of
  `scaler_docker.update` under way, `queues` the messages per handler.
* `ReadUpdated`, `SetTriggerRules`, `SaveUpdated` are `on_service_updated`;
  `SaveMonitored`, `SetTriggerRules`, `DeleteRules` are `monitor_service`;
  `RemoveService`, `DeleteRules` are `unmonitor_service`; `ReadTriggered`,
  `ExecuteRuleset`, `CallScale` are `on_ruleset_triggered`; `RecheckRules`,
  `Recheck`, `ExecuteRuleset`, `CallScale` are the timer `recheck_rules`.
* Exceptions of the code are kept: a `scale_config` that is None in an update
  or in `monitor_service`, an unknown service in a report, rules without
  `__scale_up__` or `__scale_down__` and a refused order in `recheck_rules`.
* The RPCs a handler awaits (`trigger.compute`, `trigger.add`, `trigger.delete`,
  `overseer.scale`) may raise, which ends it and acknowledges its message (`Fail`,
  at most `MaxFailures` times). `undeleted` is a history variable: the services
  whose rules the last `trigger.delete` left behind so.
* The overseer's announcements arrive in the order of docker's changes; its own
  races are in `Overseer`.

### Overseer

* `docs` is the collection `services`, a document with its mongo `_id`; `docker`,
  `updating` and `events` are docker, its unfinished updates and its event
  stream; `listening` says whether scaler_docker's listener lives; `missed` only
  remembers which services changed while it did not.
* `view` is what a subscriber of the overseer's events (the planer, the load
  manager) would know of a service by adding up the diffs it was sent.
* `Listen` is `start_listen_events`: the service is read when its event is
  handled, and an exception ends the listener. `Update` is `update`, called
  asynchronously, so in any order.
* `ReadUpdated`, `SaveServiceState`, `Dispatch` are `on_service_updated`;
  `CheckNewScaleConfig`, `PropagateConfig` are `check_new_scale_config`, which the
  overseer runs on its own announcements; `FetchServices` ... are
  `fetch_services` at start; `GetService`, `StoreMonitored`, `AnnounceMonitored`
  are `monitor`, which `fetch_services` calls too.
* `scale_info` is a function of the image (`ConfigOf`); `NoConfig` is None.

### ImageHistory

* `registry` has the tags of one image that all services use; `Users[t]` are the
  services whose `full_image_id` is that of tag `t` (its species); `versions` is
  the collection, a set of documents because nothing keeps a tag from being
  inserted twice; `known` is what `new_image` and `cleaned_image` told.
* `RecheckNewVersion`, `ListTags`, `Compare`, `CleanImage`, `RemoveVersion`,
  `CheckNew` are the timer; it shares `FindServices`, `NotifyNewImage`,
  `InsertVersion` (`_notify_new_image`) with `OnImageUpdated`.
* `image_updated` is delivered without persistence: `Push` may lose it, and a
  crash drops it.

### DependencySolver

* The recursive generator `backtrack` is an explicit stack: `pins` is
  `tmp_solution`, `todo[n]` the pins that the call of depth `n` has yet to try.
  `TryNextService`, `Refuse` and `Return` are the accepted pin, the refused pin
  and the end of a call, which yields when every service is pinned.
* A requirement is the set of values it accepts for one name. A feature missing
  raises KeyError and refuses; a name out of the symbol table leaves the version
  out of the problem (`Conditions`).
* The references are written from sets: all choices of one version per service,
  those whose requirements hold together, those that can be started in some
  order, those without services that wait for each other. A catalog is *simple*
  when one service provides a feature and nothing is required to be absent: there
  the search yields exactly the phases that are compatible and grounded.
* `explain` compiles the names of the solution alone, `solve` those of the whole
  catalog. A version that requires a service is thus left out by `explain` when
  the solution's version of that service provides nothing, although `solve`
  accepted it; what it provides is then missing to the others.
  `SolutionsExplained` is stated for the solutions of which nothing is left out.

### Trigger

* `rulesets` is the collection, documents with their mongo `_id`; `told` is what
  the owner of each ruleset was sent last; `reports` are the `metrics_updated`
  events under way, which are not reliable: `Crash` and `Restart` lose them.
* `Take` (or `Ignore`) reads the rulesets about a queue; `SaveMetrics`,
  `Compute`, `SaveResult` and `Dispatch` are the loop of `on_metrics_updated` and
  the accesses of `_save_metrics`, `_save_rules_results` and the dispatch. The
  worker computes with the copies it took (`todo`), whatever happens to the
  stored documents meanwhile.
* An expression is what it says of the metrics: over or under a limit, "another
  rule has held for long" (`rules:x` and `rules:x:since`), or one that raises.
  Dates are `held`, the rules whose last result is old enough. `changed` is the
  set of places of the rules left to save (of the resources left to track), the
  least first, as the loops of the code go.
* `Add`, `AskTrack` and `Delete` are the RPCs; `add` makes the monitorer track
  every resource after the document is stored.

### MonitorerRabbitmq

* `tracked` is the collection in natural order, `check` the age of `last_check`
  as the query tells it apart. `StartTick` computes `since`; `fresh[i]` is what
  that date makes the query of instance `i` leave out. `Pick` is
  `find_and_modify`, an atomic step of mongo; `Measure`, `Dispatch` the rest of
  the turn; `Fail` an exception or a crash, which ends the tick.
* Several instances run the same timer on the same collection.

### Monitoring

The two modules share `level`, `reports` and `inputs`; the announcements of the
monitorer are the trigger's input, and `TrackResource` (the RPC `track`) is a
step of both. All other steps belong to one module and leave the other's
variables alone.

### UpgradeSystem and RollingUpgrade

* The module extends `UpgradePlaner` and instantiates `Overseer` as `O` (docker and
  scaler_docker included). `PlanerStep` is any step of a handler of the planer but
  the RPC. The steps of both are `CallUpgrade`, by which a worker of the planer waits
  for the overseer, which passes the order to docker or raises; `DispatchUpdated`,
  which adds to `mail`, the planer's queue of `service_updated`; and `TakeMail`, the
  start of its handler. `TakeCheck` is the planer's own `new_version`.
* The planer's open environment is replaced by these. What is left of it is
  `AskUpgrade`: the RPC `run_available_upgrade` and the events `new_image` and
  `cleaned_image`, at any time and of any version; `new_image` also says which
  version its service runs.
* `ServiceUpdated` says when `on_service_deployed` takes an upgrade for finished:
  docker says "completed", or the service has no replica to replace.
* Two history variables serve the properties. `interference` records what came
  between a plan and the cluster: an operator deployed something (`"deployed"`), a
  plan was made while an order, an event or a message was still under way or the
  catalog was behind (`"hasty"`, see `InStep`), or the planer crashed between the
  order of the first step and the insert of the plan (`"lost"`). `Undisturbed` says
  that nothing did. `outdated` are the services announced with an image that is gone.
* `RollingUpgrade` knows only the versions that run and whether anything came
  between: one service moves at a time, into an explained phase, until something does.
  `UpgradeSystem` implements it with `running` the images in `docker`
  (`UpgradesAreRolling`).

### ImageVersion

A tag is its image, its digest and its version: none, when there is no tag or one
that does not match; `latest`; one that `Version.coerce` refuses (`Numberless`: the
version of `alpine` is the empty string); or a place in the order with a build (what
`Version.coerce` keeps of `1.2.3.4` beyond the third number). `Eq` and `Lt` say when
`__eq__` and `__lt__` answer true, `EqRaises` and `LtRaises` when they raise. The
numbers of `UpgradePlaner` are ordered as `Lt` orders the tags, which
`MCUpgradePlaner` asserts of its instances.

## Runs

| Run | Shows |
|---|---|
| `planer_one` | one worker, 5 messages of all kinds, 1 crash: `OneRunningPlan`, `PhaseLogsDeployment`, `NoVersionLost`, and the refinement `PlansFollowLifecycle` |
| `planer_two` | two workers, three services, 4 messages, 1 crash: `TypeOK`, `StepsLaunchedInOrder`, `PlanProgress`, `RunningStepsRequested` hold under every interleaving |
| `load_one` | one service that is monitored, unmonitored, unwatched, reconfigured, 3 environment steps, 1 crash, 1 call that raises: `RulesFollowServices`, `NoResurrection` |
| `load_live` | two monitored services, 2 environment steps, 1 call that raises, fairness: `TypeOK`, `KnownScaleIsReal`, `OrdersJustified`, `ScalesUpToMax` |
| `overseer_one` | one worker, two services, 2 environment steps, 1 failed call, 1 crash: `TypeOK`, `KnownStateIsReal`, `SubscribersKnow` |
| `images_one` | one worker, two services, a tag of one and a tag of both, 2 environment steps, 1 failed call, 1 crash: `TypeOK`, `KnownIsRecorded`, `RemovedImagesCleaned` |
| `solver` | 6480 catalogs of three services and four versions: `ResultsStartable`, `SolvesSimpleCatalogs`, `SolutionsExplained`, `Terminates` |
| `trigger` | two workers with stale copies, a ruleset of two queues and one that raises, an environment step (added, deleted, load, crash or restart): `TypeOK`, `ResultsConverge` |
| `monitoring` | one or two monitorers and the trigger, a scale-down rule with a since-clause, three queues of which one has unreadable answers, an environment step: `OwnerKnows`, `OnePollPerPeriod`, `EveryQueuePolled`, `SinceCountsFromChange`, `SinceIsWaited`, `OwnerToldTheTruth` |
| `system` | planer, overseer and docker, two disturbances among requests, new images, deployments by hand, crashes and restarts: `UpgradesAreRolling`, `CatalogFollowsDocker`, `DoneStepsDeployed`, `DonePlansComplete`, `EmptyStepsEnd` |
| `system_stall` | `StepsEnd` is violated: a plan over services with replicas stops after its first step |
| `solver_explain` | `ExplainIsRight` is violated: `explain` counts no failure for a requirement nothing provides |

**Bounds.** Two services where one requires the other are the smallest catalog
with an ordered plan; a third, independent one makes plans of three steps, in
which a step can be done, running and waiting at once. Two versions make every
move an upgrade or a downgrade. Two workers are enough for each of the lost
updates of the hazards, which are pairwise. Five messages suffice for: two
versions announced, a plan, its first step deployed, a disturbance. For the load
manager a maximum of 2 (3 for the default) leaves one scale up from the initial
replica, then a saturated service; two services make the loop of
`recheck_rules` meaningful. One order under way when time passes still lets a
report add another one. One call that raises (`MaxFailures`) may be any of those of
a handler, before or after a crash. For the overseer two environment steps give two events
under way at once (a second change, a removal, an order or a `monitor` during the
handling of the first), which is what its handlers can confuse; the boot is there
in every behaviour. For the images two steps are a push and a deletion in either
order, with or without its notification, next to rechecks without bound. The
catalogs include a feature provided twice, a service required to be absent, a
requirement on oneself, on what nothing provides, a service required of which the
version chosen declares nothing, and cycles of two and three services.

In `trigger` the two queues are reported without end, so two workers hold copies
of the same ruleset at any stage; one announcement is under way at a time
(`MaxReports`), as a worker that has taken one no longer counts. In `monitoring`
either two instances poll one queue, where their ticks overlap in every way, or
one polls two of three, in either order, where the first gets due before the second
is reached. The answers about one of the three lack a field whenever it is polled
(`Unreadable`), so that failures that never end are there, next to the single one
that `MaxInputs` allows of the others; one
environment step is enough for each of an outage, a failed tick, a lost report, a
load that changes, a ruleset added again or deleted. In the `system` runs, "a" has
no replica, so that its step ends and the plan goes on, and "b" has one or none;
`Manual` lets an operator deploy "b" only, which is the service of the last step
as well as one that a request moves; `MaxDisturbances` (2) is the number of
requests, images, deployments and crashes together: two requests are what makes a
plan while another one's order is under way, a request and a crash what loses a
plan; versions 1 and 2 have different
scale_configs, so that both announcements of the overseer occur. Without the
bound the state space of the composition is out of reach, and each property can be
broken by a mutant within it.

**Fairness.** In the solver it says that the generator is run to its end, as
`list(s.solve())` does. In `ImageHistory` handlers end (weak), and a worker that
alternates between the timer and the notifications takes each again (strong); the
registry and the operators need not move. In `load_live`, `Work(w)` is weakly
fair: mongo and RPCs answer. The timer and the three queues are strongly fair,
because a free worker takes one of them and the others must get their turn;
nameko's consumers are served in turn and its timer never stops. `Report` (the
monitorer polls every 5 seconds), `ApplyOrder` and `TimePasses` are weakly fair.
In `trigger` the workers are weakly fair, and `Poll` is strongly fair per queue,
since the bound on reports under way disables it again and again. In `monitoring`
the polls are steps of the monitorer: its timers, the trigger's workers and the
passing of time are weakly fair. `system_stall` assumes only that something
internal happens as long as something can (`WF_vars(Internal)`): every request
causes finitely many steps, and nothing is left when the plan stalls. The
environment's steps are never fair: nobody has to push an image or change the
load.

## Proofs

**Any number of workers.** `UpgradePlanerProofs` proves, for every number of
services, versions and workers, and without bounds on messages and crashes:

* `PlanInvariant`: `Spec => []PlanInv`, the inductive invariant;
* `TypeCorrect`, `LaunchOrder`, `Progress`, `NoPhantomStep`: `TypeOK`,
  `StepsLaunchedInOrder`, `PlanProgress`, `RunningStepsRequested`.

None of the last three is inductive. A stored plan is replaced by the copy of a
handler, so `PlanInv` also says what holds of the copies: a worker between
`continue_scheduled_plan`'s read and its write holds a well-formed running plan
in which the updated service waits no more and another step does (`Continuing`);
one that is about to launch a plan holds a plan that waits entirely (`Fresh`);
one about to write holds a plan that may be stored as it is (`Storable`). Plans
move every service once (`DistinctServices`): without it, marking the updated
step done could leave a waiting step of the same service behind. The copies may
be stale, which is why the invariant speaks of each of them and not of how it
relates to the stored plan: a stale copy that replaces a plan keeps these
properties, and loses those that need a single worker. The argument never uses
what the messages contain. The assumptions are `ConstantsAssumption` only
(versions are positive numbers, finitely many services, solver answers are
phases).

**A single worker.** The second half of `UpgradePlanerProofs` assumes
`Workers = {w}` and proves the four properties of `planer_one`, for every catalog, solver, sequence of messages
and crashes:

* `OnePlanAtATime` (`OneRunningPlan`) and `ImplementsLifecycle`
  (`PlansFollowLifecycle`, the refinement). `SoloInv` adds to `PlanInv` how the
  worker's copy relates to the stored plan, which is what a second worker would
  spoil: from its read to its write the plan it continues is the running one, and
  the copy is that plan with the updated step marked (`Marked`), then with the
  next one launched (`Advanced`) or the plan done (`Completed`); when it inserts a
  plan, that plan was just launched and no other is running. The three writes are
  then the steps `Advance` or `Complete`, `Disable`, and `Launch` of
  `PlanLifecycle`, and every other step is a stutter.
* `LoggedPhases` (`PhaseLogsDeployment`) and `VersionsKept` (`NoVersionLost`), from
  `CatalogInv`: the entry about to be written lists every version of the stored
  one, and when the phase is logged the catalog has the version just saved.

**Monitoring.** `MonitoringProofs` proves `QueuesPolledOnce` (`OnePollPerPeriod`)
for every number of instances and queues: a queue is polled again within 4 seconds
only if it was tracked again in between. The property is not inductive, since
`find_and_modify` compares with a date computed before: `RecentLeftOut` says that
an instance whose tick is under way leaves out at least the queues polled
recently, by whomever, and not tracked again since. `TypeCorrect` (`TypeOK`) holds
for any instances, queues, workers and rulesets; `TriggerTypeCorrect` is the types of `Trigger` under its own
specification, in which handlers crash and announcements come back
(`T!Spec => []T!TypeOK`, with the lemmas of the composition). For a single worker of the trigger:

* `OwnerIsTold` (`OwnerKnows`), `DatesFollowResults` (`SinceCountsFromChange`) and
  `WaitsAreLong` (`SinceIsWaited`), for every set of rulesets whose rules have
  distinct names (`TriggerConstants`). `SoloInv(w)` relates the worker's copies to
  the collection: the copies are what is recorded, but for the ruleset whose
  results are being saved (`CopiesFresh`); the rules left to save are exactly those
  whose result differs from the recorded one, and none of those that wait for
  another is saved after the one it waits for (`LeftToSave`); what is recorded was
  told, but for that ruleset (`ToldRecorded`). A second worker spoils the first of
  these, and with it the three properties.

**Load manager.** `LoadManagerProofs`: `TypeCorrect` for any number of workers, and
with a single one:

* `RulesAreManaged` (`RulesFollowServices`) and `NothingResurrected`
  (`NoResurrection`). The first allows rules without a document for the services in
  `undeleted` only. `SoloHandler` says at which stage the handler of each message
  can be and what its copy has in common with the document; `RulesLag` which
  service alone may have rules without a document meanwhile: the one of the
  message whose handler is about to delete them, crashes included.
* `OrdersAreJustified` (`OrdersJustified`), for configurations with `min <= max`
  (with another, no order can be within both).
* `ScalesAreKnown` (`KnownScaleIsReal`), without calls of `monitor_service`, which
  may store a scale older than an event handled before it. `KnownInv` says that
  what docker has is what the last announcement that waits says, else what the
  handler under way stores, else the document.

**Overseer.** `OverseerProofs`: `TypeCorrect` for any number of workers, and with a
single one `CollectionFollowsDocker` (`KnownStateIsReal`) whatever crashes, and
`AnnouncementsAddUp` (`SubscribersKnow`), which is stated without crashes.
`DockerKnown` follows the state of a service from docker through the events to the
document: the last update queued (`LastKnows`), else the handler's copy, else the
document (`HandlerKnows`). `Follows` says which part of a document is still to be
announced at each stage.

**History of images.** `ImageHistoryProofs`: `TypeCorrect`, and with a single worker
`HistoryIsComplete` (`KnownIsRecorded`): whatever fails, a tag that was announced
stays in the collection. The invariant says that the documents removed are those
of tags announced as gone before (`ToldGone`), that no `_id` is reused
(`GoneKnows`), and that a handler inserts nothing before everything gone is
cleaned (`GoneFirst`): in the other order a tag could be removed that was just
inserted.

**Dependency solver.** `DependencySolverProofs` proves, for every set of catalogs
(finitely many versions of a service, features and services apart), whatever they
require:

* `TypeCorrect`; `EverySolutionStarts` (`ResultsStartable`): the order in which a
  solution was pinned is one in which it can be started.
* `EverySolutionFound` (`SolvesSimpleCatalogs`): for a simple catalog, of any size,
  what is yielded is exactly the set of phases that are compatible and grounded.
  *Sound*: a pin finds its requirements in the pins before it (`Met`); in a simple
  catalog a feature has one provider in a phase, so that no later pin changes this
  (`ValueGives`, `HoldsGives`), and the first pinned of a group of services needs
  none of the others. *Complete*: as long as a good phase is not yielded, the
  pins of some prefix of the stack belong to it and the call above has yet to
  try one of its versions that will be accepted (`Reached`); that there is one
  next is what being grounded gives (`NextOne`).
* `EverySolutionExplained` (`SolutionsExplained`).

The state invariant below both is `SearchInv`: what a call has yet to try is pinned
by no call around it (`StackOK`), a service is pinned once (`PinnedOnce`), `Met`.
That a finite set of numbers has a greatest (`LastOf`, `First`) is an induction,
done as the choice of a least counterexample with `WFMin`, which is no theorem
with an operator for parameter.

**Versions.** `ImageVersion` proves that two versioned tags of an image can be sorted
exactly when one is `latest` or both have a number (`SortableWhenNumbered`): one tag
without a number next to a numbered one makes the sort raise. Where `__lt__` answers
it is irreflexive and transitive, and two tags it compares and leaves unordered are
equal, two digests of `latest`, or differ after the third number only
(`UnorderedTied`); with `UnorderedTransitive`, it is a strict weak order of the tags
of an image that have a number or are `latest`. So sorting those does not depend on
the order of the input, but for the ties.

**The upgrade loop.** `UpgradeSystemProofs` assumes one worker of the planer and one
of the overseer (`Single(w, o)`) and proves the five properties of the run `system`,
for every set of services and versions, every solver, catalog, `ConfigOf` and number
of replicas, however many requests, images, deployments, crashes and restarts.
Besides `ConstantsAssumption` it uses `SystemAssumption` (numbers of replicas are
naturals, `Global` is none of them, services start with a known version).

* `SystemInv` is what always holds: the inductive invariants of the planer
  (`SoloInv`, `CatalogInv`), which carry over because every step of the system is a
  step of `UpgradePlaner` or leaves it alone, at which stage the planer's handler of
  each message can be (`PlanerOK`), and how documents, queues and handlers of the
  overseer relate (`ClusterOK`).
* `CatalogIsReal` (`CatalogFollowsDocker`) follows the state of a service on its way:
  an event is still to be heard, or the last update queued says what docker runs,
  else the one handled, else the document (`DocsFollow`); and from the document on,
  the overseer is about to announce it, or the last mail says it, else the message
  the planer handles, else the catalog (`NewsFollows`). Neither is inductive alone:
  what the planer is told is what the document says only if documents follow.
* `RollInv` says where an undisturbed cluster is: there are a plan `p`, the one last
  launched, and a number `k` of its steps that were ordered, such that docker runs
  the new versions of the first `k` (of the first `k - 1`, with the order of the
  `k`-th still on its way) and the old ones of the rest, and every mix on this path is
  explained (`Path`); everything under way in either service is about services
  already reached, and true of them (`Truthful`); the catalog is at most the step `k`
  behind, every running plan and the copy the handler holds are copies of `p`
  whose done steps were reached, and the handler goes on only with the step ordered
  last (`Following`). A plan that is about to be launched was made from the phase the
  cluster is in (`Ready`), which is what "hasty" excludes, and what it explains is
  computed from the catalog.
* `UpgradesRoll` (`UpgradesAreRolling`, the refinement): docker moves when it takes
  the one order on its way, which is that of step `k`, so to the next mix of the path;
  every other step is a stutter or a `Disturb`. It holds through crashes and
  restarts, lost events included: a restart can stop a plan, and never makes it skip.
* `DoneStepsAreDeployed` (`DoneStepsDeployed`): a step is marked done by the handler
  that goes on with step `k`, which docker runs.
* `PlansDoneCompletely` (`DonePlansComplete`) and `EmptyServicesStep`
  (`EmptyStepsEnd`) need `Unbroken`, as long as the planer does not crash: all steps
  before the last one ordered are done in the stored plan (`Steady`), and until the
  update of a service without replicas was handled the catalog has its old version,
  so that the update is news and continues the plan (`Awaits`). The second theorem
  combines it with `FollowInv`: in the end the catalog has the new version, so the
  update was handled and the step is done.

**Only model-checked**: the liveness properties (`ScalesUpToMax`,
`RemovedImagesCleaned`, `Terminates`, `ResultsConverge`, `EveryQueuePolled`,
`OwnerToldTheTruth`) are out of the prover's reach, as are `StepsEnd` and
`ExplainIsRight`, which do not hold. Every invariant and every action property of
the passing runs is stated by a theorem. The theorems for a single worker say
nothing of several: what two workers break is listed below.

## Where the code and its comments disagree

`findings` in `PROJECT.json` quotes the lines of two, each with a run:

* `_run_step` counts on a `service_updated` event to continue a plan, but a swarm
  update is announced twice: the first event saves the version, and the one that
  says "completed" is then no upgrade. A plan over services that have replicas
  stops after its first step (`system_stall`).
* `explain` finds nothing wrong with a requirement nothing provides, on which the
  choice of steps relies (`solver_explain`).

The models contain, and the properties are stated around, these facts of the
code, for which there is no run that fails:

* two workers that start plans at once leave two running plans (`update_many` and
  `insert_one` interleave): `OneRunningPlan` and its like are stated for one
  worker, and `max_workers` is 10 by default;
* a plan is marked done while a step runs, when the service of its last step is
  deployed by hand before its turn, or the planer crashes between the order of the
  last step and `replace_one`: `DonePlansComplete` excludes both;
* `build_steps` promises that each of its steps "is a compatible phase"
  (`upgrade_planer.py:762`), from the phase of the catalog: a plan made while the
  order of an older one is on its way to docker starts from a phase the cluster is
  about to leave, and the end of the older order may be taken for the end of its
  first step. The properties of the loop exclude such plans (`"hasty"`);
* the first step is ordered before the plan is inserted: a crash between the two
  leaves an order without a plan, and the redelivered request plans again
  (`"lost"`);
* a service deployed and rolled back at once gets the scale_config of the image
  that is gone; and the late announcement of that scale_config, which carries the
  old image, makes the planer set its catalog back to a version that runs no
  more: `CatalogFollowsDocker` excludes these services (`outdated`);
* a tag deleted and pushed again, its push unheard, is not announced again;
* `solve_dependencies` promises "all possibles versions folowing the given
  constraints" (`dependency_solver.py:373`), and leaves out the phases whose services
  require each other, since a requirement is checked as soon as its service is
  pinned. `SolvesSimpleCatalogs` compares with the compatible phases that are
  `Grounded`. The repository's own services form such a cycle: overseer requires
  `load_manager:rpc:monitor_service` and load_manager `overseer:rpc:scale`
  (`overseer/app/scale.json`, `load_manager/app/scale.json`), so a catalog
  whose versions of both require this has no solution;
* `trigger.delete` is called after the document is removed (`load_manager.py:143`) or
  replaced (`:129`), unguarded: when it raises, the message is acknowledged and the
  rules stay, until the service is monitored or unmonitored again.
  `RulesFollowServices` allows for these services (`undeleted`);
* `track` resets `last_check`, so a queue polled a moment ago is polled again when a
  ruleset about it is added: `OnePollPerPeriod` is stated for queues not tracked again
  in between;
* a queue whose answers always lack a field (a KeyError at
  `monitorer_rabbitmq.py:147`, `:153` or `:158`) ends every tick that finds it due,
  which is each one, since the ticks are 5 seconds apart and the limit is 4: with one
  instance the queues after it in the collection are never polled.
  `EveryQueuePolled` and `OwnerToldTheTruth` are about the queues before (`Reached`);
* a tag that matches the expression and has no number has the version `''`, not None,
  and comparing it with any but `latest` raises: `sort_versions` then raises for the
  service, and with it `run_available_upgrade`;
* `_abord_scheduled` iterates over the keys of the plan and raises, so an aborted
  plan is never stored;
* `monitor_service` raises for a service without a scale_config, and leaves its
  previous rules in the trigger;
* the overseer's and the trigger's announcements are lost by a crash between the
  save and the dispatch, as the redelivered message finds nothing changed:
  `CatalogFollowsDocker` and `OwnerKnows` are stated without such crashes.

## Not modelled

* The registry client: HTTP calls, with a cache of authentication headers that
  never expires (an outdated one makes `list_tags` answer no tags; what follows
  is `ImageHistory` with the tags gone).
* The parsing of tags (a regular expression), and `__gt__`, which raises on a
  number compared with `latest` and has no caller. In the models of the running
  system every version has a number or is `latest`.
* Errors of mongo. An update announced by the overseer carries one difference at a
  time in `LoadManager`; one with both a scale and a scale_config would lose the scale
  too when `_set_trigger_rules` raises.
* In `scaler_docker`: secrets, dumps of stacks, read-only calls, and the match of
  docker names by prefix (names are atomic).
* HTTP entry points, nameko and mongo drivers, the shell, deployment scripts and
  demonstration services: I/O or tools around the system. How nameko schedules and
  redelivers is in the way handlers are split.
* Of the modelled components: read-only RPCs, logging, dates beyond what a query
  or a rule tells apart, dependencies that change under the same version, tags
  without a version, several resources of a ruleset with the same queue.
* In the compositions: the load manager has the trigger and the overseer around
  it in its own module, and is not composed with `Trigger` or `Overseer`; scaling
  is not a step of `UpgradeSystem`, where a service keeps its number of replicas;
  `ImageHistory` is not composed with it: the images that reach the planer there are
  any.

## Plan

1. *(done)* `UpgradePlaner`, `PlanLifecycle`, `LoadManager`, `Overseer`,
   `ImageHistory`, `DependencySolver`.
2. *(done)* `Trigger`, `MonitorerRabbitmq`, `Monitoring`; `UpgradeSystem`,
   `RollingUpgrade`; `ImageVersion`.
3. *(done)* Theorems of `UpgradePlaner` for any workers and for a single one with
   the refinement, of `Monitoring` on polls, of `ImageVersion`.
4. *(done)* Theorems of `LoadManager`, `Overseer`, `ImageHistory`, of the results in
   `Monitoring`, and of `DependencySolver` for every catalog.
5. *(done)* Theorems of `UpgradeSystem`: the refinement of `RollingUpgrade`, the
   catalog, done steps, done plans and plans that go on; the types of `Trigger`.
6. Left: the registry client; `ImageHistory` as the source of the images in
   `UpgradeSystem`; scaling as a step of it.
