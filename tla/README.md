# pysamm in TLA+

TLA+ models of pysamm (`src/samm`), TLC runs that check them on small
instances, and TLAPS proofs of the theorems that matter most.

## The system

pysamm monitors hosts.  A *check* of an *instance* is an **attempt**
(`Attempt`, `OTLPAttempt`): a module that is run every `check_interval` and
yields rows of metrics.  One check of an instance may be its *up check*
(`up_check: "ping.is_alive"`): its metric decides whether the instance is
`UP`, `DOWN` or, before the first report, `PENDING`.

There are two ways to run it.

* **Distributed.**  `scripts/scheduler.py` runs one `Scheduler`,
  `scripts/collector.py` a `Collector` (two replicas in
  `support/compose/docker-compose.yml`), and RabbitMQ carries two queues with a
  TTL of 60 s: `samm_orders` and `samm_reports`.
* **Legacy.**  `scripts/server.py` runs a `Service`: one process, a thread per
  running attempt, a metric cache served over a unix socket.

### Components, state, operations

| component | state | operations | hard because |
|---|---|---|---|
| Scheduler (`scheduler.py`) | `attempt_dict` with each attempt's `next_run`, each instance's `is_alive`, `channel` | `init_attempts`, `process_loop`, `order_attempt`, `reports_callback` (`report_up`, `report_done`) | reports and passes interleave; the channel opens, breaks or opens late; the process restarts with messages in flight |
| Queues (RabbitMQ, external) | two FIFOs, one unacked delivery per collector | publish, deliver, ack, requeue, expire | loss, redelivery |
| Collector (`collector.py`) | `collecting`, `_delivery_tag` | `message_callback`, `up_check_callback`, `done_callback`, connection callbacks | the callbacks run in the exporter's thread, the deliveries in pika's |
| OTLP attempts (`otlpattempt.py`) | `collecting`, `next_run`, `_pending_metrics`, `_cache` | `collect`, `observable_callback` | one collection is spread over many instrument callbacks of an exporter that may cut a cycle short |
| Attempt timing (`attempt.py`) | `next_run` | `due`, `schedule`, `schedule_next` | jitter; two sources of schedules |
| Service (`service.py`, `attempt.py` `run`) | `attempt_list`, `metric_data`, flags set by signals | `process_loop`, `discover`, `maintain_metric_data`, `send_data`, signal handler | threads write what the main loop scans; reload and discovery while threads run |
| Configuration (`config.py`) | the object tables, `_config_id` | `reload` (`load_base`, `load_object_file`, `process_objects`, `discover_objects`), `get`, `replace_vars` | files edited while they are read; processes with different versions; strings with variables in variables |
| Configuration objects (`objecttype/`) | attributes, tags, `_applied_templates` | template resolution, merge of discovered objects | order of resolution, repeated application |
| Discovery (`objecttype/discovery.py`) | `_next_run`, the method's attributes | `run`, `schedule`, the iterator over the pages of a search | failing searches beside working ones, pages, entries without the attributes asked for |

They interact through messages only: an order names an attempt; the collector
reports `up_check` (attempt, value) and `done` (attempt).  Within a collector the
two threads share the attempts' fields without a lock.  `PROJECT.json` lists
under `hazards` what can go wrong, at its line, with the property that covers
it.

What each part must do, in a line each:

* **Scheduler.** A check of a host seen as UP is always scheduled; an up check
  always; whatever is due is ordered or put off, never left.
* **Collector.** One order at a time, acked only after its own collection, then
  reported done; an accepted order is finished; the ack names its delivery.
* **System.** The scheduler's view follows the host; the checks of a live host
  keep being collected; a dead one costs only its up check.
* **Timing.** One order of an attempt at a time.
* **Service.** One thread per attempt, no attempt lost or listed twice, a
  removed host's metrics disappear, a SIGHUP is honoured.
* **Objects.** The order of definitions does not matter; a valid configuration
  is accepted; a discovery that finds nothing new does nothing.
* **Discovery.** What it looks for is what the configuration says; a search that
  counts as done has returned everything; whatever the directory lists gets configured.
* **Rollout.** No collector works from older files than an order's; once the
  scheduler has the newest files everybody follows, and nobody goes on exiting.

## Modules

| module | models | checked by | proved in |
|---|---|---|---|
| `Broker` | the queue operators: FIFO, TTL, requeue | with its users | `SequenceLemmas` |
| `Scheduler` | `scheduler.py`, timing of `attempt.py` | `MCScheduler` | `SchedulerProofs` |
| `Worker` | what a collector promises (abstract) | as a property of `Collector` | `CollectorProofs` |
| `Collector` | `collector.py`, `otlpattempt.py`: two threads | `MCCollector` | `CollectorProofs` |
| `Samm` | `Scheduler` + `Worker`s + queues + hosts | `MCSamm` | `SammProofs` |
| `OrderTiming` | the clock of one attempt | itself | `OrderTimingProofs` |
| `Rollout` | `config_id` and the version test: reading of files, restarts, orders nobody knows | `MCRollout` | `RolloutProofs` |
| `Service` | `service.py`, `process` and `run` of `attempt.py`, storage of metrics | `MCService` | `ServiceProofs` |
| `Objects` | `Config.process_objects`, `objecttype/` | `MCObjects` | `ObjectsProofs` |
| `Variables` | `Config.get`, `replace_vars` (pure operators) | `MCObjects` | `ObjectsProofs` |
| `Discovery` | `discover_objects`, `Discovery.run`, the LDAP iterator; with `Objects` | `MCObjects` | `ObjectsProofs` |
| `SequenceLemmas` | facts about numbers, sequences, `FlattenSeq` and the queue operators | - | itself |

`Samm` EXTENDS `Scheduler` and INSTANCEs `Worker`; `Collector` is shown to
implement `Worker`, so that the system is checked with collectors of a few
states and holds for the real, two-threaded ones.  In the other direction
`OpenScheduler` says that in `Samm` the scheduler is still the one of
`Scheduler.tla`, whose environment of arbitrary reports is larger.
`Discovery` EXTENDS `Objects` and `Variables`: what it finds goes through
`ProcessObjects`.  `Rollout` uses the same queues as the other two, for a question
of its own: it has configurations per process and leaves out reports and clocks.
`Service` takes a discovery as a choice of instances found and changed; which of them
are returned (`ToInit`) is `LoadSingleObject` of `Objects`.

Run `tlc -config MCScheduler.cfg MCScheduler` to check a model and
`tlapm SchedulerProofs.tla` to check proofs, in this directory.

### How state and actions correspond to the code

**Scheduler.**  `next_run` of an attempt is one of `never` (`math.inf`), `due`
(in the past) and `later`; `Elapse` is the clock.  A pass over `attempt_dict` is
one `OrderAttempt` per attempt (`todo` holds the rest), because the broker works
in between; reports are handled only inside the ioloop (`pc = "ioloop"`), as in
the code.  `report_up` and `report_done` are whole handlers: the loop over
`instance.checks` that rebinds `attempt`, and what it does when a check has no
attempt (line 85), is in `ChangeState`.  An exception that no one catches is
`Halt`: the process keeps no state.  `Start` is `run` up to the first ioloop
round.  `check_if_down` is as in the code: lines 41 and 126 let such an instance's
checks run in any state, lines 89 and 97 park and release them all the same.
A reported value that is no integer is `bad`.

**Collector.**  `Deliverable`, `Reject`, `Accept`, `ArmOn` and
`MessageEndsProcess` are `message_callback`.  An order is accepted a line at a time:
`Accept` sets `attempt.collecting` (`otlpattempt.py:84`), then come `SetBusy` (85), `SetDue`
(86) and `StoreTag` (`collector.py:59`); `ppc` is the next of them and `target` the
attempt.  When `Preempt` is TRUE the exporter may run before each, i.e. the
interpreter may switch threads between any two lines; when it is FALSE
`message_callback` is not interrupted by the exporter.  The exporter is at an
instrument (`pos`) and somewhere in its callback (`epc`): `Begin` and `Collect` run
the module, `Observe` exports a metric, `Finish` and `ClearBusy` clear the two flags (lines 137
and 138, or 168 and 169), `Ack` and `PublishDone` are `done_callback`.  Broker and
environment act between any two lines of both threads; a SIGKILL or a lost
connection may end the process there.  `Return`
goes to the next instrument, to the first one after the last, or - if a module
has run since the last look - to the first one early, as the SDK does when a cycle exceeds its timeout.  The
instance's `is_alive` is written by a collector and read by none of its code: left out.

**Worker, Samm.**  `job` is the unacked order, `owed` the done report still to be
published.  `Measure` separates the moment a module looks at the host from the
one its report is published; with two orders of the up check under way, reports of
two collectors overtake each other.  `Copies` bounds the orders of one attempt, `Spend` the
faults, see Bounds.

**OrderTiming.**  `until` is `next_run - time.time()` in ticks; `Order`, `Accept`,
`Finish`, `HandleDone` and `Expire` are an order's trip; `Tick` advances all
clocks unless something is overdue.

**Service.**  `pc` is where `process_loop` is; `attempt_list` is a sequence of
attempts with the places of their live threads.  A thread is
`ThreadBegins` (`schedule(0)` at the head of `run`), `Rows` (the up check's state), `Store`,
`ThreadEnds` (`schedule_next`, taken as the thread's last step).  The rows of a
run are taken as one, and `process` reads `is_alive` once.  `Scan` and `Drop` are
the two loops of `maintain_metric_data`.  `Reloaded` throws the list away;
threads of the old one go on as `orphans`.  `Crash` is an exception out of
`discover` or `load_config`.  A SIGHUP may come at any moment; one during
`load_config` is forgotten, since line 138 then resets its flag.

**Objects.**  `LoadSingleObject` constructs or merges one definition;
`PostProcess`, `ResolveTemplate`, `MergeTemplate`, `Return` are the recursion of
`post_process`, with its call stack.  Of the attributes there is one per kind: with a default, with
default None, list, dict, tags.  The templates of a definition are a sequence of names, in the code
a list or one string (`string`).  A string is made a list when an object is constructed;
merged into an object that is there it is iterated, each character being taken for a
template (`Iterated`; `Letters` gives the characters of a name as names).  What a discovery
finds has a list: `object_use.copy()` needs one.  `asked` is what the
definitions of an object name, as a history: `Valid` speaks of that and not of what a
merge made of it.  An object of the section is its attributes now
(`def`), and as history the first definition (`own`), whose templates become those it was
resolved with.  `Expected` says what a definition means to an object, given what its
templates have; `Meaning` says it of every object, straight from the definitions, up to a depth of
templates.  Templates get their defaults before their users see them, so for an
attribute with a default only the first template counts.  A template a
discovery adds to a resolved object is in `def.use` but not in `own.use`: the
object is as its templates *when it was resolved* say.

**Variables.**  A string is a sequence of texts and variables, never characters.
`ReplaceInStr` and `ReplaceVars` are the branches of `replace_vars`; that it replaces
in the original string, so that of several variables only the last one is
replaced, is in `Put`.  `Values` is `get`, whose recursion is a function of the depth;
deeper than there are variables is a circle, Python's `RecursionError`.
`WrittenOut` is the reference: substitution, all variables at once, again and again.
`VariablesOf` are the positions of the variables in a string; `IsString` and `IsTable` say what strings
and tables are, as assumptions on the configurations.

**Discovery.**  `phase` continues that of `Objects`: `idle` is the service's sleep,
`discover` the loop of `discover_objects` with `todo`.  `Search` is
`Discovery.run` with the whole iteration, which nothing else can
interrupt in a single thread; `Stops` is where `__next__` raises `StopIteration` or an
error, on the messages of all pages in a row.  A failing search (`SearchFails`) leaves
`next_run` at the 0 that `reprocess` has just set.  `Resolve` of the base is
`Discovery.post_process`, done in `AllProcessed`.  Scheduler and
collector make the first round of it only.

**Rollout.**  A process is `down`, `loading` between `getmtime` and the end of reading
(`Stat`, `Read`), or `up`; `id` is `_config_id`, `read` where the content is really
from, and the two differ after an edit in the middle.  Modification times add up,
so a later version has a larger sum: versions are numbers.  `Kills` is when
`message_callback` ends a collector - `sys.exit` or a `KeyError` - and
`GivenBack` is the order's way back.  `Read` with an empty search is a
discovery that failed and was swallowed.

## Runs

| run | module, cfg | what it shows |
|---|---|---|
| `scheduler` | `MCScheduler` | two hosts, attempts that could not be created in the middle and at the end of `instance.checks`: under any reports, passes, lost connections and restarts, no check of an UP host and no up check is parked, and a due attempt is handled |
| `scheduler_slow_open` | `MCScheduler`, `MCSchedulerSlowOpen` | **violation** of `DueIsHandled`: see Findings |
| `collector` | `MCCollector` | `AckedAfterCollection`, `ChannelStaysOpen`, `AcceptedIsFinished`, and that the two threads implement `Worker` |
| `collector_threads` | `MCCollector`, `MCCollectorThreads` | with all outcomes of a module and the exporter between any two lines of `message_callback` and `collect`: only the attempt of the unacked delivery is collecting, and until a row lacks the up metric the collector is busy exactly while one is |
| `collector_tag_race` | `MCCollector`, `MCCollectorTag` | **violation** of `AcceptedIsFinished` |
| `system` | `MCSamm` | two collectors, two pings at once, a host that goes and comes back (with reports that overtake each other: the late 0 parks the checks, the next 1 releases them), or any one fault of the system: the view converges both ways, a live host's checks go on, a dead one's stop; `OpenScheduler` |
| `timing` | `OrderTiming` | with a check every two minutes an attempt has one order at a time |
| `timing_minute` | `OrderTiming`, `OrderTimingMinute` | **violation** of the same with the default interval |
| `service` | `MCService` | main loop and threads of two checks, all interleavings: one thread per attempt, none lost, each run again and again |
| `service_reload` | `MCService`, `MCServiceReload` | discovery, removal, restart, and any two of SIGHUP, SIGINT and crash: a removed host is forgotten, no check is listed twice but after a change, and a SIGHUP is honoured unless it comes during `load_config` |
| `objects` | `MCObjects` | a diamond of templates in every order of loading and with many choices of who defines what; a host defined twice, the second time with a list or a string of templates; five faulty configurations; a template that is itself found again with another tag; a base with every kind of variable; directories of up to three pages with referrals and bad entries, beside a second discovery that works or not, being repaired |
| `rollout` | `MCRollout` | an attempt removed from the files, a version with a syntax error in between, an attempt only the directory has; a scheduler, two collectors, either mismatch action |

`CHECK_DEADLOCK FALSE` is used for `objects` only: after an exception in
`process_objects` the process has ended.

### Bounds

* `MaxQueue` (Broker): queues of 1 (scheduler, collector) and 6 (system).  A
  message that would make a queue longer expires the oldest: an expiry the TTL
  allows anyway, as the head may expire at any time.  One message is enough where
  the other side of the queue is an arbitrary environment; in the system 6 is
  more than `MaxCopies` lets accumulate in `orders`.
* `MaxCopies` (system): a check interval only passes while fewer than this many
  orders of the attempt are under way.  It is 2 for the up check, which with an interval
  of a minute can happen (see Findings): two measurements with different results are then under way
  at once, and their reports arrive in either order.  It is 1 for the other check, whose
  reports carry no value.
* `MaxFaults` = 2 (system), of which a change of the host costs one and a process end,
  lost connection or lost message two (`Spend`): a host that goes and comes back, in either
  order and at any moments, or any one fault of the system.  Not both in one behaviour: the product
  is beyond a few minutes of TLC.  The properties are about what happens after the last
  fault.  `Scheduler` and `Collector` have no bound on faults.  In `rollout` it is 2,
  as one lost search and one restart belong together; edits are not counted.
* `MaxEvents` (service): SIGHUPs, SIGINTs and crashes, 2 in `service_reload`, so that two
  signals, or a signal and a crash, meet in any order; 0 in `service`, which is about the
  loop and the threads.
* `MaxReturns` = 1 (rollout): an order comes back at most once before its TTL is
  over, so that one order ends both collectors.  `MaxQueue` = 4 there: one
  order of each attempt, and one given back.
* `MaxObjects` = 2 (service): attempts in the list; discovery stops finding when
  it would grow further.  Two is what one duplicated attempt needs.
* `MaxPerLoop` is the code's `max_attempts_per_loop`, not a bound: a pass ends after
  `MaxPerLoop` + 1 starts.  It is 1 in `service`, with two attempts, so no pass is cut there: with 0
  `ChecksGoOn` is violated (see below).  It is 0 in `service_reload`, where passes are cut.
* `objects`: `MaxDepth` = 6 is Python's recursion limit, more than the four
  objects need.  `Letters`: `a` and `b` are names of one character, so that a string of one is not
  hurt by the merge; `base` has three, two of which are templates' names and one is not.  `Count` = 2 discoveries, one to fail while the other works.  Each
  setup has one or two directories that change into each other; pages have up to
  two messages, which is enough to have a bad one before or after a good one.
  Setups that vary everything at once are left out: templates, pages and variables
  meet in the definitions found and in the base only.
* Ticks of `OrderTiming` are 4 seconds: interval 120 s or 60 s, jitter 8 s, TTL
  60 s, 20 s of work, 4 s of delay each way.

Symmetry is not used: liveness is checked in most runs, and the instances differ.

### Fairness

* `Scheduler`: weak fairness of its own steps (timer, pass) and of the opening of
  the channel while the ioloop runs.  None for reports: they may never come.
* `Collector`: both threads go on (`Exporter`, `ArmOn`).  None for deliveries
  or restarts.
* `Samm`: processes run and are restarted; waiting messages are taken; weak
  fairness, but strong for two actions.  `HandleOldestReport` is disabled during each pass
  and enabled in each ioloop round, which lasts `loop_sleep_s` and handles what
  waits.  `Measure` is disabled whenever the module raised (the order is acked
  without a measurement); strong fairness says that it does not raise every
  time.  Restarts: compose has `restart: on-failure:3`, which covers neither the
  fourth end nor the many exits with code 0 of these programs; liveness assumes a
  supervisor that restarts them always (as `--restart unless-stopped` of
  `src/README.md`).
* `Service`: the loop, each target's thread and clock, the container's restart.
  A module is assumed to end some day.
* `Rollout`: whatever has ended is started again (the note on restarts
  above holds here even more, since most ends are exits with code 0); the
  broker delivers, collectors finish.  A search that fails is a fault, not
  counted on.
* `Discovery`: the service's loop goes on and time passes.  Strong fairness of
  `Search(k)`: each time it runs it may fail instead, but not always.
* Refinement (`ImplementsWorker`, `OpenScheduler`) is of safety only: the abstract
  side has no fairness.

## Findings

Each is a run that TLC ends with a counterexample.

* **`timing_minute`** - the attempt is scheduled when it is *ordered*
  (`scheduler.py:138`), and again when the done report comes.  `docs/README.md` says
  the latter.  With interval and TTL both 60 s a second order is published while
  the first one waits.
* **`scheduler_slow_open`** - a channel that needs longer than the first ioloop
  second leaves the scheduler in `while self.channel is None: time.sleep(1)` for good.
* **`collector_tag_race`** - the delivery tag is stored after `collect()` has armed
  the attempt.  If the exporter gets to `done_callback` in between, the ack uses no tag
  and raises, or an old one, for which the broker closes the channel.

Seen while modelling, reachable by changing a constant, and not promised otherwise
by any text of the repository (see the notes under `hazards`):

* a check without metrics or an up check without rows is never acked;
* after a row without the up metric the metrics of the attempt are still pending, and when it is
  ordered again the exporter may finish that order between lines 84 and 85 of `collect`: line 85 then
  makes the collector busy with nobody collecting, and it rejects every order from then on;
* a SIGHUP during `load_config` is lost, and one after a SIGINT cancels it;
* `max_attempts_per_loop` may starve the end of the list;
* a dict in an object and in its template raises;
* a string `use` in a further definition of a name is merged character by character, and the
  characters are not found as templates;
* a template that a discovery adds to a resolved object is listed in `use` and never
  applied, though the object counts as changed;
* of several variables in one string only the last is replaced;
* an empty page in the middle of a search ends it as a success;
* two discoveries that find the same name with different tags - all entries without
  a name are `(undefined)` - change it back and forth, and the service adds its attempts
  each time;
* with the shipped `config_version_mismatch_action` (`exit`,
  `docs/examples/conf.json.example`), collectors that restart with newer
  files end over every order until the scheduler is restarted too, and compose's `on-failure:3`
  restarts none of them, as they exit with code 0.  `RolloutCompletes` and
  `ExitsEnd` are therefore stated from the scheduler's restart on.

## Proofs

No theorem assumes anything but the named `ASSUME`s of the modules and what
its own `ASSUME ... PROVE` states; TLC evaluates the former in the runs.

**Scheduler** (`SchedulerProofs`): `TypeCorrect`, `UpIsScheduled`, `UpCheckIsScheduled`.
The invariant is `TypeOK /\ UpMeansScheduled /\ UpCheckScheduled`.
The two are kept for different reasons.  Parking takes the instance out of UP in
the same step, unless the loop raises, and then the process ends (`HaltOK`);
everything else that touches `next_run` schedules.  Up checks are left out of
both loops, and `InitAttempts` starts them.

**Collector** (`CollectorProofs`):

* `FlagsMatch`, for all outcomes and thread switches, line by line.  Its first part, that
  only the attempt of the unacked delivery is collecting (`CollectsForDelivery`), is not
  inductive: from clearing the flags to the ack nobody collects, and `AckIsOwed` says that
  `unacked` is then the attempt the exporter is at, so that the ack takes no collecting attempt's delivery
  away; `Accept` needs that nothing is unacked (prefetch of one).  The second part, about `busy`, is stated for a process in which no row has lacked the up
  metric, as the code breaks it afterwards (see above).  `KeyArmed` says what is true until
  then: what is pending belongs to the order at hand and was collected for it
  (`Armed`), the exporter finds nothing to do for an attempt that is not armed to the
  end (`ArmedInTurn`), so that `SetBusy` still finds its attempt collecting, and the two
  flags agree but between two writes (`BusyMatches`).  `PendingIsCached` and
  `CollectIsFresh` carry the types.
* `AckedOnlyAfterCollection`, if no row lacks the up metric (`NeverMissed`), also from `KeyArmed`.
  A row without the up metric breaks just this (the hazard at `otlpattempt.py:132`).
* `ChannelIsKept`, if `Preempt` is FALSE.  `Tagged`: while an attempt is collecting,
  and until its ack, the stored tag is that of its delivery.
* `CollectorImplementsWorker`, under both assumptions, by
  `[Next]_vars => [Abstract!Next]_wvars` from the three invariants together.
  The mapping: `job` is `unacked`, `owed` the current attempt between ack and done.

What `FlattenSeq` returns - the instruments, attempt by attempt - is a lemma of
`SequenceLemmas`, see below.  That there is an instrument is part of
`CollectorAssumption`, an assumption on the configuration: somewhere there is a metric
to export.

**System** (`SammProofs`): `SammHasTheScheduler` (`SammSpec => OpenScheduler`) for any
number of hosts, checks, collectors and any bounds, and with it
`SammUpIsScheduled`.  The invariant adds that orders and jobs name attempts the
scheduler created (an order given back is one it could have published) and that
reports are of the types its handlers expect.

**Timing** (`OrderTimingProofs`): `OneOrder`.  If TTL + longest work + delay fit in
the interval minus the jitter (`RoomForATrip`), there is one order at a time.  `Whereabouts`
says in which of four places it is and how much of the interval is left.  The `timing`
run is an instance; `timing_minute` violates the assumption and the conclusion.

**Rollout** (`RolloutProofs`): `TypeCorrect` and `NeverOlderHolds`.  A collector
accepts under `exit` only what has its own id, so a `job` has the id of the collector that holds it
(`AcceptedBySelf`, kept because a process that ends gives its job back first); and as
`getmtime` comes before `open`, what is read is never older than the id
(`StatComesFirst`), which needs that ids are not ahead of the disk.  Any number of
processes, versions, edits and faults.

**Service** (`ServiceProofs`): `TypeCorrect`, `OneThread`, `NoneIsLost`, `OnePerCheck`.  The first
three are of the invariant `IInv`, whose part `Sound` says of each attempt of the list that it has
at most one thread, and one if `next_run` is 0.  Almost every step changes one attempt
(`OneAttemptOK`) or replaces or extends the list by new ones.  `OneAttemptPerCheck` is proved from
`Distinct` - the list holds instances that are `known` only - since what a discovery
returns is either new, so not in the list yet, or counted as changed.  `Kept`
says what all other steps have in common: no target moves, nothing that was changed or
known is forgotten.  That `NewAttempts` returns attempts that wait, one
for each check of each instance, is proved from what `FlattenSeq` and `SetToSeq` return; it needs
`ChecksAssumption`, that no instance lists a check twice, which TLC evaluates in both runs.

**Objects and discovery** (`ObjectsProofs`), for any names, checks, files, discoveries, variables
and directories, whose searches may return anything or fail at any time:

* `Types`, from the invariant `IInv`.  `TypeOK` alone is not inductive: what a call of
  `post_process` reads when it goes on must be as it was when it called.
  `StackOK` says so: no object of the stack is resolved, all templates it has passed are, and
  the one it is at is the next object of the stack.  `Sound` adds that an object's items are its
  own and checks that exist, since templates hand on only what has passed `Return`.
* `ObjectsAreResolved` (`AllResolved`).  `MInv` says of each object how far it has come: a
  resolved one has what `Expected` says of its own definition and its templates'
  values; any other has got just that from the first *m* templates, and no call for it has
  passed more (`MeaningsOK`).  The same object may be called for twice, from
  the list and from a user, and may be loaded again with more templates in between; it takes
  from the first ones again, which changes nothing (`GetsAgain`).  What is not resolved
  is in the list or on the stack (`PendingOK`), so nothing is left when both are empty.  Each object is resolved
  after its templates, which gives a rank (`RankOK`), and by induction on it an object
  has what the recursive function `Meaning` says (`ResolvedMeans`).
* `ResolvedObjectsStay` (`ResolvedStays`): only the top of the stack takes anything, and
  it is not resolved; a merge touches tags and templates only.
* `ValidDefinitionsAreLoaded` (`ValidIsLoaded`), if there are fewer names than `MaxDepth`.  Along the stack the
  rank that `Acyclic` gives falls with every call, so the recursion limit is never reached
  (`RankFalls`); an unknown template, an unknown check or a dict contradict `Valid`.  `Valid` is
  about the templates the definitions name; that an object has no others, as long as no
  string was merged, is `AskedOK` (`IteratedOK` for one merge).  With as
  many objects as the limit, a chain of templates is refused though nothing is wrong with it: the hypothesis
  is needed, and is Python's limit of 1000 calls.
* `FindingAgainIsQuiet` (`FoundAgainIsQuiet`).  `LoadedOK`: an object has all templates and
  tags of the definition loaded last, except for tags that one of its templates has; a string
  is merged while the files are loaded only, when every object is returned anyway (`FilesOK`).
* `SearchesAreComplete` (`SearchIsComplete`): the first stop of an answer without empty
  pages is an error or the last "done" (`StopsAtEnd`), and what is taken before it
  (`FoundOK`) includes every entry.

* `BasesAreMeant` (`BaseIsMeant`): for any table of variables, of any length and depth, a
  string that says something is never refused, and is replaced by what it says unless a
  string has two variables.  `WrittenOut` goes from the outside in, all variables of a string at
  once; `Values` goes from the inside out, a variable at a time.  Both are proved to be
  the functions their definitions describe (`WritesIs`, `ValuesIs`), and the first to work part by part
  (`AgainOK`, from `EachThen`): what is written out of a string in *k* + 1 rounds is, joined,
  what is written out in *k* rounds of what its parts stand for.  That
  is how `get` recurs, and the induction (`MeantNext`, `Meant`) needs no bound but the one that
  no chain of different variables is longer than there are variables: the same
  depth in both definitions.

Three attempts to prove these found the statement or the model wrong, and both were changed.
`FoundAgainIsQuiet` once excused only objects whose templates have *another* tag
than the definition: if a template is found again with the tag it had overwritten, the object is
returned and no template disagrees any more (the setups `TemplateFound` show it).  `AllResolved` once
looked at the templates an object has now, and failed for one that a discovery
adds to a resolved object; it now says "when it was resolved", as in the code.
And overlapping arms of a `CASE`, of which TLC takes the first and TLA+ any, no longer overlap.

**Sequences** (`SequenceLemmas`).  The library's induction theorems take an operator as
a parameter, which the provers cannot instantiate.  `Induction` is for sets of numbers instead, from the
library's well-foundedness of `<`, and replaces them wherever the induction is over a
set one can write down: that the recursive functions inside `FlattenSeq` and
`Meaning` exist and are what their definitions say (`JoinsExist`, `MeaningsExist`), what a concatenation
consists of (`FlattenParts`, `FlattenRange`), that a finite set of numbers has a least element (`MinOK`).  From it follows
an induction over sequences (`SeqInduction`), and by that what replacing each element by
a sequence does (`EachJoins`, `EachThen`).
It removed two assumptions the proofs of `Collector` and `Service` rested on.

A caution for who extends the proofs: tlapm 1.4.5 hands its SMT solver chained updates
(`[[f EXCEPT ![i] = a] EXCEPT ![j] = b]`) wrongly if `i` may be `j`.  The modules have no such chains;
`ThreadBegins`, `Returned` and the like are written with one update each for this reason.

**Model-checked only.**

* All liveness: `DueIsHandled`, `AcceptedIsFinished`, the four of `system`, `ChecksGoOn`,
  `RemovedIsForgotten`, `HupIsHonoured`, `RolloutCompletes`, `ExitsEnd`, `OthersAreServed`,
  `EntriesAreConfigured`.  Fairness and `ENABLED` are out of the installed provers' reach.

Every invariant and every action property that a passing run checks is also a theorem.

## Not modelled

Check modules (I/O; their outcomes are a constant), filter functions, the
log stream, argument parsing, tag and value conversion, the info instruments, the
socket protocol of the service and its own metrics.  Of the configuration: the functions
(`Fn::`), loading of modules, the directories' existence, `log_level`, defaults of
`replace_vars`.  Of discovery: connection, TLS and `test_file`; an entry whose attributes
are no dict, which ends the search like a last page.  The parts are
stateless or I/O: a model would restate them.

## Plan

The order was: the queues and the scheduler; the collector and what it promises;
the two composed; the timing of orders; the service; the objects; then the rollout of
a configuration, variables, discovery and its schedule, and the proofs about rollout,
service, objects and discovery.  What is left:

1. The legacy timing of `OTLPAttempt` without an external scheduler, which no
   program of the repository uses.
2. `SammSpec` with `Collector` in place of `Worker`, as a refinement for one collector.
