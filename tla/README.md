# ClusterWatch, specified in TLA+

This directory holds a verification project for ClusterWatch: TLA+ modules of
its controller, agent and dashboard page, TLC configurations that check them on
small instances, and theorems with proofs that TLAPS checks. `PROJECT.json` maps
every definition to the lines it models and lists runs, hazards and theorems.

    tlc -config alerts.cfg MCAlerts.tla      # one model-checking run
    tlapm AlertsProofs.tla                   # one module of proofs

## The system

| Part | State | Operations | Talks to |
|---|---|---|---|
| Agent (`agent/main.py`) | none on disk; the attempt of the delivery under way | boot registration, collect and report, retry, register again on 404 | ingestion handlers, by HTTP |
| Ingestion handlers (`controller/app.py`) | none | register, ingest_metrics, heartbeat | store in a worker thread, then `publish`, then `notify` |
| Store (`controller/store.py`) | `nodes` and `metrics` in SQLite, one connection, one lock | upsert, heartbeat, insert, newest sample, history, prune | everyone |
| Health policy (`controller/status.py`) | none: derived at every read | `evaluate_status` | alert task, read API, exporter |
| Alert manager (`controller/alerts.py`) | in memory: open alerts, delivered statuses, last attempts, a wake flag | `notify`, one endless task | store, webhook receiver |
| Event broker (`controller/events.py`) | a revision, a condition | `publish`, `wait_for_update`, one `event_stream` per page | handlers, pages |
| Dashboard page (`dashboard/app.js`) | what it shows, a refresh flag and a queue flag, one timer, one EventSource | `route`, polling, stream callbacks | read API, event stream |
| Maintenance (`controller/app.py`) | none | hourly prune | store |
| Read API, Prometheus exporter | none | node views | store, policy |
| Collectors (`agent/telemetry.py`, `agent/slurm.py`) | previous network counters | `collect` | the machine |
| Load test, Ansible role, systemd units | a queue of requests; files and services of a host | | controller; hosts |

The controller is one event loop plus worker threads for the store. Every `await`
is a point where another part may act, and that is where the models cut: the alert
task between listing the rows, reading a sample, judging, and sending; a handler
between its committed write and its notification; a stream between looking and
waiting; the page between asking and drawing. The agent is one loop over an
unreliable network that may execute a request long after the agent gave it up.

What makes each part correct, and what is hard to test in it:

* **Health policy**: the verdict means what the documentation says, at the limits
  as well, and depends on nothing but the row, the newest sample and the clock.
* **Alert manager**: no write is slept through; alerts name statuses the node had;
  an announced problem is closed again; cooldown and "not twice" hold through
  flapping, failed sends and half-failed sends; a lasting status gets through.
* **Agent and store**: however requests are lost, repeated and reordered, the newest
  accepted sample stays the newest, copies are bounded, a lost database is
  survived, and a reported error stands.
  A node whose calls are answered is silent no longer than they explain.
* **Store**: threads that take the time before they have their turn disturb `last_seen`
  by no more than they wait, and no view calls a silent node online; retention deletes what is old
  and nothing else, through shutdown and failure.
* **Collectors and exporter**: collecting ends, whatever its subprocesses do, and
  leaves none behind; a sample passes the schema; no answer of the scheduler is not
  taken for an idle node; no byte and no series is there twice.
* **Stream and page**: no change is slept through or dropped because a refresh is
  under way, polling does not die, and a quiet system ends up on the screen.

The full list of hazards, line by line with the properties that guard them, is in
`PROJECT.json`.

## The modules

| Module | Models | State and actions |
|---|---|---|
| `HealthPolicy` | `evaluate_status` from a distance | operators only; a sample is "none", "ok" or "hot" |
| `Thresholds` | `evaluate_status` with readings, order of tests and reasons | one row and its newest sample, changed one field at a time |
| `Alerts` | the alert task, the writes and notifications of the handlers, the receiver, store failures, restarts | `pc` walks list, next, judge, send, wait; rows, `wake`, the manager's memory (`active`, `delivered`, `since`), the locals of a pass |
| `AlertsProperties` | what must hold of `Alerts` | |
| `AlertPromise` | what the receiver is promised, with no word about how | acknowledged status, open problems, time since attempts, the request under way |
| `Agent` | `serve`, `send_once`, `register`, `_deliver` | `pc`, `job`, `attempt`; used by `Reporting` and `Delivery` |
| `Reporting` | the agent against a controller that fails and forgets | `known`: does the database have the node? |
| `RetryPolicy` | `_retry_delay` on the settings `from_env` makes | operators only |
| `Timing` | `Reporting` with its timeouts, delays and sleeps | `timer` of the stage, `elapsed` of the loop body, `silence` of the node |
| `Delivery` | agent, network, handlers and store for one node | the set of requests that are out, the metrics rows by id |
| `Registry` | `store.py` under its threads, the reads of the API, `maintenance`, `lifespan` | a call per worker thread with its timestamp, the read under way, the task and its cutoff, the process |
| `Slurm` | what `slurm.py` makes of its two outputs | operators only |
| `Collector` | `TelemetryCollector.collect`, the three subprocesses | `pc` walks the readings, `child` and `wait` the subprocess; the network counters |
| `Exporter` | `render_metrics` and `_escape_label` | operators only: the set of series of a set of node views |
| `Telemetry` | `Exporter` on `Collector`: from the sensors to `GET /metrics` | |
| `Broker` | `EventBroker` and one `event_stream` | `revision`, the generator's stage, the changes a page could show |
| `Dashboard` | `app.js` on `Broker` | refresh in flight and queued, timer, EventSource, events on their way |
| `MCAlerts`, `MCThresholds`, `MCTelemetry` | symmetry, limits and names for TLC | |
| `*Proofs` | theorems | |

`HealthPolicy` is used by `Alerts` and `Thresholds`; `KindDecides` shows that the
abstraction by kinds loses nothing, and `Registry` uses its offline test. `Agent` is composed with two environments. In
`Dashboard` the versions of `Broker` are what the page shows. `Timing` extends
`Reporting`, and its constant `Collection` is what `CollectionBounded` bounds.
`Telemetry` instantiates `Exporter` on the samples of `Collector`.

Abstractions. Time is kept as ages that stop growing once nothing changes, so runs
of any length have finitely many states; in `Alerts` the alert interval has no
length and a wait may time out at any moment. `Registry` has a bounded clock instead,
because the order of timestamps is its subject; `Timing` and `Collector` count down
what is left of a timeout, and time stands still for what is due. Samples are kinds, reports are numbers
(their `collected_at`), a page shows a version number. History variables (`unseen`,
`raised`, `real`, `accepted`, `standing`, `noticed`, `failed`, `reported`, `contact`,
`overtaken`, `calm`) only
record what happened, for the properties. Definitions called *variant* are the
plausible mistakes of the mutation runs; nothing else uses them.

## The runs

| Run | Bounds | Shows |
|---|---|---|
| `thresholds` | readings 0..2 around limits 1 and 2, two sensors, timeout 1 | the verdict is decided by the kind of the sample, means what `StatusMeansWhatItSays` spells out, and never improves when a reading rises |
| `alerts` | one node, timeout 1, cooldown 1, one restart, lost acknowledgements, failing store | `NoLostWake`, `OpenAlertIsTracked`, `AlertWasTrue`, and the refinement of `AlertPromise` |
| `alerts_liveness` | one node, no restart, no lost acknowledgement | a lasting status gets through for good |
| `reporting` | module `Timing`: three attempts, one death, one lost database; timeout 2, delays up to 2, interval 3 | reports go on through anything, and a second registration has a cause; `SilenceBounded` and `LoopBounded` |
| `delivery` | two attempts, three reports, two requests executed late, one death, one lost database | the newest accepted sample is the newest stored, copies are bounded, rows have their node |
| `dashboard` | two changes, one event on its way, with and without EventSource | no lost update, no dropped refresh, polling lives while a stream is broken or reconnects, and the last change is shown |
| `registry` | one node, two threads for writes, a clock of 0..2, timeout, retention and wait of 1, one restart | `last_seen` lags little, no silent node is called online and none `OFFLINE` but for a write after its row was read, a history has no hole, retention is exact |
| `telemetry` | three sensors with names that need escaping, tegrastats timeout 1, Slurm timeout 2, one job kept of up to two, two units of traffic | collecting returns in time and leaves no child; of Slurm's failures only text that does not decode costs the sample; what is exported is what was heard |

Why the bounds are enough. The alert task treats one node at a time and keeps its
books per node, so one node shows every order of its own steps; the one thing
another node does to it is to make it wait, which is `alerts_stale` with two nodes.
Timeout and cooldown of one tick separate "before", "at" and "after". Two attempts
have a first, a last and a retry; three reports allow a late request of the first
to meet the third. Two threads commit in the order of their timestamps or the
other; a clock of three moments has one before, at and after every limit of one tick
(with four moments the safety properties of `registry` hold as well, in 2.7 million
states). A delay of 1 doubles into its limit of 2, and a jitter above 100 percent is
clipped at both ends. One line more than the list of jobs keeps is what the cut
can get wrong; the names in `MCTelemetry` are the shortest that two orders of
escaping tell apart. Two changes let one arrive during the refresh for the other. Every
safety property of a passing run is also proved without these bounds.

Four runs end in a counterexample, because the code does not do what the
documentation says:

* `alerts_restart`: the alert manager's memory dies with the process, and a recovery
  after it is never sent.
* `alerts_stale`: a pass that waits for slow webhooks judges old copies of the rows
  with the present clock: `OFFLINE` for a node that reports all the time.
* `delivery_late`: a request that was given up is executed late and clears the
  error of an accepted heartbeat.
* `dashboard_stuck`: after a failed initial request the page stays in its error
  view for ever.

Some more can be read off the models without a run of their own. README.md:49 makes
a `WARNING` of every collection error that was reported, but one with an empty text,
as of an exception without a message, counts as none (`HasError` of `HealthPolicy`;
`status.py:18` and 23 test its truth): the node is `HEALTHY`, and
`StatusMeansWhatItSays` says so in as many words. README.md:48 makes a node `OFFLINE`
that was not heard of within the timeout, but `_node_view` reads the row first and the
clock last: a heartbeat that is committed between the two is not seen, and a node that
was just heard of is called `OFFLINE`. `StatusIsHonest` admits that (`overtaken`) and
nothing else; for the alert task, where the gap is as long as a webhook, it is
`alerts_stale`. With `LostAcks = TRUE` in `alerts_liveness.cfg`, an alert that was processed
though its request failed leaves the receiver with a wrong status when the node
returns to the status before it. A tegrastats that cannot be started any more, or
text of a subprocess that does not decode, costs the whole sample (`StartStats` and
`Garbled` of `Collector`), although README.md:109 has it that missing vendor telemetry
never does. And `SilenceBounded` says what README.md:146 leaves open: with the
default settings one attempt that runs into its timeout already makes a silence of
more than fifteen seconds, so that the node is `OFFLINE` until the next attempt is
answered.

## Fairness

* `Alerts`: the event loop runs what is ready and `wait_for` times out (weak); time
  passes (strong, because `Prompt` lets it stop while the task is computing); a
  webhook that is tried again and again is accepted again and again (strong: the
  receiver's part, without which nothing can be promised). `EventuallyTold` also asks
  that the kind of the newest sample lasts: a prune between listing and reading in
  every pass would hide it, and prunes come once an hour.
* `Reporting`: the agent's own steps (weak); a call ends one way or another, since
  httpx has a timeout (weak); each kind of call that is repeated for ever is answered
  again and again (strong: controller and network). Start is among the agent's
  steps: systemd restarts it (`Restart=always`).
* `Timing`: the same, and time passes (weak). Only the answer of a call is strong.
* `Registry`: the maintenance task wakes up and has its turn, the connection is
  closed, and a controller that is down is started again (weak). Nothing is asked of
  clients or of the clock.
* `Collector`: the collector goes on and time passes (weak). No subprocess needs to
  end before it is killed; one that is killed ends, and its pipe closes with it. The
  `communicate` after `kill` (telemetry.py:153) has no timeout: another process that
  kept the pipe open would hold up the agent, which `CollectReturns` and
  `CollectionBounded` do not cover.
* `Dashboard`: the server's coroutines run and the keepalive expires (weak); an event
  of an open stream arrives, not every stream breaks before its first event, a
  request neither hangs nor fails for ever, and the timer sometimes runs down
  between two errors of the stream (strong). The last three are assumptions on
  browser and network that the code does not enforce; the hazards list says so
  (`app.js:27`, `app.js:186`).

## The proofs

For every value of the constants, from the named assumptions in the modules:

* `ThresholdsProofs`: type correctness; `KindDecides`, `StatusMeansWhatItSays` and
  `RisingNeverHeals`. The first two follow from the type invariant by cases on the
  sample, over lemmas that say when there is no reason. The last is an action
  property: a rise can only add members to each set of reasons.
* `AlertsProofs`: type correctness, with the program counter tied to the locals.
  `NoLostWake` is inductive with it: a write stays in `unnotified` until its
  handler sets the flag, and the flag is only cleared on the way to a listing,
  which sees every write. `OpenAlertIsTracked` and the promise rest on `BookInv`,
  which ties the manager's books together: a problem that is being sent is tracked
  and counted as announced; so is every tracked node, and every node whose
  cooldown runs, unless the recovery is the last status that was acknowledged.
  `PromiseKept` proves the refinement: every step maps to a step of `AlertPromise`
  or a stutter. `AlertWasTrue` needs `TrueInv`, which relates the listed copy, the
  sample read later and the statuses the node had meanwhile: the copy's error may
  be older and its age larger than the row's, and still what is announced was true
  at some moment.
* `ReportingProofs`: type correctness of agent and environment, and
  `SecondRegistrationHasCause`, by an invariant that says where the agent can be
  while its node was never known.
* `TimingProofs`: `Timing` implements `Reporting`, so that what is proved of one
  holds of the other. No delay is longer than its limit, whatever the environment
  says (`DelaysAreLimited`), and the rest is by induction over what is left of
  each stage: `Timed` keeps the timer of a stage within its length; `Loop` bounds
  the time since the loop body began by the attempts before the present one;
  `Silence` bounds the age of the row plus what is left of the stage, and needs
  that a call that began in the loop body took no more than the body (`Spent <=
  elapsed`), because the sleep after it makes up for the rest of the interval. One
  assumption is on a bound of the model: ages are counted up to at least one
  timeout (`SilenceCap`).
* `DashboardProofs`: type correctness of page and stream, `NoLostUpdate`,
  `NoticedIsShown` and `StillPolling`, from one invariant: before it waits a
  stream has yielded its revision, and nothing was published since unless it was
  woken (`Looked`); an answer that is too old for what was noticed has a refresh
  queued behind it (`Fresh`); and the polling callback only waits for a refresh
  that is in flight (`Started`).
* `RegistryProofs`: type correctness, with `Ending`: a process that ends is one of
  those that may. `SeenLagsLittle` needs to know that no call waits with a stamp
  that is older than `MaxWait`, and that no write is from the future (`Stamps`);
  `Lags` then bounds `seen` by the latest write from both sides. `StatusIsHonest`
  compares the copied row with the latest write at the judgement: the copy is never
  later than that, and lags no more than a wait behind it unless a write came after
  the copy (`Copied`).
  `PruneSparesWindow` needs that the thread's cutoff is no later than now less the
  retention (`Cutoff`), also when its task is dead. `HistoryIsRecent` follows from
  the types and what `History` is: the least of a set of numbers exists, and
  cutting off below it leaves no hole.
* `DeliveryProofs`: type correctness together with `Waits`, that an agent in a
  call waits for one request, the one of its job, attempt and report, and has
  given up all others. `RowsHaveNode` and `AcceptedIsLatest` come from `Kept`:
  rows belong to a registered node, and the sample that was answered last is among
  those that are stored, or was pruned or lost with the database since; the newest
  of them has the greatest `collected_at`, whatever ids they have. `FewCopies` is
  not inductive; `Few` counts the attempts that are still out with the copies that
  are stored and bounds both by the attempts begun, and `Past` keeps anything of a
  report from being there before it is made. `NotFoundHasCause`, which is stated
  in the proof module, says that a 404 has a lost database as its cause; it rests
  on `Registered`: before a database is lost, whoever reports is known.
* `TelemetryProofs`: type correctness; `Children` ties the subprocess to the stage
  of the collector, which gives `NoChildLeft` and `OnlyUndecodableCosts`; `Budget`
  bounds the time spent plus what is left of the stage's timeout; `Balanced`
  bounds what was reported, what the sample under way has and what the counter
  still holds, together, by the traffic there was; `Heard` says that the sample
  has of Slurm what `SlurmOf` makes of its two outputs. `SeriesDistinct` is a
  statement about texts: `EscapeLabel` is injective, because every character
  becomes one or two that tell it apart from the left (`EscapeFront`,
  `SameLetter`), and a series is decided by its family and its label
  (`ExportedIsMade`). The library's induction over sequences cannot be used, so
  what is said of all texts is shown of a shortest text that it is false of; such
  a text exists because numbers are well-founded.

The assumptions on constants are those the code gives: what stands for Python's
`None` is no number, list or sample; as many jobs are kept as the schema allows
(both limits are 100); sensors are finitely many and have texts as names.
Everything else is typing, and the ranges of settings.

What is only model-checked: all liveness (`EventuallyTold`, `ReportsResume`,
`EventuallyShownOnceDrawn`, `ExpiredIsPruned`, `CollectReturns`), because fairness
and ENABLED are out of the prover's reach.

## What is not modelled

A webhook that the receiver processes only after a following one: in `Alerts` a
request that failed has been processed by then or never is. A receiver that reorders
a timed-out problem behind the recovery keeps the problem; no step of the manager
would correct it while the node stays healthy.

The parsing of the environment (its outcome is in the constants) and of fields but
for the limits a sample could miss, the text of Slurm's fields, the capability
probe, the migration of an old database, the comparison of keys, the drawing of
the page, and the formatting of what is exported. The load test is a benchmark
client beside the system. Of the deployment there is the restart policy; the
Ansible role, whose missed restart after a failed task is on the list of hazards,
runs on other hosts and in other processes and shares no state with what is
modelled here. Of the browser, how soon an EventSource reconnects against the
polling timer is an assumption of `Dashboard`'s fairness.

## Plan

1. (built) `HealthPolicy`, `Thresholds`, `Alerts` with its promise, `Agent`,
   `Reporting`, `Delivery`, `Broker`, `Dashboard`, and their proofs but for `Delivery`.
2. (built) `Registry`, `RetryPolicy` and `Timing` with its proofs, `Slurm`, `Collector`,
   `Exporter` and `Telemetry`.
3. (built) Changes of `Delivery`, `Slurm`, `Collector` and `Exporter` that make them
   fit for proofs, and the proofs of `Registry`, `Delivery` and `Telemetry`.
4. Abstract specifications that are left to state and to prove implemented: the store as one
   node's newest sample, implemented by `Delivery`, and what a page is promised,
   implemented by `Dashboard`.
