# A TLA+ model of syncbench

syncbench makes Wi-Fi stations start iperf3 at the same instant and collects what they measure. An
**agent** runs on every station, a **controller** (the orchestrator, started by `atf-run` or from the
browser) leads them through a run over an MQTT broker, and an **inspector** shows the agents, starts
runs and draws their samples. This directory holds TLA+ modules translated from that code, TLC
configurations that check them on small instances, and theorems about them checked by TLAPS.

Paths below are relative to the repository. `PROJECT.json` lists, for every definition, the lines it stands for.

## 1. The system

| Part | Code | State | Operations | Talks to |
|---|---|---|---|---|
| Agent | `agent/atf_agent/main.py` | `_state`, `_current_run_id`, `_traffic_config`, one thread per accepted `start_at` | boot, `prepare`, `start_at`, `stop`, `teardown`, worker thread, heartbeat, stop | broker, iperf3 |
| iperf3 runner | `agent/atf_agent/traffic/iperf3.py` | the iperf3 process, samples | `run`, `run_server`, parsing, statistics | iperf3 on the other side |
| MQTT bus | `shared/mqtt_bus.py` | paho client, `_subscriptions` | connect (with will), publish, subscribe, dispatch, reconnect | broker |
| Orchestrator | `controller/atf_ctrl/orchestrator.py` | `_acks`, `_results`, `_agent_ips`, iperf3 processes | five phases, callbacks, finally blocks | broker, iperf3, `on_event` |
| Command line | `controller/atf_ctrl/cli.py` | none | run, status | orchestrator, `InspectorState` |
| Run console | `inspector/server.py` (run API), `inspector/templates/index.html` | `_run_queues`, one thread per run; `runId`, `runEventSource`; the chart's `sampleQueue`, metronome and timers | `POST /api/run`, `on_event`, stream, page handlers | orchestrator, browser |
| Agent board | `inspector/state.py`, `server.py` | an entry per agent, `last_seen` | heartbeat, status, expiry | broker |
| Events stream | `server.py` (`/events`), `index.html` | `_update_event`; `selected`, `offlineTimers` | generators, page handler, offline guard | agent board, browser |
| AP collector | `controller/atf_ctrl/collector/ap_collector.py` | `_prev`: counter and time of the last reading per station | list, read, difference, write | ssh, InfluxDB |
| Reporter, fairness, InfluxDB writer | `reporter/`, `metrics/` | none | query, format, write | InfluxDB |
| Scenarios | `scenarios/` | none | parse, `extends`, validate | files |
| Platform adapters | `agent/atf_agent/platform/` | on macOS a link cache and its poller | ask the operating system | agent |
| Precise start | `shared/sync.py` | none | `sleep_until` | agent |
| Deployment | `scripts/sync-agents.py`; other `scripts/`, `rpi-image/`, `deploy/` | remote files, `results` | copy, `uv sync`, restart, status; install | ssh, systemd |

### What is hard, part by part

* **Agent.** Its main thread, the MQTT thread and any number of workers write the same attributes
  without a lock. `teardown` sets IDLE in any state; a worker clears run id and configuration whoever
  set them; the configuration is read after a sleep of seconds. Correct means: who is ARMED knows what
  to do, traffic is configured by the run it is for, IDLE means free, and agents come home.
* **Orchestrator.** Acks and results come from a callback thread while the main thread waits with
  timeouts; acks are not matched to the prepare; all orchestrators share one client id; the servers
  are started before the `try` that stops them. Correct means: no start without all acks, no *ok*
  without a measurement of every station for this run, every run ends, the servers are there while they are needed and gone afterwards.
* **Broker and bus.** Clean sessions lose broadcasts, QoS 1 repeats, publishes of a disconnected client
  come late, a second session with the same client id throws out the first.
* **Run console.** One queue per run, drained by however many generators there are; a POST that gives
  up after five seconds while its run goes on; reconnecting `EventSource`s. Correct means: the page sees
  every event once and in order, gets its Start button back, and no queue is left.
* **Agent board.** Retained statuses, wills and heartbeats overtake each other in effect: a heartbeat
  carries a state read before slow platform calls, a will may come after the reconnect. Correct
  means: the view is right again within two seconds, and the dead are shown offline, whatever the inspector has missed.
* **Events stream, offline guard.** One `asyncio.Event` for all pages; a timer of eight seconds against
  messages that may not come.
* **Chart.** A metronome that a timer starts, one handle for what may be several intervals, samples that come before or after
  the tick they are for. Correct means: a line shows its samples in order and each once, and done draws what is left.
* **MQTT dispatch.** Two threads on one dictionary. Correct means: no subscription is lost in a reconnect, and the thread lives on.
* **AP collector.** Differences of counters that restart, over clock readings that may go back, in rounds that fail halfway. Correct
  means: no airtime is counted twice and no share is larger than its span explains.
* **Precise start.** Three clocks, one of which may be stepped at any moment. Correct means: never early, and on target if left alone.
* **iperf3 output.** Lines of streams, directions, units and fractions of a second in one text. Correct means: the figures are those of the traffic.
* **Results.** Jain's index computed in three places from different sets of stations. Correct means: it lies in its bounds, and where the places differ it is in the known direction.
* **Platform adapters.** A cache filled by a thread. Correct means: the band told is one the station was on.
* **sync-agents.py.** A thread per node, any of whose steps may fail, while systemd restarts agents. Correct means: no restart on half a
  tree, and exit status 0 tells the truth.

`PROJECT.json` lists the hazards at their lines, with the properties that cover them; a hazard that has none says why.

## 2. The modules

```
AtfNet <--- AtfAgent ------+                          RunFeed (INSTANCE) <--- RunConsole <--- MCRunConsole
   ^                       +--- SyncBench <--- MCSyncBench <--- MCTwoRuns
   +------- Orchestrator --+        |  \             AgentBoard <--- OfflineGuard <--- MCOfflineGuard
                                    |   MeasurementRun (INSTANCE)
                     SyncBenchProofs <--- RefinementProofs
                                                      EventsStream, RunChart <--- MCPage
SyncAgents, ApCollector, MqttBus, PreciseStart,
Iperf3Runner, Reporter, WifiLink, ScenarioLoader <--- MCTools

Proofs: RunConsoleProofs over RunConsole; BoardProofs over OfflineGuard; PageProofs over MCPage; SyncAgentsProofs over
SyncAgents; PartsProofs over MqttBus, PreciseStart, WifiLink, ApCollector, ScenarioLoader; FiguresProofs over
Reporter, Iperf3Runner
```

### The measurement: AtfNet, AtfAgent, Orchestrator, SyncBench

`AtfNet` is what agents and controller share: `inbox[a]` (broadcasts on their way to agent *a*, in
order), `reports` (acks and results on their way back, in any order), `session` (whose bus holds the
client id `atf-controller`), `outbox[r]` (what a disconnected bus has queued), `bound` and `socket` (the
iperf3 ports on either side). Its operators are what a component may do to them; the components call them.

`AtfAgent` has an action per handler and per step of a worker:

| Code | Action |
|---|---|
| `_handle_prepare` up to `_traffic_config`, and from the ack on | `HandlePrepare`, `FinishPrepare` |
| `_handle_start_at`, `_handle_stop`, the teardown lambda | `HandleStartAt`, `HandleStop`, `HandleTeardown` |
| worker: return of `sleep_until` | `WakeUp` |
| worker: read `_traffic_config`, start `run` or `run_server` | `StartTraffic` |
| worker: iperf3 ends; result published | `Finish` |
| worker: the resets; IDLE | `Release`, `GoIdle` |
| boot, termination by any cause, service restart | `BootDone`, `Crash`, `Restart` |

The steps are cut where another thread can run in between and it matters: a prepare is two steps because
the main thread or a worker may change the state between PREPARING and ARMED; a worker is five.

`Orchestrator` has an action per server of `_start_iperf3_servers` (`StartServer`), per phase of `run`/`_run_phases` (`Begin`, `StartRun`,
`AckTimeout`, `StartDownlinkClients`, `StopRun`, `Conclude`), per server that is stopped (`StopServer`, the `finally` of `run`), for `Orchestrator.stop` in
the `finally` of the caller (`Close`), and for the callbacks (`OnAck`, `OnResult`, `OnAgentHeartbeat`), which act on whichever
orchestrator holds the session. `Connect` is the constructor; `Resume` a reconnect, which in turn throws out another orchestrator.
`SpawnFails` is what raises before the `try`: no iperf3 is found, or one of several servers does not start. `Interrupt` is an exception or a Ctrl-C at
any moment: inside the `try` the servers are stopped after it, before the `try`, or while they are being stopped, they are left. `procs` is
`_iperf3_procs`, what a run will stop; `bound` is what listens. A server whose port is taken is in `procs` and not in `bound`.

`SyncBench` composes them and states the properties. `MeasurementRun` is what a run promises its operator,
without messages, threads or states: runs are launched once, stations measure for launched runs only,
and a verdict is given once and is *ok* only if all have measured.

Histories (`measured`, `started`) are variables that no guard reads.

### The run console: RunConsole

The page, the routes and the run's thread. The n-th POST makes run *n*. `Put` is `on_event`, `Phase` the
events of `_run_phases` in their order, `Sample` the inspector's own MQTT thread; `Send` is the generator of
the open stream, `Swallow` that of a stream whose browser is gone but which the server has not cancelled
yet, `Cancel` the cancellation; `Handle` is `runEventSource.onmessage`. The orchestrator appears only as a
sequence of events: that it ends is `RunsEnd` of SyncBench.

`RunFeed` is what the page is promised of the runs it starts, without routes, threads, generators or connections: a run tells its
phases in order and one end, the page follows one run at a time until it hears that end, hears what is told in that order and
nothing twice, and what it has not heard yet is lost only once a connection has broken or when it has turned to another run.

### The agent board: AgentBoard, OfflineGuard, EventsStream

`AgentBoard` has time: a `Tick` is a second, and what is due in a second happens in it. It models a status
as three things (published, retained, queued while disconnected), the will, the heartbeat in two steps
(`Compose` reads the state, `Beat` publishes after the platform calls), and the entries of
`InspectorState` with the age of `last_seen`. `OfflineGuard` puts the page on top: the list it got last, the
selection, the timers. `locked` is there because a checkbox is disabled when the list is drawn, not when it is
clicked. An inspector that restarts has forgotten its entries; one that is cut off from the broker (`LoseInspector` to `ReconnectInspector`, for as long
as may be: `listening`) keeps them and hears nothing of the meantime. Both then get the retained statuses, in any order. The history `hearsay` names the agents
the inspector has only by a status that came when they were silent already. `EventsStream` is `/events` with several pages: each turn of a generator is listing, sending, entering
the wait, being woken, because another generator may clear the shared event between any two of them.

### The chart: RunChart

The page's chart during a run: `Click` and `Posted` are the two halves of the handler of the Start button, `Sample` and `Done`/`Error` the
branches of `runEventSource.onmessage`, `FirstTick` the timer of 250 ms, `Tick` an interval's `metronomeTick`, `StopElapsed` the clock of
elapsed time. The button is on as long as no run is followed, so a second click may come while a POST is under way, and
then two POSTs return one after the other: `run.posts` counts them, and the history `run.streams` the runs the chart has been given since the last click. `metronome` is the one handle the page has, `intervals` are those that really tick: the two come apart when a timer
fires after its run is over. A sample is a number, so that order and repetition can be seen. `MCPage` puts it beside `EventsStream`, in
one run: a behaviour is one of either.

### The parts that stand by themselves

`MCTools` instantiates eight modules that share no state; in a behaviour one of them moves.

* `SyncAgents`: `main` up to the threads (`Command`), a thread's steps (`Connect`, `Clean`, `Put`, `UvSync`, `Restart`, `IsActive`), whatever
  raises (`Abort`), and `main` after the joins (`Join`). A tree is a sequence of directories; `Clean` may leave entries behind, as the code
  swallows the error. A thread may end without a result: closing the connection may raise in the `finally`. `AgentFails` is systemd.
* `ApCollector`: a round is `ListStations`, a `Cat` per station, `Evaluate`; `SshFails` and a last failing `Cat` end it. `prev` has counter
  and wall time of the last reading. The wall time is read once, after all counters, so a reading is older than its stamp.
* `MqttBus`: `subscribe` in its two steps against `_on_connect` with its snapshot and `_on_message` with its loop over the live dictionary.
* `PreciseStart`: `Sleep`, `Anchor`, `Begin` are the phases of `sleep_until`; time passes in `Tick`; `StepClock` is NTP or an administrator.
* `Iperf3Runner`: iperf3 prints (`Interval`, `Summary`), the loop takes lines (`Take`), `ComputeStats` at the end. After the last second there may be lines for
  what is left over, of all streams and directions or of the first ones; the code takes such a line as a sample like any other. A rate outside Mbits is a line the
  regular expressions do not match. The mean is modelled by the sum it divides, so everything is whole numbers. `Sorted` says what the k-th of the
  sorted rates is, not how they are sorted: the provers know nothing of `SortSeq`.
* `Reporter`: results, the write of the summary, report, and what the user of the run sees, who is either at the command line or at the page. An index is a fraction.
* `WifiLink`: where the station is, what each system tells of it (on some a channel without its band), `get_band`, the poller of macOS.
* `ScenarioLoader`: `load` with `_deep_merge` over all documents of two levels with two keys and two scalars. The recursion is a recursive function, so that it can be proved about.
  The scenarios of the repository have a third level (`preflight.software`), which the recursion of `DeepMerge` reaches; all documents of three levels are too many for a run.

### Mutants

Operators whose comment starts with "Mutant" are changed copies of the definition that follows them: plausible bugs.
Each property is violated when one of them takes the definition's place; nothing else uses them. For `GetBand` the
mutant is an operator of the model, the base class's limits for every platform.

## 3. Runs and bounds

All bounds are constants, all faults have a budget (`Faults`, `Mishaps`), so that a behaviour has at most so many of them,
at any place. States are those TLC finds.

| Run | Instance | Shows | States |
|---|---|---|---|
| `Faulty` | an uplink and a downlink station, one run; one broken link, one crash, one interrupt, one failing spawn | `IInv` (whose strengthening gives `VerdictSound`), `Barrier`, `ImplementsPromise` | 1.1 million |
| `BackToBack` | one station, an uplink and a downlink run: either one after the other with a message that arrives twice, or both orchestrators open at once | `VerdictSound`, `Barrier`, `NobodyLeftArmedApart` | 2.9 million |
| `Liveness` | two uplink stations, one crash, with fairness | `RunsEnd`, `ComeHome`, `ArmedHasConfig`, `OwnTraffic`, `NobodyLeftArmed` | 104 thousand |
| `ConsoleCalm` | two runs, a failing constructor, an exception, one sample each, with fairness | `NothingLost`, `QueuesReleased`, `BadgeGoesOn`, `StartComesBack`, `TypeOK` | 21 thousand |
| `ConsoleDouble` | two runs, a double click, a slow answer, a broken stream | `HandledOnce`, `ImplementsFeed` | 770 thousand |
| `Board` | one agent, the inspector and the page, in four scenes (below) | `CaughtUp`, `GoneIsShown`, `GuardActs`, `GuardPatient`, `TypeOK` | 2.5 million |
| `Page` | two pages on `/events`, two updates, one expiry; or two runs of two agents in a chart of two slots, three samples each, the second click also while the POST is under way; with fairness of the stream | `PagesCatchUp`, `DrawnInOrder`, `DrawnWhenDone`, `TimersAtRest`, `PageTypeOK` | 44 thousand |
| `Tools` | the eight parts, see below | `ExitHonest`, `NoHalfRestart`, `NothingCountedTwice`, `ShareBounded`, `AllSubscribed`, `StartsOnTarget`, `FiguresFaithful`, `PercentileNear`, `IndexBounded`, `BandWasTrue`, `MergedByPath` | 2.3 million |

Why this is enough. Two stations are needed for a barrier with a partial set of acks and for an uplink and
a downlink station in one run; a third adds no new kind of set. Two runs are needed for everything one run leaves to the
next, and no code looks at more than the current run. `MaxThreads` bounds the live workers of an agent: with
one run and no duplicates there is one, a duplicate adds one, a second run adds one; a `start_at` that would need
one more is not taken, which cuts only behaviours with more duplicates than the budget. `MaxActive` is how many
orchestrators are open: nothing in the code limits it, so it is 1 where a property is about runs one after the
other, and 2 in `BackToBack`, where `MCTwoRuns` decides at the start of a behaviour whether the runs are apart (`apart`). Then a message may arrive twice; of two that
are open at once, each message arrives once. `VerdictSound`, `Barrier` and the promise are proved whatever `MaxActive` is (section 5). Ports are 1 and 2.

`Board` has one mishap of each kind, but all of them in one behaviour are too many, so a behaviour belongs to a scene (`MCOfflineGuard`): *board* is the board without
its page, under every mishap; *patient* the page with an agent that changes its state, has a slow call and a broken link; *rejoin* the page with
an agent that is killed, while the inspector restarts and the page loses `/events`; *outage* the page with an agent that is killed, while the inspector has lost the broker
for any time. In the last two the agent's state does not change between boot and end, as the page does not look at it. `MaxInFlight` bounds the status changes of an agent
within one second. One agent is enough: entries and timers are independent of each other. That the properties hold under all mishaps together is proved (section 5).

The bounds of `Tools`: two nodes and two directories (one before the last), each with a leftover, and one failing agent; two stations of the access
point, three ticks, one clock set back, one rejoin, so that a counter restarts between two readings; three patterns and two
reconnects, so that a subscription is added in each phase of an answer; two stations, a busy wait of two ticks and an overshoot of one, two clock
steps; tests of one, two and four seconds, up to four lines for the seconds and those for what is left over, one or two streams, rates with one that is not Mbits; three stations with means up to 9, zero among them; five channels at
the corners of the bands and three moves; all pairs of documents of depth two. In `Page`, three samples for two slots are one too many,
and a second run meets what the first has left, or comes while the first is still asked for.

Deadlock is checked in every run but those of `RunConsole`, where the page may stop clicking when its runs are over, and of `MCTools`, where every
part comes to its end. The
core never deadlocks because heartbeats go on.

### Disagreements with what the repository says

Each of these is a run with the expectation *violation* and one property, which says what the quoted text says:

| Run | Property | What happens |
|---|---|---|
| `StaleWorker` | `ArmedHasConfig` | a worker that ends late clears the configuration of the next run |
| `Dispatch` | `DispatchSurvives` | `_on_message` goes through the live dictionary while the main thread subscribes: the network thread dies |
| `LostDone` | `StartComesBack` | a broken stream takes the done event with it |
| `LeftServers` | `ServersStopped` | one of several servers does not start: those before it stay behind (README.md:264 "cleans up on failure") |

Other properties hold only under conditions, which are the hypotheses of their theorems (section 5), and why is worth knowing:

* `OwnTraffic` is for one run, whose broadcasts come once: with two, a worker may read the traffic configuration of the other run (main.py:233), as it
  reads it after the sleep.
* `NobodyLeftArmed` needs one orchestrator at a time (`NobodyLeftArmedApart` says so of `BackToBack`), none that is interrupted (no teardown is sent then) and no link that breaks.
* `BadgeGoesOn` and `QueuesReleased` need a user who does not click twice while a POST is on its way, `NothingLost` streams that hold.
* `ComeHome` needs uplink stations: the read of a one-off server's output (iperf3.py:234) has no timeout, and the controller starts its client
  once, if it knows the address. Nothing requires that an IDLE agent is free either: teardown (main.py:156) makes a measuring agent IDLE.
* `QueuesReleased` needs POSTs that answer in time as well: after a refusal the run goes on, registers its queue, and nobody reads it.
* `GoneIsShown` excepts an agent the inspector knows by a status alone that came when the agent was silent already (`hearsay`): a new entry has `last_seen` now (state.py:51),
  so an agent that was killed may be online for five seconds after the inspector has restarted, or if it lived and died during an outage. TARGET.md:88 says that
  a retained status does not update `last_seen`, lest someone be taken for online; for an entry that is new it does. Any other agent is shown, across restarts and outages.
* `GuardPatient` is of a page that has not lost `/events`, by itself or by a restart of the inspector (`EventsKept`): otherwise it cannot hear that a device is back.
* That an update is never missed needs a page that is alone (section 5); with two, one clears the event before the other has looked.
* `TimersAtRest` and `DrawnInOrder` need that no timer of 250 ms fires when its run is over: it sets an interval the page has no handle of.
* `DrawnInOrder` and `DrawnWhenDone` need a chart of one run: when a second click has been made while the first POST was under way (index.html:426 asks only
  for `runId`), the chart is given both runs, one after the other, and a line shows samples of both. `TimersAtRest` holds all the same.
* `DrawnWhenDone` counts a slot as lost for each tick that came before its sample (index.html:557): the sample is drawn only while there is room.

What the code does, read while modelling, that a property states as an exception or that no property is about:

* Acks are not matched to the prepare they answer (orchestrator.py:345), although design_spec/atf-validator-phase1-spec.md:219 makes the topic `ack/{cmd_id}` and
  lines 399-400 have the controller confirm every agent's ack. `VerdictSound` holds all the same.
* A run without stations is ok without measuring anything (orchestrator.py:66).
* An `ATF_AGENTS` with only unknown names selects nobody, and `sync-agents.py` exits with 0. Failed removals of stale files are swallowed (line 112), though the
  comment at line 47 says that the removal prevents stale files; `ExitHonest` says what exit status 0 leaves true.
* A reconnect subscribes again at QoS 0 (mqtt_bus.py:115), whatever QoS was asked for. Overlapping patterns reach the first callback only.
* Lines in bits, Kbits or Gbits are dropped without a trace (the expressions from iperf3.py:32 on know Mbits only), though iperf3.py:102-103 says that `on_sample()` is called "for each
  1-second interval"; so a stalled second is published as no sample and leaves the mean, and with `--bidir` shifts a pair; parallel streams are
  so many samples; the summary of a test of one second counts as a sample. A line for the fraction after the last second (10.00-10.04) is a sample, which weighs
  like a whole second in the mean and the percentile. The 95th percentile of two samples is the smaller one. `FiguresFaithful` is about what is left: one stream, two
  seconds or more, rates in Mbits.
* Every run takes its ports from `BASE_IPERF3_PORT` on (orchestrator.py:299), and the `Popen` of a server whose port is taken succeeds: the server exits and nobody looks. Of two runs that
  are open at once, as nothing forbids, the second is without a server when the first has stopped its own (docs/methodology.md:105 says "One iperf3 server spawned
  on Mac per port"). `BackToBack` has such behaviours; none becomes *ok* by it (`VerdictSound`).
* A server that was started before a Ctrl-C in `_start_iperf3_servers`, or whose orchestrator is interrupted while it stops its servers, stays
  (`Interrupt`); so do all servers when the process is killed, of `atf-web` with the daemon thread of the run.
* Command line and page leave stations that have moved nothing out of the index; the report does not, and divides by zero if all are so. The page
  grades by 0.9/0.75/0.5, the report by 0.95/0.80/0.60. After a failed InfluxDB write the report has no stations.
* Below 6000 MHz a 6 GHz channel is told as 5G on Linux and Windows (the comment at macos.py:211-212 knows), and where a system names a channel
  without its band, 6 GHz is never told.
* A base scenario's own `extends` is dropped.

## 4. Fairness

`FairSpec` of SyncBench has weak fairness of every thread that can run (MQTT thread, workers, boot, the orchestrator's
phases), of delivery by the broker, of reconnecting clients, and of the restart of an agent that has crashed (launchd's KeepAlive, systemd's
`Restart=on-failure`, setup-linux.sh:135). `Crash` also stands for a clean stop, which systemd does not undo: for that case `ComeHome` says what is
true once the user has started the agent again. iperf3 ends when its time is up, so `Finish` of a client is fair; a one-off server has no timeout in the code, so it is enabled
only when a client has come, so a worker may stay in it. A timeout is fair because the code waits for
it with a deadline. No fairness is assumed of `Connect`, faults or heartbeats. `Liveness` has only
uplink stations for that reason.

`FairSpec` of RunConsole: threads, event loop, browser, and the server's noticing of a closed connection. No fairness of clicks,
samples or `Swallow`. `FairSpec` of EventsStream: the event loop runs what is scheduled, and a timeout
comes; pages may leave at any time. No fairness is assumed of the chart, and of the parts of `MCTools` no property needs any.

The board needs no fairness: its properties bound the response by seconds, and `Tick` waits for what is due. That a second
is enough for delivery is an assumption of the model; a slower platform call is the mishap "lag".

## 5. What is proved

Every invariant and every action property of the passing runs is a theorem, and both refinements are (`NobodyLeftArmedApart` is `NobodyLeftArmed` in behaviours that keep its theorem's
hypotheses); what is left to the runs is what needs fairness. Each theorem is
about all values of the constants: sets of any size, any number of runs, any budget of faults. What is assumed of constants are the
`ASSUME`s of the modules, which the runs evaluate, and the hypotheses named below. A hypothesis says that a kind of fault does not occur, that
one orchestrator is open at a time (`NobodyStaysArmed`), or, for `ArmedHasConfig` and `OwnTraffic`, that there is one run; section 3 says what happens without it.

### The core: SyncBenchProofs, RefinementProofs

* `TypeCorrect` (`TypeOK`, a part of `IInv`), `EvidenceAndStarts` (`IInv`).
* `VerdictIsSound` (`VerdictSound`). It is not inductive: it speaks of stored results, and a result is stored when a report arrives. The
  strengthening `CompleteIsMeasured` adds that a report "complete" on its way stands for a measurement. A worker
  publishes "complete" for the run it was started for in the same step as `measured` grows; `OnResult` compares the run of the topic.
* `BarrierHolds` (`Barrier`). The strengthening `StartsAreStarted` follows a `start_at` from the publish
  through `outbox` and `inbox` into the worker and on to `measured`: each belongs to a run in `started`, and a run in `started` has
  all its acks, which are never taken back.
* `ArmedIsConfigured` (`ArmedHasConfig`), if there is one run, with any number of agents and threads and under every fault, duplicated broadcasts, reconnects and
  restarts included: the second run is what `StaleWorker` is about. `PrepareOnce`: in no queue does a prepare come after another command, and while
  one may still come no agent has a thread. `ArmedOnce`: an agent with a thread hears no prepare any more and is not between PREPARING and ARMED,
  and a thread past its sleep has said RUNNING. So the thread that clears the configuration belongs to an agent that will not be ARMED again.
* `TrafficIsOwn` (`OwnTraffic`), if there is one run and `Faults["dup"] = 0`, under every other fault. `StartedOnce`: the one `start_at` waits in an outbox,
  or before the agent, or has become its only thread, and that thread has the configuration of its run before it (`Own`). With `ArmedOnce` nobody
  sets or clears it while that thread sleeps.
* `NobodyStaysArmed` (`NobodyLeftArmed`), if `MaxActive = 1`, `Faults["link"] = 0` and `Faults["interrupt"] = 0`: for any number of runs one after the other, with
  duplicates, crashes and failing spawns. Nothing in the code keeps a second orchestrator from opening, so `MaxActive = 1` says how it is used.
  `PhasesOpen` relates a run's phase and its being open, and `OneAtATime` that there is at most one open; `TornDown`: when no run is between its prepare and its end, the last command in an agent's inbox is a
  teardown, or the inbox is empty and the agent at rest; `SessionHeld`: the open orchestrator has the session, so its teardown is
  delivered. `LastOfTail` is what makes it survive a delivery, `RestStays` that threads, boot and restarts leave an agent at rest.

The first three items need no hypothesis, in particular none on `MaxActive`. Each proof has a step per action, and under it one per part the action can disturb; lemmas about appending to
and taking from sequences of commands carry the message part.

`Refinement`: `Spec => ImplementsPromise`. The mapping is `launched <- started`,
`verdict <-` the outcome of the run once its phase is in `Ended`. It uses `IInv` and one more invariant, that a run's phase and its
membership in `started` match (`PhaseMatches`): a run is launched when it goes from *preparing* to *armed*, so it is not launched twice
and not before. Every step is a `Launch`, `Measure`, `DeclareOk`, `DeclareFailed`, or a stutter. That results of an ended run do not change
(`OnResult` has the guard because `_collect_results` has copied them) is what keeps a verdict from changing.

### The run console: RunConsoleProofs

* `ConsoleTyped` (`TypeOK`) and `EventsHandledOnce` (`HandledOnce`), under every mishap. `ConsoleInv`: only the run the page subscribed to last has a stream (`Followed`);
  handled, on the wire and queued are together no more of an event than was emitted (`NoneTwice`); the last event of a run ends the stream (`EndsOnce`).
* `NothingIsLost` (`NothingLost`), if `Mishaps["drop"] = 0`: with double clicks, slow answers, a broker that is down and runs that raise. `Unbroken` adds to the property that the
  stream that is followed has no orphan, the one thing that could take an event from it.
* `BadgeAlwaysGoesOn` (`BadgeGoesOn`, an action property), if `Mishaps["double"] = 0`, also with broken streams. `OneAtATime`: the page waits for one POST or follows a run.
  `InOrder`: the badge, the wire, the queue and what the thread has still to emit follow each other in the order of the phases.
* `QueuesAreReleased` (`QueuesReleased`), if `Mishaps["double"] = 0` and `Mishaps["slow"] = 0`, also with broken streams. `InHand`: a registered queue is one whose
  POST is under way or whose run the page follows, and a terminal event on the wire means it is no longer registered.

`FeedRefinement`: `Spec => ImplementsFeed`, under every mishap. What is untold of a run is its queue and, if the page follows it, the wire before it and the terminal
event behind which the wire is closed; how far a run is follows from where its thread is, and a connection has broken when the budget of
`drop` is no longer whole. It uses two parts of `ConsoleInv` (`Followed`, `EndsOnce`) and `FeedInv`: until a connection has broken no generator but the page's own
takes from the run it follows (`Whole`), and a run has told something exactly from its start on (`Spoken`). The steps of a thread map to `Advance`, `Sample` and `Fail`,
`Subscribe` to `Follow`, a refused POST to `Refuse`, `Handle` to `Hear`, `Swallow` to `Lose` and `Drop` to `Break`; clicks, routes and `Send` stutter, as an
event on the wire is still untold.

### Board, guard and page: BoardProofs, PageProofs

* `BoardAndPageTyped` (`TypeOK`), `HeartbeatsRepair` (`CaughtUp`) and `GuardAlwaysActs` (`GuardActs`), under every mishap. `Settling` says what one
  calm second leaves: no status and no will is on its way any more, and the heartbeat being composed tells the state. `Met` says that an agent that has ever started has a retained status, so that an inspector that
  starts again hears of it. `Guarded` bounds the wait of a device that is gone: for the next list, and then for its timer; together they are
  `Patience`.
* `TheGoneAreShown` (`GoneIsShown`), under every mishap as well. `Fresh`: an entry that is not hearsay is never younger than the last sign of life, as statuses do not touch
  `last_seen` of an entry that is known, and a heartbeat on its way is of an agent that is not silent.
* `GuardIsPatient` (`GuardPatient`, an action property), under every mishap, as the property itself ends with the first restart of the inspector or lost `/events` (`EventsKept`). `Spared`: until
  then a device that is back for a second has no timer that runs, or one that has just been set. Budgets never grow (`Budget`), so what is kept now was kept before.
* `OnePageMissesNothing` (`NoMissedUpdate`): a page that is alone misses no update. `Linked`: what the generator has listed is current as long as the event is unset and
  no call to set it is owed. With two pages this fails because another one clears the event; what is left then, that every page catches up, is checked by `Page`.
* The chart: `ChartKeepsItsSlots` and `PageTyped` (`PageTypeOK`), `SamplesAreDrawnInOrder` (`DrawnInOrder`), `NothingTicksAtRest` (`TimersAtRest`), `DoneDrawsWhatFits`
  (`DrawnWhenDone`, an action property). `Handled`: unless a timer was late, the only interval is the live run's and the page has its handle. `Upcoming`: what waits in a queue
  are the last samples that came. `Accounted`: each slot behind the metronome has taken a sample or counts as a gap. Both orders hold for a chart that waits for its
  run or follows its first one (`UnderWay`); `Ordered` goes on after its end unless a late timer or a second run has come in between (`Disturbed`).

### The parts that stand by themselves

* `SyncAgentsProofs`, for any finite inventory: `CommandTyped` (`SyncTypeOK`, the part of `SyncInv` about types), `RestartedWhole` (`NoHalfRestart`) and `ExitTellsTruth`
  (`ExitHonest`). `SyncInv` says what a thread has done for its node by the place it is at (`Along`: directories before the one at hand are
  copied, after the last all are, before the restart the dependencies too), that this stays true of the node once the thread is gone (`Kept`, which is where a later
  crash comes in: the tree on disk is the one that is loaded), that only selected nodes have threads and results (`Staffed`), and what
  the exit status says of the results (`Concluded`: as many good results as nodes selected are the results of these nodes, by the cardinality of finite sets).
* `PartsProofs`, one component after the other. `NothingUnsubscribed` (`AllSubscribed`), by `Covered`: every pattern of the dictionary
  is at the broker, or about to be requested by the main thread, or in the snapshot of the answer under way. `BeginsOnTarget`
  (`StartsOnTarget`), from `StartAssumption` (a sleep overshoots by no more than the busy wait), by `OnCourse`, which says for each phase of `sleep_until`
  which moment it is heading for on the wall clock. `BandsAreTrue` (`BandWasTrue`), from `ChannelsAssumption` (which channels a band has), by `LinkInv`: what is cached, or about
  to be, was true of a place since it was read. `ReadingsTyped` (`ApTypeOK`), `CountedOnce` (`NothingCountedTwice`), `SharesBounded` (`ShareBounded`). `Account`: what is
  written, what the readings under way would add, and what has come on top since are no more than was used; it survives a restarted counter because
  a negative difference counts as zero. `Pace`: a counter grows by no more than real time since it was read.
  `MergesByPath` (`MergedByPath`), from `LoaderAssumption` (no scalar is one of the words for what is none). `_deep_merge` goes two levels deep, so its recursive function is
  given outright (`Deep`), shown to solve the recursive equation (`MergeExists`) and to be its only solution (`OneMerge`); then the two lengths of paths are two lemmas.
* `FiguresProofs`, the numbers. `Computed` says of which stations report, command line and page have computed their index.
  `IndexIsBounded` (`IndexBounded`), from `ReporterAssumption` (finitely many stations, means whole numbers): the upper bound is the inequality of Cauchy and Schwarz for sums over
  a finite set, the lower one that the square of a sum of natural numbers is no less than the sum of their squares, and for command line and page that leaving out zeros changes neither sum.
  `FiguresAreFaithful` (`FiguresFaithful`), from `IperfAssumption` (durations and numbers of streams are positive, rates and retransmissions whole). `IperfInv`: the printed lines are
  those of the seconds, streams and directions so far, and of what is left over (`Position`, `Counted`), the samples are these lines, in pairs with `--bidir`, with equal sums (`Paired`), and the result is what
  `_compute_stats` makes of them (`Concluded`). `PercentileIsNear` (`PercentileNear`), by `Rated` (every sample's rate is a number) and what the k-th of n sorted numbers leaves above itself.

Sums, minima and sorted numbers of any size are an induction over data, for which the library's theorems take an operator as a parameter the provers cannot
instantiate. `NatBySteps` and `SubsetsBySteps` state it for a *set* instead, of numbers or of subsets, closed under one step, and are proved by a least
counterexample. That the fold of a sum exists and does not depend on the order (`FoldExists`, `AnyFirst`) and what a sum over a set adds up to follow from them.

### Only model-checked

* Liveness, `RunsEnd`, `ComeHome`, `StartComesBack` and `PagesCatchUp`: the provers know no fairness and no ENABLED.
* The four runs that expect a violation, which are counterexamples.

## 6. What is not modelled, and simplifications

* Sleeps and timeouts of the core are steps that may happen at any time in their phase; nothing there depends on lengths of time. So a
  timeout may come early. The clocks of `sleep_until` are compared in `PreciseStart`, on its own.
* The broker does not crash. A report that finds no controller is lost, which is what a clean session does.
* A run's live samples are left out of the core; they are in RunConsole and RunChart.
* A port is an index; a client that dials a port of a station connects if any worker listens there, whichever run it is for, as in the code.
* Writes to InfluxDB are best effort inside `try` and never read back by the run.
* iperf3's datagram lines with jitter and loss: the same loop with another expression. Regular expressions are modelled by the lines they match.
* The parsers around operating system commands (signal, SSID, addresses, NTP offsets), the pydantic models, queries and Markdown of the report, the write
  of live samples, the routes that only read, the setup scripts that run once on one machine, Grafana and Docker: they have no state of
  their own and no order of steps that matters, or are configuration.
* In `SyncAgents` a file that is copied halfway is an old one, and the directories of a tree are a sequence: nothing tells more of them apart.
* In `ApCollector` time has the grain of a tick, and a busy station uses all of it; in `PreciseStart` the busy wait ends in the tick it should.

## 7. What could follow

* `ArmedHasConfig` and `NobodyLeftArmed` of several runs with links that break, under a bound on how late a worker ends: the core has no lengths of time.
* Composing `MqttBus` with the orchestrator, so that a dead network thread shows as a run that times out; and `PreciseStart` with the agents, so that the
  spread of the starts over stations is a property of a run.
* Datagram lines in `Iperf3Runner`.
