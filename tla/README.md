# SNISpoofer: TLA+ specifications, model checking and proofs

SNISpoofer is a Windows client in Python.  It runs `xray` as a local proxy and, for
configurations behind a filtered CDN, puts a *spoofer* in front of the network: a local
TCP forwarder that lets a WinDivert packet hook slip a decoy TLS ClientHello into every
connection before the real one.  Around it is a Qt window with
its own restart machine, lists, forms, scanners and measurements.  This directory holds
the specifications of the stateful parts of both, the TLC runs that check them and the TLAPS
proofs about them.
Paths such as `core/engine.py:1146` are relative to the repository's root.

## 1. Inventory

| Part | State | Operations | Correct when | Module |
|---|---|---|---|---|
| **Engine** `core/engine.py` | status, `_start_epoch`, handles `_xray`, `_proxy`, `_system_proxy`, `conn_manager` | `start`, `stop`, `_do_start`, self-test and demotion, listener callback | green only over a live, current session; stop leaves nothing; CONNECTING ends | `EngineLifecycle`, `EngineStatus` |
| **xray handle** `core/xray_manager.py` | `_process` | `start` (ports, Popen, settle), `stop` | no process without a handle | `EngineLifecycle` |
| **OS proxy** `core/system_proxy.py` | three registry values | `enable`, `disable` | undone by stop | `EngineLifecycle` |
| **Spoofer server** `main.py` | listener thread, `_running`, `_ready_event`, route, gate, `_fake_connections`, byte counters | `start`, `stop`, `_serve`, `_handle`, `_relay_pair`, `apply_route` | start() never hangs; each client gets its decoy first; permits and pairs balance | `EngineLifecycle`, `FakeInjection`, `RoutePool` |
| **Packet hook** `fake_tcp.py`, `injecter.py`, `monitor_connection.py`, `strategies/` | per connection: `monitor`, sequence numbers, `sch_fake_sent`, `fake_sent`, `t2a_msg`, `t2a_event` | `inject`, `on_outbound_packet`, `on_inbound_packet`, `fake_send_thread` | one decoy, one verdict, nothing left registered | `FakeInjection` |
| **Route pool** `core/pool.py` | `PairStats`, explorer queue, active and draining sets, failure tracker | probes, `report_failure`/`report_success`, `refresh`, `find_better_route` | verdicts match counters; the active set keeps its slots and sheds its dead | `RoutePool` |
| **Promoter** `core/engine.py` `_run_promoter` | current route and its health | look, judge, search, `apply_route` | swaps only a broken route, for a proved one | `RoutePool` |
| **Bypass choice** `core/engine.py`, `core/prober.py`, `core/strategies_remote.py`, `core/resilience.py` | the engine's one `_prober`, the chain, its place, counters of forged resets and samples | choose, probe, adopt a list, `on_rst`, `on_throughput`, rotate | rotates for its own evidence only, through everything, never past it | `BypassChoice` |
| **Measurements** `core/engine.py` `measure_profile_*` | throwaway cores and spoofers, `_MEASURE_START_LOCK`, one `xray_config.json` | start, ask, retry, clean up | cores keep apart; nothing is left; every measurement ends | `MeasureCores` |
| **Restart machine** `ui/window.py`, `ui/engine_bridge.py` | `_restarting`, `_restart_gen`, timers, posted statuses | power button, profile or strategy change, `_dispatch_status`, `_restart_resolve` | a restart resolves; Stop is final; the mask is steady | `RestartWindow` |
| **Profile list** `core/config_store.py`, `ui/window.py` | profiles, selection, ticks, rows, queue of measurements, `profiles.json` | add, delete, edit, activate, tick, measure, load | numbers follow their objects; results find their row | `ProfileList` |
| **Settings** `core/config_store.py`, `ui/window.py` | configuration, `config.json`, two forms, badge, list of pairs, the engine's copy | edit, save, import, clear, choose | the copies agree | `SettingsForm` |
| **Pair sweep** `core/pool.py` `SniIpScanner`, `ui/window.py` | jobs, verdicts, batches, table and hidden rows | start, stop, collect, filter, deliver | the table says what was found; stop is prompt | `SniScan` |
| **Clean-IP scan** `core/cf_scanner.py`, `core/cf_xray_validator.py`, `ui/scanner_page.py` | probes, results, budget of phase 2, signals, rows | scan, stop, validate, tick, add | the page comes free; rows say what was so | `CleanIpScan` |
| **Fragmenter** `core/fragment.py` | none | plan, split | fragments rebuild the record | none |

The rest (log buffer, profiles and share links, `xray` JSON, diagnostics, privileges, widgets,
themes, archived `legacy/`) is I/O, parsing or presentation and stays out.

How they interact: the GUI thread calls `start()`/`stop()` of the one `EngineController`;
`start()` spawns a worker thread that builds the session in the order pool, listener, xray,
commit, OS proxy, self-test.  The listener thread runs an asyncio loop with one `_handle`
task per client; it reports its status to the engine by a callback and each connection's
outcome to the pool.  The WinDivert thread sees every packet of the peer the filter names and
talks to `_handle` through the shared `FakeInjectiveConnection`.  The pool's health loop and
the promoter are threads of the session.  Engine statuses, scan results and measurements
reach the window as queued Qt signals; the window's pages share the configuration store.

Hard behaviours: `stop()` during any step of a worker that holds no lock; several workers
alive at once after quick clicks; handles that are fields shared by all sessions; packets
lost, repeated, forged; the handshake's timeout against its late answer; a port reused
while an old handler still holds its number; task cancellation at shutdown; statistics that
three kinds of threads write; queued signals that arrive after what they are about has moved,
changed or gone; workers with half a dozen exits; files written in place.

## 2. Plan

The order in which the modules were written, the composition first where one exists:

1. `EngineStatus` (the abstract engine: what the window can see of it) and
   `EngineLifecycle` (the code), which implements it; checked through `MCEngine`, proved in
   `EngineLifecycleProofs` and `PatientProofs`.
2. `DecoyGate` (the abstract promise) and `FakeInjection` (the code), which implements it;
   checked through `MCInjection`, proved in `InjectionProofs`.
3. `RoutePool`: pool, health loop, promoter and the connections that report to them, in one
   module because they share the statistics; `MCPool`, `PoolProofs`.
4. The window and what it drives: `RestartWindow` (above `EngineStatus`), `ProfileList`, `SettingsForm`, `SniScan`,
   `CleanIpScan`, `MeasureCores`, `BypassChoice`.  They share no state, so `MCDesk` checks
   them side by side (section 6); proofs in `WindowProofs`, `ListProofs` and `ScanProofs`,
   the settings, the measurements, the bypass method and the desk itself in `DeskProofs`.
   `MCClean` is the clean-IP scan alone.  `Picking` holds what the list and the chain share:
   the elements of a list at some of its indexes, in the list's order.

Left: the pools of two sessions side by side (a superseded worker's health loop).

## 3. EngineLifecycle and EngineStatus

**State.** The engine's own fields (`status`, `epoch`, the four handles); what exists in the
operating system whether or not a handle names it (`procs`, `listener`, `poolUp`, `osProxy`);
a program counter per thread (`Ui`, `Starter(s)`, `Tester(s)`); and the locals of each
thread.  An object is named by the start that created it, so that "the field holds somebody
else's object" is a plain inequality.  `cancelled` and `owner` are history variables.

**Actions.** One per step between which other threads can run.  Sections under
`EngineController._lock` are one action: the claim of `UiStart`, the claim of `stop()`
(`StopClaim`), `Commit`, `Demote`.  Everything else of `stop()` is seven further actions
that any thread may be in: the GUI, a worker whose launch failed, a self-test that demotes.
The worker is `Route`, `BuildPool`, `NewProxy`, `StartProxy`, `AwaitProxy`, `NewXray`,
`LaunchXray`, `SpawnXray`, `SettleXray`, `VerifyXray`, `Commit`, the three `Drop*` of a
superseded worker, and the three of the OS proxy.  `self._xray.start()` is split at the
point where the field has been read, because a `stop()` may take it afterwards.
Exceptions (`Raise`) are what an attribute access on a handle already set to `None` gives,
or a failing import or constructor; they end in `_start_blocking`.

**The abstract engine.**  `EngineStatus` has the status light, the epoch, the epoch each session
was started with, and per session its *deed*: how far its worker, and after it its self-test,
is from the next write to either (`building`, `testing`, `demoting`, `stopping`, ...).  Handles,
processes, the pool, the listener and the steps of a teardown are out of sight.  What its
threads write to the light is `Tells`; what they do in silence is `Silent`.  `Deed` maps each
program counter of `EngineLifecycle` to a deed, and `ShowsItsStatus` is the refinement: all
of `stop()`'s seven actions, for instance, become the claim and the end on idle, with stutters
between them.  So what the window is shown to do above `EngineStatus` it does above the engine.

**Constants** pick the environment: `Patient` (the user waits for all threads to rest),
`HasPool`, `SystemProxyOn`, `BinaryMissing`, `SlowListener` (slower than the 10 s wait),
`ListenerCrash`.  The only bound is `MaxStops`; the number of starts is the set `Starts`.

**Left out.** The live-usage poller and the connection counters (display only), the promoter
(section 5), the best-route default and the port fallback (data), an xray process that dies
after the commit (no code looks at it), the ends of `disable()` and `enable()` that fail
half-way through the registry.

## 4. FakeInjection and DecoyGate

`DecoyGate` is what the spoofer promises for each client: at most one decoy, and the client's
own bytes only after it.  `FakeInjection` is `_handle`, the hook and the decoy thread.

**State.** The server's route, gate and accept loop; per connection the place in `_handle`,
the socket as the system sees it, `id` (the local port and the remote address; the other two
ends are constant), and the fields of `FakeInjectiveConnection`; `table` is
`_fake_connections`; `captured` is WinDivert's queue in order, `inbound` the packets on their
way from the peer, a set, so that any packet may overtake another or never arrive.

**Packets.** A packet is the connection whose sequence numbers it carries and a kind.  The
hook's arithmetic (`syn_seq + 1 = seq_num` modulo 2^32) compares numbers of one connection:
two connections' initial numbers are taken to be different, so that "the numbers match" is
`syn_seq[c] = p.conn`.  Which connection the hook *looks up* is decided by the addresses
(`WatcherOf`), as in the code, so a packet of an old connection on a reused port meets the
new connection's monitor and is judged unexpected there.

**Actions.** `Accept` (gate, snapshot, bind, register, SYN), `Connected`, `ConnectFails`,
`Confirmed`, `GivesUp`, `RelayEnds`, `CancelConnecting` for `_handle`; `InjectOutbound` and
`InjectInbound` for the hook, with the verdicts of `on_outbound_packet` and
`on_inbound_packet`; `FakerWakes` and `FakerSends` for the decoy thread, which holds
`thread_lock` between the two (`Unlocked` makes the hook wait); `ApplyRoute`, `Shutdown`.
A timeout needs no clock: `ConnectFails` and `GivesUp` are always possible, so every order of
a timeout and a late answer is explored.  The peer, the network and the system's TCP are
external: SYN retransmission, repeated inbound packets (an answered SYN-ACK makes the system
acknowledge again), forged resets, stray ACKs, and port reuse once no live or TIME_WAIT
socket has the port.

**Left out.** The fire-and-forget branch of `_handle`: every strategy in
`strategies/__init__.py` expects the ACK.  Byte counters and the pool's score (section 5).
The client's socket, which is closed with the outgoing one.  Data segments of the relay: the
hook no longer watches the connection.  `call_soon_threadsafe` on a closed loop.

## 5. RoutePool

**State.** One `PairStats` record per (IP, SNI) pair, the explorer's keys and unexplored
queue, the active and the draining set, the place of the health loop and the probes each of
its threads still owes, the tracker's failures per IP, the listener's route and the pair it
scores, the connections, the promoter's three locals.  Rates are exact fractions compared by
cross multiplication.  The order of the shuffled queue and the failure window's clock are
nondeterministic (`Explore`, `FailureAges`).

**Actions.** The health loop: `InitialExplore`, `Initialize`, `Verify`, `Explore`,
`RefreshAfterCycle`, `HealthEnds`, and `ProbeLands` for each probe that returns.  The event
loop: `Accept`, `RelayBegins`, `Download`, `ConnectionEnds`, `ConnectionCut`, then
`ReportFailure` or `ReportSuccess`.  The engine's worker: `EnsurePair`, `StopPool`.  The
promoter: `PromoterLooks`, `PromoterJudges`, `PromoterSearches`, `PromoterEnds`, with other
threads between its reads.  `Refresh` is `ActivePool.refresh` as a whole, which both the
health loop and the event loop call.

**What the model shows about the code.** The promoter demands a pair proven by the traffic of
real connections, only the listener's own pair carries traffic, and only a swap could make
another pair the listener's: `RouteStays`, so the emergency swap that `core/engine.py:1488`
describes, and `_save_best_result` (`core/engine.py:1435`), which runs only after a swap, are
never reached.  `initialize()` may take a pair that still drains: the next refresh clears its
`in_active_pool` (`core/pool.py:824`) and leaves it in the set, so `ActiveSetSound` speaks of
the set and not of the mark.  A success is booked from a difference of counters that all relays share
(`main.py:536`), so one connection's download can make another's failure a success;
`SuccessNeedsDownload` is what does hold.

**Left out.** `pick_pair` and `lookup_pair`, which nothing calls; latencies.

## 6. The desk: window, lists, forms, scanners, measurements, bypass

Seven modules that share no variable.  `MCDesk` holds them in one state space with a
variable `scenario` chosen at the start: only the scenario's module moves, so the numbers of
states add up instead of multiplying, and one run checks all seven.

* **RestartWindow.** `ui/window.py`'s restart machine above `EngineStatus`.  What a worker writes
  to the light it posts in the same step (`WorkersTell`; the code calls the signal's `emit`
  inside `_set_status`), and the queue `inbox` meets whatever the window is doing at
  `DeliverStatus`; a status emitted from the GUI thread is immediate.  A handler that stops the
  engine holds the GUI thread (`gui`) from the claim to `StopReturns` while the workers go on,
  and `plan` is what it does next: nothing, `start()`, or `start()` and the poll of the restart.
  Sessions are alike until they are started, so the next one is any that is left
  (`NextSession`).  `Resolve(g)` is the poll of restart generation `g`; its caps are `ResolveCap`
  and `SettleCap`.  `_restart_when_idle` may poll for 12 s; by `StopIsFinal` it never needs to.
  A stale "active" in the queue ends the mask early (`ui/window.py:4003`): a worker goes green,
  the user picks another profile before the signal is delivered, and the delivery, after the
  new `start()`, shows green over a connecting engine, although "stale signals can't fool us"
  (`ui/window.py:3955`).  That is why `MaskSteady` says "while restarting" and no more.
* **ProfileList.** `ConfigStore`'s profiles and `ProfilesPage`.  Ticks, rows and the selection
  are indexes; measurements and the tunnel hold objects.  `Refresh` ends every change.
  `Restart` loads the file, or `Torn`, what an end in the middle of an in-place write leaves, and
  hands the engine what was selected (`ui/window.py:3678`).  A write of `profiles.json` that
  fails while the program goes on (`core/config_store.py:436`) is left out: the list reads its
  file at a restart only.
  A deletion or an import while the engine is CONNECTING restarts it needlessly (the selected
  profile is handed over again); the restart itself is in `RestartWindow`.
* **SettingsForm.** The configuration, its file, the two forms, the badge, the list of saved
  pairs and the engine's copy; one handler is one step, and each ends by refreshing the copies
  the code refreshes.  Unsaved edits of the settings page are lost when the pool page changes
  the pairs (`WritePairs`); the model has that, and `edited` says which fields may differ.
  A field without a connect IP shows the first one saved for the SNI (`Filled`,
  `ui/window.py:761`), so form and settings differ without an edit, and the next save of the
  form writes an address the user never entered; `CopiesAgree` allows that difference and no
  other.  "First" is any of them here, since pairs are a set.  A write of `config.json` that fails is
  passed over (`SaveConfig`, `core/config_store.py:436`): settings, pages and engine go on with
  the new values and the file is old or torn.  `kept` says whether the last write succeeded; if
  not, the next start reads the defaults or one of `OldFiles`, and `CopiesAgree` holds of what
  was read.  It does not say that the file has the settings, which is false then.
  Outside are the fields beside these, which are loaded and saved as they are, and what a
  `config.json` edited by hand may hold (`scan_workers` out of its range is clamped, an unknown
  mode leaves the box as it was).
* **SniScan.** `SniIpScanner`, its thread and the table.  Probe threads may hang.  A filter that
  hides rows during a sweep makes verdicts meet no row (`ui/window.py:3165`); the row comes
  back as pending.  A thread that cannot be started makes `run()` raise, and the page hears
  "finished" with no verdict (`SweepFails`, `ui/window.py:2289`).  `VerdictsShown` excludes the
  first (`hid`), and after the second (`broke`) it does not ask for every verdict.  A stop before `run()` has
  made the scanner is lost (`ui/window.py:2273`, `AskStop`).
* **CleanIpScan.** Both phases, the six exits of the worker and the page.  The verdict of phase 2
  goes to the configuration's own port, whatever port the hit was on (`ValidatedAt`).
* **MeasureCores.** Up to all threads at once, each with its lock, spoofer, core, retry and
  `cleanup()`; every launch writes the one `xray_config.json`, the live tunnel's without the
  lock.  A spoofer that is slow is left behind (`core/engine.py:574`), the one exception of
  `MeasureLeavesNothing`; `cdn-cgi/trace`, the edge's own page, is among the bodies that count
  as verified (`Good`).  Two assumptions about the system: a core reads its file within
  `xray.start()`'s pause, and the system does not hand out a free port twice in a row.
* **BypassChoice.** The engine's one `_prober`, written by the starting thread and by every
  measurement of a spoof profile, and never cleared, so Diagnostics can show a method that is
  not the session's; the chain built from it; the controller.  `main.py` is given the
  controller and calls neither handler, so `OnRst`, `OnThroughput` and `NewFlow` are driven as
  the tests drive them.  The updater is new for each choice (`Held`), so "never an older
  list" holds within one choice.  A run of the prober is one step; latencies are any order.
  `RotationEarned` says what was tried in terms of the chain and the IPs; a session without an
  IP chain has one, the IP in use.

## 7. Runs

| Run | Instance | Shows |
|---|---|---|
| `engine_any` | 2 starts, 1 stop by the user, binary missing or not, slow or crashing listener, any interleaving | types; `GreenHasOwner`; `NeverGreenAfterStop`; `ShowsItsStatus` (refinement) |
| `engine_live` | the same without listener faults, fair threads | `ConnectingResolves` |
| `engine_patient` | 3 starts, 3 stops, all three chains, pool and OS proxy, a user who waits | `OffMeansClean`, `GreenOwnsChain` |
| `engine_superseded` | 2 starts, direct tunnel | counterexample to `TearsDownOnlyItsOwn` |
| `engine_orphan` | 1 start, 1 stop | counterexample to `NothingOrphaned` |
| `engine_os_proxy_race` | 1 start, 1 stop, OS proxy on | counterexample to `BrowserFreedByStop` |
| `engine_no_xray` | 1 start, no binary | counterexample to `OsProxyHasXray` |
| `injection` | 2 connections, 1 port, 2 addresses, 2 permits, swaps, 1 repeated packet | types, `NothingLeftRegistered`, `PermitsBalance`, `KeepsPromise` (refinement), `NoSecondDecoy`, `VerdictFinal` |
| `injection_swap` | 1 connection, 2 addresses | counterexample to `SwapKeepsWatch` |
| `pool` | 3 pairs on 2 addresses, the primary outside the combinations, 2 connections, 1 slot, 2 cycles, 1 chunk | types, `AliveIsJudged`, `ConnectionsBalanced`, `ActiveSetSound`, `RouteStays`, `DrainedBeforeReuse`, `SuccessNeedsDownload` |
| `desk` | seven scenarios, see below | types and the nineteen properties of section 6's modules |
| `clean_port` | 1 IP, 2 ports, 1 scan | counterexample to `MadeOnCleanPort` |

The scenarios of `desk`:

| Scenario | Instance | Properties |
|---|---|---|
| `window` | 2 sessions, 3 clicks, polls capped at 2 | `StopIsFinal`, `MaskSteady`, `MaskResolves` |
| `list` | 3 profile objects, 2 endpoints (so two may be equal), 1 measurement at a time | `TicksFollowObjects`, `TunnelFollows`, `RowsTell`, `SelectionFollows`, `MeasurementsEnd` |
| `settings` | 1 SNI and 1 address beside none, 1 pair in the defaults, 1 file of an earlier run, 2 edits between two saves | `CopiesAgree` |
| `sweep` | 2 pairs, 1 probe thread, 2 pairs sought in all | `VerdictsShown`, `NoRowDestroyed`, `StopIsPrompt` |
| `scan` | 1 IP, 2 ports, 2 threads, 2 tries, 2 scans, phase 2 on | `BusyTellsScan`, `RowsHonest`, `ScanEnds` |
| `measure` | an ordinary and a spoof profile, the live tunnel beside them | `ProbesKeepApart`, `MeasureLeavesNothing`, `MeasureEnds` |
| `bypass` | 2 strategies, 2 IPs, 2 mirrors, budgets of 2 | `RotationEarned` |

Why the bounds are enough.  Interference between sessions needs two: an old worker and a
newer session; demotions and failing workers add `stop()` calls beyond the user's one, so
stops nest.  Three patient sessions show that the second leaves the third a clean engine.
In `injection` one port and two connections force the reuse of the port, and the second
connection takes it while the first handler, its decoy thread and its packets are still
there; one repetition is what a second final ACK or a repeated SYN-ACK needs.  In `pool` one
slot and three pairs force demotions and draining, two connections let one download while
the other dies, and with thresholds of one a single bad answer has its effect; two cycles
let a demoted pair come back.  In `desk` three clicks make a restart, its cancellation and
a further start; one SNI with and without a saved address, and an address field with and
without text, are all the cases of the filled-in IP, and two edits are a form whose two pages
are both unsaved (`MaxEdits`); three objects are a selection with a neighbour on each side; one measurement
at a time and three objects make a queue; one pair sought after another is a second sweep
over what the first left; two scans are one that meets the remains of another; one ordinary
and one spoof thread contend for the lock with and without a retry.  The theorems of section
9 remove the bounds for all but the properties listed at its end.

Deadlock is not checked: once the user has used up the starts, stops, clicks or scans, or
every connection has ended, the modelled part of the system really stops.

Symmetry: starts, and connections, are interchangeable; it is used in safety runs only.

**Fairness.**  All weak, and only for what the program or the system runs by itself.

* `engine_live`: each worker, each thread inside `stop()`, the self-test and a listener that
  is coming up.  They are operating-system threads, and each blocking call in them has a
  timeout (ready event 10 s, join 5 s, process wait 5 s, HTTP 12 s).  None for the user, for
  crashes, or for a listener's unwinding after a close.
* `window`: Qt delivers queued signals and fires single-shot timers, and `stop()` and `start()`
  return to the GUI thread (each join and wait in them has a timeout).  None for the engine's
  threads: `MaskResolves` holds even if a worker never answers.
* `list`: each measurement has a deadline and its signal is delivered.
* `sweep`: the sweep's own thread begins and ends, and its signals are delivered; a probe may
  hang for good, which is the point of `StopIsPrompt`.
* `scan`: the worker, the probe pool and the delivery; each probe and each validation has a
  timeout.
* `measure`: some thread that can step does (the lock, the spoofer's and the core's waits and the
  requests are all bounded), and a launched process reads its file or ends.

The other safety runs, `injection` and `pool` among them, state no fairness.

## 8. What the violation runs found

* **A superseded worker stops the newer session** (`engine_superseded`): the teardown after a
  failed commit reads the shared field again.  `core/engine.py:1609` promises "Tear our own
  xray down and bail; the newer start owns the session now".
* **A stop during the launch orphans xray** (`engine_orphan`): `stop()` takes the manager
  before `Popen`, has no process to end, and nobody holds the manager afterwards.
  `ui/window.py:4744`: "Stop the engine cleanly so no subprocess / thread is orphaned".
* **A stop during the OS proxy's activation leaves it on** (`engine_os_proxy_race`): the
  handle is stored after `enable()`.  `core/engine.py:2154`: "restore the OS proxy first so
  the browser stops pointing at a dead port".
* **A spoof chain without xray.exe goes green and takes the OS proxy** (`engine_no_xray`).
  `core/engine.py:1967`: "System-proxy mode only makes sense when xray-core is in the chain".
* **A route swapped to another address is not spoofed** (`injection_swap`): WinDivert's filter
  keeps the first address, so each later connection waits for a decoy that is never sent and
  is dropped.  `main.py:183`: "so the swap never disconnects the user".  Today's program does
  not get there: the promoter alone calls `apply_route`, and never does (`RouteStays`, section 5).
* **A configuration made from a clean IP dials another port** (`clean_port`): the copy keeps the
  profile's port and only its name has the row's.  `ui/scanner_page.py:1047`: "one config per
  clean IP, on its best port".

The two patient-user invariants say where the first three end: a user who lets every worker
finish before the next click never meets them.

## 9. Proofs

Eight modules are checked by TLAPS with Z3, Zenon and LS4, for any sets of starts,
connections, pairs, profiles, threads and addresses and whatever the bounds' values are.  The
assumptions are the named one of each module (`EngineAssumption`, `InjectionAssumption`,
`PoolAssumption`, `WindowAssumption`, `ProfileAssumption`, `SettingsAssumption`,
`SniScanAssumption`, `CleanIpAssumption`, `MeasureAssumption`, `BypassAssumption`): `None` is
not an object, sets that are counted are finite, thresholds and caps are positive.  Every
invariant and every action property that a passing run checks is also a theorem.

*Engine.*  `TypeCorrect` needs `LiveRef` (a handle that says "running" names an existing
process) so that no process count falls below zero.  `GreenLight` and `NoLateCommit` rest on
`GInv`: a stopped worker's epoch is behind the engine's (`Epochs`), a self-test exists only
after its worker has ended (`Testers`), and a green light has its owner.  `StepKinds` reduces
the 36 actions to the few that touch epochs or the light: `UiStart`, `Commit`, `Demote`,
`StopClaim`, and the rest; `StepMoves` shows that a thread inside `stop()` leaves it only by
switching the light off.

`ImplementsStatus` is the refinement `ShowsItsStatus`.  `FInv` adds to the types `Testers` and
`Frames` (who may be where in a `stop()`, and what it was called for), without which a program
counter inside `stop()` would not tell whose deed it is.  A step of a session moves its deed
along an *arc*: one that the light shows (`Shown`), one made in silence (`Hidden`), or none at
all.  `ArcIsStep` matches arcs with the abstract actions once, so that each concrete action only
has to name its arc; the GUI thread's claim and its end of `stop()` are matched directly.

*Patient user.*  `PatientOff` and `PatientGreen` assume `Patience`: the user waits, the binary is
there, the listener is neither slow nor crashes, the constants of `engine_patient`; the number
of sessions, kinds, pools and the OS proxy's setting are free.  Without it they are false
(section 8).  `PatientInv` says that either nobody is at work and what is there is `Rest`
(everything cleared, or a `Whole` green session), or exactly one thread is (`Alone`) and its
program counter says what exists and by which handle, or by which snapshot of its `stop()`, it
can be reached (`Place`: `Builds`, `Enables`, `Tests`, `Claims`, `Stops`).  The place is needed
because neither property says anything while threads work, and a leak would be made there.

*Injection.*  `HookEffect` is the lever: whatever packet arrives, the hook changes nothing the
other threads see, schedules one decoy (`Schedules`), or judges one connection it watches
(`Judges`).  The inductive invariant is `IInv`: types, `PermitsBalance`, `Binding` (the table
names a connection only at its own id; without it a handler's `pop` could leave the entry
elsewhere), `DecoyOrder` (the order in which the three threads' flags can be set: scheduled
before sent, sent before confirmed, confirmed before relayed, judged means no longer
watched) and `NothingLeftRegistered`.  From it follow `HookTypes`, `GateBalance`, `Forgotten`,
`OneDecoy`, `OneVerdict` and `Implements`, the refinement of `DecoyGate` under the mapping
`Phase`.  `GateBalance` counts with the library's theorems on finite sets: `TypeOK` alone is
not inductive, because only the balance bounds the permits.

*Pool.*  `PoolInv` is types, `AliveIsJudged`, `RouteStays` and `OnlyPrimary` (every connection, the
scored pair and the pending report are the primary's): a swap would need a pair proven by
traffic, and traffic is the primary's alone, so neither half is inductive without the other.
`ServeInv` adds `ActiveSetBounded` and `Settled`, what is true of the active set at each place
of the health loop, with the effect of `Refresh` established once; `ConnectionsCounted` counts the
live connections of each pair; `SuccessEarned` needs `Downloaded` (what came down came
through some relay).  All seven properties of the run are theorems.

*Window.*  `WindowInv`: types, `PollsLeft` (a restart that goes on has polls left), `PlanOfClick`
(no start is to come of a click on Stop), `Superseded` (no worker's epoch is ahead of the
engine's, and once the GUI thread has called `stop()` all that still build are behind it) and
`StopIsFinal` itself, which workers and timers keep because of it.  `TellsStep` and
`SilentStep` say once what a session's threads can do to the engine.

*List.*  `ListInv` is types, `OneObject` (an id names one object, wherever it is held), `OneRow`
(and one row), `Once` (no object is queued or measured twice), `FileCurrent` (the file is what
is shown) and the three properties of the run.  None of the three is inductive without the
ids: a deletion renumbers the rows, and only the objects' names say which tick, which
selection and which measurement went where.  `Pick` is the lever.  `OrderExists` and `OrderOf`
show that any set of indexes has an increasing enumeration that leaves none of it out, so what
a deletion leaves is in the list's order and loses nothing (`PickOf`).  `SelectionKept` is the
action property, from `ListInv` and one case per change of the list.

*Settings.*  `CopiesAgree` is inductive once `Shaped` says which fields the records have: a save of
one form does not touch what decides the filled-in IP of the other (`FilledSame`), and the file
is no part of it, so a failing write disturbs nothing.  `SettingsTypes` is `Contents` and `Switches` beside it.

*Sweep.*  `NoRowDestroyed` is inductive over the re-sort.  `VerdictsShown` speaks of the end of a
sweep only; what has to hold before is `AllTold`: each verdict is not posted yet, or in a
signal on its way after which no other names its pair (`Unsaid`), or the table shows it.
`OneVerdict` (a pair is in one place: to be probed, under way, judged) keeps a later verdict from
overtaking it, `OneSaid` makes a signal speak of a pair once, `TableWhole` says that the copy
which a re-sort writes back holds nothing the table lacks, and `SweepQuiet` that a sweep that
does not run has nothing under way, and that one that is over was stopped, broke or has
every verdict, so that at its end `AllTold` leaves only the table.

*Clean-IP scan.*  `CleanInv` is `ScanType`, `MailInv`
("done" is the worker's last signal, so a free page has nothing left to hear) and `TruthInv`
(a signal or a row was true when posted and stays so until the next scan empties the table).
`Effects` reduces the worker's steps to silence, one note, or "done".  `ScanTypes` adds that no
more probes are under way than there are threads (`ProbesBounded`, counted with the library's
theorems on finite sets) and that rows and configurations are of endpoints that could be dialled.

*Measurements.*  `MeasureInv` ties what a thread holds to its place (`Holds`) and the lock's holder
to the stretch between taking and releasing it; a core that has not read its file has its
thread inside the lock, so the file is still that thread's or the live tunnel's.

*Bypass.*  `BypassInv` is types, `ChainOK` (a chain is made while there is none, and holds no
strategy twice: `FirstsOf`, the comprehension that drops repetitions), `PlaceOK` (what was in
force is exactly what lies behind the place, strategies first, then IPs) and `HeardOK` (the
counters of forged resets and of samples count no more than what was heard of the strategy in
force).  `PlaceOK` makes "what follows was not in force before" and "everything was" arithmetic
on the place; it would be false if a chain named a strategy twice, which is why `ChainOK` is
part of it.  `RotateStep` is the rotation, `RstStep` and `SampleStep` the two handlers that
lead to it.

*Desk.*  `DeskIsItsParts`: a step of the desk is a step of one part and a stutter of the other six,
so a behaviour of the desk is one of each part, with that part's fairness, and every theorem
about a part holds of it beside the others.  `DeskTypes` puts the seven invariants together.

Only model-checked: liveness, beyond the prover: `ConnectingResolves`, `MaskResolves`,
`MeasurementsEnd`, `StopIsPrompt`, `ScanEnds`, `MeasureEnds`.

ENABLED, RECURSIVE operators and the library's induction theorems, which take an operator as
a parameter, are out of reach of the installed provers.  No module declares a RECURSIVE
operator, and where a proof has to count (`ListProofs`) it goes by the least counterexample:
the subsets of a finite set have a minimal element in every collection (the library's `WFMin` and
`FS_StrictSubsetOrderingWellFounded`), from which `LeastNumber` and `OrderExists` follow.

## 10. Not modelled

* **Log buffer, alternative tunnels, share links and `xray` JSON, diagnostics, privileges,
  drawing, themes, translation**: I/O, parsing and presentation without a state of their own
  that several steps could bring into disorder.  `legacy/` and `scanner_dialog` are reached
  from no path of the window.
* **Fragmenter**: a pure function no start path reaches; `xray` does the fragmenting.
* **`ping.py`'s socket-level tester**: one call, one number, no state.
* **Signatures** of the remote list are right or wrong: Ed25519 is beyond TLC's integers.
  The shipped key is not set yet (`core/strategies_remote.py:52`).
* **Migration** of old configuration keys, and the best result per profile, which
  `RouteStays` shows is never written.
* **Choosing another profile's 🔍 during a clean-IP scan** changes the combination box under
  the running scan (`ui/scanner_page.py:551`), so the rows may become configurations of a
  profile they were not validated with; the model has one configuration.
* **Two live-usage pollers** can be alive at once after a quick restart
  (`core/engine.py:1632`); they only write counters for display.
* **A pool left over by a superseded worker**, whose health loop runs beside the next
  session's: `EngineLifecycle` has the step, `RoutePool` has one session.
* **The registry's three writes** of the OS proxy, an xray that dies after the commit, and
  `call_soon_threadsafe` on a closed loop: listed as hazards without a property.
