--------------------------- MODULE RestartWindow ---------------------------
(***************************************************************************)
(* The window's restart machine: ui/window.py above the engine, which is   *)
(* EngineStatus.  The GUI thread runs one handler at a time: a click, a    *)
(* timer, or a status signal a worker thread has posted                    *)
(* (ui/engine_bridge.py).  A signal the engine emits from the GUI thread   *)
(* itself is delivered at once.                                            *)
(*                                                                         *)
(* A handler that calls engine.stop() holds the GUI thread until it        *)
(* returns, while the engine's threads go on; plan is what the handler     *)
(* still has to do.  _restart_when_idle, which _begin_restart calls at     *)
(* once, finds the engine down at its first look (StopIsFinal), so the     *)
(* phase "stopping" lasts as long as plan = "restart", and restarting      *)
(* without it stands for the phase "starting".                             *)
(***************************************************************************)
EXTENDS EngineStatus, Integers, Sequences

CONSTANTS
  MaxClicks,     \* bound: clicks
  ResolveCap,    \* polls before _restart_resolve gives up (160)
  SettleCap      \* polls in a row on idle or error that mean failure (16)

ASSUME WindowAssumption ==
  {MaxClicks, ResolveCap, SettleCap} \subseteq Nat \ {0}

VARIABLES
  inbox,       \* statuses posted to the GUI thread
  plan,        \* what the handler that runs will do: "show" idle, "start", "restart"
  restarting,  \* MainWindow._restarting
  gen,         \* _restart_gen
  resolvers,   \* the generations with a _restart_resolve timer set
  attempts, settle,
  shown,       \* the dashboard's power button
  lastClick,   \* history: what the user clicked last
  clicks       \* history: clicks so far

machine == <<restarting, gen, resolvers, attempts, settle>>
user == <<lastClick, clicks>>
windowVars == <<face, inbox, plan, machine, shown, user>>

WindowTypeOK ==
  /\ EngineTypeOK
  /\ shown \in Status
  /\ inbox \in Seq({"idle", "active", "error"})
  /\ plan \in {"none", "show", "start", "restart"}
  /\ restarting \in BOOLEAN
  /\ gen \in Nat /\ resolvers \subseteq 1..gen
  /\ attempts \in 0..ResolveCap + 1 /\ settle \in 0..SettleCap
  /\ lastClick \in {"none", "start", "stop", "switch"} /\ clicks \in 0..MaxClicks

WindowInit ==
  /\ EngineInit
  /\ inbox = <<>> /\ plan = "none"
  /\ restarting = FALSE /\ gen = 0 /\ resolvers = {} /\ attempts = 0 /\ settle = 0
  /\ shown = "idle"
  /\ lastClick = "none" /\ clicks = 0

\* Mutant of Dispatch: idle and error show through during a restart.
DispatchRaw(status) ==
  /\ shown' = status
  /\ restarting' = (restarting /\ status # "active")

\* _dispatch_status: during a restart only "active" shows, and ends it.
Dispatch(status) ==
  /\ shown' = IF restarting /\ status # "active" THEN "connecting" ELSE status
  /\ restarting' = (restarting /\ status # "active")
-----------------------------------------------------------------------------
(* The engine's threads                                                    *)

\* What they write to the status they also post to the GUI thread.
WorkersTell ==
  /\ ListenerDown \/ \E s \in Sessions : Tells(s)
  /\ inbox' = Append(inbox, eng')
  /\ UNCHANGED <<plan, machine, shown, user>>

WorkersGoOn ==
  /\ \E s \in Sessions : Silent(s)
  /\ UNCHANGED <<inbox, plan, machine, shown, user>>
-----------------------------------------------------------------------------
(* engine.stop() and engine.start() on the GUI thread                      *)

\* ProxyServer.stop() makes the status callback itself: it shows at once.
StopDowngrades ==
  /\ gui = "stopping" /\ ListenerDown
  /\ Dispatch("idle")
  /\ UNCHANGED <<inbox, plan, gen, resolvers, attempts, settle, user>>

StopReturns ==
  /\ UiStopped
  /\ Dispatch("idle")
  /\ plan' = IF plan = "show" THEN "none" ELSE plan
  /\ UNCHANGED <<inbox, gen, resolvers, attempts, settle, user>>

\* The sessions are all alike: the next start is one that has not been made.
SessionLeft == \E s \in Sessions : doing[s] = "none"
NextSession == CHOOSE s \in Sessions : doing[s] = "none"

\* Mutant of StartReturns: the resolver is pinned to the generation before.
StartReturnsLate ==
  /\ gui = "free" /\ plan \in {"start", "restart"} /\ plan' = "none"
  /\ \/ SessionLeft /\ Begins(NextSession) /\ Dispatch("connecting")
     \/ plan = "start" /\ IsRunning /\ UNCHANGED <<face, shown, restarting>>
  /\ resolvers' = IF plan = "restart" THEN resolvers \cup ({gen - 1} \ {0}) ELSE resolvers
  /\ UNCHANGED <<inbox, gen, attempts, settle, user>>

\* start() declines while the engine runs: a worker may have gone green since the
\* button was looked at.  A restart then arms its resolver.
StartReturns ==
  /\ gui = "free" /\ plan \in {"start", "restart"} /\ plan' = "none"
  /\ \/ SessionLeft /\ Begins(NextSession) /\ Dispatch("connecting")
     \/ plan = "start" /\ IsRunning /\ UNCHANGED <<face, shown, restarting>>
  /\ resolvers' = IF plan = "restart" THEN resolvers \cup {gen} ELSE resolvers
  /\ UNCHANGED <<inbox, gen, attempts, settle, user>>
-----------------------------------------------------------------------------
(* Clicks                                                                  *)

\* Only when no handler runs.
Click(what) ==
  /\ plan = "none" /\ clicks < MaxClicks
  /\ clicks' = clicks + 1 /\ lastClick' = what

\* Start, or retry: from anything but a clean idle it stops first.
PowerStart ==
  /\ shown \in {"idle", "error"} /\ ~restarting /\ SessionLeft
  /\ Click("start") /\ plan' = "start"
  /\ IF eng # "idle" THEN UiStops ELSE UNCHANGED face
  /\ UNCHANGED <<inbox, machine, shown>>

\* Stop is honoured in the middle of a restart too: _cancel_restart.
PowerStop ==
  /\ shown \in {"connecting", "active"}
  /\ Click("stop") /\ plan' = "show"
  /\ restarting' = FALSE /\ gen' = gen + 1 /\ attempts' = 0 /\ settle' = 0
  /\ UiStops
  /\ UNCHANGED <<inbox, resolvers, shown>>

BeginRestart ==
  /\ SessionLeft /\ plan' = "restart"
  /\ restarting' = TRUE /\ gen' = gen + 1 /\ attempts' = 0 /\ settle' = 0
  /\ shown' = "connecting"
  /\ UiStops
  /\ UNCHANGED <<inbox, resolvers>>

\* A profile is picked: over a running or failed engine that means a restart,
\* unless it is the profile of the tunnel that is up, or none.
SelectProfile ==
  /\ Click("switch")
  /\ \/ (IsRunning \/ eng = "error") /\ BeginRestart
     \/ eng # "connecting" /\ UNCHANGED <<face, inbox, plan, machine, shown>>

SelectStrategy ==
  /\ Click("switch")
  /\ IF IsRunning THEN BeginRestart ELSE UNCHANGED <<face, inbox, plan, machine, shown>>
-----------------------------------------------------------------------------
(* Posted signals and timers                                               *)

DeliverStatus ==
  /\ plan = "none" /\ inbox # <<>>
  /\ Dispatch(Head(inbox))
  /\ inbox' = Tail(inbox)
  /\ UNCHANGED <<face, plan, gen, resolvers, attempts, settle, user>>

\* _surface_restart_failure
Failure == IF eng \in {"idle", "error"} THEN eng ELSE "error"

\* The timer of generation g: _restart_resolve.
Resolve(g) ==
  /\ plan = "none" /\ g \in resolvers
  /\ IF g # gen \/ ~restarting
     THEN resolvers' = resolvers \ {g} /\ UNCHANGED <<restarting, attempts, settle, shown>>
     ELSE /\ attempts' = attempts + 1
          /\ LET calm == IF eng \in {"idle", "error"} THEN settle + 1 ELSE 0
                 over == attempts' > ResolveCap \/ calm >= SettleCap
             IN /\ restarting' = ~(eng = "active" \/ over)
                /\ settle' = IF eng = "active" THEN settle ELSE IF over THEN 0 ELSE calm
                /\ shown' = IF eng = "active" THEN "active"
                            ELSE IF over THEN Failure ELSE shown
          /\ resolvers' = IF restarting' THEN resolvers ELSE resolvers \ {g}
  /\ UNCHANGED <<face, inbox, plan, gen, user>>
-----------------------------------------------------------------------------
WindowNext ==
  \/ WorkersTell \/ WorkersGoOn
  \/ StopDowngrades \/ StopReturns \/ StartReturns
  \/ PowerStart \/ PowerStop \/ SelectProfile \/ SelectStrategy
  \/ DeliverStatus
  \/ \E g \in 1..gen : Resolve(g)

\* Timers fire, Qt delivers, and stop() and start() return to the GUI thread (every
\* wait in them has a timeout); the engine's threads and the user owe nothing.
WindowFairness ==
  /\ WF_windowVars(DeliverStatus) /\ WF_windowVars(\E g \in 1..gen : Resolve(g))
  /\ WF_windowVars(StopReturns) /\ WF_windowVars(StartReturns)

WindowSpec == WindowInit /\ [][WindowNext]_windowVars /\ WindowFairness
-----------------------------------------------------------------------------
(* Properties                                                              *)

\* The GUI thread's last word to the engine was stop().
Downed == lastClick = "stop" \/ plan = "restart"

\* Once the GUI thread's stop() has returned the engine stays down until that
\* thread starts it: after the user's Stop until the next click, whatever workers
\* and timers of how many cancelled restarts are still about; and in a restart,
\* so that _restart_when_idle finds "the old session is down" at its first look.
StopIsFinal == Downed /\ gui = "free" => ~IsRunning

\* "a steady connecting" (_dispatch_status): no idle or error shows while the
\* window restarts, and no Start can be clicked.
MaskSteady == restarting => shown = "connecting"

\* "it can never wedge": a restart ends by itself, even if the engine never
\* answers and stays connecting.
MaskResolves == restarting ~> ~restarting
=============================================================================
