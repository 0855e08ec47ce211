---------------------------- MODULE WindowProofs ----------------------------
(***************************************************************************)
(* What holds of the window's restart machine for any set of sessions, any *)
(* number of clicks and whatever the caps of its timers are.               *)
(*                                                                         *)
(* The argument for the last word of Stop, and for a restart that finds    *)
(* the engine down: only a worker of the current epoch can go green, the   *)
(* stop() raises the epoch above every worker's, nothing lowers it, and    *)
(* only the GUI thread, busy with that very click, starts another worker.  *)
(***************************************************************************)
EXTENDS RestartWindow, TLAPS

\* No worker is ahead of the engine, and after a stop() all are behind it.
Superseded ==
  \A s \in Sessions :
    /\ ticket[s] <= epoch
    /\ Downed /\ doing[s] = "building" => ticket[s] < epoch

\* A restart that goes on has polls left.
PollsLeft == restarting => attempts <= ResolveCap

\* No start() is to come of a click on Stop, and a restart has a generation.
PlanOfClick ==
  /\ lastClick = "stop" => plan \in {"none", "show"}
  /\ plan = "restart" => gen > 0

WindowInv == WindowTypeOK /\ PollsLeft /\ PlanOfClick /\ Superseded /\ StopIsFinal

\* What a step does to the engine when the GUI thread does not call it.
Onward ==
  /\ epoch' \in Nat /\ epoch' >= epoch /\ ticket' = ticket
  /\ \A s \in Sessions : doing'[s] = "building" => doing[s] = "building"
  /\ eng' \in {"connecting", "active"} =>
       eng = eng' \/ \E s \in Sessions : doing[s] = "building" /\ ticket[s] = epoch
  /\ UNCHANGED <<gui, plan, gen, lastClick>>

LEMMA Caps ==
  /\ MaxClicks \in Nat /\ MaxClicks > 0
  /\ ResolveCap \in Nat /\ ResolveCap > 0 /\ SettleCap \in Nat /\ SettleCap > 0
BY WindowAssumption

LEMMA PostedOk ==
  ASSUME WindowTypeOK, NEW status \in {"idle", "active", "error"}
  PROVE  Append(inbox, status) \in Seq({"idle", "active", "error"})
BY DEF WindowTypeOK

\* A step of a session's threads moves it on.
LEMMA DeedMoves ==
  ASSUME EngineTypeOK, NEW s \in Sessions, NEW deed \in Deeds \ {"building"}, Does(s, deed)
  PROVE  /\ doing' \in [Sessions -> Deeds]
         /\ \A u \in Sessions : doing'[u] = "building" => doing[u] = "building"
BY DEF EngineTypeOK, Does

\* What the workers tell is one of three statuses, and green only if current.
LEMMA TellsStep ==
  ASSUME EngineTypeOK, NEW s \in Sessions, Tells(s)
  PROVE  /\ EngineTypeOK' /\ eng' \in {"idle", "active", "error"}
         /\ UNCHANGED <<epoch, ticket, gui>>
         /\ \A u \in Sessions : doing'[u] = "building" => doing[u] = "building"
         /\ eng' = "active" => doing[s] = "building" /\ ticket[s] = epoch
<1>1. PICK deed \in Deeds \ {"building"} : Does(s, deed)
  BY DEF Tells, GoesGreen, Refuses, ShowsFault, WorkerStopped, WorkerReports, Deeds
<1>2. /\ eng' \in {"idle", "active", "error"} /\ UNCHANGED <<epoch, ticket, gui>>
      /\ eng' = "active" => doing[s] = "building" /\ ticket[s] = epoch
  BY DEF Tells, GoesGreen, Current, Refuses, ShowsFault, WorkerStopped, WorkerReports
<1>3. QED
  BY <1>1, <1>2, DeedMoves DEF EngineTypeOK, Status

LEMMA SilentStep ==
  ASSUME EngineTypeOK, NEW s \in Sessions, Silent(s)
  PROVE  /\ EngineTypeOK' /\ UNCHANGED <<eng, ticket, gui>>
         /\ epoch' >= epoch
         /\ \A u \in Sessions : doing'[u] = "building" => doing[u] = "building"
<1>1. PICK deed \in Deeds \ {"building"} : Does(s, deed)
  BY DEF Silent, Withdraws, Faults, SelfTested, WorkerStops, Deeds
<1>2. UNCHANGED <<eng, ticket, gui>> /\ epoch' \in {epoch, epoch + 1}
  BY DEF Silent, Withdraws, Faults, SelfTested, WorkerStops
<1>3. QED
  BY <1>1, <1>2, DeedMoves DEF EngineTypeOK

\* The workers go on, and post what the GUI thread can deliver.
LEMMA WorkersStep ==
  ASSUME WindowInv, WorkersTell \/ WorkersGoOn
  PROVE  WindowTypeOK' /\ PollsLeft' /\ Onward
<1> USE DEF WindowInv, WindowTypeOK, machine, user, PollsLeft, Onward
<1>1. ASSUME NEW s \in Sessions, Tells(s), inbox' = Append(inbox, eng'),
             UNCHANGED <<plan, machine, shown, user>>
      PROVE  WindowTypeOK' /\ PollsLeft' /\ Onward
  <2>1. inbox' \in Seq({"idle", "active", "error"})
    BY <1>1, TellsStep, PostedOk
  <2>2. /\ EngineTypeOK' /\ eng' \in {"idle", "active", "error"}
        /\ UNCHANGED <<epoch, ticket, gui>>
        /\ \A u \in Sessions : doing'[u] = "building" => doing[u] = "building"
        /\ eng' = "active" => doing[s] = "building" /\ ticket[s] = epoch
    <3> EngineTypeOK
      OBVIOUS
    <3> QED BY <1>1, TellsStep
  <2>3. Onward
    BY <1>1, <2>2 DEF EngineTypeOK
  <2>4. QED
    BY <1>1, <2>1, <2>2, <2>3
<1>2. ASSUME ListenerDown, inbox' = Append(inbox, eng'), UNCHANGED <<plan, machine, shown, user>>
      PROVE  WindowTypeOK' /\ PollsLeft' /\ Onward
  BY <1>2, PostedOk DEF ListenerDown, EngineTypeOK, Status
<1>3. ASSUME NEW s \in Sessions, Silent(s), UNCHANGED <<inbox, plan, machine, shown, user>>
      PROVE  WindowTypeOK' /\ PollsLeft' /\ Onward
  BY <1>3, SilentStep DEF EngineTypeOK
<1>4. QED
  BY <1>1, <1>2, <1>3 DEF WorkersTell, WorkersGoOn

LEMMA DowngradeStep ==
  ASSUME WindowInv, StopDowngrades
  PROVE  WindowTypeOK' /\ PollsLeft' /\ Onward
BY DEF WindowInv, WindowTypeOK, EngineTypeOK, StopDowngrades, ListenerDown, Dispatch, Status,
       Onward, user, PollsLeft

\* Delivery and timers touch the window alone.
LEMMA DeliveryStep ==
  ASSUME WindowInv, DeliverStatus
  PROVE  WindowTypeOK' /\ PollsLeft' /\ Onward
<1>1. /\ Tail(inbox) \in Seq({"idle", "active", "error"})
      /\ Head(inbox) \in {"idle", "active", "error"}
  BY DEF WindowInv, WindowTypeOK, DeliverStatus
<1>2. QED
  BY <1>1 DEF WindowInv, WindowTypeOK, EngineTypeOK, DeliverStatus, Dispatch, Status, Onward,
              face, user, PollsLeft

LEMMA TimerStep ==
  ASSUME WindowInv, NEW g \in 1..gen, Resolve(g)
  PROVE  WindowTypeOK' /\ PollsLeft' /\ Onward
<1> USE WindowAssumption DEF WindowInv, WindowTypeOK, EngineTypeOK, Status, PollsLeft
<1>1. UNCHANGED <<face, inbox, plan, gen, user>> /\ resolvers' \subseteq resolvers
  BY DEF Resolve
<1>2. CASE g # gen \/ ~restarting
  BY <1>1, <1>2 DEF Resolve, Onward, face, user
<1>3. CASE g = gen /\ restarting
  <2> DEFINE calm == IF eng \in {"idle", "error"} THEN settle + 1 ELSE 0
             over == attempts' > ResolveCap \/ calm >= SettleCap
  <2>1. /\ attempts' = attempts + 1
        /\ restarting' = ~(eng = "active" \/ over)
        /\ settle' = IF eng = "active" THEN settle ELSE IF over THEN 0 ELSE calm
        /\ shown' = IF eng = "active" THEN "active" ELSE IF over THEN Failure ELSE shown
    BY <1>3 DEF Resolve
  <2>2. restarting' \in BOOLEAN /\ shown' \in Status
    BY <2>1 DEF Failure
  <2>3. settle' \in 0..SettleCap
    BY <2>1
  <2>4. attempts' \in 0..ResolveCap + 1
    <3>1. attempts \in Nat /\ attempts <= ResolveCap
      BY <1>3
    <3>2. QED
      BY <2>1, <3>1, Caps
  <2>5. restarting' => attempts' <= ResolveCap
    <3>1. restarting' => ~(attempts' > ResolveCap)
      BY <2>1
    <3>2. QED
      BY <2>4, <3>1, Caps
  <2>6. UNCHANGED <<eng, epoch, ticket, doing, gui, lastClick, clicks, inbox, plan, gen>>
    BY <1>1 DEF face, user
  <2>7. resolvers' \subseteq 1..gen'
    BY <1>1, <2>6
  <2>8. Onward
    BY <2>6 DEF Onward
  <2>9. QED
    BY <2>2, <2>3, <2>4, <2>5, <2>6, <2>7, <2>8
<1>4. QED
  BY <1>2, <1>3

\* The workers, the listener, the queue and the timers keep the invariant.
LEMMA OnwardStep ==
  ASSUME WindowInv, WindowTypeOK', PollsLeft', Onward
  PROVE  WindowInv'
<1>1. Downed' = Downed /\ PlanOfClick'
  BY DEF Onward, Downed, WindowInv, PlanOfClick
<1>2. Superseded'
  <2> SUFFICES ASSUME NEW s \in Sessions
               PROVE  /\ ticket'[s] <= epoch'
                      /\ Downed' /\ doing'[s] = "building" => ticket'[s] < epoch'
    BY DEF Superseded
  <2>1. ticket[s] \in Nat /\ epoch \in Nat /\ ticket[s] <= epoch
    BY DEF WindowInv, WindowTypeOK, EngineTypeOK, Superseded
  <2>2. /\ epoch' \in Nat /\ epoch' >= epoch /\ ticket'[s] = ticket[s]
        /\ doing'[s] = "building" => doing[s] = "building"
    BY DEF Onward
  <2>3. Downed /\ doing[s] = "building" => ticket[s] < epoch
    BY DEF WindowInv, Superseded
  <2>4. QED
    BY <1>1, <2>1, <2>2, <2>3
<1>3. StopIsFinal'
  <2>1. ASSUME Downed', gui' = "free", eng' \in {"connecting", "active"} PROVE FALSE
    <3>1. Downed /\ eng \notin {"connecting", "active"}
      BY <1>1, <2>1 DEF Onward, WindowInv, StopIsFinal, IsRunning
    <3>2. PICK s \in Sessions : doing[s] = "building" /\ ticket[s] = epoch
      BY <2>1, <3>1 DEF Onward
    <3>3. QED
      BY <3>1, <3>2 DEF WindowInv, WindowTypeOK, EngineTypeOK, Superseded
  <2>2. QED
    BY <2>1 DEF StopIsFinal, IsRunning
<1>4. QED
  BY <1>1, <1>2, <1>3 DEF WindowInv

\* stop() puts every worker behind the epoch, and ends on idle.
LEMMA ClaimStep ==
  ASSUME WindowInv, UiStops
  PROVE  /\ EngineTypeOK' /\ Superseded' /\ StopIsFinal'
<1>1. epoch \in Nat /\ epoch' = epoch + 1 /\ gui' = "stopping"
      /\ UNCHANGED <<eng, ticket, doing>>
  BY DEF WindowInv, WindowTypeOK, EngineTypeOK, UiStops
<1>2. \A s \in Sessions : ticket[s] \in Nat /\ ticket[s] <= epoch
  BY DEF WindowInv, WindowTypeOK, EngineTypeOK, Superseded
<1>3. QED
  BY <1>1, <1>2 DEF WindowInv, WindowTypeOK, EngineTypeOK, Superseded, StopIsFinal

LEMMA ReturnStep == ASSUME WindowInv, StopReturns PROVE WindowInv'
<1> USE DEF WindowInv, WindowTypeOK, EngineTypeOK, StopReturns, UiStopped, Dispatch, user, Status
<1>1. WindowTypeOK' /\ PollsLeft' /\ PlanOfClick'
  BY DEF PollsLeft, PlanOfClick
<1>2. Superseded' /\ StopIsFinal'
  <2>1. Downed' => Downed
    BY DEF Downed
  <2>2. QED
    BY <2>1 DEF Superseded, StopIsFinal, IsRunning
<1>3. QED
  BY <1>1, <1>2

\* A start makes a worker of the epoch it sets.
LEMMA StartStep == ASSUME WindowInv, StartReturns PROVE WindowInv'
<1> USE DEF WindowInv, WindowTypeOK
<1>1. ~Downed' /\ lastClick' = lastClick /\ plan' = "none" /\ PlanOfClick'
  BY DEF StartReturns, Downed, PlanOfClick, user
<1>2. StopIsFinal'
  BY <1>1 DEF StopIsFinal
<1>3. EngineTypeOK' /\ Superseded'
  <2>1. ASSUME NEW s \in Sessions, Begins(s) PROVE EngineTypeOK' /\ Superseded'
    <3>1. /\ epoch' = epoch + 1 /\ epoch \in Nat /\ ticket' = [ticket EXCEPT ![s] = epoch']
          /\ doing' = [doing EXCEPT ![s] = "building"] /\ eng' = "connecting" /\ gui' = gui
      BY <2>1 DEF Begins, Does, EngineTypeOK
    <3>2. EngineTypeOK'
      BY <3>1 DEF EngineTypeOK, Deeds, Status
    <3>3. \A u \in Sessions : ticket'[u] <= epoch'
      BY <3>1 DEF EngineTypeOK, Superseded
    <3>4. QED
      BY <1>1, <3>2, <3>3 DEF Superseded
  <2>2. ASSUME UNCHANGED face PROVE EngineTypeOK' /\ Superseded'
    BY <1>1, <2>2 DEF EngineTypeOK, Superseded, face
  <2>3. SessionLeft => NextSession \in Sessions
    BY DEF SessionLeft, NextSession
  <2>4. QED
    BY <2>1, <2>2, <2>3 DEF StartReturns
<1>4. WindowTypeOK' /\ PollsLeft'
  <2>1. /\ inbox' = inbox /\ plan' = "none" /\ UNCHANGED <<gen, attempts, settle, lastClick, clicks>>
        /\ resolvers' \subseteq resolvers \cup {gen} /\ (plan # "restart" => resolvers' = resolvers)
        /\ shown' \in Status /\ restarting' \in BOOLEAN /\ (restarting' => restarting)
    BY DEF StartReturns, Dispatch, user, Status
  <2>2. resolvers' \subseteq 1..gen
    BY <2>1 DEF PlanOfClick
  <2>3. QED
    BY <1>3, <2>1, <2>2 DEF PollsLeft
<1>5. QED
  BY <1>1, <1>2, <1>3, <1>4

LEMMA RestartStep ==
  ASSUME WindowInv, Click("switch"), BeginRestart
  PROVE  WindowInv'
<1>1. EngineTypeOK' /\ Superseded' /\ StopIsFinal'
  BY ClaimStep DEF BeginRestart
<1>2. WindowTypeOK' /\ PollsLeft' /\ PlanOfClick'
  BY <1>1, Caps DEF WindowInv, WindowTypeOK, BeginRestart, Click, PollsLeft, PlanOfClick, Status
<1>3. QED
  BY <1>1, <1>2 DEF WindowInv

LEMMA PowerStopStep == ASSUME WindowInv, PowerStop PROVE WindowInv'
<1>1. EngineTypeOK' /\ Superseded' /\ StopIsFinal'
  BY ClaimStep DEF PowerStop
<1>2. WindowTypeOK' /\ PollsLeft' /\ PlanOfClick'
  <2>1. /\ gen' = gen + 1 /\ restarting' = FALSE /\ attempts' = 0 /\ settle' = 0
        /\ plan' = "show" /\ clicks' = clicks + 1 /\ clicks < MaxClicks /\ lastClick' = "stop"
        /\ UNCHANGED <<inbox, resolvers, shown>>
    BY DEF PowerStop, Click
  <2>2. gen' \in Nat /\ resolvers' \subseteq 1..gen' /\ clicks' \in 0..MaxClicks
    BY <2>1, Caps DEF WindowInv, WindowTypeOK
  <2>3. 0 \in 0..ResolveCap + 1 /\ 0 \in 0..SettleCap
    BY Caps
  <2>4. QED
    BY <1>1, <2>1, <2>2, <2>3 DEF WindowInv, WindowTypeOK, PollsLeft, PlanOfClick
<1>3. QED
  BY <1>1, <1>2 DEF WindowInv

LEMMA PowerStartStep == ASSUME WindowInv, PowerStart PROVE WindowInv'
<1>1. ~Downed'
  BY DEF PowerStart, Click, Downed
<1>2. EngineTypeOK' /\ Superseded' /\ StopIsFinal'
  <2>1. CASE UiStops
    BY <2>1, ClaimStep
  <2>2. CASE UNCHANGED face
    BY <1>1, <2>2 DEF WindowInv, WindowTypeOK, EngineTypeOK, Superseded, StopIsFinal, face
  <2>3. QED
    BY <2>1, <2>2 DEF PowerStart
<1>3. WindowTypeOK' /\ PollsLeft' /\ PlanOfClick'
  BY <1>2, Caps DEF WindowInv, WindowTypeOK, PowerStart, Click, PollsLeft, PlanOfClick, machine
<1>4. QED
  BY <1>2, <1>3 DEF WindowInv

\* A click that restarts nothing is no Stop.
LEMMA IdleClickStep ==
  ASSUME WindowInv, Click("switch"), UNCHANGED <<face, inbox, plan, machine, shown>>
  PROVE  WindowInv'
<1>1. ~Downed' /\ UNCHANGED <<eng, epoch, ticket, doing, gui>>
  BY DEF Click, Downed, face
<1>2. Superseded' /\ StopIsFinal'
  BY <1>1 DEF WindowInv, Superseded, StopIsFinal
<1>3. WindowTypeOK' /\ PollsLeft' /\ PlanOfClick'
  BY <1>1, Caps DEF WindowInv, WindowTypeOK, EngineTypeOK, Click, machine, PollsLeft, PlanOfClick
<1>4. QED
  BY <1>2, <1>3 DEF WindowInv

LEMMA WindowStart == WindowInit => WindowInv
<1> SUFFICES ASSUME WindowInit PROVE WindowInv
  OBVIOUS
<1>1. EngineTypeOK /\ Superseded /\ StopIsFinal
  BY DEF WindowInit, EngineInit, EngineTypeOK, Status, Deeds, Superseded, StopIsFinal, Downed
<1>2. inbox \in Seq({"idle", "active", "error"})
  BY DEF WindowInit
<1>3. WindowTypeOK /\ PollsLeft /\ PlanOfClick
  <2>1. 0 \in Nat /\ 0 \in 0..ResolveCap + 1 /\ 0 \in 0..SettleCap /\ 0 \in 0..MaxClicks
    BY Caps
  <2>2. QED
    BY <1>1, <1>2, <2>1 DEF WindowInit, WindowTypeOK, Status, PollsLeft, PlanOfClick
<1>4. QED
  BY <1>1, <1>3 DEF WindowInv

LEMMA WindowStep == WindowInv /\ [WindowNext]_windowVars => WindowInv'
<1>1. ASSUME WindowInv, SelectProfile \/ SelectStrategy PROVE WindowInv'
  BY <1>1, RestartStep, IdleClickStep DEF SelectProfile, SelectStrategy
<1>2. ASSUME WindowInv, WindowNext PROVE WindowInv'
  BY <1>1, <1>2, WorkersStep, DowngradeStep, DeliveryStep, TimerStep, OnwardStep, ReturnStep,
     StartStep, PowerStartStep, PowerStopStep DEF WindowNext
<1>3. ASSUME WindowInv, UNCHANGED windowVars PROVE WindowInv'
  BY <1>3 DEF WindowInv, WindowTypeOK, EngineTypeOK, PollsLeft, PlanOfClick, Superseded, Downed,
              StopIsFinal, IsRunning, windowVars, face, machine, user
<1>4. QED
  BY <1>2, <1>3

\* The inductive invariant of the window: types, the polls a restart has left,
\* and the epochs that make stop() the last word.
THEOREM WindowInvariant == WindowSpec => []WindowInv
<1>1. QED
  BY WindowStart, WindowStep, PTL DEF WindowSpec

\* Once stop() has returned to the GUI thread, after the user's Stop and in every
\* restart, no worker of however many old sessions brings the engine back.
THEOREM StopHolds == WindowSpec => []StopIsFinal
<1>1. WindowInv => StopIsFinal
  BY DEF WindowInv
<1>2. QED
  BY <1>1, WindowInvariant, PTL

\* While the window restarts the power button says so, whatever is delivered.
THEOREM MaskHolds == WindowSpec => []MaskSteady
<1> USE DEF MaskSteady
<1>1. WindowInit => MaskSteady
  BY DEF WindowInit
<1>2. ASSUME MaskSteady, WorkersTell \/ WorkersGoOn PROVE MaskSteady'
  BY <1>2 DEF WorkersTell, WorkersGoOn, machine
<1>3. ASSUME MaskSteady, StopDowngrades \/ StopReturns \/ StartReturns \/ DeliverStatus
      PROVE  MaskSteady'
  BY <1>3 DEF StopDowngrades, StopReturns, StartReturns, DeliverStatus, Dispatch
<1>4. ASSUME MaskSteady, PowerStart \/ PowerStop \/ SelectProfile \/ SelectStrategy
      PROVE  MaskSteady'
  BY <1>4 DEF PowerStart, PowerStop, SelectProfile, SelectStrategy, BeginRestart, machine
<1>5. ASSUME MaskSteady, NEW g \in 1..gen, Resolve(g) PROVE MaskSteady'
  BY <1>5 DEF Resolve
<1>6. ASSUME MaskSteady, UNCHANGED windowVars PROVE MaskSteady'
  BY <1>6 DEF windowVars, machine
<1>7. MaskSteady /\ [WindowNext]_windowVars => MaskSteady'
  BY <1>2, <1>3, <1>4, <1>5, <1>6 DEF WindowNext
<1>8. QED
  BY <1>1, <1>7, PTL DEF WindowSpec
=============================================================================
