---------------------------- MODULE PatientProofs ----------------------------
(***************************************************************************)
(* What the engine owes a patient user, for any number of sessions: one    *)
(* who clicks only when every thread has come to rest, on a machine whose  *)
(* xray is there and whose listener is neither slow nor crashes.           *)
(*                                                                         *)
(* The argument: under these conditions one thread at most is at work at   *)
(* any time (Alone), and where it is says which objects exist and that the *)
(* handles, or the snapshot its stop() has taken, name them all (Place).   *)
(***************************************************************************)
EXTENDS EngineLifecycleProofs

Patience == Patient /\ ~BinaryMissing /\ ~SlowListener /\ ~ListenerCrash

Busy(t) == pc[t] \notin {"off", "done"}
Calm == \A t \in Threads : ~Busy(t)
Alone(t) == Busy(t) /\ \A u \in Threads : u # t => ~Busy(u)

\* Every process, serving listener and pool there is goes by x, p or m.
Named(x, p, m) ==
  \A u \in Starts :
    /\ procs[u] = IF ref[u] THEN 1 ELSE 0
    /\ ref[u] => x = u
    /\ listener[u] = "serving" => p = u
    /\ poolUp[u] => m = u

NoHandle == xray = None /\ proxy = None /\ sysproxy = None
Still == \A u \in Starts : listener[u] \notin {"starting", "closing"}

\* Where a worker is before its commit, and what it has by then.
CoreLabels == {"launch", "spawn", "settle", "verify"}
BuildLabels == {"route", "pool", "pnew", "pstart", "pwait", "xnew", "commit", "raised",
                "faulted"} \cup CoreLabels

HasProxy(l, k) ==
  \/ l \in {"pstart", "pwait"}
  \/ k = "spoof" /\ l \in {"xnew", "commit"} \cup CoreLabels
  \/ k = "forward" /\ l = "commit"
HasXray(l, k) == l \in CoreLabels \/ (l = "commit" /\ k # "forward")

KindFits(l, k) ==
  /\ l \in {"pool", "pnew", "pstart", "pwait"} => k \in {"spoof", "forward"}
  /\ l \in {"xnew"} \cup CoreLabels => k \in {"direct", "spoof"}
  /\ l = "commit" => k \in {"direct", "spoof", "forward"}

\* The listener of the one that builds: quiet, coming up, or serving.
ListenerFits(s, l, k) ==
  /\ l = "pwait" => target[s] = s /\ listener[s] # "closing"
  /\ l # "pwait" => listener[s] \notin {"starting", "closing"}
  /\ l \in {"route", "pool", "pnew", "pstart"} => listener[s] \in {"new", "down"}
  /\ l \notin {"pstart", "pwait"} /\ HasProxy(l, k) => listener[s] = "serving"

CoreFits(s, l, k) ==
  /\ l \in {"launch", "spawn"} => ~ref[s]
  /\ l \in {"spawn", "settle"} => target[s] = s
  /\ l = "settle" \/ (l = "commit" /\ k # "forward") => ref[s]

Builds(s) ==
  LET l == pc[Starter(s)]
      k == kind[s]
  IN /\ l \in BuildLabels
     /\ status = "connecting" /\ myEpoch[s] = epoch
     /\ sysproxy = None /\ osProxy = None
     /\ xray = (IF HasXray(l, k) THEN s ELSE None)
     /\ proxy = (IF HasProxy(l, k) THEN s ELSE None)
     /\ Named(xray, proxy, mgr)
     /\ \A u \in Starts : u # s => listener[u] \notin {"starting", "closing"}
     /\ KindFits(l, k) /\ ListenerFits(s, l, k) /\ CoreFits(s, l, k)

\* What a green session has.
Whole(s) ==
  /\ s \in Starts /\ status = "active" /\ owner = s
  /\ kind[s] \in {"direct", "spoof", "forward"}
  /\ kind[s] # "direct" => proxy = s /\ listener[s] = "serving"
  /\ xray = (IF kind[s] = "forward" THEN None ELSE s)
  /\ kind[s] # "forward" => ref[s]
  /\ Named(xray, proxy, mgr) /\ Still

GreenLabels == {"sysproxy", "osenable", "osassign"}
Undoable(s) == osProxy # None => sysproxy = s

Enables(s) ==
  /\ pc[Starter(s)] \in GreenLabels /\ Whole(s) /\ sysproxy = None
  /\ osProxy = IF pc[Starter(s)] = "osassign" THEN s ELSE None

Tests(s) == pc[Tester(s)] = "testing" /\ Whole(s) /\ Undoable(s)

\* What stop() finds when it is called, and what is left at each of its steps.
Claims(t) ==
  /\ pc[t] = "claim"
  /\ Named(xray, proxy, mgr) /\ Still /\ (osProxy # None => sysproxy # None)

Stops(t) ==
  LET l == pc[t]
      h == held[t]
  IN /\ l \in StopLabels \cup {"seterror"}
     /\ NoHandle /\ Named(h.xray, h.proxy, mgr)
     /\ IF l = "disable" THEN osProxy # None => h.sysproxy # None ELSE osProxy = None
     /\ l \notin {"disable", "xstop"} => \A u \in Starts : ~ref[u]
     /\ \A u \in Starts : listener[u] # "starting"
     /\ IF l \in {"disable", "xstop", "pstop"} THEN Still
        ELSE \A u \in Starts : listener[u] # "serving"
     /\ l \in {"setidle", "seterror"} => \A u \in Starts : ~poolUp[u]

Place(t) ==
  \/ \E s \in Starts : t = Starter(s) /\ (Builds(s) \/ Enables(s))
  \/ \E s \in Starts : t = Tester(s) /\ Tests(s)
  \/ Claims(t) \/ Stops(t)

\* What is left, or on, when nobody is at work.
Cleared ==
  /\ NoHandle /\ osProxy = None
  /\ \A u \in Starts : procs[u] = 0 /\ ~ref[u] /\ ~poolUp[u]
                       /\ listener[u] \notin {"starting", "serving"}
Rest == IF status = "active" THEN Whole(owner) /\ Undoable(owner) ELSE Cleared

PatientInv ==
  /\ TInv
  /\ \/ Calm /\ Rest
     \/ \E t \in Threads : Alone(t) /\ Place(t)
-----------------------------------------------------------------------------
(* Who is at work, and what that says.                                     *)

\* Another thread is at rest while t is alone.
LEMMA OnlyOne ==
  ASSUME PatientInv, NEW t \in Threads, Busy(t)
  PROVE  Alone(t) /\ Place(t)
BY DEF PatientInv, Calm, Alone

\* A worker that builds is alone, and what it has is what its place says ...
LEMMA WhoBuilds ==
  ASSUME PatientInv, NEW s \in Starts,
         pc[Starter(s)] \in BuildLabels \cup {"dropxray", "dropproxy", "dropjoin"}
  PROVE  Alone(Starter(s)) /\ Builds(s)
<1>1. Starter(s) \in Threads /\ Busy(Starter(s))
  BY ThreadNames DEF Busy, BuildLabels, CoreLabels
<1>2. Alone(Starter(s)) /\ Place(Starter(s))
  BY <1>1, OnlyOne
<1>3. ~Enables(s) /\ ~Claims(Starter(s)) /\ ~Stops(Starter(s))
  BY DEF Enables, GreenLabels, Claims, Stops, StopLabels, BuildLabels, CoreLabels
<1>4. QED
  BY <1>2, <1>3, ThreadNames DEF Place

\* ... likewise one past its commit, ...
LEMMA WhoEnables ==
  ASSUME PatientInv, NEW s \in Starts, pc[Starter(s)] \in GreenLabels
  PROVE  Alone(Starter(s)) /\ Enables(s)
<1>1. Starter(s) \in Threads /\ Busy(Starter(s))
  BY ThreadNames DEF Busy, GreenLabels
<1>2. Alone(Starter(s)) /\ Place(Starter(s))
  BY <1>1, OnlyOne
<1>3. ~Builds(s) /\ ~Claims(Starter(s)) /\ ~Stops(Starter(s))
  BY DEF Builds, GreenLabels, Claims, Stops, StopLabels, BuildLabels, CoreLabels
<1>4. QED
  BY <1>2, <1>3, ThreadNames DEF Place

\* ... a self-test, ...
LEMMA WhoTests ==
  ASSUME PatientInv, NEW s \in Starts, pc[Tester(s)] = "testing"
  PROVE  Alone(Tester(s)) /\ Tests(s)
<1>1. Tester(s) \in Threads /\ Busy(Tester(s))
  BY ThreadNames DEF Busy
<1>2. Alone(Tester(s)) /\ Place(Tester(s))
  BY <1>1, OnlyOne
<1>3. ~Claims(Tester(s)) /\ ~Stops(Tester(s))
  BY DEF Claims, Stops, StopLabels
<1>4. QED
  BY <1>2, <1>3, ThreadNames DEF Place

\* ... a thread about to claim, ...
LEMMA WhoClaims ==
  ASSUME PatientInv, NEW t \in Threads, pc[t] = "claim"
  PROVE  Alone(t) /\ Claims(t)
<1>1. Alone(t) /\ Place(t)
  BY OnlyOne DEF Busy
<1>2. ~Stops(t) /\ \A s \in Starts : /\ t = Starter(s) => ~Builds(s) /\ ~Enables(s)
                                     /\ t = Tester(s) => ~Tests(s)
  BY DEF Stops, StopLabels, Builds, BuildLabels, CoreLabels, Enables, GreenLabels, Tests
<1>3. QED
  BY <1>1, <1>2 DEF Place

\* ... and a thread inside stop().
LEMMA WhoStops ==
  ASSUME PatientInv, NEW t \in Threads, pc[t] \in StopLabels \cup {"seterror"}
  PROVE  Alone(t) /\ Stops(t)
<1>1. Alone(t) /\ Place(t)
  BY OnlyOne DEF Busy, StopLabels
<1>2. ~Claims(t) /\ \A s \in Starts : /\ t = Starter(s) => ~Builds(s) /\ ~Enables(s)
                                      /\ t = Tester(s) => ~Tests(s)
  BY DEF Claims, StopLabels, Builds, BuildLabels, CoreLabels, Enables, GreenLabels, Tests
<1>3. QED
  BY <1>1, <1>2 DEF Place

\* How the one thread moves on, or comes to rest.
LEMMA MovesOn ==
  ASSUME TInv, NEW t \in Threads, Alone(t), NEW l, pc' = [pc EXCEPT ![t] = l]
  PROVE  /\ pc'[t] = l
         /\ l \notin {"off", "done"} => Alone(t)'
         /\ l \in {"off", "done"} => Calm'
BY DEF TInv, TypeOK, Alone, Calm, Busy

\* How a thread is woken when all are at rest.
LEMMA Wakes ==
  ASSUME TInv, Calm, NEW t \in Threads, NEW l, l \notin {"off", "done"},
         pc' = [pc EXCEPT ![t] = l]
  PROVE  pc'[t] = l /\ Alone(t)'
BY DEF TInv, TypeOK, Alone, Calm, Busy

\* Where the new state is one of those the invariant allows.
LEMMA StillWorking ==
  ASSUME TInv', NEW s \in Starts, Alone(Starter(s))', Builds(s)' \/ Enables(s)'
  PROVE  PatientInv'
BY ThreadNames DEF PatientInv, Place

\* Likewise for a self-test, ...
LEMMA StillTesting ==
  ASSUME TInv', NEW s \in Starts, Alone(Tester(s))', Tests(s)'
  PROVE  PatientInv'
BY ThreadNames DEF PatientInv, Place

\* ... for stop(), ...
LEMMA StillStopping ==
  ASSUME TInv', NEW t \in Threads, Alone(t)', Claims(t)' \/ Stops(t)'
  PROVE  PatientInv'
BY DEF PatientInv, Place

\* ... and for nobody at all.
LEMMA ComesToRest == ASSUME TInv', Calm', Rest' PROVE PatientInv'
BY DEF PatientInv
-----------------------------------------------------------------------------
(* The steps.                                                              *)

\* The user clicks Start: everything is at rest and cleared.
LEMMA StartStep ==
  ASSUME Patience, PatientInv, TInv', NEW s \in Starts, UiStart(s)
  PROVE  PatientInv'
<1>1. Calm /\ Cleared /\ Still
  BY DEF UiStart, Patience, Quiet, PatientInv, Alone, Calm, Busy, Rest, Still
<1>2. pc'[Starter(s)] = "route" /\ Alone(Starter(s))'
  BY <1>1, Wakes, ThreadNames DEF UiStart, Goto, PatientInv
<1>3. myEpoch'[s] = epoch'
  BY DEF UiStart, PatientInv, TInv, TypeOK
<1>4. Builds(s)'
  BY <1>1, <1>2, <1>3 DEF UiStart, Builds, BuildLabels, CoreLabels, HasXray, HasProxy, Named,
     KindFits, ListenerFits, CoreFits, Cleared, NoHandle, Still, handles, objects, PatientInv,
     TInv, TypeOK
<1>5. QED
  BY <1>2, <1>4, StillWorking

\* The user clicks Stop: what there is has a handle, or there is nothing.
LEMMA UiStopStep ==
  ASSUME Patience, PatientInv, TInv', UiStop
  PROVE  PatientInv'
<1>1. Calm /\ Rest /\ Still
  BY DEF UiStop, Patience, Quiet, PatientInv, Alone, Calm, Busy, Still
<1>2. pc'[Ui] = "claim" /\ Alone(Ui)'
  BY <1>1, Wakes, ThreadNames DEF UiStop, CallStop, Goto, PatientInv
<1>3. Claims(Ui)'
  BY <1>1, <1>2, EngineAssumption DEF UiStop, Claims, Rest, Cleared, Whole, Undoable, Named,
     NoHandle, Still, handles, objects, PatientInv, TInv, TypeOK
<1>4. QED
  BY <1>2, <1>3, StillStopping, ThreadNames

\* The kind of chain is found.
LEMMA RouteStep ==
  ASSUME PatientInv, TInv', NEW s \in Starts, Route(s)
  PROVE  PatientInv'
<1>1. Alone(Starter(s)) /\ Builds(s)
  BY WhoBuilds DEF Route, BuildLabels, CoreLabels
<1>2. PICK l \in {"xnew", "pool"} : pc' = [pc EXCEPT ![Starter(s)] = l]
  BY <1>1, EngineAssumption DEF Route, Goto, KindOf,
     Builds, BuildLabels, CoreLabels, HasXray, HasProxy, Named, KindFits,
     ListenerFits, CoreFits, engine, handles, objects, locals, frames, history, PatientInv,
     TInv, TypeOK
<1>3. pc'[Starter(s)] = l /\ Alone(Starter(s))'
  BY <1>1, <1>2, MovesOn, ThreadNames DEF PatientInv
<1>4. Builds(s)'
  BY <1>1, <1>3, EngineAssumption DEF Route, Goto, KindOf,
     Builds, BuildLabels, CoreLabels, HasXray, HasProxy, Named, KindFits,
     ListenerFits, CoreFits, engine, handles, objects, locals, frames, history, PatientInv,
     TInv, TypeOK
<1>5. QED
  BY <1>3, <1>4, StillWorking

\* An exception of a worker that nothing has superseded.
LEMMA RaisedStep ==
  ASSUME PatientInv, TInv', NEW s \in Starts, Raised(s)
  PROVE  PatientInv'
<1>1. Alone(Starter(s)) /\ Builds(s)
  BY WhoBuilds DEF Raised, BuildLabels, CoreLabels
<1>2. PICK l \in {"faulted"} : pc' = [pc EXCEPT ![Starter(s)] = l]
  BY <1>1 DEF Raised, Goto,
     Builds, BuildLabels, CoreLabels, HasXray, HasProxy, Named, KindFits,
     ListenerFits, CoreFits, engine, handles, objects, locals, frames, history, PatientInv,
     TInv, TypeOK
<1>3. pc'[Starter(s)] = l /\ Alone(Starter(s))'
  BY <1>1, <1>2, MovesOn, ThreadNames DEF PatientInv
<1>4. Builds(s)'
  BY <1>1, <1>3, EngineAssumption DEF Raised, Goto,
     Builds, BuildLabels, CoreLabels, HasXray, HasProxy, Named, KindFits,
     ListenerFits, CoreFits, engine, handles, objects, locals, frames, history, PatientInv,
     TInv, TypeOK
<1>5. QED
  BY <1>3, <1>4, StillWorking

\* Its stop() finds what there is under the handles.
LEMMA FaultedStep ==
  ASSUME PatientInv, TInv', NEW s \in Starts, Faulted(s)
  PROVE  PatientInv'
<1>1. Alone(Starter(s)) /\ Builds(s)
  BY WhoBuilds DEF Faulted, BuildLabels, CoreLabels
<1>2. PICK l \in {"claim"} : pc' = [pc EXCEPT ![Starter(s)] = l]
  BY <1>1 DEF Faulted, CallStop, Goto,
     Builds, BuildLabels, CoreLabels, HasXray, HasProxy, Named, KindFits,
     ListenerFits, CoreFits, engine, handles, objects, locals, frames, history, PatientInv,
     TInv, TypeOK
<1>3. pc'[Starter(s)] = l /\ Alone(Starter(s))'
  BY <1>1, <1>2, MovesOn, ThreadNames DEF PatientInv
<1>4. CASE l = "claim"
  <2>1. Claims(Starter(s))'
    BY <1>1, <1>3, <1>4, EngineAssumption DEF Faulted, CallStop, Goto, Claims, Still,
       Builds, BuildLabels, CoreLabels, HasXray, HasProxy, Named, KindFits,
     ListenerFits, CoreFits, engine, handles, objects, locals, frames, history, PatientInv,
     TInv, TypeOK
  <2>2. QED
    BY <1>3, <2>1, StillStopping, ThreadNames
<1>5. CASE l # "claim"
  <2>1. Builds(s)'
    BY <1>1, <1>3, <1>5, EngineAssumption DEF Faulted, CallStop, Goto,
       Builds, BuildLabels, CoreLabels, HasXray, HasProxy, Named, KindFits,
     ListenerFits, CoreFits, engine, handles, objects, locals, frames, history, PatientInv,
     TInv, TypeOK
  <2>2. QED
    BY <1>3, <2>1, StillWorking
<1>6. QED
  BY <1>4, <1>5

\* The old manager is forgotten, and nothing ran under it.
LEMMA BuildPoolStep ==
  ASSUME PatientInv, TInv', NEW s \in Starts, BuildPool(s)
  PROVE  PatientInv'
<1>1. Alone(Starter(s)) /\ Builds(s)
  BY WhoBuilds DEF BuildPool, BuildLabels, CoreLabels
<1>2. PICK l \in {"pnew"} : pc' = [pc EXCEPT ![Starter(s)] = l]
  BY <1>1 DEF BuildPool, Goto,
     Builds, BuildLabels, CoreLabels, HasXray, HasProxy, Named, KindFits,
     ListenerFits, CoreFits, engine, handles, objects, locals, frames, history, PatientInv,
     TInv, TypeOK
<1>3. pc'[Starter(s)] = l /\ Alone(Starter(s))'
  BY <1>1, <1>2, MovesOn, ThreadNames DEF PatientInv
<1>4. Builds(s)'
  BY <1>1, <1>3, EngineAssumption DEF BuildPool, Goto,
     Builds, BuildLabels, CoreLabels, HasXray, HasProxy, Named, KindFits,
     ListenerFits, CoreFits, engine, handles, objects, locals, frames, history, PatientInv,
     TInv, TypeOK
<1>5. QED
  BY <1>3, <1>4, StillWorking

\* The listener's object is made.
LEMMA NewProxyStep ==
  ASSUME PatientInv, TInv', NEW s \in Starts, NewProxy(s)
  PROVE  PatientInv'
<1>1. Alone(Starter(s)) /\ Builds(s)
  BY WhoBuilds DEF NewProxy, BuildLabels, CoreLabels
<1>2. PICK l \in {"raised", "pstart"} : pc' = [pc EXCEPT ![Starter(s)] = l]
  BY <1>1 DEF NewProxy, Raise, Goto,
     Builds, BuildLabels, CoreLabels, HasXray, HasProxy, Named, KindFits,
     ListenerFits, CoreFits, engine, handles, objects, locals, frames, history, PatientInv,
     TInv, TypeOK
<1>3. pc'[Starter(s)] = l /\ Alone(Starter(s))'
  BY <1>1, <1>2, MovesOn, ThreadNames DEF PatientInv
<1>4. Builds(s)'
  BY <1>1, <1>3, EngineAssumption DEF NewProxy, Raise, Goto,
     Builds, BuildLabels, CoreLabels, HasXray, HasProxy, Named, KindFits,
     ListenerFits, CoreFits, engine, handles, objects, locals, frames, history, PatientInv,
     TInv, TypeOK
<1>5. QED
  BY <1>3, <1>4, StillWorking

\* The listener is started, or cannot be.
LEMMA StartProxyStep ==
  ASSUME PatientInv, TInv', NEW s \in Starts, StartProxy(s)
  PROVE  PatientInv'
<1>1. Alone(Starter(s)) /\ Builds(s)
  BY WhoBuilds DEF StartProxy, BuildLabels, CoreLabels
<1>2. PICK l \in {"pwait", "claim"} : pc' = [pc EXCEPT ![Starter(s)] = l]
  BY <1>1, EngineAssumption DEF StartProxy, CallStop, Raise, Goto, AfterProxy,
     Builds, BuildLabels, CoreLabels, HasXray, HasProxy, Named, KindFits,
     ListenerFits, CoreFits, engine, handles, objects, locals, frames, history, PatientInv,
     TInv, TypeOK
<1>3. pc'[Starter(s)] = l /\ Alone(Starter(s))'
  BY <1>1, <1>2, MovesOn, ThreadNames DEF PatientInv
<1>4. CASE l = "claim"
  <2>1. Claims(Starter(s))'
    BY <1>1, <1>3, <1>4, EngineAssumption DEF StartProxy, CallStop, Raise, Goto, AfterProxy,
       Claims, Still,
       Builds, BuildLabels, CoreLabels, HasXray, HasProxy, Named, KindFits,
     ListenerFits, CoreFits, engine, handles, objects, locals, frames, history, PatientInv,
     TInv, TypeOK
  <2>2. QED
    BY <1>3, <2>1, StillStopping, ThreadNames
<1>5. CASE l # "claim"
  <2>1. Builds(s)'
    BY <1>1, <1>3, <1>5, EngineAssumption DEF StartProxy, CallStop, Raise, Goto, AfterProxy,
       Builds, BuildLabels, CoreLabels, HasXray, HasProxy, Named, KindFits,
     ListenerFits, CoreFits, engine, handles, objects, locals, frames, history, PatientInv,
     TInv, TypeOK
  <2>2. QED
    BY <1>3, <2>1, StillWorking
<1>6. QED
  BY <1>4, <1>5

\* The listener serves, or has failed.
LEMMA AwaitProxyStep ==
  ASSUME Patience, PatientInv, TInv', NEW s \in Starts, AwaitProxy(s)
  PROVE  PatientInv'
<1>1. Alone(Starter(s)) /\ Builds(s)
  BY WhoBuilds DEF AwaitProxy, BuildLabels, CoreLabels
<1>2. PICK l \in {"xnew", "commit", "claim"} : pc' = [pc EXCEPT ![Starter(s)] = l]
  BY <1>1 DEF AwaitProxy, CallStop, Goto, AfterProxy, Patience,
     Builds, BuildLabels, CoreLabels, HasXray, HasProxy, Named, KindFits,
     ListenerFits, CoreFits, engine, handles, objects, locals, frames, history, PatientInv,
     TInv, TypeOK
<1>3. pc'[Starter(s)] = l /\ Alone(Starter(s))'
  BY <1>1, <1>2, MovesOn, ThreadNames DEF PatientInv
<1>4. CASE l = "claim"
  <2>1. Claims(Starter(s))'
    BY <1>1, <1>3, <1>4, EngineAssumption DEF AwaitProxy, CallStop, Goto, AfterProxy,
       Patience, Claims, Still,
       Builds, BuildLabels, CoreLabels, HasXray, HasProxy, Named, KindFits,
     ListenerFits, CoreFits, engine, handles, objects, locals, frames, history, PatientInv,
     TInv, TypeOK
  <2>2. QED
    BY <1>3, <2>1, StillStopping, ThreadNames
<1>5. CASE l # "claim"
  <2>1. Builds(s)'
    BY <1>1, <1>3, <1>5, EngineAssumption DEF AwaitProxy, CallStop, Goto, AfterProxy, Patience,
       Builds, BuildLabels, CoreLabels, HasXray, HasProxy, Named, KindFits,
     ListenerFits, CoreFits, engine, handles, objects, locals, frames, history, PatientInv,
     TInv, TypeOK
  <2>2. QED
    BY <1>3, <2>1, StillWorking
<1>6. QED
  BY <1>4, <1>5

\* The manager of xray is made.
LEMMA NewXrayStep ==
  ASSUME PatientInv, TInv', NEW s \in Starts, NewXray(s)
  PROVE  PatientInv'
<1>1. Alone(Starter(s)) /\ Builds(s)
  BY WhoBuilds DEF NewXray, BuildLabels, CoreLabels
<1>2. PICK l \in {"launch"} : pc' = [pc EXCEPT ![Starter(s)] = l]
  BY <1>1 DEF NewXray, Goto,
     Builds, BuildLabels, CoreLabels, HasXray, HasProxy, Named, KindFits,
     ListenerFits, CoreFits, engine, handles, objects, locals, frames, history, PatientInv,
     TInv, TypeOK
<1>3. pc'[Starter(s)] = l /\ Alone(Starter(s))'
  BY <1>1, <1>2, MovesOn, ThreadNames DEF PatientInv
<1>4. Builds(s)'
  BY <1>1, <1>3, EngineAssumption DEF NewXray, Goto,
     Builds, BuildLabels, CoreLabels, HasXray, HasProxy, Named, KindFits,
     ListenerFits, CoreFits, engine, handles, objects, locals, frames, history, PatientInv,
     TInv, TypeOK
<1>5. QED
  BY <1>3, <1>4, StillWorking

\* It is the worker's own, and runs nothing yet.
LEMMA LaunchXrayStep ==
  ASSUME PatientInv, TInv', NEW s \in Starts, LaunchXray(s)
  PROVE  PatientInv'
<1>1. Alone(Starter(s)) /\ Builds(s)
  BY WhoBuilds DEF LaunchXray, BuildLabels, CoreLabels
<1>2. PICK l \in {"spawn"} : pc' = [pc EXCEPT ![Starter(s)] = l]
  BY <1>1, EngineAssumption DEF LaunchXray, Raise, Goto,
     Builds, BuildLabels, CoreLabels, HasXray, HasProxy, Named, KindFits,
     ListenerFits, CoreFits, engine, handles, objects, locals, frames, history, PatientInv,
     TInv, TypeOK
<1>3. pc'[Starter(s)] = l /\ Alone(Starter(s))'
  BY <1>1, <1>2, MovesOn, ThreadNames DEF PatientInv
<1>4. Builds(s)'
  BY <1>1, <1>3, EngineAssumption DEF LaunchXray, Raise, Goto,
     Builds, BuildLabels, CoreLabels, HasXray, HasProxy, Named, KindFits,
     ListenerFits, CoreFits, engine, handles, objects, locals, frames, history, PatientInv,
     TInv, TypeOK
<1>5. QED
  BY <1>3, <1>4, StillWorking

\* The process is started, or cannot be.
LEMMA SpawnXrayStep ==
  ASSUME PatientInv, TInv', NEW s \in Starts, SpawnXray(s)
  PROVE  PatientInv'
<1>1. Alone(Starter(s)) /\ Builds(s)
  BY WhoBuilds DEF SpawnXray, BuildLabels, CoreLabels
<1>2. PICK l \in {"verify", "settle"} : pc' = [pc EXCEPT ![Starter(s)] = l]
  BY <1>1 DEF SpawnXray, Goto,
     Builds, BuildLabels, CoreLabels, HasXray, HasProxy, Named, KindFits,
     ListenerFits, CoreFits, engine, handles, objects, locals, frames, history, PatientInv,
     TInv, TypeOK
<1>3. pc'[Starter(s)] = l /\ Alone(Starter(s))'
  BY <1>1, <1>2, MovesOn, ThreadNames DEF PatientInv
<1>4. Builds(s)'
  BY <1>1, <1>3, EngineAssumption DEF SpawnXray, Goto,
     Builds, BuildLabels, CoreLabels, HasXray, HasProxy, Named, KindFits,
     ListenerFits, CoreFits, engine, handles, objects, locals, frames, history, PatientInv,
     TInv, TypeOK
<1>5. QED
  BY <1>3, <1>4, StillWorking

\* XrayManager.stop() ends the process that goes by h, and keeps the count.
LEMMA Ends ==
  ASSUME TInv, NEW h \in Handle, StopXray(h),
         \A u \in Starts : procs[u] = IF ref[u] THEN 1 ELSE 0
  PROVE  \A u \in Starts : /\ ref'[u] <=> ref[u] /\ u # h
                          /\ procs'[u] = IF ref'[u] THEN 1 ELSE 0
<1>1. CASE h # None /\ ref[h]
  <2>1. h \in Starts
    BY <1>1 DEF Handle
  <2>2. procs' = [procs EXCEPT ![h] = procs[h] - 1] /\ ref' = [ref EXCEPT ![h] = FALSE]
    BY <1>1 DEF StopXray
  <2>3. procs[h] = 1 /\ procs'[h] = 0 /\ ~ref'[h]
    BY <1>1, <2>1, <2>2 DEF TInv, TypeOK
  <2>4. \A u \in Starts : u # h => procs'[u] = procs[u] /\ ref'[u] = ref[u]
    BY <2>2 DEF TInv, TypeOK
  <2>5. QED
    BY <2>3, <2>4
<1>2. CASE ~(h # None /\ ref[h])
  BY <1>2, EngineAssumption DEF StopXray, Handle
<1>3. QED
  BY <1>1, <1>2

\* It is still there, or has ended.
LEMMA SettleXrayStep ==
  ASSUME PatientInv, TInv', NEW s \in Starts, SettleXray(s)
  PROVE  PatientInv'
<1>1. Alone(Starter(s)) /\ Builds(s) /\ pc[Starter(s)] = "settle"
  BY WhoBuilds DEF SettleXray, BuildLabels, CoreLabels
<1>2. pc'[Starter(s)] = "verify" /\ Alone(Starter(s))'
  BY <1>1, MovesOn, ThreadNames DEF PatientInv, SettleXray, Goto
<1>3. target[s] = s /\ Named(xray, proxy, mgr)
  BY <1>1 DEF Builds, CoreFits
<1>4. \A u \in Starts : (ref'[u] => ref[u]) /\ procs'[u] = IF ref'[u] THEN 1 ELSE 0
  <2>1. CASE UNCHANGED <<procs, ref>>
    BY <1>3, <2>1 DEF Named
  <2>2. CASE StopXray(target[s])
    BY <1>3, <2>2, Ends DEF Named, PatientInv, Handle
  <2>3. QED
    BY <2>1, <2>2 DEF SettleXray
<1>5. Builds(s)'
  BY <1>1, <1>2, <1>3, <1>4 DEF SettleXray, Builds, BuildLabels, CoreLabels, HasXray, HasProxy,
     Named, KindFits, ListenerFits, CoreFits, engine, handles, objects
<1>6. QED
  BY <1>2, <1>5, StillWorking

\* The worker's own manager is asked again.
LEMMA VerifyXrayStep ==
  ASSUME PatientInv, TInv', NEW s \in Starts, VerifyXray(s)
  PROVE  PatientInv'
<1>1. Alone(Starter(s)) /\ Builds(s)
  BY WhoBuilds DEF VerifyXray, BuildLabels, CoreLabels
<1>2. PICK l \in {"commit", "claim"} : pc' = [pc EXCEPT ![Starter(s)] = l]
  BY <1>1 DEF VerifyXray, CallStop, Goto,
     Builds, BuildLabels, CoreLabels, HasXray, HasProxy, Named, KindFits,
     ListenerFits, CoreFits, engine, handles, objects, locals, frames, history, PatientInv,
     TInv, TypeOK
<1>3. pc'[Starter(s)] = l /\ Alone(Starter(s))'
  BY <1>1, <1>2, MovesOn, ThreadNames DEF PatientInv
<1>4. CASE l = "claim"
  <2>1. Claims(Starter(s))'
    BY <1>1, <1>3, <1>4, EngineAssumption DEF VerifyXray, CallStop, Goto, Claims, Still,
       Builds, BuildLabels, CoreLabels, HasXray, HasProxy, Named, KindFits,
     ListenerFits, CoreFits, engine, handles, objects, locals, frames, history, PatientInv,
     TInv, TypeOK
  <2>2. QED
    BY <1>3, <2>1, StillStopping, ThreadNames
<1>5. CASE l # "claim"
  <2>1. Builds(s)'
    BY <1>1, <1>3, <1>5, EngineAssumption DEF VerifyXray, CallStop, Goto,
       Builds, BuildLabels, CoreLabels, HasXray, HasProxy, Named, KindFits,
     ListenerFits, CoreFits, engine, handles, objects, locals, frames, history, PatientInv,
     TInv, TypeOK
  <2>2. QED
    BY <1>3, <2>1, StillWorking
<1>6. QED
  BY <1>4, <1>5

\* Nothing has superseded the worker: it commits.
LEMMA CommitStep ==
  ASSUME PatientInv, TInv', NEW s \in Starts, Commit(s)
  PROVE  PatientInv'
<1>1. Alone(Starter(s)) /\ Builds(s) /\ pc[Starter(s)] = "commit"
  BY WhoBuilds DEF Commit, BuildLabels
<1>2. myEpoch[s] = epoch
  BY <1>1 DEF Builds
<1>3. pc'[Starter(s)] = "sysproxy" /\ Alone(Starter(s))'
  BY <1>1, <1>2, MovesOn, ThreadNames DEF PatientInv, Commit, Goto
<1>4. Enables(s)'
  BY <1>1, <1>2, <1>3 DEF Commit, Builds, BuildLabels, CoreLabels, HasXray, HasProxy, KindFits,
     ListenerFits, CoreFits, Enables, GreenLabels, Whole, Named, Still, Undoable, engine,
       handles, objects, locals, frames,
     history
<1>5. QED
  BY <1>3, <1>4, StillWorking

\* The worker ends, and with it or with its self-test the session is at rest.
LEMMA FinishStep ==
  ASSUME TInv, TInv', NEW s \in Starts, Alone(Starter(s)), Finish(s), Whole(s)', Undoable(s)'
  PROVE  PatientInv'
<1>1. CASE kind[s] = "forward"
  <2>1. \A t \in Threads : pc'[t] = IF t = Starter(s) THEN "done"
                                    ELSE IF t = Tester(s) THEN "off" ELSE pc[t]
    BY <1>1, ThreadNames DEF Finish, TInv, TypeOK
  <2>2. Calm'
    BY <2>1 DEF Calm, Busy, Alone
  <2>3. Rest'
    BY DEF Rest, Whole
  <2>4. QED
    BY <2>2, <2>3, ComesToRest
<1>2. CASE kind[s] # "forward"
  <2>1. \A t \in Threads : pc'[t] = IF t = Starter(s) THEN "done"
                                    ELSE IF t = Tester(s) THEN "testing" ELSE pc[t]
    BY <1>2, ThreadNames DEF Finish, TInv, TypeOK
  <2>2. Alone(Tester(s))' /\ Tests(s)'
    BY <2>1, ThreadNames DEF Alone, Busy, Tests
  <2>3. QED
    BY <2>2, StillTesting
<1>3. QED
  BY <1>1, <1>2

\* The handle of the OS proxy is forgotten; there is none set.
LEMMA ForgetStep ==
  ASSUME PatientInv, TInv', NEW s \in Starts, ForgetSystemProxy(s)
  PROVE  PatientInv'
<1>1. Alone(Starter(s)) /\ Enables(s) /\ pc[Starter(s)] = "sysproxy"
  BY WhoEnables DEF ForgetSystemProxy, GreenLabels
<1>2. Whole(s)' /\ UNCHANGED osProxy /\ osProxy = None /\ sysproxy' = None
  BY <1>1 DEF ForgetSystemProxy, Enables, Whole, Named, Still, Undoable, engine, handles,
     objects, locals, frames,
     history
<1>3. CASE Goto(Starter(s), "osenable")
  <2>1. pc'[Starter(s)] = "osenable" /\ Alone(Starter(s))'
    BY <1>1, <1>3, MovesOn, ThreadNames DEF PatientInv, Goto
  <2>2. QED
    BY <1>2, <2>1, StillWorking DEF Enables, GreenLabels
<1>4. CASE Finish(s)
  BY <1>1, <1>2, <1>4, FinishStep DEF PatientInv, Undoable
<1>5. QED
  BY <1>3, <1>4 DEF ForgetSystemProxy

\* The OS proxy is pointed at the session, or not.
LEMMA EnableStep ==
  ASSUME PatientInv, TInv', NEW s \in Starts, EnableSystemProxy(s)
  PROVE  PatientInv'
<1>1. Alone(Starter(s)) /\ Enables(s) /\ pc[Starter(s)] = "osenable"
  BY WhoEnables DEF EnableSystemProxy, GreenLabels
<1>2. Whole(s)' /\ osProxy = None /\ sysproxy' = None
  BY <1>1 DEF EnableSystemProxy, Enables, Whole, Named, Still, Undoable, engine, handles,
     objects, locals, frames,
     history
<1>3. CASE osProxy' = s /\ Goto(Starter(s), "osassign")
  <2>1. pc'[Starter(s)] = "osassign" /\ Alone(Starter(s))'
    BY <1>1, <1>3, MovesOn, ThreadNames DEF PatientInv, Goto
  <2>2. QED
    BY <1>2, <1>3, <2>1, StillWorking DEF Enables, GreenLabels
<1>4. CASE Finish(s) /\ UNCHANGED osProxy
  BY <1>1, <1>2, <1>4, FinishStep DEF PatientInv, Undoable
<1>5. QED
  BY <1>3, <1>4 DEF EnableSystemProxy

\* The handle is kept: the OS proxy can be undone.
LEMMA KeepStep ==
  ASSUME PatientInv, TInv', NEW s \in Starts, KeepSystemProxy(s)
  PROVE  PatientInv'
<1>1. Alone(Starter(s)) /\ Enables(s)
  BY WhoEnables DEF KeepSystemProxy, GreenLabels
<1>2. Whole(s)' /\ Undoable(s)'
  BY <1>1 DEF KeepSystemProxy, Enables, Whole, Named, Still, Undoable, engine, handles,
     objects, locals, frames,
     history
<1>3. QED
  BY <1>1, <1>2, FinishStep DEF PatientInv, KeepSystemProxy

\* The self-test is content, or demotes the session.
LEMMA TestStep ==
  ASSUME PatientInv, TInv', NEW s \in Starts, TestEnds(s) \/ Demote(s)
  PROVE  PatientInv'
<1>1. Alone(Tester(s)) /\ Tests(s)
  BY WhoTests DEF TestEnds, Demote
<1>2. CASE TestEnds(s)
  <2>1. Calm'
    BY <1>1, <1>2, MovesOn, ThreadNames DEF PatientInv, TestEnds, Goto
  <2>2. Rest'
    BY <1>1, <1>2 DEF TestEnds, Tests, Rest, Whole, Named, Still, Undoable, engine, handles,
       objects, locals, frames,
     history
  <2>3. QED
    BY <2>1, <2>2, ComesToRest
<1>3. CASE Demote(s)
  <2>1. pc'[Tester(s)] = "claim" /\ Alone(Tester(s))'
    BY <1>1, <1>3, MovesOn, ThreadNames DEF PatientInv, Demote, CallStop, Goto
  <2>2. Claims(Tester(s))'
    BY <1>1, <1>3, <2>1, EngineAssumption DEF Demote, Tests, Claims, Whole, Named, Still,
       Undoable, engine, handles, objects, locals, frames,
     history
  <2>3. QED
    BY <2>1, <2>2, StillStopping, ThreadNames
<1>4. QED
  BY <1>2, <1>3

\* stop() takes the handles, and with them all there is.
LEMMA ClaimStep ==
  ASSUME PatientInv, TInv', NEW t \in Threads, StopClaim(t)
  PROVE  PatientInv'
<1>1. Alone(t) /\ Claims(t)
  BY WhoClaims DEF StopClaim
<1>2. pc'[t] = "disable" /\ Alone(t)'
  BY <1>1, MovesOn DEF PatientInv, StopClaim, Goto
<1>3. held'[t] = [xray |-> xray, proxy |-> proxy, sysproxy |-> sysproxy]
  BY DEF StopClaim, PatientInv, TInv, TypeOK
<1>4. Stops(t)'
  BY <1>1, <1>2, <1>3 DEF StopClaim, Claims, Stops, StopLabels, NoHandle, Named, Still, objects
<1>5. QED
  BY <1>2, <1>4, StillStopping

\* The OS proxy is undone if there is one.
LEMMA DisableStep ==
  ASSUME PatientInv, TInv', NEW t \in Threads, StopDisable(t)
  PROVE  PatientInv'
<1>1. Alone(t) /\ Stops(t) /\ pc[t] = "disable"
  BY WhoStops DEF StopDisable, StopLabels
<1>2. pc'[t] = "xstop" /\ Alone(t)'
  BY <1>1, MovesOn DEF PatientInv, StopDisable, Goto
<1>3. Stops(t)'
  BY <1>1, <1>2 DEF StopDisable, Stops, StopLabels, NoHandle, Named, Still, handles, frames
<1>4. QED
  BY <1>2, <1>3, StillStopping

\* The one process there may be ends.
LEMMA XrayStep ==
  ASSUME PatientInv, TInv', NEW t \in Threads, StopXrayStep(t)
  PROVE  PatientInv'
<1>1. Alone(t) /\ Stops(t) /\ pc[t] = "xstop"
  BY WhoStops DEF StopXrayStep, StopLabels
<1>2. pc'[t] = "pstop" /\ Alone(t)'
  BY <1>1, MovesOn DEF PatientInv, StopXrayStep, Goto
<1>3. Named(held[t].xray, held[t].proxy, mgr)
  BY <1>1 DEF Stops
<1>4. \A u \in Starts : ~ref'[u] /\ procs'[u] = 0
  <2>1. held[t].xray \in Handle
    BY DEF PatientInv, TInv, TypeOK, Snapshot
  <2>2. QED
    BY <1>3, <2>1, Ends DEF PatientInv, Named, StopXrayStep
<1>5. Stops(t)'
  BY <1>1, <1>2, <1>4 DEF StopXrayStep, Stops, StopLabels, NoHandle, Named, Still, handles,
     frames
<1>6. QED
  BY <1>2, <1>5, StillStopping

\* The one listener there may be closes.
LEMMA ProxyStep ==
  ASSUME PatientInv, TInv', NEW t \in Threads, StopProxyStep(t)
  PROVE  PatientInv'
<1>1. Alone(t) /\ Stops(t) /\ pc[t] = "pstop"
  BY WhoStops DEF StopProxyStep, StopLabels
<1>2. PICK l \in {"poolstop", "pjoin"} : pc' = [pc EXCEPT ![t] = l]
  BY DEF StopProxyStep, Goto
<1>3. pc'[t] = l /\ Alone(t)'
  BY <1>1, <1>2, MovesOn DEF PatientInv
<1>4. /\ held[t].proxy \in Handle
      /\ listener \in [Starts -> {"new", "starting", "serving", "closing", "down"}]
  BY DEF PatientInv, TInv, TypeOK, Snapshot
<1>5. \A u \in Starts : listener'[u] \notin {"serving", "starting"}
  BY <1>1, <1>4, EngineAssumption DEF StopProxyStep, StopListener, Stops, Named, Still, Handle,
     StopLabels
<1>6. Stops(t)'
  BY <1>1, <1>3, <1>5 DEF StopProxyStep, Stops, StopLabels, NoHandle, Named, handles, frames
<1>7. QED
  BY <1>3, <1>6, StillStopping

\* The join returns; nothing is served any more.
LEMMA JoinStep ==
  ASSUME PatientInv, TInv', NEW t \in Threads, StopProxyJoin(t)
  PROVE  PatientInv'
<1>1. Alone(t) /\ Stops(t) /\ pc[t] = "pjoin"
  BY WhoStops DEF StopProxyJoin, StopLabels
<1>2. pc'[t] = "poolstop" /\ Alone(t)'
  BY <1>1, MovesOn DEF PatientInv, StopProxyJoin, Goto
<1>3. Stops(t)'
  BY <1>1, <1>2 DEF StopProxyJoin, Stops, StopLabels, NoHandle, Named, handles, objects, frames
<1>4. QED
  BY <1>2, <1>3, StillStopping

\* The manager there may be goes, and the light is next.
LEMMA PoolStopStep ==
  ASSUME PatientInv, TInv', NEW t \in Threads, StopPool(t)
  PROVE  PatientInv'
<1>1. Alone(t) /\ Stops(t) /\ pc[t] = "poolstop"
  BY WhoStops DEF StopPool, StopLabels
<1>2. pc'[t] = "setidle" /\ Alone(t)'
  BY <1>1, MovesOn DEF PatientInv, StopPool, Goto
<1>3. \A u \in Starts : ~poolUp'[u]
  BY <1>1 DEF StopPool, Stops, Named
<1>4. Stops(t)'
  BY <1>1, <1>2, <1>3 DEF StopPool, Stops, StopLabels, NoHandle, Named, frames
<1>5. QED
  BY <1>2, <1>4, StillStopping

\* stop() is over: nothing is left, and its caller may have an error to report.
LEMMA IdleStep ==
  ASSUME PatientInv, TInv', NEW t \in Threads, StopSetIdle(t)
  PROVE  PatientInv'
<1>1. Alone(t) /\ Stops(t) /\ pc[t] = "setidle"
  BY WhoStops DEF StopSetIdle, StopLabels
<1>2. PICK l \in {"seterror", "off", "done"} : pc' = [pc EXCEPT ![t] = l]
  BY DEF StopSetIdle, Goto
<1>3. pc'[t] = l
  BY <1>1, <1>2, MovesOn DEF PatientInv
<1>4. CASE l = "seterror"
  <2>1. Stops(t)'
    BY <1>1, <1>3, <1>4 DEF StopSetIdle, Stops, StopLabels, NoHandle, Named, handles, objects
  <2>2. QED
    BY <1>1, <1>2, <1>4, <2>1, MovesOn, StillStopping DEF PatientInv
<1>5. CASE l # "seterror"
  <2>1. Rest'
    BY <1>1 DEF StopSetIdle, Stops, StopLabels, Rest, Cleared, NoHandle, Named, handles,
       objects
  <2>2. QED
    BY <1>1, <1>2, <1>5, <2>1, MovesOn, ComesToRest DEF PatientInv
<1>6. QED
  BY <1>4, <1>5

\* The failed start's error is the last word.
LEMMA ErrorStep ==
  ASSUME PatientInv, TInv', NEW t \in Threads, SetError(t)
  PROVE  PatientInv'
<1>1. Alone(t) /\ Stops(t) /\ pc[t] = "seterror"
  BY WhoStops DEF SetError
<1>2. Calm'
  BY <1>1, MovesOn DEF PatientInv, SetError, Goto
<1>3. Rest'
  BY <1>1 DEF SetError, Stops, StopLabels, Rest, Cleared, NoHandle, Named, handles, objects
<1>4. QED
  BY <1>2, <1>3, ComesToRest
\* A listener comes up, or fails, while its own worker waits for it.
LEMMA ListenerStep ==
  ASSUME PatientInv, TInv', NEW h \in Starts, ListenerUp(h) \/ ListenerFails(h)
  PROVE  PatientInv'
<1>1. listener[h] = "starting"
  BY DEF ListenerUp, ListenerFails
<1>2. ~Rest
  BY <1>1 DEF Rest, Whole, Still, Cleared
<1>3. PICK t \in Threads : Alone(t) /\ Place(t)
  BY <1>2 DEF PatientInv
<1>4. ~Claims(t) /\ ~Stops(t) /\ \A s \in Starts : ~Tests(s) /\ ~Enables(s)
  BY <1>1 DEF Claims, Stops, StopLabels, Tests, Enables, Whole, Still
<1>5. PICK s \in Starts : t = Starter(s) /\ Builds(s)
  BY <1>3, <1>4 DEF Place
<1>6. s = h /\ pc[Starter(s)] = "pwait"
  BY <1>1, <1>5 DEF Builds, ListenerFits
<1>7. UNCHANGED <<pc, status>> /\ listener'[h] \in {"serving", "down"}
      /\ \A u \in Starts : u # h => listener'[u] = listener[u]
  BY <1>5 DEF ListenerUp, ListenerFails, Downgrade, Builds, engine, PatientInv, TInv, TypeOK
<1>8. Builds(s)'
  BY <1>1, <1>5, <1>6, <1>7 DEF ListenerUp, ListenerFails, Builds, BuildLabels, CoreLabels,
     HasXray, HasProxy, Named,
     KindFits, ListenerFits, CoreFits,
     engine, handles, locals
<1>9. Alone(Starter(s))'
  BY <1>3, <1>5, <1>7 DEF Alone, Busy
<1>10. QED
  BY <1>8, <1>9, StillWorking

\* A listener that was closed unwinds when stop() has gone on, or is over.
LEMMA ListenerEndsStep ==
  ASSUME Patience, PatientInv, TInv', NEW h \in Starts, ListenerEnds(h)
  PROVE  PatientInv'
<1>1. listener[h] = "closing" /\ UNCHANGED pc
  BY DEF ListenerEnds, Patience
<1>2. listener'[h] = "down" /\ \A u \in Starts : u # h => listener'[u] = listener[u]
  BY DEF ListenerEnds, PatientInv, TInv, TypeOK
<1>3. CASE Calm /\ Rest
  <2>1. status # "active" /\ Cleared
    BY <1>1, <1>3 DEF Rest, Whole, Still
  <2>2. Rest'
    BY <1>2, <2>1 DEF ListenerEnds, Downgrade, Rest, Cleared, NoHandle, handles
  <2>3. QED
    BY <1>1, <1>3, <2>2, ComesToRest DEF Calm, Busy
<1>4. ASSUME NEW t \in Threads, Alone(t), Place(t) PROVE PatientInv'
  <2>1. ~Claims(t) /\ \A s \in Starts : ~Builds(s) /\ ~Tests(s) /\ ~Enables(s)
    BY <1>1 DEF Claims, Builds, ListenerFits, Tests, Enables, Whole, Still
  <2>2. Stops(t)
    BY <1>4, <2>1 DEF Place
  <2>3. Stops(t)'
    BY <1>1, <1>2, <2>2 DEF ListenerEnds, Stops, StopLabels, NoHandle, Named, Still,
       handles, frames
  <2>4. QED
    BY <1>1, <1>4, <2>3, StillStopping DEF Alone, Busy
<1>5. QED
  BY <1>3, <1>4 DEF PatientInv

\* A worker that is current drops nothing, and the binary is there.
LEMMA NeverHere ==
  ASSUME Patience, PatientInv, NEW s \in Starts,
         NoBinary(s) \/ DropXray(s) \/ DropProxy(s) \/ DropJoin(s)
  PROVE  FALSE
<1>1. CASE NoBinary(s)
  BY <1>1 DEF NoBinary, Patience
<1>2. CASE DropXray(s) \/ DropProxy(s) \/ DropJoin(s)
  BY <1>2, WhoBuilds DEF DropXray, DropProxy, DropJoin, Builds, BuildLabels, CoreLabels
<1>3. QED
  BY <1>1, <1>2

\* Nothing exists at the start.
LEMMA PatientStart == Init => PatientInv
<1> SUFFICES ASSUME Init PROVE PatientInv
  OBVIOUS
<1>1. TInv
  BY TypeInit
<1>2. Calm /\ Rest
  BY DEF Init, Calm, Busy, Rest, Cleared, NoHandle
<1>3. QED
  BY <1>1, <1>2 DEF PatientInv

\* Every step of a patient user's engine keeps the invariant.
LEMMA PatientStep ==
  ASSUME Patience
  PROVE  PatientInv /\ [Next]_vars => PatientInv'
<1> SUFFICES ASSUME PatientInv, [Next]_vars PROVE PatientInv'
  OBVIOUS
<1>1. TInv'
  BY TypeNext DEF PatientInv
<1>2. ASSUME NEW s \in Starts, Work(s) PROVE PatientInv'
  BY <1>1, <1>2, RouteStep, RaisedStep, FaultedStep, BuildPoolStep, NewProxyStep,
     StartProxyStep,
     AwaitProxyStep, NewXrayStep, LaunchXrayStep, SpawnXrayStep, SettleXrayStep,
     VerifyXrayStep, CommitStep, ForgetStep, EnableStep, KeepStep, NeverHere DEF Work
<1>3. ASSUME NEW t \in Threads, Stop(t) PROVE PatientInv'
  BY <1>1, <1>3, ClaimStep, DisableStep, XrayStep, ProxyStep, JoinStep, PoolStopStep, IdleStep,
     ErrorStep DEF Stop
<1>4. ASSUME NEW s \in Starts, UiStart(s) \/ TestEnds(s) \/ Demote(s) \/ Listener(s)
      PROVE  PatientInv'
  BY <1>1, <1>4, StartStep, TestStep, ListenerStep, ListenerEndsStep DEF Listener
<1>5. CASE UiStop
  BY <1>1, <1>5, UiStopStep
<1>6. CASE UNCHANGED vars
  <2>1. \A t \in Threads : (Alone(t) <=> Alone(t)') /\ (Place(t) <=> Place(t)')
    BY <1>6 DEF vars, Alone, Busy, Place, Builds, Enables, Tests, Claims, Stops, Whole, Named,
       Still, Undoable, NoHandle, ListenerFits, CoreFits, engine, handles, objects, locals,
       frames, history
  <2>2. (Calm <=> Calm') /\ (Rest <=> Rest')
    BY <1>6 DEF vars, Calm, Busy, Rest, Cleared, Whole, Named, Still, Undoable, NoHandle,
       engine, handles, objects, locals, history
  <2>3. QED
    BY <1>1, <2>1, <2>2 DEF PatientInv
<1>7. QED
  BY <1>2, <1>3, <1>4, <1>5, <1>6 DEF Next

\* For a patient user one thread is at work at a time, and where it is tells what
\* exists and which handle it goes by.
THEOREM PatientInvariant == ASSUME Patience PROVE Spec => []PatientInv
<1>1. QED
  BY PatientStart, PatientStep, PTL DEF Spec

\* A patient user who finds the engine off finds nothing of any session left: no
\* process, no listener, no health loop, no OS proxy.
THEOREM PatientOff == ASSUME Patience PROVE Spec => []OffMeansClean
<1>1. PatientInv => OffMeansClean
  BY DEF PatientInv, OffMeansClean, Quiet, Alone, Busy, Rest, Cleared, TInv, TypeOK
<1>2. QED
  BY <1>1, PatientInvariant, PTL

\* A patient user who finds the engine green finds every handle its owner's, one
\* process for it and no other, and an OS proxy that can be undone.
THEOREM PatientGreen == ASSUME Patience PROVE Spec => []GreenOwnsChain
<1>1. PatientInv => GreenOwnsChain
  BY EngineAssumption DEF PatientInv, GreenOwnsChain, Quiet, Alone, Busy, Rest, Whole, Named,
     Undoable
<1>2. QED
  BY <1>1, PatientInvariant, PTL
=============================================================================
