--------------------------- MODULE EngineLifecycle ---------------------------
(***************************************************************************)
(* The Start/Stop life of core/engine.py's EngineController: one GUI       *)
(* thread that calls start() and stop(), one worker thread per start()     *)
(* that builds the session (spoofer listener, xray process, route pool, OS *)
(* proxy), one self-test thread per session that may demote it, and the    *)
(* spoofer's own listener thread, whose callback writes the status.        *)
(*                                                                         *)
(* Only start()'s claim, _commit_active, the demotion and the handle swap  *)
(* at the top of stop() run under EngineController._lock; every other step *)
(* is an action of its own, because the threads really interleave there.   *)
(* The handles _xray, _proxy, _system_proxy and conn_manager are fields of *)
(* the one controller, shared by every session; an object is named by the  *)
(* start that created it.                                                  *)
(***************************************************************************)
EXTENDS Naturals

CONSTANTS
  Starts,         \* the start() calls of a behaviour; each owns its objects
  None,           \* Python's None in a handle
  Kinds,          \* which of "direct", "spoof", "forward" the user may select
  Patient,        \* the user waits for every worker to end before clicking
  HasPool,        \* the configuration may resolve to several (IP, SNI) pairs
  SystemProxyOn,  \* config["system_proxy"]
  BinaryMissing,  \* xray.exe may be absent
  SlowListener,   \* the listener may outlast ProxyServer.start()'s 10 s wait
  ListenerCrash,  \* the accept loop may die of an OSError of its own
  MaxStops        \* bound: stop() calls the GUI makes

ASSUME EngineAssumption ==
  /\ None \notin Starts
  /\ Kinds \subseteq {"direct", "spoof", "forward"}
  /\ {Patient, HasPool, SystemProxyOn, BinaryMissing, SlowListener, ListenerCrash}
       \subseteq BOOLEAN
  /\ MaxStops \in Nat

Ui == <<"ui", None>>
Starter(s) == <<"starter", s>>
Tester(s) == <<"tester", s>>
Threads == {Ui} \cup {Starter(s) : s \in Starts} \cup {Tester(s) : s \in Starts}

Handle == Starts \cup {None}

\* stop() after its locked claim; any thread may be in there.
StopLabels == {"disable", "xstop", "pstop", "pjoin", "poolstop", "setidle"}
Labels == {"off", "route", "xnew", "launch", "spawn", "settle", "verify", "pool",
           "pnew", "pstart", "pwait", "commit", "dropxray", "dropproxy", "dropjoin",
           "sysproxy", "osenable", "osassign", "raised", "faulted", "testing",
           "claim", "seterror", "done"} \cup StopLabels

VARIABLES
  status,      \* EngineController._status
  epoch,       \* _start_epoch
  xray,        \* _xray: the start whose XrayManager the field holds
  proxy,       \* _proxy
  sysproxy,    \* _system_proxy
  mgr,         \* conn_manager
  osProxy,     \* the session whose port the OS proxy setting points at
  pc,          \* where each thread is
  kind,        \* what _do_start found: direct tunnel, spoof chain, forwarder
  myEpoch,     \* the epoch argument of each worker
  target,      \* the object a worker's blocking start() call runs on (its own before any)
  launched,    \* what that call returned
  held,        \* stop()'s local snapshot of the handles, per thread
  onReturn,    \* what the caller of stop() writes to the status afterwards
  procs,       \* operating-system processes an XrayManager has started
  ref,         \* its _process field names a live one of them
  listener,    \* the ProxyServer's listener thread
  poolUp,      \* the ConnectionManager's health loop is running
  stops,       \* stop() calls made by the GUI (for MaxStops)
  cancelled,   \* history: a stop() has claimed the engine since this start()
  owner        \* history: the last start that turned the engine green

engine == <<status, epoch>>
handles == <<xray, proxy, sysproxy, mgr>>
objects == <<procs, ref, listener, poolUp, osProxy>>
locals == <<kind, myEpoch, target, launched>>
frames == <<held, onReturn>>
history == <<cancelled, owner>>
vars == <<engine, handles, objects, pc, locals, frames, stops, history>>

Snapshot == [xray : Handle, proxy : Handle, sysproxy : Handle]
NoHandles == [xray |-> None, proxy |-> None, sysproxy |-> None]

TypeOK ==
  /\ status \in {"idle", "connecting", "active", "error"}
  /\ epoch \in Nat /\ stops \in Nat
  /\ xray \in Handle /\ proxy \in Handle /\ sysproxy \in Handle
  /\ mgr \in Handle /\ osProxy \in Handle /\ owner \in Handle
  /\ pc \in [Threads -> Labels]
  /\ kind \in [Starts -> Kinds \cup {None}]
  /\ myEpoch \in [Starts -> Nat]
  /\ target \in [Starts -> Starts]
  /\ launched \in [Starts -> BOOLEAN]
  /\ held \in [Threads -> Snapshot]
  /\ onReturn \in [Threads -> {"none", "error"}]
  /\ procs \in [Starts -> Nat]
  /\ ref \in [Starts -> BOOLEAN]
  /\ listener \in [Starts -> {"new", "starting", "serving", "closing", "down"}]
  /\ poolUp \in [Starts -> BOOLEAN]
  /\ cancelled \in [Starts -> BOOLEAN]

Init ==
  /\ status = "idle" /\ epoch = 0 /\ stops = 0
  /\ xray = None /\ proxy = None /\ sysproxy = None /\ mgr = None
  /\ osProxy = None /\ owner = None
  /\ pc = [t \in Threads |-> "off"]
  /\ kind = [s \in Starts |-> None]
  /\ myEpoch = [s \in Starts |-> 0]
  /\ target = [s \in Starts |-> s]
  /\ launched = [s \in Starts |-> FALSE]
  /\ held = [t \in Threads |-> NoHandles]
  /\ onReturn = [t \in Threads |-> "none"]
  /\ procs = [s \in Starts |-> 0]
  /\ ref = [s \in Starts |-> FALSE]
  /\ listener = [s \in Starts |-> "new"]
  /\ poolUp = [s \in Starts |-> FALSE]
  /\ cancelled = [s \in Starts |-> FALSE]
-----------------------------------------------------------------------------
Goto(t, label) == pc' = [pc EXCEPT ![t] = label]

\* t calls stop(); when it returns, t writes r to the status ("none": nothing).
CallStop(t, r) ==
  /\ Goto(t, "claim")
  /\ onReturn' = [onReturn EXCEPT ![t] = r]

\* Mutant of StopXray: "if self._process" is gone.
StopXrayUnguarded(h) ==
  IF h # None
  THEN /\ procs' = [procs EXCEPT ![h] = @ - 1]
       /\ ref' = [ref EXCEPT ![h] = FALSE]
  ELSE UNCHANGED <<procs, ref>>

\* XrayManager.stop(): terminates the process its _process field names.
StopXray(h) ==
  IF h # None /\ ref[h]
  THEN /\ procs' = [procs EXCEPT ![h] = @ - 1]
       /\ ref' = [ref EXCEPT ![h] = FALSE]
  ELSE UNCHANGED <<procs, ref>>

\* ProxyServer.stop() up to the join: a serving loop sees _running turn False;
\* one still starting overwrites that flag, unless its socket is already open
\* and the close kills it.
StopListener(h) ==
  IF h = None THEN UNCHANGED listener
  ELSE \/ /\ listener[h] = "serving"
          /\ listener' = [listener EXCEPT ![h] = "closing"]
       \/ /\ listener[h] = "starting"
          /\ listener' = [listener EXCEPT ![h] = "closing"]
       \/ /\ listener[h] # "serving"
          /\ UNCHANGED listener

\* _on_proxy_status(False): whoever's listener reports, a green engine goes idle.
Downgrade == status' = IF status = "active" THEN "idle" ELSE status

\* No thread of the engine is at work.
Quiet ==
  /\ \A t \in Threads : pc[t] \in {"off", "done"}
  /\ \A s \in Starts : listener[s] \notin {"starting", "closing"}

(***************************************************************************)
(* The GUI thread: the two buttons.                                        *)
(***************************************************************************)
UiStart(s) ==
  /\ pc[Ui] = "off" /\ pc[Starter(s)] = "off"
  /\ Patient => Quiet
  /\ status \notin {"connecting", "active"}
  /\ epoch' = epoch + 1
  /\ status' = "connecting"
  /\ myEpoch' = [myEpoch EXCEPT ![s] = epoch']
  /\ Goto(Starter(s), "route")
  /\ UNCHANGED <<handles, objects, kind, target, launched, frames, stops, history>>

UiStop ==
  /\ pc[Ui] = "off" /\ stops < MaxStops
  /\ Patient => Quiet
  /\ stops' = stops + 1
  /\ CallStop(Ui, "none")
  /\ UNCHANGED <<engine, handles, objects, locals, held, history>>

(***************************************************************************)
(* stop(), whoever calls it.                                               *)
(***************************************************************************)
\* Mutant of StopClaim: stop() takes the handles but not the epoch.
StopClaimKeepsEpoch(t) ==
  /\ pc[t] = "claim"
  /\ held' = [held EXCEPT ![t] = [xray |-> xray, proxy |-> proxy, sysproxy |-> sysproxy]]
  /\ xray' = None /\ proxy' = None /\ sysproxy' = None
  /\ cancelled' = [s \in Starts |-> cancelled[s] \/ pc[Starter(s)] # "off"]
  /\ Goto(t, "disable")
  /\ UNCHANGED <<engine, mgr, objects, locals, onReturn, stops, owner>>

StopClaim(t) ==
  /\ pc[t] = "claim"
  /\ epoch' = epoch + 1
  /\ held' = [held EXCEPT ![t] = [xray |-> xray, proxy |-> proxy, sysproxy |-> sysproxy]]
  /\ xray' = None /\ proxy' = None /\ sysproxy' = None
  /\ cancelled' = [s \in Starts |-> cancelled[s] \/ pc[Starter(s)] # "off"]
  /\ Goto(t, "disable")
  /\ UNCHANGED <<status, mgr, objects, locals, onReturn, stops, owner>>

StopDisable(t) ==
  /\ pc[t] = "disable"
  /\ osProxy' = IF held[t].sysproxy = None THEN osProxy ELSE None
  /\ Goto(t, "xstop")
  /\ UNCHANGED <<engine, handles, procs, ref, listener, poolUp, locals, frames, stops, history>>

StopXrayStep(t) ==
  /\ pc[t] = "xstop"
  /\ StopXray(held[t].xray)
  /\ Goto(t, "pstop")
  /\ UNCHANGED <<engine, handles, listener, poolUp, osProxy, locals, frames, stops, history>>

StopProxyStep(t) ==
  /\ pc[t] = "pstop"
  /\ StopListener(held[t].proxy)
  /\ Goto(t, IF held[t].proxy = None THEN "poolstop" ELSE "pjoin")
  /\ UNCHANGED <<engine, handles, procs, ref, poolUp, osProxy, locals, frames, stops, history>>

\* The join returns (or times out after 5 s), then stop() makes the callback.
StopProxyJoin(t) ==
  /\ pc[t] = "pjoin"
  /\ Downgrade
  /\ Goto(t, "poolstop")
  /\ UNCHANGED <<epoch, handles, objects, locals, frames, stops, history>>

StopPool(t) ==
  /\ pc[t] = "poolstop"
  /\ poolUp' = [s \in Starts |-> poolUp[s] /\ s # mgr]
  /\ mgr' = None
  /\ Goto(t, "setidle")
  /\ UNCHANGED <<engine, xray, proxy, sysproxy, procs, ref, listener, osProxy,
                 locals, frames, stops, history>>

StopSetIdle(t) ==
  /\ pc[t] = "setidle"
  /\ status' = "idle"
  /\ held' = [held EXCEPT ![t] = NoHandles]
  /\ Goto(t, IF onReturn[t] = "error" THEN "seterror" ELSE IF t = Ui THEN "off" ELSE "done")
  /\ UNCHANGED <<epoch, handles, objects, locals, onReturn, stops, history>>

\* What a failed start or a demotion does after its stop() has returned.
SetError(t) ==
  /\ pc[t] = "seterror"
  /\ status' = "error"
  /\ Goto(t, "done")
  /\ UNCHANGED <<epoch, handles, objects, locals, frames, stops, history>>

Stop(t) ==
  \/ StopClaim(t) \/ StopDisable(t) \/ StopXrayStep(t) \/ StopProxyStep(t)
  \/ StopProxyJoin(t) \/ StopPool(t) \/ StopSetIdle(t) \/ SetError(t)

(***************************************************************************)
(* The worker of start s: _start_blocking around _do_start.                *)
(***************************************************************************)
\* uses_core and chains_spoofer: is a profile selected, and is it a spoof
\* configuration or force_spoof on?
KindOf(hasProfile, spoofed) ==
  IF ~hasProfile THEN "forward" ELSE IF spoofed THEN "spoof" ELSE "direct"

Route(s) ==
  /\ pc[Starter(s)] = "route"
  /\ \E hasProfile, spoofed \in BOOLEAN :
       LET k == KindOf(hasProfile, spoofed) IN
       /\ k \in Kinds
       /\ kind' = [kind EXCEPT ![s] = k]
       /\ Goto(Starter(s), IF k = "direct" THEN "xnew" ELSE "pool")
  /\ UNCHANGED <<engine, handles, objects, myEpoch, target, launched, frames, stops, history>>

\* An exception out of _do_start: an AttributeError on a handle a stop() has
\* taken away, or a failing import or constructor.
Raise(s) == Goto(Starter(s), "raised")

Raised(s) ==
  /\ pc[Starter(s)] = "raised"
  /\ Goto(Starter(s), IF myEpoch[s] = epoch THEN "faulted" ELSE "done")
  /\ UNCHANGED <<engine, handles, objects, locals, frames, stops, history>>

Faulted(s) ==
  /\ pc[Starter(s)] = "faulted"
  /\ status' = "error"
  /\ CallStop(Starter(s), "none")
  /\ UNCHANGED <<epoch, handles, objects, locals, held, stops, history>>

\* _build_pool: forget the old manager, then start one unless a single pair is configured.
BuildPool(s) ==
  /\ pc[Starter(s)] = "pool"
  /\ \E m \in IF HasPool THEN {s, None} ELSE {None} :
       /\ mgr' = m
       /\ poolUp' = [u \in Starts |-> u = m \/ (poolUp[u] /\ u # mgr)]
  /\ Goto(Starter(s), "pnew")
  /\ UNCHANGED <<engine, xray, proxy, sysproxy, procs, ref, listener, osProxy,
                 locals, frames, stops, history>>

NewProxy(s) ==
  /\ pc[Starter(s)] = "pnew"
  /\ \/ Raise(s) /\ UNCHANGED proxy
     \/ proxy' = s /\ Goto(Starter(s), "pstart")
  /\ UNCHANGED <<engine, xray, sysproxy, mgr, objects, locals, frames, stops, history>>

AfterProxy(s) == IF kind[s] = "spoof" THEN "xnew" ELSE "commit"

\* self._proxy.start() resolves the shared field, then spawns the listener thread;
\* an object whose thread is alive answers True at once, one that has found no
\* network interface False.
StartProxy(s) ==
  /\ pc[Starter(s)] = "pstart"
  /\ \/ /\ proxy = None
        /\ Raise(s)
        /\ UNCHANGED <<target, listener, onReturn>>
     \/ /\ proxy # None /\ listener[proxy] \in {"new", "down"}
        /\ target' = [target EXCEPT ![s] = proxy]
        /\ listener' = [listener EXCEPT ![proxy] = "starting"]
        /\ Goto(Starter(s), "pwait")
        /\ UNCHANGED onReturn
     \/ /\ proxy # None /\ listener[proxy] \in {"new", "down"}
        /\ CallStop(Starter(s), "error")
        /\ UNCHANGED <<target, listener>>
     \/ /\ proxy # None /\ listener[proxy] \notin {"new", "down"}
        /\ Goto(Starter(s), AfterProxy(s))
        /\ UNCHANGED <<target, listener, onReturn>>
  /\ UNCHANGED <<engine, handles, procs, ref, poolUp, osProxy, kind, myEpoch, launched,
                 held, stops, history>>

\* Mutant of AwaitProxy: no timeout, and a failed bind does not set _ready_event.
AwaitProxyForever(s) ==
  /\ pc[Starter(s)] = "pwait" /\ listener[target[s]] \in {"serving", "closing"}
  /\ Goto(Starter(s), AfterProxy(s))
  /\ UNCHANGED <<engine, handles, objects, locals, frames, stops, history>>

\* It blocks until the listener is ready, has failed, or ten seconds are over.
AwaitProxy(s) ==
  /\ pc[Starter(s)] = "pwait"
  /\ \/ /\ listener[target[s]] \in {"serving", "closing"}
        /\ Goto(Starter(s), AfterProxy(s))
        /\ UNCHANGED onReturn
     \/ /\ \/ listener[target[s]] \in {"closing", "down"}
           \/ listener[target[s]] = "starting" /\ SlowListener
        /\ CallStop(Starter(s), "error")
  /\ UNCHANGED <<engine, handles, objects, locals, held, stops, history>>

NewXray(s) ==
  /\ pc[Starter(s)] = "xnew"
  /\ xray' = s
  /\ Goto(Starter(s), "launch")
  /\ UNCHANGED <<engine, proxy, sysproxy, mgr, objects, locals, frames, stops, history>>

\* A tunnel without the binary is an error; a spoof chain goes on without xray.
NoBinary(s) ==
  /\ pc[Starter(s)] = "launch" /\ xray # None /\ BinaryMissing
  /\ \/ /\ kind[s] = "direct"
        /\ status' = "error" /\ xray' = None
        /\ Goto(Starter(s), "done")
     \/ /\ kind[s] = "spoof"
        /\ Goto(Starter(s), "commit")
        /\ UNCHANGED <<status, xray>>
  /\ UNCHANGED <<epoch, proxy, sysproxy, mgr, objects, locals, frames, stops, history>>

\* self._xray.start() resolves the shared field; a manager already running says True.
LaunchXray(s) ==
  /\ pc[Starter(s)] = "launch"
  /\ \/ /\ xray = None
        /\ Raise(s)
        /\ UNCHANGED <<target, launched>>
     \/ /\ xray # None
        /\ target' = [target EXCEPT ![s] = xray]
        /\ launched' = [launched EXCEPT ![s] = ref[xray]]
        /\ Goto(Starter(s), IF ref[xray] THEN "verify" ELSE "spawn")
  /\ UNCHANGED <<engine, handles, objects, kind, myEpoch, frames, stops, history>>

\* Waiting for the inbound ports, then Popen; an invalid profile or Popen itself may fail.
SpawnXray(s) ==
  /\ pc[Starter(s)] = "spawn"
  /\ \/ /\ Goto(Starter(s), "verify")
        /\ UNCHANGED <<procs, ref>>
     \/ /\ procs' = [procs EXCEPT ![target[s]] = @ + 1]
        /\ ref' = [ref EXCEPT ![target[s]] = TRUE]
        /\ Goto(Starter(s), "settle")
  /\ UNCHANGED <<engine, handles, listener, poolUp, osProxy, locals, frames, stops, history>>

\* 0.4 s later: the process may have exited, or a stop() has cleared _process.
SettleXray(s) ==
  /\ pc[Starter(s)] = "settle"
  /\ \/ /\ launched' = [launched EXCEPT ![s] = ref[target[s]]]
        /\ UNCHANGED <<procs, ref>>
     \/ /\ ref[target[s]]
        /\ StopXray(target[s])
        /\ UNCHANGED launched
  /\ Goto(Starter(s), "verify")
  /\ UNCHANGED <<engine, handles, listener, poolUp, osProxy, kind, myEpoch, target,
                 frames, stops, history>>

\* Mutant of VerifyXray: the result of the launch is ignored.
VerifyNothing(s) ==
  /\ pc[Starter(s)] = "verify"
  /\ Goto(Starter(s), "commit")
  /\ UNCHANGED <<engine, handles, objects, locals, frames, stops, history>>

\* Mutant of VerifyXray: a failed launch sets ERROR and returns without stop().
VerifyNoTeardown(s) ==
  /\ pc[Starter(s)] = "verify"
  /\ IF launched[s] /\ xray # None /\ ref[xray]
     THEN Goto(Starter(s), "commit") /\ UNCHANGED status
     ELSE Goto(Starter(s), "done") /\ status' = "error"
  /\ UNCHANGED <<epoch, handles, objects, locals, frames, stops, history>>

\* "not ok or not getattr(self._xray, 'is_running', False)": the field is read again.
VerifyXray(s) ==
  /\ pc[Starter(s)] = "verify"
  /\ \/ /\ launched[s] /\ xray # None /\ ref[xray]
        /\ Goto(Starter(s), "commit")
        /\ UNCHANGED onReturn
     \/ /\ ~(launched[s] /\ xray # None /\ ref[xray])
        /\ CallStop(Starter(s), "error")
  /\ UNCHANGED <<engine, handles, objects, locals, held, stops, history>>

\* Mutant of Commit: no epoch test.
CommitAnyEpoch(s) ==
  /\ pc[Starter(s)] = "commit"
  /\ status' = "active" /\ owner' = s
  /\ Goto(Starter(s), "sysproxy")
  /\ UNCHANGED <<epoch, handles, objects, locals, frames, stops, cancelled>>

Commit(s) ==
  /\ pc[Starter(s)] = "commit"
  /\ \/ /\ myEpoch[s] = epoch
        /\ status' = "active"
        /\ owner' = s
        /\ Goto(Starter(s), "sysproxy")
     \/ /\ myEpoch[s] # epoch
        /\ Goto(Starter(s), "dropxray")
        /\ UNCHANGED <<status, owner>>
  /\ UNCHANGED <<epoch, handles, objects, locals, frames, stops, cancelled>>

\* A superseded worker tears down what the shared fields hold by now.
DropXray(s) ==
  /\ pc[Starter(s)] = "dropxray"
  /\ StopXray(xray)
  /\ Goto(Starter(s), IF kind[s] = "direct" THEN "done" ELSE "dropproxy")
  /\ UNCHANGED <<engine, handles, listener, poolUp, osProxy, locals, frames, stops, history>>

DropProxy(s) ==
  /\ pc[Starter(s)] = "dropproxy"
  /\ StopListener(proxy)
  /\ Goto(Starter(s), IF proxy = None THEN "done" ELSE "dropjoin")
  /\ UNCHANGED <<engine, handles, procs, ref, poolUp, osProxy, locals, frames, stops, history>>

DropJoin(s) ==
  /\ pc[Starter(s)] = "dropjoin"
  /\ Downgrade
  /\ Goto(Starter(s), "done")
  /\ UNCHANGED <<epoch, handles, objects, locals, frames, stops, history>>

\* The worker ends; every chain with xray in it gets a self-test thread.
Finish(s) ==
  pc' = [pc EXCEPT ![Starter(s)] = "done",
                   ![Tester(s)] = IF kind[s] = "forward" THEN "off" ELSE "testing"]

ForgetSystemProxy(s) ==
  /\ pc[Starter(s)] = "sysproxy"
  /\ sysproxy' = None
  /\ IF SystemProxyOn /\ kind[s] # "forward" THEN Goto(Starter(s), "osenable") ELSE Finish(s)
  /\ UNCHANGED <<engine, xray, proxy, mgr, objects, locals, frames, stops, history>>

\* sp.enable() writes the registry.  Not on Windows: nothing happens.  An exception
\* (taken to come before the write) resets the shared handle, whoever's it is.
EnableSystemProxy(s) ==
  /\ pc[Starter(s)] = "osenable"
  /\ \/ osProxy' = s /\ Goto(Starter(s), "osassign") /\ UNCHANGED sysproxy
     \/ sysproxy' \in {sysproxy, None} /\ Finish(s) /\ UNCHANGED osProxy
  /\ UNCHANGED <<engine, xray, proxy, mgr, procs, ref, listener, poolUp, locals, frames,
                 stops, history>>

KeepSystemProxy(s) ==
  /\ pc[Starter(s)] = "osassign"
  /\ sysproxy' = s
  /\ Finish(s)
  /\ UNCHANGED <<engine, xray, proxy, mgr, objects, locals, frames, stops, history>>

Work(s) ==
  \/ Route(s) \/ Raised(s) \/ Faulted(s) \/ BuildPool(s) \/ NewProxy(s) \/ StartProxy(s)
  \/ AwaitProxy(s) \/ NewXray(s) \/ NoBinary(s) \/ LaunchXray(s) \/ SpawnXray(s)
  \/ SettleXray(s) \/ VerifyXray(s) \/ Commit(s) \/ DropXray(s) \/ DropProxy(s)
  \/ DropJoin(s) \/ ForgetSystemProxy(s) \/ EnableSystemProxy(s) \/ KeepSystemProxy(s)

(***************************************************************************)
(* The self-test thread: _self_test_chain and _demote_failed_selftest.     *)
(***************************************************************************)
\* Verified, inconclusive, superseded, or the engine is not green any more.
TestEnds(s) ==
  /\ pc[Tester(s)] = "testing"
  /\ Goto(Tester(s), "done")
  /\ UNCHANGED <<engine, handles, objects, locals, frames, stops, history>>

\* Only the CDN edge answered: take the epoch under the lock, then stop().
Demote(s) ==
  /\ pc[Tester(s)] = "testing"
  /\ status = "active" /\ myEpoch[s] = epoch
  /\ epoch' = epoch + 1
  /\ CallStop(Tester(s), "error")
  /\ UNCHANGED <<status, handles, objects, locals, held, stops, history>>

(***************************************************************************)
(* A spoofer's listener thread: _run_loop and _serve.                      *)
(***************************************************************************)
ListenerUp(h) ==
  /\ listener[h] = "starting"
  /\ listener' = [listener EXCEPT ![h] = "serving"]
  /\ UNCHANGED <<engine, handles, procs, ref, poolUp, osProxy, pc, locals, frames, stops, history>>

\* The bind fails silently; a failing WinDivert handle also makes the callback.
ListenerFails(h) ==
  /\ listener[h] = "starting"
  /\ listener' = [listener EXCEPT ![h] = "down"]
  /\ Downgrade \/ UNCHANGED status
  /\ UNCHANGED <<epoch, handles, procs, ref, poolUp, osProxy, pc, locals, frames, stops, history>>

\* The loop unwinds after a stop, or after an OSError of accept().
ListenerEnds(h) ==
  /\ \/ listener[h] = "closing"
     \/ listener[h] = "serving" /\ ListenerCrash
  /\ listener' = [listener EXCEPT ![h] = "down"]
  /\ Downgrade
  /\ UNCHANGED <<epoch, handles, procs, ref, poolUp, osProxy, pc, locals, frames, stops, history>>

Listener(h) == ListenerUp(h) \/ ListenerFails(h) \/ ListenerEnds(h)

Next ==
  \/ UiStop
  \/ \E s \in Starts : UiStart(s) \/ Work(s) \/ TestEnds(s) \/ Demote(s) \/ Listener(s)
  \/ \E t \in Threads : Stop(t)

\* Every thread the engine has spawned keeps running; the GUI's clicks are the
\* user's own business.  A blocking call of a worker is bounded by a timeout, so
\* weak fairness on each thread is what the operating system's scheduler gives.
Fairness ==
  /\ \A t \in Threads : WF_vars(Stop(t))
  /\ \A s \in Starts : WF_vars(Work(s)) /\ WF_vars(TestEnds(s) \/ Demote(s))
                       /\ WF_vars(ListenerUp(s) \/ ListenerFails(s))

Spec == Init /\ [][Next]_vars
FairSpec == Spec /\ Fairness
-----------------------------------------------------------------------------
(***************************************************************************)
(* Properties.                                                             *)
(***************************************************************************)
\* t is past the claim of a stop() and has not yet switched the light off.
Stopping(t) == pc[t] \in StopLabels

\* A start that a stop() has claimed never turns the engine green later,
\* however long its worker goes on building (_commit_active's epoch test).
NeverGreenAfterStop == [][owner' # owner => ~cancelled[owner']]_vars

\* A green light belongs to a session no stop() has claimed, or the stop()
\* that claimed it is still on its way to switch the light off: no
\* interleaving of stops, demotions and late commits leaves a dead green.
GreenHasOwner ==
  status = "active" =>
    owner # None /\ (cancelled[owner] => \E t \in Threads : Stopping(t))

\* The engine never hangs in CONNECTING: every start resolves, whatever stops
\* and failures cross it (the "stuck on connecting" reports in ui/window.py).
ConnectingResolves == status = "connecting" ~> status # "connecting"

\* For a user who waits: once the engine is idle or in error, nothing of any
\* session is left: no process, no listener, no health loop, no OS proxy.
OffMeansClean ==
  Quiet /\ status \in {"idle", "error"} =>
    /\ osProxy = None
    /\ \A s \in Starts : procs[s] = 0 /\ listener[s] \in {"new", "down"} /\ ~poolUp[s]

\* For a user who waits: a green engine's handles are its owner's, its processes
\* are the one process the handle names, and the OS proxy can be undone.
GreenOwnsChain ==
  Quiet /\ status = "active" =>
    /\ kind[owner] # "direct" => proxy = owner /\ listener[owner] = "serving"
    /\ kind[owner] # "forward" => xray = owner
    /\ osProxy # None => sysproxy = owner
    /\ \A s \in Starts : procs[s] = IF s = owner /\ kind[s] # "forward" THEN 1 ELSE 0

\* What EngineStatus sees of a session: its worker, and then its self-test.
WorkerDeed(at, failed) ==
  CASE at = "off" -> "none"
    [] at \in {"dropxray", "dropproxy", "dropjoin"} -> "gone"
    [] at = "faulted" -> "faulting"
    [] at \in {"sysproxy", "osenable", "osassign"} -> "testing"
    [] at = "claim" -> IF failed THEN "building" ELSE "cleaning"
    [] at \in StopLabels -> IF failed THEN "stopping" ELSE "ending"
    [] at = "seterror" -> "stopped"
    [] OTHER -> "building"

TesterDeed(at) ==
  CASE at = "testing" -> "testing"
    [] at = "claim" -> "demoting"
    [] at \in StopLabels -> "stopping"
    [] at = "seterror" -> "stopped"
    [] OTHER -> "gone"

Deed(s) ==
  IF pc[Starter(s)] = "done" THEN TesterDeed(pc[Tester(s)])
  ELSE WorkerDeed(pc[Starter(s)], onReturn[Starter(s)] = "error")

UiDeed == IF Stopping(Ui) THEN "stopping" ELSE "free"

Face == INSTANCE EngineStatus WITH
          Sessions <- Starts,
          eng <- status,
          ticket <- myEpoch,
          doing <- [s \in Starts |-> Deed(s)],
          gui <- UiDeed

\* The engine keeps to what the window is told of it, with every stop(), commit
\* and demotion taken apart into the steps other threads can come between.
ShowsItsStatus == Face!EngineSpec

(***************************************************************************)
(* What the comments promise and the code does not keep: one violation run *)
(* each, the shortest counterexample is the finding.                       *)
(***************************************************************************)
\* A worker that finds itself superseded or failed tears down what its own start
\* built ("Tear our own xray down and bail; the newer start owns the session now",
\* _start_core_only): the teardown of worker s ends no other start's process.
TearsDownOnlyItsOwn ==
  [][\A s, h \in Starts :
       /\ pc[Starter(s)] \in {"dropxray", "xstop"} /\ pc'[Starter(s)] # pc[Starter(s)]
       /\ procs'[h] < procs[h]
       => h = s]_vars

\* Once every thread has come to rest and the light is off, no xray process is
\* left ("Stop the engine cleanly so no subprocess / thread is orphaned").
NothingOrphaned == Quiet /\ status \in {"idle", "error"} => \A s \in Starts : procs[s] = 0

\* Once every thread has come to rest and the light is off, the OS proxy points
\* at none of our ports ("so the browser stops pointing at a dead port").
BrowserFreedByStop == Quiet /\ status \in {"idle", "error"} => osProxy = None

\* The OS proxy is only ever pointed at a session that runs xray ("System-proxy
\* mode only makes sense when xray-core is in the chain").
OsProxyHasXray == [][osProxy' # osProxy /\ osProxy' # None => procs[osProxy'] > 0]_vars
=============================================================================
