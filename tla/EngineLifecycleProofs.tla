------------------------ MODULE EngineLifecycleProofs ------------------------
(***************************************************************************)
(* Machine-checked theorems about EngineLifecycle, for every set of starts *)
(* and every value of the other constants.                                 *)
(***************************************************************************)
EXTENDS EngineLifecycle, TLAPS

\* The GUI thread, the workers and the self-test threads are all different.
LEMMA ThreadNames ==
  /\ Ui \in Threads
  /\ \A s \in Starts : Starter(s) \in Threads /\ Tester(s) \in Threads
  /\ \A s, u \in Starts : Starter(s) = Starter(u) => s = u
  /\ \A s, u \in Starts : Tester(s) = Tester(u) => s = u
  /\ \A s, u \in Starts : Starter(s) # Tester(u)
  /\ \A s \in Starts : Starter(s) # Ui /\ Tester(s) # Ui
BY DEF Ui, Starter, Tester, Threads
-----------------------------------------------------------------------------
(***************************************************************************)
(* Type correctness.  It is not inductive by itself: XrayManager.stop()    *)
(* counts a process down, so the proof carries LiveRef along.              *)
(***************************************************************************)
\* A manager's _process field names a process that really exists.
LiveRef == \A s \in Starts : ref[s] => procs[s] > 0

TInv == TypeOK /\ LiveRef

\* The initial state has the types and no process.
LEMMA TypeInit == Init => TInv
BY EngineAssumption
   DEF Init, TInv, TypeOK, LiveRef, Handle, Snapshot, NoHandles, Labels, StopLabels

\* XrayManager.stop() ends one process at most, and only one that exists.
LEMMA StopXrayType ==
  ASSUME TInv, NEW h \in Handle, StopXray(h)
  PROVE  procs' \in [Starts -> Nat] /\ ref' \in [Starts -> BOOLEAN] /\ LiveRef'
<1>1. CASE h # None /\ ref[h]
  <2>1. h \in Starts /\ procs[h] \in Nat /\ procs[h] > 0
    BY <1>1 DEF TInv, TypeOK, LiveRef, Handle
  <2>2. procs[h] - 1 \in Nat
    BY <2>1
  <2>3. procs' = [procs EXCEPT ![h] = procs[h] - 1] /\ ref' = [ref EXCEPT ![h] = FALSE]
    BY <1>1 DEF StopXray
  <2>4. procs' \in [Starts -> Nat] /\ ref' \in [Starts -> BOOLEAN]
    BY <2>2, <2>3 DEF TInv, TypeOK
  <2>5. LiveRef'
    BY <2>1, <2>3, <2>4 DEF TInv, TypeOK, LiveRef
  <2> QED
    BY <2>4, <2>5
<1>2. CASE ~(h # None /\ ref[h])
  BY <1>2 DEF TInv, TypeOK, LiveRef, StopXray
<1> QED
  BY <1>1, <1>2

\* Every step keeps the types; one step per action.
LEMMA TypeNext == TInv /\ [Next]_vars => TInv'
<1> SUFFICES ASSUME TInv, [Next]_vars PROVE TInv'
  OBVIOUS
<1> USE EngineAssumption DEF TInv, TypeOK, LiveRef, Handle, Snapshot, NoHandles, Labels,
        StopLabels, engine, handles, objects, locals, frames, history

<1>1. CASE UiStop
  <2>1. stops' \in Nat
    BY <1>1 DEF UiStop, CallStop, Goto
  <2>2. pc' \in [Threads -> Labels]
    BY <1>1 DEF UiStop, CallStop, Goto
  <2>3. onReturn' \in [Threads -> {"none", "error"}]
    BY <1>1 DEF UiStop, CallStop, Goto
  <2> QED
    BY <1>1, <2>1, <2>2, <2>3 DEF UiStop
<1>2. ASSUME NEW s \in Starts, UiStart(s) PROVE TInv'
  <2>1. epoch' \in Nat
    BY <1>2 DEF UiStart, Goto
  <2>2. status' \in {"idle", "connecting", "active", "error"}
    BY <1>2 DEF UiStart, Goto
  <2>3. myEpoch' \in [Starts -> Nat]
    BY <1>2 DEF UiStart, Goto
  <2>4. pc' \in [Threads -> Labels]
    BY <1>2 DEF UiStart, Goto
  <2> QED
    BY <1>2, <2>1, <2>2, <2>3, <2>4 DEF UiStart
<1>3. ASSUME NEW s \in Starts, Route(s) PROVE TInv'
  <2>1. kind' \in [Starts -> Kinds \cup {None}]
    BY <1>3 DEF Route, Goto
  <2>2. pc' \in [Threads -> Labels]
    BY <1>3 DEF Route, Goto
  <2> QED
    BY <1>3, <2>1, <2>2 DEF Route
<1>4. ASSUME NEW s \in Starts, Raised(s) PROVE TInv'
  BY <1>4 DEF Raised, Goto
<1>5. ASSUME NEW s \in Starts, Faulted(s) PROVE TInv'
  BY <1>5 DEF Faulted, CallStop, Goto
<1>6. ASSUME NEW s \in Starts, BuildPool(s) PROVE TInv'
  <2>1. mgr' \in Handle
    BY <1>6 DEF BuildPool, Goto
  <2>2. poolUp' \in [Starts -> BOOLEAN]
    BY <1>6 DEF BuildPool, Goto
  <2>3. pc' \in [Threads -> Labels]
    BY <1>6 DEF BuildPool, Goto
  <2> QED
    BY <1>6, <2>1, <2>2, <2>3 DEF BuildPool
<1>7. ASSUME NEW s \in Starts, NewProxy(s) PROVE TInv'
  BY <1>7 DEF NewProxy, Raise, Goto
<1>8. ASSUME NEW s \in Starts, StartProxy(s) PROVE TInv'
  <2>1. target' \in [Starts -> Starts]
    BY <1>8 DEF StartProxy, CallStop, Raise, Goto, AfterProxy
  <2>2. listener' \in [Starts -> {"new", "starting", "serving", "closing", "down"}]
    BY <1>8 DEF StartProxy, CallStop, Raise, Goto, AfterProxy
  <2>3. pc' \in [Threads -> Labels]
    BY <1>8 DEF StartProxy, CallStop, Raise, Goto, AfterProxy
  <2>4. onReturn' \in [Threads -> {"none", "error"}]
    BY <1>8 DEF StartProxy, CallStop
  <2> QED
    BY <1>8, <2>1, <2>2, <2>3, <2>4 DEF StartProxy
<1>9. ASSUME NEW s \in Starts, AwaitProxy(s) PROVE TInv'
  BY <1>9 DEF AwaitProxy, CallStop, Goto, AfterProxy
<1>10. ASSUME NEW s \in Starts, NewXray(s) PROVE TInv'
  BY <1>10 DEF NewXray, Goto
<1>11. ASSUME NEW s \in Starts, NoBinary(s) PROVE TInv'
  BY <1>11 DEF NoBinary, Goto
<1>12. ASSUME NEW s \in Starts, LaunchXray(s) PROVE TInv'
  <2>1. target' \in [Starts -> Starts]
    BY <1>12 DEF LaunchXray, Raise, Goto
  <2>2. launched' \in [Starts -> BOOLEAN]
    BY <1>12 DEF LaunchXray, Raise, Goto
  <2>3. pc' \in [Threads -> Labels]
    BY <1>12 DEF LaunchXray, Raise, Goto
  <2> QED
    BY <1>12, <2>1, <2>2, <2>3 DEF LaunchXray
<1>13. ASSUME NEW s \in Starts, SpawnXray(s) PROVE TInv'
  <2>1. procs' \in [Starts -> Nat] /\ ref' \in [Starts -> BOOLEAN] /\ LiveRef'
    <3>1. CASE UNCHANGED <<procs, ref>>
      BY <3>1
    <3>2. CASE /\ procs' = [procs EXCEPT ![target[s]] = @ + 1]
               /\ ref' = [ref EXCEPT ![target[s]] = TRUE]
      <4>1. target[s] \in Starts /\ procs[target[s]] + 1 \in Nat
        OBVIOUS
      <4>2. procs' \in [Starts -> Nat] /\ ref' \in [Starts -> BOOLEAN]
        BY <3>2, <4>1
      <4>3. LiveRef'
        BY <3>2, <4>1, <4>2
      <4> QED
        BY <4>2, <4>3
    <3> QED
      BY <1>13, <3>1, <3>2 DEF SpawnXray
  <2>2. pc' \in [Threads -> Labels]
    BY <1>13 DEF SpawnXray, Goto
  <2> QED
    BY <1>13, <2>1, <2>2 DEF SpawnXray
<1>14. ASSUME NEW s \in Starts, SettleXray(s) PROVE TInv'
  <2>1. procs' \in [Starts -> Nat] /\ ref' \in [Starts -> BOOLEAN] /\ LiveRef'
    <3>1. CASE UNCHANGED <<procs, ref>>
      BY <3>1
    <3>2. CASE StopXray(target[s])
      BY <3>2, target[s] \in Handle, StopXrayType
    <3> QED
      BY <1>14, <3>1, <3>2 DEF SettleXray
  <2>2. launched' \in [Starts -> BOOLEAN]
    BY <1>14 DEF SettleXray, StopXray, Goto
  <2>3. pc' \in [Threads -> Labels]
    BY <1>14 DEF SettleXray, StopXray, Goto
  <2> QED
    BY <1>14, <2>1, <2>2, <2>3 DEF SettleXray
<1>15. ASSUME NEW s \in Starts, VerifyXray(s) PROVE TInv'
  BY <1>15 DEF VerifyXray, CallStop, Goto
<1>16. ASSUME NEW s \in Starts, Commit(s) PROVE TInv'
  BY <1>16 DEF Commit, Goto
<1>17. ASSUME NEW s \in Starts, DropXray(s) PROVE TInv'
  <2>1. procs' \in [Starts -> Nat] /\ ref' \in [Starts -> BOOLEAN] /\ LiveRef'
    BY <1>17, xray \in Handle, StopXrayType DEF DropXray
  <2>2. pc' \in [Threads -> Labels]
    BY <1>17 DEF DropXray, StopXray, Goto
  <2> QED
    BY <1>17, <2>1, <2>2 DEF DropXray
<1>18. ASSUME NEW s \in Starts, DropProxy(s) PROVE TInv'
  BY <1>18 DEF DropProxy, StopListener, Goto
<1>19. ASSUME NEW s \in Starts, DropJoin(s) PROVE TInv'
  BY <1>19 DEF DropJoin, Downgrade, Goto
<1>20. ASSUME NEW s \in Starts, ForgetSystemProxy(s) PROVE TInv'
  BY <1>20 DEF ForgetSystemProxy, Goto, Finish
<1>21. ASSUME NEW s \in Starts, EnableSystemProxy(s) PROVE TInv'
  BY <1>21 DEF EnableSystemProxy, Goto, Finish
<1>22. ASSUME NEW s \in Starts, KeepSystemProxy(s) PROVE TInv'
  BY <1>22 DEF KeepSystemProxy, Finish
<1>23. ASSUME NEW s \in Starts, TestEnds(s) PROVE TInv'
  BY <1>23 DEF TestEnds, Goto
<1>24. ASSUME NEW s \in Starts, Demote(s) PROVE TInv'
  <2>1. epoch' \in Nat
    BY <1>24 DEF Demote, CallStop, Goto
  <2>2. pc' \in [Threads -> Labels]
    BY <1>24 DEF Demote, CallStop, Goto
  <2>3. onReturn' \in [Threads -> {"none", "error"}]
    BY <1>24 DEF Demote, CallStop, Goto
  <2> QED
    BY <1>24, <2>1, <2>2, <2>3 DEF Demote
<1>25. ASSUME NEW s \in Starts, ListenerUp(s) PROVE TInv'
  BY <1>25 DEF ListenerUp
<1>26. ASSUME NEW s \in Starts, ListenerFails(s) PROVE TInv'
  BY <1>26 DEF ListenerFails, Downgrade
<1>27. ASSUME NEW s \in Starts, ListenerEnds(s) PROVE TInv'
  BY <1>27 DEF ListenerEnds, Downgrade
<1>28. ASSUME NEW t \in Threads, StopClaim(t) PROVE TInv'
  BY <1>28 DEF StopClaim, Goto
<1>29. ASSUME NEW t \in Threads, StopDisable(t) PROVE TInv'
  BY <1>29 DEF StopDisable, Goto
<1>30. ASSUME NEW t \in Threads, StopXrayStep(t) PROVE TInv'
  <2>1. procs' \in [Starts -> Nat] /\ ref' \in [Starts -> BOOLEAN] /\ LiveRef'
    BY <1>30, held[t].xray \in Handle, StopXrayType DEF StopXrayStep
  <2>2. pc' \in [Threads -> Labels]
    BY <1>30 DEF StopXrayStep, Goto, StopXray
  <2> QED
    BY <1>30, <2>1, <2>2 DEF StopXrayStep
<1>31. ASSUME NEW t \in Threads, StopProxyStep(t) PROVE TInv'
  BY <1>31 DEF StopProxyStep, Goto, StopListener
<1>32. ASSUME NEW t \in Threads, StopProxyJoin(t) PROVE TInv'
  BY <1>32 DEF StopProxyJoin, Goto, Downgrade
<1>33. ASSUME NEW t \in Threads, StopPool(t) PROVE TInv'
  BY <1>33 DEF StopPool, Goto
<1>34. ASSUME NEW t \in Threads, StopSetIdle(t) PROVE TInv'
  BY <1>34 DEF StopSetIdle, Goto
<1>35. ASSUME NEW t \in Threads, SetError(t) PROVE TInv'
  BY <1>35 DEF SetError, Goto
<1>36. CASE UNCHANGED vars
  BY <1>36 DEF vars
<1> QED
  BY <1>1, <1>2, <1>3, <1>4, <1>5, <1>6, <1>7, <1>8, <1>9, <1>10, <1>11, <1>12,
     <1>13, <1>14, <1>15, <1>16, <1>17, <1>18, <1>19, <1>20, <1>21, <1>22, <1>23,
     <1>24, <1>25, <1>26, <1>27, <1>28, <1>29, <1>30, <1>31, <1>32, <1>33, <1>34,
     <1>35, <1>36 DEF Next, Work, Stop, Listener

\* Type correctness of the engine's state, whatever the threads do.
THEOREM TypeCorrect == Spec => []TypeOK
<1>1. Init => TInv
  BY TypeInit
<1>2. TInv /\ [Next]_vars => TInv'
  BY TypeNext
<1>3. TInv => TypeOK
  BY DEF TInv
<1> QED
  BY <1>1, <1>2, <1>3, PTL DEF Spec

-----------------------------------------------------------------------------
(***************************************************************************)
(* No green light after a stop.  GreenHasOwner rests on the epochs: a stop *)
(* bumps the epoch past every worker's own, so a stopped worker can never  *)
(* commit; and on a thread inside stop() staying there until it has        *)
(* switched the light off.                                                 *)
(***************************************************************************)
\* A worker's epoch is never ahead of the engine's, and behind it once stopped.
Epochs ==
  \A s \in Starts :
    /\ myEpoch[s] <= epoch
    /\ cancelled[s] => pc[Starter(s)] # "off" /\ myEpoch[s] < epoch

\* A self-test thread exists only once its session's worker has ended.
Testers == \A s \in Starts : pc[Tester(s)] # "off" => pc[Starter(s)] = "done"

GInv == TInv /\ Epochs /\ Testers /\ GreenHasOwner

\* How program counters move: a worker never goes back to unstarted, and a
\* thread inside stop() leaves it only by switching the light off.
Moves ==
  /\ \A s \in Starts : pc[Starter(s)] # "off" => pc'[Starter(s)] # "off"
  /\ Testers'
  /\ \A t \in Threads : Stopping(t) => Stopping(t)' \/ status' # "active"

\* A step that neither bumps the epoch nor turns the light green.
Plain ==
  /\ UNCHANGED <<epoch, myEpoch, cancelled, owner>>
  /\ status' = "active" => status = "active"

\* Only four kinds of step touch the epochs or turn the light green.
LEMMA StepKinds ==
  ASSUME [Next]_vars
  PROVE  \/ Plain
         \/ \E s \in Starts : UiStart(s) \/ Commit(s) \/ Demote(s)
         \/ \E t \in Threads : StopClaim(t)
<1> USE DEF Plain, engine, handles, objects, locals, frames, history
<1>1. CASE UiStop
  BY <1>1 DEF UiStop, CallStop, Goto
<1>2. ASSUME NEW s \in Starts, Route(s) PROVE Plain
  BY <1>2 DEF Route, Goto
<1>3. ASSUME NEW s \in Starts, Raised(s) PROVE Plain
  BY <1>3 DEF Raised, Goto
<1>4. ASSUME NEW s \in Starts, Faulted(s) PROVE Plain
  BY <1>4 DEF Faulted, CallStop, Goto
<1>5. ASSUME NEW s \in Starts, BuildPool(s) PROVE Plain
  BY <1>5 DEF BuildPool, Goto
<1>6. ASSUME NEW s \in Starts, NewProxy(s) PROVE Plain
  BY <1>6 DEF NewProxy, Raise, Goto
<1>7. ASSUME NEW s \in Starts, StartProxy(s) PROVE Plain
  BY <1>7 DEF StartProxy, CallStop, Raise, Goto, AfterProxy
<1>8. ASSUME NEW s \in Starts, AwaitProxy(s) PROVE Plain
  BY <1>8 DEF AwaitProxy, CallStop, Goto, AfterProxy
<1>9. ASSUME NEW s \in Starts, NewXray(s) PROVE Plain
  BY <1>9 DEF NewXray, Goto
<1>10. ASSUME NEW s \in Starts, NoBinary(s) PROVE Plain
  BY <1>10 DEF NoBinary, Goto
<1>11. ASSUME NEW s \in Starts, LaunchXray(s) PROVE Plain
  BY <1>11 DEF LaunchXray, Raise, Goto
<1>12. ASSUME NEW s \in Starts, SpawnXray(s) PROVE Plain
  BY <1>12 DEF SpawnXray, Goto
<1>13. ASSUME NEW s \in Starts, SettleXray(s) PROVE Plain
  BY <1>13 DEF SettleXray, StopXray, Goto
<1>14. ASSUME NEW s \in Starts, VerifyXray(s) PROVE Plain
  BY <1>14 DEF VerifyXray, CallStop, Goto
<1>15. ASSUME NEW s \in Starts, DropXray(s) PROVE Plain
  BY <1>15 DEF DropXray, StopXray, Goto
<1>16. ASSUME NEW s \in Starts, DropProxy(s) PROVE Plain
  BY <1>16 DEF DropProxy, StopListener, Goto
<1>17. ASSUME NEW s \in Starts, DropJoin(s) PROVE Plain
  BY <1>17 DEF DropJoin, Downgrade, Goto
<1>18. ASSUME NEW s \in Starts, ForgetSystemProxy(s) PROVE Plain
  BY <1>18 DEF ForgetSystemProxy, Goto, Finish
<1>19. ASSUME NEW s \in Starts, EnableSystemProxy(s) PROVE Plain
  BY <1>19 DEF EnableSystemProxy, Goto, Finish
<1>20. ASSUME NEW s \in Starts, KeepSystemProxy(s) PROVE Plain
  BY <1>20 DEF KeepSystemProxy, Finish
<1>21. ASSUME NEW s \in Starts, TestEnds(s) PROVE Plain
  BY <1>21 DEF TestEnds, Goto
<1>22. ASSUME NEW s \in Starts, ListenerUp(s) PROVE Plain
  BY <1>22 DEF ListenerUp
<1>23. ASSUME NEW s \in Starts, ListenerFails(s) PROVE Plain
  BY <1>23 DEF ListenerFails, Downgrade
<1>24. ASSUME NEW s \in Starts, ListenerEnds(s) PROVE Plain
  BY <1>24 DEF ListenerEnds, Downgrade
<1>25. ASSUME NEW t \in Threads, StopDisable(t) PROVE Plain
  BY <1>25 DEF StopDisable, Goto
<1>26. ASSUME NEW t \in Threads, StopXrayStep(t) PROVE Plain
  BY <1>26 DEF StopXrayStep, Goto, StopXray
<1>27. ASSUME NEW t \in Threads, StopProxyStep(t) PROVE Plain
  BY <1>27 DEF StopProxyStep, Goto, StopListener
<1>28. ASSUME NEW t \in Threads, StopProxyJoin(t) PROVE Plain
  BY <1>28 DEF StopProxyJoin, Goto, Downgrade
<1>29. ASSUME NEW t \in Threads, StopPool(t) PROVE Plain
  BY <1>29 DEF StopPool, Goto
<1>30. ASSUME NEW t \in Threads, StopSetIdle(t) PROVE Plain
  BY <1>30 DEF StopSetIdle, Goto
<1>31. ASSUME NEW t \in Threads, SetError(t) PROVE Plain
  BY <1>31 DEF SetError, Goto
<1>32. CASE UNCHANGED vars
  BY <1>32 DEF vars
<1> QED
  BY <1>1, <1>2, <1>3, <1>4, <1>5, <1>6, <1>7, <1>8, <1>9, <1>10, <1>11, <1>12,
     <1>13, <1>14, <1>15, <1>16, <1>17, <1>18, <1>19, <1>20, <1>21, <1>22, <1>23,
     <1>24, <1>25, <1>26, <1>27, <1>28, <1>29, <1>30, <1>31, <1>32 DEF Next, Work, Stop, Listener

\* Every step moves the program counters that way; one step per action.
LEMMA StepMoves == TInv /\ Testers /\ [Next]_vars => Moves
<1> SUFFICES ASSUME TInv, Testers, [Next]_vars PROVE Moves
  OBVIOUS
<1>t. pc \in [Threads -> Labels]
  BY DEF TInv, TypeOK
<1> USE <1>t, ThreadNames DEF Moves, Testers, Stopping, StopLabels, engine, handles,
        objects, locals, frames, history
<1>1. CASE UiStop
  BY <1>1 DEF UiStop, CallStop, Goto
<1>2. ASSUME NEW s \in Starts, UiStart(s) PROVE Moves
  BY <1>2 DEF UiStart, Goto
<1>3. ASSUME NEW s \in Starts, Route(s) PROVE Moves
  BY <1>3 DEF Route, Goto
<1>4. ASSUME NEW s \in Starts, Raised(s) PROVE Moves
  BY <1>4 DEF Raised, Goto
<1>5. ASSUME NEW s \in Starts, Faulted(s) PROVE Moves
  BY <1>5 DEF Faulted, CallStop, Goto
<1>6. ASSUME NEW s \in Starts, BuildPool(s) PROVE Moves
  BY <1>6 DEF BuildPool, Goto
<1>7. ASSUME NEW s \in Starts, NewProxy(s) PROVE Moves
  BY <1>7 DEF NewProxy, Raise, Goto
<1>8. ASSUME NEW s \in Starts, StartProxy(s) PROVE Moves
  BY <1>8 DEF StartProxy, CallStop, Raise, Goto, AfterProxy
<1>9. ASSUME NEW s \in Starts, AwaitProxy(s) PROVE Moves
  BY <1>9 DEF AwaitProxy, CallStop, Goto, AfterProxy
<1>10. ASSUME NEW s \in Starts, NewXray(s) PROVE Moves
  BY <1>10 DEF NewXray, Goto
<1>11. ASSUME NEW s \in Starts, NoBinary(s) PROVE Moves
  BY <1>11 DEF NoBinary, Goto
<1>12. ASSUME NEW s \in Starts, LaunchXray(s) PROVE Moves
  BY <1>12 DEF LaunchXray, Raise, Goto
<1>13. ASSUME NEW s \in Starts, SpawnXray(s) PROVE Moves
  BY <1>13 DEF SpawnXray, Goto
<1>14. ASSUME NEW s \in Starts, SettleXray(s) PROVE Moves
  BY <1>14 DEF SettleXray, StopXray, Goto
<1>15. ASSUME NEW s \in Starts, VerifyXray(s) PROVE Moves
  BY <1>15 DEF VerifyXray, CallStop, Goto
<1>16. ASSUME NEW s \in Starts, Commit(s) PROVE Moves
  BY <1>16 DEF Commit, Goto
<1>17. ASSUME NEW s \in Starts, DropXray(s) PROVE Moves
  BY <1>17 DEF DropXray, StopXray, Goto
<1>18. ASSUME NEW s \in Starts, DropProxy(s) PROVE Moves
  BY <1>18 DEF DropProxy, StopListener, Goto
<1>19. ASSUME NEW s \in Starts, DropJoin(s) PROVE Moves
  BY <1>19 DEF DropJoin, Downgrade, Goto
<1>20. ASSUME NEW s \in Starts, ForgetSystemProxy(s) PROVE Moves
  BY <1>20 DEF ForgetSystemProxy, Goto, Finish
<1>21. ASSUME NEW s \in Starts, EnableSystemProxy(s) PROVE Moves
  BY <1>21 DEF EnableSystemProxy, Goto, Finish
<1>22. ASSUME NEW s \in Starts, KeepSystemProxy(s) PROVE Moves
  BY <1>22 DEF KeepSystemProxy, Finish
<1>23. ASSUME NEW s \in Starts, TestEnds(s) PROVE Moves
  BY <1>23 DEF TestEnds, Goto
<1>24. ASSUME NEW s \in Starts, Demote(s) PROVE Moves
  BY <1>24 DEF Demote, CallStop, Goto
<1>25. ASSUME NEW s \in Starts, ListenerUp(s) PROVE Moves
  BY <1>25 DEF ListenerUp
<1>26. ASSUME NEW s \in Starts, ListenerFails(s) PROVE Moves
  BY <1>26 DEF ListenerFails, Downgrade
<1>27. ASSUME NEW s \in Starts, ListenerEnds(s) PROVE Moves
  BY <1>27 DEF ListenerEnds, Downgrade
<1>28. ASSUME NEW t \in Threads, StopClaim(t) PROVE Moves
  BY <1>28 DEF StopClaim, Goto
<1>29. ASSUME NEW t \in Threads, StopDisable(t) PROVE Moves
  BY <1>29 DEF StopDisable, Goto
<1>30. ASSUME NEW t \in Threads, StopXrayStep(t) PROVE Moves
  BY <1>30 DEF StopXrayStep, Goto, StopXray
<1>31. ASSUME NEW t \in Threads, StopProxyStep(t) PROVE Moves
  BY <1>31 DEF StopProxyStep, Goto, StopListener
<1>32. ASSUME NEW t \in Threads, StopProxyJoin(t) PROVE Moves
  BY <1>32 DEF StopProxyJoin, Goto, Downgrade
<1>33. ASSUME NEW t \in Threads, StopPool(t) PROVE Moves
  BY <1>33 DEF StopPool, Goto
<1>34. ASSUME NEW t \in Threads, StopSetIdle(t) PROVE Moves
  BY <1>34 DEF StopSetIdle, Goto
<1>35. ASSUME NEW t \in Threads, SetError(t) PROVE Moves
  BY <1>35 DEF SetError, Goto
<1>36. CASE UNCHANGED vars
  BY <1>36 DEF vars
<1> QED
  BY <1>1, <1>2, <1>3, <1>4, <1>5, <1>6, <1>7, <1>8, <1>9, <1>10, <1>11, <1>12,
     <1>13, <1>14, <1>15, <1>16, <1>17, <1>18, <1>19, <1>20, <1>21, <1>22, <1>23,
     <1>24, <1>25, <1>26, <1>27, <1>28, <1>29, <1>30, <1>31, <1>32, <1>33, <1>34,
     <1>35, <1>36 DEF Next, Work, Stop, Listener

\* Whoever holds the current epoch has not been claimed by a stop() since.
LEMMA EpochsNext == TInv /\ Testers /\ Epochs /\ [Next]_vars => Epochs'
<1> SUFFICES ASSUME TInv, Testers, Epochs, [Next]_vars PROVE Epochs'
  OBVIOUS
<1>1. epoch \in Nat /\ myEpoch \in [Starts -> Nat] /\ cancelled \in [Starts -> BOOLEAN]
  BY DEF TInv, TypeOK
<1>2. \A s \in Starts : pc[Starter(s)] # "off" => pc'[Starter(s)] # "off"
  BY StepMoves DEF Moves
<1>3. CASE Plain
  BY <1>1, <1>2, <1>3 DEF Plain, Epochs
<1>4. ASSUME NEW s \in Starts, UiStart(s) PROVE Epochs'
  <2>1. epoch' = epoch + 1 /\ UNCHANGED cancelled /\ ~cancelled[s]
    BY <1>4 DEF UiStart, Epochs, history
  <2>2. \A u \in Starts : myEpoch'[u] = IF u = s THEN epoch' ELSE myEpoch[u]
    BY <1>1, <1>4 DEF UiStart
  <2> QED
    BY <1>1, <1>2, <2>1, <2>2 DEF Epochs
<1>5. ASSUME NEW s \in Starts, Commit(s) PROVE Epochs'
  BY <1>1, <1>2, <1>5 DEF Commit, Epochs, locals
<1>6. ASSUME NEW s \in Starts, Demote(s) PROVE Epochs'
  BY <1>1, <1>2, <1>6 DEF Demote, Epochs, locals, history
<1>7. ASSUME NEW t \in Threads, StopClaim(t) PROVE Epochs'
  BY <1>1, <1>2, <1>7 DEF StopClaim, Epochs, locals
<1> QED
  BY StepKinds, <1>3, <1>4, <1>5, <1>6, <1>7

\* A worker can commit only while no stop() has claimed it.
LEMMA CommitIsCurrent ==
  ASSUME TInv, Epochs, NEW s \in Starts, Commit(s), owner' # owner \/ status' # status
  PROVE  owner' = s /\ ~cancelled[s] /\ UNCHANGED cancelled
<1>1. epoch \in Nat /\ myEpoch[s] \in Nat
  BY DEF TInv, TypeOK
<1> QED
  BY <1>1 DEF Commit, Epochs

\* Only a commit lights the green light, and only the last step of a stop() may
\* leave it without an owner.
LEMMA GreenNext == GInv /\ [Next]_vars => GreenHasOwner'
<1> SUFFICES ASSUME GInv, [Next]_vars, status' = "active"
             PROVE  owner' # None /\ (cancelled'[owner'] => \E t \in Threads : Stopping(t)')
  BY DEF GreenHasOwner, Stopping
<1>1. \A t \in Threads : Stopping(t) => Stopping(t)'
  BY StepMoves DEF GInv, Moves
<1>2. CASE status = "active" /\ UNCHANGED <<owner, cancelled>>
  BY <1>1, <1>2 DEF GInv, GreenHasOwner
<1>3. CASE Plain
  BY <1>2, <1>3 DEF Plain
<1>4. ASSUME NEW s \in Starts, UiStart(s) PROVE FALSE
  BY <1>4 DEF UiStart
<1>5. ASSUME NEW s \in Starts, Commit(s), ~(status = "active" /\ UNCHANGED <<owner, cancelled>>)
      PROVE  owner' # None /\ ~cancelled'[owner']
  <2>1. owner' = s /\ ~cancelled[s] /\ UNCHANGED cancelled
    BY <1>5, CommitIsCurrent DEF GInv, Commit
  <2> QED
    BY <2>1, EngineAssumption
<1>6. ASSUME NEW s \in Starts, Demote(s) PROVE status = "active" /\ UNCHANGED <<owner, cancelled>>
  BY <1>6 DEF Demote, history
<1>7. ASSUME NEW t \in Threads, StopClaim(t) PROVE owner' # None /\ \E u \in Threads : Stopping(u)'
  <2>1. owner' # None
    BY <1>7 DEF StopClaim, GInv, GreenHasOwner
  <2>2. pc'[t] = "disable"
    BY <1>7 DEF StopClaim, Goto, GInv, TInv, TypeOK
  <2> QED
    BY <2>1, <2>2 DEF Stopping, StopLabels
<1> QED
  BY StepKinds, <1>2, <1>3, <1>4, <1>5, <1>6, <1>7

\* The inductive invariant of the green light holds at the start.
LEMMA GInvInit == Init => GInv
<1> SUFFICES ASSUME Init PROVE GInv
  OBVIOUS
<1>1. TInv
  BY TypeInit
<1> QED
  BY <1>1, ThreadNames DEF Init, GInv, Epochs, Testers, GreenHasOwner

\* Every step preserves it.
LEMMA GInvNext == GInv /\ [Next]_vars => GInv'
<1> SUFFICES ASSUME GInv, [Next]_vars PROVE GInv'
  OBVIOUS
<1>1. TInv'
  BY TypeNext DEF GInv
<1>2. Epochs'
  BY EpochsNext DEF GInv
<1>3. Testers'
  BY StepMoves DEF GInv, Moves
<1>4. GreenHasOwner'
  BY GreenNext
<1> QED
  BY <1>1, <1>2, <1>3, <1>4 DEF GInv

\* A green light always belongs to a session that no stop() has claimed, or the
\* stop() that claimed it is still on its way to switch it off.
THEOREM GreenLight == Spec => []GreenHasOwner
<1>1. GInv => GreenHasOwner
  BY DEF GInv
<1> QED
  BY <1>1, GInvInit, GInvNext, PTL DEF Spec

\* A start that a stop() has claimed never turns the engine green afterwards.
THEOREM NoLateCommit == Spec => NeverGreenAfterStop
<1>1. GInv /\ [Next]_vars => [owner' # owner => ~cancelled[owner']]_vars
  <2> SUFFICES ASSUME GInv, Next, owner' # owner PROVE ~cancelled[owner']
    BY DEF vars, history
  <2>1. ASSUME NEW s \in Starts, Commit(s) PROVE ~cancelled[owner']
    BY <2>1, CommitIsCurrent DEF GInv
  <2>2. ASSUME NEW s \in Starts, UiStart(s) \/ Demote(s) PROVE FALSE
    BY <2>2 DEF UiStart, Demote, history
  <2>3. ASSUME NEW t \in Threads, StopClaim(t) PROVE FALSE
    BY <2>3 DEF StopClaim
  <2> QED
    BY StepKinds, <2>1, <2>2, <2>3 DEF Plain
<1> QED
  BY <1>1, GInvInit, GInvNext, PTL DEF Spec, NeverGreenAfterStop

-----------------------------------------------------------------------------
(***************************************************************************)
(* The engine implements EngineStatus.  Deed gives each session its place  *)
(* there; a step moves one session along one arc, or is a call of the GUI  *)
(* thread, or is out of sight.                                             *)
(***************************************************************************)
\* Whose stop() ends how: the GUI's on idle, a demotion's on an error.
Frames ==
  /\ onReturn[Ui] = "none" /\ pc[Ui] \in {"off", "claim"} \cup StopLabels
  /\ \A s \in Starts :
       /\ pc[Tester(s)] \in {"off", "testing", "claim", "seterror", "done"} \cup StopLabels
       /\ pc[Tester(s)] \in {"claim", "seterror"} \cup StopLabels =>
            onReturn[Tester(s)] = "error"

\* No thread but those of session s moves.
Only(s) ==
  /\ pc'[Ui] = pc[Ui]
  /\ \A u \in Starts \ {s} :
       /\ pc'[Starter(u)] = pc[Starter(u)] /\ pc'[Tester(u)] = pc[Tester(u)]
       /\ onReturn'[Starter(u)] = onReturn[Starter(u)]

\* The arcs a session may go along from deed a to deed b.
Shown(s, a, b) ==
  \/ a = "building" /\ myEpoch[s] = epoch /\ b = "testing" /\ status' = "active"
  \/ a = "building" /\ b = "gone" /\ status' = "error"
  \/ a = "faulting" /\ b = "cleaning" /\ status' = "error"
  \/ a = "stopping" /\ b = "stopped" /\ status' = "idle"
  \/ a = "ending" /\ b = "gone" /\ status' = "idle"
  \/ a = "stopped" /\ b = "gone" /\ status' = "error"

Hidden(s, a, b) ==
  \/ a = "building" /\ myEpoch[s] # epoch /\ b = "gone" /\ UNCHANGED epoch
  \/ a = "building" /\ myEpoch[s] = epoch /\ b = "faulting" /\ UNCHANGED epoch
  \/ a = "testing" /\ b = "gone" /\ UNCHANGED epoch
  \/ /\ a = "testing" /\ status = "active" /\ myEpoch[s] = epoch
     /\ b = "demoting" /\ epoch' = epoch + 1
  \/ a \in {"building", "demoting"} /\ b = "stopping" /\ epoch' = epoch + 1
  \/ a = "cleaning" /\ b = "ending" /\ epoch' = epoch + 1

Arc(s, a, b) ==
  \/ Shown(s, a, b) /\ UNCHANGED epoch
  \/ Hidden(s, a, b) /\ UNCHANGED status
  \/ a = b /\ UNCHANGED epoch /\ (UNCHANGED status \/ Downgrade)

deeds == [s \in Starts |-> Deed(s)]

FaceStep == Face!EngineNext \/ UNCHANGED <<status, epoch, myEpoch, deeds, UiDeed>>

\* An arc of one session is a step of EngineStatus.
LEMMA ArcIsStep ==
  ASSUME NEW s \in Starts, Only(s), UNCHANGED myEpoch, Arc(s, Deed(s), Deed(s)')
  PROVE  FaceStep
<1>1. deeds' = [deeds EXCEPT ![s] = Deed(s)'] /\ deeds[s] = Deed(s) /\ UiDeed' = UiDeed
  <2>1. \A u \in Starts \ {s} : Deed(u)' = Deed(u)
    BY DEF Only, Deed
  <2>2. UiDeed' = UiDeed
    BY DEF Only, UiDeed, Stopping
  <2> QED
    BY <2>1, <2>2 DEF deeds
<1>2. CASE Shown(s, Deed(s), Deed(s)') /\ UNCHANGED epoch
  <2>1. Face!Tells(s)
    BY <1>1, <1>2 DEF Shown, deeds, Face!Tells, Face!GoesGreen, Face!Current, Face!Refuses,
       Face!ShowsFault, Face!WorkerStopped, Face!WorkerReports, Face!Does
  <2> QED
    BY <2>1 DEF FaceStep, Face!EngineNext
<1>3. CASE Hidden(s, Deed(s), Deed(s)') /\ UNCHANGED status
  <2>1. Face!Silent(s)
    BY <1>1, <1>3 DEF Hidden, deeds, Face!Silent, Face!Withdraws, Face!Faults,
       Face!SelfTested, Face!WorkerStops, Face!Current, Face!Does
  <2> QED
    BY <2>1 DEF FaceStep, Face!EngineNext
<1>4. CASE Deed(s)' = Deed(s) /\ UNCHANGED epoch /\ (UNCHANGED status \/ Downgrade)
  <2>1. deeds' = deeds
    BY <1>1, <1>4 DEF deeds
  <2> QED
    BY <1>1, <1>4, <2>1 DEF Downgrade, FaceStep, Face!EngineNext, Face!ListenerDown, deeds
<1> QED
  BY <1>2, <1>3, <1>4 DEF Arc

\* No session moves, and at most a green light goes out.
LEMMA NobodyMoves ==
  ASSUME UNCHANGED <<epoch, myEpoch>>, UNCHANGED status \/ Downgrade,
         \A s \in Starts : Deed(s)' = Deed(s), UiDeed' = UiDeed
  PROVE  FaceStep
<1>1. deeds' = deeds
  BY DEF deeds
<1> QED
  BY <1>1 DEF Downgrade, FaceStep, Face!EngineNext, Face!ListenerDown, deeds

\* What the refinement rests on.
FInv == TInv /\ Testers /\ Frames

\* Threads other than the two of session s stay where they are.
Session(s) ==
  \A t \in Threads \ {Starter(s), Tester(s)} : pc'[t] = pc[t] /\ onReturn'[t] = onReturn[t]

\* The worker's labels before the engine is green.
WorkLabels == {"route", "xnew", "launch", "spawn", "settle", "verify", "pool", "pnew", "pstart",
                "pwait", "commit", "raised"}

LEMMA DeedTable ==
  /\ \A failed \in BOOLEAN :
       /\ \A at \in WorkLabels : WorkerDeed(at, failed) = "building"
       /\ \A at \in {"dropxray", "dropproxy", "dropjoin"} : WorkerDeed(at, failed) = "gone"
       /\ \A at \in {"sysproxy", "osenable", "osassign"} : WorkerDeed(at, failed) = "testing"
       /\ \A at \in StopLabels :
            WorkerDeed(at, failed) = IF failed THEN "stopping" ELSE "ending"
       /\ WorkerDeed("claim", failed) = IF failed THEN "building" ELSE "cleaning"
       /\ WorkerDeed("off", failed) = "none" /\ WorkerDeed("faulted", failed) = "faulting"
       /\ WorkerDeed("seterror", failed) = "stopped"
  /\ \A at \in StopLabels : TesterDeed(at) = "stopping"
  /\ TesterDeed("off") = "gone" /\ TesterDeed("done") = "gone"
  /\ TesterDeed("testing") = "testing" /\ TesterDeed("claim") = "demoting"
  /\ TesterDeed("seterror") = "stopped"
BY DEF WorkerDeed, TesterDeed, StopLabels, WorkLabels

\* A step of a session leaves the others' frames alone.
LEMMA SessionFrames ==
  ASSUME FInv, NEW s \in Starts, Session(s),
         pc'[Tester(s)] \in {"off", "testing", "done"} \/
           (/\ pc'[Tester(s)] \in {"claim", "seterror"} \cup StopLabels
            /\ onReturn'[Tester(s)] = "error")
  PROVE  Frames' /\ Only(s)
<1>1. /\ pc'[Ui] = pc[Ui] /\ onReturn'[Ui] = onReturn[Ui]
      /\ \A u \in Starts \ {s} :
           /\ pc'[Starter(u)] = pc[Starter(u)] /\ onReturn'[Starter(u)] = onReturn[Starter(u)]
           /\ pc'[Tester(u)] = pc[Tester(u)] /\ onReturn'[Tester(u)] = onReturn[Tester(u)]
  BY ThreadNames DEF Session
<1>2. Only(s)
  BY <1>1 DEF Only
<1>3. ASSUME NEW u \in Starts
      PROVE  /\ pc'[Tester(u)] \in {"off", "testing", "claim", "seterror", "done"} \cup StopLabels
             /\ pc'[Tester(u)] \in {"claim", "seterror"} \cup StopLabels =>
                  onReturn'[Tester(u)] = "error"
  <2>1. CASE u = s
    BY <2>1 DEF StopLabels
  <2>2. CASE u # s
    BY <1>1, <2>2 DEF FInv, Frames
  <2> QED
    BY <2>1, <2>2
<1>4. onReturn'[Ui] = "none" /\ pc'[Ui] \in {"off", "claim"} \cup StopLabels
  BY <1>1 DEF FInv, Frames
<1>5. Frames'
  BY <1>3, <1>4 DEF Frames
<1> QED
  BY <1>2, <1>5

\* Only the worker of s moves.
Worker(s) ==
  /\ Session(s) /\ pc'[Tester(s)] = pc[Tester(s)] /\ onReturn'[Tester(s)] = onReturn[Tester(s)]
  /\ UNCHANGED myEpoch

\* The worker goes along an arc from one of its labels to another.
LEMMA WorkerArc ==
  ASSUME FInv, NEW s \in Starts, Worker(s), pc[Starter(s)] # "done",
         LET a == WorkerDeed(pc[Starter(s)], onReturn[Starter(s)] = "error")
             b == IF pc'[Starter(s)] = "done" THEN "gone"
                  ELSE WorkerDeed(pc'[Starter(s)], onReturn'[Starter(s)] = "error")
         IN  Arc(s, a, b)
  PROVE  Frames' /\ FaceStep
<1>1. Frames' /\ Only(s)
  BY SessionFrames DEF Worker, FInv, Frames
<1>2. pc'[Tester(s)] = "off"
  BY DEF FInv, Testers, Worker
<1>3. /\ Deed(s) = WorkerDeed(pc[Starter(s)], onReturn[Starter(s)] = "error")
      /\ Deed(s)' = IF pc'[Starter(s)] = "done" THEN "gone"
                    ELSE WorkerDeed(pc'[Starter(s)], onReturn'[Starter(s)] = "error")
  BY <1>2, DeedTable DEF Deed
<1> QED
  BY <1>1, <1>3, ArcIsStep DEF Worker

\* Most steps of a worker are out of sight: it goes on building.
LEMMA StaysBuilding ==
  ASSUME FInv, NEW s \in Starts, Worker(s), UNCHANGED engine, pc[Starter(s)] \in WorkLabels,
         \/ pc'[Starter(s)] \in WorkLabels
         \/ pc'[Starter(s)] = "claim" /\ onReturn'[Starter(s)] = "error"
  PROVE  Frames' /\ FaceStep
<1>1. pc[Starter(s)] # "done" /\ pc'[Starter(s)] # "done"
  BY DEF WorkLabels
<1>2. /\ WorkerDeed(pc[Starter(s)], onReturn[Starter(s)] = "error") = "building"
      /\ WorkerDeed(pc'[Starter(s)], onReturn'[Starter(s)] = "error") = "building"
  BY DeedTable
<1> QED
  BY <1>1, <1>2, WorkerArc DEF Arc, engine

\* The worker moves to a label, or calls stop().
LEMMA WorkerGoes ==
  ASSUME FInv, NEW s \in Starts, NEW label, Goto(Starter(s), label),
         UNCHANGED <<onReturn, myEpoch>>
  PROVE  /\ Worker(s) /\ pc'[Starter(s)] = label
         /\ onReturn'[Starter(s)] = onReturn[Starter(s)]
BY ThreadNames DEF Goto, Worker, Session, FInv, TInv, TypeOK

LEMMA WorkerCalls ==
  ASSUME FInv, NEW s \in Starts, NEW r, CallStop(Starter(s), r), UNCHANGED myEpoch
  PROVE  Worker(s) /\ pc'[Starter(s)] = "claim" /\ onReturn'[Starter(s)] = r
BY ThreadNames DEF CallStop, Goto, Worker, Session, FInv, TInv, TypeOK

\* The steps of a worker that is building its session, unless it fails or commits.
LEMMA BuildingSteps ==
  ASSUME FInv, NEW s \in Starts,
         \/ Route(s) \/ BuildPool(s) \/ NewProxy(s) \/ NewXray(s)
         \/ LaunchXray(s) \/ SpawnXray(s) \/ SettleXray(s)
  PROVE  Frames' /\ FaceStep
<1>1. /\ pc[Starter(s)] \in WorkLabels /\ UNCHANGED <<engine, onReturn, myEpoch>>
      /\ \E label \in WorkLabels : Goto(Starter(s), label)
  BY DEF Route, BuildPool, NewProxy, NewXray, LaunchXray, SpawnXray, SettleXray, Raise,
         WorkLabels, engine, locals, frames
<1>2. PICK label \in WorkLabels : Goto(Starter(s), label)
  BY <1>1
<1> QED
  BY <1>1, <1>2, WorkerGoes, StaysBuilding

LEMMA StartingSteps ==
  ASSUME FInv, NEW s \in Starts, StartProxy(s) \/ AwaitProxy(s) \/ VerifyXray(s)
  PROVE  Frames' /\ FaceStep
<1>1. pc[Starter(s)] \in WorkLabels /\ UNCHANGED <<engine, myEpoch>>
  BY DEF StartProxy, AwaitProxy, VerifyXray, WorkLabels, engine, locals
<1>2. \/ \E label \in WorkLabels : Goto(Starter(s), label) /\ UNCHANGED onReturn
      \/ CallStop(Starter(s), "error")
  BY DEF StartProxy, AwaitProxy, VerifyXray, Raise, AfterProxy, WorkLabels
<1>3. CASE \E label \in WorkLabels : Goto(Starter(s), label) /\ UNCHANGED onReturn
  <2> PICK label \in WorkLabels : Goto(Starter(s), label) /\ UNCHANGED onReturn
    BY <1>3
  <2> QED
    BY <1>1, WorkerGoes, StaysBuilding
<1>4. CASE CallStop(Starter(s), "error")
  BY <1>1, <1>4, WorkerCalls, StaysBuilding
<1> QED
  BY <1>2, <1>3, <1>4

\* Without the binary a tunnel ends in an error, and a spoof chain goes on.
LEMMA NoBinaryStep == ASSUME FInv, NEW s \in Starts, NoBinary(s) PROVE Frames' /\ FaceStep
<1>1. /\ pc[Starter(s)] = "launch" /\ UNCHANGED <<epoch, onReturn, myEpoch>>
      /\ \/ status' = "error" /\ Goto(Starter(s), "done")
         \/ UNCHANGED engine /\ Goto(Starter(s), "commit")
  BY DEF NoBinary, locals, frames, engine
<1>2. CASE UNCHANGED engine /\ Goto(Starter(s), "commit")
  BY <1>1, <1>2, WorkerGoes, StaysBuilding DEF WorkLabels
<1>3. CASE status' = "error" /\ Goto(Starter(s), "done")
  <2>1. Worker(s) /\ pc'[Starter(s)] = "done"
    BY <1>1, <1>3, WorkerGoes
  <2>2. WorkerDeed(pc[Starter(s)], onReturn[Starter(s)] = "error") = "building"
    <3>1. pc[Starter(s)] \in WorkLabels
      BY <1>1 DEF WorkLabels
    <3> QED BY <3>1, DeedTable
  <2> QED
    BY <1>1, <1>3, <2>1, <2>2, WorkerArc DEF Arc, Shown
<1> QED
  BY <1>1, <1>2, <1>3

\* The commit, and what an exception leads to.
LEMMA CommitArc == ASSUME FInv, NEW s \in Starts, Commit(s) PROVE Frames' /\ FaceStep
<1>1. /\ pc[Starter(s)] = "commit" /\ UNCHANGED <<epoch, onReturn, myEpoch>>
      /\ \/ myEpoch[s] = epoch /\ status' = "active" /\ Goto(Starter(s), "sysproxy")
         \/ myEpoch[s] # epoch /\ UNCHANGED status /\ Goto(Starter(s), "dropxray")
  BY DEF Commit, locals, frames
<1>2. WorkerDeed(pc[Starter(s)], onReturn[Starter(s)] = "error") = "building"
  <2>1. pc[Starter(s)] \in WorkLabels
    BY <1>1 DEF WorkLabels
  <2> QED BY <2>1, DeedTable
<1>3. CASE myEpoch[s] = epoch /\ status' = "active" /\ Goto(Starter(s), "sysproxy")
  <2>1. Worker(s) /\ pc'[Starter(s)] = "sysproxy"
    BY <1>1, <1>3, WorkerGoes
  <2>2. WorkerDeed(pc'[Starter(s)], onReturn'[Starter(s)] = "error") = "testing"
    BY <2>1, DeedTable
  <2> QED
    BY <1>1, <1>2, <1>3, <2>1, <2>2, WorkerArc DEF Arc, Shown
<1>4. CASE myEpoch[s] # epoch /\ UNCHANGED status /\ Goto(Starter(s), "dropxray")
  <2>1. Worker(s) /\ pc'[Starter(s)] = "dropxray"
    BY <1>1, <1>4, WorkerGoes
  <2>2. WorkerDeed(pc'[Starter(s)], onReturn'[Starter(s)] = "error") = "gone"
    BY <2>1, DeedTable
  <2> QED
    BY <1>1, <1>2, <1>4, <2>1, <2>2, WorkerArc DEF Arc, Hidden
<1> QED
  BY <1>1, <1>3, <1>4

LEMMA RaisedArc == ASSUME FInv, NEW s \in Starts, Raised(s) PROVE Frames' /\ FaceStep
<1>1. /\ pc[Starter(s)] = "raised" /\ UNCHANGED <<status, epoch, onReturn, myEpoch>>
      /\ Goto(Starter(s), IF myEpoch[s] = epoch THEN "faulted" ELSE "done")
  BY DEF Raised, engine, locals, frames
<1>2. WorkerDeed(pc[Starter(s)], onReturn[Starter(s)] = "error") = "building"
  <2>1. pc[Starter(s)] \in WorkLabels
    BY <1>1 DEF WorkLabels
  <2> QED BY <2>1, DeedTable
<1>3. /\ Worker(s)
      /\ pc'[Starter(s)] = IF myEpoch[s] = epoch THEN "faulted" ELSE "done"
  BY <1>1, WorkerGoes
<1>4. WorkerDeed("faulted", onReturn'[Starter(s)] = "error") = "faulting"
  BY DeedTable
<1> QED
  BY <1>1, <1>2, <1>3, <1>4, WorkerArc DEF Arc, Hidden

LEMMA FaultedArc == ASSUME FInv, NEW s \in Starts, Faulted(s) PROVE Frames' /\ FaceStep
<1>1. /\ pc[Starter(s)] = "faulted" /\ status' = "error" /\ UNCHANGED <<epoch, myEpoch>>
      /\ CallStop(Starter(s), "none")
  BY DEF Faulted, locals
<1>2. Worker(s) /\ pc'[Starter(s)] = "claim" /\ onReturn'[Starter(s)] = "none"
  BY <1>1, WorkerCalls
<1>3. /\ WorkerDeed("faulted", onReturn[Starter(s)] = "error") = "faulting"
      /\ WorkerDeed("claim", onReturn'[Starter(s)] = "error") = "cleaning"
  BY <1>2, DeedTable
<1> QED
  BY <1>1, <1>2, <1>3, WorkerArc DEF Arc, Shown

\* A superseded worker is gone from sight while it tears down what it finds.
LEMMA DropSteps ==
  ASSUME FInv, NEW s \in Starts, DropXray(s) \/ DropProxy(s) \/ DropJoin(s)
  PROVE  Frames' /\ FaceStep
<1> DEFINE drops == {"dropxray", "dropproxy", "dropjoin"}
<1>1. /\ pc[Starter(s)] \in drops /\ UNCHANGED <<epoch, onReturn, myEpoch>>
      /\ UNCHANGED status \/ Downgrade
      /\ \E label \in drops \cup {"done"} : Goto(Starter(s), label)
  BY DEF DropXray, DropProxy, DropJoin, engine, locals, frames
<1>2. PICK label \in drops \cup {"done"} : Goto(Starter(s), label)
  BY <1>1
<1>3. Worker(s) /\ pc'[Starter(s)] = label
  BY <1>1, <1>2, WorkerGoes
<1>4. /\ WorkerDeed(pc[Starter(s)], onReturn[Starter(s)] = "error") = "gone"
      /\ label # "done" => WorkerDeed(label, onReturn'[Starter(s)] = "error") = "gone"
  BY <1>1, DeedTable
<1> QED
  BY <1>1, <1>3, <1>4, WorkerArc DEF Arc

\* A green session's worker ends, and leaves a self-test behind or nothing.
LEMMA GreenSteps ==
  ASSUME FInv, NEW s \in Starts,
         ForgetSystemProxy(s) \/ EnableSystemProxy(s) \/ KeepSystemProxy(s)
  PROVE  Frames' /\ FaceStep
<1> DEFINE green == {"sysproxy", "osenable", "osassign"}
<1>1. /\ pc[Starter(s)] \in green /\ UNCHANGED <<status, epoch, onReturn, myEpoch>>
      /\ (\E label \in green : Goto(Starter(s), label)) \/ Finish(s)
  BY DEF ForgetSystemProxy, EnableSystemProxy, KeepSystemProxy, engine, locals, frames
<1>2. WorkerDeed(pc[Starter(s)], onReturn[Starter(s)] = "error") = "testing"
  BY <1>1, DeedTable
<1>3. ASSUME NEW label \in green, Goto(Starter(s), label) PROVE Frames' /\ FaceStep
  <2>1. Worker(s) /\ pc'[Starter(s)] = label
    BY <1>1, <1>3, WorkerGoes
  <2>2. WorkerDeed(label, onReturn'[Starter(s)] = "error") = "testing"
    BY DeedTable
  <2> QED
    BY <1>1, <1>2, <2>1, <2>2, WorkerArc DEF Arc
<1>4. CASE Finish(s)
  <2>1. /\ Session(s) /\ pc'[Starter(s)] = "done" /\ pc'[Tester(s)] \in {"off", "testing"}
    BY <1>1, <1>4, ThreadNames DEF Finish, Session, FInv, TInv, TypeOK
  <2>2. Frames' /\ Only(s)
    BY <2>1, SessionFrames
  <2>3. Deed(s) = "testing" /\ Deed(s)' \in {"testing", "gone"}
    BY <1>1, <1>2, <2>1, DeedTable DEF Deed
  <2> QED
    BY <1>1, <2>2, <2>3, ArcIsStep DEF Arc, Hidden
<1> QED
  BY <1>1, <1>3, <1>4

\* Only the self-test of s moves; its worker has ended.
LEMMA TesterArc ==
  ASSUME FInv, NEW s \in Starts, NEW label, Goto(Tester(s), label), pc[Tester(s)] # "off",
         label # "off",
         \A t \in Threads \ {Tester(s)} : onReturn'[t] = onReturn[t],
         label \in {"testing", "done"} \/
           (label \in {"claim", "seterror"} \cup StopLabels /\ onReturn'[Tester(s)] = "error"),
         UNCHANGED myEpoch, Arc(s, TesterDeed(pc[Tester(s)]), TesterDeed(label))
  PROVE  Frames' /\ FaceStep
<1>1. Session(s) /\ pc'[Tester(s)] = label /\ pc'[Starter(s)] = pc[Starter(s)]
  BY ThreadNames DEF Goto, Session, FInv, TInv, TypeOK
<1>2. Frames' /\ Only(s)
  BY <1>1, SessionFrames
<1>3. pc[Starter(s)] = "done"
  BY DEF FInv, Testers
<1>4. Deed(s) = TesterDeed(pc[Tester(s)]) /\ Deed(s)' = TesterDeed(label)
  BY <1>1, <1>3 DEF Deed
<1> QED
  BY <1>2, <1>4, ArcIsStep

LEMMA TestingSteps ==
  ASSUME FInv, NEW s \in Starts, TestEnds(s) \/ Demote(s)
  PROVE  Frames' /\ FaceStep
<1>1. pc[Tester(s)] = "testing" /\ UNCHANGED <<status, myEpoch>>
  BY DEF TestEnds, Demote, engine, locals
<1>2. CASE TestEnds(s)
  <2>1. Goto(Tester(s), "done") /\ UNCHANGED <<epoch, onReturn>>
    BY <1>2 DEF TestEnds, engine, frames
  <2>2. Arc(s, TesterDeed(pc[Tester(s)]), TesterDeed("done"))
    BY <1>1, <2>1, DeedTable DEF Arc, Hidden
  <2> QED
    BY <1>1, <2>1, <2>2, TesterArc
<1>3. CASE Demote(s)
  <2>1. /\ status = "active" /\ myEpoch[s] = epoch /\ epoch' = epoch + 1
        /\ Goto(Tester(s), "claim") /\ onReturn' = [onReturn EXCEPT ![Tester(s)] = "error"]
    BY <1>3 DEF Demote, CallStop
  <2>2. /\ onReturn'[Tester(s)] = "error"
        /\ \A t \in Threads \ {Tester(s)} : onReturn'[t] = onReturn[t]
    BY <2>1, ThreadNames DEF FInv, TInv, TypeOK
  <2>3. Arc(s, TesterDeed(pc[Tester(s)]), TesterDeed("claim"))
    BY <1>1, <2>1, DeedTable DEF Arc, Hidden
  <2> QED
    BY <1>1, <2>1, <2>2, <2>3, TesterArc
<1> QED
  BY <1>2, <1>3

\* The four kinds of steps of a stop(), whoever is in there.
TakesEpoch(t) ==
  /\ pc[t] = "claim" /\ Goto(t, "disable")
  /\ epoch' = epoch + 1 /\ UNCHANGED status

GoesOn(t) ==
  /\ pc[t] \in StopLabels /\ \E label \in StopLabels : Goto(t, label)
  /\ UNCHANGED epoch /\ (UNCHANGED status \/ Downgrade)

Idles(t) ==
  /\ pc[t] = "setidle" /\ status' = "idle" /\ UNCHANGED epoch
  /\ Goto(t, IF onReturn[t] = "error" THEN "seterror" ELSE IF t = Ui THEN "off" ELSE "done")

Errs(t) == pc[t] = "seterror" /\ status' = "error" /\ UNCHANGED epoch /\ Goto(t, "done")

LEMMA StopKinds ==
  ASSUME NEW t \in Threads, Stop(t)
  PROVE  /\ UNCHANGED <<onReturn, myEpoch>>
         /\ TakesEpoch(t) \/ GoesOn(t) \/ Idles(t) \/ Errs(t)
<1> USE DEF engine, locals, frames, StopLabels
<1>1. CASE StopClaim(t)
  BY <1>1 DEF StopClaim, TakesEpoch
<1>2. CASE StopDisable(t)
  BY <1>2 DEF StopDisable, GoesOn
<1>3. CASE StopXrayStep(t)
  BY <1>3 DEF StopXrayStep, GoesOn
<1>4. CASE StopProxyStep(t)
  BY <1>4 DEF StopProxyStep, GoesOn
<1>5. CASE StopProxyJoin(t)
  BY <1>5 DEF StopProxyJoin, GoesOn
<1>6. CASE StopPool(t)
  BY <1>6 DEF StopPool, GoesOn
<1>7. CASE StopSetIdle(t)
  BY <1>7 DEF StopSetIdle, Idles
<1>8. CASE SetError(t)
  BY <1>8 DEF SetError, Errs
<1> QED
  BY <1>1, <1>2, <1>3, <1>4, <1>5, <1>6, <1>7, <1>8 DEF Stop

\* Only the GUI thread moves: no session does.
LEMMA UiMoves ==
  ASSUME FInv, NEW label \in {"off", "claim"} \cup StopLabels, Goto(Ui, label),
         UNCHANGED myEpoch, onReturn'[Ui] = "none",
         \A t \in Threads \ {Ui} : onReturn'[t] = onReturn[t]
  PROVE  /\ Frames' /\ deeds' = deeds /\ \A s \in Starts : Deed(s)' = Deed(s)
         /\ UiDeed' = IF label \in StopLabels THEN "stopping" ELSE "free"
<1>1. /\ pc'[Ui] = label
      /\ \A s \in Starts :
           /\ pc'[Starter(s)] = pc[Starter(s)] /\ onReturn'[Starter(s)] = onReturn[Starter(s)]
           /\ pc'[Tester(s)] = pc[Tester(s)] /\ onReturn'[Tester(s)] = onReturn[Tester(s)]
  BY ThreadNames DEF Goto, FInv, TInv, TypeOK
<1>2. Frames'
  BY <1>1 DEF FInv, Frames
<1>3. \A s \in Starts : Deed(s)' = Deed(s)
  BY <1>1 DEF Deed
<1>4. UiDeed' = IF label \in StopLabels THEN "stopping" ELSE "free"
  BY <1>1 DEF UiDeed, Stopping
<1> QED
  BY <1>2, <1>3, <1>4 DEF deeds

LEMMA UiStopArc == ASSUME FInv, UiStop PROVE Frames' /\ FaceStep
<1>1. /\ pc[Ui] = "off" /\ Goto(Ui, "claim") /\ UNCHANGED <<status, epoch, myEpoch>>
      /\ onReturn'[Ui] = "none" /\ \A t \in Threads \ {Ui} : onReturn'[t] = onReturn[t]
  BY ThreadNames DEF UiStop, CallStop, engine, locals, FInv, TInv, TypeOK
<1>2. UiDeed = "free"
  BY <1>1 DEF UiDeed, Stopping, StopLabels
<1>3. /\ Frames' /\ \A s \in Starts : Deed(s)' = Deed(s)
      /\ UiDeed' = IF "claim" \in StopLabels THEN "stopping" ELSE "free"
  BY <1>1, UiMoves
<1>4. "claim" \notin StopLabels
  BY DEF StopLabels
<1> QED
  BY <1>1, <1>2, <1>3, <1>4, NobodyMoves

\* stop() on the GUI thread.
LEMMA UiInStop == ASSUME FInv, Stop(Ui) PROVE Frames' /\ FaceStep
<1>1. UNCHANGED <<onReturn, myEpoch>> /\ (TakesEpoch(Ui) \/ GoesOn(Ui) \/ Idles(Ui) \/ Errs(Ui))
  BY StopKinds, ThreadNames
<1>2. /\ onReturn'[Ui] = "none" /\ onReturn[Ui] = "none"
      /\ \A t \in Threads \ {Ui} : onReturn'[t] = onReturn[t]
  BY <1>1 DEF FInv, Frames
<1>3. "claim" \notin StopLabels /\ "off" \notin StopLabels /\ "disable" \in StopLabels
      /\ "setidle" \in StopLabels /\ "seterror" \notin StopLabels
  BY DEF StopLabels
<1>4. CASE TakesEpoch(Ui)
  <2>1. Frames' /\ deeds' = deeds /\ UiDeed' = "stopping" /\ UiDeed = "free"
    BY <1>1, <1>2, <1>3, <1>4, UiMoves DEF TakesEpoch, UiDeed, Stopping
  <2>2. Face!UiStops
    BY <1>1, <1>4, <2>1 DEF TakesEpoch, Face!UiStops, deeds
  <2> QED
    BY <2>1, <2>2 DEF FaceStep, Face!EngineNext
<1>5. CASE GoesOn(Ui)
  <2> PICK label \in StopLabels : Goto(Ui, label)
    BY <1>5 DEF GoesOn
  <2>1. /\ Frames' /\ UiDeed' = "stopping" /\ UiDeed = "stopping"
        /\ \A s \in Starts : Deed(s)' = Deed(s)
    BY <1>1, <1>2, <1>5, UiMoves DEF GoesOn, UiDeed, Stopping
  <2> QED
    BY <1>1, <1>5, <2>1, NobodyMoves DEF GoesOn
<1>6. CASE Idles(Ui)
  <2>1. Frames' /\ deeds' = deeds /\ UiDeed' = "free" /\ UiDeed = "stopping"
    BY <1>1, <1>2, <1>3, <1>6, UiMoves DEF Idles, UiDeed, Stopping
  <2>2. Face!UiStopped
    BY <1>1, <1>6, <2>1 DEF Idles, Face!UiStopped, deeds
  <2> QED
    BY <2>1, <2>2 DEF FaceStep, Face!EngineNext
<1>7. ~Errs(Ui)
  BY <1>3 DEF Errs, FInv, Frames
<1> QED
  BY <1>1, <1>4, <1>5, <1>6, <1>7

\* stop() in a worker: after a failed launch, or after an exception.
LEMMA WorkerInStop ==
  ASSUME FInv, NEW s \in Starts, Stop(Starter(s))
  PROVE  Frames' /\ FaceStep
<1> DEFINE t == Starter(s)
           failed == onReturn[t] = "error"
<1>1. /\ UNCHANGED <<onReturn, myEpoch>> /\ (TakesEpoch(t) \/ GoesOn(t) \/ Idles(t) \/ Errs(t))
      /\ t # Ui
  BY StopKinds, ThreadNames
<1>2. "disable" \in StopLabels /\ "setidle" \in StopLabels /\ "done" \notin StopLabels
  BY DEF StopLabels
<1>3. CASE TakesEpoch(t)
  <2>1. Worker(s) /\ pc'[t] = "disable"
    BY <1>1, <1>3, WorkerGoes DEF TakesEpoch
  <2>2. /\ WorkerDeed("claim", failed) = IF failed THEN "building" ELSE "cleaning"
        /\ WorkerDeed("disable", failed) = IF failed THEN "stopping" ELSE "ending"
    BY <1>2, DeedTable
  <2> QED
    BY <1>1, <1>3, <2>1, <2>2, WorkerArc DEF TakesEpoch, Arc, Hidden
<1>4. CASE GoesOn(t)
  <2> PICK label \in StopLabels : Goto(t, label)
    BY <1>4 DEF GoesOn
  <2>1. Worker(s) /\ pc'[t] = label
    BY <1>1, WorkerGoes
  <2>2. WorkerDeed(pc[t], failed) = WorkerDeed(label, failed)
    <3>1. \A at \in StopLabels : WorkerDeed(at, failed) = IF failed THEN "stopping" ELSE "ending"
      <4> failed \in BOOLEAN
        OBVIOUS
      <4> HIDE DEF failed
      <4> QED BY DeedTable
    <3>2. pc[t] \in StopLabels
      BY <1>4 DEF GoesOn
    <3> HIDE DEF failed
    <3> QED BY <3>1, <3>2
  <2>3. pc[t] # "done" /\ label # "done"
    BY <1>2, <1>4 DEF GoesOn
  <2> QED
    BY <1>1, <1>4, <2>1, <2>2, <2>3, WorkerArc DEF GoesOn, Arc
<1>5. CASE Idles(t)
  <2>1. Worker(s) /\ pc'[t] = IF failed THEN "seterror" ELSE "done"
    BY <1>1, <1>5, WorkerGoes DEF Idles
  <2>2. /\ WorkerDeed("setidle", failed) = IF failed THEN "stopping" ELSE "ending"
        /\ WorkerDeed("seterror", failed) = "stopped"
    BY <1>2, DeedTable
  <2> QED
    BY <1>1, <1>5, <2>1, <2>2, WorkerArc DEF Idles, Arc, Shown
<1>6. CASE Errs(t)
  <2>1. Worker(s) /\ pc'[t] = "done"
    BY <1>1, <1>6, WorkerGoes DEF Errs
  <2>2. WorkerDeed("seterror", failed) = "stopped"
    BY DeedTable
  <2> QED
    BY <1>1, <1>6, <2>1, <2>2, WorkerArc DEF Errs, Arc, Shown
<1> QED
  BY <1>1, <1>3, <1>4, <1>5, <1>6

\* stop() in a self-test: a demotion.
LEMMA TesterInStop ==
  ASSUME FInv, NEW s \in Starts, Stop(Tester(s))
  PROVE  Frames' /\ FaceStep
<1> DEFINE t == Tester(s)
<1>1. /\ UNCHANGED <<onReturn, myEpoch>> /\ (TakesEpoch(t) \/ GoesOn(t) \/ Idles(t) \/ Errs(t))
      /\ t # Ui
  BY StopKinds, ThreadNames
<1>2. pc[t] \in {"claim", "seterror"} \cup StopLabels
  BY <1>1 DEF TakesEpoch, GoesOn, Idles, Errs, StopLabels
<1>3. onReturn[t] = "error" /\ onReturn'[t] = "error" /\ pc[t] # "off"
  BY <1>1, <1>2 DEF FInv, Frames, StopLabels
<1>4. \A u \in Threads \ {t} : onReturn'[u] = onReturn[u]
  BY <1>1
<1>5. "disable" \in StopLabels /\ "setidle" \in StopLabels
      /\ "done" \notin StopLabels /\ "off" \notin StopLabels
  BY DEF StopLabels
<1>6. CASE TakesEpoch(t)
  <2>1. Arc(s, TesterDeed(pc[t]), TesterDeed("disable"))
    BY <1>5, <1>6, DeedTable DEF TakesEpoch, Arc, Hidden
  <2> QED
    BY <1>1, <1>3, <1>4, <1>5, <1>6, <2>1, TesterArc DEF TakesEpoch
<1>7. CASE GoesOn(t)
  <2> PICK label \in StopLabels : Goto(t, label)
    BY <1>7 DEF GoesOn
  <2>1. Arc(s, TesterDeed(pc[t]), TesterDeed(label))
    BY <1>7, DeedTable DEF GoesOn, Arc
  <2> QED
    BY <1>1, <1>3, <1>4, <1>5, <2>1, TesterArc
<1>8. CASE Idles(t)
  <2>1. Arc(s, TesterDeed(pc[t]), TesterDeed("seterror"))
    BY <1>5, <1>8, DeedTable DEF Idles, Arc, Shown
  <2> QED
    BY <1>1, <1>3, <1>4, <1>8, <2>1, TesterArc DEF Idles
<1>9. CASE Errs(t)
  <2>1. Arc(s, TesterDeed(pc[t]), TesterDeed("done"))
    BY <1>9, DeedTable DEF Errs, Arc, Shown
  <2> QED
    BY <1>1, <1>3, <1>4, <1>9, <2>1, TesterArc DEF Errs
<1> QED
  BY <1>1, <1>6, <1>7, <1>8, <1>9

\* A start makes a session that EngineStatus had not begun.
LEMMA UiStartStep == ASSUME FInv, NEW s \in Starts, UiStart(s) PROVE Frames' /\ FaceStep
<1>1. /\ pc[Ui] = "off" /\ pc[Starter(s)] = "off" /\ Goto(Starter(s), "route")
      /\ status \notin {"connecting", "active"} /\ status' = "connecting"
      /\ epoch' = epoch + 1 /\ myEpoch' = [myEpoch EXCEPT ![s] = epoch'] /\ UNCHANGED onReturn
  BY DEF UiStart, frames
<1>2. /\ Session(s) /\ pc'[Starter(s)] = "route" /\ pc'[Tester(s)] = pc[Tester(s)]
      /\ onReturn' = onReturn
  BY <1>1, ThreadNames DEF Goto, Session, FInv, TInv, TypeOK
<1>3. Frames' /\ Only(s)
  BY <1>2, SessionFrames DEF FInv, Frames
<1>4. Deed(s) = "none" /\ Deed(s)' = "building"
  <2>1. "route" \in WorkLabels
    BY DEF WorkLabels
  <2> QED
    BY <1>1, <1>2, <2>1, DeedTable DEF Deed
<1>5. \A u \in Starts \ {s} : Deed(u)' = Deed(u)
  BY <1>3 DEF Only, Deed
<1>6. deeds' = [deeds EXCEPT ![s] = "building"] /\ deeds[s] = "none"
  BY <1>4, <1>5 DEF deeds
<1>7. UiDeed = "free" /\ UiDeed' = "free"
  BY <1>1, <1>3 DEF Only, UiDeed, Stopping, StopLabels
<1>8. Face!Begins(s)
  BY <1>1, <1>6, <1>7 DEF Face!Begins, Face!IsRunning, Face!Does, deeds
<1> QED
  BY <1>3, <1>8 DEF FaceStep, Face!EngineNext

\* A listener's steps move no thread of the engine.
LEMMA ListenerSteps ==
  ASSUME FInv, \/ \E s \in Starts : Listener(s)
               \/ UNCHANGED vars
  PROVE  Frames' /\ FaceStep
<1>1. UNCHANGED <<epoch, myEpoch, pc, onReturn>> /\ (UNCHANGED status \/ Downgrade)
  BY DEF Listener, ListenerUp, ListenerFails, ListenerEnds, vars, engine, locals, frames
<1>2. /\ Frames' /\ UiDeed' = UiDeed
      /\ \A s \in Starts : Deed(s)' = Deed(s)
  BY <1>1 DEF FInv, Frames, UiDeed, Stopping, Deed
<1> QED
  BY <1>1, <1>2, NobodyMoves

LEMMA FaceNext == FInv /\ [Next]_vars => Frames' /\ FaceStep
<1> SUFFICES ASSUME FInv, [Next]_vars PROVE Frames' /\ FaceStep
  OBVIOUS
<1>1. ASSUME NEW s \in Starts, Work(s) PROVE Frames' /\ FaceStep
  BY <1>1, BuildingSteps, StartingSteps, NoBinaryStep, CommitArc, RaisedArc, FaultedArc,
     DropSteps, GreenSteps DEF Work
<1>2. ASSUME NEW t \in Threads, Stop(t) PROVE Frames' /\ FaceStep
  <2>1. t = Ui \/ (\E s \in Starts : t = Starter(s)) \/ (\E s \in Starts : t = Tester(s))
    BY DEF Threads
  <2> QED
    BY <1>2, <2>1, UiInStop, WorkerInStop, TesterInStop
<1> QED
  BY <1>1, <1>2, UiStopArc, UiStartStep, TestingSteps, ListenerSteps DEF Next

LEMMA FInvInit == Init => FInv
<1> SUFFICES ASSUME Init PROVE FInv
  OBVIOUS
<1>1. TInv /\ Testers
  BY GInvInit DEF GInv
<1>2. Frames
  BY ThreadNames DEF Init, Frames, StopLabels
<1> QED
  BY <1>1, <1>2 DEF FInv

LEMMA FInvNext == FInv /\ [Next]_vars => FInv'
<1> SUFFICES ASSUME FInv, [Next]_vars PROVE FInv'
  OBVIOUS
<1>1. TInv' /\ Testers'
  BY TypeNext, StepMoves DEF FInv, Moves
<1> QED
  BY <1>1, FaceNext DEF FInv

\* The engine, with every interleaving inside its starts and stops, shows the
\* window exactly what EngineStatus lets it show.
THEOREM ImplementsStatus == Spec => ShowsItsStatus
<1>1. Init => Face!EngineInit
  <2> SUFFICES ASSUME Init PROVE Face!EngineInit
    OBVIOUS
  <2>1. \A s \in Starts : Deed(s) = "none"
    BY ThreadNames, DeedTable DEF Init, Deed
  <2>2. UiDeed = "free"
    BY ThreadNames DEF Init, UiDeed, Stopping, StopLabels
  <2> QED
    BY <2>1, <2>2 DEF Init, Face!EngineInit
<1>2. FInv /\ [Next]_vars => [Face!EngineNext]_(Face!face)
  BY FaceNext DEF FaceStep, Face!face, deeds
<1> QED
  BY <1>1, <1>2, FInvInit, FInvNext, PTL DEF Spec, ShowsItsStatus, Face!EngineSpec
=============================================================================
