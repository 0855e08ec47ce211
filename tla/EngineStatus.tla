---------------------------- MODULE EngineStatus ----------------------------
(***************************************************************************)
(* The engine as the window meets it: the status light, the epoch, and how *)
(* far the threads of each start() are from the next time they write       *)
(* either.  Handles, processes and listeners are out of sight.             *)
(* EngineLifecycle implements this (ShowsItsStatus), and RestartWindow     *)
(* puts the window above it.                                               *)
(***************************************************************************)
EXTENDS Naturals

CONSTANT Sessions   \* the start() calls of a behaviour

VARIABLES
  eng,      \* EngineController.status
  epoch,    \* _start_epoch
  ticket,   \* the epoch each session's worker was started with
  doing,    \* where the worker, and then the self-test, of each session is
  gui       \* the GUI thread: "free", or "stopping" inside engine.stop()

face == <<eng, epoch, ticket, doing, gui>>

Status == {"idle", "connecting", "active", "error"}

\* A failed launch and a demotion go stopping, stopped and then report the error;
\* a raised worker reports it first (faulting) and then goes cleaning, ending.
Deeds == {"none", "building", "faulting", "cleaning", "ending", "testing", "demoting",
          "stopping", "stopped", "gone"}

EngineTypeOK ==
  /\ eng \in Status /\ epoch \in Nat
  /\ ticket \in [Sessions -> Nat] /\ doing \in [Sessions -> Deeds]
  /\ gui \in {"free", "stopping"}

EngineInit ==
  /\ eng = "idle" /\ epoch = 0
  /\ ticket = [s \in Sessions |-> 0] /\ doing = [s \in Sessions |-> "none"]
  /\ gui = "free"

IsRunning == eng \in {"connecting", "active"}

Does(s, deed) == doing' = [doing EXCEPT ![s] = deed]

\* The epoch test of a worker and of its self-test.
Current(s) == ticket[s] = epoch
-----------------------------------------------------------------------------
(* The GUI thread's calls                                                  *)

\* start(), when the engine is not running.
Begins(s) ==
  /\ gui = "free" /\ doing[s] = "none" /\ ~IsRunning
  /\ eng' = "connecting" /\ epoch' = epoch + 1
  /\ ticket' = [ticket EXCEPT ![s] = epoch']
  /\ Does(s, "building")
  /\ UNCHANGED gui

\* Mutant of UiStops: stop() leaves the epoch alone.
UiStopsKeepsEpoch ==
  /\ gui = "free" /\ gui' = "stopping"
  /\ UNCHANGED <<eng, epoch, ticket, doing>>

\* stop() takes the epoch at once ...
UiStops ==
  /\ gui = "free" /\ gui' = "stopping"
  /\ epoch' = epoch + 1
  /\ UNCHANGED <<eng, ticket, doing>>

\* ... and ends on idle, after the joins that let the other threads run.
UiStopped ==
  /\ gui = "stopping" /\ gui' = "free"
  /\ eng' = "idle"
  /\ UNCHANGED <<epoch, ticket, doing>>
-----------------------------------------------------------------------------
(* What a session's threads write to the status                            *)

\* Mutant of GoesGreen: a superseded worker goes green.
GoesGreenAnyway(s) ==
  /\ doing[s] = "building"
  /\ eng' = "active" /\ Does(s, "testing")

GoesGreen(s) ==
  /\ doing[s] = "building" /\ Current(s)
  /\ eng' = "active" /\ Does(s, "testing")

\* A tunnel without the xray binary: an error, whoever's start is current by now.
Refuses(s) ==
  /\ doing[s] = "building"
  /\ eng' = "error" /\ Does(s, "gone")

\* The handler of an exception: the epoch was tested a step ago (Faults).
ShowsFault(s) ==
  /\ doing[s] = "faulting"
  /\ eng' = "error" /\ Does(s, "cleaning")

\* A stop() of the worker or of the self-test ends on idle, whatever session is up.
WorkerStopped(s) ==
  \/ doing[s] = "stopping" /\ eng' = "idle" /\ Does(s, "stopped")
  \/ doing[s] = "ending" /\ eng' = "idle" /\ Does(s, "gone")

WorkerReports(s) ==
  /\ doing[s] = "stopped"
  /\ eng' = "error" /\ Does(s, "gone")

Tells(s) ==
  /\ GoesGreen(s) \/ Refuses(s) \/ ShowsFault(s) \/ WorkerStopped(s) \/ WorkerReports(s)
  /\ UNCHANGED <<epoch, ticket, gui>>

\* A listener's loop ends or a stop() has joined it: _on_proxy_status.
ListenerDown ==
  /\ eng = "active" /\ eng' = "idle"
  /\ UNCHANGED <<epoch, ticket, doing, gui>>
-----------------------------------------------------------------------------
(* What they do in silence                                                 *)

\* A worker finds that it is superseded: at its commit, or after an exception.
Withdraws(s) == doing[s] = "building" /\ ~Current(s) /\ Does(s, "gone") /\ UNCHANGED epoch

Faults(s) == doing[s] = "building" /\ Current(s) /\ Does(s, "faulting") /\ UNCHANGED epoch

\* Verified, inconclusive or superseded; or it takes the epoch to demote a green engine.
SelfTested(s) ==
  /\ doing[s] = "testing"
  /\ \/ Does(s, "gone") /\ UNCHANGED epoch
     \/ eng = "active" /\ Current(s) /\ Does(s, "demoting") /\ epoch' = epoch + 1

\* stop(), called after a failed launch, a demotion or an exception.
WorkerStops(s) ==
  /\ epoch' = epoch + 1
  /\ \/ doing[s] \in {"building", "demoting"} /\ Does(s, "stopping")
     \/ doing[s] = "cleaning" /\ Does(s, "ending")

Silent(s) ==
  /\ Withdraws(s) \/ Faults(s) \/ SelfTested(s) \/ WorkerStops(s)
  /\ UNCHANGED <<eng, ticket, gui>>
-----------------------------------------------------------------------------
EngineNext ==
  \/ UiStops \/ UiStopped \/ ListenerDown
  \/ \E s \in Sessions : Begins(s) \/ Tells(s) \/ Silent(s)

EngineSpec == EngineInit /\ [][EngineNext]_face
=============================================================================
