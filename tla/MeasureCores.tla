---------------------------- MODULE MeasureCores ----------------------------
(***************************************************************************)
(* Measuring a profile that is not connected: EngineController's real      *)
(* delay and download tests (core/engine.py), run by one InlinePingWorker  *)
(* thread each (ui/window.py).  A measurement starts a throwaway xray of   *)
(* its own, behind a spoofer of its own for a spoof profile, asks through  *)
(* it and takes both down; the starts are serialised by                    *)
(* _MEASURE_START_LOCK.                                                    *)
(*                                                                         *)
(* Every XrayManager writes the one xray_config.json: a core runs whatever *)
(* that file holds when it reads it.  A core that has not read it by the   *)
(* end of xray.start()'s pause, and a port given out twice, are left out;  *)
(* the live tunnel's own launch, which takes no lock, is not.              *)
(***************************************************************************)
EXTENDS Naturals

CONSTANTS
  Probers,     \* the measuring threads, one profile each
  SpoofOnes,   \* those whose profile is a spoof profile
  Engine,      \* the live tunnel, with a profile of its own
  Nobody

ASSUME MeasureAssumption ==
  /\ SpoofOnes \subseteq Probers
  /\ Engine \notin Probers
  /\ {Nobody, "none", "launched"} \cap (Probers \cup {Engine}) = {}

VARIABLES
  at,        \* where each thread is
  tries,     \* attempts it has begun
  locked,    \* who holds _MEASURE_START_LOCK
  written,   \* whose configuration xray_config.json holds
  core,      \* each manager's process: none, launched, or the profile it runs
  spoofer,   \* each measurement's ProxyServer
  route,     \* how far a profile's requests get: dead, edge, open
  verdict    \* what the thread reports

measureVars == <<at, tries, locked, written, core, spoofer, route, verdict>>

Owners == Probers \cup {Engine}
MaxTries(w) == IF w \in SpoofOnes THEN 2 ELSE 1

MeasureTypeOK ==
  /\ at \in [Probers -> {"idle", "waiting", "spoofing", "launching", "settling",
                         "asking", "live", "closing", "ended"}]
  /\ tries \in [Probers -> 0..2]
  /\ locked \in Probers \cup {Nobody}
  /\ written \in Owners \cup {Nobody}
  /\ core \in [Owners -> Owners \cup {"none", "launched"}]
  /\ spoofer \in [Probers -> {"none", "up", "late"}]
  /\ route \in [Probers -> {"dead", "edge", "open"}]
  /\ verdict \in [Probers -> {"none", "ok", "err"}]

MeasureInit ==
  /\ at = [w \in Probers |-> "idle"] /\ tries = [w \in Probers |-> 0]
  /\ locked = Nobody /\ written = Nobody
  /\ core = [o \in Owners |-> "none"]
  /\ spoofer = [w \in Probers |-> "none"]
  /\ route \in [Probers -> {"dead", "edge", "open"}]
  /\ verdict = [w \in Probers |-> "none"]

Goes(w, there) == at' = [at EXCEPT ![w] = there]

\* One attempt is over: a spoof profile that failed gets another.
AttemptOver(w, ok) ==
  /\ verdict' = [verdict EXCEPT ![w] = IF ok THEN "ok" ELSE "err"]
  /\ Goes(w, IF ~ok /\ tries[w] < MaxTries(w) THEN "waiting" ELSE "ended")
-----------------------------------------------------------------------------
(* A measuring thread                                                      *)

\* The profile of the tunnel that is up is measured through it: is_active_profile.
Asked(w) ==
  /\ at[w] = "idle"
  /\ Goes(w, "waiting") \/ (core[Engine] # "none" /\ Goes(w, "live"))
  /\ UNCHANGED <<tries, locked, written, core, spoofer, route, verdict>>

AskLive(w) ==
  /\ at[w] = "live"
  /\ \E ok \in {FALSE} \cup {core[Engine] = Engine} :
       verdict' = [verdict EXCEPT ![w] = IF ok THEN "ok" ELSE "err"]
  /\ Goes(w, "ended")
  /\ UNCHANGED <<tries, locked, written, core, spoofer, route>>

TakeLock(w) ==
  /\ at[w] = "waiting" /\ locked = Nobody
  /\ locked' = w /\ tries' = [tries EXCEPT ![w] = @ + 1]
  /\ Goes(w, IF w \in SpoofOnes THEN "spoofing" ELSE "launching")
  /\ UNCHANGED <<written, core, spoofer, route, verdict>>

SpooferStarts(w) ==
  /\ at[w] = "spoofing"
  /\ spoofer' = [spoofer EXCEPT ![w] = "up"]
  /\ Goes(w, "launching")
  /\ UNCHANGED <<tries, locked, written, core, route, verdict>>

\* start() is False: the listener failed, or is late and comes up after all.  This
\* return does not clean up.
SpooferFails(w) ==
  /\ at[w] = "spoofing"
  /\ \E s \in {spoofer[w], "late"} : spoofer' = [spoofer EXCEPT ![w] = s]
  /\ locked' = Nobody /\ AttemptOver(w, FALSE)
  /\ UNCHANGED <<tries, written, core, route>>

\* xray.start(): the configuration is written and the process launched.
CoreLaunch(w) ==
  /\ at[w] = "launching"
  /\ written' = w /\ core' = [core EXCEPT ![w] = "launched"]
  /\ Goes(w, "settling")
  /\ UNCHANGED <<tries, locked, spoofer, route, verdict>>

Stopped(w) == [spoofer EXCEPT ![w] = IF @ = "up" THEN "none" ELSE @]

\* Mutant of CoreFails: the spoofer is forgotten.
CoreFailsAlone(w) ==
  /\ at[w] = "launching" \/ (at[w] = "settling" /\ core[w] = "none")
  /\ locked' = Nobody /\ AttemptOver(w, FALSE)
  /\ UNCHANGED <<tries, written, core, spoofer, route>>

\* No binary, an invalid profile, or a process that ended at once.
CoreFails(w) ==
  /\ at[w] = "launching" \/ (at[w] = "settling" /\ core[w] = "none")
  /\ spoofer' = Stopped(w)
  /\ locked' = Nobody /\ AttemptOver(w, FALSE)
  /\ UNCHANGED <<tries, written, core, route>>

\* Mutant of Settled: the lock is free as soon as the process is launched.
SettledAtOnce(w) ==
  /\ at[w] = "settling"
  /\ locked' = Nobody /\ Goes(w, "asking")
  /\ UNCHANGED <<tries, written, core, spoofer, route, verdict>>

\* The pause is over and the process is there: the lock is released.
Settled(w) ==
  /\ at[w] = "settling" /\ core[w] \in Owners
  /\ locked' = Nobody /\ Goes(w, "asking")
  /\ UNCHANGED <<tries, written, core, spoofer, route, verdict>>

\* What comes back through w's port, which w's configuration names: nothing unless
\* some core runs that configuration.  A CDN's edge answers an empty 204.
Answers(w) ==
  IF \A o \in Owners : core[o] # w THEN {}
  ELSE CASE route[w] = "dead" -> {}
         [] route[w] = "edge" -> {"204", "edge body"}
         [] route[w] = "open" -> {"204", "edge body", "body"}

\* Any 200 or 204 will do for an ordinary profile; a spoof profile needs one of the
\* bodies asked for, of which cdn-cgi/trace is the edge's own.
Good(w) == IF w \in SpoofOnes THEN {"edge body", "body"} ELSE {"204"}

\* The requests, up to the attempt's deadline; the download test alike.
AskThrough(w) ==
  /\ at[w] = "asking"
  /\ \E seen \in SUBSET Answers(w) :
       verdict' = [verdict EXCEPT ![w] = IF seen \cap Good(w) # {} THEN "ok" ELSE "err"]
  /\ Goes(w, "closing")
  /\ UNCHANGED <<tries, locked, written, core, spoofer, route>>

\* Mutant of Close: a failed attempt is tried again without end.
CloseRetries(w) ==
  /\ at[w] = "closing"
  /\ core' = [core EXCEPT ![w] = "none"] /\ spoofer' = Stopped(w)
  /\ Goes(w, IF verdict[w] = "ok" THEN "ended" ELSE "waiting")
  /\ tries' = [tries EXCEPT ![w] = 0]
  /\ UNCHANGED <<locked, written, route, verdict>>

\* cleanup(), in the finally clause.
Close(w) ==
  /\ at[w] = "closing"
  /\ core' = [core EXCEPT ![w] = "none"] /\ spoofer' = Stopped(w)
  /\ AttemptOver(w, verdict[w] = "ok")
  /\ UNCHANGED <<tries, locked, written, route>>
-----------------------------------------------------------------------------
(* xray processes, and the live tunnel                                     *)

\* The process reads its configuration.  The ports are in it, so if another process
\* runs the same one it ends; it also ends if the configuration is bad.
CoreReads(o) ==
  /\ core[o] = "launched"
  /\ \/ core' = [core EXCEPT ![o] = "none"]
     \/ /\ \A p \in Owners : core[p] # written
        /\ core' = [core EXCEPT ![o] = written]
  /\ UNCHANGED <<at, tries, locked, written, spoofer, route, verdict>>

LiveLaunch ==
  /\ core[Engine] = "none"
  /\ written' = Engine /\ core' = [core EXCEPT ![Engine] = "launched"]
  /\ UNCHANGED <<at, tries, locked, spoofer, route, verdict>>

LiveStop ==
  /\ core[Engine] # "none"
  /\ core' = [core EXCEPT ![Engine] = "none"]
  /\ UNCHANGED <<at, tries, locked, written, spoofer, route, verdict>>
-----------------------------------------------------------------------------
Steps(w) ==
  \/ AskLive(w) \/ TakeLock(w) \/ SpooferStarts(w) \/ SpooferFails(w)
  \/ CoreLaunch(w) \/ CoreFails(w) \/ Settled(w) \/ AskThrough(w) \/ Close(w)

MeasureNext ==
  \/ \E w \in Probers : Asked(w) \/ Steps(w)
  \/ \E o \in Owners : CoreReads(o)
  \/ LiveLaunch \/ LiveStop

\* Threads run, every wait has a deadline, and a process reads its configuration.
MeasureFairness ==
  /\ WF_measureVars(\E w \in Probers : Steps(w))
  /\ WF_measureVars(\E w \in Probers : CoreReads(w))

MeasureSpec == MeasureInit /\ [][MeasureNext]_measureVars /\ MeasureFairness
-----------------------------------------------------------------------------
(* Properties                                                              *)

\* What the lock is for: no measurement's core runs another measurement's profile,
\* though all of them write the same file.
ProbesKeepApart == \A w \in Probers : core[w] \in Probers => core[w] = w

\* "always tears the temporary core (and spoofer, if any) down before returning"
\* (measure_profile_delay), a spoofer that came up late excepted: an ended measurement
\* has left no process, no spoofer and no lock behind.
MeasureLeavesNothing ==
  \A w \in Probers : at[w] \in {"waiting", "ended"} =>
    core[w] = "none" /\ spoofer[w] # "up" /\ locked # w

\* Every measurement ends, waits for the lock and retries included.
MeasureEnds ==
  (\E w \in Probers : at[w] = "waiting") ~> \A w \in Probers : at[w] \in {"idle", "ended"}
=============================================================================
