------------------------------ MODULE SniScan ------------------------------
(***************************************************************************)
(* The sweep of the route pool's (IP, SNI) pairs: SniIpScanner             *)
(* (core/pool.py), the QThread that runs it and the table it fills         *)
(* (ui/window.py, _PoolScanWorker and PoolPage).                           *)
(*                                                                         *)
(* Probe threads take jobs and leave verdicts; the sweep's own thread      *)
(* collects the verdicts and posts them to the GUI in batches; the GUI     *)
(* thread applies a batch to the rows that are in the table just then.     *)
(* The order of the rows, of the jobs and of the verdicts is left out.     *)
(***************************************************************************)
EXTENDS Integers, Sequences, FiniteSets

CONSTANTS
  Candidates,    \* the pairs a sweep may be about
  ProbeWorkers,  \* scan_workers
  MaxSought      \* bound: pairs sought by all the sweeps together

ASSUME SniScanAssumption ==
  /\ IsFiniteSet(Candidates) /\ Candidates # {}
  /\ ProbeWorkers \in Nat \ {0} /\ MaxSought \in Nat

VARIABLES
  phase,      \* the sweep's QThread
  sought,     \* the pairs of this sweep (_scan_candidate_pairs, duplicates gone)
  asked,      \* history: pairs sought so far
  broke,      \* history: the sweep ended because a thread could not be started
  jobs,       \* pairs no probe thread has taken
  probing,    \* pairs a probe thread is on
  events,     \* verdicts the sweep has not collected
  pending,    \* verdicts it has not posted
  verdicts,   \* history: verdicts it has collected
  stopSet,    \* SniIpScanner._stop
  posted,     \* signals on their way to the GUI thread
  table,      \* the rows in the table, by pair
  backing,    \* _scan_all_rows
  onlyOk,     \* the filter "healthy only"
  hid,        \* history: the filter hid a row with signals of the sweep still to come
  canRun, canStop   \* the buttons

probes == <<jobs, probing, events>>
sweepThread == <<phase, pending, verdicts>>
task == <<sought, asked, broke>>
view == <<table, backing, onlyOk, hid>>
buttons == <<canRun, canStop>>
sniVars == <<probes, sweepThread, task, stopSet, posted, view, buttons>>

Verdict == [pair : Candidates, ok : BOOLEAN]
Verdicts == SUBSET Verdict
Empty == [k \in {} |-> "pending"]
Rows == UNION {[shown -> {"pending", "ok", "fail"}] : shown \in SUBSET Candidates}

SniTypeOK ==
  /\ phase \in {"none", "created", "sweeping", "over"}
  /\ sought \subseteq Candidates /\ asked \in 0..MaxSought
  /\ jobs \subseteq Candidates /\ probing \subseteq Candidates
  /\ Cardinality(probing) <= ProbeWorkers
  /\ events \subseteq Verdict /\ pending \subseteq Verdict /\ verdicts \subseteq Verdict
  /\ posted \in Seq([batch : Verdicts, last : BOOLEAN])
  /\ table \in Rows /\ backing \in Rows
  /\ {broke, stopSet, onlyOk, hid, canRun, canStop} \subseteq BOOLEAN

SniInit ==
  /\ phase = "none" /\ sought = {} /\ asked = 0 /\ broke = FALSE
  /\ jobs = {} /\ probing = {} /\ events = {} /\ pending = {} /\ verdicts = {}
  /\ stopSet = FALSE /\ posted = <<>>
  /\ table = Empty /\ backing = Empty /\ onlyOk = FALSE /\ hid = FALSE
  /\ canRun = TRUE /\ canStop = FALSE
-----------------------------------------------------------------------------
(* The probe threads: daemons, left alone when the sweep is over.          *)

Probe(k) ==
  /\ phase = "sweeping" /\ ~stopSet
  /\ k \in jobs /\ Cardinality(probing) < ProbeWorkers
  /\ jobs' = jobs \ {k} /\ probing' = probing \cup {k}
  /\ UNCHANGED <<sweepThread, task, events, stopSet, posted, view, buttons>>

ProbeEnds(k) ==
  /\ k \in probing
  /\ probing' = probing \ {k}
  /\ \E ok \in BOOLEAN : events' = events \cup {[pair |-> k, ok |-> ok]}
  /\ UNCHANGED <<sweepThread, task, jobs, stopSet, posted, view, buttons>>
-----------------------------------------------------------------------------
(* The sweep's thread                                                      *)

Batch(vs) == IF vs = {} THEN <<>> ELSE <<[batch |-> vs, last |-> FALSE]>>
Finished == <<[batch |-> {}, last |-> TRUE]>>
AllIn == Cardinality(verdicts) = Cardinality(sought)

SweepBegins ==
  /\ phase = "created"
  /\ phase' = "sweeping" /\ jobs' = sought
  /\ UNCHANGED <<probing, events, pending, verdicts, task, stopSet, posted, view, buttons>>

\* One verdict; the batch goes out when it is large or old enough.
Collect(v) ==
  /\ phase = "sweeping" /\ ~stopSet
  /\ v \in events
  /\ events' = events \ {v} /\ verdicts' = verdicts \cup {v}
  /\ \/ pending' = pending \cup {v} /\ UNCHANGED posted
     \/ pending' = {} /\ posted' = posted \o Batch(pending \cup {v})
  /\ UNCHANGED <<phase, jobs, probing, task, stopSet, view, buttons>>

\* Nothing came for a while.
IdleFlush ==
  /\ phase = "sweeping" /\ ~stopSet /\ events = {} /\ pending # {}
  /\ pending' = {} /\ posted' = posted \o Batch(pending)
  /\ UNCHANGED <<phase, probes, verdicts, task, stopSet, view, buttons>>

\* Mutant of SweepEnds: a stopped sweep waits for its probes.
SweepEndsWhenAllIn ==
  /\ phase = "sweeping" /\ AllIn
  /\ phase' = "over"
  /\ pending' = {} /\ posted' = posted \o Batch(pending) \o Finished
  /\ jobs' = {} /\ probing' = {} /\ events' = {}
  /\ UNCHANGED <<verdicts, task, stopSet, view, buttons>>

\* Mutant of SweepEnds: the last batch is dropped.
SweepEndsAtOnce ==
  /\ phase = "sweeping" /\ (stopSet \/ AllIn)
  /\ phase' = "over"
  /\ pending' = {} /\ posted' = posted \o Finished
  /\ jobs' = {} /\ probing' = {} /\ events' = {}
  /\ UNCHANGED <<verdicts, task, stopSet, view, buttons>>

\* Probes still out report to nobody.
SweepEnds ==
  /\ phase = "sweeping" /\ (stopSet \/ AllIn)
  /\ phase' = "over"
  /\ pending' = {} /\ posted' = posted \o Batch(pending) \o Finished
  /\ jobs' = {} /\ probing' = {} /\ events' = {}
  /\ UNCHANGED <<verdicts, task, stopSet, view, buttons>>

\* A probe thread cannot be started: run() raises before the first verdict is
\* collected, and the worker reports that none was found.  The threads that have
\* been started report to nobody.
SweepFails ==
  /\ phase = "sweeping" /\ verdicts = {} /\ Cardinality(probing) < ProbeWorkers
  /\ phase' = "over" /\ broke' = TRUE
  /\ posted' = posted \o Finished
  /\ jobs' = {} /\ probing' = {} /\ events' = {}
  /\ UNCHANGED <<pending, verdicts, sought, asked, stopSet, view, buttons>>
-----------------------------------------------------------------------------
(* The GUI thread                                                          *)

\* _scan_start: refused while the thread runs.
ScanStart ==
  /\ canRun /\ phase \in {"none", "over"}
  /\ phase' = "created"
  /\ sought' \in SUBSET Candidates \ {{}}
  /\ asked' = asked + Cardinality(sought') /\ asked' <= MaxSought
  /\ verdicts' = {} /\ stopSet' = FALSE /\ broke' = FALSE
  /\ table' = [k \in sought' |-> "pending"] /\ backing' = Empty /\ hid' = FALSE
  /\ canRun' = FALSE /\ canStop' = TRUE
  /\ UNCHANGED <<probes, pending, posted, onlyOk>>

\* The worker's stop() reaches a scanner only once run() has made one.
AskStop == stopSet' = (stopSet \/ phase = "sweeping")

ScanStop ==
  /\ canStop
  /\ AskStop /\ canStop' = FALSE
  /\ UNCHANGED <<probes, sweepThread, task, posted, view, canRun>>

\* _toggle_scan_panel, twice: closing stops, opening enables the run button.
ReopenPanel ==
  /\ AskStop /\ canStop' = FALSE /\ canRun' = TRUE
  /\ UNCHANGED <<probes, sweepThread, task, posted, view>>

LeavePage ==
  /\ AskStop
  /\ UNCHANGED <<probes, sweepThread, task, posted, view, buttons>>

\* What the table shows, over the copy of what the filter hid.
Over(shown, copy) ==
  [k \in DOMAIN shown \cup DOMAIN copy |->
     IF k \in DOMAIN shown THEN shown[k] ELSE copy[k]]

\* Mutant of Resort: the filter loses the rows it hides.
ResortVisible(rows, filter) ==
  /\ backing' = rows
  /\ table' = [k \in {j \in DOMAIN rows : rows[j] = "ok" \/ ~filter} |-> rows[k]]
  /\ UNCHANGED hid

\* _scan_resort: the rows are written again through the filter.
Resort(rows, filter) ==
  LET merged == Over(rows, backing)
      visible == {k \in DOMAIN merged : merged[k] = "ok" \/ ~filter}
  IN /\ backing' = merged
     /\ table' = [k \in visible |-> merged[k]]
     /\ hid' = (hid \/ (visible # DOMAIN merged /\ (phase # "over" \/ posted' # <<>>)))

\* The filter is toggled, or another order is chosen.
Filter(value) ==
  /\ UNCHANGED <<probes, sweepThread, task, stopSet, posted, buttons>>
  /\ onlyOk' = value
  /\ Resort(table, value)

StatusOf(v) == IF v.ok THEN "ok" ELSE "fail"

\* _scan_on_results_batch and _scan_on_finished
DeliverScan ==
  /\ posted # <<>>
  /\ posted' = Tail(posted)
  /\ IF Head(posted).last
     THEN /\ canRun' = TRUE /\ canStop' = FALSE
          /\ Resort(table, onlyOk)
     ELSE /\ table' = [k \in DOMAIN table |->
                        IF \E v \in Head(posted).batch : v.pair = k
                        THEN StatusOf(CHOOSE v \in Head(posted).batch : v.pair = k)
                        ELSE table[k]]
          /\ UNCHANGED <<backing, hid, canRun, canStop>>
  /\ UNCHANGED <<probes, sweepThread, task, stopSet, onlyOk>>
-----------------------------------------------------------------------------
SniNext ==
  \/ \E k \in Candidates : Probe(k) \/ ProbeEnds(k)
  \/ SweepBegins \/ IdleFlush \/ SweepEnds \/ SweepFails
  \/ \E v \in events : Collect(v)
  \/ ScanStart \/ ScanStop \/ ReopenPanel \/ LeavePage \/ DeliverScan
  \/ \E value \in BOOLEAN : Filter(value)

\* The sweep's thread and the GUI run; a probe may hang.
SniFairness ==
  /\ WF_sniVars(SweepBegins)
  /\ WF_sniVars(SweepEnds)
  /\ WF_sniVars(DeliverScan)

SniSpec == SniInit /\ [][SniNext]_sniVars /\ SniFairness
-----------------------------------------------------------------------------
(* Properties                                                              *)

Shown == Over(table, backing)

\* What the table says once a sweep's signals are all delivered is what its probes
\* found, for every pair unless the user stopped it or its threads could not be
\* started: no batch is lost, none of an earlier sweep stays.  A row the filter hides
\* while its verdict is still to come is left out: that verdict finds no row, and the
\* pair comes back as pending.
VerdictsShown ==
  phase = "over" /\ posted = <<>> /\ ~hid =>
    /\ stopSet \/ broke \/ AllIn
    /\ \A v \in verdicts : Shown[v.pair] = StatusOf(v)

\* "Stop is immediate": the sweep is over without any probe having to end.
StopIsPrompt == stopSet ~> phase = "over"

\* Rows that the filter hides come back (_scan_resort: "the filter never destroys
\* hidden rows"): every pair of the sweep is in the table or in its copy.
NoRowDestroyed == sought \subseteq DOMAIN table \cup DOMAIN backing
=============================================================================
