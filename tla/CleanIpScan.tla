---------------------------- MODULE CleanIpScan ----------------------------
(***************************************************************************)
(* The clean-IP scan: phase 1 probes every IP on every selected port from  *)
(* a pool of threads (CFScanner, core/cf_scanner.py), phase 2 sends real   *)
(* traffic of the user's configuration through a throwaway xray per IP     *)
(* (XrayValidator, core/cf_xray_validator.py), a worker thread runs the    *)
(* two and posts what they find (ScanWorker, ui/scanner_page.py), and the  *)
(* page keeps the rows and makes configurations of the ticked ones.        *)
(*                                                                         *)
(* The configuration is a TLS one and the probe takes a speed sample, as   *)
(* the page always asks; the page never limits the number of hits.         *)
(***************************************************************************)
EXTENDS Integers, Sequences, FiniteSets, SequencesExt

CONSTANTS
  Ips,
  Ports,         \* ScanConfig.all_ports
  ProfilePort,   \* the port the user's configuration dials
  ProbeThreads,  \* concurrency
  Tries,         \* attempts per probe
  TopN,          \* phase-2 budget
  ValidateXray,  \* phase 2 is asked for
  MaxScans       \* bound: scans started

ASSUME CleanIpAssumption ==
  /\ IsFiniteSet(Ips) /\ IsFiniteSet(Ports)
  /\ {ProbeThreads, Tries} \subseteq Nat \ {0} /\ {TopN, MaxScans} \subseteq Nat
  /\ ValidateXray \in BOOLEAN

VARIABLES
  stage,      \* where ScanWorker.run is
  scans,      \* history: scans started
  todo,       \* probes no thread has begun
  inflight,   \* probes under way
  ended,      \* futures done that scan() has not looked at
  clean,      \* ScanReport.results
  halted,     \* CFScanner._stop_flag
  budget,     \* the IPs phase 2 still has to validate
  attempt,    \* 0, or the attempt on the first of them
  cut,        \* XrayValidator._stop_flag
  proven,     \* history: what real traffic went through
  mail,       \* signals on their way to the page
  found,      \* the rows of the table
  busy,       \* the page's buttons
  made        \* configurations added to the list

phase1 == <<todo, inflight, ended, clean>>
phase2 == <<budget, attempt, cut, proven>>
page == <<found, busy, made>>
cleanVars == <<stage, scans, phase1, halted, phase2, mail, page>>

Targets == Ips \X Ports
AllTargets == Ips \X (Ports \cup {ProfilePort})
NoRow == [e \in {} |-> [status |-> "clean", ticked |-> TRUE]]
Note == [kind : {"hit", "verified", "rejected"}, at : AllTargets]
Done == [kind |-> "done"]

CleanTypeOK ==
  /\ stage \in {"none", "created", "probing", "joining", "between", "validating", "over"}
  /\ scans \in 0..MaxScans
  /\ todo \subseteq Targets /\ inflight \subseteq Targets
  /\ Cardinality(inflight) <= ProbeThreads
  /\ ended \subseteq Targets \X {"ok", "bad", "none"} /\ clean \subseteq Targets
  /\ budget \in Seq(Ips) /\ attempt \in 0..2 /\ proven \subseteq AllTargets
  /\ mail \in Seq(Note \cup {Done})
  /\ DOMAIN found \subseteq AllTargets
  /\ \A e \in DOMAIN found :
       found[e] \in [status : {"clean", "verified", "rejected"}, ticked : BOOLEAN]
  /\ made \subseteq [row : AllTargets, dials : AllTargets]
  /\ {halted, cut, busy} \subseteq BOOLEAN

CleanInit ==
  /\ stage = "none" /\ scans = 0
  /\ todo = {} /\ inflight = {} /\ ended = {} /\ clean = {} /\ halted = FALSE
  /\ budget = <<>> /\ attempt = 0 /\ cut = FALSE /\ proven = {}
  /\ mail = <<>> /\ found = NoRow /\ busy = FALSE /\ made = {}
-----------------------------------------------------------------------------
(* One probe (cf_ip_probe)                                                 *)

\* What one try can find: an answer in time, TLS, a status, the edge's name and,
\* only from a well-behaved edge, a speed sample and a WebSocket upgrade.
Try ==
  {t \in [answered : BOOLEAN, tls : BOOLEAN, status : {"none", "good", "bad"},
          colo : BOOLEAN, speed : BOOLEAN, ws : BOOLEAN] :
    /\ t.answered <=> t.status # "none"
    /\ t.answered => t.tls
    /\ t.colo => t.answered
    /\ t.speed \/ t.ws => t.status = "good" /\ t.colo}

Answered(tries) == {k \in DOMAIN tries : tries[k].answered}

\* IPResult.is_healthy over the folded tries: the last status counts, of the rest
\* any try's will do.
Healthy(tries) ==
  /\ 2 * Cardinality(Answered(tries)) > Len(tries)
  /\ \E k \in DOMAIN tries : tries[k].tls
  /\ tries[Max(Answered(tries))].status = "good"
  /\ \E k \in DOMAIN tries : tries[k].colo
  /\ \E k \in DOMAIN tries : tries[k].speed
  /\ \E k \in DOMAIN tries : tries[k].ws

Outcomes == {IF Healthy(tries) THEN "ok" ELSE "bad" : tries \in [1..Tries -> Try]}
-----------------------------------------------------------------------------
(* Phase 1                                                                 *)

WorkerBegins ==
  /\ stage = "created"
  /\ stage' = "probing" /\ todo' = Targets
  /\ UNCHANGED <<scans, inflight, ended, clean, halted, phase2, mail, page>>

\* The pool cannot start its threads: scan() raises before any result.
WorkerFails ==
  /\ stage = "created"
  /\ stage' = "over" /\ mail' = Append(mail, Done)
  /\ UNCHANGED <<scans, phase1, halted, phase2, page>>

\* _probe_one: nothing is probed after a stop.
ProbeBegins(e) ==
  /\ e \in todo /\ Cardinality(inflight) < ProbeThreads
  /\ todo' = todo \ {e}
  /\ IF halted THEN ended' = ended \cup {<<e, "none">>} /\ UNCHANGED inflight
     ELSE inflight' = inflight \cup {e} /\ UNCHANGED ended
  /\ UNCHANGED <<stage, scans, clean, halted, phase2, mail, page>>

ProbeReturns(e) ==
  /\ e \in inflight
  /\ inflight' = inflight \ {e}
  /\ \E o \in Outcomes : ended' = ended \cup {<<e, o>>}
  /\ UNCHANGED <<stage, scans, todo, clean, halted, phase2, mail, page>>

\* scan()'s loop over the futures, and ScanWorker._on_hit.
TakeResult(r) ==
  /\ stage = "probing" /\ ~halted
  /\ r \in ended
  /\ ended' = ended \ {r}
  /\ IF r[2] = "ok"
     THEN clean' = clean \cup {r[1]} /\ mail' = Append(mail, [kind |-> "hit", at |-> r[1]])
     ELSE UNCHANGED <<clean, mail>>
  /\ UNCHANGED <<stage, scans, todo, inflight, halted, phase2, page>>

\* Stopped, seen at the next result, or out of futures: what has not begun is cancelled.
LeaveLoop ==
  /\ stage = "probing"
  /\ \/ halted /\ ended # {}
     \/ todo = {} /\ inflight = {} /\ ended = {}
  /\ stage' = "joining" /\ todo' = {} /\ ended' = {}
  /\ UNCHANGED <<scans, inflight, clean, halted, phase2, mail, page>>

\* The pool is joined: then phase 2, unless it is not wanted or not worth it.
Joined ==
  /\ stage = "joining" /\ inflight = {}
  /\ ended' = {}
  /\ IF ValidateXray /\ clean # {} /\ ~halted
     THEN stage' = "between" /\ UNCHANGED mail
     ELSE stage' = "over" /\ mail' = Append(mail, Done)
  /\ UNCHANGED <<scans, todo, inflight, clean, halted, phase2, page>>
-----------------------------------------------------------------------------
(* Phase 2                                                                 *)

\* The best hits, in the order of their latency, as IPs.
ValidatorMade ==
  /\ stage = "between"
  /\ \E best \in SetToSeqs(clean) :
       LET n == IF TopN = 0 THEN Len(best) ELSE Min({TopN, Len(best)})
       IN budget' = [k \in 1..n |-> best[k][1]]
  /\ stage' = "validating" /\ attempt' = 0 /\ cut' = FALSE
  /\ UNCHANGED <<scans, phase1, halted, proven, mail, page>>

\* Mutant of NoXray: the missing binary is told, and phase 2 goes on.
NoXrayGoesOn ==
  /\ stage = "between"
  /\ stage' = "validating" /\ mail' = Append(mail, Done)
  /\ UNCHANGED <<scans, phase1, halted, phase2, page>>

NoXray ==
  /\ stage = "between"
  /\ stage' = "over" /\ mail' = Append(mail, Done)
  /\ UNCHANGED <<scans, phase1, halted, phase2, page>>

ValidationBegins ==
  /\ stage = "validating" /\ attempt = 0 /\ budget # <<>> /\ ~cut
  /\ attempt' = 1
  /\ UNCHANGED <<stage, scans, phase1, halted, budget, cut, proven, mail, page>>

\* Mutant of ValidatedAt: the verdict goes to a port that was probed.
ProbedPort(ip) == <<ip, CHOOSE p \in Ports : p # ProfilePort>>

\* The result carries the configuration's port, whatever port the hit was on.
ValidatedAt(ip) == <<ip, ProfilePort>>

\* _validate_once returns: a failure is tried once more.
AttemptEnds ==
  /\ stage = "validating" /\ attempt > 0
  /\ \E success \in BOOLEAN :
       LET ip == Head(budget)
           again == ~success /\ attempt = 1 /\ ~cut
       IN /\ attempt' = IF again THEN 2 ELSE 0
          /\ budget' = IF again THEN budget ELSE Tail(budget)
          /\ proven' = IF success THEN proven \cup {<<ip, ProfilePort>>} ELSE proven
          /\ mail' = IF again THEN mail
                     ELSE Append(mail, [kind |-> IF success THEN "verified" ELSE "rejected",
                                        at |-> ValidatedAt(ip)])
  /\ UNCHANGED <<stage, scans, phase1, halted, cut, page>>

\* Mutant of ValidationEnds: a stop forgets to report.
ValidationEndsQuietly ==
  /\ stage = "validating" /\ attempt = 0 /\ (cut \/ budget = <<>>)
  /\ stage' = "over" /\ mail' = IF cut THEN mail ELSE Append(mail, Done)
  /\ UNCHANGED <<scans, phase1, halted, phase2, page>>

ValidationEnds ==
  /\ stage = "validating" /\ attempt = 0 /\ (cut \/ budget = <<>>)
  /\ stage' = "over" /\ mail' = Append(mail, Done)
  /\ UNCHANGED <<scans, phase1, halted, phase2, page>>

\* No free port for the throwaway xray: validate_all raises.
ValidationFails ==
  /\ stage = "validating" /\ attempt > 0
  /\ stage' = "over" /\ mail' = Append(mail, Done) /\ attempt' = 0
  /\ UNCHANGED <<scans, phase1, halted, budget, cut, proven, page>>
-----------------------------------------------------------------------------
(* The page                                                                *)

ScanClick ==
  /\ ~busy /\ stage \in {"none", "over"} /\ scans < MaxScans
  /\ stage' = "created" /\ scans' = scans + 1
  /\ clean' = {} /\ halted' = FALSE /\ cut' = FALSE /\ budget' = <<>> /\ proven' = {}
  /\ found' = NoRow /\ busy' = TRUE
  /\ UNCHANGED <<todo, inflight, ended, attempt, mail, made>>

\* The button, and shutdown_scan: it reaches what exists just then.
StopScan ==
  /\ busy
  /\ halted' = (halted \/ stage # "created")
  /\ cut' = (cut \/ stage = "validating")
  /\ UNCHANGED <<stage, scans, phase1, budget, attempt, proven, mail, page>>

WithRow(e, status, ticked) ==
  [f \in DOMAIN found \cup {e} |->
     IF f = e THEN [status |-> status, ticked |-> ticked] ELSE found[f]]

Ticked(e) == e \notin DOMAIN found \/ found[e].ticked

DeliverMail ==
  /\ mail # <<>>
  /\ mail' = Tail(mail)
  /\ LET n == Head(mail) IN
     /\ busy' = (busy /\ n.kind # "done")
     /\ found' = IF n.kind = "hit" THEN WithRow(n.at, "clean", Ticked(n.at))
                 ELSE IF n.kind = "verified" THEN WithRow(n.at, "verified", TRUE)
                 ELSE IF n.kind = "rejected" /\ n.at \in DOMAIN found
                      THEN WithRow(n.at, "rejected", FALSE)
                 ELSE found
  /\ UNCHANGED <<stage, scans, phase1, halted, phase2, made>>

TickRow(e) ==
  /\ e \in DOMAIN found
  /\ found' = [found EXCEPT ![e].ticked = ~@]
  /\ UNCHANGED <<stage, scans, phase1, halted, phase2, mail, busy, made>>

\* profile_with_ip: a copy of the user's configuration, which keeps its port.
MadeFrom(e) == [row |-> e, dials |-> <<e[1], ProfilePort>>]

\* _add_selected: one configuration per IP, for its first ticked row.
AddTicked ==
  \E chosen \in SUBSET {e \in DOMAIN found : found[e].ticked} :
    /\ chosen # {}
    /\ \A e \in DOMAIN found : found[e].ticked => \E f \in chosen : f[1] = e[1]
    /\ \A e, f \in chosen : e[1] = f[1] => e = f
    /\ made' = made \cup {MadeFrom(e) : e \in chosen}
    /\ UNCHANGED <<stage, scans, phase1, halted, phase2, mail, found, busy>>
-----------------------------------------------------------------------------
ScanRuns ==
  \/ WorkerBegins \/ WorkerFails \/ LeaveLoop \/ Joined
  \/ ValidatorMade \/ NoXray \/ ValidationBegins \/ AttemptEnds
  \/ ValidationEnds \/ ValidationFails
  \/ \E r \in ended : TakeResult(r)

ProbesRun == \E e \in Targets : ProbeBegins(e) \/ ProbeReturns(e)

CleanNext ==
  \/ ScanRuns \/ ProbesRun
  \/ ScanClick \/ StopScan \/ DeliverMail \/ AddTicked
  \/ \E e \in AllTargets : TickRow(e)

\* Threads run, probes and validations have timeouts, signals are delivered.
CleanFairness ==
  WF_cleanVars(ScanRuns) /\ WF_cleanVars(ProbesRun) /\ WF_cleanVars(DeliverMail)

CleanSpec == CleanInit /\ [][CleanNext]_cleanVars /\ CleanFairness
-----------------------------------------------------------------------------
(* Properties                                                              *)

\* Every path through the worker, early returns, stops and failures included, ends
\* in one "done": the page comes back ...
ScanEnds == busy ~> ~busy

\* ... and not before the worker has posted all it has to post.
BusyTellsScan == ~busy => stage \in {"none", "over"} /\ mail = <<>>

\* A row is called verified only if real traffic went through at that very IP and
\* port, and clean only if that very endpoint passed phase 1.
RowsHonest ==
  \A e \in DOMAIN found :
    /\ found[e].status = "verified" => e \in proven
    /\ found[e].status = "clean" => e \in clean

\* ui/scanner_page.py:1047, of the configurations made from the ticked rows: "one
\* config per clean IP, on its best port".
MadeOnCleanPort == \A m \in made : m.dials = m.row
=============================================================================
