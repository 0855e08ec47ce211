------------------------------ MODULE RoutePool ------------------------------
(***************************************************************************)
(* The route pool of one session: core/pool.py's statistics per (IP, SNI)  *)
(* pair, the explorer's health loop, the active set and the per-IP failure *)
(* tracker; engine.py's promoter, which may move the spoofer to a better   *)
(* route; and the ends of main.py's connections, which report to the pool. *)
(*                                                                         *)
(* Four kinds of threads: the engine's worker (EnsurePair, StopPool), the  *)
(* health loop with its probe threads, the promoter, and the listener's    *)
(* event loop, which runs one connection's report at a time.  A section    *)
(* under a lock, or a stretch of the event loop without an await, is one   *)
(* action.  Rates are exact fractions; times are events that may happen.   *)
(***************************************************************************)
EXTENDS Integers, FiniteSets, FiniteSetsExt, Functions

CONSTANTS
  Pairs,          \* every (IP, SNI) pair
  Ips, IpOf,      \* the addresses, and the address of a pair
  Combos,         \* the configuration's IPs x SNIs
  Primary,        \* the route the session starts on; need not be a combination
  Conns,          \* connections of the spoofer
  None,
  Slots,          \* ACTIVE_SLOTS
  MinProbes,      \* PairStats.MIN_PROBES and PROMOTE_MIN_PROBES
  LossPct, DeadPct,             \* LOSS_THRESHOLD and DEAD_THRESHOLD, per cent
  RealEnough,     \* more real packets than this, and real loss weighs 70 %
  Threshold,      \* FAILOVER_THRESHOLD
  Bursts,         \* the numbers of probes _probe_one may make
  InitialSample, ExploreBatch, VerifyTop,
  AutoSwap,       \* POOL_AUTO_SWAP
  MaxCycles,      \* bound: cycles of the health loop
  MaxDown         \* bound: chunks downloaded

ASSUME PoolAssumption ==
  /\ IsFiniteSet(Pairs) /\ IsFiniteSet(Conns)
  /\ IpOf \in [Pairs -> Ips]
  /\ Combos \subseteq Pairs /\ Primary \in Pairs
  /\ None \notin Pairs
  /\ {Slots, MinProbes, Threshold, InitialSample, ExploreBatch, VerifyTop}
       \subseteq Nat \ {0}
  /\ Bursts \subseteq Nat /\ {RealEnough, LossPct, MaxCycles, MaxDown} \subseteq Nat
  /\ DeadPct \in 0..100
  /\ AutoSwap \in BOOLEAN

VARIABLES
  st,          \* PairStats of each pair
  registered,  \* the keys of explorer.stats
  unexplored,  \* explorer._unexplored; shuffled, so a set
  pool,        \* ActivePool._pool
  draining,    \* ActivePool._draining
  health,      \* where the health loop is
  owed,        \* probes each pair's probe thread has yet to make
  cycles,      \* cycles of the health loop that have ended
  stopping,    \* ConnectionManager._stop and the engine's _promoter_stop
  fails,       \* the tracker's failures of each IP inside the window
  route,       \* ProxyServer.connect_ip and fake_sni
  scored,      \* ProxyServer._active_pair
  conn,        \* the connections
  down,        \* ProxyServer._down_bytes, in chunks
  got,         \* history: the connection itself downloaded something
  report,      \* the outcome the event loop is about to report
  promoter,    \* where the promoter is
  seen,        \* the promoter's current_route()
  healthy      \* its cur_healthy

stats == <<st, registered>>
sets == <<pool, draining>>
loop == <<health, unexplored, owed, cycles>>
conns == <<conn, down, got, report>>
optimiser == <<promoter, seen, healthy>>
vars == <<stats, sets, loop, stopping, fails, route, scored, conns, optimiser>>

Stats == [sent : Nat, recv : Nat, spoofSent : Nat, spoofOk : Nat,
          realSent : Nat, realLost : Nat, active : Nat,
          alive : BOOLEAN, probed : BOOLEAN, inPool : BOOLEAN]
Fresh == [sent |-> 0, recv |-> 0, spoofSent |-> 0, spoofOk |-> 0,
          realSent |-> 0, realLost |-> 0, active |-> 0,
          alive |-> TRUE, probed |-> FALSE, inPool |-> FALSE]
NoReport == [pair |-> None, failed |-> FALSE]

TypeOK ==
  /\ st \in [Pairs -> Stats]
  /\ registered \subseteq Pairs /\ unexplored \subseteq Pairs
  /\ pool \subseteq Pairs /\ draining \subseteq Pairs
  /\ health \in {"boot", "bootprobes", "waiting", "verifying", "exploring",
                 "ended", "crashed"}
  /\ owed \in [Pairs -> Nat] /\ cycles \in Nat /\ stopping \in BOOLEAN
  /\ fails \in [Ips -> Nat]
  /\ route \in Pairs /\ scored \in Pairs \cup {None}
  /\ conn \in [Conns -> [at : {"new", "open", "relay", "closed"},
                         pair : Pairs \cup {None}, down0 : Nat]]
  /\ down \in Nat /\ got \in [Conns -> BOOLEAN]
  /\ report \in [pair : Pairs \cup {None}, failed : BOOLEAN]
  /\ promoter \in {"waiting", "judge", "search", "ended"}
  /\ seen \in Pairs /\ healthy \in BOOLEAN

Init ==
  /\ st = [p \in Pairs |-> Fresh]
  /\ registered = Combos /\ unexplored = Combos
  /\ pool = {} /\ draining = {}
  /\ health = "boot" /\ owed = [p \in Pairs |-> 0] /\ cycles = 0
  /\ stopping = FALSE
  /\ fails = [i \in Ips |-> 0]
  /\ route = Primary /\ scored = None
  /\ conn = [c \in Conns |-> [at |-> "new", pair |-> None, down0 |-> 0]]
  /\ down = 0 /\ got = [c \in Conns |-> FALSE] /\ report = NoReport
  /\ promoter = IF AutoSwap THEN "waiting" ELSE "ended"
  /\ seen = Primary /\ healthy = TRUE
-----------------------------------------------------------------------------
(* PairStats: losses as fractions <<numerator, denominator>>.              *)

ProbeLoss(s) == IF s.sent < MinProbes THEN <<0, 1>> ELSE <<s.sent - s.recv, s.sent>>

CombinedLoss(s) ==
  LET pl == ProbeLoss(s) IN
  IF s.realSent > RealEnough
  THEN <<7 * s.realLost * pl[2] + 3 * pl[1] * s.realSent, 10 * s.realSent * pl[2]>>
  ELSE pl

AtLeastPct(rate, pct) == 100 * rate[1] >= pct * rate[2]
Below(r1, r2) == r1[1] * r2[2] < r2[1] * r1[2]

Weak(s) == ~s.alive \/ AtLeastPct(CombinedLoss(s), LossPct)

\* score: dead pairs last, unknown pairs at one half.
RanksBefore(s1, s2) ==
  LET Score(s) == IF s.probed THEN CombinedLoss(s) ELSE <<1, 2>> IN
  s1.alive /\ (~s2.alive \/ Below(Score(s1), Score(s2)))

SpoofProven(s) == s.spoofSent >= 1 /\ s.spoofOk > 0 /\ 2 * s.spoofOk >= s.spoofSent
RealProven(s) == s.realSent >= 1 /\ 2 * s.realLost <= s.realSent

\* Mutant of Judge: any answer counts for life, whatever the loss.
JudgeRevives(s) ==
  IF s.sent < MinProbes THEN s
  ELSE IF s.recv > 0 THEN [s EXCEPT !.alive = TRUE]
  ELSE [s EXCEPT !.alive = ~AtLeastPct(<<s.sent - s.recv, s.sent>>, DeadPct)]

\* The common end of record_probe and record_spoof_probe.
Judge(s) ==
  IF s.sent < MinProbes THEN s
  ELSE IF AtLeastPct(<<s.sent - s.recv, s.sent>>, DeadPct) THEN [s EXCEPT !.alive = FALSE]
  ELSE [s EXCEPT !.alive = @ \/ s.recv > 0]

Bump(n, yes) == IF yes THEN n + 1 ELSE n

RecordProbe(s, ok) ==
  Judge([s EXCEPT !.sent = @ + 1, !.recv = Bump(@, ok), !.probed = TRUE])

RecordSpoofProbe(s, ok) ==
  Judge([s EXCEPT !.sent = @ + 1, !.recv = Bump(@, ok), !.probed = TRUE,
                  !.spoofSent = @ + 1, !.spoofOk = Bump(@, ok)])

RecordReal(s, lost) ==
  [s EXCEPT !.realSent = @ + 1, !.realLost = Bump(@, lost)]

\* Mutant of Release: "finally" releases a pair twice.
ReleaseTwice(s) == [s EXCEPT !.active = @ - 2]
Acquire(s) == [s EXCEPT !.active = @ + 1]
Release(s) == [s EXCEPT !.active = IF @ > 0 THEN @ - 1 ELSE @]

Known(s) == {p \in registered : s[p].probed}
Stable(s) == {p \in Known(s) : ~Weak(s[p])}

FirstNonEmpty(a, b, c) == IF a # {} THEN a ELSE IF b # {} THEN b ELSE c
-----------------------------------------------------------------------------
(* ActivePool                                                              *)

\* Mutant of Refresh: the slots are filled without a look at who drains.
RefreshReusesDraining(s) ==
  LET left == {p \in draining : s[p].active > 0}
      gone == {p \in pool : Weak(s[p])}
      keep == pool \ gone
      free == {p \in Known(s) : s[p].alive} \ keep
  IN \E chosen \in SUBSET free :
       /\ Cardinality(chosen) =
            IF Slots > Cardinality(keep)
            THEN Min({Slots - Cardinality(keep), Cardinality(free)}) ELSE 0
       /\ pool' = keep \cup chosen
       /\ draining' = left \cup gone
       /\ st' = [p \in Pairs |-> IF p \in chosen THEN [s[p] EXCEPT !.inPool = TRUE]
                 ELSE IF p \in draining \ left THEN [s[p] EXCEPT !.inPool = FALSE]
                 ELSE s[p]]

\* Mutant of Refresh: as many pairs are added as there are slots.
RefreshOverfills(s) ==
  LET gone == {p \in pool : Weak(s[p])}
      keep == pool \ gone
      free == Stable(s) \ (keep \cup draining \cup gone)
  IN \E chosen \in SUBSET free :
       /\ Cardinality(chosen) = Min({Slots, Cardinality(free)})
       /\ pool' = keep \cup chosen
       /\ draining' = draining \cup gone
       /\ st' = [p \in Pairs |-> IF p \in chosen THEN [s[p] EXCEPT !.inPool = TRUE]
                                 ELSE s[p]]

\* Mutant of Refresh: a dead pair keeps its slot.
RefreshKeepsDead(s) ==
  LET left == {p \in draining : s[p].active > 0}
      gone == {p \in pool : s[p].alive /\ Weak(s[p])}
  IN /\ pool' = pool \ gone
     /\ draining' = left \cup gone
     /\ st' = [p \in Pairs |-> IF p \in draining \ left
                               THEN [s[p] EXCEPT !.inPool = FALSE] ELSE s[p]]

\* refresh() on statistics s: frees the drained, drains the weak, fills up.
Refresh(s) ==
  LET left == {p \in draining : s[p].active > 0}
      gone == {p \in pool : Weak(s[p])}
      keep == pool \ gone
      busy == keep \cup left \cup gone
      free == FirstNonEmpty(Stable(s) \ busy,
                            {p \in Known(s) : s[p].alive} \ busy, {})
  IN \E chosen \in SUBSET free :
       /\ Cardinality(chosen) =
            IF Slots > Cardinality(keep)
            THEN Min({Slots - Cardinality(keep), Cardinality(free)}) ELSE 0
       /\ pool' = keep \cup chosen
       /\ draining' = left \cup gone
       /\ st' = [p \in Pairs |-> IF p \in chosen THEN [s[p] EXCEPT !.inPool = TRUE]
                 ELSE IF p \in draining \ left THEN [s[p] EXCEPT !.inPool = FALSE]
                 ELSE s[p]]

Initialize ==
  /\ health = "bootprobes" /\ \A p \in Pairs : owed[p] = 0
  /\ LET from == FirstNonEmpty(Stable(st), {p \in Known(st) : st[p].alive}, Known(st))
     IN \E chosen \in SUBSET from :
          /\ Cardinality(chosen) = Min({Slots, Cardinality(from)})
          /\ pool' = chosen
          /\ st' = [p \in Pairs |-> IF p \in chosen THEN [st[p] EXCEPT !.inPool = TRUE]
                                    ELSE st[p]]
  /\ health' = "waiting"
  /\ UNCHANGED <<registered, draining, unexplored, owed, cycles, stopping, fails,
                 route, scored, conns, optimiser>>
-----------------------------------------------------------------------------
(* The health loop and the explorer                                        *)

\* _run_probes_parallel: one thread per pair of batch, joined before going on.
Probing(batch) ==
  \E n \in [batch -> Bursts] :
    owed' = [p \in Pairs |-> IF p \in batch THEN n[p] ELSE 0]

InitialExplore ==
  /\ health = "boot"
  /\ \E batch \in SUBSET unexplored :
       /\ Cardinality(batch) = Min({InitialSample, Cardinality(unexplored)})
       /\ unexplored' = unexplored \ batch
       /\ Probing(batch)
  /\ health' = "bootprobes"
  /\ UNCHANGED <<stats, sets, cycles, stopping, fails, route, scored, conns, optimiser>>

\* One probe of p returns; the live program always replays the decoy.
ProbeLands(p) ==
  /\ owed[p] > 0
  /\ \E ok \in BOOLEAN : st' = [st EXCEPT ![p] = RecordSpoofProbe(@, ok)]
  /\ owed' = [owed EXCEPT ![p] = @ - 1]
  /\ UNCHANGED <<registered, sets, health, unexplored, cycles, stopping, fails,
                 route, scored, conns, optimiser>>

\* Mutant of Verify: the wait that times out loops without a look at _stop.
VerifyAgain ==
  /\ health \in {"waiting", "verifying"} /\ cycles < MaxCycles
  /\ \E batch \in SUBSET Known(st) : Probing(batch)
  /\ health' = IF stopping THEN "waiting" ELSE "verifying"
  /\ UNCHANGED <<stats, sets, unexplored, cycles, stopping, fails, route, scored,
                 conns, optimiser>>

\* The wait ends and periodic_explore verifies the best known pairs.
Verify ==
  /\ health = "waiting" /\ ~stopping /\ cycles < MaxCycles
  /\ \E batch \in SUBSET Known(st) :
       /\ Cardinality(batch) = Min({VerifyTop, Cardinality(Known(st))})
       /\ \A p \in batch, q \in Known(st) \ batch : ~RanksBefore(st[q], st[p])
       /\ Probing(batch)
  /\ health' = "verifying"
  /\ UNCHANGED <<stats, sets, unexplored, cycles, stopping, fails, route, scored,
                 conns, optimiser>>

\* Then it explores a batch of unknown pairs, or starts the queue anew.
Explore ==
  /\ health = "verifying" /\ \A p \in Pairs : owed[p] = 0
  /\ \/ /\ unexplored # {}
        /\ \E batch \in SUBSET unexplored :
             /\ Cardinality(batch) = Min({ExploreBatch, Cardinality(unexplored)})
             /\ unexplored' = unexplored \ batch
             /\ Probing(batch)
     \/ /\ unexplored = {}
        /\ unexplored' = registered
        /\ UNCHANGED owed
  /\ health' = "exploring"
  /\ UNCHANGED <<stats, sets, cycles, stopping, fails, route, scored, conns, optimiser>>

RefreshAfterCycle ==
  /\ health = "exploring" /\ \A p \in Pairs : owed[p] = 0
  /\ Refresh(st)
  /\ health' = "waiting" /\ cycles' = cycles + 1
  /\ UNCHANGED <<registered, unexplored, owed, stopping, fails, route, scored,
                 conns, optimiser>>

HealthEnds ==
  /\ health = "waiting" /\ stopping
  /\ health' = "ended"
  /\ UNCHANGED <<stats, sets, unexplored, owed, cycles, stopping, fails, route, scored,
                 conns, optimiser>>
-----------------------------------------------------------------------------
(* The engine's worker                                                     *)

\* ensure_pair(primary) and the binding of _active_pair.  The new key may land
\* in the dict while initialize() runs through it, which ends that thread.
EnsurePair ==
  /\ scored = None /\ ~stopping
  /\ registered' = registered \cup {Primary}
  /\ scored' = Primary
  /\ \/ UNCHANGED health
     \/ /\ Primary \notin registered
        /\ health = "bootprobes" /\ \A p \in Pairs : owed[p] = 0
        /\ health' = "crashed"
  /\ UNCHANGED <<st, sets, unexplored, owed, cycles, stopping, fails, route,
                 conns, optimiser>>

\* _stop_pool().
StopPool ==
  /\ ~stopping
  /\ stopping' = TRUE
  /\ UNCHANGED <<stats, sets, loop, fails, route, scored, conns, optimiser>>
-----------------------------------------------------------------------------
(* The spoofer's connections, on the event loop: while a report is being   *)
(* made no other handler runs.                                             *)

\* A client comes in after the listener is up, and takes the primary route.
Accept(c) ==
  /\ scored # None /\ report = NoReport
  /\ conn[c].at = "new"
  /\ conn' = [conn EXCEPT ![c] = [at |-> "open", pair |-> scored, down0 |-> 0]]
  /\ st' = [st EXCEPT ![scored] = Acquire(@)]
  /\ UNCHANGED <<registered, sets, loop, stopping, fails, route, scored, down, got,
                 report, optimiser>>

RelayBegins(c) ==
  /\ conn[c].at = "open" /\ report = NoReport
  /\ conn' = [conn EXCEPT ![c].at = "relay", ![c].down0 = down]
  /\ UNCHANGED <<stats, sets, loop, stopping, fails, route, scored, down, got,
                 report, optimiser>>

Download(c) ==
  /\ conn[c].at = "relay" /\ report = NoReport /\ down < MaxDown
  /\ down' = down + 1
  /\ got' = [got EXCEPT ![c] = TRUE]
  /\ UNCHANGED <<stats, sets, loop, stopping, fails, route, scored, conn,
                 report, optimiser>>

\* Mutant of Failed: only a handshake that fails counts.
FailedHandshake(c) == conn[c].at = "open"

\* pair_failed of a connection that ends now: an early return leaves it True.
Failed(c) == conn[c].at = "open" \/ down - conn[c].down0 <= 0

\* Mutant of Finally: an early return skips the release.
FinallyForgets(c, failed) ==
  /\ LET p == conn[c].pair IN
       /\ st' = [st EXCEPT ![p] = RecordReal(IF failed THEN @ ELSE Release(@), failed)]
       /\ report' = [pair |-> p, failed |-> failed]
  /\ conn' = [conn EXCEPT ![c].at = "closed"]
  /\ UNCHANGED <<registered, sets, loop, stopping, fails, route, scored, down, got,
                 optimiser>>

\* The finally block up to the call of report_failure or report_success.
Finally(c, failed) ==
  /\ LET p == conn[c].pair IN
       /\ st' = [st EXCEPT ![p] = RecordReal(Release(@), failed)]
       /\ report' = [pair |-> p, failed |-> failed]
  /\ conn' = [conn EXCEPT ![c].at = "closed"]
  /\ UNCHANGED <<registered, sets, loop, stopping, fails, route, scored, down, got,
                 optimiser>>

ConnectionEnds(c) ==
  /\ conn[c].at \in {"open", "relay"} /\ report = NoReport
  /\ Finally(c, Failed(c))

\* The relay is cancelled by the closing listener, or raises: pair_failed is still True.
ConnectionCut(c) ==
  /\ conn[c].at = "relay" /\ report = NoReport
  /\ Finally(c, TRUE)

\* report_failure: a probe miss, a refresh when the pair is now weak, a failure of the IP.
ReportFailure ==
  /\ report.pair # None /\ report.failed
  /\ LET p == report.pair
         s == [st EXCEPT ![p] = RecordProbe(@, FALSE)]
     IN /\ \/ Weak(s[p]) /\ Refresh(s)
           \/ ~Weak(s[p]) /\ st' = s /\ UNCHANGED sets
        /\ fails' = [fails EXCEPT ![IpOf[p]] = @ + 1]
  /\ report' = NoReport
  /\ UNCHANGED <<registered, loop, stopping, route, scored, conn, down, got, optimiser>>

\* report_success clears the IP's failures.
ReportSuccess ==
  /\ report.pair # None /\ ~report.failed
  /\ fails' = [fails EXCEPT ![IpOf[report.pair]] = 0]
  /\ report' = NoReport
  /\ UNCHANGED <<stats, sets, loop, stopping, route, scored, conn, down, got, optimiser>>

\* A failure of i leaves the window.
FailureAges(i) ==
  /\ fails[i] > 0
  /\ fails' = [fails EXCEPT ![i] = @ - 1]
  /\ UNCHANGED <<stats, sets, loop, stopping, route, scored, conns, optimiser>>
-----------------------------------------------------------------------------
(* The promoter                                                            *)

ShouldFailover(i) == fails[i] >= Threshold

Candidates ==
  {p \in Stable(st) : st[p].sent >= MinProbes /\ ~ShouldFailover(IpOf[p])}

\* _candidate_is_better: real proof, then spoof proof, then the lower loss.
Outranks(s1, s2) ==
  IF RealProven(s1) # RealProven(s2) THEN RealProven(s1)
  ELSE IF SpoofProven(s1) # SpoofProven(s2) THEN SpoofProven(s1)
  ELSE Below(CombinedLoss(s1), CombinedLoss(s2))

BestCandidates == {p \in Candidates : \A q \in Candidates : ~Outranks(st[q], st[p])}

\* Mutant of BetterRoutes: a clean spoof probe is proof enough.
BetterRoutesByProbe ==
  IF healthy THEN {}
  ELSE {p \in BestCandidates : (RealProven(st[p]) \/ SpoofProven(st[p])) /\ p # seen}

\* find_better_route(seen, current_healthy = healthy); any of them when several tie.
BetterRoutes ==
  IF healthy THEN {} ELSE {p \in BestCandidates : RealProven(st[p]) /\ p # seen}

PromoterLooks ==
  /\ promoter = "waiting" /\ ~stopping
  /\ seen' = route
  /\ promoter' = "judge"
  /\ UNCHANGED <<stats, sets, loop, stopping, fails, route, scored, conns, healthy>>

PromoterJudges ==
  /\ promoter = "judge"
  /\ healthy' = ~ShouldFailover(IpOf[seen])
  /\ promoter' = "search"
  /\ UNCHANGED <<stats, sets, loop, stopping, fails, route, scored, conns, seen>>

ApplyRoute(p) == route' = p /\ scored' = p

\* find_better_route, and apply_route with what it returns.  One step, and no
\* cooldown or saved result after it: RouteStays says that there is never a swap.
PromoterSearches ==
  /\ promoter = "search"
  /\ IF BetterRoutes = {} THEN UNCHANGED <<route, scored>>
     ELSE \E p \in BetterRoutes : ApplyRoute(p)
  /\ promoter' = "waiting"
  /\ UNCHANGED <<stats, sets, loop, stopping, fails, conns, seen, healthy>>

PromoterEnds ==
  /\ promoter = "waiting" /\ stopping
  /\ promoter' = "ended"
  /\ UNCHANGED <<stats, sets, loop, stopping, fails, route, scored, conns,
                 seen, healthy>>
-----------------------------------------------------------------------------
HealthLoop ==
  \/ InitialExplore \/ Initialize \/ Verify \/ Explore \/ RefreshAfterCycle \/ HealthEnds
  \/ \E p \in Pairs : ProbeLands(p)

Promoter ==
  \/ PromoterLooks \/ PromoterJudges \/ PromoterSearches \/ PromoterEnds

EventLoop == ReportFailure \/ ReportSuccess

Next ==
  \/ HealthLoop \/ Promoter \/ EventLoop
  \/ EnsurePair \/ StopPool
  \/ \E c \in Conns :
       Accept(c) \/ RelayBegins(c) \/ Download(c) \/ ConnectionEnds(c) \/ ConnectionCut(c)
  \/ \E i \in Ips : FailureAges(i)

Spec == Init /\ [][Next]_vars
-----------------------------------------------------------------------------
(* Properties                                                              *)

\* A pair is alive exactly when its loss is under the dead threshold, whichever
\* of the probe threads and the event loop counted last: no order of their
\* records leaves a verdict that the counters contradict.
AliveIsJudged ==
  \A p \in Pairs :
    st[p].alive <=>
      \/ st[p].sent < MinProbes
      \/ ~AtLeastPct(<<st[p].sent - st[p].recv, st[p].sent>>, DeadPct)

\* Every connection releases the pair it took, once, even when the promoter
\* binds another pair between the two: a pair's live connections are those that
\* took it (PairStats.acquire and release in _handle).
ConnectionsBalanced ==
  \A p \in Pairs :
    st[p].active = Cardinality({c \in Conns : conn[c].at \in {"open", "relay"}
                                             /\ conn[c].pair = p})

\* The active set keeps to its slots, and all of it has been probed and is still in
\* the register.  It need not be marked in_active_pool: initialize() may take a pair
\* that drains, whose mark the next refresh clears (pool.py:824) while the pair stays.
ActiveSetBounded ==
  /\ Cardinality(pool) <= Slots
  /\ \A p \in pool : st[p].probed /\ p \in registered

\* After the first cycle, and between cycles, no dead pair holds a slot, although
\* the connections' failures kill pairs at any time.
NoDeadPairServes ==
  cycles >= 1 /\ health \in {"waiting", "ended"} /\ report = NoReport
    => \A p \in pool : st[p].alive

\* The active set keeps its slots and sheds its dead, whichever threads refresh it.
ActiveSetSound == ActiveSetBounded /\ NoDeadPairServes

\* What the promoter's rule amounts to: only the session's own first route ever
\* carries traffic, so no other is proven by traffic, so the route is never
\* swapped, in an emergency neither.
RouteStays ==
  /\ route = Primary /\ scored \in {Primary, None}
  /\ \A p \in Pairs \ {Primary} : st[p].realSent = 0

\* Once the active set is initialised, a pair that drains serves again only when
\* its live connections have ended ("existing connections finish normally").
\* initialize() itself does not look at who drains already.
DrainedBeforeReuse ==
  [][health # "bootprobes" =>
       \A p \in draining : p \in pool' /\ p \notin pool => st[p].active = 0]_vars

\* A route gets a success only when its connection reached the relay and some
\* relay downloaded.  main.py:540 says more ("iff the server actually sent data
\* back"), but down_n is a difference of totals that all relays share, so another
\* connection's download makes a dead one a success too.
SuccessNeedsDownload ==
  [][\A c \in Conns :
       conn[c].at # "closed" /\ conn'[c].at = "closed" /\ ~report'.failed
         => conn[c].at = "relay" /\ \E d \in Conns : got[d]]_vars
=============================================================================
