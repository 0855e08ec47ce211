----------------------------- MODULE PoolProofs -----------------------------
(***************************************************************************)
(* What holds of the route pool for any number of pairs, connections and   *)
(* probes.                                                                 *)
(*                                                                         *)
(* The argument: whoever changes the statistics of a pair does so through  *)
(* one of five records, and each of them is right about life (Judged) and  *)
(* leaves the traffic counters alone unless it is a connection's.  Traffic *)
(* is the primary's alone, because the listener hands out _active_pair and *)
(* only a swap could bind another; a swap wants a pair proven by traffic.  *)
(***************************************************************************)
EXTENDS RoutePool, FiniteSetTheorems, TLAPS

Judged(s) ==
  s.alive <=> \/ s.sent < MinProbes
              \/ ~AtLeastPct(<<s.sent - s.recv, s.sent>>, DeadPct)

SameTraffic(r, s) == r.active = s.active /\ r.realSent = s.realSent

\* Who carries traffic, and who knows of another pair.
OnlyPrimary ==
  /\ scored \in {Primary, None} /\ seen = Primary /\ report.pair \in {Primary, None}
  /\ \A c \in Conns : conn[c].at \in {"open", "relay"} => conn[c].pair = Primary

PoolInv == TypeOK /\ AliveIsJudged /\ OnlyPrimary /\ RouteStays

\* No percentage is more than the whole.
LEMMA Share == ASSUME NEW d \in 0..100, NEW n \in Nat PROVE d * n <= 100 * n
<1>1. PICK e \in Nat : d + e = 100
  <2>1. 100 - d \in Nat /\ d + (100 - d) = 100 OBVIOUS
  <2>2. QED BY <2>1
<1>2. e * n >= 0 OBVIOUS
<1>3. (d + e) * n = d * n + e * n OBVIOUS
<1>4. QED BY <1>1, <1>2, <1>3

\* Judge is right once a probe is counted, if the verdict before it was.
LEMMA JudgeRight ==
  ASSUME NEW s \in Stats, s.sent < MinProbes => s.alive
  PROVE  /\ Judge(s) \in Stats /\ Judged(Judge(s)) /\ SameTraffic(Judge(s), s)
         /\ Judge(s) = [s EXCEPT !.alive = Judge(s).alive]
<1>1. CASE s.sent < MinProbes
  BY <1>1 DEF Judge, Judged, Stats, SameTraffic
<1>2. CASE s.sent >= MinProbes /\ AtLeastPct(<<s.sent - s.recv, s.sent>>, DeadPct)
  BY <1>2, PoolAssumption DEF Judge, Judged, Stats, SameTraffic, AtLeastPct
<1>3. CASE s.sent >= MinProbes /\ ~AtLeastPct(<<s.sent - s.recv, s.sent>>, DeadPct)
  <2>1. s.recv > 0
    <3>1. DeadPct * s.sent <= 100 * s.sent
      BY Share, PoolAssumption DEF Stats
    <3>2. ~(100 * (s.sent - s.recv) >= DeadPct * s.sent)
      BY <1>3 DEF AtLeastPct
    <3>3. QED BY <3>1, <3>2, PoolAssumption DEF Stats
  <2>2. Judge(s) = [s EXCEPT !.alive = TRUE]
    BY <1>3, <2>1, PoolAssumption DEF Judge, Stats
  <2>3. QED
    BY <1>3, <2>2 DEF Judged, Stats, SameTraffic, AtLeastPct
<1>4. QED
  BY <1>1, <1>2, <1>3, PoolAssumption DEF Stats

\* A probe is counted and judged.
LEMMA ProbeRight ==
  ASSUME NEW s \in Stats, Judged(s), NEW ok \in BOOLEAN
  PROVE  /\ RecordProbe(s, ok) \in Stats /\ Judged(RecordProbe(s, ok))
         /\ SameTraffic(RecordProbe(s, ok), s)
         /\ RecordSpoofProbe(s, ok) \in Stats /\ Judged(RecordSpoofProbe(s, ok))
         /\ SameTraffic(RecordSpoofProbe(s, ok), s)
<1>0. PICK k \in Nat, l \in Nat, n \in Nat, m \in Nat :
        /\ k = s.sent + 1 /\ l = s.spoofSent + 1
        /\ n = Bump(s.recv, ok) /\ m = Bump(s.spoofOk, ok)
  BY DEF Bump, Stats
<1> DEFINE t == [s EXCEPT !.sent = k, !.recv = n, !.probed = TRUE]
           u == [s EXCEPT !.sent = k, !.recv = n, !.probed = TRUE,
                          !.spoofSent = l, !.spoofOk = m]
<1>1. /\ t \in Stats /\ SameTraffic(t, s) /\ (t.sent < MinProbes => t.alive)
      /\ u \in Stats /\ SameTraffic(u, s) /\ (u.sent < MinProbes => u.alive)
  <2>1. t \in Stats /\ u \in Stats
    BY DEF Stats
  <2>2. SameTraffic(t, s) /\ SameTraffic(u, s)
    BY DEF Stats, SameTraffic
  <2>3. /\ t.sent = k /\ t.alive = s.alive
        /\ u.sent = k /\ u.alive = s.alive
    BY DEF Stats
  <2>4. k < MinProbes => s.alive
    BY <1>0, PoolAssumption DEF Judged, Stats
  <2>5. QED
    BY <2>1, <2>2, <2>3, <2>4
<1>2. /\ Judge(t) \in Stats /\ Judged(Judge(t)) /\ SameTraffic(Judge(t), t)
      /\ Judge(u) \in Stats /\ Judged(Judge(u)) /\ SameTraffic(Judge(u), u)
  <2> HIDE DEF t, u
  <2>1. QED BY <1>1, JudgeRight
<1>3. RecordProbe(s, ok) = Judge(t) /\ RecordSpoofProbe(s, ok) = Judge(u)
  BY <1>0 DEF RecordProbe, RecordSpoofProbe
<1>4. QED
  BY <1>1, <1>2, <1>3 DEF SameTraffic

\* A connection's own records say nothing about life.
LEMMA TrafficRight ==
  ASSUME NEW s \in Stats, Judged(s), NEW lost \in BOOLEAN
  PROVE  /\ Acquire(s) \in Stats /\ Judged(Acquire(s))
         /\ Acquire(s).active = s.active + 1 /\ Acquire(s).realSent = s.realSent
         /\ RecordReal(Release(s), lost) \in Stats /\ Judged(RecordReal(Release(s), lost))
         /\ RecordReal(Release(s), lost).active =
              IF s.active > 0 THEN s.active - 1 ELSE s.active
<1>1. /\ Acquire(s) \in Stats
      /\ Acquire(s) = [s EXCEPT !.active = s.active + 1]
  BY DEF Acquire, Stats
<1>2. /\ Release(s) \in Stats
      /\ Release(s) = [s EXCEPT !.active = IF s.active > 0 THEN s.active - 1 ELSE s.active]
  BY DEF Release, Stats
<1>3. ASSUME NEW r \in Stats
      PROVE  /\ RecordReal(r, lost) \in Stats
             /\ RecordReal(r, lost).active = r.active /\ RecordReal(r, lost).alive = r.alive
             /\ RecordReal(r, lost).sent = r.sent /\ RecordReal(r, lost).recv = r.recv
  <2>1. PICK n \in Nat, m \in Nat : n = Bump(r.realLost, lost) /\ m = r.realSent + 1
    BY DEF Bump, Stats
  <2>2. RecordReal(r, lost) = [r EXCEPT !.realSent = m, !.realLost = n]
    BY <2>1 DEF RecordReal
  <2>3. QED
    BY <2>2 DEF Stats
<1>4. /\ Acquire(s).active = s.active + 1 /\ Acquire(s).realSent = s.realSent
      /\ Acquire(s).alive = s.alive /\ Acquire(s).sent = s.sent /\ Acquire(s).recv = s.recv
  BY <1>1 DEF Stats
<1>5. /\ Release(s).active = IF s.active > 0 THEN s.active - 1 ELSE s.active
      /\ Release(s).alive = s.alive /\ Release(s).sent = s.sent /\ Release(s).recv = s.recv
  BY <1>2 DEF Stats
<1>6. /\ RecordReal(Release(s), lost) \in Stats
      /\ RecordReal(Release(s), lost).active = Release(s).active
      /\ RecordReal(Release(s), lost).alive = Release(s).alive
      /\ RecordReal(Release(s), lost).sent = Release(s).sent
      /\ RecordReal(Release(s), lost).recv = Release(s).recv
  BY <1>2, <1>3
<1>7. Judged(Acquire(s)) /\ Judged(RecordReal(Release(s), lost))
  BY <1>4, <1>5, <1>6 DEF Judged
<1>8. QED
  BY <1>1, <1>4, <1>5, <1>6, <1>7

\* Nor does the mark of the active set.
LEMMA MarkRight ==
  ASSUME NEW s \in Stats, Judged(s), NEW b \in BOOLEAN
  PROVE  /\ [s EXCEPT !.inPool = b] \in Stats /\ Judged([s EXCEPT !.inPool = b])
         /\ SameTraffic([s EXCEPT !.inPool = b], s)
BY DEF Stats, Judged, SameTraffic

\* refresh() only marks who serves.
LEMMA RefreshRight ==
  ASSUME NEW s \in [Pairs -> Stats], \A p \in Pairs : Judged(s[p]),
         TypeOK, Refresh(s)
  PROVE  /\ st' \in [Pairs -> Stats] /\ pool' \subseteq Pairs /\ draining' \subseteq Pairs
         /\ \A p \in Pairs : Judged(st'[p]) /\ SameTraffic(st'[p], s[p])
<1> DEFINE left == {p \in draining : s[p].active > 0}
           gone == {p \in pool : Weak(s[p])}
           keep == pool \ gone
           busy == keep \cup left \cup gone
           free == FirstNonEmpty(Stable(s) \ busy,
                                 {p \in Known(s) : s[p].alive} \ busy, {})
<1>1. PICK chosen \in SUBSET free :
        /\ pool' = keep \cup chosen
        /\ draining' = left \cup gone
        /\ st' = [p \in Pairs |-> IF p \in chosen THEN [s[p] EXCEPT !.inPool = TRUE]
                  ELSE IF p \in draining \ left THEN [s[p] EXCEPT !.inPool = FALSE]
                  ELSE s[p]]
  BY DEF Refresh
<1>2. free \subseteq Pairs
  BY DEF FirstNonEmpty, Stable, Known, TypeOK
<1>3. pool' \subseteq Pairs /\ draining' \subseteq Pairs
  BY <1>1, <1>2 DEF TypeOK
<1>4. \A p \in Pairs : st'[p] \in {[s[p] EXCEPT !.inPool = TRUE],
                                   [s[p] EXCEPT !.inPool = FALSE], s[p]}
  BY <1>1
<1>5. \A p \in Pairs : st'[p] \in Stats /\ Judged(st'[p]) /\ SameTraffic(st'[p], s[p])
  <2> SUFFICES ASSUME NEW p \in Pairs
               PROVE  st'[p] \in Stats /\ Judged(st'[p]) /\ SameTraffic(st'[p], s[p])
    OBVIOUS
  <2>1. CASE st'[p] = s[p]
    BY <2>1 DEF SameTraffic
  <2>2. CASE st'[p] # s[p]
    BY <1>4, <2>2, MarkRight
  <2>3. QED BY <2>1, <2>2
<1>6. QED
  BY <1>1, <1>3, <1>5

\* What a step may do to the statistics: nothing but what the records above do.
Right(s, t) ==
  /\ t \in [Pairs -> Stats]
  /\ \A p \in Pairs : Judged(t[p]) /\ SameTraffic(t[p], s[p])

LEMMA InitializeRight == ASSUME PoolInv, Initialize PROVE Right(st, st') /\ pool' \subseteq Pairs
<1> DEFINE from == FirstNonEmpty(Stable(st), {p \in Known(st) : st[p].alive}, Known(st))
<1>1. PICK chosen \in SUBSET from :
        /\ pool' = chosen
        /\ st' = [p \in Pairs |-> IF p \in chosen THEN [st[p] EXCEPT !.inPool = TRUE]
                                  ELSE st[p]]
  BY DEF Initialize
<1>2. from \subseteq Pairs
  BY DEF FirstNonEmpty, Stable, Known, PoolInv, TypeOK
<1>3. \A p \in Pairs : st'[p] \in {[st[p] EXCEPT !.inPool = TRUE], st[p]}
  BY <1>1
<1>4. ASSUME NEW p \in Pairs
      PROVE  st'[p] \in Stats /\ Judged(st'[p]) /\ SameTraffic(st'[p], st[p])
  <2>1. st[p] \in Stats /\ Judged(st[p])
    BY DEF PoolInv, TypeOK, AliveIsJudged, Judged
  <2>2. CASE st'[p] = st[p]
    BY <2>1, <2>2 DEF SameTraffic
  <2>3. CASE st'[p] # st[p]
    BY <1>3, <2>1, <2>3, MarkRight
  <2>4. QED BY <2>2, <2>3
<1>5. QED
  BY <1>1, <1>2, <1>4 DEF Right

LEMMA LandingRight == ASSUME PoolInv, NEW p \in Pairs, ProbeLands(p) PROVE Right(st, st')
<1>1. PICK ok \in BOOLEAN : st' = [st EXCEPT ![p] = RecordSpoofProbe(st[p], ok)]
  BY DEF ProbeLands
<1>2. \A q \in Pairs : st[q] \in Stats /\ Judged(st[q])
  BY DEF PoolInv, TypeOK, AliveIsJudged, Judged
<1>3. \A q \in Pairs : st'[q] = IF q = p THEN RecordSpoofProbe(st[p], ok) ELSE st[q]
  BY <1>1 DEF PoolInv, TypeOK
<1>4. \A q \in Pairs : st'[q] \in Stats /\ Judged(st'[q]) /\ SameTraffic(st'[q], st[q])
  BY <1>2, <1>3, ProbeRight DEF SameTraffic
<1>5. QED
  BY <1>1, <1>4 DEF Right, PoolInv, TypeOK

LEMMA FailureRight ==
  ASSUME PoolInv, ReportFailure
  PROVE  Right(st, st') /\ pool' \subseteq Pairs /\ draining' \subseteq Pairs
<1> DEFINE s == [st EXCEPT ![report.pair] = RecordProbe(st[report.pair], FALSE)]
<1>1. report.pair \in Pairs
  BY DEF ReportFailure, PoolInv, TypeOK
<1>2. \A q \in Pairs : st[q] \in Stats /\ Judged(st[q])
  BY DEF PoolInv, TypeOK, AliveIsJudged, Judged
<1>3. s = [q \in Pairs |-> IF q = report.pair THEN RecordProbe(st[report.pair], FALSE)
                           ELSE st[q]]
  BY <1>1 DEF PoolInv, TypeOK
<1>4. Refresh(s) \/ (st' = s /\ UNCHANGED sets)
  BY DEF ReportFailure
<1> HIDE DEF s
<1>5. \A q \in Pairs : s[q] \in Stats /\ Judged(s[q]) /\ SameTraffic(s[q], st[q])
  BY <1>2, <1>3, ProbeRight DEF SameTraffic
<1>6. s \in [Pairs -> Stats]
  BY <1>3, <1>5
<1>7. CASE Refresh(s)
  <2>1. /\ st' \in [Pairs -> Stats] /\ pool' \subseteq Pairs /\ draining' \subseteq Pairs
        /\ \A p \in Pairs : Judged(st'[p]) /\ SameTraffic(st'[p], s[p])
    BY <1>5, <1>6, <1>7, RefreshRight DEF PoolInv
  <2>2. QED
    BY <1>5, <2>1 DEF Right, SameTraffic
<1>8. CASE st' = s /\ UNCHANGED sets
  BY <1>5, <1>6, <1>8 DEF Right, sets, PoolInv, TypeOK
<1>9. QED BY <1>4, <1>7, <1>8

LEMMA CycleRight ==
  ASSUME PoolInv, RefreshAfterCycle
  PROVE  Right(st, st') /\ pool' \subseteq Pairs /\ draining' \subseteq Pairs
<1>1. st \in [Pairs -> Stats] /\ \A p \in Pairs : Judged(st[p])
  BY DEF PoolInv, TypeOK, AliveIsJudged, Judged
<1>2. QED
  BY <1>1, RefreshRight DEF RefreshAfterCycle, PoolInv, Right

\* Every step but those that open or end a connection leaves the traffic counters.
LEMMA QuietRight ==
  ASSUME PoolInv,
         \/ HealthLoop \/ Promoter \/ EventLoop \/ EnsurePair \/ StopPool
         \/ \E c \in Conns : RelayBegins(c) \/ Download(c)
         \/ \E i \in Ips : FailureAges(i)
  PROVE  Right(st, st')
<1>1. UNCHANGED st => Right(st, st')
  BY DEF Right, PoolInv, TypeOK, AliveIsJudged, Judged, SameTraffic
<1>2. CASE HealthLoop
  BY <1>1, <1>2, InitializeRight, LandingRight, CycleRight
  DEF HealthLoop, InitialExplore, Verify, Explore, HealthEnds, stats
<1>3. CASE Promoter
  BY <1>1, <1>3 DEF Promoter, PromoterLooks, PromoterJudges, PromoterSearches,
                    PromoterEnds, stats
<1>4. CASE EventLoop
  BY <1>1, <1>4, FailureRight DEF EventLoop, ReportSuccess, stats
<1>5. CASE EnsurePair \/ StopPool
  BY <1>1, <1>5 DEF EnsurePair, StopPool, stats
<1>6. CASE \E c \in Conns : RelayBegins(c) \/ Download(c)
  BY <1>1, <1>6 DEF RelayBegins, Download, stats
<1>7. CASE \E i \in Ips : FailureAges(i)
  BY <1>1, <1>7 DEF FailureAges, stats
<1>8. QED BY <1>2, <1>3, <1>4, <1>5, <1>6, <1>7

\* A connection that opens takes the primary route ...
LEMMA AcceptRight ==
  ASSUME PoolInv, NEW c \in Conns, Accept(c)
  PROVE  /\ st' \in [Pairs -> Stats] /\ \A p \in Pairs : Judged(st'[p])
         /\ \A p \in Pairs : st'[p].realSent = st[p].realSent
         /\ \A p \in Pairs : st'[p].active =
                               IF p = Primary THEN st[p].active + 1 ELSE st[p].active
         /\ conn' = [conn EXCEPT ![c] = [at |-> "open", pair |-> Primary, down0 |-> 0]]
<1>1. scored = Primary /\ Primary \in Pairs
  BY PoolAssumption DEF Accept, PoolInv, OnlyPrimary
<1>2. st' = [st EXCEPT ![Primary] = Acquire(st[Primary])]
  BY <1>1 DEF Accept
<1>3. \A q \in Pairs : st[q] \in Stats /\ Judged(st[q])
  BY DEF PoolInv, TypeOK, AliveIsJudged, Judged
<1>4. \A q \in Pairs : st'[q] = IF q = Primary THEN Acquire(st[Primary]) ELSE st[q]
  BY <1>2 DEF PoolInv, TypeOK
<1>5. /\ Acquire(st[Primary]) \in Stats /\ Judged(Acquire(st[Primary]))
      /\ Acquire(st[Primary]).active = st[Primary].active + 1
      /\ Acquire(st[Primary]).realSent = st[Primary].realSent
  BY <1>1, <1>3, TrafficRight
<1>6. st' \in [Pairs -> Stats]
  BY <1>1, <1>2, <1>5 DEF PoolInv, TypeOK
<1>7. QED
  BY <1>1, <1>3, <1>4, <1>5, <1>6 DEF Accept

\* ... and one that ends releases it and counts for it.
LEMMA EndRight ==
  ASSUME PoolInv, NEW c \in Conns, NEW failed \in BOOLEAN,
         conn[c].at \in {"open", "relay"}, Finally(c, failed)
  PROVE  /\ st' \in [Pairs -> Stats] /\ \A p \in Pairs : Judged(st'[p])
         /\ \A p \in Pairs \ {Primary} : st'[p] = st[p]
         /\ st'[Primary].active = IF st[Primary].active > 0
                                  THEN st[Primary].active - 1 ELSE st[Primary].active
         /\ conn' = [conn EXCEPT ![c].at = "closed"]
         /\ report' = [pair |-> Primary, failed |-> failed]
<1> DEFINE r == RecordReal(Release(st[Primary]), failed)
<1>1. conn[c].pair = Primary /\ Primary \in Pairs
  BY PoolAssumption DEF PoolInv, OnlyPrimary
<1>2. st' = [st EXCEPT ![Primary] = r]
  BY <1>1 DEF Finally
<1>3. \A q \in Pairs : st[q] \in Stats /\ Judged(st[q])
  BY DEF PoolInv, TypeOK, AliveIsJudged, Judged
<1>4. /\ r \in Stats /\ Judged(r)
      /\ r.active = IF st[Primary].active > 0
                    THEN st[Primary].active - 1 ELSE st[Primary].active
  BY <1>1, <1>3, TrafficRight
<1> HIDE DEF r
<1>5. \A q \in Pairs : st'[q] = IF q = Primary THEN r ELSE st[q]
  BY <1>2 DEF PoolInv, TypeOK
<1>6. st' \in [Pairs -> Stats]
  BY <1>1, <1>2, <1>4 DEF PoolInv, TypeOK
<1>7. QED
  BY <1>1, <1>3, <1>4, <1>5, <1>6 DEF Finally

\* The statistics after any step.
LEMMA StatsStep ==
  ASSUME PoolInv, Next
  PROVE  /\ st' \in [Pairs -> Stats] /\ AliveIsJudged'
         /\ \A p \in Pairs \ {Primary} : st'[p].realSent = 0
<1>1. AliveIsJudged' <=> \A p \in Pairs : Judged(st'[p])
  BY DEF AliveIsJudged, Judged
<1>2. \A p \in Pairs \ {Primary} : st[p].realSent = 0
  BY DEF PoolInv, RouteStays
<1>3. CASE \E c \in Conns : Accept(c)
  BY <1>1, <1>2, <1>3, AcceptRight
<1>4. ASSUME NEW c \in Conns, ConnectionEnds(c) \/ ConnectionCut(c)
      PROVE  /\ st' \in [Pairs -> Stats] /\ AliveIsJudged'
             /\ \A p \in Pairs \ {Primary} : st'[p].realSent = 0
  <2>1. PICK failed \in BOOLEAN : Finally(c, failed)
    BY <1>4 DEF ConnectionEnds, ConnectionCut, Failed
  <2>2. conn[c].at \in {"open", "relay"}
    BY <1>4 DEF ConnectionEnds, ConnectionCut
  <2>3. QED
    BY <1>1, <1>2, <2>1, <2>2, EndRight
<1>5. Right(st, st') => /\ st' \in [Pairs -> Stats] /\ AliveIsJudged'
             /\ \A p \in Pairs \ {Primary} : st'[p].realSent = 0
  BY <1>1, <1>2 DEF Right, SameTraffic
<1>6. QED
  BY <1>3, <1>4, <1>5, QuietRight DEF Next

\* The promoter finds nothing: what traffic has proven is the route it has.
LEMMA NoneBetter == ASSUME PoolInv PROVE BetterRoutes = {}
<1> SUFFICES ASSUME NEW p \in BestCandidates, RealProven(st[p]), p # seen PROVE FALSE
  BY DEF BetterRoutes
<1>1. p \in Pairs
  BY DEF BestCandidates, Candidates, Stable, Known, PoolInv, TypeOK
<1>2. st[p].realSent = 0
  BY <1>1 DEF PoolInv, OnlyPrimary, RouteStays
<1>3. QED
  BY <1>2 DEF RealProven

LEMMA PrimaryStep ==
  ASSUME PoolInv, Next
  PROVE  OnlyPrimary' /\ route' = Primary
<1> USE PoolAssumption DEF PoolInv, OnlyPrimary, RouteStays
<1>1. CASE HealthLoop
  BY <1>1 DEF HealthLoop, InitialExplore, Initialize, Verify, Explore, RefreshAfterCycle,
              HealthEnds, ProbeLands, conns, optimiser
<1>2. CASE Promoter
  BY <1>2, NoneBetter DEF Promoter, PromoterLooks, PromoterJudges, PromoterSearches,
                          PromoterEnds, conns
<1>3. CASE EventLoop
  <2>1. report' = NoReport /\ UNCHANGED <<route, scored, conn, seen>>
    BY <1>3 DEF EventLoop, ReportFailure, ReportSuccess, optimiser
  <2>2. report'.pair = None
    BY <2>1 DEF NoReport
  <2>3. QED
    BY <2>1, <2>2
<1>4. CASE EnsurePair \/ StopPool
  BY <1>4 DEF EnsurePair, StopPool, conns, optimiser
<1>5. ASSUME NEW c \in Conns, Accept(c) PROVE OnlyPrimary' /\ route' = Primary
  <2>1. \A d \in Conns : conn'[d].pair = IF d = c THEN Primary ELSE conn[d].pair
    BY <1>5, AcceptRight DEF TypeOK
  <2>2. \A d \in Conns \ {c} : conn'[d].at = conn[d].at
    BY <1>5, AcceptRight DEF TypeOK
  <2>3. QED
    BY <1>5, <2>1, <2>2 DEF Accept, optimiser
<1>6. ASSUME NEW c \in Conns, RelayBegins(c) \/ Download(c)
      PROVE  OnlyPrimary' /\ route' = Primary
  <2>1. /\ \A d \in Conns : conn'[d].pair = conn[d].pair
        /\ \A d \in Conns : conn'[d].at \in {"open", "relay"} =>
                              conn[d].at \in {"open", "relay"}
    BY <1>6 DEF RelayBegins, Download, TypeOK
  <2>2. QED
    BY <1>6, <2>1 DEF RelayBegins, Download, optimiser
<1>7. ASSUME NEW c \in Conns, ConnectionEnds(c) \/ ConnectionCut(c)
      PROVE  OnlyPrimary' /\ route' = Primary
  <2>1. PICK failed \in BOOLEAN : Finally(c, failed)
    BY <1>7 DEF ConnectionEnds, ConnectionCut, Failed
  <2>2. conn[c].at \in {"open", "relay"}
    BY <1>7 DEF ConnectionEnds, ConnectionCut
  <2>3. /\ conn' = [conn EXCEPT ![c].at = "closed"]
        /\ report' = [pair |-> Primary, failed |-> failed]
    BY <2>1, <2>2, EndRight
  <2>4. \A d \in Conns : /\ conn'[d].pair = conn[d].pair
                         /\ conn'[d].at \in {"open", "relay"} => conn'[d].at = conn[d].at
    BY <2>3 DEF TypeOK
  <2>5. QED
    BY <2>1, <2>3, <2>4 DEF Finally, optimiser
<1>8. CASE \E i \in Ips : FailureAges(i)
  BY <1>8 DEF FailureAges, conns, optimiser
<1>9. QED
  BY <1>1, <1>2, <1>3, <1>4, <1>5, <1>6, <1>7, <1>8 DEF Next

\* What the step leaves outside the statistics.
Rest ==
  /\ registered \subseteq Pairs /\ unexplored \subseteq Pairs
  /\ pool \subseteq Pairs /\ draining \subseteq Pairs
  /\ health \in {"boot", "bootprobes", "waiting", "verifying", "exploring",
                 "ended", "crashed"}
  /\ owed \in [Pairs -> Nat] /\ cycles \in Nat /\ stopping \in BOOLEAN
  /\ fails \in [Ips -> Nat]
  /\ conn \in [Conns -> [at : {"new", "open", "relay", "closed"},
                         pair : Pairs \cup {None}, down0 : Nat]]
  /\ down \in Nat /\ got \in [Conns -> BOOLEAN]
  /\ report \in [pair : Pairs \cup {None}, failed : BOOLEAN]
  /\ promoter \in {"waiting", "judge", "search", "ended"}
  /\ healthy \in BOOLEAN

LEMMA HealthTypes == ASSUME PoolInv, HealthLoop PROVE Rest'
<1> USE PoolAssumption DEF PoolInv, TypeOK, Rest
<1>1. ASSUME NEW batch \in SUBSET Pairs, Probing(batch) PROVE owed' \in [Pairs -> Nat]
  <2>1. PICK n \in [batch -> Bursts] :
          owed' = [p \in Pairs |-> IF p \in batch THEN n[p] ELSE 0]
    BY <1>1 DEF Probing
  <2>2. \A p \in Pairs : (IF p \in batch THEN n[p] ELSE 0) \in Nat
    OBVIOUS
  <2>3. QED
    BY <2>1, <2>2
<1>2. CASE InitialExplore
  <2>1. PICK batch \in SUBSET unexplored : unexplored' = unexplored \ batch /\ Probing(batch)
    BY <1>2 DEF InitialExplore
  <2>2. owed' \in [Pairs -> Nat]
    BY <1>1, <2>1
  <2>3. QED
    BY <1>2, <2>1, <2>2 DEF InitialExplore, stats, sets, conns, optimiser
<1>3. CASE Initialize
  BY <1>3, InitializeRight DEF Initialize, conns, optimiser
<1>4. CASE Verify
  <2>1. owed' \in [Pairs -> Nat]
    BY <1>1, <1>4 DEF Verify, Known
  <2>2. QED
    BY <1>4, <2>1 DEF Verify, stats, sets, conns, optimiser
<1>5. CASE Explore
  <2>1. owed' \in [Pairs -> Nat] /\ unexplored' \subseteq Pairs
    BY <1>1, <1>5 DEF Explore
  <2>2. QED
    BY <1>5, <2>1 DEF Explore, stats, sets, conns, optimiser
<1>6. CASE RefreshAfterCycle
  BY <1>6, CycleRight DEF RefreshAfterCycle, conns, optimiser
<1>7. CASE HealthEnds
  BY <1>7 DEF HealthEnds, stats, sets, conns, optimiser
<1>8. ASSUME NEW p \in Pairs, ProbeLands(p) PROVE Rest'
  BY <1>8 DEF ProbeLands, sets, conns, optimiser
<1>9. QED
  BY <1>2, <1>3, <1>4, <1>5, <1>6, <1>7, <1>8 DEF HealthLoop

LEMMA TypeStep == ASSUME PoolInv, Next PROVE TypeOK'
<1> USE PoolAssumption DEF PoolInv, TypeOK, Rest
<1>1. ASSUME Promoter PROVE Rest'
  BY <1>1, NoneBetter DEF Promoter, PromoterLooks, PromoterJudges, PromoterSearches,
                          PromoterEnds, ShouldFailover, stats, sets, loop, conns
<1>2. ASSUME ReportFailure PROVE Rest'
  <2>1. report.pair \in Pairs /\ IpOf[report.pair] \in Ips
    BY <1>2 DEF ReportFailure
  <2>2. fails' \in [Ips -> Nat]
    BY <1>2, <2>1 DEF ReportFailure
  <2>3. QED
    BY <1>2, <2>2, FailureRight DEF ReportFailure, NoReport, loop, optimiser
<1>3. ASSUME ReportSuccess PROVE Rest'
  BY <1>3 DEF ReportSuccess, NoReport, stats, sets, loop, optimiser
<1>4. ASSUME EnsurePair \/ StopPool PROVE Rest'
  BY <1>4 DEF EnsurePair, StopPool, stats, sets, loop, conns, optimiser
<1>5. ASSUME NEW c \in Conns, Accept(c) PROVE Rest'
  <2>1. conn' \in [Conns -> [at : {"new", "open", "relay", "closed"},
                             pair : Pairs \cup {None}, down0 : Nat]]
    BY <1>5, AcceptRight
  <2>2. QED
    BY <1>5, <2>1 DEF Accept, sets, loop, optimiser
<1>6. ASSUME NEW c \in Conns, RelayBegins(c) PROVE Rest'
  <2>1. PICK r \in [at : {"new", "open", "relay", "closed"},
                    pair : Pairs \cup {None}, down0 : Nat] :
          r = [conn[c] EXCEPT !.at = "relay", !.down0 = down]
    <3>1. /\ conn[c] \in [at : {"new", "open", "relay", "closed"},
                          pair : Pairs \cup {None}, down0 : Nat]
          /\ down \in Nat
      OBVIOUS
    <3> HIDE DEF PoolInv, TypeOK, Rest
    <3>2. QED
      BY <3>1
  <2>2. conn' = [conn EXCEPT ![c] = r]
    BY <1>6, <2>1 DEF RelayBegins
  <2>3. conn' \in [Conns -> [at : {"new", "open", "relay", "closed"},
                             pair : Pairs \cup {None}, down0 : Nat]]
    BY <2>2
  <2>4. QED
    BY <1>6, <2>3 DEF RelayBegins, stats, sets, loop, optimiser
<1>7. ASSUME NEW c \in Conns, Download(c) PROVE Rest'
  BY <1>7 DEF Download, stats, sets, loop, optimiser
<1>8. ASSUME NEW c \in Conns, ConnectionEnds(c) \/ ConnectionCut(c) PROVE Rest'
  <2>1. PICK failed \in BOOLEAN : Finally(c, failed)
    BY <1>8 DEF ConnectionEnds, ConnectionCut, Failed
  <2>2. conn[c].at \in {"open", "relay"}
    BY <1>8 DEF ConnectionEnds, ConnectionCut
  <2>3. /\ conn' = [conn EXCEPT ![c].at = "closed"]
        /\ report' = [pair |-> Primary, failed |-> failed]
    BY <2>1, <2>2, EndRight
  <2>4. conn' \in [Conns -> [at : {"new", "open", "relay", "closed"},
                             pair : Pairs \cup {None}, down0 : Nat]]
    BY <2>3
  <2>5. report' \in [pair : Pairs \cup {None}, failed : BOOLEAN]
    BY <2>3
  <2>6. QED
    BY <2>1, <2>4, <2>5 DEF Finally, sets, loop, optimiser
<1>9. ASSUME NEW i \in Ips, FailureAges(i) PROVE Rest'
  BY <1>9 DEF FailureAges, stats, sets, loop, conns, optimiser
<1>10. Rest'
  <2> HIDE DEF PoolInv, Rest
  <2>1. QED
    BY <1>1, <1>2, <1>3, <1>4, <1>5, <1>6, <1>7, <1>8, <1>9, HealthTypes
    DEF Next, EventLoop
<1>11. st' \in [Pairs -> Stats] /\ OnlyPrimary' /\ route' = Primary
  BY StatsStep, PrimaryStep
<1>12. QED
  BY <1>10, <1>11 DEF OnlyPrimary

LEMMA PoolStart == Init => PoolInv
<1> SUFFICES ASSUME Init PROVE PoolInv
  OBVIOUS
<1> USE PoolAssumption DEF Init
<1>1. Fresh \in Stats /\ Fresh.alive /\ Fresh.sent = 0 /\ Fresh.realSent = 0
  BY DEF Fresh, Stats
<1>2. TypeOK
  BY <1>1 DEF TypeOK, NoReport
<1>3. AliveIsJudged
  BY <1>1 DEF AliveIsJudged
<1>4. OnlyPrimary /\ RouteStays
  BY <1>1 DEF OnlyPrimary, RouteStays, NoReport
<1>5. QED
  BY <1>2, <1>3, <1>4 DEF PoolInv

LEMMA PoolStep == PoolInv /\ [Next]_vars => PoolInv'
<1>1. ASSUME PoolInv, Next PROVE PoolInv'
  BY <1>1, TypeStep, StatsStep, PrimaryStep DEF PoolInv, RouteStays, OnlyPrimary
<1>2. ASSUME PoolInv, UNCHANGED vars PROVE PoolInv'
  BY <1>2 DEF PoolInv, TypeOK, AliveIsJudged, OnlyPrimary, RouteStays, vars, stats, sets,
              loop, conns, optimiser
<1>3. QED
  BY <1>1, <1>2

\* The inductive invariant: types, verdicts, and the primary's monopoly.
THEOREM PoolInvariant == Spec => []PoolInv
<1>1. QED
  BY PoolStart, PoolStep, PTL DEF Spec

\* Every variable of the pool keeps its type.
THEOREM PoolTypes == Spec => []TypeOK
<1>1. PoolInv => TypeOK
  BY DEF PoolInv
<1>2. QED
  BY <1>1, PoolInvariant, PTL

\* A pair's verdict is the one its counters ask for, however many threads count.
THEOREM VerdictsRight == Spec => []AliveIsJudged
<1>1. PoolInv => AliveIsJudged
  BY DEF PoolInv
<1>2. QED
  BY <1>1, PoolInvariant, PTL

\* The promoter never swaps, whatever the pool measures and whoever fails.
THEOREM NeverSwaps == Spec => []RouteStays
<1>1. PoolInv => RouteStays
  BY DEF PoolInv
<1>2. QED
  BY <1>1, PoolInvariant, PTL

-----------------------------------------------------------------------------
(* Connections are counted once.                                           *)

Live(p) == {c \in Conns : conn[c].at \in {"open", "relay"} /\ conn[c].pair = p}

LEMMA LiveFinite ==
  ASSUME NEW p PROVE IsFiniteSet(Live(p)) /\ Cardinality(Live(p)) \in Nat
<1>1. IsFiniteSet(Live(p))
  BY PoolAssumption, FS_Subset DEF Live
<1>2. QED
  BY <1>1, FS_CardinalityType

\* An accepted connection is one more of the primary's ...
LEMMA AcceptBalance ==
  ASSUME PoolInv, ConnectionsBalanced, NEW c \in Conns, Accept(c)
  PROVE  ConnectionsBalanced'
<1>1. conn' = [conn EXCEPT ![c] = [at |-> "open", pair |-> Primary, down0 |-> 0]]
  BY AcceptRight
<1>2. conn[c].at = "new"
  BY DEF Accept
<1>3. \A d \in Conns : conn'[d] = IF d = c THEN [at |-> "open", pair |-> Primary, down0 |-> 0]
                                  ELSE conn[d]
  BY <1>1 DEF PoolInv, TypeOK
<1>4. c \notin Live(Primary) /\ Live(Primary)' = Live(Primary) \cup {c}
  BY <1>2, <1>3 DEF Live
<1>5. Cardinality(Live(Primary)') = Cardinality(Live(Primary)) + 1
  BY <1>4, LiveFinite, FS_AddElement
<1>6. ASSUME NEW p \in Pairs, p # Primary PROVE Live(p)' = Live(p)
  BY <1>2, <1>3, <1>6 DEF Live
<1>7. \A p \in Pairs : st'[p].active = Cardinality(Live(p)')
  BY <1>5, <1>6, AcceptRight DEF ConnectionsBalanced, Live
<1>8. QED
  BY <1>7 DEF ConnectionsBalanced, Live

\* ... and one that ends, one less: its own count keeps the number above zero.
LEMMA EndBalance ==
  ASSUME PoolInv, ConnectionsBalanced, NEW c \in Conns, NEW failed \in BOOLEAN,
         conn[c].at \in {"open", "relay"}, Finally(c, failed)
  PROVE  ConnectionsBalanced'
<1>1. conn' = [conn EXCEPT ![c].at = "closed"]
  BY EndRight
<1>2. conn[c].pair = Primary /\ Primary \in Pairs
  BY PoolAssumption DEF PoolInv, OnlyPrimary
<1>3. \A d \in Conns : /\ conn'[d].pair = conn[d].pair
                       /\ conn'[d].at = IF d = c THEN "closed" ELSE conn[d].at
  BY <1>1 DEF PoolInv, TypeOK
<1>4. c \in Live(Primary) /\ Live(Primary)' = Live(Primary) \ {c}
  BY <1>2, <1>3 DEF Live
<1>5. Cardinality(Live(Primary)') = Cardinality(Live(Primary)) - 1
  BY <1>4, LiveFinite, FS_RemoveElement
<1>6. Cardinality(Live(Primary)) > 0
  BY <1>4, LiveFinite, FS_EmptySet
<1>7. ASSUME NEW p \in Pairs, p # Primary PROVE Live(p)' = Live(p)
  BY <1>2, <1>3, <1>7 DEF Live
<1>8. st[Primary].active = Cardinality(Live(Primary))
  BY <1>2 DEF ConnectionsBalanced, Live
<1>9. st'[Primary].active = Cardinality(Live(Primary)')
  BY <1>5, <1>6, <1>8, LiveFinite, EndRight
<1>10. ASSUME NEW p \in Pairs, p # Primary PROVE st'[p].active = Cardinality(Live(p)')
  BY <1>7, <1>10, EndRight DEF ConnectionsBalanced, Live
<1>11. QED
  BY <1>9, <1>10 DEF ConnectionsBalanced, Live

\* The other steps neither open nor end a connection.
LEMMA QuietBalance ==
  ASSUME PoolInv, ConnectionsBalanced,
         \/ HealthLoop \/ Promoter \/ EventLoop \/ EnsurePair \/ StopPool
         \/ \E c \in Conns : RelayBegins(c) \/ Download(c)
         \/ \E i \in Ips : FailureAges(i)
  PROVE  ConnectionsBalanced'
<1>1. \A p \in Pairs : st'[p].active = st[p].active
  BY QuietRight DEF Right, SameTraffic
<1>2. ASSUME UNCHANGED conn PROVE \A p \in Pairs : Live(p)' = Live(p)
  BY <1>2 DEF Live
<1>3. ASSUME NEW c \in Conns, RelayBegins(c) PROVE \A p \in Pairs : Live(p)' = Live(p)
  <2>1. \A d \in Conns : /\ conn'[d].pair = conn[d].pair
                         /\ conn'[d].at \in {"open", "relay"} <=>
                              conn[d].at \in {"open", "relay"}
    BY <1>3 DEF RelayBegins, PoolInv, TypeOK
  <2>2. QED
    BY <2>1 DEF Live
<1>4. \A p \in Pairs : Live(p)' = Live(p)
  <2>1. CASE HealthLoop
    BY <1>2, <2>1 DEF HealthLoop, InitialExplore, Initialize, Verify, Explore,
                      RefreshAfterCycle, HealthEnds, ProbeLands, conns
  <2>2. CASE Promoter
    BY <1>2, <2>2 DEF Promoter, PromoterLooks, PromoterJudges, PromoterSearches,
                      PromoterEnds, conns
  <2>3. CASE EventLoop
    BY <1>2, <2>3 DEF EventLoop, ReportFailure, ReportSuccess
  <2>4. CASE EnsurePair \/ StopPool
    BY <1>2, <2>4 DEF EnsurePair, StopPool, conns
  <2>5. CASE \E c \in Conns : Download(c)
    BY <1>2, <2>5 DEF Download
  <2>6. CASE \E i \in Ips : FailureAges(i)
    BY <1>2, <2>6 DEF FailureAges, conns
  <2>7. QED
    BY <1>3, <2>1, <2>2, <2>3, <2>4, <2>5, <2>6
<1>5. \A p \in Pairs : st'[p].active = Cardinality(Live(p)')
  BY <1>1, <1>4 DEF ConnectionsBalanced, Live
<1>6. QED
  BY <1>5 DEF ConnectionsBalanced, Live

\* A pair's count of live connections is the number of connections that took it
\* and have not ended: no early return, cancellation or swap loses one.
THEOREM ConnectionsCounted == Spec => []ConnectionsBalanced
<1>1. ASSUME Init PROVE ConnectionsBalanced
  <2>1. \A p \in Pairs : st[p].active = 0 /\ Live(p) = {}
    BY <1>1 DEF Init, Fresh, Live
  <2>2. QED
    BY <2>1, FS_EmptySet DEF ConnectionsBalanced, Live
<1>2. ASSUME PoolInv, ConnectionsBalanced, Next PROVE ConnectionsBalanced'
  <2>1. ASSUME NEW c \in Conns, ConnectionEnds(c) \/ ConnectionCut(c)
        PROVE  ConnectionsBalanced'
    <3>1. PICK failed \in BOOLEAN : Finally(c, failed)
      BY <2>1 DEF ConnectionEnds, ConnectionCut, Failed
    <3>2. conn[c].at \in {"open", "relay"}
      BY <2>1 DEF ConnectionEnds, ConnectionCut
    <3>3. QED
      BY <1>2, <3>1, <3>2, EndBalance
  <2>2. QED
    BY <1>2, <2>1, AcceptBalance, QuietBalance DEF Next
<1>3. ASSUME ConnectionsBalanced, UNCHANGED vars PROVE ConnectionsBalanced'
  BY <1>3 DEF ConnectionsBalanced, vars, stats, conns
<1>4. PoolInv /\ ConnectionsBalanced /\ [Next]_vars => ConnectionsBalanced'
  BY <1>2, <1>3
<1>5. QED
  BY <1>1, <1>4, PoolInvariant, PTL DEF Spec

-----------------------------------------------------------------------------
(* The active set.  Both ways of filling it, and what may happen to a pair  *)
(* that is in it.                                                           *)

\* No probe is owed outside the stretches in which the health loop waits for
\* its threads, and after a cycle no dead pair is left in the set.
Settled ==
  /\ health \notin {"bootprobes", "verifying", "exploring"} =>
       \A p \in Pairs : owed[p] = 0
  /\ health \in {"boot", "bootprobes"} => cycles = 0
  /\ cycles >= 1 /\ health \in {"waiting", "ended"} => \A p \in pool : st[p].alive

ServeInv == PoolInv /\ ActiveSetBounded /\ Settled

LEMMA MinOfTwo ==
  ASSUME NEW m \in Nat, NEW n \in Nat
  PROVE  Min({m, n}) \in Nat /\ Min({m, n}) <= m
<1>1. \E k \in {m, n} : \A y \in {m, n} : k <= y
  <2>1. CASE m <= n
    BY <2>1
  <2>2. CASE n <= m
    BY <2>2
  <2>3. QED
    BY <2>1, <2>2
<1>2. Min({m, n}) \in {m, n} /\ \A y \in {m, n} : Min({m, n}) <= y
  BY <1>1 DEF Min
<1>3. QED
  BY <1>2

LEMMA PoolFinite ==
  ASSUME NEW S \in SUBSET Pairs PROVE IsFiniteSet(S) /\ Cardinality(S) \in Nat
BY PoolAssumption, FS_Subset, FS_CardinalityType

\* No record takes a pair's first probe back, and a connection's own records
\* leave its verdict.
LEMMA FieldsKept ==
  ASSUME NEW s \in Stats, NEW b \in BOOLEAN
  PROVE  /\ Acquire(s).probed = s.probed /\ Acquire(s).alive = s.alive
         /\ RecordReal(Release(s), b).probed = s.probed
         /\ RecordReal(Release(s), b).alive = s.alive
         /\ RecordProbe(s, b).probed /\ RecordSpoofProbe(s, b).probed
<1>1. ASSUME NEW t, DOMAIN t = DOMAIN s, t.probed PROVE Judge(t).probed
  BY <1>1 DEF Judge
<1>2. Acquire(s).probed = s.probed /\ Acquire(s).alive = s.alive
  BY DEF Acquire, Stats
<1>3. Release(s) \in Stats /\ Release(s).probed = s.probed /\ Release(s).alive = s.alive
  BY DEF Release, Stats
<1>4. /\ RecordReal(Release(s), b).probed = Release(s).probed
      /\ RecordReal(Release(s), b).alive = Release(s).alive
  BY <1>3 DEF RecordReal, Stats
<1>5. RecordProbe(s, b).probed
  BY <1>1 DEF RecordProbe, Stats
<1>6. RecordSpoofProbe(s, b).probed
  BY <1>1 DEF RecordSpoofProbe, Stats
<1>7. QED
  BY <1>2, <1>3, <1>4, <1>5, <1>6

\* What refresh() leaves: no more pairs than slots, each known and alive, and a
\* pair that drained only if its connections have ended.
LEMMA RefreshServes ==
  ASSUME NEW s \in [Pairs -> Stats], TypeOK, Refresh(s),
         Cardinality(pool) <= Slots, \A p \in pool : s[p].probed /\ p \in registered
  PROVE  /\ Cardinality(pool') <= Slots
         /\ \A p \in pool' : p \in registered /\ st'[p].probed /\ st'[p].alive
         /\ \A p \in draining : p \in pool' /\ p \notin pool => s[p].active = 0
<1> DEFINE left == {p \in draining : s[p].active > 0}
           gone == {p \in pool : Weak(s[p])}
           keep == pool \ gone
           busy == keep \cup left \cup gone
           free == FirstNonEmpty(Stable(s) \ busy,
                                 {p \in Known(s) : s[p].alive} \ busy, {})
<1>1. PICK chosen \in SUBSET free :
        /\ Cardinality(chosen) =
             IF Slots > Cardinality(keep)
             THEN Min({Slots - Cardinality(keep), Cardinality(free)}) ELSE 0
        /\ pool' = keep \cup chosen
        /\ st' = [p \in Pairs |-> IF p \in chosen THEN [s[p] EXCEPT !.inPool = TRUE]
                  ELSE IF p \in draining \ left THEN [s[p] EXCEPT !.inPool = FALSE]
                  ELSE s[p]]
  BY DEF Refresh
<1>2. \A p \in free : p \in Pairs /\ p \in registered /\ s[p].probed /\ s[p].alive /\ p \notin busy
  BY DEF FirstNonEmpty, Stable, Known, Weak, TypeOK
<1>3. keep \in SUBSET Pairs /\ free \in SUBSET Pairs /\ chosen \in SUBSET Pairs
  BY <1>2 DEF TypeOK
<1> HIDE DEF free
<1>4. Cardinality(pool') <= Slots
  <2>1. PICK k \in Nat, f \in Nat, n \in Nat :
          k = Cardinality(keep) /\ f = Cardinality(free) /\ n = Cardinality(chosen)
    BY <1>3, PoolFinite
  <2>2. k <= Cardinality(pool) /\ Cardinality(pool) \in Nat /\ Slots \in Nat
    BY <2>1, PoolFinite, PoolAssumption, FS_Subset DEF TypeOK
  <2>3. k + n <= Slots
    <3>1. CASE Slots > k
      <4>1. n = Min({Slots - k, f}) /\ Slots - k \in Nat
        BY <1>1, <2>1, <2>2, <3>1
      <4>2. n <= Slots - k
        BY <4>1, MinOfTwo
      <4>3. QED
        BY <2>2, <4>2
    <3>2. CASE ~(Slots > k)
      BY <1>1, <2>1, <2>2, <3>2
    <3>3. QED
      BY <3>1, <3>2
  <2>4. Cardinality(pool') <= k + n /\ Cardinality(pool') \in Nat
    <3>1. IsFiniteSet(keep) /\ IsFiniteSet(chosen)
      BY <1>3, PoolFinite
    <3>2. /\ Cardinality(keep \cup chosen) =
               Cardinality(keep) + Cardinality(chosen) - Cardinality(keep \cap chosen)
          /\ Cardinality(keep \cap chosen) \in Nat
      BY <1>3, <3>1, FS_Union, PoolFinite
    <3>3. Cardinality(keep \cup chosen) \in Nat
      BY <1>3, PoolFinite
    <3>4. QED
      BY <1>1, <2>1, <3>2, <3>3
  <2>5. QED
    BY <2>2, <2>3, <2>4
<1>5. ASSUME NEW p \in pool' PROVE p \in registered /\ s[p].probed /\ s[p].alive /\ p \in Pairs
  <2>1. CASE p \in chosen
    BY <1>2, <2>1
  <2>2. CASE p \in keep
    BY <2>2 DEF Weak, TypeOK
  <2>3. QED
    BY <1>1, <1>5, <2>1, <2>2
<1>6. ASSUME NEW p \in Pairs PROVE st'[p].probed = s[p].probed /\ st'[p].alive = s[p].alive
  <2>1. st'[p] \in {[s[p] EXCEPT !.inPool = TRUE], [s[p] EXCEPT !.inPool = FALSE], s[p]}
    BY <1>1
  <2>2. s[p] \in Stats
    OBVIOUS
  <2>3. QED
    BY <2>1, <2>2 DEF Stats
<1>7. ASSUME NEW p \in draining, p \in pool', p \notin pool PROVE s[p].active = 0
  <2>1. p \in chosen /\ p \in Pairs
    BY <1>1, <1>7 DEF TypeOK
  <2>2. ~(s[p].active > 0)
    BY <1>2, <2>1
  <2>3. QED
    BY <2>1, <2>2 DEF Stats
<1>8. QED
  BY <1>4, <1>5, <1>6, <1>7

\* initialize() fills an empty set.
LEMMA InitializeServes ==
  ASSUME PoolInv, Initialize
  PROVE  /\ Cardinality(pool') <= Slots
         /\ \A p \in pool' : p \in registered /\ st'[p].probed
<1> DEFINE from == FirstNonEmpty(Stable(st), {p \in Known(st) : st[p].alive}, Known(st))
<1>1. PICK chosen \in SUBSET from :
        /\ Cardinality(chosen) = Min({Slots, Cardinality(from)})
        /\ pool' = chosen
        /\ st' = [p \in Pairs |-> IF p \in chosen THEN [st[p] EXCEPT !.inPool = TRUE]
                                  ELSE st[p]]
  BY DEF Initialize
<1>2. \A p \in from : p \in Pairs /\ p \in registered /\ st[p].probed
  BY DEF FirstNonEmpty, Stable, Known, PoolInv, TypeOK
<1> HIDE DEF from
<1>3. from \in SUBSET Pairs /\ Cardinality(from) \in Nat /\ Slots \in Nat
  BY <1>2, PoolFinite, PoolAssumption
<1>4. Cardinality(pool') <= Slots
  BY <1>1, <1>3, MinOfTwo
<1>5. ASSUME NEW p \in pool' PROVE p \in registered /\ st'[p].probed
  <2>1. p \in Pairs /\ st'[p] = [st[p] EXCEPT !.inPool = TRUE] /\ st[p] \in Stats
    BY <1>1, <1>2, <1>5 DEF PoolInv, TypeOK
  <2>2. QED
    BY <1>1, <1>2, <1>5, <2>1 DEF Stats
<1>6. QED
  BY <1>4, <1>5

\* A connection's beginning and end leave verdicts and first probes.
LEMMA TrafficServes ==
  ASSUME ServeInv, NEW c \in Conns, Accept(c) \/ ConnectionEnds(c) \/ ConnectionCut(c)
  PROVE  ActiveSetBounded' /\ Settled'
<1>1. \A p \in Pairs : st'[p].probed = st[p].probed /\ st'[p].alive = st[p].alive
  <2>1. PICK q \in Pairs \cup {None}, b \in BOOLEAN :
          \/ st' = [st EXCEPT ![q] = Acquire(st[q])]
          \/ st' = [st EXCEPT ![q] = RecordReal(Release(st[q]), b)]
    <3>1. CASE Accept(c)
      BY <3>1 DEF Accept, ServeInv, PoolInv, TypeOK
    <3>2. CASE ConnectionEnds(c) \/ ConnectionCut(c)
      <4>1. PICK failed \in BOOLEAN : Finally(c, failed)
        BY <3>2 DEF ConnectionEnds, ConnectionCut, Failed
      <4>2. conn[c].pair \in Pairs \cup {None}
        BY DEF ServeInv, PoolInv, TypeOK
      <4>3. QED
        BY <4>1, <4>2 DEF Finally
    <3>3. QED
      BY <3>1, <3>2
  <2>2. \A p \in Pairs : st[p] \in Stats
    BY DEF ServeInv, PoolInv, TypeOK
  <2>3. ASSUME NEW p \in Pairs
        PROVE  st'[p] \in {st[p], Acquire(st[p]), RecordReal(Release(st[p]), b)}
    BY <2>1 DEF ServeInv, PoolInv, TypeOK
  <2>4. QED
    BY <2>2, <2>3, FieldsKept
<1>2. UNCHANGED <<registered, sets, loop>>
  BY DEF Accept, ConnectionEnds, ConnectionCut, Finally
<1>3. QED
  BY <1>1, <1>2 DEF ServeInv, PoolInv, TypeOK, ActiveSetBounded, Settled, sets, loop

\* A failed connection's probe miss: it may kill a pair, and then refreshes.
LEMMA FailureServes ==
  ASSUME ServeInv, ReportFailure
  PROVE  ActiveSetBounded' /\ Settled'
<1> DEFINE s == [st EXCEPT ![report.pair] = RecordProbe(st[report.pair], FALSE)]
<1>1. report.pair \in Pairs /\ st \in [Pairs -> Stats]
  BY DEF ReportFailure, ServeInv, PoolInv, TypeOK
<1>2. \A q \in Pairs : st[q] \in Stats /\ Judged(st[q])
  BY DEF ServeInv, PoolInv, TypeOK, AliveIsJudged, Judged
<1>3. s = [q \in Pairs |-> IF q = report.pair THEN RecordProbe(st[report.pair], FALSE)
                           ELSE st[q]]
  BY <1>1
<1>4. /\ UNCHANGED <<registered, loop>>
      /\ Refresh(s) \/ (~Weak(s[report.pair]) /\ st' = s /\ UNCHANGED sets)
  BY DEF ReportFailure
<1> HIDE DEF s
<1>5. s \in [Pairs -> Stats] /\ \A q \in Pairs : st[q].probed => s[q].probed
  BY <1>1, <1>2, <1>3, ProbeRight, FieldsKept
<1>6. CASE Refresh(s)
  <2>1. /\ Cardinality(pool') <= Slots
        /\ \A p \in pool' : p \in registered /\ st'[p].probed /\ st'[p].alive
    BY <1>5, <1>6, RefreshServes DEF ServeInv, PoolInv, TypeOK, ActiveSetBounded
  <2>2. QED
    BY <1>4, <2>1 DEF ServeInv, ActiveSetBounded, Settled, loop
<1>7. CASE ~Weak(s[report.pair]) /\ st' = s /\ UNCHANGED sets
  <2>1. \A q \in Pairs : st[q].alive => st'[q].alive
    BY <1>3, <1>7 DEF Weak
  <2>2. QED
    BY <1>4, <1>5, <1>7, <2>1
    DEF ServeInv, PoolInv, TypeOK, ActiveSetBounded, Settled, loop, sets
<1>8. QED
  BY <1>4, <1>6, <1>7

LEMMA LoopServes ==
  ASSUME ServeInv, HealthLoop
  PROVE  ActiveSetBounded' /\ Settled'
<1> USE DEF ServeInv, PoolInv, TypeOK
<1>1. CASE InitialExplore
  BY <1>1 DEF InitialExplore, stats, sets, ActiveSetBounded, Settled
<1>2. CASE Verify
  BY <1>2 DEF Verify, stats, sets, ActiveSetBounded, Settled
<1>3. CASE Explore
  BY <1>3 DEF Explore, stats, sets, ActiveSetBounded, Settled
<1>4. CASE HealthEnds
  BY <1>4 DEF HealthEnds, stats, sets, ActiveSetBounded, Settled
<1>5. CASE Initialize
  <2>1. cycles' = cycles /\ owed' = owed /\ registered' = registered /\ health' = "waiting"
        /\ \A p \in Pairs : owed[p] = 0
    BY <1>5 DEF Initialize
  <2>2. cycles = 0
    BY <1>5 DEF Initialize, Settled
  <2>3. QED
    BY <1>5, <2>1, <2>2, InitializeServes DEF ActiveSetBounded, Settled
<1>6. CASE RefreshAfterCycle
  <2>1. /\ Cardinality(pool') <= Slots
        /\ \A p \in pool' : p \in registered /\ st'[p].probed /\ st'[p].alive
    BY <1>6, RefreshServes DEF RefreshAfterCycle, ActiveSetBounded
  <2>2. QED
    BY <1>6, <2>1 DEF RefreshAfterCycle, ActiveSetBounded, Settled
<1>7. ASSUME NEW p \in Pairs, ProbeLands(p) PROVE ActiveSetBounded' /\ Settled'
  <2>1. PICK ok \in BOOLEAN : st' = [st EXCEPT ![p] = RecordSpoofProbe(st[p], ok)]
    BY <1>7 DEF ProbeLands
  <2>2. \A q \in Pairs : st[q].probed => st'[q].probed
    BY <2>1, FieldsKept
  <2>3. health \in {"bootprobes", "verifying", "exploring"}
    BY <1>7 DEF ProbeLands, Settled
  <2>4. QED
    BY <1>7, <2>2, <2>3 DEF ProbeLands, ActiveSetBounded, Settled, sets
<1>8. QED
  BY <1>1, <1>2, <1>3, <1>4, <1>5, <1>6, <1>7 DEF HealthLoop

LEMMA ServeStep == ServeInv /\ [Next]_vars => ServeInv'
<1> USE DEF ServeInv
<1>1. ASSUME ServeInv, Promoter \/ ReportSuccess \/ StopPool PROVE ActiveSetBounded' /\ Settled'
  BY <1>1 DEF Promoter, PromoterLooks, PromoterJudges, PromoterSearches, PromoterEnds,
              ReportSuccess, StopPool, stats, sets, loop, ActiveSetBounded, Settled
<1>2. ASSUME ServeInv, EnsurePair PROVE ActiveSetBounded' /\ Settled'
  BY <1>2 DEF EnsurePair, sets, ActiveSetBounded, Settled
<1>3. ASSUME ServeInv, NEW c \in Conns, RelayBegins(c) \/ Download(c)
      PROVE  ActiveSetBounded' /\ Settled'
  BY <1>3 DEF RelayBegins, Download, stats, sets, loop, ActiveSetBounded, Settled
<1>4. ASSUME ServeInv, NEW i \in Ips, FailureAges(i) PROVE ActiveSetBounded' /\ Settled'
  BY <1>4 DEF FailureAges, stats, sets, loop, ActiveSetBounded, Settled
<1>5. ASSUME ServeInv, UNCHANGED vars PROVE ActiveSetBounded' /\ Settled'
  BY <1>5 DEF vars, stats, sets, loop, ActiveSetBounded, Settled
<1>6. ASSUME ServeInv, Next PROVE ActiveSetBounded' /\ Settled'
  <2> HIDE DEF ServeInv
  <2>1. QED
    BY <1>1, <1>2, <1>3, <1>4, <1>6, LoopServes, FailureServes, TrafficServes
    DEF Next, EventLoop
<1>7. QED
  BY <1>5, <1>6, PoolStep

LEMMA ServeInvariant == Spec => []ServeInv
<1>1. ASSUME Init PROVE ActiveSetBounded /\ Settled
  <2>1. Cardinality(pool) = 0 /\ pool = {}
    BY <1>1, FS_EmptySet DEF Init
  <2>2. QED
    BY <1>1, <2>1, PoolAssumption DEF Init, ActiveSetBounded, Settled
<1>2. Init => ServeInv
  BY <1>1, PoolStart DEF ServeInv
<1>3. QED
  BY <1>2, ServeStep, PTL DEF Spec

\* The active set keeps to its slots, however the health loop's and the event
\* loop's refreshes fall, and what kills a pair between the cycles refreshes.
THEOREM ActiveSetKept == Spec => []ActiveSetSound
<1>1. ServeInv => ActiveSetSound
  BY DEF ServeInv, Settled, NoDeadPairServes, ActiveSetSound
<1>2. QED
  BY <1>1, ServeInvariant, PTL

\* The step behind DrainedBeforeReuse: only refresh() gives slots.
LEMMA DrainStep ==
  ASSUME ServeInv, Next, health # "bootprobes",
         NEW p \in draining, p \in pool', p \notin pool
  PROVE  st[p].active = 0
<1> USE DEF ServeInv
<1>1. CASE pool' = pool
  BY <1>1
<1>2. CASE RefreshAfterCycle
  BY <1>2, RefreshServes DEF RefreshAfterCycle, PoolInv, TypeOK, ActiveSetBounded
<1>3. CASE ReportFailure
  <2> DEFINE s == [st EXCEPT ![report.pair] = RecordProbe(st[report.pair], FALSE)]
  <2>1. /\ report.pair \in Pairs /\ st \in [Pairs -> Stats]
        /\ \A q \in Pairs : st[q] \in Stats /\ Judged(st[q])
    BY <1>3 DEF ReportFailure, PoolInv, TypeOK, AliveIsJudged, Judged
  <2>2. s = [q \in Pairs |-> IF q = report.pair THEN RecordProbe(st[report.pair], FALSE)
                             ELSE st[q]]
    BY <2>1
  <2>3. Refresh(s) \/ UNCHANGED sets
    BY <1>3 DEF ReportFailure
  <2> HIDE DEF s
  <2>4. /\ s \in [Pairs -> Stats]
        /\ \A q \in Pairs : /\ st[q].probed => s[q].probed
                            /\ s[q].active = st[q].active
    BY <2>1, <2>2, ProbeRight, FieldsKept DEF SameTraffic
  <2>5. CASE Refresh(s)
    <3>1. s[p].active = 0
      BY <2>4, <2>5, RefreshServes DEF PoolInv, TypeOK, ActiveSetBounded
    <3>2. QED
      BY <2>4, <3>1 DEF PoolInv, TypeOK
  <2>6. QED
    BY <1>1, <2>3, <2>5 DEF sets
<1>4. pool' = pool \/ RefreshAfterCycle \/ ReportFailure
  <2>1. CASE HealthLoop
    BY <2>1 DEF HealthLoop, InitialExplore, Initialize, Verify, Explore, HealthEnds,
                ProbeLands, sets
  <2>2. CASE Promoter
    BY <2>2 DEF Promoter, PromoterLooks, PromoterJudges, PromoterSearches, PromoterEnds, sets
  <2>3. CASE EventLoop \/ EnsurePair \/ StopPool
    BY <2>3 DEF EventLoop, ReportSuccess, EnsurePair, StopPool, sets
  <2>4. ASSUME NEW c \in Conns,
               Accept(c) \/ RelayBegins(c) \/ Download(c) \/ ConnectionEnds(c) \/ ConnectionCut(c)
        PROVE  pool' = pool
    BY <2>4 DEF Accept, RelayBegins, Download, ConnectionEnds, ConnectionCut, Finally, sets
  <2>5. CASE \E i \in Ips : FailureAges(i)
    BY <2>5 DEF FailureAges, sets
  <2>6. QED
    BY <2>1, <2>2, <2>3, <2>4, <2>5 DEF Next
<1>5. QED
  BY <1>1, <1>2, <1>3, <1>4

\* Once the set is initialised, a pair that drains serves again only when its
\* last connection has ended.
THEOREM DrainsFirst == Spec => DrainedBeforeReuse
<1>1. ServeInv /\ [Next]_vars =>
        [health # "bootprobes" =>
           \A p \in draining : p \in pool' /\ p \notin pool => st[p].active = 0]_vars
  BY DrainStep
<1>2. QED
  BY <1>1, ServeInvariant, PTL DEF Spec, DrainedBeforeReuse

-----------------------------------------------------------------------------
(* What is downloaded came through some relay.                             *)

Downloaded == down > 0 => \E d \in Conns : got[d]

LEMMA DownloadedStep == PoolInv /\ Downloaded /\ [Next]_vars => Downloaded'
<1> USE DEF Downloaded
<1>1. ASSUME PoolInv, NEW c \in Conns, Download(c) PROVE Downloaded'
  BY <1>1 DEF Download, PoolInv, TypeOK
<1>2. ASSUME Downloaded, HealthLoop \/ Promoter \/ EventLoop \/ EnsurePair \/ StopPool
      PROVE  Downloaded'
  BY <1>2 DEF HealthLoop, InitialExplore, Initialize, Verify, Explore, RefreshAfterCycle,
              HealthEnds, ProbeLands, Promoter, PromoterLooks, PromoterJudges,
              PromoterSearches, PromoterEnds, EventLoop, ReportFailure, ReportSuccess,
              EnsurePair, StopPool, conns
<1>3. ASSUME Downloaded, NEW c \in Conns,
             Accept(c) \/ RelayBegins(c) \/ ConnectionEnds(c) \/ ConnectionCut(c)
      PROVE  Downloaded'
  BY <1>3 DEF Accept, RelayBegins, ConnectionEnds, ConnectionCut, Finally
<1>4. ASSUME Downloaded, NEW i \in Ips, FailureAges(i) PROVE Downloaded'
  BY <1>4 DEF FailureAges, conns
<1>5. ASSUME Downloaded, UNCHANGED vars PROVE Downloaded'
  BY <1>5 DEF vars, conns
<1>6. QED
  BY <1>1, <1>2, <1>3, <1>4, <1>5 DEF Next

\* Only a connection's end closes it.
LEMMA EndsClose ==
  ASSUME PoolInv, Next, NEW c \in Conns, conn[c].at # "closed", conn'[c].at = "closed"
  PROVE  ConnectionEnds(c) \/ ConnectionCut(c)
<1>1. CASE UNCHANGED conn
  BY <1>1
<1>2. ASSUME NEW d \in Conns, Accept(d) PROVE FALSE
  <2>1. conn'[c].at = IF c = d THEN "open" ELSE conn[c].at
    BY <1>2, AcceptRight DEF PoolInv, TypeOK
  <2>2. QED
    BY <2>1
<1>3. ASSUME NEW d \in Conns, RelayBegins(d) PROVE FALSE
  <2>1. conn'[c].at = IF c = d THEN "relay" ELSE conn[c].at
    BY <1>3 DEF RelayBegins, PoolInv, TypeOK
  <2>2. QED
    BY <2>1
<1>4. ASSUME NEW d \in Conns, ConnectionEnds(d) \/ ConnectionCut(d) PROVE d = c
  <2>1. conn'[c].at = IF c = d THEN "closed" ELSE conn[c].at
    BY <1>4 DEF ConnectionEnds, ConnectionCut, Finally, PoolInv, TypeOK
  <2>2. QED
    BY <2>1
<1>5. CASE HealthLoop \/ Promoter \/ EventLoop \/ EnsurePair \/ StopPool
  BY <1>1, <1>5
  DEF HealthLoop, InitialExplore, Initialize, Verify, Explore, RefreshAfterCycle,
      HealthEnds, ProbeLands, Promoter, PromoterLooks, PromoterJudges,
      PromoterSearches, PromoterEnds, EventLoop, ReportFailure, ReportSuccess,
      EnsurePair, StopPool, conns
<1>6. CASE \E d \in Conns : Download(d)
  BY <1>1, <1>6 DEF Download
<1>7. CASE \E i \in Ips : FailureAges(i)
  BY <1>1, <1>7 DEF FailureAges, conns
<1>8. QED
  BY <1>2, <1>3, <1>4, <1>5, <1>6, <1>7 DEF Next

\* The route is told of a success only by a connection that reached the relay,
\* and only when something has been downloaded by some relay.
THEOREM SuccessEarned == Spec => SuccessNeedsDownload
<1>1. ASSUME PoolInv, Downloaded, Next, NEW c \in Conns,
             conn[c].at # "closed", conn'[c].at = "closed", ~report'.failed
      PROVE  conn[c].at = "relay" /\ \E d \in Conns : got[d]
  <2>1. CASE ConnectionCut(c)
    BY <1>1, <2>1 DEF ConnectionCut, Finally
  <2>2. CASE ConnectionEnds(c)
    <3>1. conn[c].at = "relay" /\ ~(down - conn[c].down0 <= 0)
      BY <1>1, <2>2 DEF ConnectionEnds, Finally, Failed
    <3>2. down \in Nat /\ conn[c].down0 \in Nat
      BY <1>1 DEF PoolInv, TypeOK
    <3>3. down > 0
      BY <3>1, <3>2
    <3>4. QED
      BY <1>1, <3>1, <3>3 DEF Downloaded
  <2>3. QED
    BY <1>1, <2>1, <2>2, EndsClose
<1>2. PoolInv /\ Downloaded /\ [Next]_vars =>
        [\A c \in Conns :
           conn[c].at # "closed" /\ conn'[c].at = "closed" /\ ~report'.failed
             => conn[c].at = "relay" /\ \E d \in Conns : got[d]]_vars
  BY <1>1
<1>3. Init => Downloaded
  BY DEF Init, Downloaded
<1>4. QED
  BY <1>2, <1>3, DownloadedStep, PoolInvariant, PTL DEF Spec, SuccessNeedsDownload
=============================================================================
