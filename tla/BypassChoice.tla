---------------------------- MODULE BypassChoice ----------------------------
(***************************************************************************)
(* The bypass method of a session: EngineController._choose_bypass_method  *)
(* and _build_resilience (core/engine.py), the prober that measures the    *)
(* candidates (core/prober.py), the signed list that may replace them      *)
(* (core/strategies_remote.py) and the controller that gives a method up   *)
(* (core/resilience.py).                                                   *)
(*                                                                         *)
(* The engine's one _prober is written by the starting thread and by every *)
(* thread that measures a spoof profile, and is never cleared.  The        *)
(* controller's handlers are driven as its tests drive them: the listener  *)
(* is handed the controller (main.py:147) and calls none of them.          *)
(*                                                                         *)
(* Of a latency only success counts, ties and orders by latency are any    *)
(* order; a rate is a small number; a signature is right or wrong.  The    *)
(* settings read (bypass_method, auto_prober, resilience) may be anything. *)
(***************************************************************************)
EXTENDS Integers, Sequences, FiniteSets, SequencesExt, Picking

CONSTANTS
  Strategies,   \* strategies.REGISTRY
  Recipes,      \* what a manifest may list: sets of <<strategy, fragmented>>
  Mirrors,      \* number of mirrors
  NumIps,       \* CONNECT_IP and its alternates
  RstBudget,    \* rst_budget (3)
  MinSamples,   \* ThroughputMonitor.min_samples (4)
  Rates         \* the rates a sample may have

ASSUME BypassAssumption ==
  /\ IsFiniteSet(Strategies) /\ Strategies # {}
  /\ {Mirrors, NumIps} \subseteq Nat
  /\ {RstBudget, MinSamples} \subseteq Nat \ {0} /\ Rates \subseteq Nat

VARIABLES
  prober,       \* EngineController._prober
  step,         \* where the two threads are in _choose_bypass_method
  method,       \* the method of the session: bypass_method of its listener
  resilience,   \* EngineController._resilience
  place,        \* its _strategy_idx and _ip_idx
  forged,       \* _forged_rst_count
  tail,         \* the last rates of the ThroughputMonitor
  baseline,     \* its baseline_bps
  tried,        \* history: (strategy, IP) in force so far in this session
  heard,        \* history: what was heard of the one in force
  gaveUp        \* history: the controller answered GIVE_UP

choice == <<prober, step, method>>
rotation == <<resilience, place, forged, tail, baseline>>
evidence == <<tried, heard, gaveUp>>
bypassVars == <<choice, rotation, evidence>>

Candidate == Strategies \X BOOLEAN
NoProber == [works |-> [k \in {} |-> FALSE], selected |-> <<>>]
Off == <<>>
Nothing == [forged |-> 0, samples |-> 0]

BypassTypeOK ==
  /\ DOMAIN prober.works \subseteq Candidate
  /\ prober.works \in [DOMAIN prober.works -> BOOLEAN]
  /\ prober.selected \in DOMAIN prober.works \cup {<<>>}
  /\ step \in [{"start", "measure"} -> {"idle", "made", "picked"}]
  /\ method \in Strategies /\ resilience \in Seq(Strategies)
  /\ place \in [strategy : Nat, ip : Nat]
  /\ forged \in 0..RstBudget /\ tail \in Seq(Rates) /\ Len(tail) <= MinSamples
  /\ baseline \in Rates \cup {0} /\ gaveUp \in BOOLEAN
  /\ heard \in [forged : 0..RstBudget, samples : 0..MinSamples]

BypassInit ==
  /\ prober = NoProber
  /\ step = [c \in {"start", "measure"} |-> "idle"]
  /\ method \in Strategies
  /\ resilience = Off /\ place = [strategy |-> 1, ip |-> 1]
  /\ forged = 0 /\ tail = <<>> /\ baseline = 0
  /\ tried = {} /\ heard = Nothing /\ gaveUp = FALSE
-----------------------------------------------------------------------------
(* The candidates                                                          *)

\* What a mirror serves; one that cannot be reached or parsed is left out of the list.
Manifest == [signed : BOOLEAN, version : {-1, 1}, recipes : Recipes]

\* The updater is a new one for every choice: it holds no version yet.
Held == -1

\* update: the first mirror whose manifest is signed and newer.
Adopted(served) ==
  LET k == SelectInSeq(served, LAMBDA a : a.signed /\ a.version > Held)
  IN IF k = 0 THEN {} ELSE served[k].recipes

\* to_candidates, whatever the mirrors serve: recipes with a strategy nobody knows go.
Remote == {Adopted(served) \cap Candidate : served \in BoundedSeq(Manifest, Mirrors)}

\* build_candidates: with a fragmentation flag on, each strategy twice.
Local == {Strategies \X {FALSE}, Candidate}

CandidateSets == Local \cup (Remote \ {{}})

\* A choice begins: the configured method, or a new prober.
BeginChoice(c) ==
  /\ step[c] = "idle" /\ (c = "start" => resilience = Off)
  /\ \/ /\ \E cs \in CandidateSets :
             prober' = [works |-> [k \in cs |-> FALSE], selected |-> <<>>]
        /\ step' = [step EXCEPT ![c] = "made"] /\ UNCHANGED method
     \/ /\ UNCHANGED prober        \* auto_prober is off, or there is no host
        /\ IF c = "start" THEN method' \in Strategies /\ step' = [step EXCEPT ![c] = "picked"]
           ELSE UNCHANGED <<method, step>>
  /\ UNCHANGED <<rotation, evidence>>

\* select_best: a candidate that has answered, or none.
Best(works) ==
  LET good == {k \in DOMAIN works : works[k]} IN IF good = {} THEN {<<>>} ELSE good

\* tcp_probe of every candidate: any of them may answer in time.
Responders(candidates) == SUBSET candidates

\* The health windows after a pass: one answer makes a mean score above nothing.
Recorded(works, answered) == [k \in DOMAIN works |-> works[k] \/ k \in answered]

\* AutoProber.run, of the prober that self._prober is by now.  It is one step here.
RunProber(c) ==
  /\ step[c] = "made"
  /\ \E answered \in Responders(DOMAIN prober.works) :
       LET works == Recorded(prober.works, answered)
       IN \E k \in Best(works) :
            /\ prober' = [works |-> works, selected |-> k]
            /\ method' \in IF c = "measure" THEN {method}
                           ELSE IF k = <<>> THEN Strategies ELSE {k[1]}
  /\ step' = [step EXCEPT ![c] = IF c = "start" THEN "picked" ELSE "idle"]
  /\ UNCHANGED <<rotation, evidence>>
-----------------------------------------------------------------------------
(* The controller                                                          *)

\* fallback_order: all but the selected, those that have answered first.
FallbackOrders ==
  LET others == DOMAIN prober.works \ {prober.selected}
      good == {k \in others : prober.works[k]}
  IN {part[1] \o part[2] : part \in SetToSeqs(good) \X SetToSeqs(others \ good)}

\* Mutant of Chained: a strategy comes once per candidate.
ChainedAll(chain, order) == chain \o [k \in DOMAIN order |-> order[k][1]]

\* A strategy once only, however many candidates it has.
Chained(chain, order) ==
  LET all == chain \o [k \in DOMAIN order |-> order[k][1]]
  IN Pick(all, {k \in DOMAIN all : \A j \in 1..(k - 1) : all[j] # all[k]})

Chains ==
  LET probed == {Chained(<<method>>, order) : order \in FallbackOrders}
  IN {ch \in probed : Len(ch) > 1} \cup
     (IF \E ch \in probed : Len(ch) = 1
      THEN {<<method>> \o rest : rest \in SetToSeqs(Strategies \ {method})} ELSE {})

BuildResilience ==
  /\ step["start"] = "picked"
  /\ step' = [step EXCEPT !["start"] = "idle"]
  /\ resilience' \in Chains \cup {Off}
  /\ place' = [strategy |-> 1, ip |-> 1] /\ forged' = 0 /\ tail' = <<>> /\ baseline' = 0
  /\ tried' = IF resilience' = Off THEN {} ELSE {<<resilience'[1], 1>>}
  /\ heard' = Nothing /\ gaveUp' = FALSE
  /\ UNCHANGED <<prober, method>>

StopSession ==
  /\ resilience # Off
  /\ resilience' = Off /\ place' = [strategy |-> 1, ip |-> 1]
  /\ forged' = 0 /\ tail' = <<>> /\ baseline' = 0
  /\ tried' = {} /\ heard' = Nothing /\ gaveUp' = FALSE
  /\ UNCHANGED choice

\* Mutant of GoTo: the samples of the place it leaves are kept.
GoToKeepingSamples(p) ==
  /\ place' = p /\ forged' = 0
  /\ UNCHANGED tail
  /\ tried' = tried \cup {<<resilience[p.strategy], p.ip>>} /\ heard' = Nothing
  /\ UNCHANGED gaveUp

GoTo(p) ==
  /\ place' = p /\ forged' = 0 /\ tail' = <<>>
  /\ tried' = tried \cup {<<resilience[p.strategy], p.ip>>} /\ heard' = Nothing
  /\ UNCHANGED gaveUp

\* The next strategy, else the next IP with the first one, else nothing is left.
Rotate(count, rates, news) ==
  IF place.strategy < Len(resilience)
  THEN GoTo([place EXCEPT !.strategy = @ + 1])
  ELSE IF place.ip < NumIps
  THEN GoTo([strategy |-> 1, ip |-> place.ip + 1])
  ELSE /\ gaveUp' = TRUE /\ forged' = count /\ tail' = rates /\ heard' = news
       /\ UNCHANGED <<place, tried>>

\* RstClassifier: before any answer, and early or from another distance.
Rst == [answered : BOOLEAN, early : BOOLEAN, otherTtl : BOOLEAN]
Forged(rst) == ~rst.answered /\ (rst.early \/ rst.otherTtl)

OnRst(rst) ==
  /\ resilience # Off /\ Forged(rst)
  /\ LET news == [heard EXCEPT !.forged = Min({@ + 1, RstBudget})]
         count == Min({forged + 1, RstBudget})
     IN IF count >= RstBudget THEN Rotate(count, tail, news)
        ELSE forged' = count /\ heard' = news /\ UNCHANGED <<place, tail, tried, gaveUp>>
  /\ UNCHANGED <<choice, resilience, baseline>>

Sum(rates) == FoldLeft(LAMBDA a, b : a + b, 0, rates)

\* Fewer than four tenths of the best rate, over the last samples.
Throttled(rates, best) ==
  Len(rates) = MinSamples /\ 10 * Sum(rates) < 4 * MinSamples * best

OnThroughput(rate) ==
  /\ resilience # Off
  /\ baseline' = Max({baseline, rate})
  /\ LET all == Append(tail, rate)
         rates == IF Len(all) > MinSamples THEN Tail(all) ELSE all
         news == [heard EXCEPT !.samples = Min({@ + 1, MinSamples})]
     IN IF Throttled(rates, baseline') THEN Rotate(forged, rates, news)
        ELSE tail' = rates /\ heard' = news /\ UNCHANGED <<place, forged, tried, gaveUp>>
  /\ UNCHANGED <<choice, resilience>>

\* reset_flow
NewFlow ==
  /\ resilience # Off
  /\ forged' = 0 /\ heard' = [heard EXCEPT !.forged = 0]
  /\ UNCHANGED <<choice, resilience, place, tail, baseline, tried, gaveUp>>
-----------------------------------------------------------------------------
BypassNext ==
  \/ \E c \in {"start", "measure"} : BeginChoice(c) \/ RunProber(c)
  \/ BuildResilience \/ StopSession
  \/ \E rst \in Rst : OnRst(rst)
  \/ \E rate \in Rates : OnThroughput(rate)
  \/ NewFlow

BypassSpec == BypassInit /\ [][BypassNext]_bypassVars
-----------------------------------------------------------------------------
(* Properties                                                              *)

\* A strategy is given up only for forged resets of one flow, or samples, of its own
\* time, never for those of the strategy before; what follows is something not
\* tried yet in this session; and the controller gives up only when every strategy
\* of its chain was in force on every IP (an empty IP chain counts as the one IP in
\* use) - whichever thread's prober made the chain.
RotationEarned ==
  [][/\ resilience' = resilience /\ place' # place =>
          /\ heard.forged + 1 >= RstBudget \/ heard.samples + 1 >= MinSamples
          /\ <<resilience[place'.strategy], place'.ip>> \notin tried
     /\ gaveUp' => tried = ToSet(resilience) \X (1..Max({NumIps, 1}))]_bypassVars
=============================================================================
