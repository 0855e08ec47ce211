----------------------------- MODULE ScanProofs -----------------------------
(***************************************************************************)
(* What holds of the clean-IP scan and of the pool page's sweep for any    *)
(* sets of endpoints and pairs and any number of threads.                  *)
(*                                                                         *)
(* The argument for the clean-IP page: a worker posts "done" as its very   *)
(* last signal (MailInv), so the page that is free has nothing left to     *)
(* hear, and the scan it starts next begins with an empty table; and       *)
(* whatever a signal or a row says was so when it was posted, and stays so *)
(* until then (TruthInv).                                                  *)
(*                                                                         *)
(* The argument for the sweep: a pair is judged once (OneVerdict), and its *)
(* verdict is kept back, on its way as the last word on the pair, or in    *)
(* the table (AllTold); a sweep that is over keeps nothing back            *)
(* (SweepQuiet).                                                           *)
(***************************************************************************)
EXTENDS SniScan, CleanIpScan, FiniteSetTheorems, SequenceTheorems, TLAPS

\* A re-sort writes back all that the table and its copy hold, and a batch of verdicts
\* adds and removes no row.
LEMMA RowsStep == NoRowDestroyed /\ [SniNext]_sniVars => NoRowDestroyed'
<1>2. ASSUME NoRowDestroyed, NEW filter, Resort(table, filter), sought' = sought
      PROVE  NoRowDestroyed'
  <2>1. backing' = Over(table, backing)
    BY <1>2 DEF Resort
  <2>2. DOMAIN backing' = DOMAIN table \cup DOMAIN backing
    BY <2>1 DEF Over
  <2>3. QED
    BY <1>2, <2>2 DEF NoRowDestroyed
<1>3. ASSUME NoRowDestroyed, UNCHANGED <<sought, table, backing>> PROVE NoRowDestroyed'
  BY <1>3 DEF NoRowDestroyed
<1>4. ASSUME NoRowDestroyed, DeliverScan PROVE NoRowDestroyed'
  <2>1. CASE Head(posted).last
    BY <1>2, <1>4, <2>1 DEF DeliverScan, task
  <2>2. CASE ~Head(posted).last
    BY <1>4, <2>2 DEF DeliverScan, task, NoRowDestroyed
  <2>3. QED
    BY <2>1, <2>2
<1>5. ASSUME ScanStart PROVE NoRowDestroyed'
  BY <1>5 DEF ScanStart, NoRowDestroyed
<1>6. ASSUME NoRowDestroyed, NEW value \in BOOLEAN, Filter(value) PROVE NoRowDestroyed'
  BY <1>2, <1>6 DEF Filter, task
<1>7. ASSUME NoRowDestroyed, NEW k \in Candidates, Probe(k) \/ ProbeEnds(k)
      PROVE  NoRowDestroyed'
  BY <1>3, <1>7 DEF Probe, ProbeEnds, task, view
<1>8. ASSUME NoRowDestroyed,
             \/ SweepBegins \/ IdleFlush \/ SweepEnds \/ SweepFails
             \/ (\E v \in events : Collect(v)) \/ ScanStop \/ ReopenPanel \/ LeavePage \/ UNCHANGED sniVars
      PROVE  NoRowDestroyed'
  BY <1>3, <1>8 DEF SweepBegins, IdleFlush, SweepEnds, SweepFails, Collect, ScanStop,
                    ReopenPanel, LeavePage, sniVars, task, view
<1>9. QED
  BY <1>4, <1>5, <1>6, <1>7, <1>8 DEF SniNext

\* The rows of a sweep survive every filter.
THEOREM RowsSurvive == SniSpec => []NoRowDestroyed
<1>1. SniInit => NoRowDestroyed
  BY DEF SniInit, NoRowDestroyed
<1>2. QED
  BY <1>1, RowsStep, PTL DEF SniSpec
-----------------------------------------------------------------------------
(* The sweep                                                               *)

Signal == [batch : Verdicts, last : BOOLEAN]

\* A pair is with one probe thread at most, and has one verdict.
OneVerdict ==
  /\ jobs \cap probing = {} /\ events \cap verdicts = {}
  /\ \A e \in events \cup verdicts : e.pair \notin jobs \cup probing /\ e.pair \in sought
  /\ \A e, f \in events \cup verdicts : e.pair = f.pair => e = f

\* A sweep that does not run has nothing under way, and one that is over was stopped,
\* could not start its threads or has heard of every pair.
SweepQuiet ==
  /\ phase # "sweeping" => jobs = {} /\ probing = {} /\ events = {} /\ pending = {}
  /\ phase \in {"none", "created"} => verdicts = {}
  /\ phase = "over" => stopSet \/ broke \/ AllIn
  /\ jobs \cup probing \subseteq sought /\ pending \subseteq verdicts

\* A signal names a pair once, and the last one none.
OneSaid ==
  \A i \in 1..Len(posted) :
    /\ \A v, w \in posted[i].batch : v.pair = w.pair => v = w
    /\ posted[i].last => posted[i].batch = {}

\* The signals from the i-th on say nothing of pair k.
Unsaid(k, i) == \A j \in i..Len(posted) : \A w \in posted[j].batch : w.pair # k

\* A verdict is not posted yet, or the last word on its pair that is on its way, or
\* what the table shows.
TellsOf(v) ==
  \/ v \in pending
  \/ \E i \in 1..Len(posted) : v \in posted[i].batch /\ Unsaid(v.pair, i + 1)
  \/ Unsaid(v.pair, 1) /\ (~hid => Shown[v.pair] = StatusOf(v))

AllTold == \A v \in verdicts : TellsOf(v)

\* While signals may come, the copy holds no row that the table does not.
TableWhole ==
  ~hid /\ (phase # "over" \/ posted # <<>>) => DOMAIN backing \subseteq DOMAIN table

SweepInv ==
  /\ SniTypeOK /\ OneVerdict /\ SweepQuiet /\ OneSaid /\ AllTold /\ TableWhole
  /\ NoRowDestroyed

\* A batch, and the last signal after it perhaps.
LEMMA Letters ==
  ASSUME NEW vs \in Verdicts, NEW L, L = Batch(vs) \/ L = Batch(vs) \o Finished
  PROVE  /\ L \in Seq(Signal)
         /\ \A i \in 1..Len(L) : /\ L[i].batch = IF i = 1 THEN vs ELSE {}
                                 /\ L[i].last => L[i].batch = {}
         /\ vs # {} => Len(L) >= 1
<1> DEFINE b == [batch |-> vs, last |-> FALSE]
           e == [batch |-> {}, last |-> TRUE]
<1>1. b \in Signal /\ e \in Signal /\ e.batch = {} /\ b.batch = vs /\ ~b.last
  BY DEF Verdicts, Signal
<1>2. \/ vs = {} /\ L = <<>>
      \/ vs = {} /\ L = <<>> \o <<e>>
      \/ vs # {} /\ L = <<b>>
      \/ vs # {} /\ L = <<b>> \o <<e>>
  BY DEF Batch, Finished
<1> HIDE DEF b, e
<1>3. <<b>> \in Seq(Signal) /\ <<e>> \in Seq(Signal) /\ <<>> \in Seq(Signal)
  BY <1>1
<1>4. /\ <<>> \o <<e>> \in Seq(Signal) /\ Len(<<>> \o <<e>>) = 1
      /\ (<<>> \o <<e>>)[1] = e
  BY <1>3
<1>5. /\ <<b>> \o <<e>> \in Seq(Signal) /\ Len(<<b>> \o <<e>>) = 2
      /\ (<<b>> \o <<e>>)[1] = b /\ (<<b>> \o <<e>>)[2] = e
  BY <1>3
<1>6. CASE vs = {} /\ L = <<>>
  BY <1>6
<1>7. CASE vs = {} /\ L = <<>> \o <<e>>
  BY <1>1, <1>4, <1>7
<1>8. CASE vs # {} /\ L = <<b>>
  BY <1>1, <1>3, <1>8
<1>9. CASE vs # {} /\ L = <<b>> \o <<e>>
  <2>1. \A i \in 1..2 : i = 1 \/ i = 2
    OBVIOUS
  <2>2. L[1] = b /\ L[2] = e /\ Len(L) = 2 /\ L \in Seq(Signal)
    BY <1>5, <1>9
  <2>3. \A i \in 1..2 : /\ L[i].batch = IF i = 1 THEN vs ELSE {}
                        /\ L[i].last => L[i].batch = {}
    BY <1>1, <2>1, <2>2
  <2>4. QED
    BY <2>2, <2>3
<1>10. QED
  BY <1>2, <1>6, <1>7, <1>8, <1>9

\* What is posted is the last word on its pairs; it says nothing of the others.
LEMMA PostStep ==
  ASSUME SweepInv, NEW new \in SUBSET events,
         NEW L, L = Batch(pending \cup new) \/ L = Batch(pending \cup new) \o Finished,
         posted' = posted \o L, pending' = {}, verdicts' = verdicts \cup new,
         UNCHANGED <<table, backing, hid>>
  PROVE  posted' \in Seq(Signal) /\ OneSaid' /\ AllTold'
<1> DEFINE vs == pending \cup new
<1>1. posted \in Seq(Signal) /\ vs \in Verdicts
  BY DEF SweepInv, SniTypeOK, Signal, Verdicts
<1>2. /\ L \in Seq(Signal)
      /\ \A i \in 1..Len(L) : /\ L[i].batch = IF i = 1 THEN vs ELSE {}
                              /\ L[i].last => L[i].batch = {}
      /\ vs # {} => Len(L) >= 1
  BY <1>1, Letters
<1>3. PICK n \in Nat, m \in Nat : n = Len(posted) /\ m = Len(L)
  BY <1>1, <1>2
<1>4. /\ posted' \in Seq(Signal) /\ Len(posted') = n + m
      /\ \A i \in 1..n : posted'[i] = posted[i]
      /\ \A i \in (n + 1)..(n + m) : posted'[i] = L[i - n]
  BY <1>1, <1>2, <1>3
<1>5. \A i \in (n + 1)..(n + m) :
        /\ posted'[i].batch = IF i = n + 1 THEN vs ELSE {}
        /\ posted'[i].last => posted'[i].batch = {}
  <2>1. \A i \in (n + 1)..(n + m) : i - n \in 1..m /\ (i - n = 1 <=> i = n + 1)
    OBVIOUS
  <2>2. \A i \in 1..m : /\ L[i].batch = IF i = 1 THEN vs ELSE {}
                        /\ L[i].last => L[i].batch = {}
    BY <1>2, <1>3
  <2>3. \A i \in (n + 1)..(n + m) : posted'[i] = L[i - n]
    BY <1>4
  <2> HIDE DEF vs
  <2>4. ASSUME NEW i \in (n + 1)..(n + m)
        PROVE  /\ posted'[i].batch = IF i = n + 1 THEN vs ELSE {}
               /\ posted'[i].last => posted'[i].batch = {}
    <3>1. posted'[i] = L[i - n] /\ i - n \in 1..m /\ (i - n = 1 <=> i = n + 1)
      BY <2>1, <2>3
    <3>2. /\ L[i - n].batch = IF i - n = 1 THEN vs ELSE {}
          /\ L[i - n].last => L[i - n].batch = {}
      BY <2>2, <3>1
    <3>3. QED
      BY <3>1, <3>2, Zenon
  <2>5. QED
    BY <2>4
<1>6. \A i \in 1..(n + m) : i \in 1..n \/ i \in (n + 1)..(n + m)
  OBVIOUS
<1>7. \A v, w \in verdicts \cup events : v.pair = w.pair => v = w
  BY DEF SweepInv, OneVerdict
<1>8. vs \subseteq verdicts \cup events
  BY DEF SweepInv, SweepQuiet
<1>9. OneSaid'
  <2>1. \A i \in 1..n : /\ \A v, w \in posted'[i].batch : v.pair = w.pair => v = w
                        /\ posted'[i].last => posted'[i].batch = {}
    BY <1>3, <1>4 DEF SweepInv, OneSaid
  <2>2. \A i \in (n + 1)..(n + m) : \A v, w \in posted'[i].batch : v.pair = w.pair => v = w
    BY <1>5, <1>7, <1>8
  <2>3. QED
    BY <1>4, <1>5, <1>6, <2>1, <2>2 DEF OneSaid
<1> HIDE DEF vs
<1>10. ASSUME NEW v \in verdicts', v \in vs PROVE TellsOf(v)'
  <2>1. n + 1 \in 1..(n + m) /\ v \in posted'[n + 1].batch
    <3>1. m >= 1
      BY <1>2, <1>3, <1>10 DEF vs
    <3>2. n + 1 \in (n + 1)..(n + m) /\ n + 1 \in 1..(n + m)
      BY <3>1
    <3>3. posted'[n + 1].batch = vs
      BY <1>5, <3>2
    <3>4. QED
      BY <1>10, <3>2, <3>3
  <2>2. Unsaid(v.pair, n + 2)'
    <3>1. \A j \in (n + 2)..(n + m) : j \in (n + 1)..(n + m) /\ j # n + 1
      OBVIOUS
    <3>2. \A j \in (n + 2)..(n + m) : posted'[j].batch = {}
      BY <1>5, <3>1
    <3>3. QED
      BY <1>4, <3>2 DEF Unsaid
  <2>3. n + 1 + 1 = n + 2
    OBVIOUS
  <2>4. QED
    BY <1>4, <2>1, <2>2, <2>3 DEF TellsOf
<1>11. ASSUME NEW v \in verdicts', v \notin vs PROVE TellsOf(v)'
  <2>1. v \in verdicts /\ v \notin pending
    BY <1>11 DEF vs
  <2>2. \A w \in vs : w.pair # v.pair
    BY <1>7, <1>8, <1>11, <2>1
  <2>3. \A j \in (n + 1)..(n + m) : \A w \in posted'[j].batch : w.pair # v.pair
    BY <1>5, <2>2
  <2>4. ASSUME NEW i \in 1..(n + 1), Unsaid(v.pair, i) PROVE Unsaid(v.pair, i)'
    <3>1. \A j \in i..(n + m) : j \in i..n \/ j \in (n + 1)..(n + m)
      OBVIOUS
    <3>2. \A j \in i..n : j \in 1..n
      OBVIOUS
    <3>3. \A j \in i..n : \A w \in posted'[j].batch : w.pair # v.pair
      BY <1>3, <1>4, <2>4, <3>2 DEF Unsaid
    <3>4. QED
      BY <1>4, <2>3, <3>1, <3>3 DEF Unsaid
  <2>5. CASE \E i \in 1..n : v \in posted[i].batch /\ Unsaid(v.pair, i + 1)
    <3>1. PICK i \in 1..n : v \in posted[i].batch /\ Unsaid(v.pair, i + 1)
      BY <2>5
    <3>2. i + 1 \in 1..(n + 1) /\ i \in 1..(n + m)
      OBVIOUS
    <3>3. Unsaid(v.pair, i + 1)' /\ v \in posted'[i].batch
      BY <1>4, <2>4, <3>1, <3>2
    <3>4. QED
      BY <1>4, <3>2, <3>3 DEF TellsOf
  <2>6. CASE Unsaid(v.pair, 1) /\ (~hid => Shown[v.pair] = StatusOf(v))
    <3>1. 1 \in 1..(n + 1)
      OBVIOUS
    <3>2. Unsaid(v.pair, 1)'
      BY <2>4, <2>6, <3>1
    <3>3. Shown' = Shown
      BY DEF Shown, Over
    <3>4. QED
      BY <2>6, <3>2, <3>3 DEF TellsOf, StatusOf
  <2>7. QED
    BY <1>3, <2>1, <2>5, <2>6 DEF SweepInv, AllTold, TellsOf
<1>12. QED
  BY <1>4, <1>9, <1>10, <1>11 DEF AllTold

\* Re-sorting shows, in the table and its copy together, what they showed before.
LEMMA ResortShows ==
  ASSUME NEW filter, Resort(table, filter)
  PROVE  /\ Shown' = Shown
         /\ DOMAIN backing' = DOMAIN table \cup DOMAIN backing
         /\ ~hid' => ~hid
         /\ ~hid' /\ (phase # "over" \/ posted' # <<>>) => DOMAIN table' = DOMAIN backing'
<1> DEFINE merged == Over(table, backing)
           visible == {k \in DOMAIN merged : merged[k] = "ok" \/ ~filter}
<1>1. /\ backing' = merged /\ table' = [k \in visible |-> merged[k]]
      /\ hid' = (hid \/ (visible # DOMAIN merged /\ (phase # "over" \/ posted' # <<>>)))
  BY DEF Resort
<1>2. /\ merged = [k \in DOMAIN merged |-> merged[k]]
      /\ DOMAIN merged = DOMAIN table \cup DOMAIN backing
  BY DEF Over
<1> HIDE DEF merged
<1>3. Over(table', backing') = merged
  <2>1. DOMAIN table' = visible /\ visible \subseteq DOMAIN merged
    BY <1>1
  <2>2. Over(table', backing') =
          [k \in DOMAIN merged |-> IF k \in visible THEN table'[k] ELSE backing'[k]]
    BY <1>1, <2>1 DEF Over
  <2>3. \A k \in DOMAIN merged :
          (IF k \in visible THEN table'[k] ELSE backing'[k]) = merged[k]
    BY <1>1
  <2>4. QED
    BY <1>2, <2>2, <2>3
<1>4. Shown' = Shown
  BY <1>3 DEF Shown, merged
<1>5. QED
  BY <1>1, <1>2, <1>4

\* A batch is written into its rows: no row comes or goes.
LEMMA BatchWritten ==
  ASSUME SweepInv, posted # <<>>, ~Head(posted).last, DeliverScan
  PROVE  /\ DOMAIN table' = DOMAIN table /\ UNCHANGED <<backing, hid>>
         /\ \A k \in DOMAIN Shown :
              (\A w \in posted[1].batch : w.pair # k) => Shown'[k] = Shown[k]
         /\ \A v \in posted[1].batch :
              v.pair \in DOMAIN table => Shown'[v.pair] = StatusOf(v)
<1>1. /\ UNCHANGED <<backing, hid>>
      /\ table' = [k \in DOMAIN table |->
                     IF \E v \in posted[1].batch : v.pair = k
                     THEN StatusOf(CHOOSE v \in posted[1].batch : v.pair = k)
                     ELSE table[k]]
  BY DEF DeliverScan
<1>2. 1 \in 1..Len(posted)
  BY DEF SweepInv, SniTypeOK
<1>3. \A v, w \in posted[1].batch : v.pair = w.pair => v = w
  BY <1>2 DEF SweepInv, OneSaid
<1>4. ASSUME NEW k \in DOMAIN Shown, \A w \in posted[1].batch : w.pair # k
      PROVE  Shown'[k] = Shown[k]
  BY <1>1, <1>4 DEF Shown, Over
<1>5. ASSUME NEW v \in posted[1].batch, v.pair \in DOMAIN table
      PROVE  Shown'[v.pair] = StatusOf(v)
  <2>1. (CHOOSE w \in posted[1].batch : w.pair = v.pair) = v
    BY <1>3
  <2>2. table'[v.pair] = StatusOf(v)
    BY <1>1, <1>5, <2>1
  <2>3. QED
    BY <1>1, <1>5, <2>2 DEF Shown, Over
<1>6. QED
  BY <1>1, <1>4, <1>5

\* A signal less: what it said is in the table now.
LEMMA HeardStep ==
  ASSUME SweepInv, DeliverScan
  PROVE  posted' \in Seq(Signal) /\ OneSaid' /\ AllTold' /\ TableWhole'
<1>1. PICK n \in Nat : n + 1 = Len(posted)
  <2>1. Len(posted) \in Nat /\ Len(posted) # 0
    BY DEF DeliverScan, SweepInv, SniTypeOK
  <2>2. Len(posted) - 1 \in Nat /\ (Len(posted) - 1) + 1 = Len(posted)
    BY <2>1
  <2>3. QED
    BY <2>2
<1>2. /\ posted \in Seq(Signal) /\ posted # <<>> /\ posted' = Tail(posted)
      /\ UNCHANGED <<phase, pending, verdicts, sought>>
  BY DEF SweepInv, SniTypeOK, Signal, DeliverScan, sweepThread, task
<1>3. /\ posted' \in Seq(Signal) /\ Len(posted') = n
      /\ \A i \in 1..n : posted'[i] = posted[i + 1] /\ i + 1 \in 1..(n + 1)
  BY <1>1, <1>2
<1>4. OneSaid'
  BY <1>1, <1>3 DEF SweepInv, OneSaid
<1>5. ASSUME NEW k, NEW i \in 1..(n + 1), Unsaid(k, i + 1) PROVE Unsaid(k, i)'
  <2>1. \A j \in i..n : j \in 1..n /\ j + 1 \in (i + 1)..(n + 1)
    OBVIOUS
  <2>2. QED
    BY <1>1, <1>3, <1>5, <2>1 DEF Unsaid
<1>6. TableWhole'
  <2>1. CASE Head(posted).last
    <3>1. Resort(table, onlyOk)
      BY <2>1 DEF DeliverScan
    <3>2. QED
      BY <1>2, <3>1, ResortShows DEF TableWhole
  <2>2. CASE ~Head(posted).last
    BY <1>2, <2>2, BatchWritten DEF TableWhole, SweepInv
  <2>3. QED
    BY <2>1, <2>2
<1>7. ~hid' => ~hid
  <2>1. CASE Head(posted).last
    BY <2>1, ResortShows DEF DeliverScan
  <2>2. CASE ~Head(posted).last
    BY <1>2, <2>2, BatchWritten
  <2>3. QED
    BY <2>1, <2>2
<1>8. ASSUME NEW v \in verdicts PROVE TellsOf(v)'
  <2>1. v.pair \in sought /\ v.pair \in DOMAIN Shown
    BY DEF SweepInv, OneVerdict, NoRowDestroyed, Shown, Over
  <2>2. CASE v \in pending
    BY <1>2, <2>2 DEF TellsOf
  <2>3. CASE \E i \in 1..(n + 1) : v \in posted[i].batch /\ Unsaid(v.pair, i + 1)
    <3>1. PICK i \in 1..(n + 1) : v \in posted[i].batch /\ Unsaid(v.pair, i + 1)
      BY <2>3
    <3>2. Unsaid(v.pair, i)'
      BY <1>5, <3>1
    <3>3. CASE i = 1
      <4>1. ~Head(posted).last => (~hid' => Shown'[v.pair] = StatusOf(v))
        <5>1. ~hid => v.pair \in DOMAIN table
          BY <1>2, <2>1 DEF SweepInv, TableWhole, NoRowDestroyed
        <5>2. QED
          BY <1>2, <1>7, <3>1, <3>3, <5>1, BatchWritten
      <4>2. ~Head(posted).last
        BY <1>1, <1>2, <3>1, <3>3 DEF SweepInv, OneSaid
      <4>3. QED
        BY <3>2, <3>3, <4>1, <4>2 DEF TellsOf, StatusOf
    <3>4. CASE i # 1
      <4>1. i - 1 \in 1..n /\ (i - 1) + 1 = i
        BY <3>4
      <4>2. v \in posted'[i - 1].batch
        BY <1>3, <3>1, <4>1
      <4>3. QED
        BY <1>3, <3>2, <4>1, <4>2 DEF TellsOf
    <3>5. QED
      BY <3>3, <3>4
  <2>4. CASE Unsaid(v.pair, 1) /\ (~hid => Shown[v.pair] = StatusOf(v))
    <3>1. Unsaid(v.pair, 1)'
      <4>1. \A j \in (1 + 1)..Len(posted) : j \in 1..Len(posted)
        BY <1>1
      <4>2. Unsaid(v.pair, 1 + 1) /\ 1 \in 1..(n + 1)
        BY <2>4, <4>1 DEF Unsaid
      <4>3. QED
        BY <1>5, <4>2
    <3>2. Shown'[v.pair] = Shown[v.pair]
      <4>1. CASE Head(posted).last
        BY <4>1, ResortShows DEF DeliverScan
      <4>2. CASE ~Head(posted).last
        <5>1. \A w \in posted[1].batch : w.pair # v.pair
          BY <1>1, <2>4 DEF Unsaid
        <5>2. QED
          BY <1>2, <2>1, <4>2, <5>1, BatchWritten
      <4>3. QED
        BY <4>1, <4>2
    <3>3. QED
      BY <1>7, <2>4, <3>1, <3>2 DEF TellsOf, StatusOf
  <2>5. QED
    BY <1>1, <2>2, <2>3, <2>4 DEF SweepInv, AllTold, TellsOf
<1>9. QED
  BY <1>2, <1>3, <1>4, <1>6, <1>8 DEF AllTold

\* The table and the signals are left alone, or one of them is.
LEMMA ViewStep ==
  ASSUME SweepInv, UNCHANGED <<pending, verdicts, sought, posted>>,
         \/ UNCHANGED <<table, backing, hid>> /\ (phase = "over" => phase' = "over")
         \/ \E filter : Resort(table, filter) /\ phase' = phase
  PROVE  OneSaid' /\ AllTold' /\ TableWhole' /\ NoRowDestroyed'
<1>1. /\ Shown' = Shown /\ (~hid' => ~hid)
      /\ TableWhole' /\ NoRowDestroyed'
  <2>1. CASE UNCHANGED <<table, backing, hid>> /\ (phase = "over" => phase' = "over")
    BY <2>1 DEF SweepInv, TableWhole, NoRowDestroyed, Shown, Over
  <2>2. ASSUME NEW filter, Resort(table, filter), phase' = phase
        PROVE  Shown' = Shown /\ (~hid' => ~hid) /\ TableWhole' /\ NoRowDestroyed'
    BY <2>2, ResortShows DEF SweepInv, TableWhole, NoRowDestroyed
  <2>3. QED
    BY <2>1, <2>2
<1>2. OneSaid'
  BY DEF SweepInv, OneSaid
<1>3. \A v \in verdicts : TellsOf(v)'
  BY <1>1 DEF SweepInv, AllTold, TellsOf, Unsaid, StatusOf
<1>4. QED
  BY <1>1, <1>2, <1>3 DEF AllTold

\* Rows that are written again are rows.
LEMMA ResortTyped ==
  ASSUME table \in Rows, backing \in Rows, NEW filter, Resort(table, filter)
  PROVE  table' \in Rows /\ backing' \in Rows
<1> DEFINE Mark == {"pending", "ok", "fail"}
           merged == Over(table, backing)
           visible == {k \in DOMAIN merged : merged[k] = "ok" \/ ~filter}
<1>1. \A f : f \in Rows <=> \E shown \in SUBSET Candidates : f \in [shown -> Mark]
  BY DEF Rows
<1>2. PICK A \in SUBSET Candidates, B \in SUBSET Candidates :
        table \in [A -> Mark] /\ backing \in [B -> Mark]
  BY <1>1
<1>3. merged \in [A \cup B -> Mark]
  BY <1>2 DEF Over
<1>4. backing' = merged /\ table' = [k \in visible |-> merged[k]]
  BY DEF Resort
<1> HIDE DEF merged
<1>5. table' \in [visible -> Mark] /\ visible \in SUBSET Candidates
  BY <1>3, <1>4
<1>6. QED
  BY <1>1, <1>3, <1>4, <1>5

\* The actions of the probe threads.
LEMMA ProbeStep ==
  ASSUME SweepInv, NEW k \in Candidates, Probe(k) \/ ProbeEnds(k)
  PROVE  SweepInv'
<1>1. UNCHANGED <<phase, pending, verdicts, sought, asked, broke, stopSet, posted, table,
                  backing, onlyOk, hid, canRun, canStop>>
  BY DEF Probe, ProbeEnds, sweepThread, task, view, buttons
<1>2. OneSaid' /\ AllTold' /\ TableWhole' /\ NoRowDestroyed'
  BY <1>1, ViewStep
<1>3. IsFiniteSet(probing) /\ Cardinality(probing) \in Nat
  BY SniScanAssumption, FS_Subset, FS_CardinalityType DEF SweepInv, SniTypeOK
<1>4. CASE Probe(k)
  <2>1. /\ phase = "sweeping" /\ k \in jobs /\ Cardinality(probing) < ProbeWorkers
        /\ jobs' = jobs \ {k} /\ probing' = probing \cup {k} /\ events' = events
    BY <1>4 DEF Probe
  <2>2. Cardinality(probing') <= ProbeWorkers
    <3>1. Cardinality(probing \cup {k}) <= Cardinality(probing) + 1
      BY <1>3, FS_AddElement
    <3>2. Cardinality(probing \cup {k}) \in Nat
      BY <1>3, FS_AddElement, FS_CardinalityType
    <3>3. QED
      BY <1>3, <2>1, <3>1, <3>2, SniScanAssumption
  <2>3. SniTypeOK'
    BY <1>1, <2>1, <2>2 DEF SweepInv, SniTypeOK
  <2>4. OneVerdict'
    BY <1>1, <2>1 DEF SweepInv, OneVerdict
  <2>5. SweepQuiet'
    BY <1>1, <2>1 DEF SweepInv, SweepQuiet, AllIn
  <2>6. QED
    BY <1>2, <2>3, <2>4, <2>5 DEF SweepInv
<1>5. CASE ProbeEnds(k)
  <2>1. PICK ok \in BOOLEAN : events' = events \cup {[pair |-> k, ok |-> ok]}
    BY <1>5 DEF ProbeEnds
  <2>2. k \in probing /\ probing' = probing \ {k} /\ jobs' = jobs /\ phase = "sweeping"
    BY <1>5 DEF ProbeEnds, SweepInv, SweepQuiet
  <2>3. Cardinality(probing') <= ProbeWorkers
    <3>1. Cardinality(probing \ {k}) = Cardinality(probing) - 1
      BY <1>3, <2>2, FS_RemoveElement
    <3>2. Cardinality(probing) <= ProbeWorkers
      BY DEF SweepInv, SniTypeOK
    <3>3. QED
      BY <1>3, <2>2, <3>1, <3>2, SniScanAssumption
  <2>4. SniTypeOK'
    BY <1>1, <2>1, <2>2, <2>3 DEF SweepInv, SniTypeOK, Verdict
  <2>5. OneVerdict'
    BY <1>1, <2>1, <2>2 DEF SweepInv, OneVerdict, SweepQuiet
  <2>6. SweepQuiet'
    BY <1>1, <2>2 DEF SweepInv, SweepQuiet, AllIn
  <2>7. QED
    BY <1>2, <2>4, <2>5, <2>6 DEF SweepInv
<1>6. QED
  BY <1>4, <1>5

\* The actions of the sweep's thread.
LEMMA SweepStep ==
  ASSUME SweepInv,
         \/ SweepBegins \/ IdleFlush \/ SweepEnds \/ SweepFails
         \/ \E v \in events : Collect(v)
  PROVE  SweepInv'
<1>1. /\ UNCHANGED <<sought, asked, stopSet, table, backing, onlyOk, hid, canRun, canStop>>
      /\ broke' \in {broke, TRUE} /\ (SweepFails => broke') /\ (~SweepFails => broke' = broke)
  BY DEF SweepBegins, IdleFlush, SweepEnds, SweepFails, Collect, task, view, buttons
<1>2. NoRowDestroyed'
  BY <1>1 DEF SweepInv, NoRowDestroyed
<1>3. CASE SweepBegins
  <2>1. /\ phase = "created" /\ phase' = "sweeping" /\ jobs' = sought
        /\ UNCHANGED <<probing, events, pending, verdicts, posted>>
    BY <1>3 DEF SweepBegins
  <2>2. OneSaid' /\ AllTold' /\ TableWhole'
    BY <1>1, <2>1, ViewStep
  <2>3. SniTypeOK' /\ OneVerdict' /\ SweepQuiet'
    BY <1>1, <2>1 DEF SweepInv, SniTypeOK, OneVerdict, SweepQuiet
  <2>4. QED
    BY <1>2, <2>2, <2>3 DEF SweepInv
<1>4. ASSUME phase = "sweeping", phase' \in {"sweeping", "over"} PROVE TableWhole'
  BY <1>1, <1>4 DEF SweepInv, TableWhole
<1>5. CASE IdleFlush
  <2>1. /\ phase = "sweeping" /\ pending' = {} /\ posted' = posted \o Batch(pending \cup {})
        /\ verdicts' = verdicts \cup {} /\ UNCHANGED <<phase, jobs, probing, events>>
    BY <1>5 DEF IdleFlush, probes
  <2>2. posted' \in Seq(Signal) /\ OneSaid' /\ AllTold'
    BY <1>1, <2>1, PostStep
  <2>3. SniTypeOK' /\ OneVerdict' /\ SweepQuiet'
    BY <1>1, <2>1, <2>2 DEF SweepInv, SniTypeOK, OneVerdict, SweepQuiet, Signal
  <2>4. QED
    BY <1>2, <1>4, <2>1, <2>2, <2>3 DEF SweepInv
<1>6. CASE SweepEnds
  <2>1. /\ phase = "sweeping" /\ phase' = "over" /\ (stopSet \/ AllIn)
        /\ pending' = {} /\ posted' = posted \o Batch(pending) \o Finished
        /\ jobs' = {} /\ probing' = {} /\ events' = {} /\ verdicts' = verdicts
    BY <1>6 DEF SweepEnds
  <2>2. posted' = posted \o (Batch(pending \cup {}) \o Finished)
    <3>1. posted \in Seq(Signal) /\ pending \in Verdicts
      BY DEF SweepInv, SniTypeOK, Signal, Verdicts
    <3>2. Batch(pending) \in Seq(Signal) /\ Finished \in Seq(Signal)
      <4>1. [batch |-> pending, last |-> FALSE] \in Signal
        BY <3>1 DEF Signal
      <4>2. [batch |-> {}, last |-> TRUE] \in Signal
        BY DEF Signal, Verdicts
      <4>3. QED
        BY <4>1, <4>2 DEF Batch, Finished
    <3>3. QED
      BY <2>1, <3>1, <3>2, ConcatAssociative
  <2>3. posted' \in Seq(Signal) /\ OneSaid' /\ AllTold'
    BY <1>1, <2>1, <2>2, PostStep
  <2>4. IsFiniteSet({}) /\ Cardinality({}) = 0
    BY FS_EmptySet
  <2>5. SniTypeOK'
    <3>1. {broke', stopSet', onlyOk', hid', canRun', canStop'} \subseteq BOOLEAN
      BY <1>1 DEF SweepInv, SniTypeOK
    <3>2. Cardinality(probing') <= ProbeWorkers
      BY <2>1, <2>4, SniScanAssumption
    <3>3. QED
      BY <1>1, <2>1, <2>3, <3>1, <3>2 DEF SweepInv, SniTypeOK, Signal
  <2>6. OneVerdict' /\ SweepQuiet'
    BY <1>1, <2>1 DEF SweepInv, OneVerdict, SweepQuiet, AllIn
  <2>7. QED
    BY <1>2, <1>4, <2>1, <2>3, <2>5, <2>6 DEF SweepInv
<1>7. ASSUME NEW v \in events, Collect(v) PROVE SweepInv'
  <2>1. /\ phase = "sweeping" /\ events' = events \ {v} /\ verdicts' = verdicts \cup {v}
        /\ UNCHANGED <<phase, jobs, probing>>
    BY <1>7 DEF Collect
  <2>2. OneVerdict'
    BY <1>1, <2>1 DEF SweepInv, OneVerdict
  <2>3. CASE pending' = pending \cup {v} /\ posted' = posted
    <3>1. OneSaid'
      BY <2>3 DEF SweepInv, OneSaid
    <3>2. AllTold'
      <4>1. \A w \in verdicts : TellsOf(w)'
        <5>1. Shown' = Shown
          BY <1>1 DEF Shown, Over
        <5>2. \A w \in verdicts : TellsOf(w)
          BY DEF SweepInv, AllTold
        <5>3. QED
          BY <1>1, <2>3, <5>1, <5>2 DEF TellsOf, Unsaid, StatusOf
      <4>2. TellsOf(v)'
        BY <2>3 DEF TellsOf
      <4>3. QED
        BY <2>1, <4>1, <4>2 DEF AllTold
    <3>3. SniTypeOK' /\ SweepQuiet'
      BY <1>1, <2>1, <2>3 DEF SweepInv, SniTypeOK, SweepQuiet
    <3>4. QED
      BY <1>2, <1>4, <2>1, <2>2, <3>1, <3>2, <3>3 DEF SweepInv
  <2>4. CASE pending' = {} /\ posted' = posted \o Batch(pending \cup {v})
    <3>1. posted' \in Seq(Signal) /\ OneSaid' /\ AllTold'
      BY <1>1, <2>1, <2>4, PostStep
    <3>2. SniTypeOK' /\ SweepQuiet'
      BY <1>1, <2>1, <2>4, <3>1 DEF SweepInv, SniTypeOK, SweepQuiet, Signal
    <3>3. QED
      BY <1>2, <1>4, <2>1, <2>2, <3>1, <3>2 DEF SweepInv
  <2>5. QED
    BY <1>7, <2>3, <2>4 DEF Collect
<1>8. CASE SweepFails
  <2>1. /\ phase = "sweeping" /\ phase' = "over" /\ broke' = TRUE /\ verdicts = {}
        /\ posted' = posted \o Finished /\ jobs' = {} /\ probing' = {} /\ events' = {}
        /\ UNCHANGED <<pending, verdicts>>
    BY <1>8 DEF SweepFails
  <2>2. pending = {} /\ AllTold'
    BY <2>1 DEF SweepInv, SweepQuiet, AllTold
  <2>3. posted' = posted \o (Batch(pending \cup {}) \o Finished)
    BY <2>1, <2>2 DEF Batch, Finished
  <2>4. posted' \in Seq(Signal) /\ OneSaid'
    BY <1>1, <2>1, <2>2, <2>3, PostStep
  <2>5. IsFiniteSet({}) /\ Cardinality({}) = 0
    BY FS_EmptySet
  <2>6. SniTypeOK'
    <3>1. {broke', stopSet', onlyOk', hid', canRun', canStop'} \subseteq BOOLEAN
      BY <1>1, <2>1 DEF SweepInv, SniTypeOK
    <3>2. Cardinality(probing') <= ProbeWorkers
      BY <2>1, <2>5, SniScanAssumption
    <3>3. QED
      BY <1>1, <2>1, <2>4, <3>1, <3>2 DEF SweepInv, SniTypeOK, Signal
  <2>7. OneVerdict' /\ SweepQuiet'
    BY <1>1, <2>1, <2>2 DEF SweepInv, OneVerdict, SweepQuiet
  <2>8. QED
    BY <1>2, <1>4, <2>1, <2>2, <2>4, <2>6, <2>7 DEF SweepInv
<1>9. QED
  BY <1>3, <1>5, <1>6, <1>7, <1>8

\* The GUI's handlers, but for the signals: a new sweep begins with a table of its own.
LEMMA StartSweepStep == ASSUME SweepInv, ScanStart PROVE SweepInv'
<1>1. /\ phase \in {"none", "over"} /\ phase' = "created" /\ sought' \in SUBSET Candidates
      /\ asked' = asked + Cardinality(sought') /\ asked' <= MaxSought
      /\ verdicts' = {} /\ stopSet' = FALSE /\ broke' = FALSE
      /\ table' = [k \in sought' |-> "pending"] /\ backing' = Empty /\ hid' = FALSE
      /\ canRun' = FALSE /\ canStop' = TRUE
      /\ UNCHANGED <<jobs, probing, events, pending, posted, onlyOk>>
  BY DEF ScanStart, probes
<1>2. asked' \in 0..MaxSought
  <2>1. Cardinality(sought') \in Nat
    BY <1>1, SniScanAssumption, FS_Subset, FS_CardinalityType
  <2>2. QED
    BY <1>1, <2>1, SniScanAssumption DEF SweepInv, SniTypeOK
<1>3. table' \in Rows /\ backing' \in Rows
  <2>1. table' \in [sought' -> {"pending", "ok", "fail"}]
    BY <1>1
  <2>2. backing' \in [{} -> {"pending", "ok", "fail"}] /\ {} \in SUBSET Candidates
    BY <1>1 DEF Empty
  <2>3. QED
    BY <1>1, <2>1, <2>2 DEF Rows
<1>4. SniTypeOK'
  BY <1>1, <1>2, <1>3 DEF SweepInv, SniTypeOK
<1>5. OneVerdict' /\ SweepQuiet' /\ OneSaid' /\ AllTold'
  BY <1>1 DEF SweepInv, OneVerdict, SweepQuiet, OneSaid, AllTold
<1>6. TableWhole' /\ NoRowDestroyed'
  BY <1>1 DEF TableWhole, NoRowDestroyed, Empty
<1>7. QED
  BY <1>4, <1>5, <1>6 DEF SweepInv

LEMMA HandlerStep ==
  ASSUME SweepInv,
         ScanStop \/ ReopenPanel \/ LeavePage \/ \E value \in BOOLEAN : Filter(value)
  PROVE  SweepInv'
<1>1. UNCHANGED <<jobs, probing, events, phase, pending, verdicts, sought, asked, broke,
                  posted>>
  BY DEF ScanStop, ReopenPanel, LeavePage, Filter, probes, sweepThread, task
<1>2. /\ stopSet' \in {stopSet, stopSet \/ phase = "sweeping"}
      /\ {onlyOk', hid', canRun', canStop'} \subseteq BOOLEAN
      /\ table' \in Rows /\ backing' \in Rows
  <2>1. CASE ScanStop \/ ReopenPanel \/ LeavePage
    BY <2>1 DEF ScanStop, ReopenPanel, LeavePage, AskStop, view, buttons, SweepInv, SniTypeOK
  <2>2. ASSUME NEW value \in BOOLEAN, Filter(value)
        PROVE  /\ stopSet' = stopSet /\ {onlyOk', hid', canRun', canStop'} \subseteq BOOLEAN
               /\ table' \in Rows /\ backing' \in Rows
    <3>1. Resort(table, value) /\ onlyOk' = value /\ UNCHANGED <<stopSet, canRun, canStop>>
      BY <2>2 DEF Filter, buttons
    <3>2. hid' \in BOOLEAN
      BY <3>1 DEF Resort, SweepInv, SniTypeOK
    <3>3. QED
      BY <3>1, <3>2, ResortTyped DEF SweepInv, SniTypeOK
  <2>3. QED
    BY <2>1, <2>2
<1>3. OneSaid' /\ AllTold' /\ TableWhole' /\ NoRowDestroyed'
  <2>1. CASE ScanStop \/ ReopenPanel \/ LeavePage
    BY <1>1, <2>1, ViewStep DEF ScanStop, ReopenPanel, LeavePage, view
  <2>2. ASSUME NEW value \in BOOLEAN, Filter(value)
        PROVE  OneSaid' /\ AllTold' /\ TableWhole' /\ NoRowDestroyed'
    BY <1>1, <2>2, ViewStep DEF Filter
  <2>3. QED
    BY <2>1, <2>2
<1>4. SniTypeOK'
  BY <1>1, <1>2 DEF SweepInv, SniTypeOK
<1>5. OneVerdict' /\ SweepQuiet'
  BY <1>1, <1>2 DEF SweepInv, OneVerdict, SweepQuiet, AllIn
<1>6. QED
  BY <1>3, <1>4, <1>5 DEF SweepInv

LEMMA DeliverScanStep == ASSUME SweepInv, DeliverScan PROVE SweepInv'
<1>1. UNCHANGED <<jobs, probing, events, phase, pending, verdicts, sought, asked, broke,
                  stopSet, onlyOk>>
  BY DEF DeliverScan, probes, sweepThread, task
<1>2. posted' \in Seq(Signal) /\ OneSaid' /\ AllTold' /\ TableWhole'
  BY HeardStep
<1>3. NoRowDestroyed'
  BY RowsStep DEF SweepInv, SniNext
<1>4. /\ {hid', canRun', canStop'} \subseteq BOOLEAN
      /\ table' \in Rows /\ backing' \in Rows
  <2>1. CASE Head(posted).last
    <3>1. Resort(table, onlyOk) /\ canRun' = TRUE /\ canStop' = FALSE
      BY <2>1 DEF DeliverScan
    <3>2. hid' \in BOOLEAN
      BY <3>1 DEF Resort, SweepInv, SniTypeOK
    <3>3. QED
      BY <3>1, <3>2, ResortTyped DEF SweepInv, SniTypeOK
  <2>2. CASE ~Head(posted).last
    <3>1. /\ UNCHANGED <<backing, hid, canRun, canStop>>
          /\ table' = [k \in DOMAIN table |->
                        IF \E v \in Head(posted).batch : v.pair = k
                        THEN StatusOf(CHOOSE v \in Head(posted).batch : v.pair = k)
                        ELSE table[k]]
      BY <2>2 DEF DeliverScan
    <3>2. PICK shown \in SUBSET Candidates : table \in [shown -> {"pending", "ok", "fail"}]
      BY DEF SweepInv, SniTypeOK, Rows
    <3>3. \A v : StatusOf(v) \in {"pending", "ok", "fail"}
      BY DEF StatusOf
    <3>4. table' \in [shown -> {"pending", "ok", "fail"}]
      BY <3>1, <3>2, <3>3
    <3>5. QED
      BY <3>1, <3>4 DEF SweepInv, SniTypeOK, Rows
  <2>3. QED
    BY <2>1, <2>2
<1>5. SniTypeOK'
  BY <1>1, <1>2, <1>4 DEF SweepInv, SniTypeOK, Signal
<1>6. OneVerdict' /\ SweepQuiet'
  BY <1>1 DEF SweepInv, OneVerdict, SweepQuiet, AllIn
<1>7. QED
  BY <1>2, <1>3, <1>5, <1>6 DEF SweepInv

LEMMA SweepsBegin == SniInit => SweepInv
<1> SUFFICES ASSUME SniInit PROVE SweepInv
  OBVIOUS
<1> USE DEF SniInit
<1>1. Cardinality({}) = 0 /\ ProbeWorkers \in Nat /\ MaxSought \in Nat
  BY FS_EmptySet, SniScanAssumption
<1>2. Empty \in Rows
  <2>1. Empty \in [{} -> {"pending", "ok", "fail"}] /\ {} \in SUBSET Candidates
    BY DEF Empty
  <2>2. QED
    BY <2>1 DEF Rows
<1>3. SniTypeOK
  <2>1. posted \in Seq([batch : Verdicts, last : BOOLEAN])
    OBVIOUS
  <2>2. Cardinality(probing) <= ProbeWorkers /\ asked \in 0..MaxSought
    BY <1>1
  <2>3. table \in Rows /\ backing \in Rows
    BY <1>2
  <2>4. QED
    BY <2>1, <2>2, <2>3 DEF SniTypeOK
<1>4. OneVerdict /\ SweepQuiet /\ OneSaid /\ AllTold
  BY DEF OneVerdict, SweepQuiet, OneSaid, AllTold
<1>5. TableWhole /\ NoRowDestroyed
  BY DEF TableWhole, NoRowDestroyed, Empty
<1>6. QED
  BY <1>3, <1>4, <1>5 DEF SweepInv

LEMMA SweepStutter == ASSUME SweepInv, UNCHANGED sniVars PROVE SweepInv'
<1>1. UNCHANGED <<jobs, probing, events, phase, pending, verdicts, sought, asked, broke,
                  stopSet, posted, table, backing, onlyOk, hid, canRun, canStop>>
  BY DEF sniVars, probes, sweepThread, task, view, buttons
<1>2. OneSaid' /\ AllTold' /\ TableWhole' /\ NoRowDestroyed'
  BY <1>1, ViewStep
<1>3. SniTypeOK' /\ OneVerdict' /\ SweepQuiet'
  BY <1>1 DEF SweepInv, SniTypeOK, OneVerdict, SweepQuiet, AllIn
<1>4. QED
  BY <1>2, <1>3 DEF SweepInv

\* The sweep's invariant, for any pairs and number of probe threads: one verdict per
\* pair, and each verdict on its way to the table or in it.
THEOREM SweepInvariant == SniSpec => []SweepInv
<1>1. SweepInv /\ [SniNext]_sniVars => SweepInv'
  <2> SUFFICES ASSUME SweepInv, [SniNext]_sniVars PROVE SweepInv'
    OBVIOUS
  <2>1. ASSUME NEW k \in Candidates, Probe(k) \/ ProbeEnds(k) PROVE SweepInv'
    BY <2>1, ProbeStep
  <2>2. CASE \/ SweepBegins \/ IdleFlush \/ SweepEnds \/ SweepFails
             \/ \E v \in events : Collect(v)
    BY <2>2, SweepStep
  <2>3. CASE ScanStart
    BY <2>3, StartSweepStep
  <2>4. CASE ScanStop \/ ReopenPanel \/ LeavePage \/ \E value \in BOOLEAN : Filter(value)
    BY <2>4, HandlerStep
  <2>5. CASE DeliverScan
    BY <2>5, DeliverScanStep
  <2>6. CASE UNCHANGED sniVars
    BY <2>6, SweepStutter
  <2>7. QED
    BY <2>1, <2>2, <2>3, <2>4, <2>5, <2>6 DEF SniNext
<1>2. QED
  BY SweepsBegin, <1>1, PTL DEF SniSpec

\* When a sweep's signals are all delivered the table shows what its probes found: no
\* batch is lost on the way and none of an earlier sweep stays, whatever the number of
\* sweeps, pairs and threads (window.py, _scan_on_results_batch).
THEOREM VerdictsReachTable == SniSpec => []VerdictsShown
<1>1. SweepInv => VerdictsShown
  <2> SUFFICES ASSUME SweepInv, phase = "over", posted = <<>>, ~hid,
                      NEW v \in verdicts
               PROVE  Shown[v.pair] = StatusOf(v)
    BY DEF VerdictsShown, SweepInv, SweepQuiet
  <2>1. pending = {} /\ TellsOf(v)
    BY DEF SweepInv, SweepQuiet, AllTold
  <2>2. QED
    BY <2>1 DEF TellsOf
<1>2. QED
  BY <1>1, SweepInvariant, PTL
-----------------------------------------------------------------------------
(* The clean-IP scan                                                       *)

Letter == Note \cup {Done}

\* What the worker holds is what it may post about.
ScanType ==
  /\ todo \subseteq Targets /\ inflight \subseteq Targets /\ clean \subseteq Targets
  /\ ended \subseteq Targets \X {"ok", "bad", "none"}
  /\ budget \in Seq(Ips) /\ attempt \in 0..2
  /\ attempt > 0 => stage = "validating" /\ budget # <<>>
  /\ \A e \in DOMAIN found :
       found[e] \in [status : {"clean", "verified", "rejected"}, ticked : BOOLEAN]

\* "done" comes last, the worker that has not posted it holds the page, and so do
\* signals that are on their way.
MailInv ==
  /\ mail \in Seq(Letter)
  /\ stage # "over" => \A k \in 1..Len(mail) : mail[k].kind # "done"
  /\ stage = "over" /\ mail # <<>> => mail[Len(mail)].kind = "done"
  /\ \A k \in 1..Len(mail) : mail[k].kind = "done" => k = Len(mail)
  /\ stage \notin {"none", "over"} \/ mail # <<>> => busy

\* What is posted was found.
TruthInv ==
  /\ \A k \in 1..Len(mail) :
       /\ mail[k].kind = "hit" => mail[k].at \in clean
       /\ mail[k].kind = "verified" => mail[k].at \in proven
  /\ RowsHonest

CleanInv == ScanType /\ MailInv /\ TruthInv

\* The effects a step can have on the page and what it is told: none,
Wordless ==
  /\ UNCHANGED <<mail, clean, proven, found, busy>>
  /\ stage' = stage \/ {stage, stage'} \cap {"none", "over"} = {}

\* a letter about what was found,
Writes(n) ==
  /\ stage \notin {"none", "over"} /\ stage' = stage
  /\ mail' = Append(mail, n) /\ UNCHANGED <<found, busy>>
  /\ clean \subseteq clean' /\ proven \subseteq proven'
  /\ n.kind = "hit" => n.at \in clean'
  /\ n.kind = "verified" => n.at \in proven'

\* the last letter.
TellsDone ==
  /\ stage \notin {"none", "over"} /\ stage' = "over"
  /\ mail' = Append(mail, Done) /\ UNCHANGED <<clean, proven, found, busy>>

LEMMA WordlessStep == ASSUME MailInv, TruthInv, Wordless PROVE MailInv' /\ TruthInv'
BY DEF MailInv, TruthInv, Wordless, RowsHonest

LEMMA TellStep ==
  ASSUME MailInv, TruthInv, NEW n \in Note, Writes(n)
  PROVE  MailInv' /\ TruthInv'
<1>1. n.kind # "done" /\ n \in Letter
  BY DEF Note, Letter
<1>2. /\ mail' \in Seq(Letter) /\ Len(mail') = Len(mail) + 1 /\ Len(mail) \in Nat
      /\ \A k \in 1..Len(mail') : mail'[k] = IF k = Len(mail) + 1 THEN n ELSE mail[k]
  BY <1>1 DEF MailInv, Writes
<1>3. \A k \in 1..Len(mail') : k # Len(mail) + 1 => k \in 1..Len(mail)
  BY <1>2
<1>4. MailInv'
  BY <1>1, <1>2, <1>3 DEF MailInv, Writes
<1>5. TruthInv'
  BY <1>1, <1>2, <1>3 DEF TruthInv, Writes, RowsHonest
<1>6. QED
  BY <1>4, <1>5

LEMMA DoneStep == ASSUME MailInv, TruthInv, TellsDone PROVE MailInv' /\ TruthInv'
<1>1. Done.kind = "done" /\ Done \in Letter
  BY DEF Done, Letter
<1>2. /\ mail' \in Seq(Letter) /\ Len(mail') = Len(mail) + 1 /\ Len(mail) \in Nat
      /\ \A k \in 1..Len(mail') : mail'[k] = IF k = Len(mail) + 1 THEN Done ELSE mail[k]
  BY <1>1 DEF MailInv, TellsDone
<1>3. \A k \in 1..Len(mail') : k # Len(mail) + 1 => k \in 1..Len(mail)
  BY <1>2
<1>4. MailInv'
  BY <1>1, <1>2, <1>3 DEF MailInv, TellsDone
<1>5. TruthInv'
  BY <1>1, <1>2, <1>3 DEF TruthInv, TellsDone, RowsHonest
<1>6. QED
  BY <1>4, <1>5

\* Every step of the scan's threads is one of the three.
LEMMA Effects ==
  ASSUME CleanInv, ScanRuns \/ ProbesRun
  PROVE  Wordless \/ TellsDone \/ \E n \in Note : Writes(n)
<1> USE DEF CleanInv
<1>1. CASE WorkerBegins \/ LeaveLoop \/ ValidatorMade \/ ValidationBegins \/ ProbesRun
  BY <1>1 DEF WorkerBegins, LeaveLoop, ValidatorMade, ValidationBegins, ProbesRun, ProbeBegins,
              ProbeReturns, phase1, phase2, page, Wordless
<1>2. CASE WorkerFails \/ NoXray \/ ValidationEnds \/ ValidationFails
  BY <1>2 DEF WorkerFails, NoXray, ValidationEnds, ValidationFails, phase1, phase2, page,
              TellsDone
<1>3. CASE Joined
  BY <1>3 DEF Joined, phase2, page, Wordless, TellsDone
<1>4. ASSUME NEW r \in ended, TakeResult(r) PROVE Wordless \/ \E n \in Note : Writes(n)
  <2> DEFINE n == [kind |-> "hit", at |-> r[1]]
  <2>1. CASE r[2] = "ok"
    <3>1. n \in Note /\ n.kind = "hit" /\ n.at = r[1]
      BY DEF ScanType, Note, Targets, AllTargets
    <3>2. Writes(n)
      BY <1>4, <2>1, <3>1 DEF TakeResult, phase2, page, Writes
    <3>3. QED
      BY <3>1, <3>2
  <2>2. CASE r[2] # "ok"
    BY <1>4, <2>2 DEF TakeResult, phase2, page, Wordless
  <2>3. QED
    BY <2>1, <2>2
<1>5. ASSUME AttemptEnds PROVE Wordless \/ \E n \in Note : Writes(n)
  <2>1. PICK success \in BOOLEAN :
          LET ip == Head(budget)
              again == ~success /\ attempt = 1 /\ ~cut
          IN /\ proven' = IF success THEN proven \cup {<<ip, ProfilePort>>} ELSE proven
             /\ mail' = IF again THEN mail
                        ELSE Append(mail, [kind |-> IF success THEN "verified" ELSE "rejected",
                                           at |-> ValidatedAt(ip)])
    BY <1>5 DEF AttemptEnds
  <2>2. /\ stage = "validating" /\ stage' = stage
        /\ UNCHANGED <<clean, found, busy>>
    BY <1>5 DEF AttemptEnds, phase1, page
  <2> DEFINE n == [kind |-> IF success THEN "verified" ELSE "rejected",
                   at |-> <<Head(budget), ProfilePort>>]
  <2>3. CASE ~success /\ attempt = 1 /\ ~cut
    BY <2>1, <2>2, <2>3 DEF Wordless
  <2>4. CASE ~(~success /\ attempt = 1 /\ ~cut)
    <3>1. Head(budget) \in Ips
      BY <1>5 DEF AttemptEnds, ScanType
    <3>2. n \in Note /\ n.kind # "hit" /\ n.at = <<Head(budget), ProfilePort>>
      BY <3>1 DEF Note, AllTargets
    <3>3. mail' = Append(mail, n)
      BY <2>1, <2>4 DEF ValidatedAt
    <3>4. proven \subseteq proven' /\ (n.kind = "verified" => n.at \in proven')
      BY <2>1
    <3>5. Writes(n)
      BY <2>2, <3>2, <3>3, <3>4 DEF Writes
    <3>6. QED
      BY <3>2, <3>5
  <2>5. QED
    BY <2>3, <2>4
<1>6. QED
  BY <1>1, <1>2, <1>3, <1>4, <1>5 DEF ScanRuns

\* A scan that starts finds the page free, with nothing on its way.
LEMMA ClickStep ==
  ASSUME CleanInv, ScanClick
  PROVE  MailInv' /\ TruthInv'
<1>1. mail = <<>> /\ mail' = <<>> /\ stage' = "created" /\ busy' = TRUE /\ found' = NoRow
  BY DEF ScanClick, CleanInv, MailInv
<1>2. MailInv'
  BY <1>1 DEF CleanInv, MailInv
<1>3. DOMAIN found' = {}
  BY <1>1 DEF NoRow
<1>4. TruthInv'
  BY <1>1, <1>3 DEF TruthInv, RowsHonest
<1>5. QED
  BY <1>2, <1>4

\* A letter that arrives says of its row what was so when it was posted.
LEMMA DeliverStep ==
  ASSUME CleanInv, DeliverMail
  PROVE  MailInv' /\ TruthInv'
<1> DEFINE n == Head(mail)
<1>1. /\ mail # <<>> /\ mail \in Seq(Letter) /\ n = mail[1] /\ 1 \in 1..Len(mail)
      /\ mail' \in Seq(Letter) /\ Len(mail') = Len(mail) - 1 /\ Len(mail) \in Nat
      /\ \A k \in 1..Len(mail') : mail'[k] = mail[k + 1] /\ k + 1 \in 1..Len(mail)
  BY DEF DeliverMail, CleanInv, MailInv
<1>2. /\ UNCHANGED <<stage, clean, proven>>
      /\ busy' = (busy /\ n.kind # "done")
      /\ found' = IF n.kind = "hit" THEN WithRow(n.at, "clean", Ticked(n.at))
                  ELSE IF n.kind = "verified" THEN WithRow(n.at, "verified", TRUE)
                  ELSE IF n.kind = "rejected" /\ n.at \in DOMAIN found
                       THEN WithRow(n.at, "rejected", FALSE)
                  ELSE found
  BY DEF DeliverMail, phase1, phase2
<1>3. n.kind = "done" => stage = "over" /\ mail' = <<>>
  <2>1. n.kind = "done" => stage = "over" /\ 1 = Len(mail)
    BY <1>1 DEF CleanInv, MailInv
  <2>2. QED
    BY <1>1, <2>1
<1>4. MailInv'
  <2>1. stage = "over" /\ mail' # <<>> => mail'[Len(mail')].kind = "done"
    BY <1>1 DEF CleanInv, MailInv
  <2>2. stage \notin {"none", "over"} \/ mail' # <<>> => busy'
    BY <1>1, <1>2, <1>3 DEF CleanInv, MailInv
  <2>3. /\ stage # "over" => \A k \in 1..Len(mail') : mail'[k].kind # "done"
        /\ \A k \in 1..Len(mail') : mail'[k].kind = "done" => k = Len(mail')
    BY <1>1 DEF CleanInv, MailInv
  <2>4. QED
    BY <1>1, <1>2, <2>1, <2>2, <2>3 DEF MailInv
<1>5. /\ n.kind = "hit" => n.at \in clean
      /\ n.kind = "verified" => n.at \in proven
  BY <1>1 DEF CleanInv, TruthInv
<1>6. RowsHonest'
  <2>1. CASE found' = found
    BY <1>2, <2>1 DEF CleanInv, TruthInv, RowsHonest
  <2>2. ASSUME NEW status, NEW ticked, found' = WithRow(n.at, status, ticked),
               status = "clean" => n.at \in clean, status = "verified" => n.at \in proven
        PROVE  RowsHonest'
    <3>1. /\ DOMAIN found' = DOMAIN found \cup {n.at}
          /\ \A f \in DOMAIN found \cup {n.at} :
               found'[f] = IF f = n.at THEN [status |-> status, ticked |-> ticked] ELSE found[f]
      BY <2>2 DEF WithRow
    <3> HIDE DEF n
    <3> SUFFICES ASSUME NEW f \in DOMAIN found'
                 PROVE  /\ found'[f].status = "verified" => f \in proven'
                        /\ found'[f].status = "clean" => f \in clean'
      BY DEF RowsHonest
    <3>2. CASE f = n.at
      <4>1. found'[f].status = status
        BY <3>1, <3>2
      <4>2. QED
        BY <1>2, <2>2, <3>2, <4>1
    <3>3. CASE f # n.at
      <4>1. f \in DOMAIN found /\ found'[f] = found[f]
        BY <3>1, <3>3
      <4>2. QED
        BY <1>2, <4>1 DEF CleanInv, TruthInv, RowsHonest
    <3>4. QED
      BY <3>2, <3>3
  <2> HIDE DEF n
  <2>3. QED
    BY <1>2, <1>5, <2>1, <2>2
<1>7. TruthInv'
  BY <1>1, <1>2, <1>6 DEF CleanInv, TruthInv
<1>8. QED
  BY <1>4, <1>7

LEMMA TickStep ==
  ASSUME CleanInv, NEW e \in AllTargets, TickRow(e)
  PROVE  MailInv' /\ TruthInv'
<1>1. \A f \in DOMAIN found : found'[f].status = found[f].status
  BY DEF TickRow, CleanInv, ScanType
<1>2. /\ DOMAIN found' = DOMAIN found
      /\ UNCHANGED <<stage, clean, proven, mail, busy>>
  BY DEF TickRow, phase1, phase2
<1>3. QED
  BY <1>1, <1>2 DEF CleanInv, MailInv, TruthInv, RowsHonest

\* The budget of the second phase: no more IPs than the hits.
LEMMA BudgetType ==
  ASSUME ScanType, ValidatorMade
  PROVE  budget' \in Seq(Ips)
<1>1. IsFiniteSet(clean)
  <2>1. IsFiniteSet(Targets)
    BY CleanIpAssumption, FS_Product DEF Targets
  <2>2. QED
    BY <2>1, FS_Subset DEF ScanType
<1>2. PICK c \in Nat : c = Cardinality(clean)
  BY <1>1, FS_CardinalityType
<1>3. PICK best \in SetToSeqs(clean) :
        budget' = [k \in 1..(IF TopN = 0 THEN Len(best) ELSE Min({TopN, Len(best)}))
                     |-> best[k][1]]
  BY DEF ValidatorMade
<1>4. best \in [1..c -> clean] /\ Len(best) = c
  BY <1>2 DEF SetToSeqs
<1>5. PICK n \in 0..c : n = IF TopN = 0 THEN Len(best) ELSE Min({TopN, Len(best)})
  <2>1. \E k \in {TopN, c} : \A y \in {TopN, c} : k <= y
    <3>1. TopN \in Nat
      BY CleanIpAssumption
    <3>2. CASE TopN <= c
      BY <3>1, <3>2
    <3>3. CASE c <= TopN
      BY <3>1, <3>3
    <3>4. QED
      BY <3>1, <3>2, <3>3
  <2>2. Min({TopN, c}) \in {TopN, c} /\ Min({TopN, c}) <= c
    BY <2>1 DEF Min
  <2>3. QED
    BY <1>4, <2>2, CleanIpAssumption
<1>6. \A k \in 1..n : best[k][1] \in Ips
  BY <1>4 DEF ScanType, Targets
<1>7. budget' = [k \in 1..n |-> best[k][1]]
  BY <1>3, <1>5
<1>8. QED
  BY <1>6, <1>7

\* Types.
LEMMA ScanTypeStep == ASSUME CleanInv, CleanNext PROVE ScanType'
<1> USE DEF CleanInv, ScanType
<1>1. CASE ScanClick
  BY <1>1 DEF ScanClick, NoRow, MailInv
<1>2. CASE WorkerBegins \/ WorkerFails \/ NoXray \/ ValidationEnds
  BY <1>2 DEF WorkerBegins, WorkerFails, NoXray, ValidationEnds, phase1, phase2, page
<1>3. CASE ProbesRun
  BY <1>3 DEF ProbesRun, ProbeBegins, ProbeReturns, Outcomes, phase2, page
<1>4. CASE LeaveLoop \/ Joined \/ ValidationBegins \/ ValidationFails
  BY <1>4 DEF LeaveLoop, Joined, ValidationBegins, ValidationFails, phase1, phase2, page
<1>5. ASSUME NEW r \in ended, TakeResult(r) PROVE ScanType'
  BY <1>5 DEF TakeResult, phase2, page
<1>6. CASE ValidatorMade
  <2>1. attempt' = 0 /\ UNCHANGED <<todo, inflight, ended, clean, found>>
    BY <1>6 DEF ValidatorMade, phase1, page
  <2>2. budget' \in Seq(Ips)
    BY <1>6, BudgetType
  <2>3. QED
    BY <2>1, <2>2
<1>7. CASE AttemptEnds
  <2>1. Head(budget) \in Ips /\ Tail(budget) \in Seq(Ips)
    BY <1>7 DEF AttemptEnds
  <2>2. budget' \in Seq(Ips) /\ attempt' \in 0..2 /\ (attempt' > 0 => budget' # <<>>)
    BY <1>7, <2>1 DEF AttemptEnds
  <2>3. QED
    BY <1>7, <2>2 DEF AttemptEnds, phase1, page
<1>8. CASE StopScan \/ AddTicked
  BY <1>8 DEF StopScan, AddTicked, phase1, phase2, page
<1>9. ASSUME NEW e \in AllTargets, TickRow(e) PROVE ScanType'
  BY <1>9 DEF TickRow, phase1, phase2
<1>10. CASE DeliverMail
  <2> DEFINE n == Head(mail)
  <2>1. \/ found' = found
        \/ found' = WithRow(n.at, "clean", Ticked(n.at))
        \/ found' = WithRow(n.at, "verified", TRUE)
        \/ found' = WithRow(n.at, "rejected", FALSE)
    BY <1>10 DEF DeliverMail
  <2> HIDE DEF n
  <2>2. Ticked(n.at) \in BOOLEAN
    BY DEF Ticked
  <2>3. \A e \in DOMAIN found' :
          found'[e] \in [status : {"clean", "verified", "rejected"}, ticked : BOOLEAN]
    <3>1. ASSUME NEW status \in {"clean", "verified", "rejected"}, NEW t \in BOOLEAN,
                 NEW at, found' = WithRow(at, status, t), NEW e \in DOMAIN found'
          PROVE  found'[e] \in [status : {"clean", "verified", "rejected"}, ticked : BOOLEAN]
      BY <3>1 DEF WithRow
    <3>2. CASE found' = found
      BY <3>2
    <3> HIDE DEF ScanType
    <3>3. QED
      BY <2>1, <2>2, <3>1, <3>2
  <2>4. QED
    BY <1>10, <2>3 DEF DeliverMail, phase1, phase2
<1>11. QED
  BY <1>1, <1>2, <1>3, <1>4, <1>5, <1>6, <1>7, <1>8, <1>9, <1>10 DEF CleanNext, ScanRuns

LEMMA CleanStep == CleanInv /\ [CleanNext]_cleanVars => CleanInv'
<1>1. ASSUME CleanInv, StopScan \/ AddTicked PROVE Wordless
  BY <1>1 DEF StopScan, AddTicked, Wordless, phase1, phase2, page
<1>2. ASSUME CleanInv, CleanNext PROVE MailInv' /\ TruthInv'
  <2> USE <1>2 DEF CleanInv
  <2>1. CASE ScanRuns \/ ProbesRun
    <3> HIDE DEF CleanInv
    <3>1. MailInv /\ TruthInv
      BY DEF CleanInv
    <3>2. QED
      BY <2>1, <3>1, Effects, WordlessStep, TellStep, DoneStep
  <2>2. CASE StopScan \/ AddTicked
    BY <1>1, <2>2, WordlessStep
  <2>3. CASE ScanClick
    BY <2>3, ClickStep
  <2>4. CASE DeliverMail
    BY <2>4, DeliverStep
  <2>5. CASE \E e \in AllTargets : TickRow(e)
    BY <2>5, TickStep
  <2>6. QED
    BY <2>1, <2>2, <2>3, <2>4, <2>5 DEF CleanNext
<1>3. ASSUME CleanInv, UNCHANGED cleanVars PROVE CleanInv'
  BY <1>3 DEF CleanInv, ScanType, MailInv, TruthInv, RowsHonest, cleanVars, phase1, phase2, page
<1>4. QED
  BY <1>2, <1>3, ScanTypeStep DEF CleanInv

LEMMA CleanStart == CleanInit => CleanInv
<1> SUFFICES ASSUME CleanInit PROVE CleanInv
  OBVIOUS
<1>1. DOMAIN found = {} /\ mail = <<>> /\ budget = <<>>
  BY DEF CleanInit, NoRow
<1>2. QED
  BY <1>1 DEF CleanInit, CleanInv, ScanType, MailInv, TruthInv, RowsHonest

\* The inductive invariant of the clean-IP scan.
THEOREM CleanInvariant == CleanSpec => []CleanInv
<1>1. QED
  BY CleanStart, CleanStep, PTL DEF CleanSpec

\* The page is free only when the worker is through and has nothing to say,
\* whichever of its exits it took.
THEOREM FreeWhenOver == CleanSpec => []BusyTellsScan
<1>1. CleanInv => BusyTellsScan
  BY DEF CleanInv, MailInv, BusyTellsScan
<1>2. QED
  BY <1>1, CleanInvariant, PTL

\* No row says clean or verified of an endpoint that was not found so.
THEOREM RowsTellTruth == CleanSpec => []RowsHonest
<1>1. CleanInv => RowsHonest
  BY DEF CleanInv, TruthInv
<1>2. QED
  BY <1>1, CleanInvariant, PTL
-----------------------------------------------------------------------------
(* The types of the clean-IP scan                                          *)

\* What the worker and the page hold beyond what is posted.
ProbesBounded == Cardinality(inflight) <= ProbeThreads
RowsPlaced ==
  /\ DOMAIN found \subseteq AllTargets /\ proven \subseteq AllTargets
  /\ made \subseteq [row : AllTargets, dials : AllTargets]
Flags == halted \in BOOLEAN /\ cut \in BOOLEAN /\ busy \in BOOLEAN
Stages == {"none", "created", "probing", "joining", "between", "validating", "over"}

CleanTypes == ProbesBounded /\ RowsPlaced /\ Flags /\ stage \in Stages /\ scans \in 0..MaxScans

LEMMA BoundedStep == ASSUME CleanInv, CleanNext, ProbesBounded PROVE ProbesBounded'
<1>1. IsFiniteSet(Targets)
  BY CleanIpAssumption, FS_Product DEF Targets
<1>2. IsFiniteSet(inflight)
  BY <1>1, FS_Subset DEF CleanInv, ScanType
<1>3. Cardinality(inflight) \in Nat /\ ProbeThreads \in Nat
  BY <1>2, FS_CardinalityType, CleanIpAssumption
<1>4. ASSUME NEW e \in Targets, ProbeBegins(e) PROVE ProbesBounded'
  <2>1. CASE inflight' = inflight \cup {e}
    <3>1. Cardinality(inflight') <= Cardinality(inflight) + 1
      BY <1>2, <1>3, <2>1, FS_AddElement
    <3>2. Cardinality(inflight) < ProbeThreads
      BY <1>4 DEF ProbeBegins
    <3>3. IsFiniteSet(inflight')
      BY <1>2, <2>1, FS_AddElement
    <3>4. Cardinality(inflight') \in Nat
      BY <3>3, FS_CardinalityType
    <3>5. QED
      BY <1>3, <3>1, <3>2, <3>4 DEF ProbesBounded
  <2>2. CASE inflight' = inflight
    BY <2>2 DEF ProbesBounded
  <2>3. QED
    BY <1>4, <2>1, <2>2 DEF ProbeBegins
<1>5. ASSUME NEW e \in Targets, ProbeReturns(e) PROVE ProbesBounded'
  <2>1. inflight' \subseteq inflight
    BY <1>5 DEF ProbeReturns
  <2>2. Cardinality(inflight') <= Cardinality(inflight) /\ Cardinality(inflight') \in Nat
    BY <1>2, <2>1, FS_Subset, FS_CardinalityType
  <2>3. QED
    BY <1>3, <2>2 DEF ProbesBounded
<1>6. CASE ScanRuns \/ ScanClick \/ StopScan \/ DeliverMail \/ AddTicked
           \/ \E e \in AllTargets : TickRow(e)
  <2>1. inflight' = inflight
    BY <1>6 DEF ScanRuns, WorkerBegins, WorkerFails, LeaveLoop, Joined, ValidatorMade, NoXray,
       ValidationBegins, AttemptEnds, ValidationEnds, ValidationFails, TakeResult, ScanClick,
       StopScan, DeliverMail, AddTicked, TickRow, phase1
  <2>2. QED
    BY <2>1 DEF ProbesBounded
<1>7. QED
  BY <1>4, <1>5, <1>6 DEF CleanNext, ProbesRun

LEMMA PlacedStep == ASSUME CleanInv, CleanNext, RowsPlaced PROVE RowsPlaced'
<1>1. CASE AttemptEnds
  <2>1. UNCHANGED <<found, made>>
    BY <1>1 DEF AttemptEnds, page
  <2>2. Head(budget) \in Ips
    BY <1>1 DEF AttemptEnds, CleanInv, ScanType
  <2>3. proven' \subseteq proven \cup {<<Head(budget), ProfilePort>>}
    BY <1>1 DEF AttemptEnds
  <2>4. QED
    BY <2>1, <2>2, <2>3 DEF RowsPlaced, AllTargets
<1>2. CASE ScanClick
  BY <1>2 DEF ScanClick, RowsPlaced, NoRow
<1>3. CASE DeliverMail
  <2> DEFINE n == Head(mail)
  <2>1. mail \in Seq(Letter) /\ mail # <<>> /\ UNCHANGED <<proven, made>>
    BY <1>3 DEF DeliverMail, CleanInv, MailInv, phase2
  <2>2. n \in Letter
    BY <2>1
  <2>3. n.kind \in {"hit", "verified", "rejected"} => n.at \in AllTargets
    BY <2>2 DEF Letter, Note, Done
  <2>4. \/ found' = found
        \/ /\ n.kind \in {"hit", "verified", "rejected"}
           /\ \E status, t : found' = WithRow(n.at, status, t)
    BY <1>3 DEF DeliverMail
  <2> HIDE DEF n
  <2>5. DOMAIN found' \subseteq DOMAIN found \cup {n.at}
    BY <2>4 DEF WithRow
  <2>6. DOMAIN found' \subseteq AllTargets
    BY <2>3, <2>4, <2>5 DEF RowsPlaced
  <2>7. QED
    BY <2>1, <2>6 DEF RowsPlaced
<1>4. ASSUME NEW e \in AllTargets, TickRow(e) PROVE RowsPlaced'
  <2>1. DOMAIN found' = DOMAIN found /\ UNCHANGED <<proven, made>>
    BY <1>4 DEF TickRow, phase2
  <2>2. QED
    BY <2>1 DEF RowsPlaced
<1>5. CASE AddTicked
  <2>1. PICK chosen \in SUBSET DOMAIN found : made' = made \cup {MadeFrom(e) : e \in chosen}
    BY <1>5 DEF AddTicked
  <2>2. \A e \in AllTargets : MadeFrom(e) \in [row : AllTargets, dials : AllTargets]
    BY DEF MadeFrom, AllTargets
  <2>3. UNCHANGED <<found, proven>>
    BY <1>5 DEF AddTicked, phase2
  <2>4. QED
    BY <2>1, <2>2, <2>3 DEF RowsPlaced
<1>6. CASE UNCHANGED <<found, made, proven>>
  BY <1>6 DEF RowsPlaced
<1>7. QED
  BY <1>1, <1>2, <1>3, <1>4, <1>5, <1>6
  DEF CleanNext, ScanRuns, ProbesRun, WorkerBegins, WorkerFails, LeaveLoop, Joined,
      ValidatorMade, NoXray, ValidationBegins, ValidationEnds, ValidationFails, TakeResult,
      ProbeBegins, ProbeReturns, StopScan, phase2, page

LEMMA FlagsStep == ASSUME CleanNext, Flags, CleanInv PROVE Flags'
<1>1. halted' = halted \/ halted' = FALSE \/ halted' = (halted \/ stage # "created")
  BY DEF CleanNext, ScanRuns, ProbesRun, WorkerBegins, WorkerFails, LeaveLoop, Joined,
      ValidatorMade, NoXray, ValidationBegins, AttemptEnds, ValidationEnds, ValidationFails,
      TakeResult, ProbeBegins, ProbeReturns, ScanClick, StopScan, DeliverMail, TickRow, AddTicked
<1>2. cut' = cut \/ cut' = FALSE \/ cut' = (cut \/ stage = "validating")
  BY DEF CleanNext, ScanRuns, ProbesRun, WorkerBegins, WorkerFails, LeaveLoop, Joined,
      ValidatorMade, NoXray, ValidationBegins, AttemptEnds, ValidationEnds, ValidationFails,
      TakeResult, ProbeBegins, ProbeReturns, ScanClick, StopScan, DeliverMail, TickRow, AddTicked,
      phase2
<1>3. busy' = busy \/ busy' = TRUE \/ busy' = (busy /\ Head(mail).kind # "done")
  BY DEF CleanNext, ScanRuns, ProbesRun, WorkerBegins, WorkerFails, LeaveLoop, Joined,
      ValidatorMade, NoXray, ValidationBegins, AttemptEnds, ValidationEnds, ValidationFails,
      TakeResult, ProbeBegins, ProbeReturns, ScanClick, StopScan, DeliverMail, TickRow, AddTicked,
      page
<1>4. halted' \in BOOLEAN
  BY <1>1, Zenon DEF Flags
<1>5. cut' \in BOOLEAN
  BY <1>2, Zenon DEF Flags
<1>6. busy' \in BOOLEAN
  BY <1>3, Zenon DEF Flags
<1>7. QED
  BY <1>4, <1>5, <1>6, Zenon DEF Flags

\* The worker goes from stage to stage, a click makes one more scan.
LEMMA StageStep ==
  ASSUME CleanNext, stage \in Stages, scans \in 0..MaxScans
  PROVE  stage' \in Stages /\ scans' \in 0..MaxScans
<1>1. stage' = stage \/ stage' \in {"created", "probing", "joining", "between", "validating", "over"}
  BY DEF CleanNext, ScanRuns, ProbesRun, WorkerBegins, WorkerFails, LeaveLoop, Joined,
      ValidatorMade, NoXray, ValidationBegins, AttemptEnds, ValidationEnds, ValidationFails,
      TakeResult, ProbeBegins, ProbeReturns, ScanClick, StopScan, DeliverMail, TickRow, AddTicked
<1>2. scans' = scans \/ (scans < MaxScans /\ scans' = scans + 1)
  BY DEF CleanNext, ScanRuns, ProbesRun, WorkerBegins, WorkerFails, LeaveLoop, Joined,
      ValidatorMade, NoXray, ValidationBegins, AttemptEnds, ValidationEnds, ValidationFails,
      TakeResult, ProbeBegins, ProbeReturns, ScanClick, StopScan, DeliverMail, TickRow, AddTicked
<1>3. MaxScans \in Nat
  BY CleanIpAssumption
<1>4. scans' \in 0..MaxScans
  BY <1>2, <1>3
<1>5. QED
  BY <1>1, <1>4 DEF Stages

\* The types of the scan: no more probes than threads, rows and configurations of what
\* was probed or dialled, for any IPs, ports, threads and tries.
THEOREM ScanTypes == CleanSpec => []CleanTypeOK
<1>1. CleanInit => CleanTypes
  <2> SUFFICES ASSUME CleanInit PROVE CleanTypes
    OBVIOUS
  <2>1. Cardinality({}) = 0 /\ {ProbeThreads, MaxScans} \subseteq Nat
    BY FS_EmptySet, CleanIpAssumption
  <2>2. ProbesBounded /\ RowsPlaced /\ stage \in Stages /\ scans \in 0..MaxScans
    BY <2>1 DEF CleanInit, ProbesBounded, RowsPlaced, NoRow, Stages
  <2>3. Flags
    BY Zenon DEF CleanInit, Flags
  <2>4. QED
    BY <2>2, <2>3 DEF CleanTypes
<1>2. CleanInv /\ CleanTypes /\ [CleanNext]_cleanVars => CleanTypes'
  <2> SUFFICES ASSUME CleanInv, CleanTypes, [CleanNext]_cleanVars PROVE CleanTypes'
    OBVIOUS
  <2>1. CASE CleanNext
    BY <2>1, BoundedStep, PlacedStep, FlagsStep, StageStep DEF CleanTypes
  <2>2. CASE UNCHANGED cleanVars
    <3>1. UNCHANGED <<stage, scans, inflight, proven, found, made, halted, cut, busy>>
      BY <2>2 DEF cleanVars, phase1, phase2, page
    <3>2. ProbesBounded' /\ RowsPlaced' /\ stage' \in Stages /\ scans' \in 0..MaxScans
      BY <3>1 DEF CleanTypes, ProbesBounded, RowsPlaced
    <3>3. Flags'
      BY <3>1, Zenon DEF CleanTypes, Flags
    <3>4. QED
      BY <3>2, <3>3 DEF CleanTypes
  <2>3. QED
    BY <2>1, <2>2
<1>3. CleanInv /\ CleanTypes => CleanTypeOK
  <2> SUFFICES ASSUME CleanInv, CleanTypes PROVE CleanTypeOK
    OBVIOUS
  <2>1. {halted, cut, busy} \subseteq BOOLEAN
    BY Zenon DEF CleanTypes, Flags
  <2>2. QED
    BY <2>1 DEF CleanTypeOK, CleanInv, ScanType, MailInv, Letter, CleanTypes, ProbesBounded,
       RowsPlaced, Stages
<1>4. QED
  BY <1>1, <1>2, <1>3, CleanInvariant, PTL DEF CleanSpec
=============================================================================
