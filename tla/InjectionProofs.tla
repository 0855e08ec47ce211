--------------------------- MODULE InjectionProofs ---------------------------
(***************************************************************************)
(* Theorems about FakeInjection, for any number of connections, ports,     *)
(* addresses and permits and without a bound on repeated packets.  The     *)
(* lemma HookEffect boils the packet hook down to the three things it may  *)
(* do to what the other threads see; every later proof goes through it.    *)
(***************************************************************************)
EXTENDS FakeInjection, FiniteSetTheorems, SequenceTheorems, TLAPS

Kinds == {"syn", "ack", "synack", "dupack", "rst"}

\* A packet built by Pkt is a packet.
LEMMA PktType ==
  ASSUME NEW c \in Conns, NEW k \in Kinds
  PROVE  Pkt(c, k) \in Packets
  BY DEF Pkt, Packets, Kinds

\* What the peer answers is a set of packets.
LEMMA AnswerType ==
  ASSUME NEW c \in Conns, NEW k
  PROVE  Answer(c, k) \subseteq Packets
<1>1. ASSUME NEW r \in {"synack"} PROVE Pkt(c, r) \in Packets
  BY <1>1, PktType DEF Kinds
<1>2. ASSUME NEW r \in {"dupack"} PROVE Pkt(c, r) \in Packets
  BY <1>2, PktType DEF Kinds
<1>3. CASE k = "syn"
  BY <1>1, <1>3 DEF Answer
<1>4. CASE k = "decoy"
  BY <1>2, <1>4 DEF Answer
<1>5. CASE k # "syn" /\ k # "decoy"
  BY <1>5 DEF Answer
<1> QED BY <1>3, <1>4, <1>5

\* Closing a socket keeps the table of sockets well-formed.
LEMMA CloseSockType ==
  ASSUME TypeOK, NEW c \in Conns, CloseSock(c)
  PROVE  sock' \in [Conns -> {"none", "synsent", "up", "reset", "freed", "closed"}]
  BY DEF TypeOK, CloseSock

\* A packet handed to the system keeps sockets and queues well-formed.
LEMMA SystemGetsType ==
  ASSUME TypeOK, NEW p \in Packets, NEW left \in SUBSET Packets, SystemGets(p, left)
  PROVE  /\ sock' \in [Conns -> {"none", "synsent", "up", "reset", "freed", "closed"}]
         /\ inbound' \subseteq Packets /\ captured' \in Seq(Packets)
<1>1. p.conn \in Conns
  BY DEF Packets
<1>2. Pkt(p.conn, "ack") \in Packets
  BY <1>1, PktType DEF Kinds
<1>3. captured \in Seq(Packets)
  BY DEF TypeOK
<1>4. Append(captured, Pkt(p.conn, "ack")) \in Seq(Packets)
  BY <1>2, <1>3, AppendProperties
<1> QED BY <1>1, <1>4 DEF SystemGets, TypeOK

\* The connection that watches a packet is one whose monitor is on.
LEMMA WatcherType ==
  ASSUME TypeOK, NEW p \in Packets, WatcherOf(p) # None
  PROVE  WatcherOf(p) \in Conns /\ monitor[WatcherOf(p)]
<1>1. p.conn \in Conns
  BY DEF Packets
<1>2. Filtered(p.conn) /\ WatcherOf(p) = table[id[p.conn]] /\ monitor[WatcherOf(p)]
  BY DEF WatcherOf
<1>3. id[p.conn] # None
  BY <1>2 DEF Filtered
<1>4. id[p.conn] \in Ids
  BY <1>1, <1>3 DEF TypeOK
<1>5. table[id[p.conn]] \in Conns \cup {None}
  BY <1>4 DEF TypeOK
<1> QED BY <1>2, <1>5

\* What on_unexpected_packet, or a confirmation, does to connection c.
Judges(c, m) ==
  /\ monitor[c] /\ monitor' = [monitor EXCEPT ![c] = FALSE]
  /\ t2a_msg' = [t2a_msg EXCEPT ![c] = m]
  /\ t2a_event' = [t2a_event EXCEPT ![c] = TRUE]
  /\ m = "fake_data_ack_recv" => fake_sent[c]
  /\ UNCHANGED <<sch_fake_sent, faker>>

\* What the last ACK of the handshake does to connection c.
Schedules(c) ==
  /\ monitor[c] /\ ~sch_fake_sent[c]
  /\ sch_fake_sent' = [sch_fake_sent EXCEPT ![c] = TRUE]
  /\ faker' = [faker EXCEPT ![c] = "sleeping"]
  /\ UNCHANGED <<monitor, verdict>>

Hook == InjectOutbound \/ \E p \in inbound : InjectInbound(p)

\* The packet hook leaves _handle's state alone and does one of three things:
\* nothing a thread sees, schedule one decoy, or judge one watched connection.
LEMMA HookEffect ==
  ASSUME TypeOK, Hook
  PROVE  /\ UNCHANGED <<proxy, handler, id, table, fake_sent, leaked>>
         /\ \/ UNCHANGED <<monitor, verdict, sch_fake_sent, faker>>
            \/ \E c \in Conns : Schedules(c) \/ \E m \in {"unexpected_close", "fake_data_ack_recv"} : Judges(c, m)
<1>1. CASE InjectOutbound
  <2> DEFINE p == Head(captured)
             c == WatcherOf(p)
  <2>1. p \in Packets
    <3>1. captured # <<>> /\ captured \in Seq(Packets)
      BY <1>1 DEF InjectOutbound, TypeOK
    <3> QED BY <3>1, HeadTailProperties
  <2>2. UNCHANGED <<proxy, handler, id, table, fake_sent, leaked>>
    BY <1>1 DEF InjectOutbound
  <2>3. CASE c = None
    BY <1>1, <2>2, <2>3 DEF InjectOutbound, seqs, verdict
  <2>4. CASE c # None
    <3>1. c \in Conns /\ monitor[c]
      BY <2>1, <2>4, WatcherType
    <3>2. OnOutbound(c, p)
      BY <1>1, <2>4 DEF InjectOutbound
    <3> HIDE DEF p, c
    <3>3. CASE GoodSyn(c, p) /\ UNCHANGED <<monitor, verdict, syn_ack_seq, sch_fake_sent, faker, sock>>
      BY <2>2, <3>3
    <3>4. CASE GoodAck(c, p) /\ Schedules(c)
      BY <2>2, <3>1, <3>4
    <3>5. CASE Unexpected(c)
      <4>1. Judges(c, "unexpected_close")
        BY <3>1, <3>5 DEF Unexpected, Judges, seqs
      <4> QED BY <2>2, <3>1, <4>1
    <3> QED BY <3>1, <3>2, <3>3, <3>4, <3>5 DEF OnOutbound, Schedules, GoodAck
  <2> QED BY <2>3, <2>4
<1>2. ASSUME NEW p \in inbound, InjectInbound(p)
      PROVE  /\ UNCHANGED <<proxy, handler, id, table, fake_sent, leaked>>
             /\ \/ UNCHANGED <<monitor, verdict, sch_fake_sent, faker>>
                \/ \E c \in Conns : Schedules(c) \/ \E m \in {"unexpected_close", "fake_data_ack_recv"} : Judges(c, m)
  <2> DEFINE c == WatcherOf(p)
             left == IF resends' = resends THEN inbound \ {p} ELSE inbound
  <2>1. p \in Packets
    BY DEF TypeOK
  <2>2. UNCHANGED <<proxy, handler, id, table, fake_sent, leaked>>
    BY <1>2 DEF InjectInbound
  <2>3. CASE c = None
    BY <1>2, <2>2, <2>3 DEF InjectInbound, seqs, verdict
  <2>4. CASE c # None
    <3>1. c \in Conns /\ monitor[c]
      BY <2>1, <2>4, WatcherType
    <3>2. OnInbound(c, p, left)
      BY <1>2, <2>4 DEF InjectInbound
    <3> HIDE DEF c, left
    <3>3. CASE UNCHANGED <<monitor, verdict, syn_seq, sch_fake_sent, faker>>
      BY <2>2, <3>3
    <3>4. CASE GoodDupAck(c, p) /\ UNCHANGED <<seqs, faker, sock, captured>>
               /\ monitor' = [monitor EXCEPT ![c] = FALSE]
               /\ t2a_msg' = [t2a_msg EXCEPT ![c] = "fake_data_ack_recv"]
               /\ t2a_event' = [t2a_event EXCEPT ![c] = TRUE]
      <4>1. Judges(c, "fake_data_ack_recv")
        BY <3>1, <3>4 DEF GoodDupAck, Judges, seqs
      <4> QED BY <2>2, <3>1, <4>1
    <3>5. CASE Unexpected(c)
      <4>1. Judges(c, "unexpected_close")
        BY <3>1, <3>5 DEF Unexpected, Judges, seqs
      <4> QED BY <2>2, <3>1, <4>1
    <3> QED BY <3>2, <3>3, <3>4, <3>5 DEF OnInbound
  <2> QED BY <2>3, <2>4
<1> QED BY <1>1, <1>2 DEF Hook
-----------------------------------------------------------------------------
(***************************************************************************)
(* Type correctness.                                                       *)
(***************************************************************************)
\* Whatever the system sends, the queues stay well-formed.
LEMMA SystemSendsType ==
  ASSUME TypeOK, NEW c \in Conns, NEW k \in Kinds, SystemSends(c, k)
  PROVE  inbound' \subseteq Packets /\ captured' \in Seq(Packets)
<1>1. Append(captured, Pkt(c, k)) \in Seq(Packets)
  <2>1. captured \in Seq(Packets)
    BY DEF TypeOK
  <2> QED BY <2>1, PktType, AppendProperties
<1>2. inbound \cup Answer(c, k) \subseteq Packets
  BY AnswerType DEF TypeOK
<1> QED BY <1>1, <1>2 DEF SystemSends, TypeOK

\* The initial state is well-typed.
LEMMA TypeInit == Init => TypeOK
<1> SUFFICES ASSUME Init PROVE TypeOK
  OBVIOUS
<1>1. captured \in Seq(Packets) /\ inbound \subseteq Packets /\ leaked \subseteq Conns
  <2>1. captured = <<>> /\ inbound = {} /\ leaked = {}
    BY DEF Init
  <2>2. <<>> \in Seq(Packets)
    BY EmptySeq
  <2> QED BY <2>1, <2>2
<1>2. route \in Ips /\ running \in BOOLEAN /\ permits \in 0..Slots /\ resends \in Nat
  <2>1. route = FilterIp /\ running = TRUE /\ permits = Slots /\ resends = 0
    BY DEF Init
  <2>2. FilterIp \in Ips /\ Slots \in Nat
    BY InjectionAssumption
  <2> QED BY <2>1, <2>2
<1> QED BY <1>1, <1>2 DEF Init, TypeOK

\* The variables the hook's judgements reach stay well-typed.
LEMMA TypeVerdict ==
  ASSUME TypeOK, Hook
  PROVE  /\ monitor' \in [Conns -> BOOLEAN] /\ t2a_event' \in [Conns -> BOOLEAN]
         /\ sch_fake_sent' \in [Conns -> BOOLEAN]
         /\ t2a_msg' \in [Conns -> {"", "fake_data_ack_recv", "unexpected_close"}]
         /\ faker' \in [Conns -> {"none", "sleeping", "sending", "ended"}]
<1>1. CASE UNCHANGED <<monitor, verdict, sch_fake_sent, faker>>
  BY <1>1 DEF TypeOK, verdict
<1>2. CASE \E c \in Conns : Schedules(c)
  BY <1>2 DEF TypeOK, Schedules, verdict
<1>3. CASE \E c \in Conns : \E m \in {"unexpected_close", "fake_data_ack_recv"} : Judges(c, m)
  <2>1. PICK c \in Conns, m \in {"unexpected_close", "fake_data_ack_recv"} : Judges(c, m)
    BY <1>3
  <2>2. /\ monitor' = [monitor EXCEPT ![c] = FALSE]
        /\ t2a_event' = [t2a_event EXCEPT ![c] = TRUE]
        /\ t2a_msg' = [t2a_msg EXCEPT ![c] = m]
        /\ UNCHANGED <<sch_fake_sent, faker>>
    BY <2>1 DEF Judges
  <2> QED BY <2>2 DEF TypeOK
<1> QED BY <1>1, <1>2, <1>3, HookEffect

\* An outbound packet leaves sequence numbers, sockets and queues well-typed.
LEMMA TypeOutbound ==
  ASSUME TypeOK, InjectOutbound
  PROVE  /\ syn_seq' \in [Conns -> Conns \cup {None}]
         /\ syn_ack_seq' \in [Conns -> Conns \cup {None}]
         /\ sock' \in [Conns -> {"none", "synsent", "up", "reset", "freed", "closed"}]
         /\ captured' \in Seq(Packets) /\ inbound' \subseteq Packets /\ resends' \in Nat
<1> DEFINE p == Head(captured)
           c == WatcherOf(p)
<1>1. captured # <<>> /\ captured \in Seq(Packets)
  BY DEF InjectOutbound, TypeOK
<1>2. p \in Packets /\ Tail(captured) \in Seq(Packets)
  BY <1>1, HeadTailProperties
<1>3. p.conn \in Conns
  BY <1>2 DEF Packets
<1>4. captured' \in Seq(Packets) /\ inbound' \subseteq Packets /\ resends' \in Nat
  <2>1. inbound' = inbound \cup Answer(p.conn, p.kind)
    BY DEF InjectOutbound
  <2> QED BY <1>2, <1>3, <2>1, AnswerType DEF InjectOutbound, TypeOK
<1>5. CASE c = None
  BY <1>4, <1>5 DEF InjectOutbound, seqs, TypeOK
<1>6. CASE c # None
  <2>1. c \in Conns /\ OnOutbound(c, p)
    BY <1>2, <1>6, WatcherType DEF InjectOutbound
  <2> HIDE DEF p, c
  <2>2. syn_seq' \in [Conns -> Conns \cup {None}] /\ syn_ack_seq' \in [Conns -> Conns \cup {None}]
    BY <1>3, <2>1 DEF OnOutbound, Unexpected, seqs, TypeOK
  <2>3. CASE UNCHANGED sock
    BY <1>4, <2>2, <2>3 DEF TypeOK
  <2>4. CASE CloseSock(c)
    BY <1>4, <2>1, <2>2, <2>4, CloseSockType
  <2> QED BY <2>1, <2>3, <2>4 DEF OnOutbound
<1> QED BY <1>5, <1>6

\* So does an inbound one.
LEMMA TypeInbound ==
  ASSUME TypeOK, NEW p \in inbound, InjectInbound(p)
  PROVE  /\ syn_seq' \in [Conns -> Conns \cup {None}]
         /\ syn_ack_seq' \in [Conns -> Conns \cup {None}]
         /\ sock' \in [Conns -> {"none", "synsent", "up", "reset", "freed", "closed"}]
         /\ captured' \in Seq(Packets) /\ inbound' \subseteq Packets /\ resends' \in Nat
<1> DEFINE c == WatcherOf(p)
           left == IF resends' = resends THEN inbound \ {p} ELSE inbound
<1>1. p \in Packets /\ p.conn \in Conns
  BY DEF TypeOK, Packets
<1>2. resends' \in Nat
  <2>1. resends' = resends \/ resends' = resends + 1
    BY DEF InjectInbound
  <2>2. resends \in Nat
    BY DEF TypeOK
  <2>3. resends + 1 \in Nat
    BY <2>2
  <2> QED BY <2>1, <2>2, <2>3
<1>3. left \in SUBSET Packets
  BY DEF TypeOK
<1>4. CASE c = None
  <2>1. SystemGets(p, left) /\ UNCHANGED seqs
    BY <1>4 DEF InjectInbound
  <2> HIDE DEF left
  <2> QED BY <1>1, <1>2, <1>3, <2>1, SystemGetsType DEF seqs, TypeOK
<1>5. CASE c # None
  <2>1. c \in Conns /\ OnInbound(c, p, left)
    BY <1>1, <1>5, WatcherType DEF InjectInbound
  <2> HIDE DEF left, c
  <2>2. syn_seq' \in [Conns -> Conns \cup {None}] /\ syn_ack_seq' \in [Conns -> Conns \cup {None}]
    BY <1>1, <2>1 DEF OnInbound, Unexpected, seqs, TypeOK
  <2>3. CASE SystemGets(p, left)
    BY <1>1, <1>2, <1>3, <2>2, <2>3, SystemGetsType
  <2>4. CASE inbound' = left /\ UNCHANGED <<sock, captured>>
    BY <1>2, <1>3, <2>2, <2>4 DEF TypeOK
  <2>5. CASE inbound' = left /\ UNCHANGED captured /\ CloseSock(c)
    BY <1>2, <1>3, <2>1, <2>2, <2>5, CloseSockType DEF TypeOK
  <2> QED BY <2>1, <2>3, <2>4, <2>5 DEF OnInbound
<1> QED BY <1>4, <1>5

\* The hook preserves the type invariant.
LEMMA TypeHook ==
  ASSUME TypeOK, Hook
  PROVE  TypeOK'
<1>1. UNCHANGED <<proxy, handler, id, table, fake_sent, leaked>>
  BY HookEffect
<1>2. /\ syn_seq' \in [Conns -> Conns \cup {None}]
      /\ syn_ack_seq' \in [Conns -> Conns \cup {None}]
      /\ sock' \in [Conns -> {"none", "synsent", "up", "reset", "freed", "closed"}]
      /\ captured' \in Seq(Packets) /\ inbound' \subseteq Packets /\ resends' \in Nat
  BY TypeOutbound, TypeInbound DEF Hook
<1>3. /\ route' \in Ips /\ running' \in BOOLEAN /\ permits' \in 0..Slots
      /\ handler' \in [Conns -> {"new", "connecting", "waiting", "relay", "done"}]
      /\ id' \in [Conns -> Ids \cup {None}] /\ table' \in [Ids -> Conns \cup {None}]
      /\ fake_sent' \in [Conns -> BOOLEAN] /\ leaked' \subseteq Conns
  BY <1>1 DEF TypeOK, proxy
<1> QED BY <1>2, <1>3, TypeVerdict DEF TypeOK

\* A step of _handle, of the decoy thread, of the system or of the promoter.
Other ==
  \/ Shutdown \/ ApplyRoute
  \/ \E p \in inbound : Unseen(p)
  \/ \E c \in Conns : \/ Accept(c) \/ Handle(c) \/ RelayEnds(c) \/ CancelConnecting(c)
                      \/ FakerWakes(c) \/ FakerSends(c) \/ Resend(c) \/ Stray(c)

\* Every step is one of the hook's or one of the others'.
LEMMA NextSplit == Next <=> Hook \/ Other
  BY DEF Next, Hook, Other

\* Given room in the gate, every step but the hook's preserves the type invariant.
LEMMA TypeOther ==
  ASSUME TypeOK, Other, permits' \in 0..Slots
  PROVE  TypeOK'
<1>1. CASE Shutdown
  BY <1>1 DEF Shutdown, task, seqs, verdict, net, TypeOK
<1>2. CASE ApplyRoute
  BY <1>2 DEF ApplyRoute, task, seqs, verdict, net, TypeOK
<1>3. ASSUME NEW p \in inbound, Unseen(p) PROVE TypeOK'
  <2>1. p \in Packets /\ inbound \ {p} \in SUBSET Packets
    BY DEF TypeOK
  <2>2. SystemGets(p, inbound \ {p})
    BY <1>3 DEF Unseen
  <2>3. /\ sock' \in [Conns -> {"none", "synsent", "up", "reset", "freed", "closed"}]
        /\ inbound' \subseteq Packets /\ captured' \in Seq(Packets)
    BY <2>1, <2>2, SystemGetsType
  <2> QED BY <1>3, <2>3 DEF Unseen, proxy, seqs, verdict, TypeOK
<1>4. ASSUME NEW c \in Conns, Accept(c) PROVE TypeOK'
  <2>1. PICK port \in Ports :
          /\ id' = [id EXCEPT ![c] = <<port, route>>]
          /\ table' = [table EXCEPT ![<<port, route>>] = c]
          /\ IF route = FilterIp
             THEN captured' = Append(captured, Pkt(c, "syn")) /\ UNCHANGED inbound
             ELSE inbound' = inbound \cup Answer(c, "syn") /\ UNCHANGED captured
    BY <1>4 DEF Accept
  <2>2. <<port, route>> \in Ids
    BY DEF Ids, TypeOK
  <2>3. id' \in [Conns -> Ids \cup {None}] /\ table' \in [Ids -> Conns \cup {None}]
    BY <2>1, <2>2 DEF TypeOK
  <2>4. captured' \in Seq(Packets)
    <3>1. captured \in Seq(Packets)
      BY DEF TypeOK
    <3>2. Pkt(c, "syn") \in Packets
      BY PktType DEF Kinds
    <3>3. Append(captured, Pkt(c, "syn")) \in Seq(Packets)
      BY <3>1, <3>2, AppendProperties
    <3> QED BY <2>1, <3>1, <3>3
  <2>5. inbound' \subseteq Packets
    BY <2>1, AnswerType DEF TypeOK
  <2>6. /\ monitor' \in [Conns -> BOOLEAN]
        /\ handler' \in [Conns -> {"new", "connecting", "waiting", "relay", "done"}]
        /\ sock' \in [Conns -> {"none", "synsent", "up", "reset", "freed", "closed"}]
    BY <1>4 DEF Accept, TypeOK
  <2> QED BY <1>4, <2>3, <2>4, <2>5, <2>6 DEF Accept, seqs, verdict, TypeOK
<1>5. ASSUME NEW c \in Conns, Handle(c) PROVE TypeOK'
  <2>1. CASE Connected(c)
    BY <2>1 DEF Connected, proxy, seqs, verdict, net, TypeOK
  <2>2. CASE Confirmed(c)
    BY <2>2 DEF Confirmed, StopWatching, proxy, seqs, verdict, net, TypeOK
  <2>3. CASE ConnectFails(c) \/ GivesUp(c)
    <3>1. sock' \in [Conns -> {"none", "synsent", "up", "reset", "freed", "closed"}]
      BY <2>3, CloseSockType DEF ConnectFails, GivesUp, Leave
    <3> QED BY <2>3, <3>1 DEF ConnectFails, GivesUp, Leave, StopWatching, seqs, verdict, net, TypeOK
  <2> QED BY <1>5, <2>1, <2>2, <2>3 DEF Handle
<1>6. ASSUME NEW c \in Conns, RelayEnds(c) \/ CancelConnecting(c) PROVE TypeOK'
  <2>1. sock' \in [Conns -> {"none", "synsent", "up", "reset", "freed", "closed"}]
    BY <1>6, CloseSockType DEF RelayEnds, CancelConnecting, Leave
  <2> QED BY <1>6, <2>1 DEF RelayEnds, CancelConnecting, Leave, seqs, verdict, net, TypeOK
<1>7. ASSUME NEW c \in Conns, FakerWakes(c) PROVE TypeOK'
  <2>1. faker' \in [Conns -> {"none", "sleeping", "sending", "ended"}]
    <3>1. \E w \in {"sending", "ended"} : faker' = [faker EXCEPT ![c] = w]
      BY <1>7 DEF FakerWakes
    <3>2. faker \in [Conns -> {"none", "sleeping", "sending", "ended"}]
      BY DEF TypeOK
    <3> QED BY <3>1, <3>2
  <2> QED BY <1>7, <2>1 DEF FakerWakes, proxy, task, seqs, verdict, net, TypeOK
<1>8. ASSUME NEW c \in Conns, FakerSends(c) PROVE TypeOK'
  <2>1. inbound' \subseteq Packets
    BY <1>8, AnswerType DEF FakerSends, TypeOK
  <2> QED BY <1>8, <2>1 DEF FakerSends, proxy, task, seqs, verdict, TypeOK
<1>9. ASSUME NEW c \in Conns, Resend(c) PROVE TypeOK'
  <2>1. inbound' \subseteq Packets /\ captured' \in Seq(Packets)
    BY <1>9, SystemSendsType DEF Resend, Kinds
  <2>2. resends' \in Nat
    <3>1. resends' = resends + 1
      BY <1>9 DEF Resend
    <3>2. resends \in Nat
      BY DEF TypeOK
    <3>3. resends + 1 \in Nat
      BY <3>2
    <3> QED BY <3>1, <3>3
  <2> QED BY <1>9, <2>1, <2>2 DEF Resend, proxy, task, seqs, verdict, TypeOK
<1>10. ASSUME NEW c \in Conns, Stray(c) PROVE TypeOK'
  <2>1. PICK k \in {"rst", "dupack"} : inbound' = inbound \cup {Pkt(c, k)}
    BY <1>10 DEF Stray
  <2>2. Pkt(c, k) \in Packets
    BY PktType DEF Kinds
  <2>3. inbound' \subseteq Packets
    BY <2>1, <2>2 DEF TypeOK
  <2> QED BY <1>10, <2>3 DEF Stray, proxy, task, seqs, verdict, TypeOK
<1> QED BY <1>1, <1>2, <1>3, <1>4, <1>5, <1>6, <1>7, <1>8, <1>9, <1>10 DEF Other
-----------------------------------------------------------------------------
(***************************************************************************)
(* The gate's permits.                                                     *)
(***************************************************************************)
Holding == {c \in Conns : handler[c] \in {"connecting", "waiting", "relay"}}

\* A step takes one permit for one new handler, gives one back, or neither.
LEMMA HoldingStep ==
  ASSUME TypeOK, [Next]_vars
  PROVE  \/ UNCHANGED permits /\ Holding' = Holding
         \/ \E c \in Conns : /\ c \notin Holding /\ Holding' = Holding \cup {c}
                             /\ permits > 0 /\ permits' = permits - 1
         \/ \E c \in Conns : /\ c \in Holding /\ Holding' = Holding \ {c}
                             /\ permits' = permits + 1
<1>1. CASE UNCHANGED <<permits, handler>>
  BY <1>1 DEF Holding
<1>2. CASE UNCHANGED vars
  BY <1>1, <1>2 DEF vars, proxy, task
<1>3. CASE Hook
  BY <1>1, <1>3, HookEffect DEF proxy
<1>4. ASSUME NEW c \in Conns, Accept(c)
      PROVE  c \notin Holding /\ Holding' = Holding \cup {c} /\ permits > 0 /\ permits' = permits - 1
  <2>1. handler[c] = "new" /\ handler' = [handler EXCEPT ![c] = "connecting"]
    BY <1>4 DEF Accept
  <2>2. c \notin Holding /\ Holding' = Holding \cup {c}
    BY <2>1 DEF Holding, TypeOK
  <2> QED BY <1>4, <2>2 DEF Accept
<1>5. ASSUME NEW c \in Conns, Leave(c), handler[c] \in {"connecting", "waiting", "relay"}
      PROVE  c \in Holding /\ Holding' = Holding \ {c} /\ permits' = permits + 1
  <2>1. handler' = [handler EXCEPT ![c] = "done"]
    BY <1>5 DEF Leave
  <2>2. c \in Holding /\ Holding' = Holding \ {c}
    BY <1>5, <2>1 DEF Holding, TypeOK
  <2> QED BY <1>5, <2>2 DEF Leave
<1>6. ASSUME NEW c \in Conns, Connected(c) \/ Confirmed(c)
      PROVE  UNCHANGED permits /\ Holding' = Holding
  BY <1>6 DEF Connected, Confirmed, proxy, Holding, TypeOK
<1>7. ASSUME NEW c \in Conns, ConnectFails(c) \/ GivesUp(c) \/ RelayEnds(c) \/ CancelConnecting(c)
      PROVE  Leave(c) /\ handler[c] \in {"connecting", "waiting", "relay"}
  BY <1>7 DEF ConnectFails, GivesUp, RelayEnds, CancelConnecting
<1>8. CASE Shutdown \/ ApplyRoute
  BY <1>1, <1>8 DEF Shutdown, ApplyRoute, task
<1>9. ASSUME NEW p \in inbound, Unseen(p) PROVE UNCHANGED <<permits, handler>>
  BY <1>9 DEF Unseen, proxy
<1>10. ASSUME NEW c \in Conns, FakerWakes(c) \/ FakerSends(c) \/ Resend(c) \/ Stray(c)
       PROVE  UNCHANGED <<permits, handler>>
  BY <1>10 DEF FakerWakes, FakerSends, Resend, Stray, proxy, task
<1>11. CASE Other
  BY <1>1, <1>4, <1>5, <1>6, <1>7, <1>8, <1>9, <1>10, <1>11 DEF Other, Handle
<1> QED BY <1>2, <1>3, <1>11, NextSplit

\* No permit is lost, and none is made.
LEMMA PermitsNext ==
  ASSUME TypeOK, PermitsBalance, [Next]_vars
  PROVE  PermitsBalance' /\ permits' \in 0..Slots
<1>1. IsFiniteSet(Holding) /\ IsFiniteSet(Holding')
  <2>1. IsFiniteSet(Conns)
    BY InjectionAssumption
  <2>2. Holding \in SUBSET Conns /\ Holding' \in SUBSET Conns
    BY DEF Holding
  <2> QED BY <2>1, <2>2, FS_Subset
<1>2. /\ permits \in Nat /\ Slots \in Nat
      /\ Cardinality(Holding) \in Nat /\ Cardinality(Holding') \in Nat
  <2>1. Slots \in Nat
    BY InjectionAssumption
  <2>2. permits \in 0..Slots
    BY DEF TypeOK
  <2> QED BY <1>1, <2>1, <2>2, FS_CardinalityType
<1>3. permits + Cardinality(Holding) = Slots
  BY DEF PermitsBalance, Holding
<1>4. permits' + Cardinality(Holding') = Slots /\ permits' \in Nat
  <2>1. CASE UNCHANGED permits /\ Holding' = Holding
    BY <1>2, <1>3, <2>1
  <2>2. ASSUME NEW c \in Conns, c \notin Holding, Holding' = Holding \cup {c},
               permits > 0, permits' = permits - 1
        PROVE  <1>4!1 /\ <1>4!2
    <3>1. Cardinality(Holding') = Cardinality(Holding) + 1
      BY <1>1, <2>2, FS_AddElement
    <3> QED BY <1>2, <1>3, <2>2, <3>1
  <2>3. ASSUME NEW c \in Conns, c \in Holding, Holding' = Holding \ {c}, permits' = permits + 1
        PROVE  <1>4!1 /\ <1>4!2
    <3>1. Cardinality(Holding') = Cardinality(Holding) - 1
      BY <1>1, <2>3, FS_RemoveElement
    <3> QED BY <1>2, <1>3, <2>3, <3>1
  <2> QED BY <2>1, <2>2, <2>3, HoldingStep
<1>5. permits' \in 0..Slots
  BY <1>2, <1>4
<1> QED BY <1>4, <1>5 DEF PermitsBalance, Holding

\* With the permits in balance, every step preserves the type invariant.
LEMMA TypeNext ==
  ASSUME TypeOK, PermitsBalance, [Next]_vars
  PROVE  TypeOK'
<1>1. CASE UNCHANGED vars
  BY <1>1 DEF vars, proxy, task, seqs, verdict, net, TypeOK
<1> QED BY <1>1, PermitsNext, TypeHook, TypeOther, NextSplit

\* At the start all permits are free.
LEMMA PermitsInit == Init => PermitsBalance
<1> SUFFICES ASSUME Init PROVE PermitsBalance
  OBVIOUS
<1>1. {c \in Conns : handler[c] \in {"connecting", "waiting", "relay"}} = {}
  BY DEF Init
<1>2. permits = Slots /\ Slots \in Nat
  BY InjectionAssumption DEF Init
<1>3. Cardinality({c \in Conns : handler[c] \in {"connecting", "waiting", "relay"}}) = 0
  BY <1>1, FS_EmptySet
<1> QED BY <1>2, <1>3 DEF PermitsBalance

\* The state is well-typed and each of the gate's permits is free or held by one
\* live handler, whatever the handshake's outcome (main.py, _handle's finally).
THEOREM GateBalance == Spec => [](TypeOK /\ PermitsBalance)
<1>1. Init => TypeOK /\ PermitsBalance
  BY TypeInit, PermitsInit
<1>2. TypeOK /\ PermitsBalance /\ [Next]_vars => TypeOK' /\ PermitsBalance'
  BY TypeNext, PermitsNext
<1> QED BY <1>1, <1>2, PTL DEF Spec

\* Every variable of the listener, the hook and the decoy threads keeps its type.
THEOREM HookTypes == Spec => []TypeOK
<1>1. TypeOK /\ PermitsBalance => TypeOK
  OBVIOUS
<1> QED BY <1>1, GateBalance, PTL
-----------------------------------------------------------------------------
(***************************************************************************)
(* The handshake.  Binding says that the table has a connection at no      *)
(* place but its own, DecoyOrder in which order the flags that the three   *)
(* threads write come to be set.                                           *)
(***************************************************************************)
Binding ==
  /\ \A c \in Conns : handler[c] = "new" => id[c] = None
  /\ \A i \in Ids : table[i] # None => id[table[i]] = i

Ordered(c) ==
  /\ handler[c] = "new" => ~monitor[c] /\ faker[c] = "none" /\ t2a_msg[c] = ""
  /\ faker[c] # "none" => sch_fake_sent[c]
  /\ fake_sent[c] => faker[c] = "ended"
  /\ t2a_msg[c] = "fake_data_ack_recv" => fake_sent[c]
  /\ t2a_msg[c] # "" => ~monitor[c]
  /\ handler[c] = "relay" => fake_sent[c]

DecoyOrder == \A c \in Conns : Ordered(c)

IInv == TypeOK /\ PermitsBalance /\ Binding /\ DecoyOrder /\ NothingLeftRegistered

\* What the handlers, the hook and the decoy threads tell each other.
shared == <<handler, id, table, monitor, sch_fake_sent, fake_sent, t2a_msg, faker, leaked>>

\* A handler's own step, or its decoy thread's.
Moves(c) == \/ Accept(c) \/ Handle(c) \/ RelayEnds(c) \/ CancelConnecting(c)
            \/ FakerWakes(c) \/ FakerSends(c)

\* Every step changes nothing shared, is the hook's, or is one of Moves.
LEMMA StepKinds ==
  ASSUME [Next]_vars
  PROVE  UNCHANGED shared \/ Hook \/ \E c \in Conns : Moves(c)
<1>1. CASE UNCHANGED vars
  BY <1>1 DEF vars, task, seqs, verdict, shared
<1>2. CASE Shutdown \/ ApplyRoute
  BY <1>2 DEF Shutdown, ApplyRoute, task, seqs, verdict, shared
<1>3. CASE \E p \in inbound : Unseen(p)
  BY <1>3 DEF Unseen, seqs, verdict, shared
<1>4. CASE \E c \in Conns : Resend(c) \/ Stray(c)
  BY <1>4 DEF Resend, Stray, task, seqs, verdict, shared
<1> QED BY <1>1, <1>2, <1>3, <1>4, NextSplit DEF Other, Moves

\* A handler that stops watching is out of the table: it was nowhere but at its id.
LEMMA StopWatchingForgets ==
  ASSUME TypeOK, Binding, NEW c \in Conns, StopWatching(c)
  PROVE  /\ \A i \in Ids : table'[i] # c
         /\ \A i \in Ids : table'[i] = table[i] \/ table'[i] = None
         /\ monitor' = [monitor EXCEPT ![c] = FALSE] /\ ~monitor'[c]
<1>1. table' = [table EXCEPT ![id[c]] = None] /\ table \in [Ids -> Conns \cup {None}]
  BY DEF StopWatching, TypeOK
<1>2. c # None
  BY InjectionAssumption
<1>3. ASSUME NEW i \in Ids PROVE table'[i] # c /\ (table'[i] = table[i] \/ table'[i] = None)
  <2>1. CASE i = id[c]
    BY <1>1, <1>2, <2>1
  <2>2. CASE i # id[c]
    <3>1. table'[i] = table[i]
      BY <1>1, <2>2
    <3>2. table[i] # c
      BY <1>2, <2>2 DEF Binding
    <3> QED BY <3>1, <3>2
  <2> QED BY <2>1, <2>2
<1>4. monitor' = [monitor EXCEPT ![c] = FALSE] /\ ~monitor'[c]
  BY DEF StopWatching, TypeOK
<1> QED BY <1>3, <1>4

\* The table never names a connection at another's place.
LEMMA BindingNext ==
  ASSUME TypeOK, Binding, [Next]_vars
  PROVE  Binding'
<1>1. CASE UNCHANGED <<handler, id, table>>
  BY <1>1 DEF Binding
<1>2. CASE UNCHANGED shared \/ Hook
  BY <1>1, <1>2, HookEffect DEF shared
<1>3. ASSUME NEW c \in Conns, Accept(c) PROVE Binding'
  <2>1. PICK port \in Ports : /\ id' = [id EXCEPT ![c] = <<port, route>>]
                              /\ table' = [table EXCEPT ![<<port, route>>] = c]
    BY <1>3 DEF Accept
  <2>2. /\ handler[c] = "new" /\ handler' = [handler EXCEPT ![c] = "connecting"]
        /\ id[c] = None /\ None \notin Ids /\ None \notin Conns
    BY <1>3, InjectionAssumption DEF Accept, Binding
  <2> DEFINE j == <<port, route>>
  <2>3. j \in Ids
    BY DEF Ids, TypeOK
  <2> HIDE DEF j
  <2>4. ASSUME NEW d \in Conns, handler'[d] = "new" PROVE id'[d] = None
    <3>1. d # c /\ handler[d] = "new"
      BY <2>2, <2>4 DEF TypeOK
    <3> QED BY <2>1, <3>1 DEF Binding, TypeOK
  <2>5. ASSUME NEW i \in Ids, table'[i] # None PROVE id'[table'[i]] = i
    <3>1. CASE i = j
      BY <2>1, <3>1 DEF TypeOK, j
    <3>2. CASE i # j
      <4>1. table'[i] = table[i] /\ table[i] \in Conns /\ id[table[i]] = i
        BY <2>1, <2>5, <3>2 DEF TypeOK, Binding, j
      <4>2. table[i] # c
        BY <2>2, <4>1
      <4> QED BY <2>1, <4>1, <4>2 DEF TypeOK
    <3> QED BY <3>1, <3>2
  <2> QED BY <2>4, <2>5 DEF Binding
<1>4. ASSUME NEW c \in Conns, ConnectFails(c) \/ GivesUp(c) \/ Confirmed(c) PROVE Binding'
  <2>1. /\ UNCHANGED id /\ StopWatching(c)
        /\ handler' = [handler EXCEPT ![c] = "done"] \/ handler' = [handler EXCEPT ![c] = "relay"]
    BY <1>4 DEF ConnectFails, GivesUp, Confirmed, Leave
  <2>2. \A i \in Ids : table'[i] = table[i] \/ table'[i] = None
    BY <2>1, StopWatchingForgets
  <2> QED BY <2>1, <2>2 DEF Binding, TypeOK
<1>5. ASSUME NEW c \in Conns, Connected(c) \/ RelayEnds(c) \/ CancelConnecting(c) PROVE Binding'
  <2>1. /\ UNCHANGED <<id, table>>
        /\ handler' = [handler EXCEPT ![c] = "done"] \/ handler' = [handler EXCEPT ![c] = "waiting"]
    BY <1>5 DEF Connected, RelayEnds, CancelConnecting, Leave
  <2> QED BY <2>1 DEF Binding, TypeOK
<1>6. ASSUME NEW c \in Conns, FakerWakes(c) \/ FakerSends(c) PROVE Binding'
  BY <1>1, <1>6 DEF FakerWakes, FakerSends, task
<1> QED BY <1>2, <1>3, <1>4, <1>5, <1>6, StepKinds DEF Moves, Handle

\* The hook keeps the order: it schedules and judges only what it watches.
LEMMA DecoyHook ==
  ASSUME TypeOK, DecoyOrder, Hook
  PROVE  DecoyOrder'
<1>1. UNCHANGED <<handler, fake_sent>>
  BY HookEffect
<1>2. CASE UNCHANGED <<monitor, verdict, sch_fake_sent, faker>>
  BY <1>1, <1>2 DEF DecoyOrder, Ordered, verdict
<1>3. ASSUME NEW c \in Conns, Schedules(c) PROVE DecoyOrder'
  <2>1. monitor[c] /\ ~sch_fake_sent[c] /\ UNCHANGED <<monitor, t2a_msg>>
    BY <1>3 DEF Schedules, verdict
  <2>2. sch_fake_sent' = [sch_fake_sent EXCEPT ![c] = TRUE] /\ faker' = [faker EXCEPT ![c] = "sleeping"]
    BY <1>3 DEF Schedules
  <2>3. handler[c] # "new" /\ ~fake_sent[c]
    BY <2>1 DEF DecoyOrder, Ordered, TypeOK
  <2>4. ASSUME NEW d \in Conns PROVE Ordered(d)'
    <3>1. Ordered(d)
      BY DEF DecoyOrder
    <3>2. CASE d = c
      BY <1>1, <2>1, <2>2, <2>3, <3>1, <3>2 DEF Ordered, TypeOK
    <3>3. CASE d # c
      BY <1>1, <2>1, <2>2, <2>3, <3>1, <3>3 DEF Ordered, TypeOK
    <3> QED BY <3>2, <3>3
  <2> QED BY <2>4 DEF DecoyOrder
<1>4. ASSUME NEW c \in Conns, NEW m \in {"unexpected_close", "fake_data_ack_recv"}, Judges(c, m)
      PROVE  DecoyOrder'
  <2>1. monitor[c] /\ UNCHANGED <<sch_fake_sent, faker>> /\ (m = "fake_data_ack_recv" => fake_sent[c])
    BY <1>4 DEF Judges
  <2>2. monitor' = [monitor EXCEPT ![c] = FALSE] /\ t2a_msg' = [t2a_msg EXCEPT ![c] = m]
    BY <1>4 DEF Judges
  <2>3. handler[c] # "new"
    BY <2>1 DEF DecoyOrder, Ordered
  <2>4. ASSUME NEW d \in Conns PROVE Ordered(d)'
    <3>1. Ordered(d)
      BY DEF DecoyOrder
    <3>2. CASE d = c
      BY <1>1, <2>1, <2>2, <2>3, <3>1, <3>2 DEF Ordered, TypeOK
    <3>3. CASE d # c
      BY <1>1, <2>1, <2>2, <2>3, <3>1, <3>3 DEF Ordered, TypeOK
    <3> QED BY <3>2, <3>3
  <2> QED BY <2>4 DEF DecoyOrder
<1> QED BY <1>2, <1>3, <1>4, HookEffect

\* So does a step of a handler or of its decoy thread.
LEMMA DecoyMoves ==
  ASSUME TypeOK, DecoyOrder, NEW c \in Conns, Moves(c)
  PROVE  DecoyOrder'
<1>0. Ordered(c)
  BY DEF DecoyOrder
<1>1. CASE Accept(c)
  <2>1. /\ handler[c] = "new" /\ handler' = [handler EXCEPT ![c] = "connecting"]
        /\ monitor' = [monitor EXCEPT ![c] = TRUE]
        /\ UNCHANGED <<sch_fake_sent, fake_sent, t2a_msg, faker>>
    BY <1>1 DEF Accept, seqs, verdict
  <2>2. ASSUME NEW d \in Conns PROVE Ordered(d)'
    <3>1. Ordered(d)
      BY DEF DecoyOrder
    <3>2. CASE d = c
      BY <2>1, <3>1, <3>2 DEF Ordered, TypeOK
    <3>3. CASE d # c
      BY <2>1, <3>1, <3>3 DEF Ordered, TypeOK
    <3> QED BY <3>2, <3>3
  <2> QED BY <2>2 DEF DecoyOrder
<1>2. CASE Confirmed(c)
  <2>1. /\ handler' = [handler EXCEPT ![c] = "relay"] /\ t2a_msg[c] = "fake_data_ack_recv"
        /\ monitor' = [monitor EXCEPT ![c] = FALSE]
        /\ UNCHANGED <<sch_fake_sent, fake_sent, t2a_msg, faker>>
    BY <1>2 DEF Confirmed, StopWatching, seqs, verdict
  <2>2. ASSUME NEW d \in Conns PROVE Ordered(d)'
    <3>1. Ordered(d)
      BY DEF DecoyOrder
    <3>2. CASE d = c
      BY <2>1, <3>1, <3>2 DEF Ordered, TypeOK
    <3>3. CASE d # c
      BY <2>1, <3>1, <3>3 DEF Ordered, TypeOK
    <3> QED BY <3>2, <3>3
  <2> QED BY <2>2 DEF DecoyOrder
<1>3. CASE ConnectFails(c) \/ GivesUp(c)
  <2>1. /\ handler' = [handler EXCEPT ![c] = "done"]
        /\ monitor' = [monitor EXCEPT ![c] = FALSE]
        /\ UNCHANGED <<sch_fake_sent, fake_sent, t2a_msg, faker>>
    BY <1>3 DEF ConnectFails, GivesUp, Leave, StopWatching, seqs, verdict
  <2>2. ASSUME NEW d \in Conns PROVE Ordered(d)'
    <3>1. Ordered(d)
      BY DEF DecoyOrder
    <3>2. CASE d = c
      BY <2>1, <3>1, <3>2 DEF Ordered, TypeOK
    <3>3. CASE d # c
      BY <2>1, <3>1, <3>3 DEF Ordered, TypeOK
    <3> QED BY <3>2, <3>3
  <2> QED BY <2>2 DEF DecoyOrder
<1>4. CASE Connected(c) \/ RelayEnds(c) \/ CancelConnecting(c)
  <2>1. /\ \E h \in {"waiting", "done"} : handler' = [handler EXCEPT ![c] = h]
        /\ UNCHANGED <<monitor, sch_fake_sent, fake_sent, t2a_msg, faker>>
    BY <1>4 DEF Connected, RelayEnds, CancelConnecting, Leave, seqs, verdict
  <2>2. ASSUME NEW d \in Conns PROVE Ordered(d)'
    <3>1. Ordered(d)
      BY DEF DecoyOrder
    <3>2. CASE d = c
      BY <2>1, <3>1, <3>2 DEF Ordered, TypeOK
    <3>3. CASE d # c
      BY <2>1, <3>1, <3>3 DEF Ordered, TypeOK
    <3> QED BY <3>2, <3>3
  <2> QED BY <2>2 DEF DecoyOrder
<1>5. CASE FakerWakes(c)
  <2>1. /\ faker[c] = "sleeping" /\ \E w \in {"sending", "ended"} : faker' = [faker EXCEPT ![c] = w]
        /\ UNCHANGED <<handler, monitor, sch_fake_sent, fake_sent, t2a_msg>>
    BY <1>5 DEF FakerWakes, task, seqs, verdict
  <2>2. handler[c] # "new" /\ sch_fake_sent[c] /\ ~fake_sent[c]
    BY <1>0, <2>1 DEF Ordered, TypeOK
  <2>3. ASSUME NEW d \in Conns PROVE Ordered(d)'
    <3>1. Ordered(d)
      BY DEF DecoyOrder
    <3>2. CASE d = c
      BY <2>1, <2>2, <3>1, <3>2 DEF Ordered, TypeOK
    <3>3. CASE d # c
      BY <2>1, <2>2, <3>1, <3>3 DEF Ordered, TypeOK
    <3> QED BY <3>2, <3>3
  <2> QED BY <2>3 DEF DecoyOrder
<1>6. CASE FakerSends(c)
  <2>1. /\ faker[c] = "sending" /\ faker' = [faker EXCEPT ![c] = "ended"]
        /\ fake_sent' = [fake_sent EXCEPT ![c] = TRUE]
        /\ UNCHANGED <<handler, monitor, sch_fake_sent, t2a_msg>>
    BY <1>6 DEF FakerSends, task, seqs, verdict
  <2>2. handler[c] # "new" /\ sch_fake_sent[c]
    BY <1>0, <2>1 DEF Ordered, TypeOK
  <2>3. ASSUME NEW d \in Conns PROVE Ordered(d)'
    <3>1. Ordered(d)
      BY DEF DecoyOrder
    <3>2. CASE d = c
      BY <2>1, <2>2, <3>1, <3>2 DEF Ordered, TypeOK
    <3>3. CASE d # c
      BY <2>1, <2>2, <3>1, <3>3 DEF Ordered, TypeOK
    <3> QED BY <3>2, <3>3
  <2> QED BY <2>3 DEF DecoyOrder
<1> QED BY <1>1, <1>2, <1>3, <1>4, <1>5, <1>6 DEF Moves, Handle

\* A connection whose handshake is over stays out of the hook's sight.
LEMMA RegisteredNext ==
  ASSUME TypeOK, Binding, NothingLeftRegistered, [Next]_vars
  PROVE  NothingLeftRegistered'
<1>1. CASE UNCHANGED shared
  BY <1>1 DEF NothingLeftRegistered, shared
<1>2. CASE Hook
  <2>1. UNCHANGED <<handler, table, leaked>>
    BY <1>2, HookEffect
  <2>2. CASE UNCHANGED monitor
    BY <2>1, <2>2 DEF NothingLeftRegistered
  <2>3. ASSUME NEW c \in Conns, monitor' = [monitor EXCEPT ![c] = FALSE]
        PROVE  NothingLeftRegistered'
    BY <2>1, <2>3 DEF NothingLeftRegistered, TypeOK
  <2> QED BY <1>2, <2>2, <2>3, HookEffect DEF Schedules, Judges
<1>3. ASSUME NEW c \in Conns, Accept(c) PROVE NothingLeftRegistered'
  <2>1. PICK port \in Ports : table' = [table EXCEPT ![<<port, route>>] = c]
    BY <1>3 DEF Accept
  <2>2. /\ handler' = [handler EXCEPT ![c] = "connecting"]
        /\ monitor' = [monitor EXCEPT ![c] = TRUE] /\ UNCHANGED leaked
    BY <1>3 DEF Accept
  <2>3. ASSUME NEW d \in Conns \ leaked', handler'[d] \in {"relay", "done"}
        PROVE  ~monitor'[d] /\ \A i \in Ids : table'[i] # d
    <3>1. d # c /\ handler[d] \in {"relay", "done"} /\ d \notin leaked
      BY <2>2, <2>3 DEF TypeOK
    <3>2. ~monitor[d] /\ \A i \in Ids : table[i] # d
      BY <3>1 DEF NothingLeftRegistered
    <3> QED BY <2>1, <2>2, <3>1, <3>2 DEF TypeOK
  <2> QED BY <2>3 DEF NothingLeftRegistered
<1>4. ASSUME NEW c \in Conns, ConnectFails(c) \/ GivesUp(c) \/ Confirmed(c)
      PROVE  NothingLeftRegistered'
  <2>1. /\ StopWatching(c) /\ UNCHANGED leaked
        /\ \E h \in {"relay", "done"} : handler' = [handler EXCEPT ![c] = h]
    BY <1>4 DEF ConnectFails, GivesUp, Confirmed, Leave
  <2>2. /\ \A i \in Ids : table'[i] # c
        /\ \A i \in Ids : table'[i] = table[i] \/ table'[i] = None
        /\ monitor' = [monitor EXCEPT ![c] = FALSE] /\ ~monitor'[c]
    BY <2>1, StopWatchingForgets
  <2>3. ASSUME NEW d \in Conns \ leaked', handler'[d] \in {"relay", "done"}, d # c
        PROVE  ~monitor'[d] /\ \A i \in Ids : table'[i] # d
    <3>1. ~monitor[d] /\ \A i \in Ids : table[i] # d
      BY <2>1, <2>3 DEF NothingLeftRegistered, TypeOK
    <3>2. d # None
      BY InjectionAssumption
    <3> QED BY <2>2, <2>3, <3>1, <3>2 DEF TypeOK
  <2> QED BY <2>2, <2>3 DEF NothingLeftRegistered
<1>5. ASSUME NEW c \in Conns, RelayEnds(c) \/ Connected(c) PROVE NothingLeftRegistered'
  <2>1. /\ UNCHANGED <<table, monitor, leaked>>
        /\ \/ handler[c] = "relay" /\ handler' = [handler EXCEPT ![c] = "done"]
           \/ handler' = [handler EXCEPT ![c] = "waiting"]
    BY <1>5 DEF RelayEnds, Connected, Leave
  <2> QED BY <2>1 DEF NothingLeftRegistered, TypeOK
<1>6. ASSUME NEW c \in Conns, CancelConnecting(c) PROVE NothingLeftRegistered'
  <2>1. /\ UNCHANGED <<table, monitor>> /\ leaked' = leaked \cup {c}
        /\ handler' = [handler EXCEPT ![c] = "done"]
    BY <1>6 DEF CancelConnecting, Leave
  <2> QED BY <2>1 DEF NothingLeftRegistered, TypeOK
<1>7. ASSUME NEW c \in Conns, FakerWakes(c) \/ FakerSends(c) PROVE NothingLeftRegistered'
  BY <1>7 DEF FakerWakes, FakerSends, task, NothingLeftRegistered
<1> QED BY <1>1, <1>2, <1>3, <1>4, <1>5, <1>6, <1>7, StepKinds DEF Moves, Handle

\* The inductive invariant holds at the start ...
LEMMA IInvInit == Init => IInv
<1> SUFFICES ASSUME Init PROVE IInv
  OBVIOUS
<1>1. TypeOK /\ PermitsBalance
  BY TypeInit, PermitsInit
<1>2. Binding
  BY DEF Init, Binding
<1>3. DecoyOrder
  BY DEF Init, DecoyOrder, Ordered
<1>4. NothingLeftRegistered
  BY DEF Init, NothingLeftRegistered
<1> QED BY <1>1, <1>2, <1>3, <1>4 DEF IInv

\* ... and every step preserves it.
LEMMA IInvNext == IInv /\ [Next]_vars => IInv'
<1> SUFFICES ASSUME IInv, [Next]_vars PROVE IInv'
  OBVIOUS
<1>1. TypeOK' /\ PermitsBalance'
  BY TypeNext, PermitsNext DEF IInv
<1>2. Binding' /\ NothingLeftRegistered'
  BY BindingNext, RegisteredNext DEF IInv
<1>3. DecoyOrder'
  <2>1. CASE UNCHANGED shared
    BY <2>1 DEF IInv, DecoyOrder, Ordered, shared
  <2> QED BY <2>1, StepKinds, DecoyHook, DecoyMoves DEF IInv
<1> QED BY <1>1, <1>2, <1>3 DEF IInv

\* However a handshake ends (refused, timed out, judged, confirmed), the hook has
\* forgotten the connection: main.py's two pop() calls and monitor = False.
THEOREM Forgotten == Spec => []NothingLeftRegistered
<1>1. IInv => NothingLeftRegistered
  BY DEF IInv
<1> QED BY <1>1, IInvInit, IInvNext, PTL DEF Spec

\* fake_send_thread never sends a second decoy into a connection: sch_fake_sent
\* outlives every repetition of the handshake's last ACK.
THEOREM OneDecoy == Spec => NoSecondDecoy
<1>1. IInv /\ [Next]_vars => [\A c \in Conns : fake_sent[c] => faker'[c] # "sending"]_vars
  <2> SUFFICES ASSUME IInv, [Next]_vars, NEW c \in Conns, fake_sent[c]
               PROVE  faker'[c] # "sending"
    OBVIOUS
  <2>1. faker[c] = "ended" /\ sch_fake_sent[c]
    BY DEF IInv, DecoyOrder, Ordered, TypeOK
  <2>2. CASE UNCHANGED shared
    BY <2>1, <2>2 DEF shared
  <2>3. CASE Hook
    <3>1. ASSUME NEW d \in Conns, Schedules(d) PROVE faker'[c] # "sending"
      BY <2>1, <3>1 DEF Schedules, IInv, TypeOK
    <3> QED BY <2>1, <2>3, <3>1, HookEffect DEF IInv, Judges
  <2>4. ASSUME NEW d \in Conns, Moves(d) PROVE faker'[c] # "sending"
    <3>1. UNCHANGED faker \/ FakerWakes(d) \/ FakerSends(d)
      BY <2>4 DEF Moves, Handle, Accept, Connected, ConnectFails, Confirmed, GivesUp,
                  RelayEnds, CancelConnecting
    <3>2. faker \in [Conns -> {"none", "sleeping", "sending", "ended"}]
      BY DEF IInv, TypeOK
    <3>3. CASE FakerWakes(d)
      <4>1. faker[d] = "sleeping" /\ \E w \in {"sending", "ended"} : faker' = [faker EXCEPT ![d] = w]
        BY <3>3 DEF FakerWakes
      <4> QED BY <2>1, <3>2, <4>1
    <3>4. CASE FakerSends(d)
      BY <2>1, <3>2, <3>4 DEF FakerSends
    <3> QED BY <2>1, <3>1, <3>3, <3>4
  <2> QED BY <2>2, <2>3, <2>4, StepKinds
<1> QED BY <1>1, IInvInit, IInvNext, PTL DEF Spec, NoSecondDecoy

\* Once the hook has told _handle its verdict (t2a_msg), no packet changes it, so
\* that reading it without thread_lock is safe: a verdict ends the watch.
THEOREM OneVerdict == Spec => VerdictFinal
<1>1. IInv /\ [Next]_vars => [\A c \in Conns : t2a_msg[c] # "" => t2a_msg'[c] = t2a_msg[c]]_vars
  <2> SUFFICES ASSUME IInv, [Next]_vars, NEW c \in Conns, t2a_msg[c] # ""
               PROVE  t2a_msg'[c] = t2a_msg[c]
    OBVIOUS
  <2>1. ~monitor[c]
    BY DEF IInv, DecoyOrder, Ordered
  <2>2. CASE UNCHANGED t2a_msg
    BY <2>2
  <2>3. CASE Hook
    <3>1. ASSUME NEW d \in Conns, NEW m \in {"unexpected_close", "fake_data_ack_recv"}, Judges(d, m)
          PROVE  t2a_msg'[c] = t2a_msg[c]
      BY <2>1, <3>1 DEF Judges, IInv, TypeOK
    <3>2. ASSUME NEW d \in Conns, Schedules(d) PROVE UNCHANGED t2a_msg
      BY <3>2 DEF Schedules, verdict
    <3> QED BY <2>2, <2>3, <3>1, <3>2, HookEffect DEF IInv, verdict
  <2>4. ASSUME NEW d \in Conns, Moves(d) PROVE UNCHANGED t2a_msg
    BY <2>4 DEF Moves, Handle, Accept, Connected, ConnectFails, Confirmed, GivesUp,
                RelayEnds, CancelConnecting, FakerWakes, FakerSends, verdict
  <2> QED BY <2>2, <2>3, <2>4, StepKinds DEF shared
<1> QED BY <1>1, IInvInit, IInvNext, PTL DEF Spec, VerdictFinal
-----------------------------------------------------------------------------
(***************************************************************************)
(* The handshake implements DecoyGate.                                     *)
(***************************************************************************)
phaseBar == [c \in Conns |-> Phase(handler[c])]
decoyBar == {c \in Conns : fake_sent[c]}

\* One handler moves from one place to another: its abstract phase follows.
LEMMA PhaseStep ==
  ASSUME TypeOK, NEW c \in Conns, NEW h, handler' = [handler EXCEPT ![c] = h]
  PROVE  phaseBar' = [phaseBar EXCEPT ![c] = Phase(h)]
<1>1. ASSUME NEW d \in Conns PROVE phaseBar'[d] = IF d = c THEN Phase(h) ELSE phaseBar[d]
  <2>1. phaseBar'[d] = Phase(handler'[d]) /\ phaseBar[d] = Phase(handler[d])
    BY DEF phaseBar
  <2>2. handler'[d] = IF d = c THEN h ELSE handler[d]
    BY DEF TypeOK
  <2> QED BY <2>1, <2>2
<1> QED BY <1>1 DEF phaseBar

\* The abstract phase of each place in _handle.
LEMMA PhaseOf ==
  /\ Phase("new") = "new" /\ Phase("connecting") = "trying" /\ Phase("waiting") = "trying"
  /\ Phase("relay") = "open" /\ Phase("done") = "shut"
  BY DEF Phase

\* Every step of the handshake is a step of the gate, or invisible there.
LEMMA GateStep == IInv /\ [Next]_vars => [Gate!Next]_<<phaseBar, decoyBar>>
<1> SUFFICES ASSUME IInv, [Next]_vars PROVE Gate!Next \/ UNCHANGED <<phaseBar, decoyBar>>
  OBVIOUS
<1> USE DEF Gate!Next
<1>0. TypeOK /\ DecoyOrder
  BY DEF IInv
<1>1. CASE UNCHANGED <<handler, fake_sent>>
  BY <1>1 DEF phaseBar, decoyBar
<1>2. CASE UNCHANGED shared \/ Hook
  BY <1>0, <1>1, <1>2, HookEffect DEF shared
<1>3. ASSUME NEW c \in Conns, Moves(c) PROVE Gate!Next \/ UNCHANGED <<phaseBar, decoyBar>>
  <2>0. phaseBar[c] = Phase(handler[c])
    BY DEF phaseBar
  <2>1. CASE Accept(c)
    <3>1. handler[c] = "new" /\ handler' = [handler EXCEPT ![c] = "connecting"] /\ UNCHANGED fake_sent
      BY <2>1 DEF Accept
    <3>2. phaseBar' = [phaseBar EXCEPT ![c] = "trying"] /\ UNCHANGED decoyBar
      BY <1>0, <3>1, PhaseStep, PhaseOf DEF decoyBar
    <3>3. Gate!Try(c)
      BY <2>0, <3>1, <3>2, PhaseOf DEF Gate!Try, phaseBar, decoyBar
    <3> QED BY <3>3
  <2>2. CASE Confirmed(c)
    <3>1. /\ handler[c] = "waiting" /\ handler' = [handler EXCEPT ![c] = "relay"]
          /\ t2a_msg[c] = "fake_data_ack_recv" /\ UNCHANGED fake_sent
      BY <2>2 DEF Confirmed
    <3>2. phaseBar' = [phaseBar EXCEPT ![c] = "open"] /\ UNCHANGED decoyBar
      BY <1>0, <3>1, PhaseStep, PhaseOf DEF decoyBar
    <3>3. c \in decoyBar
      BY <1>0, <3>1 DEF DecoyOrder, Ordered, decoyBar
    <3>4. Gate!Open(c)
      BY <2>0, <3>1, <3>2, <3>3, PhaseOf DEF Gate!Open, phaseBar, decoyBar
    <3> QED BY <3>4
  <2>3. CASE ConnectFails(c) \/ GivesUp(c) \/ RelayEnds(c) \/ CancelConnecting(c)
    <3>1. /\ handler[c] \in {"connecting", "waiting", "relay"}
          /\ handler' = [handler EXCEPT ![c] = "done"] /\ UNCHANGED fake_sent
      BY <2>3 DEF ConnectFails, GivesUp, RelayEnds, CancelConnecting, Leave
    <3>2. phaseBar' = [phaseBar EXCEPT ![c] = "shut"] /\ UNCHANGED decoyBar
      BY <1>0, <3>1, PhaseStep, PhaseOf DEF decoyBar
    <3>3. Gate!Shut(c)
      BY <2>0, <3>1, <3>2, PhaseOf DEF Gate!Shut, phaseBar, decoyBar
    <3> QED BY <3>3
  <2>4. CASE Connected(c)
    <3>1. handler[c] = "connecting" /\ handler' = [handler EXCEPT ![c] = "waiting"] /\ UNCHANGED fake_sent
      BY <2>4 DEF Connected
    <3>2. phaseBar' = [phaseBar EXCEPT ![c] = "trying"] /\ UNCHANGED decoyBar
      <4>1. phaseBar' = [phaseBar EXCEPT ![c] = Phase("waiting")]
        BY <1>0, <3>1, PhaseStep
      <4>2. UNCHANGED decoyBar
        BY <3>1 DEF decoyBar
      <4> QED BY <4>1, <4>2, PhaseOf
    <3>3. phaseBar[c] = "trying"
      BY <2>0, <3>1, PhaseOf
    <3>4. phaseBar' = phaseBar
      BY <3>2, <3>3 DEF phaseBar
    <3> QED BY <3>2, <3>4
  <2>5. CASE FakerWakes(c)
    BY <1>1, <2>5 DEF FakerWakes, task
  <2>6. CASE FakerSends(c)
    <3>1. /\ faker[c] = "sending" /\ fake_sent' = [fake_sent EXCEPT ![c] = TRUE] /\ UNCHANGED handler
      BY <2>6 DEF FakerSends, task
    <3>2. handler[c] \notin {"new", "relay"} /\ ~fake_sent[c]
      BY <1>0, <3>1 DEF DecoyOrder, Ordered, TypeOK
    <3>3. phaseBar[c] \in {"trying", "shut"}
      <4>1. handler[c] \in {"connecting", "waiting", "done"}
        BY <1>0, <3>2 DEF TypeOK
      <4> QED BY <2>0, <4>1, PhaseOf
    <3>4. decoyBar' = decoyBar \cup {c} /\ c \notin decoyBar /\ UNCHANGED phaseBar
      BY <1>0, <3>1, <3>2 DEF decoyBar, phaseBar, TypeOK
    <3>5. Gate!Inject(c)
      BY <3>3, <3>4 DEF Gate!Inject, phaseBar, decoyBar
    <3> QED BY <3>5
  <2> QED BY <1>3, <2>1, <2>2, <2>3, <2>4, <2>5, <2>6 DEF Moves, Handle
<1> QED BY <1>2, <1>3, StepKinds

\* At most one decoy is injected into a connection, and none of the client's bytes
\* is relayed before it: _handle, the packet hook and fake_send_thread together
\* implement DecoyGate.
THEOREM Implements == Spec => KeepsPromise
<1>1. Init => Gate!Init
  <2> SUFFICES ASSUME Init PROVE Gate!Init
    OBVIOUS
  <2>1. handler = [c \in Conns |-> "new"] /\ fake_sent = [c \in Conns |-> FALSE]
    BY DEF Init
  <2>2. \A c \in Conns : Phase(handler[c]) = "new"
    BY <2>1, PhaseOf
  <2>3. [c \in Conns |-> Phase(handler[c])] = [c \in Conns |-> "new"]
    BY <2>2
  <2>4. {c \in Conns : fake_sent[c]} = {}
    BY <2>1
  <2> QED BY <2>3, <2>4 DEF Gate!Init
<1>2. IInv /\ [Next]_vars => [Gate!Next]_<<[c \in Conns |-> Phase(handler[c])], {c \in Conns : fake_sent[c]}>>
  BY GateStep DEF phaseBar, decoyBar
<1> QED BY <1>1, <1>2, IInvInit, IInvNext, PTL DEF Spec, KeepsPromise, Gate!Spec
=============================================================================
