---------------------------- MODULE FakeInjection ----------------------------
(***************************************************************************)
(* The decoy handshake of the spoofer: main.py's _handle (one asyncio task *)
(* per client connection), fake_tcp.py's packet hook (the WinDivert thread *)
(* that sees every packet of the filtered peer) and the short-lived thread *)
(* that injects the decoy.  They share the FakeInjectiveConnection object  *)
(* and the _fake_connections table; the hook and the decoy thread hold the *)
(* connection's thread_lock, _handle does not.                             *)
(*                                                                         *)
(* The operating system's TCP, the network and the peer are external:      *)
(* packets may be lost, repeated and reordered on the way in, and a forged *)
(* reset or a stray ACK may come at any time.  A packet is [conn, kind]:   *)
(* conn is the connection whose sequence numbers it carries, so that "the  *)
(* numbers match" is an equality of connections.  Every registered         *)
(* strategy waits for the peer's ACK (strategies/__init__.py), so          *)
(* _handle's fire-and-forget branch is out of reach and left out.          *)
(***************************************************************************)
EXTENDS Naturals, Sequences, FiniteSets

CONSTANTS
  Conns,       \* client connections, each accepted once
  Ports,       \* local ports the system hands out
  Ips,         \* addresses the route may point at
  FilterIp,    \* the address WinDivert's filter was built for
  None,        \* Python's None, or a sequence number of -1
  AutoSwap,    \* POOL_AUTO_SWAP: the promoter may call apply_route
  Slots,       \* permits of _conn_gate (64 in the code)
  MaxResends   \* bound: retransmitted or repeated packets in a behaviour

\* The ends of a connection that vary: local port, remote address.
Ids == Ports \X Ips

ASSUME InjectionAssumption ==
  /\ IsFiniteSet(Conns) /\ None \notin Conns \cup Ids /\ FilterIp \in Ips
  /\ AutoSwap \in BOOLEAN /\ Slots \in Nat \ {0} /\ MaxResends \in Nat

Packets == [conn : Conns, kind : {"syn", "ack", "synack", "dupack", "rst"}]

VARIABLES
  route,        \* ProxyServer.connect_ip
  running,      \* the accept loop runs
  permits,      \* free permits of _conn_gate
  handler,      \* where _handle is: in sock_connect or the jitter after it, ...
  sock,         \* the system's view of outgoing_sock
  id,           \* FakeInjectiveConnection.id, without the constant ends
  table,        \* _fake_connections
  monitor,      \* connection.monitor
  syn_seq,      \* whose SYN the hook has seen
  syn_ack_seq,  \* whose SYN-ACK
  sch_fake_sent, fake_sent,
  t2a_msg, t2a_event,
  faker,        \* the decoy thread
  captured,     \* outbound packets waiting for WinDivert's recv, in order
  inbound,      \* packets on their way from the peer
  resends,      \* repeated packets so far (for MaxResends)
  leaked        \* history: connections cancelled while connecting

proxy == <<route, running, permits>>
task == <<handler, sock, id, table>>
seqs == <<syn_seq, syn_ack_seq, sch_fake_sent>>
verdict == <<t2a_msg, t2a_event>>
net == <<captured, inbound, resends>>
vars == <<proxy, task, monitor, seqs, fake_sent, verdict, faker, net, leaked>>

TypeOK ==
  /\ route \in Ips /\ running \in BOOLEAN /\ permits \in 0..Slots
  /\ handler \in [Conns -> {"new", "connecting", "waiting", "relay", "done"}]
  /\ sock \in [Conns -> {"none", "synsent", "up", "reset", "freed", "closed"}]
  /\ id \in [Conns -> Ids \cup {None}]
  /\ table \in [Ids -> Conns \cup {None}]
  /\ monitor \in [Conns -> BOOLEAN]
  /\ syn_seq \in [Conns -> Conns \cup {None}] /\ syn_ack_seq \in [Conns -> Conns \cup {None}]
  /\ sch_fake_sent \in [Conns -> BOOLEAN] /\ fake_sent \in [Conns -> BOOLEAN]
  /\ t2a_msg \in [Conns -> {"", "fake_data_ack_recv", "unexpected_close"}]
  /\ t2a_event \in [Conns -> BOOLEAN]
  /\ faker \in [Conns -> {"none", "sleeping", "sending", "ended"}]
  /\ captured \in Seq(Packets) /\ inbound \subseteq Packets /\ resends \in Nat
  /\ leaked \subseteq Conns

Init ==
  /\ route = FilterIp /\ running = TRUE /\ permits = Slots
  /\ handler = [c \in Conns |-> "new"] /\ sock = [c \in Conns |-> "none"]
  /\ id = [c \in Conns |-> None] /\ table = [i \in Ids |-> None]
  /\ monitor = [c \in Conns |-> FALSE]
  /\ syn_seq = [c \in Conns |-> None] /\ syn_ack_seq = [c \in Conns |-> None]
  /\ sch_fake_sent = [c \in Conns |-> FALSE] /\ fake_sent = [c \in Conns |-> FALSE]
  /\ t2a_msg = [c \in Conns |-> ""] /\ t2a_event = [c \in Conns |-> FALSE]
  /\ faker = [c \in Conns |-> "none"]
  /\ captured = <<>> /\ inbound = {} /\ resends = 0
  /\ leaked = {}
-----------------------------------------------------------------------------
(***************************************************************************)
(* The world outside: peer, network and the system's TCP.                  *)
(***************************************************************************)
Pkt(c, k) == [conn |-> c, kind |-> k]

\* Whether WinDivert's filter catches the packets of c's route.
Filtered(c) == id[c] # None /\ id[c][2] = FilterIp

\* A packet leaves for the peer, which answers.  A packet or an answer that is
\* lost is one that stays on the network for ever.
Answer(c, k) == {Pkt(c, r) : r \in CASE k = "syn" -> {"synack"}
                                     [] k = "decoy" -> {"dupack"}
                                     [] OTHER -> {}}

\* Closing a socket: one that was established leaves its port in TIME_WAIT.
CloseSock(c) ==
  sock' = [sock EXCEPT ![c] = IF @ \in {"synsent", "reset", "freed"} THEN "freed" ELSE "closed"]

\* A port is handed out again once no live or TIME_WAIT socket has it.
Reusable(i) == \A d \in Conns : id[d] = i => sock[d] = "freed"

\* The system sends a packet of c: the hook captures it, or it goes straight out.
SystemSends(c, k) ==
  IF Filtered(c) THEN captured' = Append(captured, Pkt(c, k)) /\ UNCHANGED inbound
                 ELSE inbound' = inbound \cup Answer(c, k) /\ UNCHANGED captured

\* The system receives packet p; p stays on the network when it comes again.
SystemGets(p, left) ==
  LET c == p.conn IN
  \/ /\ p.kind = "synack" /\ sock[c] \in {"synsent", "up"}
     /\ sock' = [sock EXCEPT ![c] = "up"]
     /\ inbound' = left
     /\ captured' = IF Filtered(c) THEN Append(captured, Pkt(c, "ack")) ELSE captured
  \/ /\ p.kind = "rst" /\ sock[c] \in {"synsent", "up"}
     /\ sock' = [sock EXCEPT ![c] = "reset"]
     /\ inbound' = left /\ UNCHANGED captured
  \/ /\ ~(p.kind \in {"synack", "rst"} /\ sock[c] \in {"synsent", "up"})
     /\ inbound' = left /\ UNCHANGED <<sock, captured>>

\* SYN retransmission.
Resend(c) ==
  /\ sock[c] = "synsent" /\ resends < MaxResends
  /\ SystemSends(c, "syn")
  /\ resends' = resends + 1
  /\ UNCHANGED <<proxy, task, monitor, seqs, fake_sent, verdict, faker, leaked>>

\* A censor resets the connection, or the peer sends an ACK of its own accord
\* (a window update, a challenge).
Stray(c) ==
  /\ sock[c] \in {"synsent", "up"}
  /\ \E k \in {"rst", "dupack"} : inbound' = inbound \cup {Pkt(c, k)}
  /\ UNCHANGED <<proxy, task, monitor, seqs, fake_sent, verdict, faker, captured, resends, leaked>>

\* A packet of a route the filter does not know reaches the system unseen.
Unseen(p) ==
  /\ p \in inbound /\ ~Filtered(p.conn)
  /\ SystemGets(p, inbound \ {p})
  /\ UNCHANGED <<proxy, handler, id, table, monitor, seqs, fake_sent, verdict, faker,
                 resends, leaked>>

(***************************************************************************)
(* FakeTcpInjector.inject: the packet hook, one packet at a time.          *)
(***************************************************************************)
\* The connection whose monitor looks at p's addresses, or None.
WatcherOf(p) ==
  LET c == table[id[p.conn]] IN
  IF Filtered(p.conn) /\ c # None /\ monitor[c] THEN c ELSE None

\* thread_lock is not held by c's decoy thread.
Unlocked(c) == c # None => faker[c] # "sending"

\* Mutant of Unexpected: monitor stays on.
UnexpectedStillOn(c) ==
  /\ t2a_msg' = [t2a_msg EXCEPT ![c] = "unexpected_close"]
  /\ t2a_event' = [t2a_event EXCEPT ![c] = TRUE]
  /\ UNCHANGED <<monitor, seqs, faker>>

\* on_unexpected_packet, up to the packet's own way.
Unexpected(c) ==
  /\ monitor' = [monitor EXCEPT ![c] = FALSE]
  /\ t2a_msg' = [t2a_msg EXCEPT ![c] = "unexpected_close"]
  /\ t2a_event' = [t2a_event EXCEPT ![c] = TRUE]
  /\ UNCHANGED <<seqs, faker>>

GoodSyn(c, p) ==
  p.kind = "syn" /\ ~sch_fake_sent[c] /\ syn_seq[c] \in {None, p.conn}

\* Mutant of GoodAck: no test of sch_fake_sent.
GoodAckAgain(c, p) == p.kind = "ack" /\ syn_seq[c] = p.conn /\ syn_ack_seq[c] = p.conn

GoodAck(c, p) ==
  /\ p.kind = "ack" /\ ~sch_fake_sent[c]
  /\ syn_seq[c] = p.conn /\ syn_ack_seq[c] = p.conn

\* on_outbound_packet: the last ACK of the handshake starts the decoy thread.
OnOutbound(c, p) ==
  \/ /\ GoodSyn(c, p)
     /\ syn_seq' = [syn_seq EXCEPT ![c] = p.conn]
     /\ UNCHANGED <<monitor, verdict, syn_ack_seq, sch_fake_sent, faker, sock>>
  \/ /\ GoodAck(c, p)
     /\ sch_fake_sent' = [sch_fake_sent EXCEPT ![c] = TRUE]
     /\ faker' = [faker EXCEPT ![c] = "sleeping"]
     /\ UNCHANGED <<monitor, verdict, syn_seq, syn_ack_seq, sock>>
  \/ /\ ~GoodSyn(c, p) /\ ~GoodAck(c, p)
     /\ Unexpected(c) /\ CloseSock(c)

InjectOutbound ==
  /\ captured # <<>>
  /\ LET p == Head(captured)
         c == WatcherOf(p)
     IN /\ Unlocked(c)
        /\ IF c = None THEN UNCHANGED <<monitor, verdict, seqs, faker, sock>>
                       ELSE OnOutbound(c, p)
        /\ inbound' = inbound \cup Answer(p.conn, p.kind)
  /\ captured' = Tail(captured)
  /\ UNCHANGED <<proxy, handler, id, table, fake_sent, resends, leaked>>

GoodSynAck(c, p) ==
  p.kind = "synack" /\ syn_ack_seq[c] \in {None, p.conn} /\ syn_seq[c] = p.conn

\* Mutant of GoodDupAck: no test of fake_sent.
GoodDupAckAnyTime(c, p) ==
  p.kind = "dupack" /\ syn_ack_seq[c] = p.conn /\ syn_seq[c] = p.conn

GoodDupAck(c, p) ==
  /\ p.kind = "dupack" /\ fake_sent[c]
  /\ syn_ack_seq[c] = p.conn /\ syn_seq[c] = p.conn

\* on_inbound_packet: the peer's ACK of the decoy is swallowed and confirms it.
OnInbound(c, p, left) ==
  \/ /\ GoodSynAck(c, p)
     /\ syn_ack_seq' = [syn_ack_seq EXCEPT ![c] = p.conn]
     /\ SystemGets(p, left)
     /\ UNCHANGED <<monitor, verdict, syn_seq, sch_fake_sent, faker>>
  \/ /\ GoodDupAck(c, p)
     /\ monitor' = [monitor EXCEPT ![c] = FALSE]
     /\ t2a_msg' = [t2a_msg EXCEPT ![c] = "fake_data_ack_recv"]
     /\ t2a_event' = [t2a_event EXCEPT ![c] = TRUE]
     /\ inbound' = left
     /\ UNCHANGED <<seqs, faker, sock, captured>>
  \/ /\ ~GoodSynAck(c, p) /\ ~GoodDupAck(c, p)
     /\ Unexpected(c) /\ CloseSock(c)
     /\ inbound' = left /\ UNCHANGED captured

InjectInbound(p) ==
  /\ p \in inbound /\ Filtered(p.conn)
  /\ \/ resends' = resends
     \/ resends < MaxResends /\ resends' = resends + 1
  /\ LET c == WatcherOf(p)
         left == IF resends' = resends THEN inbound \ {p} ELSE inbound
     IN /\ Unlocked(c)
        /\ IF c = None THEN SystemGets(p, left) /\ UNCHANGED <<monitor, verdict, seqs, faker>>
                       ELSE OnInbound(c, p, left)
  /\ UNCHANGED <<proxy, handler, id, table, fake_sent, leaked>>

(***************************************************************************)
(* fake_send_thread: sleep, take the lock, look at monitor, send.          *)
(***************************************************************************)
\* get_strategy fails for a method the configuration kept from an old release.
FakerWakes(c) ==
  /\ faker[c] = "sleeping"
  /\ \/ monitor[c] /\ faker' = [faker EXCEPT ![c] = "sending"]
     \/ faker' = [faker EXCEPT ![c] = "ended"]
  /\ UNCHANGED <<proxy, task, monitor, seqs, fake_sent, verdict, net, leaked>>

FakerSends(c) ==
  /\ faker[c] = "sending"
  /\ fake_sent' = [fake_sent EXCEPT ![c] = TRUE]
  /\ faker' = [faker EXCEPT ![c] = "ended"]
  /\ inbound' = inbound \cup Answer(c, "decoy")
  /\ UNCHANGED <<proxy, task, monitor, seqs, verdict, captured, resends, leaked>>

(***************************************************************************)
(* _handle.                                                                *)
(***************************************************************************)
\* Through the gate, snapshot the route, bind, register, start to connect.
Accept(c) ==
  /\ running /\ handler[c] = "new" /\ permits > 0
  /\ permits' = permits - 1
  /\ \E port \in Ports :
       LET i == <<port, route>> IN
       /\ Reusable(i)
       /\ id' = [id EXCEPT ![c] = i]
       /\ table' = [table EXCEPT ![i] = c]
       /\ IF route = FilterIp
          THEN captured' = Append(captured, Pkt(c, "syn")) /\ UNCHANGED inbound
          ELSE inbound' = inbound \cup Answer(c, "syn") /\ UNCHANGED captured
  /\ monitor' = [monitor EXCEPT ![c] = TRUE]
  /\ handler' = [handler EXCEPT ![c] = "connecting"]
  /\ sock' = [sock EXCEPT ![c] = "synsent"]
  /\ UNCHANGED <<route, running, seqs, fake_sent, verdict, faker, resends, leaked>>

\* Mutant of StopWatching: the table keeps the connection.
StopWatchingKeepsEntry(c) ==
  /\ monitor' = [monitor EXCEPT ![c] = FALSE]
  /\ UNCHANGED table

\* "fake_conn.monitor = False; self._fake_connections.pop(fake_conn.id, None)"
StopWatching(c) ==
  /\ monitor' = [monitor EXCEPT ![c] = FALSE]
  /\ table' = [table EXCEPT ![id[c]] = None]

\* Mutants of Leave: the permit is given back twice, or not at all.
LeaveReleasesTwice(c) ==
  /\ handler' = [handler EXCEPT ![c] = "done"]
  /\ permits' = permits + 2
  /\ CloseSock(c)

LeaveKeepsPermit(c) ==
  /\ handler' = [handler EXCEPT ![c] = "done"]
  /\ UNCHANGED permits
  /\ CloseSock(c)

\* The finally block: count the connection out, close, give the permit back.
Leave(c) ==
  /\ handler' = [handler EXCEPT ![c] = "done"]
  /\ permits' = permits + 1
  /\ CloseSock(c)

Connected(c) ==
  /\ handler[c] = "connecting" /\ sock[c] \in {"up", "closed"}
  /\ handler' = [handler EXCEPT ![c] = "waiting"]
  /\ UNCHANGED <<proxy, sock, id, table, monitor, seqs, fake_sent, verdict, faker, net, leaked>>

\* Refused, closed by the hook, or ten seconds are over.
ConnectFails(c) ==
  /\ handler[c] = "connecting"
  /\ StopWatching(c) /\ Leave(c)
  /\ UNCHANGED <<route, running, id, seqs, fake_sent, verdict, faker, net, leaked>>

Confirmed(c) ==
  /\ handler[c] = "waiting" /\ t2a_event[c] /\ t2a_msg[c] = "fake_data_ack_recv"
  /\ StopWatching(c)
  /\ handler' = [handler EXCEPT ![c] = "relay"]
  /\ UNCHANGED <<proxy, sock, id, seqs, fake_sent, verdict, faker, net, leaked>>

\* FAKE_HANDSHAKE_TIMEOUT is over, or the hook closed the connection.
GivesUp(c) ==
  /\ handler[c] = "waiting"
  /\ StopWatching(c) /\ Leave(c)
  /\ UNCHANGED <<route, running, id, seqs, fake_sent, verdict, faker, net, leaked>>

RelayEnds(c) ==
  /\ handler[c] = "relay"
  /\ Leave(c)
  /\ UNCHANGED <<route, running, id, table, monitor, seqs, fake_sent, verdict, faker, net, leaked>>

\* The accept loop ends and cancels its tasks.  A CancelledError out of
\* sock_connect, or out of the jitter after it, passes "except Exception" and
\* the inner finally by: the connection stays registered.
Shutdown ==
  /\ running /\ running' = FALSE
  /\ UNCHANGED <<route, permits, task, monitor, seqs, fake_sent, verdict, faker, net, leaked>>

CancelConnecting(c) ==
  /\ ~running /\ handler[c] = "connecting"
  /\ Leave(c)
  /\ leaked' = leaked \cup {c}
  /\ UNCHANGED <<route, running, id, table, monitor, seqs, fake_sent, verdict, faker, net>>

\* apply_route, called by the promoter's thread: new connections only.
ApplyRoute ==
  /\ AutoSwap
  /\ \E ip \in Ips \ {route} : route' = ip
  /\ UNCHANGED <<running, permits, task, monitor, seqs, fake_sent, verdict, faker, net, leaked>>

Handle(c) == Connected(c) \/ ConnectFails(c) \/ Confirmed(c) \/ GivesUp(c)

Next ==
  \/ InjectOutbound \/ Shutdown \/ ApplyRoute
  \/ \E p \in inbound : InjectInbound(p) \/ Unseen(p)
  \/ \E c \in Conns : \/ Accept(c) \/ Handle(c) \/ RelayEnds(c) \/ CancelConnecting(c)
                      \/ FakerWakes(c) \/ FakerSends(c) \/ Resend(c) \/ Stray(c)

Spec == Init /\ [][Next]_vars
-----------------------------------------------------------------------------
(***************************************************************************)
(* Properties.                                                             *)
(***************************************************************************)
Phase(h) == CASE h = "new" -> "new"
              [] h \in {"connecting", "waiting"} -> "trying"
              [] h = "relay" -> "open"
              [] OTHER -> "shut"

Gate == INSTANCE DecoyGate WITH
          phase <- [c \in Conns |-> Phase(handler[c])],
          decoy <- {c \in Conns : fake_sent[c]}

\* No relay without a decoy, and no second decoy: the handshake implements
\* DecoyGate, across retransmissions, forged resets, timeouts and reused ports.
KeepsPromise == Gate!Spec

\* The decoy thread runs once per connection, although the system repeats the
\* handshake's last ACK whenever the peer's SYN-ACK comes again (sch_fake_sent).
NoSecondDecoy == [][\A c \in Conns : fake_sent[c] => faker'[c] # "sending"]_vars

\* The verdict _handle reads, without the lock, after t2a_event is the one that
\* set the event: no packet or thread ever overwrites it.
VerdictFinal == [][\A c \in Conns : t2a_msg[c] # "" => t2a_msg'[c] = t2a_msg[c]]_vars

\* However a handshake ends, the hook forgets the connection: a later one on
\* the same port is never judged by its monitor (cancelled connects aside).
NothingLeftRegistered ==
  \A c \in Conns \ leaked :
    handler[c] \in {"relay", "done"} => ~monitor[c] /\ \A i \in Ids : table[i] # c

\* Every permit of _conn_gate is free or held by one live handler.
PermitsBalance ==
  permits + Cardinality({c \in Conns : handler[c] \in {"connecting", "waiting", "relay"}}) = Slots

\* "The swap never disconnects the user" (apply_route): a connection that is up
\* and waits for its decoy has been seen by the hook from its SYN on.
SwapKeepsWatch ==
  \A c \in Conns :
    handler[c] = "waiting" /\ monitor[c] /\ table[id[c]] = c => syn_seq[c] = c
=============================================================================
