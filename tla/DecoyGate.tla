------------------------------ MODULE DecoyGate ------------------------------
(***************************************************************************)
(* What the spoofer promises of each client connection, whatever packets   *)
(* are lost, repeated or forged: at most one decoy ClientHello is injected *)
(* into it, and the client's real bytes (its "open" phase) never precede   *)
(* that decoy.  FakeInjection shows that fake_tcp.py and main.py's _handle *)
(* keep the promise.                                                       *)
(***************************************************************************)
CONSTANT Conns

VARIABLES
  phase,   \* of each connection: "new", "trying", "open" (relaying), "shut"
  decoy    \* the connections whose decoy has been injected

Init == phase = [c \in Conns |-> "new"] /\ decoy = {}

Try(c) ==
  /\ phase[c] = "new"
  /\ phase' = [phase EXCEPT ![c] = "trying"]
  /\ UNCHANGED decoy

\* A connection that has just been given up may still get its decoy.
Inject(c) ==
  /\ phase[c] \in {"trying", "shut"} /\ c \notin decoy
  /\ decoy' = decoy \cup {c}
  /\ UNCHANGED phase

Open(c) ==
  /\ phase[c] = "trying" /\ c \in decoy
  /\ phase' = [phase EXCEPT ![c] = "open"]
  /\ UNCHANGED decoy

Shut(c) ==
  /\ phase[c] \in {"trying", "open"}
  /\ phase' = [phase EXCEPT ![c] = "shut"]
  /\ UNCHANGED decoy

Next == \E c \in Conns : Try(c) \/ Inject(c) \/ Open(c) \/ Shut(c)

Spec == Init /\ [][Next]_<<phase, decoy>>
=============================================================================
