----------------------------- MODULE QueueLife -----------------------------
(***************************************************************************)
(* What the setup of the network device promises its driver: queues are    *)
(* connected to vhost one at a time, each once; buffers are posted only    *)
(* when every queue is connected; vhost takes only buffers that were       *)
(* posted, and says so for each of them, until all is closed at once.      *)
(***************************************************************************)
EXTENDS Naturals, FiniteSets

CONSTANT Queues

VARIABLES phase,   \* unset, ready, connected or closed
          posted,  \* buffers the driver has posted
          used,    \* buffers vhost has used
          told     \* uses the host has been told of

vars == <<phase, posted, used, told>>

Init ==
  /\ phase = [q \in Queues |-> "unset"]
  /\ posted = [q \in Queues |-> 0]
  /\ used = [q \in Queues |-> 0]
  /\ told = [q \in Queues |-> 0]

MakeReady(q) ==
  /\ phase[q] = "unset"
  /\ \A p \in Queues : phase[p] # "ready"
  /\ phase' = [phase EXCEPT ![q] = "ready"]
  /\ UNCHANGED <<posted, used, told>>

Connect(q) ==
  /\ phase[q] = "ready"
  /\ phase' = [phase EXCEPT ![q] = "connected"]
  /\ UNCHANGED <<posted, used, told>>

Post(q) ==
  /\ \A p \in Queues : phase[p] = "connected"
  /\ posted' = [posted EXCEPT ![q] = @ + 1]
  /\ UNCHANGED <<phase, used, told>>

Use(q) ==
  /\ phase[q] = "connected"
  /\ used[q] < posted[q]
  /\ used' = [used EXCEPT ![q] = @ + 1]
  /\ UNCHANGED <<phase, posted, told>>

Tell(q) ==
  /\ told[q] < used[q]
  /\ told' = [told EXCEPT ![q] = @ + 1]
  /\ UNCHANGED <<phase, posted, used>>

Close ==
  /\ told = used
  /\ phase' = [q \in Queues |-> "closed"]
  /\ UNCHANGED <<posted, used, told>>

Next ==
  \/ \E q \in Queues : MakeReady(q) \/ Connect(q) \/ Post(q) \/ Use(q) \/ Tell(q)
  \/ Close

Spec == Init /\ [][Next]_vars
=============================================================================
