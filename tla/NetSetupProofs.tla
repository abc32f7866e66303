--------------------------- MODULE NetSetupProofs ---------------------------
(***************************************************************************)
(* Theorems about NetSetup, for any number of queues, any rings in the     *)
(* container's memory and any bound on the buffers.                        *)
(*                                                                         *)
(* The invariant follows the driver through its register accesses: how     *)
(* many queues it has made ready, which of them the launcher has connected *)
(* and vhost serves, and what the registers hold when the driver or the    *)
(* launcher next looks at them.                                            *)
(***************************************************************************)
EXTENDS NetSetup, SequenceTheorems, FiniteSetTheorems, TLAPS

\* the contexts of queue q's eventfds
KickOf(q) == <<"kick", q + 1>>
CallOf(q) == <<"call", q + 1>>

\* queues made ready, connected (conns), and known to vhost with their call
Unconnected == step \in {"info", "backend", "efds"}
Due == IF Unconnected THEN conns + 1 ELSE conns
Served == IF step \in {"kick", "call"} THEN conns - 1 ELSE conns

Queue == [ready : BOOLEAN, size : Nat, ring : [Rings -> Nat],
          kick : Contexts \cup {NoCtx}, call : Contexts \cup {NoCtx}]
Virtqueue == [num : Nat, addr : [Rings -> Int], backend : BOOLEAN,
              kick : Contexts \cup {NoCtx}, call : Contexts \cup {NoCtx}]
Typed ==
  /\ device_status \subseteq Bits
  /\ acked_features \subseteq avail_features
  /\ fault \in {"none", "spin"}
  /\ host \in {"guest", "launcher", "exited"}
  /\ step \in {"none", "info", "backend", "efds", "kick", "call"}
  /\ conns \in 0 .. QUEUE_NUM
  /\ queues \in [Queues -> Queue]
  /\ vhost \in [Queues -> Virtqueue]
  /\ posted \in [Queues -> 0 .. MaxPosted]
  /\ used \in [Queues -> Nat] /\ owed \in [Queues -> Nat]
  /\ layout \in Layouts /\ torn \in BOOLEAN

\* buffers are posted when vhost has every queue, then used, then signalled, all
\* of them before vhost is closed
Buffers ==
  \A q \in Queues :
    /\ used[q] <= posted[q] /\ owed[q] <= used[q]
    /\ posted[q] > 0 => Served = QUEUE_NUM
    /\ ~vhostOpen => owed[q] = 0

\* the launcher connects the queues in order, the one made ready last
Serving1 ==
  /\ host = "guest" => step = "none"
  /\ host = "launcher" => step # "none"
  /\ Unconnected => exitIdx = conns /\ conns < QUEUE_NUM
  /\ step \in {"kick", "call"} => exitIdx = conns - 1 /\ conns > 0
  /\ step # "none" => queues[exitIdx].ready
  /\ step = "info" => /\ queues[exitIdx].size = layout[exitIdx].size
                      /\ queues[exitIdx].ring = layout[exitIdx].ring
  /\ \A q \in Queues : queues[q].ready => q < Due

\* the contexts in the queues, the references and wait entries on them
Held ==
  /\ \A q \in Queues :
       /\ queues[q].kick = IF q < conns THEN KickOf(q) ELSE NoCtx
       /\ queues[q].call = IF q < conns THEN CallOf(q) ELSE NoCtx
       /\ vhost[q].call = IF q < Served THEN CallOf(q) ELSE NoCtx
  /\ refs = [c \in Contexts |-> IF cntr = "open" /\ c[2] <= conns THEN 1 ELSE 0]
  /\ waiters = IF cntr = "open" THEN {<<CallOf(q), q>> : q \in {p \in Queues : p < conns}}
               ELSE {}
  /\ cntr \in {"open", "released"} /\ vhostOpen \in BOOLEAN
  /\ ~vhostOpen => host = "exited"
  /\ cntr = "released" => ~vhostOpen

\* vhost has the rings of a queue before it works on it
SeenBy(q) ==
  /\ vhost[q].num = layout[q].size
  /\ \A f \in Rings : Maps(vhost[q].addr[f], layout[q].ring[f])
Rings1 ==
  \A q \in Queues :
    vhost[q].backend \/ (step = "backend" /\ q = exitIdx) => SeenBy(q)

\* how far the driver is: Left(n) is the probe from its n-th access on
Left(n) == SubSeq(Probe, n, Len(Probe))
Status(k) == {Handshake[i] : i \in 1 .. k}
Supported == DriverFeatures \cap avail_features
High(bits) == {b \in bits : b >= 32}

Negotiating(n) ==
  /\ todo = Left(n) /\ Due = 0
  /\ device_status = Status(IF n <= 2 THEN 0 ELSE IF n = 3 THEN 1
                            ELSE IF n <= 12 THEN 2 ELSE 3)
  /\ n \in {5, 6} => features_select = 1
  /\ n = 7 => features_select = 0
  /\ seen = IF n <= 5 THEN {} ELSE IF n <= 7 THEN High(avail_features) ELSE avail_features
  /\ n \in {9, 10} => acked_features_select = 1
  /\ n = 11 => acked_features_select = 0
  /\ acked_features = IF n <= 9 THEN {} ELSE IF n <= 11 THEN High(Supported) ELSE Supported

\* the first k of: the low words, then the high words, of the ring's address
RingSet(q, f, k) ==
  /\ k >= 1 => queues[q].ring[f] % WORD = layout[q].ring[f] % WORD
  /\ k >= 2 => queues[q].ring[f] = layout[q].ring[f]
SettingUp(j) ==
  /\ Due < QUEUE_NUM /\ todo = Left(14 + 10 * Due + j)
  /\ device_status = Status(3) /\ acked_features = Supported
  /\ j >= 1 => queue_select = Due
  /\ j >= 3 => queues[Due].size = layout[Due].size
  /\ RingSet(Due, "desc_table", j - 3)
  /\ RingSet(Due, "avail_ring", j - 5)
  /\ RingSet(Due, "used_ring", j - 7)

Finishing ==
  /\ Due = QUEUE_NUM /\ todo = Left(14 + 10 * QUEUE_NUM)
  /\ device_status = Status(3) /\ acked_features = Supported

Operating ==
  /\ Due = QUEUE_NUM
  /\ todo = <<>> \/ \E q \in Queues : todo = << <<"QUEUE_NOTIFY", q>> >>

TearDown ==
  {<<"RESET", 0>>, <<"QUEUE_READY", 0>>, <<"STATUS", 1>>, <<"STATUS", FailedBit>>}
    \cup {"DEL_QUEUE", "QUEUE_SEL"} \X Queues

Driver ==
  /\ IF torn THEN step = "none" /\ todo \in Seq(TearDown)
     ELSE \/ \E n \in 1 .. 13 : Negotiating(n)
          \/ \E j \in 0 .. 9 : SettingUp(j)
          \/ Finishing
          \/ Operating
  /\ "DRIVER_OK" \in device_status => acked_features = Supported

IInv == Typed /\ Buffers /\ Serving1 /\ Held /\ Rings1 /\ Driver
-----------------------------------------------------------------------------
(* The words of an address. *)
LEMMA Halves ==
  ASSUME NEW a \in Nat
  PROVE  /\ a \div WORD \in Nat /\ a % WORD \in Nat /\ a % WORD < WORD
         /\ (a \div WORD) * WORD + (a % WORD) = a
<1>1. a \div WORD \in Nat
  BY DeviceAssumption
<1>2. a % WORD \in 0 .. WORD - 1
  BY DeviceAssumption
<1>3. a = (a \div WORD) * WORD + (a % WORD)
  BY DeviceAssumption
<1> QED
  BY <1>1, <1>2, <1>3, DeviceAssumption

LEMMA Joined ==
  ASSUME NEW h \in Nat, NEW l \in Nat, l < WORD
  PROVE  h * WORD + l \in Nat /\ (h * WORD + l) % WORD = l
<1>1. h * WORD + l \in Nat
  BY DeviceAssumption
<1>2. (h * WORD + l) % WORD = l
  BY DeviceAssumption
<1> QED
  BY <1>1, <1>2

(* The accesses of the probe, one by one. *)
Register == {"RESET", "STATUS", "FEATURES_SEL", "FEATURES", "ACKED_SEL", "ACKED",
             "CHECK_STATUS", "QUEUE_SEL", "CHECK_QUEUE", "QUEUE_NUM", "desc_table",
             "avail_ring", "used_ring", "QUEUE_READY"} \X Int
LastAccess == 14 + 10 * QUEUE_NUM

LEMMA ProbeParts ==
  /\ Negotiate \in Seq(Register) /\ Len(Negotiate) = 13
  /\ SetupQueues \in Seq(Register) /\ Len(SetupQueues) = 10 * QUEUE_NUM
  /\ \A q \in Queues, j \in 0 .. 9 : SetupQueues[10 * q + j + 1] = SetupQueue(q)[j + 1]
<1>1. Negotiate \in Seq(Register) /\ Len(Negotiate) = 13
  BY DEF Negotiate, Register
<1>2. ASSUME NEW q \in Int, NEW j \in 0 .. 9
      PROVE  SetupQueue(q)[j + 1] \in Register
  BY DEF SetupQueue, Register
<1>3. ASSUME NEW i \in 1 .. 10 * QUEUE_NUM
      PROVE  SetupQueues[i] \in Register
  <2>1. (i - 1) \div 10 \in Int /\ (i - 1) % 10 \in 0 .. 9
    BY DeviceAssumption
  <2>2. SetupQueues[i] = SetupQueue((i - 1) \div 10)[((i - 1) % 10) + 1]
    BY DEF SetupQueues
  <2>3. SetupQueue((i - 1) \div 10)[((i - 1) % 10) + 1] \in Register
    BY <2>1, <1>2, Zenon
  <2> QED
    BY <2>2, <2>3, Zenon
<1>4. SetupQueues \in Seq(Register) /\ Len(SetupQueues) = 10 * QUEUE_NUM
  <2>1. 10 * QUEUE_NUM \in Nat
    BY DeviceAssumption
  <2>2. SetupQueues \in [1 .. 10 * QUEUE_NUM -> Register]
    BY <1>3 DEF SetupQueues
  <2> QED
    BY <2>1, <2>2, IsASeq, LenProperties
<1>5. ASSUME NEW q \in Queues, NEW j \in 0 .. 9
      PROVE  SetupQueues[10 * q + j + 1] = SetupQueue(q)[j + 1]
  <2> DEFINE i == 10 * q + j + 1
  <2>1. i \in 1 .. 10 * QUEUE_NUM /\ (i - 1) \div 10 = q /\ (i - 1) % 10 = j
    BY DeviceAssumption DEF Queues
  <2> HIDE DEF i
  <2>2. SetupQueues[i] = SetupQueue((i - 1) \div 10)[((i - 1) % 10) + 1]
    BY <2>1 DEF SetupQueues
  <2>3. SetupQueues[i] = SetupQueue(q)[j + 1]
    BY <2>1, <2>2, Zenon
  <2> QED
    BY <2>3 DEF i
<1> QED
  BY <1>1, <1>4, <1>5

LEMMA ProbeAccesses ==
  /\ Probe \in Seq(Register) /\ Len(Probe) = LastAccess /\ LastAccess \in Nat
  /\ \A n \in 1 .. 13 : Probe[n] = Negotiate[n]
  /\ \A q \in Queues, j \in 0 .. 9 : Probe[14 + 10 * q + j] = SetupQueue(q)[j + 1]
  /\ Probe[LastAccess] = <<"STATUS", 4>>
<1> DEFINE D == AddStatus(4)  P == Negotiate \o SetupQueues
<1>1. D \in Seq(Register) /\ Len(D) = 1 /\ D[1] = <<"STATUS", 4>>
  BY DEF AddStatus, Register
<1>2. 10 * QUEUE_NUM \in Nat /\ LastAccess \in Nat
  BY DeviceAssumption DEF LastAccess
<1>3. /\ P \in Seq(Register) /\ Len(P) = 13 + 10 * QUEUE_NUM
      /\ \A n \in 1 .. 13 + 10 * QUEUE_NUM :
           P[n] = IF n <= 13 THEN Negotiate[n] ELSE SetupQueues[n - 13]
  <2> HIDE DEF P
  <2>1. P = Negotiate \o SetupQueues
    BY DEF P
  <2>2. /\ P \in Seq(Register) /\ Len(P) = Len(Negotiate) + Len(SetupQueues)
        /\ \A n \in 1 .. Len(Negotiate) + Len(SetupQueues) :
             P[n] = IF n <= Len(Negotiate) THEN Negotiate[n]
                    ELSE SetupQueues[n - Len(Negotiate)]
    BY <2>1, ProbeParts, ConcatProperties, Zenon
  <2> QED
    BY <2>2, ProbeParts, <1>2
<1> HIDE DEF P, D
<1>4. /\ P \o D \in Seq(Register) /\ Len(P \o D) = LastAccess
      /\ \A n \in 1 .. LastAccess :
           (P \o D)[n] = IF n <= LastAccess - 1 THEN P[n] ELSE D[n - (LastAccess - 1)]
  <2>1. /\ P \o D \in Seq(Register) /\ Len(P \o D) = Len(P) + Len(D)
        /\ \A n \in 1 .. Len(P) + Len(D) :
             (P \o D)[n] = IF n <= Len(P) THEN P[n] ELSE D[n - Len(P)]
    BY <1>1, <1>3, ConcatProperties, Zenon
  <2> QED
    BY <2>1, <1>1, <1>2, <1>3 DEF LastAccess
<1>5. Probe = P \o D
  BY DEF Probe, P, D
<1>6. \A n \in 1 .. 13 : Probe[n] = Negotiate[n]
  BY <1>2, <1>3, <1>4, <1>5 DEF LastAccess
<1>7. ASSUME NEW q \in Queues, NEW j \in 0 .. 9
      PROVE  Probe[14 + 10 * q + j] = SetupQueue(q)[j + 1]
  <2> DEFINE n == 14 + 10 * q + j
  <2>1. n \in 1 .. 13 + 10 * QUEUE_NUM /\ n \in 1 .. LastAccess - 1 /\ n > 13
        /\ n - 13 = 10 * q + j + 1
    BY DeviceAssumption DEF Queues, LastAccess
  <2>2. SetupQueues[n - 13] = SetupQueue(q)[j + 1]
    BY <2>1, ProbeParts
  <2> HIDE DEF n
  <2>3. Probe[n] = SetupQueues[n - 13]
    BY <1>2, <1>3, <1>4, <1>5, <2>1
  <2> QED
    BY <2>2, <2>3 DEF n
<1>8. Probe[LastAccess] = <<"STATUS", 4>>
  BY <1>1, <1>2, <1>4, <1>5, DeviceAssumption DEF LastAccess
<1> QED
  BY <1>2, <1>4, <1>5, <1>6, <1>7, <1>8

LEMMA Onward ==
  /\ \A n \in 1 .. LastAccess :
       Left(n) # <<>> /\ Left(n)[1] = Probe[n] /\ Tail(Left(n)) = Left(n + 1)
  /\ Left(LastAccess + 1) = <<>>
  /\ Left(1) = Probe
<1>1. Probe \in Seq(Register) /\ Len(Probe) = LastAccess /\ LastAccess \in Nat
  BY ProbeAccesses
<1>2. ASSUME NEW n \in 1 .. LastAccess
      PROVE  Left(n) # <<>> /\ Left(n)[1] = Probe[n] /\ Tail(Left(n)) = Left(n + 1)
  <2>1. Head(Left(n)) = Probe[n] /\ Tail(Left(n)) = Left(n + 1)
    BY <1>1, HeadTailOfSubSeq DEF Left
  <2>2. Left(n) # <<>>
    BY <1>1, SubSeqEmpty DEF Left
  <2> QED
    BY <2>1, <2>2, <1>1 DEF Left
<1>3. Left(LastAccess + 1) = <<>>
  BY <1>1, SubSeqEmpty DEF Left
<1>4. Left(1) = Probe
  BY <1>1, SubSeqFull DEF Left
<1> QED
  BY <1>2, <1>3, <1>4
-----------------------------------------------------------------------------
(* Where the driver is, from the register it is at. *)
LEMMA DueType ==
  Typed => Due \in 0 .. QUEUE_NUM + 1 /\ (step \notin {"info", "backend", "efds"} => Due = conns)
BY DeviceAssumption DEF Typed, Due, Unconnected

LEMMA AtNegotiating ==
  ASSUME NEW n \in 1 .. 13, Negotiating(n)
  PROVE  todo # <<>> /\ todo[1] = Negotiate[n] /\ Tail(todo) = Left(n + 1)
<1>1. n \in 1 .. LastAccess
  BY DeviceAssumption DEF LastAccess
<1>2. Left(n) # <<>> /\ Left(n)[1] = Probe[n] /\ Tail(Left(n)) = Left(n + 1)
  BY <1>1, Onward, Zenon
<1> QED
  BY <1>2, ProbeAccesses DEF Negotiating

LEMMA AtSettingUp ==
  ASSUME Typed, NEW j \in 0 .. 9, SettingUp(j)
  PROVE  /\ todo # <<>> /\ todo[1] = SetupQueue(Due)[j + 1]
         /\ Tail(todo) = Left(14 + 10 * Due + j + 1)
<1>1. Due \in Queues
  BY DueType, DeviceAssumption DEF SettingUp, Queues
<1> DEFINE n == 14 + 10 * Due + j
<1>2. n \in 1 .. LastAccess
  BY <1>1, DeviceAssumption DEF LastAccess, Queues
<1>3. Probe[n] = SetupQueue(Due)[j + 1]
  BY <1>1, ProbeAccesses, Zenon
<1> HIDE DEF n
<1>4. Left(n) # <<>> /\ Left(n)[1] = Probe[n] /\ Tail(Left(n)) = Left(n + 1)
  BY <1>2, Onward, Zenon
<1>5. todo = Left(n)
  BY DEF SettingUp, n
<1> QED
  BY <1>3, <1>4, <1>5 DEF n

LEMMA AtFinishing ==
  Finishing => todo # <<>> /\ todo[1] = <<"STATUS", 4>> /\ Tail(todo) = <<>>
<1>1. LastAccess \in 1 .. LastAccess
  BY DeviceAssumption DEF LastAccess
<1>2. Left(LastAccess) # <<>> /\ Left(LastAccess)[1] = Probe[LastAccess]
      /\ Tail(Left(LastAccess)) = <<>>
  BY <1>1, Onward, Zenon
<1> QED
  BY <1>2, ProbeAccesses DEF Finishing, LastAccess

LEMMA AtOperating ==
  ASSUME Operating, todo # <<>>
  PROVE  /\ \E q \in Queues : todo[1] = <<"QUEUE_NOTIFY", q>>
         /\ Tail(todo) = <<>>
<1>1. PICK q \in Queues : todo = << <<"QUEUE_NOTIFY", q>> >>
  BY DEF Operating
<1> QED
  BY <1>1

LEMMA AtTearDown ==
  ASSUME Driver, torn, todo # <<>>
  PROVE  todo[1] \in TearDown /\ Tail(todo) \in Seq(TearDown)
BY HeadTailProperties DEF Driver

LEMMA Stages ==
  ASSUME Driver, ~torn
  PROVE  \/ \E n \in 1 .. 13 : Negotiating(n)
         \/ \E j \in 0 .. 9 : SettingUp(j)
         \/ Finishing
         \/ Operating
BY DEF Driver

LEMMA WhereNegotiating ==
  ASSUME Typed, Driver, ~torn, todo # <<>>
  PROVE  /\ todo[1][1] = "RESET" => Negotiating(1)
         /\ todo[1][1] = "STATUS" =>
              \/ Negotiating(2) /\ Arg = 1
              \/ Negotiating(3) /\ Arg = 2
              \/ Negotiating(12) /\ Arg = 3
              \/ Finishing /\ Arg = 4
         /\ todo[1][1] = "FEATURES_SEL" =>
              \/ Negotiating(4) /\ Arg = 1
              \/ Negotiating(6) /\ Arg = 0
         /\ todo[1][1] = "FEATURES" =>
              \/ Negotiating(5) /\ Arg = 1
              \/ Negotiating(7) /\ Arg = 0
         /\ todo[1][1] = "ACKED_SEL" =>
              \/ Negotiating(8) /\ Arg = 1
              \/ Negotiating(10) /\ Arg = 0
         /\ todo[1][1] = "ACKED" =>
              \/ Negotiating(9) /\ Arg = 1
              \/ Negotiating(11) /\ Arg = 0
         /\ todo[1][1] = "CHECK_STATUS" => Negotiating(13) /\ Arg = 3
<1>1. ASSUME NEW n \in 1 .. 13, Negotiating(n)
      PROVE  todo[1] = Negotiate[n]
  BY <1>1, AtNegotiating
<1>2. ASSUME NEW j \in 0 .. 9, SettingUp(j)
      PROVE  todo[1] = SetupQueue(Due)[j + 1]
  BY <1>2, AtSettingUp
<1>3. CASE \E n \in 1 .. 13 : Negotiating(n)
  <2>1. PICK n \in 1 .. 13 : Negotiating(n)
    BY <1>3
  <2>2. n \in {1, 2, 3, 4, 5, 6, 7, 8, 9, 10, 11, 12, 13}
    OBVIOUS
  <2>3. todo[1] = Negotiate[n]
    BY <1>1, <2>1
  <2>4. /\ todo[1][1] = "RESET" => n = 1
        /\ todo[1][1] = "STATUS" =>
             (n = 2 /\ Arg = 1) \/ (n = 3 /\ Arg = 2) \/ (n = 12 /\ Arg = 3)
        /\ todo[1][1] = "FEATURES_SEL" => (n = 4 /\ Arg = 1) \/ (n = 6 /\ Arg = 0)
    BY <2>2, <2>3 DEF Negotiate, Arg
  <2>5. /\ todo[1][1] = "FEATURES" => (n = 5 /\ Arg = 1) \/ (n = 7 /\ Arg = 0)
        /\ todo[1][1] = "ACKED_SEL" => (n = 8 /\ Arg = 1) \/ (n = 10 /\ Arg = 0)
        /\ todo[1][1] = "ACKED" => (n = 9 /\ Arg = 1) \/ (n = 11 /\ Arg = 0)
        /\ todo[1][1] = "CHECK_STATUS" => n = 13 /\ Arg = 3
    BY <2>2, <2>3 DEF Negotiate, Arg
  <2> QED
    BY <2>1, <2>4, <2>5
<1>4. CASE \E j \in 0 .. 9 : SettingUp(j)
  <2>1. PICK j \in 0 .. 9 : SettingUp(j)
    BY <1>4
  <2>2. j \in {0, 1, 2, 3, 4, 5, 6, 7, 8, 9}
    OBVIOUS
  <2>3. todo[1] = SetupQueue(Due)[j + 1]
    BY <1>2, <2>1
  <2> QED
    BY <2>1, <2>2, <2>3 DEF SetupQueue, Arg
<1>5. CASE Finishing
  BY <1>5, AtFinishing DEF Arg
<1>6. CASE Operating
  BY <1>6, AtOperating DEF Arg
<1> QED
  BY <1>3, <1>4, <1>5, <1>6, Stages

LEMMA WhereSettingUp ==
  ASSUME Typed, Driver, ~torn, todo # <<>>
  PROVE  /\ todo[1][1] = "QUEUE_SEL" => SettingUp(0) /\ Arg = Due
         /\ todo[1][1] = "CHECK_QUEUE" => SettingUp(1)
         /\ todo[1][1] = "QUEUE_NUM" => SettingUp(2)
         /\ todo[1][1] = "desc_table" =>
              \/ SettingUp(3) /\ Arg = 0
              \/ SettingUp(4) /\ Arg = 1
         /\ todo[1][1] = "avail_ring" =>
              \/ SettingUp(5) /\ Arg = 0
              \/ SettingUp(6) /\ Arg = 1
         /\ todo[1][1] = "used_ring" =>
              \/ SettingUp(7) /\ Arg = 0
              \/ SettingUp(8) /\ Arg = 1
         /\ todo[1][1] = "QUEUE_READY" => SettingUp(9) /\ Arg = 1
         /\ todo[1][1] = "QUEUE_NOTIFY" => Operating /\ Arg \in Queues /\ Tail(todo) = <<>>
         /\ todo[1][1] # "DEL_QUEUE"
<1>1. ASSUME NEW n \in 1 .. 13, Negotiating(n)
      PROVE  todo[1] = Negotiate[n]
  BY <1>1, AtNegotiating
<1>2. ASSUME NEW j \in 0 .. 9, SettingUp(j)
      PROVE  todo[1] = SetupQueue(Due)[j + 1]
  BY <1>2, AtSettingUp
<1>3. CASE \E n \in 1 .. 13 : Negotiating(n)
  <2>1. PICK n \in 1 .. 13 : Negotiating(n)
    BY <1>3
  <2>2. n \in {1, 2, 3, 4, 5, 6, 7, 8, 9, 10, 11, 12, 13}
    OBVIOUS
  <2>3. todo[1] = Negotiate[n]
    BY <1>1, <2>1
  <2> QED
    BY <2>1, <2>2, <2>3 DEF Negotiate, Arg
<1>4. CASE \E j \in 0 .. 9 : SettingUp(j)
  <2>1. PICK j \in 0 .. 9 : SettingUp(j)
    BY <1>4
  <2>2. j \in {0, 1, 2, 3, 4, 5, 6, 7, 8, 9}
    OBVIOUS
  <2>3. todo[1] = SetupQueue(Due)[j + 1]
    BY <1>2, <2>1
  <2>4. /\ todo[1][1] = "QUEUE_SEL" => j = 0 /\ Arg = Due
        /\ todo[1][1] = "CHECK_QUEUE" => j = 1
        /\ todo[1][1] = "QUEUE_NUM" => j = 2
        /\ todo[1][1] = "QUEUE_READY" => j = 9 /\ Arg = 1
        /\ todo[1][1] \notin {"QUEUE_NOTIFY", "DEL_QUEUE"}
    BY <2>2, <2>3 DEF SetupQueue, Arg
  <2>5. /\ todo[1][1] = "desc_table" => (j = 3 /\ Arg = 0) \/ (j = 4 /\ Arg = 1)
        /\ todo[1][1] = "avail_ring" => (j = 5 /\ Arg = 0) \/ (j = 6 /\ Arg = 1)
        /\ todo[1][1] = "used_ring" => (j = 7 /\ Arg = 0) \/ (j = 8 /\ Arg = 1)
    BY <2>2, <2>3 DEF SetupQueue, Arg
  <2> QED
    BY <2>1, <2>4, <2>5
<1>5. CASE Finishing
  BY <1>5, AtFinishing DEF Arg
<1>6. CASE Operating
  BY <1>6, AtOperating DEF Arg
<1> QED
  BY <1>3, <1>4, <1>5, <1>6, Stages
-----------------------------------------------------------------------------
(* The initial states. *)
LEMMA Constants ==
  /\ Status(0) = {} /\ Status(1) = {"ACKNOWLEDGE"} /\ Status(2) = {"ACKNOWLEDGE", "DRIVER"}
  /\ Status(3) = {"ACKNOWLEDGE", "DRIVER", "FEATURES_OK"}
  /\ Bits = Status(3) \cup {"DRIVER_OK"} /\ Status(4) = Bits
<1>1. Len(Handshake) = 4 /\ Handshake[1] = "ACKNOWLEDGE" /\ Handshake[2] = "DRIVER"
      /\ Handshake[3] = "FEATURES_OK" /\ Handshake[4] = "DRIVER_OK"
  BY DEF Handshake
<1>2. 1 .. 0 = {} /\ 1 .. 1 = {1} /\ 1 .. 2 = {1, 2} /\ 1 .. 3 = {1, 2, 3}
      /\ 1 .. 4 = {1, 2, 3, 4}
  OBVIOUS
<1> QED
  BY <1>1, <1>2 DEF Status, Bits

LEMMA InitInv == Init => IInv
<1> SUFFICES ASSUME Init PROVE IInv
  OBVIOUS
<1> USE DEF Init, DeviceInit
<1>1. step = "none" /\ conns = 0 /\ Due = 0 /\ Served = 0
  BY DEF Due, Served, Unconnected
<1>2. Typed
  <2>1. PICK n \in Junk :
          queues = [q \in Queues |->
                     [ready |-> FALSE, size |-> n, kick |-> NoCtx, call |-> NoCtx,
                      ring |-> [f \in Rings |-> n]]]
    OBVIOUS
  <2>2. n \in Nat
    BY DeviceAssumption
  <2>3. queues \in [Queues -> Queue]
    BY <2>1, <2>2 DEF Queue
  <2>4. vhost \in [Queues -> Virtqueue]
    BY DEF Virtqueue
  <2>5. posted \in [Queues -> 0 .. MaxPosted] /\ used \in [Queues -> Nat]
        /\ owed \in [Queues -> Nat] /\ conns \in 0 .. QUEUE_NUM
    BY SetupAssumption, DeviceAssumption
  <2> QED
    BY <2>3, <2>4, <2>5 DEF Typed
<1>3. Buffers
  BY DEF Buffers
<1>4. Serving1
  BY <1>1 DEF Serving1, Unconnected
<1>5. Held
  <2>1. \A q \in Queues : ~(q < 0)
    BY DeviceAssumption DEF Queues
  <2>2. \A c \in Contexts : ~(c[2] <= 0)
    BY DEF Contexts
  <2>3. \A q \in Queues : queues[q].kick = NoCtx /\ queues[q].call = NoCtx
                         /\ vhost[q].call = NoCtx
    OBVIOUS
  <2>4. refs = [c \in Contexts |-> IF cntr = "open" /\ c[2] <= conns THEN 1 ELSE 0]
    BY <1>1, <2>2
  <2>5. {p \in Queues : p < conns} = {}
    BY <1>1, <2>1
  <2> QED
    BY <1>1, <2>1, <2>3, <2>4, <2>5 DEF Held
<1>6. Rings1
  BY <1>1 DEF Rings1
<1>7. Driver
  <2>1. Negotiating(1)
    BY <1>1, Onward, Constants DEF Negotiating
  <2> QED
    BY <2>1 DEF Driver
<1> QED
  BY <1>2, <1>3, <1>4, <1>5, <1>6, <1>7 DEF IInv

-----------------------------------------------------------------------------
(* What keeps the parts of the invariant. *)
LEMMA DriverKept ==
  ASSUME Driver, UNCHANGED <<todo, seen, layout, torn, device_status, featureVars, queue_select>>,
         Due' = Due, torn => step' = "none",
         \A q \in Queues : queues'[q].size = queues[q].size /\ queues'[q].ring = queues[q].ring,
         Due \in 0 .. QUEUE_NUM + 1
  PROVE  Driver'
<1>1. ASSUME NEW n \in 1 .. 13, Negotiating(n)
      PROVE  Negotiating(n)'
  BY <1>1 DEF Negotiating, featureVars
<1>2. ASSUME NEW j \in 0 .. 9, SettingUp(j)
      PROVE  SettingUp(j)'
  <2>1. Due \in Queues
    BY <1>2, DeviceAssumption DEF SettingUp, Queues
  <2> QED
    BY <1>2, <2>1 DEF SettingUp, RingSet, featureVars
<1>3. Finishing => Finishing'
  BY DEF Finishing, featureVars
<1>4. Operating => Operating'
  BY DEF Operating
<1>5. "DRIVER_OK" \in device_status' => acked_features' = Supported
  BY DEF Driver, featureVars
<1>6. CASE torn
  BY <1>5, <1>6 DEF Driver
<1>7. CASE ~torn
  BY <1>1, <1>2, <1>3, <1>4, <1>5, <1>7, Stages DEF Driver
<1> QED
  BY <1>6, <1>7

(* A step of the driver leaves the launcher, vhost and the contexts alone; *)
(* it makes no queue ready.                                                *)
LEMMA Steady ==
  ASSUME IInv, host = "guest",
         UNCHANGED <<host, step, exitIdx, conns, layout, contextVars, vhost, posted, used, owed,
                     fileVars>>,
         queues' \in [Queues -> Queue],
         \A q \in Queues : /\ queues'[q].kick = queues[q].kick
                           /\ queues'[q].call = queues[q].call
                           /\ queues'[q].ready => queues[q].ready,
         device_status' \subseteq Bits, acked_features' \subseteq avail_features,
         fault' \in {"none", "spin"}, torn' \in BOOLEAN,
         Driver'
  PROVE  IInv'
<1> USE DEF contextVars, fileVars
<1>1. step = "none" /\ Due' = Due /\ Served' = Served
  BY DEF IInv, Serving1, Due, Served, Unconnected
<1>2. Typed'
  BY DEF IInv, Typed
<1>3. Buffers'
  BY <1>1 DEF IInv, Buffers
<1>4. Serving1'
  BY <1>1 DEF IInv, Serving1, Unconnected
<1>5. Held'
  BY <1>1 DEF IInv, Held
<1>6. Rings1'
  BY <1>1 DEF IInv, Rings1, SeenBy
<1> QED
  BY <1>2, <1>3, <1>4, <1>5, <1>6 DEF IInv
-----------------------------------------------------------------------------
(* What the registers' handlers do to the queues. *)
LEMMA SetsReady ==
  ASSUME queues \in [Queues -> Queue], NEW v \in BOOLEAN, QueueSet("ready", v)
  PROVE  /\ queues' \in [Queues -> Queue]
         /\ \A q \in Queues :
              /\ queues'[q].kick = queues[q].kick /\ queues'[q].call = queues[q].call
              /\ queues'[q].size = queues[q].size /\ queues'[q].ring = queues[q].ring
              /\ queues'[q].ready = IF q = queue_select THEN v ELSE queues[q].ready
BY DEF QueueSet, Queue

LEMMA SetsSize ==
  ASSUME queues \in [Queues -> Queue], NEW v \in Nat, QueueSet("size", v)
  PROVE  /\ queues' \in [Queues -> Queue]
         /\ \A q \in Queues :
              /\ queues'[q].kick = queues[q].kick /\ queues'[q].call = queues[q].call
              /\ queues'[q].size = IF q = queue_select THEN v ELSE queues[q].size
              /\ queues'[q].ring = queues[q].ring /\ queues'[q].ready = queues[q].ready
BY DEF QueueSet, Queue

LEMMA SetsRing ==
  ASSUME queues \in [Queues -> Queue], NEW f \in Rings, NEW n \in {0, 1}, NEW v \in Nat,
         n = 0 => v < WORD,
         WriteRing(f, n, v)
  PROVE  /\ queues' \in [Queues -> Queue]
         /\ \A q \in Queues :
              /\ queues'[q].kick = queues[q].kick /\ queues'[q].call = queues[q].call
              /\ queues'[q].size = queues[q].size /\ queues'[q].ready = queues[q].ready
              /\ \A g \in Rings : g # f => queues'[q].ring[g] = queues[q].ring[g]
         /\ queue_select \in Queues /\ n = 0 =>
              queues'[queue_select].ring[f] % WORD = v
         /\ queue_select \in Queues /\ n = 1 =>
              queues'[queue_select].ring[f] = v * WORD + (queues[queue_select].ring[f] % WORD)
<1>1. CASE queue_select \notin Queues
  BY <1>1 DEF WriteRing
<1>2. CASE queue_select \in Queues
  <2> DEFINE ring == queues[queue_select].ring
             val == IF n = 0 THEN (ring[f] \div WORD) * WORD + v
                    ELSE v * WORD + (ring[f] % WORD)
             new == [ring EXCEPT ![f] = val]
  <2>1. ring \in [Rings -> Nat] /\ ring[f] \in Nat
    BY <1>2 DEF Queue
  <2>2. val \in Nat /\ (n = 0 => val % WORD = v)
    BY <2>1, Halves, Joined, DeviceAssumption
  <2>3. queues' = [queues EXCEPT ![queue_select] = [@ EXCEPT !["ring"] = new]]
    BY <1>2 DEF WriteRing, QueueGet, QueueSet
  <2>4. new \in [Rings -> Nat] /\ new[f] = val /\ \A g \in Rings : g # f => new[g] = ring[g]
    BY <2>1, <2>2
  <2> HIDE DEF new, val
  <2>5. /\ queues' \in [Queues -> Queue]
        /\ \A q \in Queues :
              /\ queues'[q].kick = queues[q].kick /\ queues'[q].call = queues[q].call
              /\ queues'[q].size = queues[q].size /\ queues'[q].ready = queues[q].ready
              /\ queues'[q].ring = IF q = queue_select THEN new ELSE queues[q].ring
    BY <1>2, <2>3, <2>4 DEF Queue
  <2>6. \A q \in Queues, g \in Rings : g # f => queues'[q].ring[g] = queues[q].ring[g]
    BY <2>4, <2>5
  <2>7. queues'[queue_select].ring[f] = val
    BY <1>2, <2>4, <2>5
  <2> QED
    BY <1>2, <2>2, <2>5, <2>6, <2>7 DEF val
<1> QED
  BY <1>1, <1>2
LEMMA SetsStatus ==
  ASSUME Typed, NEW bit, WriteDeviceStatus(device_status \cup {bit})
  PROVE  /\ device_status' \subseteq Bits /\ fault' \in {"none", "spin"}
         /\ UNCHANGED <<featureVars, queue_select, queues>>
         /\ \A k \in 1 .. 4 : bit = Handshake[k] /\ device_status = Status(k - 1)
                             => device_status' = Status(k)
         /\ bit # "DRIVER_OK" /\ "DRIVER_OK" \in device_status'
              => "DRIVER_OK" \in device_status
<1> DEFINE new == device_status \cup {bit}
           at == {i \in 1 .. Len(Handshake) :
                   /\ new \ device_status = {Handshake[i]}
                   /\ device_status = {Handshake[j] : j \in 1 .. i - 1}}
<1>1. Len(Handshake) = 4
  BY DEF Handshake
<1>2. /\ IF at # {} THEN device_status' = new /\ UNCHANGED fault
         ELSE fault' = "spin" /\ UNCHANGED device_status
      /\ UNCHANGED <<featureVars, queue_select, queues>>
  <2>1. new # {}
    OBVIOUS
  <2> QED
    BY <2>1 DEF WriteDeviceStatus
<1>3. at # {} => bit \in Bits
  BY DEF Bits
<1>4. ASSUME NEW k \in 1 .. 4, bit = Handshake[k], device_status = Status(k - 1)
      PROVE  device_status' = Status(k)
  <2>1. Status(k - 1) \cup {Handshake[k]} = Status(k) /\ Handshake[k] \notin Status(k - 1)
    <3>1. k = 1 \/ k = 2 \/ k = 3 \/ k = 4
      OBVIOUS
    <3>2. Handshake[1] = "ACKNOWLEDGE" /\ Handshake[2] = "DRIVER"
          /\ Handshake[3] = "FEATURES_OK" /\ Handshake[4] = "DRIVER_OK"
      BY DEF Handshake
    <3> QED
      BY <3>1, <3>2, Constants
  <2>2. k \in at
    BY <1>1, <1>4, <2>1 DEF Status
  <2> QED
    BY <1>2, <1>4, <2>1, <2>2
<1> QED
  BY <1>2, <1>3, <1>4 DEF Typed

(* A driver that gives the device up goes on doing so. *)
LEMMA TearsDown ==
  ASSUME Driver, torn, todo # <<>>, todo' = Tail(todo), UNCHANGED torn, step' = "none",
         "DRIVER_OK" \in device_status' => "DRIVER_OK" \in device_status,
         UNCHANGED acked_features
  PROVE  Driver'
BY AtTearDown DEF Driver, Supported

(* The accesses that write a register. *)
LEMMA ResetKeeps ==
  ASSUME IInv, Doing("RESET"), WriteDeviceStatus({}), todo' = Tail(todo),
         UNCHANGED <<launcherVars, seen, layout, torn>>
  PROVE  Driver'
<1>1. UNCHANGED <<deviceVars, Due>> /\ step' = "none" /\ step = "none"
  BY DEF WriteDeviceStatus, deviceVars, launcherVars, Due, Unconnected, IInv, Serving1, Doing,
         Running
<1>2. CASE torn
  BY <1>1, <1>2, TearsDown DEF IInv, Doing, deviceVars, featureVars
<1>3. CASE ~torn
  <2>1. Negotiating(1) /\ todo' = Left(2)
    BY <1>3, WhereNegotiating, AtNegotiating DEF IInv, Doing
  <2>2. Negotiating(2)'
    BY <1>1, <2>1 DEF Negotiating, deviceVars, featureVars
  <2> QED
    BY <1>1, <1>3, <2>2 DEF Driver, IInv, deviceVars, featureVars
<1> QED
  BY <1>2, <1>3

LEMMA StatusKeeps ==
  ASSUME IInv, Doing("STATUS"), WriteDeviceStatus(device_status \cup {StatusBit(Arg)}),
         todo' = Tail(todo), UNCHANGED <<launcherVars, seen, layout, torn>>
  PROVE  Driver'
<1>1. UNCHANGED Due /\ step' = "none" /\ step = "none" /\ Due = conns
  BY DEF launcherVars, Due, Unconnected, IInv, Serving1, Doing, Running
<1>2. /\ UNCHANGED <<featureVars, queue_select, queues>>
      /\ \A k \in 1 .. 4 : StatusBit(Arg) = Handshake[k] /\ device_status = Status(k - 1)
                           => device_status' = Status(k)
      /\ StatusBit(Arg) # "DRIVER_OK" /\ "DRIVER_OK" \in device_status'
           => "DRIVER_OK" \in device_status
  BY SetsStatus DEF IInv
<1>3. Len(Handshake) = 4 /\ FailedBit = 5
  BY DEF Handshake, FailedBit
<1>4. CASE torn
  <2>1. todo[1] \in TearDown
    BY <1>4, AtTearDown DEF IInv, Doing
  <2>2. Arg = 1 \/ Arg = FailedBit
    BY <2>1 DEF TearDown, Doing, Arg
  <2>3. StatusBit(Arg) # "DRIVER_OK"
    BY <1>3, <2>2 DEF StatusBit, Handshake, FAILED
  <2> QED
    BY <1>1, <1>2, <1>4, <2>3, TearsDown DEF IInv, Doing, featureVars
<1>5. CASE ~torn
  <2>1. \/ Negotiating(2) /\ Arg = 1
        \/ Negotiating(3) /\ Arg = 2
        \/ Negotiating(12) /\ Arg = 3
        \/ Finishing /\ Arg = 4
    BY <1>5, WhereNegotiating DEF IInv, Doing
  <2>2. ASSUME NEW k \in 1 .. 4, Arg = k, device_status = Status(k - 1)
        PROVE  device_status' = Status(k)
    BY <1>2, <1>3, <2>2 DEF StatusBit
  <2>3. CASE Negotiating(2) /\ Arg = 1
    <3>1. device_status' = Status(1) /\ todo' = Left(3)
      BY <2>2, <2>3, AtNegotiating DEF Negotiating
    <3>2. Negotiating(3)'
      BY <1>1, <1>2, <2>3, <3>1 DEF Negotiating, featureVars
    <3> QED
      BY <1>5, <3>1, <3>2, Constants DEF Driver, IInv
  <2>4. CASE Negotiating(3) /\ Arg = 2
    <3>1. device_status' = Status(2) /\ todo' = Left(4)
      BY <2>2, <2>4, AtNegotiating DEF Negotiating
    <3>2. Negotiating(4)'
      BY <1>1, <1>2, <2>4, <3>1 DEF Negotiating, featureVars
    <3> QED
      BY <1>5, <3>1, <3>2, Constants DEF Driver, IInv
  <2>5. CASE Negotiating(12) /\ Arg = 3
    <3>1. device_status' = Status(3) /\ todo' = Left(13)
      BY <2>2, <2>5, AtNegotiating DEF Negotiating
    <3>2. Negotiating(13)'
      BY <1>1, <1>2, <2>5, <3>1 DEF Negotiating, featureVars
    <3> QED
      BY <1>5, <3>1, <3>2, Constants DEF Driver, IInv
  <2>6. CASE Finishing /\ Arg = 4
    <3>1. todo' = <<>>
      BY <2>6, AtFinishing
    <3>2. Operating'
      BY <1>1, <2>6, <3>1 DEF Operating, Finishing
    <3>3. acked_features' = Supported
      BY <1>2, <2>6 DEF Finishing, featureVars
    <3> QED
      BY <1>5, <3>2, <3>3 DEF Driver
  <2> QED
    BY <2>1, <2>3, <2>4, <2>5, <2>6
<1> QED
  BY <1>4, <1>5
(* A feature word is the sum of its halves. *)
LEMMA Words ==
  ASSUME NEW bits \in SUBSET Int
  PROVE  /\ Placed(Half(bits, 1), 1) = High(bits)
         /\ High(bits) \cup Placed(Half(bits, 0), 0) = bits
         /\ High(bits) \subseteq bits
<1>1. Placed(Half(bits, 1), 1) = High(bits)
  <2>1. Half(bits, 1) = {b - 32 : b \in High(bits)}
    BY DEF Half, High
  <2>2. \A b \in High(bits) : b \in Int /\ (b - 32) + 32 = b
    BY DEF High
  <2>3. {b + 32 : b \in {c - 32 : c \in High(bits)}} = High(bits)
    BY <2>2
  <2> QED
    BY <2>1, <2>3 DEF Placed
<1>2. High(bits) \cup Placed(Half(bits, 0), 0) = bits
  BY DEF Half, Placed, High
<1> QED
  BY <1>1, <1>2 DEF High

LEMMA Features ==
  /\ avail_features \subseteq Int /\ Supported \subseteq avail_features
BY DEF avail_features, Supported, MRG_RXBUF, NOTIFY_ON_EMPTY, ANY_LAYOUT, INDIRECT_DESC,
       EVENT_IDX, VERSION_1, ACCESS_PLATFORM

LEMMA SelectKeeps ==
  ASSUME IInv,
         \/ Doing("FEATURES_SEL") /\ WriteFeaturesSelect(Arg)
         \/ Doing("ACKED_SEL") /\ WriteAckedFeaturesSelect(Arg),
         todo' = Tail(todo), UNCHANGED <<launcherVars, seen, layout, torn>>
  PROVE  Driver' /\ UNCHANGED <<device_status, acked_features, queues, fault>>
<1>1. UNCHANGED Due /\ step' = "none" /\ step = "none" /\ Due = conns
  BY DEF launcherVars, Due, Unconnected, IInv, Serving1, Doing, Running
<1>2. UNCHANGED <<device_status, acked_features, queue_select, queues, fault>>
  BY DEF WriteFeaturesSelect, WriteAckedFeaturesSelect
<1>3. ~torn
  <2>1. torn => todo[1] \in TearDown
    BY AtTearDown DEF IInv, Doing
  <2> QED
    BY <2>1 DEF TearDown, Doing
<1>4. ASSUME NEW n \in 1 .. 12, Negotiating(n)'
      PROVE  Driver'
  BY <1>2, <1>3, <1>4 DEF Driver, IInv
<1>5. CASE Doing("FEATURES_SEL") /\ WriteFeaturesSelect(Arg)
  <2>1. \/ Negotiating(4) /\ Arg = 1
        \/ Negotiating(6) /\ Arg = 0
    BY <1>3, <1>5, WhereNegotiating DEF IInv, Doing
  <2>2. CASE Negotiating(4) /\ Arg = 1
    <3>1. Negotiating(5)'
      BY <1>1, <1>5, <2>2, AtNegotiating DEF Negotiating, WriteFeaturesSelect
    <3> QED
      BY <1>2, <1>4, <3>1
  <2>3. CASE Negotiating(6) /\ Arg = 0
    <3>1. Negotiating(7)'
      BY <1>1, <1>5, <2>3, AtNegotiating DEF Negotiating, WriteFeaturesSelect
    <3> QED
      BY <1>2, <1>4, <3>1
  <2> QED
    BY <2>1, <2>2, <2>3
<1>6. CASE Doing("ACKED_SEL") /\ WriteAckedFeaturesSelect(Arg)
  <2>1. \/ Negotiating(8) /\ Arg = 1
        \/ Negotiating(10) /\ Arg = 0
    BY <1>3, <1>6, WhereNegotiating DEF IInv, Doing
  <2>2. CASE Negotiating(8) /\ Arg = 1
    <3>1. Negotiating(9)'
      BY <1>1, <1>6, <2>2, AtNegotiating DEF Negotiating, WriteAckedFeaturesSelect
    <3> QED
      BY <1>2, <1>4, <3>1
  <2>3. CASE Negotiating(10) /\ Arg = 0
    <3>1. Negotiating(11)'
      BY <1>1, <1>6, <2>3, AtNegotiating DEF Negotiating, WriteAckedFeaturesSelect
    <3> QED
      BY <1>2, <1>4, <3>1
  <2> QED
    BY <2>1, <2>2, <2>3
<1> QED
  BY <1>2, <1>5, <1>6

LEMMA AckedKeeps ==
  ASSUME IInv, Doing("ACKED"), WriteAckedFeatures(Half(seen \cap DriverFeatures, Arg)),
         todo' = Tail(todo), UNCHANGED <<launcherVars, seen, layout, torn>>
  PROVE  /\ Driver' /\ acked_features' \subseteq avail_features
         /\ UNCHANGED <<device_status, queues, fault>>
<1>1. UNCHANGED Due /\ step' = "none" /\ step = "none" /\ Due = conns
  BY DEF launcherVars, Due, Unconnected, IInv, Serving1, Doing, Running
<1>2. UNCHANGED <<device_status, features_select, acked_features_select, queue_select,
                  queues, fault>>
  BY DEF WriteAckedFeatures
<1>3. ~torn
  <2>1. torn => todo[1] \in TearDown
    BY AtTearDown DEF IInv, Doing
  <2> QED
    BY <2>1 DEF TearDown, Doing
<1>4. acked_features' \subseteq avail_features
  BY DEF WriteAckedFeatures, IInv, Typed
<1>5. ASSUME device_status = Status(2), seen = avail_features
      PROVE  acked_features' = acked_features \cup
               (Placed(Half(Supported, Arg), acked_features_select) \cap avail_features)
  <2>1. "DRIVER" \in device_status /\ {"FEATURES_OK", FAILED} \cap device_status = {}
    BY <1>5, Constants DEF FAILED
  <2>2. seen \cap DriverFeatures = Supported
    BY <1>5 DEF Supported
  <2> QED
    BY <2>1, <2>2 DEF WriteAckedFeatures
<1>6. "DRIVER_OK" \notin Status(2)
  BY Constants
<1>7. CASE Negotiating(9) /\ Arg = 1
  <2>1. device_status = Status(2) /\ seen = avail_features /\ acked_features = {}
        /\ acked_features_select = 1
    BY <1>7 DEF Negotiating
  <2>2. acked_features' = High(Supported)
    <3>1. Supported \in SUBSET Int
      BY Features
    <3>2. Placed(Half(Supported, 1), 1) = High(Supported) /\ High(Supported) \subseteq Supported
      BY <3>1, Words
    <3> QED
      BY <1>5, <1>7, <2>1, <3>2, Features
  <2>3. Negotiating(10)'
    BY <1>1, <1>2, <1>7, <2>2, AtNegotiating DEF Negotiating
  <2> QED
    BY <1>2, <1>3, <1>4, <1>6, <2>1, <2>3 DEF Driver
<1>8. CASE Negotiating(11) /\ Arg = 0
  <2>1. device_status = Status(2) /\ seen = avail_features /\ acked_features = High(Supported)
        /\ acked_features_select = 0
    BY <1>8 DEF Negotiating
  <2>2. acked_features' = Supported
    <3>1. Supported \in SUBSET Int
      BY Features
    <3>2. High(Supported) \cup Placed(Half(Supported, 0), 0) = Supported
      BY <3>1, Words
    <3> QED
      BY <1>5, <1>8, <2>1, <3>2, Features
  <2>3. Negotiating(12)'
    BY <1>1, <1>2, <1>8, <2>2, AtNegotiating DEF Negotiating
  <2> QED
    BY <1>2, <1>3, <1>4, <1>6, <2>1, <2>3 DEF Driver
<1> QED
  BY <1>3, <1>7, <1>8, WhereNegotiating DEF IInv, Doing

LEMMA ReadFeaturesKeeps ==
  ASSUME IInv, ReadFeatures
  PROVE  Driver'
<1>1. /\ UNCHANGED <<deviceVars, Due, layout, torn>> /\ step' = "none" /\ Due = conns
      /\ todo' = Tail(todo)
  BY DEF ReadFeatures, launcherVars, Due, Unconnected, IInv, Serving1, Doing, Running
<1>2. ~torn
  <2>1. torn => todo[1] \in TearDown
    BY AtTearDown DEF IInv, Doing, ReadFeatures
  <2> QED
    BY <2>1 DEF TearDown, Doing, ReadFeatures
<1>3. avail_features \in SUBSET Int
  BY Features
<1>4. ASSUME NEW n \in {6, 8}, Negotiating(n)'
      PROVE  Driver'
  BY <1>1, <1>2, <1>4 DEF Driver, IInv, deviceVars, featureVars
<1>5. CASE Negotiating(5) /\ Arg = 1
  <2>1. seen' = High(avail_features)
    BY <1>3, <1>5, Words DEF ReadFeatures, Negotiating, ReadAvailFeatures
  <2>2. Negotiating(6)'
    BY <1>1, <1>5, <2>1, AtNegotiating DEF Negotiating, deviceVars, featureVars
  <2> QED
    BY <1>4, <2>2
<1>6. CASE Negotiating(7) /\ Arg = 0
  <2>1. seen' = avail_features
    BY <1>3, <1>6, Words DEF ReadFeatures, Negotiating, ReadAvailFeatures
  <2>2. Negotiating(8)'
    BY <1>1, <1>6, <2>1, AtNegotiating DEF Negotiating, deviceVars, featureVars
  <2> QED
    BY <1>4, <2>2
<1> QED
  BY <1>2, <1>5, <1>6, WhereNegotiating DEF IInv, Doing, ReadFeatures
(* The accesses that set a queue up. *)
LEMMA QueueSelKeeps ==
  ASSUME IInv, Doing("QUEUE_SEL"), WriteQueueSel(Arg), todo' = Tail(todo),
         UNCHANGED <<launcherVars, seen, layout, torn>>
  PROVE  Driver'
<1>1. UNCHANGED Due /\ step' = "none" /\ step = "none" /\ Due = conns
      /\ UNCHANGED <<device_status, featureVars, queues, fault>> /\ queue_select' = Arg
  BY DEF launcherVars, Due, Unconnected, IInv, Serving1, Doing, Running, WriteQueueSel
<1>2. CASE torn
  BY <1>1, <1>2, TearsDown DEF IInv, Doing, featureVars
<1>3. CASE ~torn
  <2>1. SettingUp(0) /\ Arg = Due
    BY <1>3, WhereSettingUp DEF IInv, Doing
  <2>2. todo' = Left(14 + 10 * Due + 1)
    <3>1. Tail(todo) = Left(14 + 10 * Due + 0 + 1)
      BY <2>1, AtSettingUp DEF IInv
    <3> QED
      BY <3>1, DueType DEF IInv
  <2>3. SettingUp(1)'
    BY <1>1, <2>1, <2>2 DEF SettingUp, RingSet, featureVars
  <2> QED
    BY <1>1, <1>3, <2>3 DEF Driver, IInv, featureVars
<1> QED
  BY <1>2, <1>3

LEMMA QueueNumKeeps ==
  ASSUME IInv, Doing("QUEUE_NUM"), WriteQueueNum(Selected.size), todo' = Tail(todo),
         UNCHANGED <<launcherVars, seen, layout, torn>>
  PROVE  /\ Driver' /\ UNCHANGED <<device_status, acked_features, fault>>
         /\ queues' \in [Queues -> Queue]
         /\ \A q \in Queues :
              /\ queues'[q].kick = queues[q].kick /\ queues'[q].call = queues[q].call
              /\ queues'[q].ready = queues[q].ready
<1>1. UNCHANGED Due /\ step' = "none" /\ step = "none" /\ Due = conns
      /\ UNCHANGED <<device_status, featureVars, queue_select, fault>>
  BY DEF launcherVars, Due, Unconnected, IInv, Serving1, Doing, Running, WriteQueueNum
<1>2. ~torn
  <2>1. torn => todo[1] \in TearDown
    BY AtTearDown DEF IInv, Doing
  <2> QED
    BY <2>1 DEF TearDown, Doing
<1>3. SettingUp(2)
  BY <1>2, WhereSettingUp DEF IInv, Doing
<1>4. Due \in Queues /\ queue_select = Due
  BY <1>3, DueType, DeviceAssumption DEF SettingUp, Queues, IInv
<1>5. layout[Due].size \in Nat /\ Selected.size = layout[Due].size
  BY <1>4, LayoutAssumption DEF Selected, IInv, Typed
<1>6. /\ queues' \in [Queues -> Queue]
      /\ \A q \in Queues :
           /\ queues'[q].kick = queues[q].kick /\ queues'[q].call = queues[q].call
           /\ queues'[q].size = IF q = queue_select THEN layout[Due].size ELSE queues[q].size
           /\ queues'[q].ring = queues[q].ring /\ queues'[q].ready = queues[q].ready
  <2>1. queues \in [Queues -> Queue] /\ QueueSet("size", layout[Due].size)
    BY <1>5 DEF IInv, Typed, WriteQueueNum
  <2> QED
    BY <1>5, <2>1, SetsSize
<1>7. todo' = Left(14 + 10 * Due + 3)
  <2>1. Tail(todo) = Left(14 + 10 * Due + 2 + 1)
    BY <1>3, AtSettingUp DEF IInv
  <2> QED
    BY <2>1, DueType DEF IInv
<1>8. SettingUp(3)'
  BY <1>1, <1>3, <1>4, <1>6, <1>7 DEF SettingUp, RingSet, featureVars
<1> QED
  BY <1>1, <1>2, <1>6, <1>8 DEF Driver, IInv, featureVars
LEMMA RingKeeps ==
  ASSUME IInv, NEW f \in Rings, Doing(f),
         WriteRing(f, Arg, IF Arg = 0 THEN Selected.ring[f] % WORD
                           ELSE Selected.ring[f] \div WORD),
         todo' = Tail(todo), UNCHANGED <<launcherVars, seen, layout, torn>>
  PROVE  /\ Driver' /\ UNCHANGED <<device_status, acked_features, fault>>
         /\ queues' \in [Queues -> Queue]
         /\ \A q \in Queues :
              /\ queues'[q].kick = queues[q].kick /\ queues'[q].call = queues[q].call
              /\ queues'[q].ready = queues[q].ready
<1>1. UNCHANGED Due /\ step' = "none" /\ step = "none" /\ Due = conns
      /\ UNCHANGED <<device_status, featureVars, queue_select, fault>>
  BY DEF launcherVars, Due, Unconnected, IInv, Serving1, Doing, Running, WriteRing
<1>2. ~torn
  <2>1. torn => todo[1] \in TearDown
    BY AtTearDown DEF IInv, Doing
  <2> QED
    BY <2>1 DEF TearDown, Doing, Rings
<1>3. PICK j \in 3 .. 8, i \in {0, 1} :
        /\ SettingUp(j) /\ Arg = i
        /\ f = "desc_table" => j = 3 + i
        /\ f = "avail_ring" => j = 5 + i
        /\ f = "used_ring" => j = 7 + i
  BY <1>2, WhereSettingUp DEF IInv, Doing, Rings
<1>4. Due \in Queues /\ queue_select = Due
  BY <1>3, DueType, DeviceAssumption DEF SettingUp, Queues, IInv
<1> DEFINE a == layout[Due].ring[f]
           v == IF i = 0 THEN a % WORD ELSE a \div WORD
<1>5. a \in Nat /\ Selected.ring[f] = a
  BY <1>4, LayoutAssumption DEF Selected, IInv, Typed
<1>6. v \in Nat /\ (i = 0 => v < WORD)
  BY <1>5, Halves
<1>7. /\ queues' \in [Queues -> Queue]
      /\ \A q \in Queues :
           /\ queues'[q].kick = queues[q].kick /\ queues'[q].call = queues[q].call
           /\ queues'[q].size = queues[q].size /\ queues'[q].ready = queues[q].ready
           /\ \A g \in Rings : g # f => queues'[q].ring[g] = queues[q].ring[g]
      /\ i = 0 => queues'[Due].ring[f] % WORD = v
      /\ i = 1 => queues'[Due].ring[f] = v * WORD + (queues[Due].ring[f] % WORD)
  <2>1. queues \in [Queues -> Queue] /\ WriteRing(f, i, v)
    BY <1>3, <1>5 DEF IInv, Typed
  <2> HIDE DEF v
  <2> QED
    BY <1>3, <1>4, <1>6, <2>1, SetsRing
<1>8. RingSet(Due, f, i + 1)'
  <2>1. CASE i = 0
    BY <1>1, <1>7, <2>1 DEF RingSet
  <2>2. CASE i = 1
    <3>1. queues[Due].ring[f] % WORD = a % WORD
      BY <1>3, <2>2 DEF SettingUp, RingSet, Rings
    <3>2. v * WORD + (a % WORD) = a
      BY <1>5, <2>2, Halves
    <3>3. queues'[Due].ring[f] = a
      BY <1>7, <2>2, <3>1, <3>2
    <3> QED
      BY <1>1, <2>2, <3>3 DEF RingSet
  <2> QED
    BY <1>3, <2>1, <2>2
<1>9. todo' = Left(14 + 10 * Due + j + 1)
  BY <1>3, AtSettingUp DEF IInv
<1>10. ASSUME NEW g \in Rings, g # f, NEW k \in Int, RingSet(Due, g, k)
       PROVE  RingSet(Due, g, k)'
  BY <1>1, <1>4, <1>7, <1>10 DEF RingSet
<1>11. /\ RingSet(Due, "desc_table", j - 2)'
       /\ RingSet(Due, "avail_ring", j - 4)'
       /\ RingSet(Due, "used_ring", j - 6)'
  <2>1. CASE f = "desc_table"
    <3>1. RingSet(Due, "desc_table", j - 2)'
      BY <1>3, <1>8, <2>1
    <3>2. j - 4 < 1 /\ j - 6 < 1
      BY <1>3, <2>1
    <3> QED
      BY <3>1, <3>2 DEF RingSet
  <2>2. CASE f = "avail_ring"
    <3>1. RingSet(Due, "avail_ring", j - 4)'
      BY <1>3, <1>8, <2>2
    <3>2. j - 6 < 1 /\ j - 3 >= 2 /\ j - 2 >= 2
      BY <1>3, <2>2
    <3>3. RingSet(Due, "desc_table", j - 3)'
      BY <1>3, <1>10, <2>2 DEF SettingUp, Rings
    <3> QED
      BY <3>1, <3>2, <3>3 DEF RingSet
  <2>3. CASE f = "used_ring"
    <3>1. RingSet(Due, "used_ring", j - 6)'
      BY <1>3, <1>8, <2>3
    <3>2. j - 3 >= 2 /\ j - 2 >= 2 /\ j - 5 >= 2 /\ j - 4 >= 2
      BY <1>3, <2>3
    <3>3. RingSet(Due, "desc_table", j - 3)' /\ RingSet(Due, "avail_ring", j - 5)'
      BY <1>3, <1>10, <2>3 DEF SettingUp, Rings
    <3> QED
      BY <3>1, <3>2, <3>3 DEF RingSet
  <2> QED
    BY <2>1, <2>2, <2>3 DEF Rings
<1>12. SettingUp(j + 1)'
  <2>1. (j + 1) - 3 = j - 2 /\ (j + 1) - 5 = j - 4 /\ (j + 1) - 7 = j - 6
    OBVIOUS
  <2>2. 14 + 10 * Due + j + 1 = 14 + 10 * Due + (j + 1)
    BY DueType DEF IInv
  <2>3. queue_select' = Due' /\ queues'[Due'].size = layout'[Due'].size
    BY <1>1, <1>3, <1>4, <1>7 DEF SettingUp
  <2> QED
    BY <1>1, <1>3, <1>9, <1>11, <2>1, <2>2, <2>3 DEF SettingUp, featureVars
<1> QED
  BY <1>1, <1>2, <1>3, <1>7, <1>12 DEF Driver, IInv, featureVars
LEMMA AccessKeeps == IInv /\ Access => IInv'
<1> SUFFICES ASSUME IInv, Access PROVE IInv'
  OBVIOUS
<1>1. /\ host = "guest" /\ todo' = Tail(todo) /\ todo # <<>>
      /\ UNCHANGED <<launcherVars, seen, layout, torn, contextVars, vhostVars, fileVars>>
      /\ queues \in [Queues -> Queue] /\ torn \in BOOLEAN
      /\ device_status \subseteq Bits /\ acked_features \subseteq avail_features
      /\ fault \in {"none", "spin"}
  BY DEF Access, WriteStatus, WriteFeatures, WriteQueue, Doing, Running, IInv, Typed
<1>2. ASSUME queues' \in [Queues -> Queue],
             \A q \in Queues : /\ queues'[q].kick = queues[q].kick
                               /\ queues'[q].call = queues[q].call
                               /\ queues'[q].ready => queues[q].ready,
             device_status' \subseteq Bits, acked_features' \subseteq avail_features,
             fault' \in {"none", "spin"}, Driver'
      PROVE  IInv'
  BY <1>1, <1>2, Steady DEF launcherVars, vhostVars
<1>3. CASE Doing("RESET") /\ WriteDeviceStatus({})
  <2>1. UNCHANGED <<device_status, acked_features, queues, fault>>
    BY <1>3 DEF WriteDeviceStatus, featureVars
  <2> QED
    BY <1>1, <1>2, <1>3, <2>1, ResetKeeps
<1>4. CASE Doing("STATUS") /\ WriteDeviceStatus(device_status \cup {StatusBit(Arg)})
  <2>1. /\ device_status' \subseteq Bits /\ fault' \in {"none", "spin"}
        /\ UNCHANGED <<acked_features, queues>>
    BY <1>4, SetsStatus DEF IInv, featureVars
  <2> QED
    BY <1>1, <1>2, <1>4, <2>1, StatusKeeps
<1>5. CASE WriteFeatures
  <2>1. CASE \/ Doing("FEATURES_SEL") /\ WriteFeaturesSelect(Arg)
             \/ Doing("ACKED_SEL") /\ WriteAckedFeaturesSelect(Arg)
    BY <1>1, <1>2, <2>1, SelectKeeps
  <2>2. CASE Doing("ACKED") /\ WriteAckedFeatures(Half(seen \cap DriverFeatures, Arg))
    BY <1>1, <1>2, <2>2, AckedKeeps
  <2> QED
    BY <1>5, <2>1, <2>2 DEF WriteFeatures
<1>6. CASE Doing("QUEUE_SEL") /\ WriteQueueSel(Arg)
  <2>1. UNCHANGED <<device_status, acked_features, queues, fault>>
    BY <1>6 DEF WriteQueueSel, featureVars
  <2> QED
    BY <1>1, <1>2, <1>6, <2>1, QueueSelKeeps
<1>7. CASE Doing("QUEUE_NUM") /\ WriteQueueNum(Selected.size)
  BY <1>1, <1>2, <1>7, QueueNumKeeps
<1>8. CASE \E f \in Rings :
             /\ Doing(f)
             /\ WriteRing(f, Arg, IF Arg = 0 THEN Selected.ring[f] % WORD
                                  ELSE Selected.ring[f] \div WORD)
  BY <1>1, <1>2, <1>8, RingKeeps
<1>9. CASE Doing("QUEUE_READY") /\ Arg = 0 /\ WriteQueueReady(FALSE)
  <2>1. torn
    BY <1>9, WhereSettingUp DEF IInv, Doing
  <2>2. UNCHANGED <<device_status, acked_features, fault>> /\ QueueSet("ready", FALSE)
    BY <1>9 DEF WriteQueueReady, featureVars
  <2>3. /\ queues' \in [Queues -> Queue]
        /\ \A q \in Queues :
             /\ queues'[q].kick = queues[q].kick /\ queues'[q].call = queues[q].call
             /\ queues'[q].ready => queues[q].ready
    BY <1>1, <2>2, SetsReady
  <2>4. step' = "none"
    BY <1>1 DEF IInv, Serving1, launcherVars
  <2>5. Driver'
    BY <1>1, <2>1, <2>2, <2>4, TearsDown DEF IInv
  <2>6. /\ device_status' \subseteq Bits /\ acked_features' \subseteq avail_features
        /\ fault' \in {"none", "spin"}
    BY <1>1, <2>2
  <2> QED
    BY <1>2, <2>3, <2>5, <2>6
<1> QED
  BY <1>3, <1>4, <1>5, <1>6, <1>7, <1>8, <1>9 DEF Access, WriteStatus, WriteQueue

(* Giving the device up, at any point. *)
LEMMA Sequences ==
  ASSUME NEW R \in {Reset, <<>>}, NEW bit \in {1, FailedBit}
  PROVE  R \o DelQueues \o AddStatus(bit) \in Seq(TearDown)
<1>1. R \in Seq(TearDown)
  <2>1. Reset \in Seq(TearDown) /\ <<>> \in Seq(TearDown)
    BY DEF Reset, TearDown
  <2> QED
    BY <2>1, Zenon
<1>2. DelQueues \in Seq(TearDown)
  <2>1. \A i \in 1 .. QUEUE_NUM : i - 1 \in Queues
    BY DeviceAssumption DEF Queues
  <2>2. \A i \in 1 .. QUEUE_NUM : <<"DEL_QUEUE", i - 1>> \in TearDown
    BY <2>1 DEF TearDown
  <2>3. DelQueues \in [1 .. QUEUE_NUM -> TearDown] /\ QUEUE_NUM \in Nat
    BY <2>2, DeviceAssumption DEF DelQueues
  <2> QED
    BY <2>3, IsASeq
<1>3. AddStatus(bit) \in Seq(TearDown)
  BY DEF AddStatus, TearDown
<1>4. R \o DelQueues \in Seq(TearDown)
  BY <1>1, <1>2, ConcatProperties, Zenon
<1> QED
  BY <1>3, <1>4, ConcatProperties, Zenon

LEMMA GivesUp ==
  ASSUME IInv, host = "guest", todo' \in Seq(TearDown), torn' = TRUE,
         UNCHANGED <<deviceVars, launcherVars, seen, layout, contextVars, vhostVars, fileVars>>
  PROVE  IInv'
<1>1. step' = "none"
  BY DEF IInv, Serving1, launcherVars
<1>2. Driver'
  BY <1>1 DEF IInv, Driver, deviceVars, featureVars, Supported
<1> QED
  BY <1>2, Steady DEF IInv, Typed, deviceVars, featureVars, launcherVars, vhostVars

LEMMA GoesOn ==
  ASSUME IInv, host = "guest", Driver', UNCHANGED torn,
         UNCHANGED <<deviceVars, launcherVars, layout, contextVars, vhostVars, fileVars>>
  PROVE  IInv'
BY Steady DEF IInv, Typed, deviceVars, featureVars, launcherVars, vhostVars

LEMMA CheckKeeps == IInv /\ Check => IInv'
<1> SUFFICES ASSUME IInv, Check PROVE IInv'
  OBVIOUS
<1>1. /\ host = "guest" /\ todo # <<>>
      /\ UNCHANGED <<deviceVars, launcherVars, seen, layout, contextVars, vhostVars, fileVars>>
      /\ Failing(FALSE) \/ (todo' = Tail(todo) /\ UNCHANGED torn)
      /\ Doing("CHECK_STATUS") \/ Doing("CHECK_QUEUE")
  BY DEF Check, Doing, Running
<1>2. CASE Failing(FALSE)
  <2>1. todo' \in Seq(TearDown) /\ torn' = TRUE
    BY <1>2, Sequences DEF Failing
  <2> QED
    BY <1>1, <2>1, GivesUp
<1>3. CASE todo' = Tail(todo) /\ UNCHANGED torn
  <2>1. UNCHANGED <<Due, torn>> /\ step = "none" /\ step' = "none" /\ Due = conns
    BY <1>1, <1>3 DEF launcherVars, Due, Unconnected, IInv, Serving1
  <2>2. ~torn
    <3>1. torn => todo[1] \in TearDown
      BY <1>1, AtTearDown DEF IInv
    <3> QED
      BY <1>1, <3>1 DEF TearDown, Doing
  <2>3. CASE Doing("CHECK_STATUS")
    <3>1. Negotiating(13)
      BY <1>1, <2>2, <2>3, WhereNegotiating DEF IInv, Doing
    <3>2. todo' = Left(14 + 10 * Due + 0) /\ Due = 0
      BY <1>3, <3>1, AtNegotiating DEF Negotiating
    <3>3. SettingUp(0)'
      BY <1>1, <2>1, <3>1, <3>2, DeviceAssumption
         DEF Negotiating, SettingUp, RingSet, deviceVars, featureVars
    <3>4. Driver'
      BY <1>1, <2>1, <2>2, <3>3 DEF Driver, IInv, deviceVars, featureVars
    <3> QED
      BY <1>1, <2>1, <3>4, GoesOn
  <2>4. CASE Doing("CHECK_QUEUE")
    <3>1. SettingUp(1)
      BY <1>1, <2>2, <2>4, WhereSettingUp DEF IInv, Doing
    <3>2. todo' = Left(14 + 10 * Due + 2)
      <4>1. Tail(todo) = Left(14 + 10 * Due + 1 + 1)
        BY <3>1, AtSettingUp DEF IInv
      <4> QED
        BY <1>3, <4>1, DueType DEF IInv
    <3>3. SettingUp(2)'
      BY <1>1, <2>1, <3>1, <3>2 DEF SettingUp, RingSet, deviceVars, featureVars
    <3>4. Driver'
      BY <1>1, <2>1, <2>2, <3>3 DEF Driver, IInv, deviceVars, featureVars
    <3> QED
      BY <1>1, <2>1, <3>4, GoesOn
  <2> QED
    BY <1>1, <2>3, <2>4
<1> QED
  BY <1>1, <1>2, <1>3

LEMMA ReadFeaturesStep == IInv /\ ReadFeatures => IInv'
<1> SUFFICES ASSUME IInv, ReadFeatures PROVE IInv'
  OBVIOUS
<1>1. /\ host = "guest" /\ UNCHANGED torn
      /\ UNCHANGED <<deviceVars, launcherVars, layout, contextVars, vhostVars, fileVars>>
  BY DEF ReadFeatures, Doing, Running
<1> QED
  BY <1>1, ReadFeaturesKeeps, GoesOn

LEMMA SetupFailsKeeps == IInv /\ SetupFails => IInv'
<1> SUFFICES ASSUME IInv, SetupFails PROVE IInv'
  OBVIOUS
<1>1. /\ host = "guest"
      /\ UNCHANGED <<deviceVars, launcherVars, seen, layout, contextVars, vhostVars, fileVars>>
      /\ Failing(FALSE) \/ Failing(TRUE)
  BY DEF SetupFails, Doing, Running
<1>2. todo' \in Seq(TearDown) /\ torn' = TRUE
  BY <1>1, Sequences DEF Failing
<1> QED
  BY <1>1, <1>2, GivesUp

LEMMA UnbindKeeps == IInv /\ Unbind => IInv'
<1> SUFFICES ASSUME IInv, Unbind PROVE IInv'
  OBVIOUS
<1>1. /\ host = "guest"
      /\ UNCHANGED <<deviceVars, launcherVars, seen, layout, contextVars, vhostVars, fileVars>>
      /\ todo' \in Seq(TearDown) /\ torn' = TRUE
  BY Sequences DEF Unbind, Running
<1> QED
  BY <1>1, GivesUp

LEMMA DeleteKeeps == IInv /\ Delete => IInv'
<1> SUFFICES ASSUME IInv, Delete PROVE IInv'
  OBVIOUS
<1>1. /\ host = "guest" /\ todo # <<>> /\ todo[1][1] = "DEL_QUEUE"
      /\ UNCHANGED <<deviceVars, launcherVars, seen, layout, torn, contextVars, vhostVars, fileVars>>
      /\ todo' = DelQueue(Arg) \o Tail(todo) \/ todo' = <<>> \o Tail(todo)
  BY DEF Delete, Doing, Running
<1>2. torn
  BY <1>1, WhereSettingUp DEF IInv, Typed
<1>3. Arg \in Queues /\ Tail(todo) \in Seq(TearDown)
  BY <1>1, <1>2, AtTearDown DEF IInv, TearDown, Arg
<1>4. DelQueue(Arg) \in Seq(TearDown) /\ <<>> \in Seq(TearDown)
  BY <1>3 DEF DelQueue, TearDown
<1>5. todo' \in Seq(TearDown)
  BY <1>1, <1>3, <1>4, ConcatProperties, Zenon
<1> QED
  BY <1>1, <1>2, <1>5, GivesUp
(* A queue becomes ready with the size and the rings the driver chose. *)
LEMMA QueueReadyKeeps == IInv /\ QueueReady => IInv'
<1> SUFFICES ASSUME IInv, QueueReady PROVE IInv'
  OBVIOUS
<1> USE DEF contextVars, vhostVars, fileVars
<1>1. /\ host = "guest" /\ todo # <<>> /\ todo' = Tail(todo) /\ step = "none"
      /\ UNCHANGED <<conns, seen, layout, torn, contextVars, vhostVars, fileVars>>
      /\ UNCHANGED <<device_status, featureVars, queue_select, fault>>
      /\ host' = "launcher" /\ step' = "info" /\ exitIdx' = queue_select
  BY DEF QueueReady, Doing, Running, WriteQueueReady, IInv, Serving1
<1>2. ~torn
  <2>1. torn => todo[1] \in TearDown
    BY <1>1, AtTearDown DEF IInv
  <2> QED
    BY <2>1 DEF TearDown, Doing, QueueReady, Arg
<1>3. SettingUp(9)
  BY <1>1, <1>2, WhereSettingUp DEF IInv, Doing, QueueReady
<1>4. /\ Due = conns /\ conns \in Queues /\ conns < QUEUE_NUM /\ queue_select = conns
      /\ conns \in Nat /\ QUEUE_NUM \in Nat /\ Served = conns
  <2>1. Due = conns /\ Served = conns
    BY <1>1 DEF Due, Served, Unconnected
  <2>2. QUEUE_NUM \in Nat /\ conns \in 0 .. QUEUE_NUM
    BY DeviceAssumption DEF IInv, Typed
  <2>3. Due < QUEUE_NUM /\ queue_select = Due
    BY <1>3 DEF SettingUp
  <2> QED
    BY <2>1, <2>2, <2>3 DEF Queues
<1>5. Due' = conns + 1 /\ Served' = conns
  BY <1>1 DEF Due, Served, Unconnected
<1>6. /\ queues' \in [Queues -> Queue]
      /\ \A q \in Queues :
           /\ queues'[q].kick = queues[q].kick /\ queues'[q].call = queues[q].call
           /\ queues'[q].size = queues[q].size /\ queues'[q].ring = queues[q].ring
           /\ queues'[q].ready = IF q = queue_select THEN TRUE ELSE queues[q].ready
  <2>1. queues \in [Queues -> Queue] /\ QueueSet("ready", TRUE)
    BY DEF IInv, Typed, QueueReady, WriteQueueReady
  <2> QED
    BY <2>1, SetsReady
<1>7. queues[conns].size = layout[conns].size /\ queues[conns].ring = layout[conns].ring
  <2>1. queues[conns].size = layout[conns].size
    BY <1>3, <1>4 DEF SettingUp
  <2>2. \A f \in Rings : queues[conns].ring[f] = layout[conns].ring[f]
    BY <1>3, <1>4 DEF SettingUp, RingSet, Rings
  <2>3. queues[conns].ring \in [Rings -> Nat] /\ layout[conns].ring \in [Rings -> Nat]
    BY <1>4, LayoutAssumption DEF IInv, Typed, Queue
  <2> QED
    BY <2>1, <2>2, <2>3
<1>8. Typed'
  BY <1>1, <1>6 DEF IInv, Typed, featureVars
<1>9. Buffers'
  BY <1>1, <1>4, <1>5 DEF IInv, Buffers
<1>10. Serving1'
  <2>1. \A q \in Queues : queues[q].ready => q < conns
    BY <1>4 DEF IInv, Serving1
  <2>2. \A q \in Queues : queues'[q].ready => q < conns + 1
    <3>1. \A q \in Queues : q \in Int
      BY DEF Queues
    <3>2. \A q \in Queues : queues'[q].ready => q = conns \/ queues[q].ready
      BY <1>4, <1>6
    <3> QED
      BY <1>4, <2>1, <3>1, <3>2
  <2>3. queues'[conns].ready /\ queues'[conns].size = layout[conns].size
        /\ queues'[conns].ring = layout[conns].ring
    BY <1>4, <1>6, <1>7
  <2> QED
    BY <1>1, <1>4, <1>5, <2>2, <2>3 DEF Serving1, Unconnected
<1>11. Held'
  BY <1>1, <1>4, <1>5, <1>6 DEF IInv, Held
<1>12. Rings1'
  BY <1>1 DEF IInv, Rings1, SeenBy
<1>13. Driver'
  <2>1. todo' = Left(14 + 10 * (conns + 1) + 0)
    <3>1. Tail(todo) = Left(14 + 10 * Due + 9 + 1)
      BY <1>3, AtSettingUp DEF IInv
    <3> QED
      BY <1>1, <1>4, <3>1
  <2>2. CASE conns + 1 < QUEUE_NUM
    <3>1. SettingUp(0)'
      BY <1>1, <1>3, <1>5, <2>1, <2>2 DEF SettingUp, RingSet, featureVars
    <3> QED
      BY <1>1, <1>2, <3>1 DEF IInv, Driver, featureVars
  <2>3. CASE conns + 1 = QUEUE_NUM
    <3>1. Finishing'
      BY <1>1, <1>3, <1>4, <1>5, <2>1, <2>3 DEF SettingUp, Finishing, featureVars
    <3> QED
      BY <1>1, <1>2, <3>1 DEF IInv, Driver, featureVars
  <2> QED
    BY <1>4, <2>2, <2>3
<1> QED
  BY <1>8, <1>9, <1>10, <1>11, <1>12, <1>13 DEF IInv

LEMMA NotifyKeeps == IInv /\ Notify => IInv'
<1> SUFFICES ASSUME IInv, Notify PROVE IInv'
  OBVIOUS
<1>1. /\ host = "guest" /\ todo # <<>> /\ todo' = Tail(todo) /\ step = "none"
      /\ UNCHANGED <<launcherVars, seen, layout, torn, contextVars, vhost, posted, used, owed,
                     fileVars>>
      /\ UNCHANGED <<device_status, featureVars, queue_select, queues>>
  BY DEF Notify, Doing, Running, WriteQueueNotify, IInv, Serving1
<1>2. ~torn
  <2>1. torn => todo[1] \in TearDown
    BY <1>1, AtTearDown DEF IInv
  <2> QED
    BY <2>1 DEF TearDown, Doing, Notify
<1>3. Operating /\ Arg \in Queues /\ Tail(todo) = <<>>
  BY <1>1, <1>2, WhereSettingUp DEF IInv, Doing, Notify
<1>4. conns = QUEUE_NUM
  BY <1>1, <1>3, DueType DEF Operating, IInv
<1>5. queues[Arg].kick # NoCtx
  <2>1. Arg < conns
    BY <1>3, <1>4, DeviceAssumption DEF Queues
  <2>2. queues[Arg].kick = <<"kick", Arg + 1>>
    BY <1>3, <2>1 DEF IInv, Held, KickOf
  <2> QED
    BY <2>2 DEF NoCtx
<1>6. UNCHANGED fault
  BY <1>5 DEF Notify, WriteQueueNotify
<1>7. Driver'
  <2>1. Operating'
    BY <1>1, <1>3 DEF Operating, Due, Unconnected, launcherVars
  <2> QED
    BY <1>1, <1>2, <2>1 DEF IInv, Driver, featureVars
<1> QED
  BY <1>1, <1>6, <1>7, Steady DEF IInv, Typed, featureVars, launcherVars

LEMMA PostKeeps ==
  ASSUME IInv, NEW q \in Queues, Post(q)
  PROVE  IInv'
<1> USE DEF deviceVars, featureVars, launcherVars, contextVars, vhostVars, fileVars
<1>1. Operating
  <2>1. ~torn /\ todo = <<>>
    BY DEF Post
  <2>2. \A n \in 1 .. 13 : ~Negotiating(n)
    BY <2>1, AtNegotiating
  <2>3. \A j \in 0 .. 9 : ~SettingUp(j)
    BY <2>1, AtSettingUp DEF IInv
  <2> QED
    BY <2>1, <2>2, <2>3, AtFinishing, Stages DEF IInv
<1>2. step = "none" /\ Due = QUEUE_NUM /\ Served = QUEUE_NUM
  BY <1>1 DEF Operating, Post, Running, IInv, Serving1, Due, Served, Unconnected
<1>3. Due' = Due /\ Served' = QUEUE_NUM
  BY <1>2 DEF Post, Due, Served, Unconnected
<1>4. /\ posted' \in [Queues -> 0 .. MaxPosted]
      /\ \A p \in Queues : posted[p] <= posted'[p] /\ posted[p] \in Nat
                         /\ posted'[p] \in Nat
  BY SetupAssumption DEF Post, IInv, Typed
<1>5. Typed'
  BY <1>4 DEF Post, IInv, Typed
<1>6. Buffers'
  BY <1>3, <1>4 DEF Post, IInv, Buffers, Typed
<1>7. Serving1'
  BY <1>3 DEF Post, IInv, Serving1, Unconnected
<1>8. Held'
  BY <1>2, <1>3 DEF Post, IInv, Held
<1>9. Rings1'
  BY DEF Post, IInv, Rings1, SeenBy
<1>10. Driver'
  <2>1. Operating'
    BY <1>2, <1>3 DEF Post, Operating
  <2> QED
    BY <2>1 DEF Post, IInv, Driver
<1> QED
  BY <1>5, <1>6, <1>7, <1>8, <1>9, <1>10 DEF IInv
-----------------------------------------------------------------------------
(* The launcher. *)
LEMMA Ends ==
  ASSUME IInv, host' = "exited",
         UNCHANGED <<deviceVars, step, exitIdx, conns, driverVars, contextVars, vhostVars, fileVars>>
  PROVE  IInv'
<1> USE DEF deviceVars, featureVars, driverVars, contextVars, vhostVars, fileVars
<1>1. Due' = Due /\ Served' = Served
  BY DEF Due, Served, Unconnected
<1>2. Typed' /\ Buffers' /\ Rings1'
  BY <1>1 DEF IInv, Typed, Buffers, Rings1, SeenBy
<1>3. Serving1'
  BY <1>1 DEF IInv, Serving1, Unconnected
<1>4. Held'
  BY <1>1 DEF IInv, Held
<1>5. Driver'
  <2>1. torn => step' = "none"
    BY DEF IInv, Driver
  <2>2. Due \in 0 .. QUEUE_NUM + 1
    BY DueType DEF IInv
  <2> QED
    BY <1>1, <2>1, <2>2, DriverKept DEF IInv
<1> QED
  BY <1>2, <1>3, <1>4, <1>5 DEF IInv

LEMMA ShutdownKeeps == IInv /\ Shutdown => IInv'
BY Ends DEF Shutdown

LEMMA FatalKeeps == IInv /\ Fatal => IInv'
BY Ends DEF Fatal

\* references taken and put back
LEMMA PutBack ==
  ASSUME NEW r \in [Contexts -> Int], NEW c \in Contexts
  PROVE  Get(r, c) \in [Contexts -> Int] /\ Put(Get(r, c), c) = r
<1>1. Get(r, c) \in [Contexts -> Int] /\ Get(r, c)[c] = r[c] + 1
      /\ \A d \in Contexts : d # c => Get(r, c)[d] = r[d]
  BY DEF Get
<1> DEFINE g == Get(r, c)  p == Put(g, c)
<1> HIDE DEF g
<1>2. p \in [Contexts -> Int] /\ p[c] = g[c] - 1 /\ \A d \in Contexts : d # c => p[d] = g[d]
  BY <1>1 DEF Put, g
<1> HIDE DEF p
<1>3. \A d \in Contexts : p[d] = r[d]
  BY <1>1, <1>2 DEF g
<1>4. p = r
  BY <1>2, <1>3
<1> QED
  BY <1>1, <1>4 DEF p, g

LEMMA SetVringEfdsFailsKeeps == IInv /\ SetVringEfdsFails => IInv'
<1> SUFFICES ASSUME IInv, SetVringEfdsFails PROVE IInv'
  OBVIOUS
<1>1. conns \in Nat /\ conns < QUEUE_NUM /\ QUEUE_NUM \in Nat
  BY DeviceAssumption DEF SetVringEfdsFails, IInv, Typed
<1>2. Kick \in Contexts /\ Call \in Contexts /\ Kick # Call
  BY <1>1 DEF Kick, Call, Contexts
<1>3. refs \in [Contexts -> Int]
  BY DEF IInv, Held
<1>4. OutPutKick(Get(refs, Kick)) = refs
  BY <1>2, <1>3, PutBack DEF OutPutKick
<1>5. OutPutCall(Get(Get(refs, Kick), Call)) = refs
  <2>1. Get(refs, Kick) \in [Contexts -> Int]
    BY <1>2, <1>3, PutBack
  <2>2. Put(Get(Get(refs, Kick), Call), Call) = Get(refs, Kick)
    BY <1>2, <2>1, PutBack
  <2> QED
    BY <1>4, <2>2 DEF OutPutCall
<1>6. refs' = refs
  BY <1>4, <1>5 DEF SetVringEfdsFails
<1> QED
  BY <1>6, Ends DEF SetVringEfdsFails, contextVars

\* what a step of handle_exit_vring_ready that leaves the contexts alone keeps
LEMMA Serves ==
  ASSUME IInv, host = "launcher", step # "none",
         UNCHANGED <<deviceVars, exitIdx, conns, driverVars, contextVars, pending,
                     posted, used, owed, fileVars>>,
         Due' = Due
  PROVE  Driver' /\ conns \in Nat /\ QUEUE_NUM \in Nat /\ exitIdx \in Queues
<1> USE DEF deviceVars, featureVars, driverVars, contextVars, vhostVars, fileVars
<1>1. conns \in 0 .. QUEUE_NUM /\ QUEUE_NUM \in Nat
  BY DeviceAssumption DEF IInv, Typed
<1>2. exitIdx \in Queues
  <2>1. \/ Unconnected /\ exitIdx = conns /\ conns < QUEUE_NUM
        \/ step \in {"kick", "call"} /\ exitIdx = conns - 1 /\ conns > 0
    BY DEF IInv, Serving1, Typed, Unconnected
  <2> QED
    BY <1>1, <2>1 DEF Queues
<1>3. Driver'
  <2>1. ~torn
    BY DEF IInv, Driver
  <2>2. Due \in 0 .. QUEUE_NUM + 1
    BY DueType DEF IInv
  <2> QED
    BY <2>1, <2>2, DriverKept DEF IInv
<1> QED
  BY <1>1, <1>2, <1>3

\* where the launcher has the container's memory
LEMMA Mapped ==
  ASSUME NEW phys \in (phys_base .. phys_base + MEM_SIZE - 1)
                       \cup (phys_base2 .. phys_base2 + MEM_SIZE - 1)
  PROVE  phys2virt(phys) \in Int /\ Maps(phys2virt(phys), phys)
<1>1. phys_base \in Nat /\ phys_base2 \in Nat /\ virt_base \in Nat /\ virt_base2 \in Nat
      /\ MEM_SIZE \in Nat
  BY SetupAssumption
<1>2. CASE phys >= phys_base /\ phys < phys_base + MEM_SIZE
  <2> DEFINE i == phys - phys_base
  <2>1. i \in 0 .. MEM_SIZE - 1 /\ phys = phys_base + i /\ phys2virt(phys) = virt_base + i
    BY <1>1, <1>2 DEF phys2virt
  <2> HIDE DEF i
  <2> QED
    BY <1>1, <2>1 DEF Maps
<1>3. CASE ~(phys >= phys_base /\ phys < phys_base + MEM_SIZE)
  <2> DEFINE i == phys - phys_base2
  <2>1. i \in 0 .. MEM_SIZE - 1 /\ phys = phys_base2 + i /\ phys2virt(phys) = virt_base2 + i
    BY <1>1, <1>3 DEF phys2virt
  <2> HIDE DEF i
  <2> QED
    BY <1>1, <2>1 DEF Maps
<1> QED
  BY <1>2, <1>3

LEMMA DescribeVringKeeps == IInv /\ DescribeVring => IInv'
<1> SUFFICES ASSUME IInv, DescribeVring PROVE IInv'
  OBVIOUS
<1> USE DEF deviceVars, featureVars, driverVars, contextVars, vhostVars, fileVars
<1>1. /\ host = "launcher" /\ step = "info" /\ step' = "backend" /\ exitIdx \in Queues
      /\ UNCHANGED <<deviceVars, host, exitIdx, conns, driverVars, contextVars, pending,
                     posted, used, owed, fileVars>>
  BY DEF DescribeVring, Serving
<1>2. Due' = Due /\ Served' = Served
  BY <1>1 DEF Due, Served, Unconnected
<1>3. Driver'
  BY <1>1, <1>2, Serves
<1> DEFINE addr == [f \in Rings |-> phys2virt(queues[exitIdx].ring[f])]
           new == [vhost[exitIdx] EXCEPT !.num = queues[exitIdx].size, !.addr = addr]
<1>4. queues[exitIdx].size = layout[exitIdx].size /\ queues[exitIdx].ring = layout[exitIdx].ring
      /\ queues[exitIdx].size \in Nat /\ vhost[exitIdx] \in Virtqueue
  BY <1>1 DEF IInv, Serving1, Typed, Queue
<1>5. \A f \in Rings : phys2virt(layout[exitIdx].ring[f]) \in Int
                      /\ Maps(phys2virt(layout[exitIdx].ring[f]), layout[exitIdx].ring[f])
  BY <1>1, Mapped, LayoutAssumption DEF IInv, Typed
<1>6. addr \in [Rings -> Int] /\ \A f \in Rings : Maps(addr[f], layout[exitIdx].ring[f])
  BY <1>4, <1>5
<1>7. vhost' = [vhost EXCEPT ![exitIdx] = new]
  BY DEF DescribeVring
<1> HIDE DEF addr
<1>8. /\ new \in Virtqueue /\ new.num = layout[exitIdx].size /\ new.addr = addr
      /\ new.call = vhost[exitIdx].call /\ new.backend = vhost[exitIdx].backend
  BY <1>4, <1>6 DEF Virtqueue
<1> HIDE DEF new
<1>9. /\ vhost' \in [Queues -> Virtqueue]
      /\ \A q \in Queues : vhost'[q] = IF q = exitIdx THEN new ELSE vhost[q]
  BY <1>7, <1>8 DEF IInv, Typed
<1>10. Typed'
  BY <1>1, <1>9 DEF IInv, Typed
<1>11. Buffers'
  BY <1>1, <1>2 DEF IInv, Buffers
<1>12. Serving1'
  BY <1>1, <1>2 DEF IInv, Serving1, Unconnected
<1>13. Held'
  BY <1>1, <1>2, <1>8, <1>9 DEF IInv, Held
<1>14. Rings1'
  BY <1>1, <1>6, <1>8, <1>9 DEF IInv, Rings1, SeenBy
<1> QED
  BY <1>3, <1>10, <1>11, <1>12, <1>13, <1>14 DEF IInv

LEMMA SetBackendKeeps == IInv /\ SetBackend => IInv'
<1> SUFFICES ASSUME IInv, SetBackend PROVE IInv'
  OBVIOUS
<1> USE DEF deviceVars, featureVars, driverVars, contextVars, vhostVars, fileVars
<1>1. /\ host = "launcher" /\ step = "backend" /\ step' = "efds"
      /\ UNCHANGED <<deviceVars, host, exitIdx, conns, driverVars, contextVars, pending,
                     posted, used, owed, fileVars>>
  BY DEF SetBackend, Serving
<1>2. Due' = Due /\ Served' = Served
  BY <1>1 DEF Due, Served, Unconnected
<1>3. Driver' /\ exitIdx \in Queues
  BY <1>1, <1>2, Serves
<1>4. /\ vhost' \in [Queues -> Virtqueue]
      /\ \A q \in Queues :
           /\ vhost'[q].num = vhost[q].num /\ vhost'[q].addr = vhost[q].addr
           /\ vhost'[q].call = vhost[q].call
           /\ vhost'[q].backend = IF q = exitIdx THEN TRUE ELSE vhost[q].backend
  BY <1>3 DEF SetBackend, IInv, Typed, Virtqueue
<1>5. Typed'
  BY <1>1, <1>4 DEF IInv, Typed
<1>6. Buffers'
  BY <1>1, <1>2 DEF IInv, Buffers
<1>7. Serving1'
  BY <1>1, <1>2 DEF IInv, Serving1, Unconnected
<1>8. Held'
  BY <1>1, <1>2, <1>4 DEF IInv, Held
<1>9. Rings1'
  BY <1>1, <1>4 DEF IInv, Rings1, SeenBy
<1> QED
  BY <1>3, <1>5, <1>6, <1>7, <1>8, <1>9 DEF IInv

LEMMA SetVringKickKeeps == IInv /\ SetVringKick => IInv'
<1> SUFFICES ASSUME IInv, SetVringKick PROVE IInv'
  OBVIOUS
<1> USE DEF deviceVars, featureVars, driverVars, contextVars, vhostVars, fileVars
<1>1. /\ host = "launcher" /\ step = "kick" /\ step' = "call"
      /\ UNCHANGED <<deviceVars, host, exitIdx, conns, driverVars, contextVars, pending,
                     posted, used, owed, fileVars>>
  BY DEF SetVringKick, Serving
<1>2. Due' = Due /\ Served' = Served
  BY <1>1 DEF Due, Served, Unconnected
<1>3. Driver' /\ exitIdx \in Queues
  BY <1>1, <1>2, Serves
<1>4. /\ vhost' \in [Queues -> Virtqueue]
      /\ \A q \in Queues :
           /\ vhost'[q].num = vhost[q].num /\ vhost'[q].addr = vhost[q].addr
           /\ vhost'[q].call = vhost[q].call /\ vhost'[q].backend = vhost[q].backend
  BY <1>3 DEF SetVringKick, IInv, Typed, Virtqueue, Queue
<1>5. Typed'
  BY <1>1, <1>4 DEF IInv, Typed
<1>6. Buffers'
  BY <1>1, <1>2 DEF IInv, Buffers
<1>7. Serving1'
  BY <1>1, <1>2 DEF IInv, Serving1, Unconnected
<1>8. Held'
  BY <1>1, <1>2, <1>4 DEF IInv, Held
<1>9. Rings1'
  BY <1>1, <1>4 DEF IInv, Rings1, SeenBy
<1> QED
  BY <1>3, <1>5, <1>6, <1>7, <1>8, <1>9 DEF IInv
LEMMA SetVringCallKeeps == IInv /\ SetVringCall => IInv'
<1> SUFFICES ASSUME IInv, SetVringCall PROVE IInv'
  OBVIOUS
<1> USE DEF deviceVars, featureVars, driverVars, contextVars, vhostVars, fileVars
<1>1. /\ host = "launcher" /\ step = "call" /\ step' = "none" /\ host' = "guest"
      /\ UNCHANGED <<deviceVars, exitIdx, conns, driverVars, contextVars, pending,
                     posted, used, owed, fileVars>>
  BY DEF SetVringCall, Serving
<1>2. Due' = Due /\ Due = conns /\ Served = conns - 1 /\ Served' = conns
  BY <1>1 DEF Due, Served, Unconnected
<1>3. Driver' /\ conns \in Nat /\ QUEUE_NUM \in Nat /\ exitIdx \in Queues
  BY <1>1, <1>2, Serves
<1>4. exitIdx = conns - 1
  BY <1>1 DEF IInv, Serving1
<1>5. queues[exitIdx].call = CallOf(exitIdx) /\ queues[exitIdx].call \in Contexts \cup {NoCtx}
  BY <1>3, <1>4 DEF IInv, Held, Typed, Queue
<1>6. /\ vhost' \in [Queues -> Virtqueue]
      /\ \A q \in Queues :
           /\ vhost'[q].num = vhost[q].num /\ vhost'[q].addr = vhost[q].addr
           /\ vhost'[q].backend = vhost[q].backend
           /\ vhost'[q].call = IF q = exitIdx THEN CallOf(exitIdx) ELSE vhost[q].call
  BY <1>3, <1>5 DEF SetVringCall, IInv, Typed, Virtqueue
<1>7. Typed'
  BY <1>1, <1>6 DEF IInv, Typed
<1>8. Buffers'
  <2>1. conns <= QUEUE_NUM
    BY DEF IInv, Typed
  <2>2. Served # QUEUE_NUM
    BY <1>2, <1>3, <2>1
  <2>3. \A q \in Queues : ~(posted[q] > 0)
    BY <2>2 DEF IInv, Buffers
  <2> QED
    BY <1>1, <2>3 DEF IInv, Buffers
<1>9. Serving1'
  BY <1>1, <1>2 DEF IInv, Serving1, Unconnected
<1>10. Held'
  <2>1. \A q \in Queues : q \in Int
    BY DEF Queues
  <2>2. \A q \in Queues : vhost'[q].call = IF q < conns THEN CallOf(q) ELSE NoCtx
    <3>1. \A q \in Queues : vhost[q].call = IF q < conns - 1 THEN CallOf(q) ELSE NoCtx
      BY <1>2 DEF IInv, Held
    <3> QED
      BY <1>3, <1>4, <1>6, <2>1, <3>1
  <2> QED
    BY <1>1, <1>2, <2>2 DEF IInv, Held
<1>11. Rings1'
  BY <1>1, <1>6 DEF IInv, Rings1, SeenBy
<1> QED
  BY <1>3, <1>7, <1>8, <1>9, <1>10, <1>11 DEF IInv

(* The contexts of the next pair: references, wait entry and queue. *)
LEMMA SetVringEfdsKeeps == IInv /\ SetVringEfds => IInv'
<1> SUFFICES ASSUME IInv, SetVringEfds PROVE IInv'
  OBVIOUS
<1> USE DEF featureVars, driverVars, vhostVars, fileVars
<1>1. /\ host = "launcher" /\ step = "efds" /\ step' = "kick" /\ conns' = conns + 1
      /\ UNCHANGED <<device_status, featureVars, queue_select, fault, host, exitIdx,
                     virtio_event_cnt, driverVars, vhostVars, fileVars>>
  BY DEF SetVringEfds, Serving, Connected
<1>2. conns \in Nat /\ QUEUE_NUM \in Nat /\ conns < QUEUE_NUM /\ exitIdx = conns
      /\ conns \in Queues
  <2>1. conns \in 0 .. QUEUE_NUM /\ QUEUE_NUM \in Nat
    BY DeviceAssumption DEF IInv, Typed
  <2> QED
    BY <1>1, <2>1 DEF IInv, Serving1, Unconnected, Queues
<1>3. Due = conns + 1 /\ Due' = conns + 1 /\ Served = conns /\ Served' = conns
  BY <1>1, <1>2 DEF Due, Served, Unconnected
<1>4. Kick = KickOf(conns) /\ Call = CallOf(conns) /\ Kick # Call
      /\ Kick \in Contexts /\ Call \in Contexts
  BY <1>2 DEF Kick, Call, KickOf, CallOf, Contexts
<1>5. cntr = "open" /\ vhostOpen
  BY <1>1 DEF IInv, Held
<1> DEFINE new == [queues[exitIdx] EXCEPT !.kick = Kick, !.call = Call]
<1>6. queues' = [queues EXCEPT ![exitIdx] = new]
  BY DEF SetVringEfds, Connected
<1>7. /\ new \in Queue /\ new.kick = Kick /\ new.call = Call
      /\ new.ready = queues[exitIdx].ready /\ new.size = queues[exitIdx].size
      /\ new.ring = queues[exitIdx].ring
  BY <1>2, <1>4 DEF IInv, Typed, Queue
<1> HIDE DEF new
<1>8. /\ queues' \in [Queues -> Queue]
      /\ \A q \in Queues :
           /\ queues'[q].ready = queues[q].ready /\ queues'[q].size = queues[q].size
           /\ queues'[q].ring = queues[q].ring
           /\ queues'[q].kick = IF q = conns THEN Kick ELSE queues[q].kick
           /\ queues'[q].call = IF q = conns THEN Call ELSE queues[q].call
  BY <1>2, <1>6, <1>7 DEF IInv, Typed
<1>9. refs' = [c \in Contexts |-> IF cntr = "open" /\ c[2] <= conns + 1 THEN 1 ELSE 0]
  <2>1. refs = [c \in Contexts |-> IF c[2] <= conns THEN 1 ELSE 0]
    BY <1>5 DEF IInv, Held
  <2>2. \A c \in Contexts : refs'[c] = IF c \in {Kick, Call} THEN refs[c] + 1 ELSE refs[c]
    BY <1>4, <2>1 DEF SetVringEfds, Get
  <2>3. refs' = [c \in Contexts |-> refs'[c]]
    BY <2>1 DEF SetVringEfds, Get
  <2>4. \A c \in Contexts : c[2] \in Int /\ (c \in {Kick, Call} <=> c[2] = conns + 1)
    BY <1>2 DEF Contexts, Kick, Call
  <2>5. \A c \in Contexts : refs'[c] = IF c[2] <= conns + 1 THEN 1 ELSE 0
    BY <1>2, <2>1, <2>2, <2>4
  <2> QED
    BY <1>5, <2>3, <2>5
<1>10. waiters' = {<<CallOf(q), q>> : q \in {p \in Queues : p < conns + 1}}
  <2>1. waiters = {<<CallOf(q), q>> : q \in {p \in Queues : p < conns}}
    BY <1>5 DEF IInv, Held
  <2>2. waiters' = waiters \cup {<<CallOf(conns), conns>>}
    BY <1>2, <1>4 DEF SetVringEfds
  <2>3. {p \in Queues : p < conns + 1} = {p \in Queues : p < conns} \cup {conns}
    BY <1>2 DEF Queues
  <2> QED
    BY <2>1, <2>2, <2>3
<1>11. Typed'
  BY <1>1, <1>2, <1>8 DEF IInv, Typed
<1>12. Buffers'
  BY <1>1, <1>3 DEF IInv, Buffers
<1>13. Serving1'
  <2>1. \A q \in Queues : queues'[q].ready => q < conns + 1
    BY <1>3, <1>8 DEF IInv, Serving1
  <2>2. queues[exitIdx].ready
    BY <1>1 DEF IInv, Serving1
  <2> QED
    BY <1>1, <1>2, <1>3, <1>8, <2>1, <2>2 DEF Serving1, Unconnected
<1>14. Held'
  <2>1. \A q \in Queues : q \in Int
    BY DEF Queues
  <2>2. \A q \in Queues :
          /\ queues'[q].kick = IF q < conns + 1 THEN KickOf(q) ELSE NoCtx
          /\ queues'[q].call = IF q < conns + 1 THEN CallOf(q) ELSE NoCtx
    <3>1. \A q \in Queues :
            /\ queues[q].kick = IF q < conns THEN KickOf(q) ELSE NoCtx
            /\ queues[q].call = IF q < conns THEN CallOf(q) ELSE NoCtx
      BY DEF IInv, Held
    <3>2. conns \in Int /\ Kick = KickOf(conns) /\ Call = CallOf(conns)
      BY <1>2, <1>4
    <3>3. ASSUME NEW q \in Queues, q = conns
          PROVE  queues'[q].kick = KickOf(q) /\ queues'[q].call = CallOf(q) /\ q < conns + 1
      BY <1>8, <3>2, <3>3
    <3>4. ASSUME NEW q \in Queues, q # conns
          PROVE  /\ queues'[q].kick = queues[q].kick /\ queues'[q].call = queues[q].call
                 /\ q < conns + 1 <=> q < conns
      <4>1. q < conns + 1 <=> q < conns
        BY <2>1, <3>2, <3>4
      <4> QED
        BY <1>8, <3>4, <4>1
    <3> QED
      BY <3>1, <3>3, <3>4
  <2>3. \A q \in Queues : vhost[q].call = IF q < conns THEN CallOf(q) ELSE NoCtx
    BY <1>3 DEF IInv, Held
  <2> QED
    BY <1>1, <1>3, <1>5, <1>9, <1>10, <2>2, <2>3 DEF Held
<1>15. Rings1'
  BY <1>1 DEF IInv, Rings1, SeenBy
<1>16. Driver'
  <2>1. ~torn
    BY <1>1 DEF IInv, Driver
  <2>2. Due \in 0 .. QUEUE_NUM + 1 /\ Due' = Due
    BY <1>3, DueType DEF IInv
  <2> QED
    BY <1>1, <1>8, <2>1, <2>2, DriverKept DEF IInv
<1> QED
  BY <1>11, <1>12, <1>13, <1>14, <1>15, <1>16 DEF IInv
-----------------------------------------------------------------------------
(* vhost, and the closing of the files. *)
LEMMA Works ==
  ASSUME IInv,
         UNCHANGED <<deviceVars, launcherVars, driverVars, refs, waiters, vhost, posted, cntr>>,
         used' \in [Queues -> Nat], owed' \in [Queues -> Nat],
         \A q \in Queues : used'[q] <= posted[q] /\ owed'[q] <= used'[q],
         vhostOpen' = vhostOpen \/ (vhostOpen' = FALSE /\ host = "exited"),
         ~vhostOpen' => \A q \in Queues : owed'[q] = 0
  PROVE  IInv'
<1> USE DEF deviceVars, featureVars, launcherVars, driverVars
<1>1. Due' = Due /\ Served' = Served
  BY DEF Due, Served, Unconnected
<1>2. Typed'
  BY DEF IInv, Typed
<1>3. Buffers'
  BY <1>1 DEF IInv, Buffers
<1>4. Serving1'
  BY <1>1 DEF IInv, Serving1, Unconnected
<1>5. Held'
  <2>1. vhostOpen' \in BOOLEAN /\ (~vhostOpen' => host' = "exited")
        /\ (cntr' = "released" => ~vhostOpen')
    <3>1. vhostOpen \in BOOLEAN /\ (~vhostOpen => host = "exited")
          /\ (cntr = "released" => ~vhostOpen) /\ host' = host /\ cntr' = cntr
      BY DEF IInv, Held
    <3>2. CASE vhostOpen' = vhostOpen
      BY <3>1, <3>2, Zenon
    <3>3. CASE vhostOpen' = FALSE /\ host = "exited"
      BY <3>1, <3>3, Zenon
    <3> QED
      BY <3>2, <3>3
  <2> QED
    BY <1>1, <2>1 DEF IInv, Held
<1>6. Rings1'
  BY DEF IInv, Rings1, SeenBy
<1>7. Driver'
  <2>1. torn => step' = "none"
    BY DEF IInv, Driver
  <2>2. Due \in 0 .. QUEUE_NUM + 1
    BY DueType DEF IInv
  <2> QED
    BY <1>1, <2>1, <2>2, DriverKept DEF IInv
<1> QED
  BY <1>2, <1>3, <1>4, <1>5, <1>6, <1>7 DEF IInv

LEMMA Counts ==
  ASSUME IInv
  PROVE  /\ used \in [Queues -> Nat] /\ owed \in [Queues -> Nat]
         /\ \A q \in Queues : /\ used[q] <= posted[q] /\ owed[q] <= used[q]
                             /\ used[q] \in Nat /\ owed[q] \in Nat /\ posted[q] \in Nat
                             /\ (~vhostOpen => owed[q] = 0)
  BY SetupAssumption DEF IInv, Typed, Buffers

LEMMA PacketKeeps == IInv /\ Packet => IInv'
BY Works, Counts DEF Packet, contextVars, fileVars

LEMMA RestKeeps ==
  ASSUME IInv, NEW q \in Queues, Rest(q)
  PROVE  IInv'
BY Works, Counts DEF Rest, contextVars, fileVars

LEMMA UseKeeps ==
  ASSUME IInv, NEW q \in Queues, Use(q)
  PROVE  IInv'
<1>1. used' = [used EXCEPT ![q] = @ + 1] /\ used[q] < posted[q]
      /\ owed' \in {owed, [owed EXCEPT ![q] = @ + 1]}
      /\ UNCHANGED <<deviceVars, launcherVars, driverVars, refs, waiters, vhost, posted,
                     vhostOpen, cntr>>
      /\ vhostOpen
  BY DEF Use, Working, contextVars, fileVars
<1>2. /\ used' \in [Queues -> Nat] /\ owed' \in [Queues -> Nat]
      /\ \A p \in Queues : used'[p] <= posted[p] /\ owed'[p] <= used'[p]
  BY <1>1, Counts
<1> QED
  BY <1>1, <1>2, Works

LEMMA VirtioWakeupKeeps ==
  ASSUME IInv, NEW q \in Queues, VirtioWakeup(q)
  PROVE  IInv'
<1>1. owed' = [owed EXCEPT ![q] = @ - 1] /\ owed[q] > 0 /\ used' = used
      /\ UNCHANGED <<deviceVars, launcherVars, driverVars, refs, waiters, vhost, posted,
                     vhostOpen, cntr>>
  BY DEF VirtioWakeup, fileVars
<1>2. /\ owed' \in [Queues -> Nat]
      /\ \A p \in Queues : used'[p] <= posted[p] /\ owed'[p] <= used'[p]
  BY <1>1, Counts
<1> QED
  BY <1>1, <1>2, Works, Counts

LEMMA CloseVhostKeeps == IInv /\ CloseVhost => IInv'
BY Works, Counts DEF CloseVhost, contextVars, vhostVars

(* Each context is in one queue, so the release puts each reference once. *)
LEMMA Holders ==
  ASSUME IInv, NEW c \in Contexts
  PROVE  /\ Cardinality({q \in Queues : queues[q].kick = c})
              = IF c[1] = "kick" /\ c[2] <= conns THEN 1 ELSE 0
         /\ Cardinality({q \in Queues : queues[q].call = c})
              = IF c[1] = "call" /\ c[2] <= conns THEN 1 ELSE 0
<1>1. PICK side \in {"kick", "call"}, k \in 1 .. QUEUE_NUM : c = <<side, k>>
  BY DEF Contexts
<1>2. conns \in 0 .. QUEUE_NUM /\ QUEUE_NUM \in Nat
  BY DeviceAssumption DEF IInv, Typed
<1>3. \A q \in Queues :
        /\ queues[q].kick = IF q < conns THEN <<"kick", q + 1>> ELSE <<"NULL", 0>>
        /\ queues[q].call = IF q < conns THEN <<"call", q + 1>> ELSE <<"NULL", 0>>
  BY DEF IInv, Held, KickOf, CallOf, NoCtx
<1>4. ASSUME NEW q \in Queues
      PROVE  /\ queues[q].kick = c <=> side = "kick" /\ q < conns /\ q + 1 = k
             /\ queues[q].call = c <=> side = "call" /\ q < conns /\ q + 1 = k
  <2>1. CASE q < conns
    <3>1. queues[q].kick = <<"kick", q + 1>> /\ queues[q].call = <<"call", q + 1>>
      BY <1>3, <2>1
    <3>2. /\ <<"kick", q + 1>> = <<side, k>> <=> side = "kick" /\ q + 1 = k
          /\ <<"call", q + 1>> = <<side, k>> <=> side = "call" /\ q + 1 = k
      OBVIOUS
    <3> QED
      BY <1>1, <2>1, <3>1, <3>2
  <2>2. CASE ~(q < conns)
    <3>1. queues[q].kick = <<"NULL", 0>> /\ queues[q].call = <<"NULL", 0>>
      BY <1>3, <2>2
    <3>2. <<"NULL", 0>> # <<side, k>>
      OBVIOUS
    <3> QED
      BY <1>1, <2>2, <3>1, <3>2
  <2> QED
    BY <2>1, <2>2
<1>5. Cardinality({}) = 0 /\ Cardinality({k - 1}) = 1
  BY FS_EmptySet, FS_Singleton
<1>6. {q \in Queues : q < conns /\ q + 1 = k} = IF k <= conns THEN {k - 1} ELSE {}
  BY <1>2 DEF Queues
<1>7. {q \in Queues : queues[q].kick = c}
        = IF side = "kick" /\ k <= conns THEN {k - 1} ELSE {}
  BY <1>4, <1>6
<1>8. {q \in Queues : queues[q].call = c}
        = IF side = "call" /\ k <= conns THEN {k - 1} ELSE {}
  BY <1>4, <1>6
<1> QED
  BY <1>1, <1>5, <1>7, <1>8

LEMMA CntrReleaseKeeps == IInv /\ CntrRelease => IInv'
<1> SUFFICES ASSUME IInv, CntrRelease PROVE IInv'
  OBVIOUS
<1> USE DEF deviceVars, featureVars, launcherVars, driverVars, vhostVars
<1>1. /\ cntr = "open" /\ cntr' = "released" /\ ~vhostOpen /\ host = "exited"
      /\ UNCHANGED <<deviceVars, launcherVars, driverVars, virtio_event_cnt, vhostVars, vhostOpen>>
  BY DEF CntrRelease
<1>2. Due' = Due /\ Served' = Served
  BY <1>1 DEF Due, Served, Unconnected
<1>3. refs' = [c \in Contexts |-> 0]
  <2>1. \A c \in Contexts : refs[c] = IF c[2] <= conns THEN 1 ELSE 0
    BY <1>1 DEF IInv, Held
  <2>2. \A c \in Contexts : c[1] = "kick" \/ c[1] = "call"
    BY DEF Contexts
  <2>3. \A c \in Contexts :
          refs[c] - Cardinality({q \in Queues : queues[q].kick = c})
                  - Cardinality({q \in Queues : queues[q].call = c}) = 0
    <3> TAKE c \in Contexts
    <3>1. CASE c[2] <= conns
      BY <2>1, <2>2, <3>1, Holders
    <3>2. CASE ~(c[2] <= conns)
      BY <2>1, <3>2, Holders
    <3> QED
      BY <3>1, <3>2
  <2> QED
    BY <2>3 DEF CntrRelease, Deinit
<1>4. waiters' = {}
  <2>1. waiters = {<<CallOf(q), q>> : q \in {p \in Queues : p < conns}}
    BY <1>1 DEF IInv, Held
  <2>2. \A w \in waiters : \E q \in Queues : w = <<queues[q].call, q>>
    BY <2>1 DEF IInv, Held
  <2> QED
    BY <2>2 DEF CntrRelease
<1>5. Typed' /\ Buffers'
  BY <1>1, <1>2 DEF IInv, Typed, Buffers
<1>6. Serving1'
  BY <1>1, <1>2 DEF IInv, Serving1, Unconnected
<1>7. Held'
  BY <1>1, <1>2, <1>3, <1>4 DEF IInv, Held
<1>8. Rings1'
  BY <1>1 DEF IInv, Rings1, SeenBy
<1>9. Driver'
  <2>1. torn => step' = "none"
    BY <1>1 DEF IInv, Driver
  <2>2. Due \in 0 .. QUEUE_NUM + 1
    BY DueType DEF IInv
  <2> QED
    BY <1>1, <1>2, <2>1, <2>2, DriverKept DEF IInv
<1> QED
  BY <1>5, <1>6, <1>7, <1>8, <1>9 DEF IInv

LEMMA Stutters == IInv /\ UNCHANGED vars => IInv'
<1> SUFFICES ASSUME IInv, UNCHANGED vars PROVE IInv'
  OBVIOUS
<1> QED
  BY Works, Counts DEF vars, contextVars, vhostVars, fileVars

LEMMA StepKeeps == IInv /\ [Next]_vars => IInv'
<1> SUFFICES ASSUME IInv, [Next]_vars PROVE IInv'
  OBVIOUS
<1>1. CASE DriverStep
  BY <1>1, AccessKeeps, ReadFeaturesStep, CheckKeeps, SetupFailsKeeps, DeleteKeeps,
     QueueReadyKeeps, NotifyKeeps DEF DriverStep
<1>2. CASE \E q \in Queues : Post(q)
  BY <1>2, PostKeeps
<1>3. CASE Unbind \/ Shutdown
  BY <1>3, UnbindKeeps, ShutdownKeeps
<1>4. CASE LauncherStep
  BY <1>4, DescribeVringKeeps, SetBackendKeeps, SetVringEfdsKeeps, SetVringKickKeeps,
     SetVringCallKeeps, SetVringEfdsFailsKeeps, FatalKeeps DEF LauncherStep
<1>5. CASE VhostStep
  BY <1>5, PacketKeeps, UseKeeps, RestKeeps, VirtioWakeupKeeps DEF VhostStep
<1>6. CASE CloseVhost \/ CntrRelease
  BY <1>6, CloseVhostKeeps, CntrReleaseKeeps
<1>7. CASE UNCHANGED vars
  BY <1>7, Stutters
<1> QED
  BY <1>1, <1>2, <1>3, <1>4, <1>5, <1>6, <1>7 DEF Next

LEMMA Inductive == Spec => []IInv
BY InitInv, StepKeeps, PTL DEF Spec
-----------------------------------------------------------------------------
(* The state of the device, of vhost and of the contexts stays well typed: *)
(* counts of buffers are ordered, no context has more than one reference.  *)
THEOREM TypeCorrect == Spec => []TypeOK
<1>1. IInv => TypeOK
  <2> SUFFICES ASSUME IInv PROVE TypeOK
    OBVIOUS
  <2>1. fault \in {"none", "spin", "oops"} /\ device_status \subseteq Bits
        /\ acked_features \subseteq avail_features
        /\ host \in {"guest", "launcher", "exited"}
        /\ step \in {"none", "info", "backend", "efds", "kick", "call"}
    BY DEF IInv, Typed
  <2>2. ASSUME NEW q \in Queues
        PROVE  /\ queues[q].ready \in BOOLEAN /\ queues[q].size \in Nat
               /\ queues[q].ring \in [Rings -> Nat]
               /\ {queues[q].kick, queues[q].call} \subseteq Contexts \cup {NoCtx}
    BY DEF IInv, Typed, Queue
  <2>3. ASSUME NEW q \in Queues
        PROVE  used[q] \in 0 .. posted[q] /\ owed[q] \in 0 .. used[q]
               /\ posted[q] \in 0 .. MaxPosted
    BY Counts DEF IInv, Typed
  <2>4. refs \in [Contexts -> 0 .. 1]
    BY DEF IInv, Held
  <2>5. waiters \subseteq Contexts \X Queues
    <3>1. \A q \in Queues : CallOf(q) \in Contexts
      BY DeviceAssumption DEF Queues, CallOf, Contexts
    <3> QED
      BY <3>1 DEF IInv, Held
  <2> QED
    BY <2>1, <2>2, <2>3, <2>4, <2>5 DEF TypeOK
<1> QED
  BY <1>1, Inductive, PTL

(* handle_mmio_write_queue_notify, which does not look, always finds the   *)
(* kick context the launcher has set: the driver's notifications come      *)
(* after its last queue was connected.                                     *)
THEOREM KickFound == Spec => []NotifyFindsKick
<1>1. IInv => NotifyFindsKick
  BY DEF IInv, Typed, NotifyFindsKick
<1> QED
  BY <1>1, Inductive, PTL

(* Through two selected halves and the mask of the offered bits, the       *)
(* driver ends up with the very features the launcher gives vhost as a     *)
(* constant (but for ACCESS_PLATFORM).                                     *)
THEOREM FeaturesAgreed == Spec => []FeaturesAgree
<1>1. Supported \ {ACCESS_PLATFORM} = LauncherFeatures
  BY DriverAssumption
     DEF Supported, LauncherFeatures, avail_features, MRG_RXBUF, NOTIFY_ON_EMPTY, ANY_LAYOUT,
         INDIRECT_DESC, EVENT_IDX, VERSION_1, ACCESS_PLATFORM
<1>2. IInv => FeaturesAgree
  BY <1>1 DEF IInv, Driver, FeaturesAgree
<1> QED
  BY <1>2, Inductive, PTL

(* What the driver wrote, word by word, is what vhost works on, at the     *)
(* addresses the launcher has that memory mapped at.                       *)
THEOREM RingsSeen == Spec => []VhostSeesRings
<1>1. IInv => VhostSeesRings
  BY DEF IInv, Rings1, SeenBy, VhostSeesRings
<1> QED
  BY <1>1, Inductive, PTL

(* One reference for every context in a queue, whichever call failed; none *)
(* of them and no wait entry after the release.                            *)
THEOREM ReferencesHeld == Spec => []RefsHeld
<1>1. IInv => RefsHeld
  <2> SUFFICES ASSUME IInv PROVE RefsHeld
    OBVIOUS
  <2>1. ASSUME NEW c \in Contexts
        PROVE  c[2] <= conns <=> \E q \in Queues : c \in {queues[q].kick, queues[q].call}
    <3>1. PICK side \in {"kick", "call"}, k \in 1 .. QUEUE_NUM : c = <<side, k>>
      BY DEF Contexts
    <3>2. conns \in 0 .. QUEUE_NUM /\ QUEUE_NUM \in Nat
      BY DeviceAssumption DEF IInv, Typed
    <3>3. \A q \in Queues :
            /\ queues[q].kick = IF q < conns THEN <<"kick", q + 1>> ELSE <<"NULL", 0>>
            /\ queues[q].call = IF q < conns THEN <<"call", q + 1>> ELSE <<"NULL", 0>>
      BY DEF IInv, Held, KickOf, CallOf, NoCtx
    <3>4. ASSUME k <= conns
          PROVE  \E q \in Queues : c \in {queues[q].kick, queues[q].call}
      <4>1. k - 1 \in Queues /\ k - 1 < conns /\ (k - 1) + 1 = k
        BY <3>2, <3>4 DEF Queues
      <4>2. queues[k - 1].kick = <<"kick", k>> /\ queues[k - 1].call = <<"call", k>>
        BY <3>3, <4>1
      <4> QED
        BY <3>1, <4>1, <4>2
    <3>5. ASSUME NEW q \in Queues, c \in {queues[q].kick, queues[q].call}
          PROVE  k <= conns
      <4>1. q < conns
        <5>1. ASSUME ~(q < conns) PROVE c = <<"NULL", 0>>
          <6>1. queues[q].kick = <<"NULL", 0>> /\ queues[q].call = <<"NULL", 0>>
            BY <3>3, <5>1
          <6> QED
            BY <3>5, <6>1, Zenon
        <5>2. <<"NULL", 0>> # <<side, k>>
          OBVIOUS
        <5> QED
          BY <3>1, <5>1, <5>2
      <4>2. queues[q].kick = <<"kick", q + 1>> /\ queues[q].call = <<"call", q + 1>>
        BY <3>3, <4>1
      <4>3. q + 1 = k
        BY <3>1, <3>5, <4>2
      <4> QED
        BY <3>2, <4>1, <4>3 DEF Queues
    <3> QED
      BY <3>1, <3>4, <3>5
  <2>2. \A c \in Contexts : refs[c] = IF cntr = "open" /\ c[2] <= conns THEN 1 ELSE 0
    BY DEF IInv, Held
  <2>3. cntr = "released" => waiters = {}
    BY DEF IInv, Held
  <2> QED
    BY <2>1, <2>2, <2>3 DEF RefsHeld
<1> QED
  BY <1>1, Inductive, PTL

(* A signal finds the wait entry of its queue, and no other: virtio_wakeup *)
(* counts it once.                                                         *)
LEMMA WakesOnce ==
  ASSUME IInv, NEW q \in Queues, VirtioWakeup(q)
  PROVE  virtio_event_cnt' = virtio_event_cnt + 1
<1>1. owed[q] > 0 /\ vhostOpen /\ Served = QUEUE_NUM
  <2>1. owed[q] > 0 /\ owed[q] <= used[q] /\ used[q] <= posted[q]
        /\ owed[q] \in Nat /\ used[q] \in Nat /\ posted[q] \in Nat
    BY Counts DEF VirtioWakeup
  <2> QED
    BY <2>1, Counts DEF IInv, Buffers
<1>2. conns \in 0 .. QUEUE_NUM /\ QUEUE_NUM \in Nat
  BY DeviceAssumption DEF IInv, Typed
<1>3. q < Served /\ q < conns
  BY <1>1, <1>2 DEF Served, Queues
<1>4. vhost[q].call = CallOf(q)
  BY <1>3 DEF IInv, Held
<1>5. waiters = {<<CallOf(p), p>> : p \in {p \in Queues : p < conns}}
  BY <1>1 DEF IInv, Held
<1>6. \A p \in Queues : CallOf(p) = CallOf(q) => p = q
  BY DeviceAssumption DEF CallOf, Queues
<1>7. {w \in waiters : w[1] = CallOf(q)} = {<<CallOf(q), q>>}
  BY <1>3, <1>5, <1>6
<1>8. Cardinality({<<CallOf(q), q>>}) = 1
  BY FS_Singleton
<1> QED
  BY <1>4, <1>7, <1>8 DEF VirtioWakeup

(* A use is owed a signal, for the call context is there before the kick.  *)
LEMMA UsesOwe ==
  ASSUME IInv, NEW q \in Queues, Use(q)
  PROVE  used' = [used EXCEPT ![q] = @ + 1] /\ owed' = [owed EXCEPT ![q] = @ + 1]
<1>1. posted[q] > 0
  BY Counts DEF Use
<1>2. q < Served
  BY <1>1, DeviceAssumption DEF IInv, Buffers, Queues
<1>3. vhost[q].call = CallOf(q) /\ CallOf(q) # NoCtx
  BY <1>2 DEF IInv, Held, CallOf, NoCtx
<1> QED
  BY <1>3 DEF Use

LEMMA SignalledFinite ==
  Signalled \in SUBSET (Queues \X (1 .. MaxPosted)) /\ IsFiniteSet(Signalled)
<1>1. IsFiniteSet(Queues)
  <2>1. 0 \in Int /\ QUEUE_NUM - 1 \in Int
    BY DeviceAssumption
  <2> QED
    BY <2>1, FS_Interval DEF Queues
<1>2. IsFiniteSet(1 .. MaxPosted)
  <2>1. 1 \in Int /\ MaxPosted \in Int
    BY SetupAssumption
  <2> QED
    BY <2>1, FS_Interval
<1>3. IsFiniteSet(Queues \X (1 .. MaxPosted))
  BY <1>1, <1>2, FS_Product
<1>4. Signalled \in SUBSET (Queues \X (1 .. MaxPosted))
  BY DEF Signalled
<1> QED
  BY <1>3, <1>4, FS_Subset

LEMMA SignalCounted ==
  ASSUME IInv, UsesCounted, NEW q \in Queues, VirtioWakeup(q)
  PROVE  UsesCounted'
<1> DEFINE n == used[q] - owed[q] + 1
           e == <<q, n>>
<1>1. /\ used' = used /\ owed' = [owed EXCEPT ![q] = @ - 1] /\ owed[q] > 0
      /\ used \in [Queues -> Nat] /\ owed \in [Queues -> Nat]
      /\ owed[q] <= used[q] /\ used[q] <= posted[q] /\ posted[q] \in 0 .. MaxPosted
  BY Counts DEF VirtioWakeup, IInv, Typed
<1>2. n \in 1 .. MaxPosted /\ e \in Queues \X (1 .. MaxPosted) /\ e \notin Signalled
  BY <1>1, SetupAssumption DEF Signalled
<1>3. Signalled' = Signalled \union {e}
  <2>1. ASSUME NEW p \in Queues, NEW i \in 1 .. MaxPosted
        PROVE  <<p, i>> \in Signalled' <=> <<p, i>> \in Signalled \union {e}
    <3>1. CASE p = q
      BY <1>1, <3>1, SetupAssumption DEF Signalled
    <3>2. CASE p # q
      BY <1>1, <3>2 DEF Signalled
    <3> QED
      BY <3>1, <3>2
  <2>2. Signalled' \subseteq Queues \X (1 .. MaxPosted)
    BY DEF Signalled
  <2> QED
    BY <1>2, <2>1, <2>2, SignalledFinite
<1>4. Cardinality(Signalled \union {e}) = Cardinality(Signalled) + 1
  <2> HIDE DEF e
  <2> QED
    BY <1>2, SignalledFinite, FS_AddElement
<1>5. virtio_event_cnt' = virtio_event_cnt + 1
  BY WakesOnce
<1> QED
  BY <1>3, <1>4, <1>5 DEF UsesCounted

LEMMA UseCounted ==
  ASSUME IInv, UsesCounted, NEW q \in Queues, Use(q)
  PROVE  UsesCounted'
<1>1. /\ used' = [used EXCEPT ![q] = @ + 1] /\ owed' = [owed EXCEPT ![q] = @ + 1]
      /\ used \in [Queues -> Nat] /\ owed \in [Queues -> Nat]
      /\ virtio_event_cnt' = virtio_event_cnt
  BY Counts, UsesOwe DEF Use, contextVars
<1>2. \A p \in Queues : used'[p] - owed'[p] = used[p] - owed[p]
  BY <1>1
<1>3. Signalled' = Signalled
  BY <1>2 DEF Signalled
<1> QED
  BY <1>1, <1>3 DEF UsesCounted

LEMMA CountedElsewhere ==
  ASSUME UsesCounted, UNCHANGED <<used, owed, virtio_event_cnt>>
  PROVE  UsesCounted'
<1>1. Signalled' = Signalled
  BY DEF Signalled
<1> QED
  BY <1>1 DEF UsesCounted

LEMMA CountKeeps ==
  ASSUME IInv, UsesCounted, [Next]_vars
  PROVE  UsesCounted'
<1> USE DEF contextVars, vhostVars
<1>1. CASE DriverStep
  <2>1. UNCHANGED <<used, owed, virtio_event_cnt>>
    BY <1>1 DEF DriverStep, Access, ReadFeatures, Check, SetupFails, Delete, QueueReady, Notify
  <2> QED
    BY <2>1, CountedElsewhere
<1>2. CASE (\E q \in Queues : Post(q)) \/ Unbind \/ Shutdown
  <2>1. UNCHANGED <<used, owed, virtio_event_cnt>>
    BY <1>2 DEF Post, Unbind, Shutdown
  <2> QED
    BY <2>1, CountedElsewhere
<1>3. CASE LauncherStep
  <2>1. UNCHANGED <<used, owed, virtio_event_cnt>>
    BY <1>3 DEF LauncherStep, DescribeVring, SetBackend, SetVringEfds, SetVringKick,
                SetVringCall, SetVringEfdsFails, Fatal
  <2> QED
    BY <2>1, CountedElsewhere
<1>4. CASE Packet \/ \E q \in Queues : Rest(q)
  <2>1. UNCHANGED <<used, owed, virtio_event_cnt>>
    BY <1>4 DEF Packet, Rest
  <2> QED
    BY <2>1, CountedElsewhere
<1>5. CASE CloseVhost \/ CntrRelease \/ UNCHANGED vars
  <2>1. UNCHANGED <<used, owed, virtio_event_cnt>>
    BY <1>5 DEF CloseVhost, CntrRelease, vars
  <2> QED
    BY <2>1, CountedElsewhere
<1> QED
  BY <1>1, <1>2, <1>3, <1>4, <1>5, UseCounted, SignalCounted DEF Next, VhostStep

(* virtio_wakeup has counted every use vhost has signalled, each of them   *)
(* once, for any number of queues and of buffers.                          *)
THEOREM SignalsCounted == Spec => []UsesCounted
<1>1. Init => UsesCounted
  <2> SUFFICES ASSUME Init PROVE UsesCounted
    OBVIOUS
  <2>1. Signalled = {} /\ virtio_event_cnt = 0
    BY SetupAssumption DEF Init, Signalled
  <2> QED
    BY <2>1, FS_EmptySet DEF UsesCounted
<1>2. IInv /\ UsesCounted /\ [Next]_vars => UsesCounted'
  BY CountKeeps
<1> QED
  BY <1>1, <1>2, Inductive, PTL DEF Spec
-----------------------------------------------------------------------------
(* The refinement of QueueLife. *)
LEMMA PhasesNow ==
  ASSUME IInv
  PROVE  Phases = [q \in Queues |-> IF ~vhostOpen THEN "closed"
                                   ELSE IF q < Served THEN "connected"
                                   ELSE IF queues[q].ready THEN "ready" ELSE "unset"]
<1>1. \A q \in Queues : vhost[q].call = NoCtx <=> ~(q < Served)
  <2>1. \A q \in Queues : vhost[q].call = IF q < Served THEN CallOf(q) ELSE NoCtx
    BY DEF IInv, Held, CallOf
  <2>2. \A q \in Queues : CallOf(q) # NoCtx
    BY DEF CallOf, NoCtx
  <2> QED
    BY <2>1, <2>2
<1> QED
  BY <1>1 DEF Phases

LEMMA PhasesNext ==
  ASSUME IInv'
  PROVE  Phases' = [q \in Queues |-> IF ~vhostOpen' THEN "closed"
                                    ELSE IF q < Served' THEN "connected"
                                    ELSE IF queues'[q].ready THEN "ready" ELSE "unset"]
<1>1. \A q \in Queues : vhost'[q].call = NoCtx <=> ~(q < Served')
  <2>1. \A q \in Queues : vhost'[q].call = IF q < Served' THEN CallOf(q) ELSE NoCtx
    BY DEF IInv, Held, CallOf
  <2>2. \A q \in Queues : CallOf(q) # NoCtx
    BY DEF CallOf, NoCtx
  <2> QED
    BY <2>1, <2>2
<1> QED
  BY <1>1 DEF Phases

LEMMA NotReady ==
  IInv /\ step = "none" => \A q \in Queues : queues[q].ready => q < Served
BY DEF IInv, Serving1, Due, Served, Unconnected

LEMMA NotReadyNext ==
  IInv' /\ step' = "none" => \A q \in Queues : queues'[q].ready => q < Served'
BY DEF IInv, Serving1, Due, Served, Unconnected

LEMMA LifeStutters ==
  ASSUME IInv, IInv', UNCHANGED <<vhostOpen, Served, posted, used, owed>>,
         \/ step = "none" /\ step' = "none"
         \/ \A q \in Queues : queues'[q].ready = queues[q].ready
  PROVE  UNCHANGED <<Phases, posted, used, Told>>
<1>1. Told' = Told
  BY DEF Told
<1>2. CASE step = "none" /\ step' = "none"
  BY <1>1, <1>2, PhasesNow, PhasesNext, NotReady, NotReadyNext
<1>3. CASE \A q \in Queues : queues'[q].ready = queues[q].ready
  BY <1>1, <1>3, PhasesNow, PhasesNext
<1> QED
  BY <1>2, <1>3
LEMMA LifeReady ==
  ASSUME IInv, IInv', QueueReady
  PROVE  \E q \in Queues : Life!MakeReady(q)
<1>1. /\ step = "none" /\ step' = "info" /\ exitIdx' = queue_select /\ conns' = conns
      /\ host = "guest" /\ UNCHANGED <<vhostVars, fileVars>> /\ WriteQueueReady(TRUE)
  BY DEF QueueReady, Doing, Running, IInv, Serving1
<1>2. Served = conns /\ Served' = conns /\ Due' = conns + 1 /\ vhostOpen /\ vhostOpen'
  BY <1>1 DEF Served, Due, Unconnected, IInv, Held, fileVars
<1>3. conns \in Queues /\ queue_select = conns /\ conns \in Int
  <2>1. exitIdx' = conns /\ conns < QUEUE_NUM
    BY <1>1, DeviceAssumption DEF IInv, Serving1, Unconnected, Typed
  <2>2. conns \in 0 .. QUEUE_NUM
    BY DEF IInv, Typed
  <2> QED
    BY <1>1, <2>1, <2>2, DeviceAssumption DEF Queues
<1>4. \A q \in Queues : queues'[q].ready = IF q = conns THEN TRUE ELSE queues[q].ready
  <2>1. queues \in [Queues -> Queue] /\ QueueSet("ready", TRUE)
    BY <1>1 DEF IInv, Typed, WriteQueueReady
  <2> QED
    BY <1>3, <2>1, SetsReady
<1>5. \A q \in Queues : queues[q].ready => q < conns
  BY <1>1, <1>2, NotReady
<1>6. Phases = [q \in Queues |-> IF q < conns THEN "connected" ELSE "unset"]
  BY <1>2, <1>5, PhasesNow
<1>7. Phases' = [q \in Queues |-> IF q < conns THEN "connected"
                                 ELSE IF q = conns THEN "ready" ELSE "unset"]
  BY <1>2, <1>4, <1>5, PhasesNext
<1>8. \A q \in Queues : q \in Int
  BY DEF Queues
<1>9. Phases' = [Phases EXCEPT ![conns] = "ready"]
  <2>1. [Phases EXCEPT ![conns] = "ready"]
          = [q \in Queues |-> IF q = conns THEN "ready" ELSE Phases[q]]
    BY <1>6
  <2>2. \A q \in Queues : (IF q = conns THEN "ready" ELSE Phases[q])
          = IF q < conns THEN "connected" ELSE IF q = conns THEN "ready" ELSE "unset"
    BY <1>3, <1>6, <1>8
  <2> QED
    BY <1>7, <2>1, <2>2
<1>10. Phases[conns] = "unset" /\ \A p \in Queues : Phases[p] # "ready"
  BY <1>3, <1>6
<1>11. UNCHANGED <<posted, used, Told>>
  BY <1>1 DEF vhostVars, Told
<1> QED
  BY <1>3, <1>9, <1>10, <1>11 DEF Life!MakeReady

LEMMA LifeConnects ==
  ASSUME IInv, IInv', SetVringCall
  PROVE  \E q \in Queues : Life!Connect(q)
<1>1. /\ step = "call" /\ step' = "none" /\ host = "launcher"
      /\ UNCHANGED <<queues, conns, exitIdx, posted, used, owed, vhostOpen>>
  BY DEF SetVringCall, Serving, deviceVars, fileVars
<1>2. /\ Served = conns - 1 /\ Served' = conns /\ Due = conns /\ vhostOpen
      /\ exitIdx = conns - 1 /\ conns > 0 /\ queues[exitIdx].ready
  BY <1>1 DEF Served, Due, Unconnected, IInv, Held, Serving1
<1>3. conns \in 0 .. QUEUE_NUM /\ QUEUE_NUM \in Nat /\ exitIdx \in Queues
  <2>1. conns \in 0 .. QUEUE_NUM /\ QUEUE_NUM \in Nat
    BY DeviceAssumption DEF IInv, Typed
  <2> QED
    BY <1>2, <2>1 DEF Queues
<1>4. \A q \in Queues : q \in Int
  BY DEF Queues
<1>5. \A q \in Queues : queues[q].ready => q < conns
  BY <1>2 DEF IInv, Serving1
<1>6. Phases = [q \in Queues |-> IF q < exitIdx THEN "connected"
                                ELSE IF q = exitIdx THEN "ready" ELSE "unset"]
  <2>1. \A q \in Queues : ~(q < exitIdx) => (queues[q].ready <=> q = exitIdx)
    BY <1>2, <1>3, <1>4, <1>5
  <2>2. Phases = [q \in Queues |-> IF q < exitIdx THEN "connected"
                                  ELSE IF queues[q].ready THEN "ready" ELSE "unset"]
    BY <1>2, PhasesNow
  <2> QED
    BY <2>1, <2>2
<1>7. Phases' = [q \in Queues |-> IF q < conns THEN "connected" ELSE "unset"]
  BY <1>1, <1>2, <1>5, PhasesNext
<1>8. Phases' = [Phases EXCEPT ![exitIdx] = "connected"] /\ Phases[exitIdx] = "ready"
  <2>1. [Phases EXCEPT ![exitIdx] = "connected"]
          = [q \in Queues |-> IF q = exitIdx THEN "connected" ELSE Phases[q]]
    BY <1>6
  <2>2. \A q \in Queues : (IF q = exitIdx THEN "connected" ELSE Phases[q])
          = IF q < conns THEN "connected" ELSE "unset"
    BY <1>2, <1>3, <1>4, <1>6
  <2>3. Phases[exitIdx] = "ready"
    BY <1>2, <1>3, <1>6
  <2> QED
    BY <1>7, <2>1, <2>2, <2>3
<1>9. UNCHANGED <<posted, used, Told>>
  BY <1>1 DEF Told
<1> QED
  BY <1>3, <1>8, <1>9 DEF Life!Connect

LEMMA AllServed ==
  ASSUME IInv, vhostOpen, Served = QUEUE_NUM
  PROVE  \A q \in Queues : Phases[q] = "connected"
<1>1. \A q \in Queues : q < QUEUE_NUM
  BY DeviceAssumption DEF Queues
<1> QED
  BY <1>1, PhasesNow

LEMMA LifePosts ==
  ASSUME IInv, IInv', NEW q \in Queues, Post(q)
  PROVE  Life!Post(q)
<1>1. /\ UNCHANGED <<Phases, used, Told>> /\ posted' = [posted EXCEPT ![q] = @ + 1]
  BY DEF Post, deviceVars, vhostVars, fileVars, Phases, Told
<1>2. posted'[q] > 0 /\ UNCHANGED Served
  BY <1>1, Counts DEF Post, launcherVars, Served, IInv, Typed
<1>3. Served = QUEUE_NUM
  BY <1>2 DEF IInv, Buffers
<1>4. vhostOpen
  BY DEF Post, Running, IInv, Held
<1> QED
  BY <1>1, <1>3, <1>4, AllServed DEF Life!Post

LEMMA LifeUses ==
  ASSUME IInv, NEW q \in Queues, Use(q)
  PROVE  Life!Use(q)
<1>1. /\ vhostOpen /\ used[q] < posted[q] /\ used' = [used EXCEPT ![q] = @ + 1]
      /\ owed' = IF vhost[q].call = NoCtx THEN owed ELSE [owed EXCEPT ![q] = @ + 1]
      /\ UNCHANGED <<Phases, posted>>
  BY DEF Use, Working, deviceVars, fileVars, Phases
<1>2. Served = QUEUE_NUM
  BY <1>1, Counts DEF IInv, Buffers
<1>3. Phases[q] = "connected"
  BY <1>1, <1>2, AllServed
<1>4. vhost[q].call # NoCtx
  BY <1>1, <1>3 DEF Phases
<1>5. Told' = Told
  BY <1>1, <1>4, Counts DEF Told
<1> QED
  BY <1>1, <1>3, <1>5 DEF Life!Use

LEMMA LifeTells ==
  ASSUME IInv, NEW q \in Queues, VirtioWakeup(q)
  PROVE  Life!Tell(q)
<1>1. /\ owed[q] > 0 /\ owed' = [owed EXCEPT ![q] = @ - 1]
      /\ UNCHANGED <<Phases, posted, used>>
  BY DEF VirtioWakeup, deviceVars, fileVars, Phases
<1>2. Told' = [Told EXCEPT ![q] = @ + 1] /\ Told[q] < used[q]
  <2>1. \A p \in Queues : used[p] - owed'[p]
                          = IF p = q THEN used[q] - owed[q] + 1 ELSE used[p] - owed[p]
    BY <1>1, Counts
  <2>2. Told' = [p \in Queues |-> used[p] - owed'[p]]
    BY <1>1 DEF Told
  <2>3. [Told EXCEPT ![q] = @ + 1]
          = [p \in Queues |-> IF p = q THEN used[q] - owed[q] + 1 ELSE used[p] - owed[p]]
    BY DEF Told
  <2>4. Told[q] < used[q]
    BY <1>1, Counts DEF Told
  <2> QED
    BY <2>1, <2>2, <2>3, <2>4
<1> QED
  BY <1>1, <1>2 DEF Life!Tell

LEMMA LifeCloses ==
  ASSUME IInv, IInv', CloseVhost
  PROVE  Life!Close
<1>1. (\A q \in Queues : owed[q] = 0) /\ ~vhostOpen' /\ UNCHANGED <<posted, used, owed>>
  BY DEF CloseVhost, vhostVars
<1>2. Told = used /\ Told' = Told
  BY <1>1, Counts DEF Told
<1>3. Phases' = [q \in Queues |-> "closed"]
  BY <1>1, PhasesNext
<1> QED
  BY <1>1, <1>2, <1>3 DEF Life!Close

(* The launcher connects the queues one by one, the driver posts when all  *)
(* are connected, vhost uses what was posted and tells of each use, and    *)
(* nothing is closed before that: every behaviour is one of QueueLife.     *)
THEOREM QueueLifeRefined == Spec => ImplementsQueueLife
<1>1. Init => Life!Init
  <2> SUFFICES ASSUME Init PROVE Life!Init
    OBVIOUS
  <2>1. Phases = [q \in Queues |-> "unset"]
    BY DEF Init, DeviceInit, Phases
  <2>2. Told = [q \in Queues |-> 0]
    BY DEF Init, Told
  <2> QED
    BY <2>1, <2>2 DEF Init, Life!Init
<1>2. IInv /\ IInv' /\ [Next]_vars => [Life!Next]_<<Phases, posted, used, Told>>
  <2> SUFFICES ASSUME IInv, IInv', [Next]_vars
               PROVE  [Life!Next]_<<Phases, posted, used, Told>>
    OBVIOUS
  <2>1. CASE DriverStep
    <3>1. CASE QueueReady
      BY <3>1, LifeReady DEF Life!Next
    <3>2. CASE Access \/ ReadFeatures \/ Check \/ SetupFails \/ Delete \/ Notify
      <4>1. host = "guest"
        BY <3>2 DEF Access, ReadFeatures, Check, SetupFails, Delete, Notify, WriteStatus,
                    WriteFeatures, WriteQueue, Doing, Running
      <4>2. UNCHANGED <<step, conns, posted, used, owed, vhostOpen>>
        BY <3>2 DEF Access, ReadFeatures, Check, SetupFails, Delete, Notify, launcherVars,
                    vhostVars, fileVars
      <4>3. step = "none" /\ step' = "none" /\ Served' = Served
        BY <4>1, <4>2 DEF IInv, Serving1, Served
      <4> QED
        BY <4>2, <4>3, LifeStutters
    <3> QED
      BY <2>1, <3>1, <3>2 DEF DriverStep
  <2>2. CASE \E q \in Queues : Post(q)
    BY <2>2, LifePosts DEF Life!Next
  <2>3. CASE Unbind \/ Shutdown \/ CntrRelease \/ UNCHANGED vars
    <3>1. UNCHANGED <<queues, step, conns, posted, used, owed, vhostOpen>>
      BY <2>3 DEF Unbind, Shutdown, CntrRelease, vars, deviceVars, launcherVars, vhostVars, fileVars
    <3>2. Served' = Served
      BY <3>1 DEF Served
    <3> QED
      BY <3>1, <3>2, LifeStutters
  <2>4. CASE LauncherStep
    <3>1. CASE SetVringCall
      BY <3>1, LifeConnects DEF Life!Next
    <3>2. CASE SetVringEfds
      <4>1. /\ step = "efds" /\ step' = "kick" /\ conns' = conns + 1
            /\ UNCHANGED <<posted, used, owed, vhostOpen>>
            /\ queues' = [queues EXCEPT ![exitIdx] = [@ EXCEPT !.kick = Kick, !.call = Call]]
        BY <3>2 DEF SetVringEfds, Serving, Connected, vhostVars, fileVars
      <4>2. Served' = Served
        BY <4>1 DEF Served, IInv, Typed
      <4>3. \A q \in Queues : queues'[q].ready = queues[q].ready
        BY <4>1 DEF IInv, Typed, Queue
      <4> QED
        BY <4>1, <4>2, <4>3, LifeStutters
    <3>3. CASE DescribeVring \/ SetBackend \/ SetVringKick \/ SetVringEfdsFails \/ Fatal
      <4>1. UNCHANGED <<queues, conns, posted, used, owed, vhostOpen>>
        BY <3>3 DEF DescribeVring, SetBackend, SetVringKick, SetVringEfdsFails, Fatal,
                    deviceVars, vhostVars, fileVars
      <4>2. Served' = Served
        BY <3>3 DEF DescribeVring, SetBackend, SetVringKick, SetVringEfdsFails, Fatal,
                    Serving, Served
      <4> QED
        BY <4>1, <4>2, LifeStutters
    <3> QED
      BY <2>4, <3>1, <3>2, <3>3 DEF LauncherStep
  <2>5. CASE VhostStep
    <3>1. CASE \E q \in Queues : Use(q)
      BY <3>1, LifeUses DEF Life!Next
    <3>2. CASE \E q \in Queues : VirtioWakeup(q)
      BY <3>2, LifeTells DEF Life!Next
    <3>3. CASE Packet \/ \E q \in Queues : Rest(q)
      <4>1. UNCHANGED <<queues, step, conns, posted, used, owed, vhostOpen>>
        BY <3>3 DEF Packet, Rest, deviceVars, launcherVars, fileVars
      <4>2. Served' = Served
        BY <4>1 DEF Served
      <4> QED
        BY <4>1, <4>2, LifeStutters
    <3> QED
      BY <2>5, <3>1, <3>2, <3>3 DEF VhostStep
  <2>6. CASE CloseVhost
    BY <2>6, LifeCloses DEF Life!Next
  <2> QED
    BY <2>1, <2>2, <2>3, <2>4, <2>5, <2>6 DEF Next
<1> QED
  BY <1>1, <1>2, Inductive, PTL DEF Spec, ImplementsQueueLife, Life!Spec, Life!vars
=============================================================================
