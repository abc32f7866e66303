----------------------------- MODULE VirtioNet -----------------------------
(***************************************************************************)
(* The virtio-mmio network device of pkm_main.c: its registers, and the    *)
(* handlers of the guest's reads and writes.  A handler runs on the        *)
(* guest's own vCPU thread, one access at a time; NetSetup puts the        *)
(* driver, the launcher and vhost around them.                             *)
(*                                                                         *)
(* Feature words are sets of bit numbers, addresses are numbers of two     *)
(* words of base WORD.                                                     *)
(***************************************************************************)
EXTENDS Integers, Sequences, FiniteSets

CONSTANTS QUEUE_NUM,    \* PKM_VIRTIO_NET_QUEUE_NUM
          QUEUE_SIZE,   \* PKM_VIRTIO_NET_QUEUE_SIZE
          WORD,         \* base of an address's words: 2^32, scaled down
          Junk          \* what kmalloc leaves in a field nobody initialises

ASSUME DeviceAssumption ==
  /\ QUEUE_NUM \in Nat \ {0}
  /\ QUEUE_SIZE \in Nat \ {0}
  /\ WORD \in Nat \ {0}
  /\ Junk \subseteq Nat

Queues == 0 .. QUEUE_NUM - 1
Rings == {"desc_table", "avail_ring", "used_ring"}

NoCtx == <<"NULL", 0>>

\* the bits of avail_features
MRG_RXBUF == 15
NOTIFY_ON_EMPTY == 24
ANY_LAYOUT == 27
INDIRECT_DESC == 28
EVENT_IDX == 29
VERSION_1 == 32
ACCESS_PLATFORM == 33
avail_features == {MRG_RXBUF, NOTIFY_ON_EMPTY, ANY_LAYOUT, INDIRECT_DESC,
                   EVENT_IDX, VERSION_1, ACCESS_PLATFORM}

\* the status bits, in the order of the handshake
Handshake == <<"ACKNOWLEDGE", "DRIVER", "FEATURES_OK", "DRIVER_OK">>
FAILED == "FAILED"

VARIABLES device_status, features_select, acked_features_select,
          acked_features, queue_select, queues,
          fault   \* what became of the thread: none, spin (while (1)) or oops

featureVars == <<features_select, acked_features_select, acked_features>>
deviceVars == <<device_status, featureVars, queue_select, queues, fault>>

(* The registers a container is created with: pkm_cntr is not zeroed, and  *)
(* init_virtio_net leaves out acked_features_select and the queues' sizes  *)
(* and rings.                                                              *)
DeviceInit ==
  /\ device_status = {}
  /\ features_select = 0
  /\ acked_features_select \in Junk
  /\ acked_features = {}
  /\ queue_select = 0
  /\ \E n \in Junk :
       queues = [q \in Queues |->
                  [ready |-> FALSE, size |-> n, kick |-> NoCtx, call |-> NoCtx,
                   ring |-> [f \in Rings |-> n]]]
  /\ fault = "none"
-----------------------------------------------------------------------------
(* The halves of a feature word, and a half put back in its place.         *)
Half(bits, n) ==
  CASE n = 0 -> {b \in bits : b < 32}
    [] n = 1 -> {b - 32 : b \in {c \in bits : c >= 32}}
    [] OTHER -> {}
Placed(half, n) ==
  CASE n = 0 -> half
    [] n = 1 -> {b + 32 : b \in half}
    [] OTHER -> {}

ReadAvailFeatures == Half(avail_features, features_select)

(* virtio_queue_get and virtio_queue_set of the selected queue: 0 and      *)
(* nothing for a queue that does not exist.                                *)
QueueGet(attr) == IF queue_select \in Queues THEN queues[queue_select][attr] ELSE 0
QueueSet(attr, val) ==
  queues' = IF queue_select \in Queues
            THEN [queues EXCEPT ![queue_select] = [@ EXCEPT ![attr] = val]]
            ELSE queues

WriteDeviceStatus_Order(status) ==                               \* mutant
  LET diff == status \ device_status
      step == {i \in 1 .. Len(Handshake) :
                 /\ diff = {Handshake[i]}
                 /\ device_status = {Handshake[j] : j \in 1 .. i}}
  IN  /\ IF status = {} THEN UNCHANGED <<device_status, fault>>
         ELSE IF step # {} THEN device_status' = status /\ UNCHANGED fault
         ELSE fault' = "spin" /\ UNCHANGED device_status
      /\ UNCHANGED <<featureVars, queue_select, queues>>
(* Only the next bit of the handshake is taken.  Zero, which should reset  *)
(* the device, does nothing; anything else hangs the thread.               *)
WriteDeviceStatus(status) ==
  LET diff == status \ device_status
      step == {i \in 1 .. Len(Handshake) :
                 /\ diff = {Handshake[i]}
                 /\ device_status = {Handshake[j] : j \in 1 .. i - 1}}
  IN  /\ IF status = {} THEN UNCHANGED <<device_status, fault>>
         ELSE IF step # {} THEN device_status' = status /\ UNCHANGED fault
         ELSE fault' = "spin" /\ UNCHANGED device_status
      /\ UNCHANGED <<featureVars, queue_select, queues>>

WriteFeaturesSelect(n) ==
  /\ features_select' = n
  /\ UNCHANGED <<device_status, acked_features_select, acked_features,
                 queue_select, queues, fault>>

WriteAckedFeaturesSelect(n) ==
  /\ acked_features_select' = n
  /\ UNCHANGED <<device_status, features_select, acked_features,
                 queue_select, queues, fault>>

WriteAckedFeatures_Unplaced(half) ==                             \* mutant
  /\ acked_features' =
       IF "DRIVER" \in device_status /\ {"FEATURES_OK", FAILED} \cap device_status = {}
       THEN acked_features \cup (half \cap avail_features)
       ELSE acked_features
  /\ UNCHANGED <<device_status, features_select, acked_features_select,
                 queue_select, queues, fault>>
WriteAckedFeatures(half) ==
  /\ acked_features' =
       IF "DRIVER" \in device_status /\ {"FEATURES_OK", FAILED} \cap device_status = {}
       THEN acked_features \cup
              (Placed(half, acked_features_select) \cap avail_features)
       ELSE acked_features
  /\ UNCHANGED <<device_status, features_select, acked_features_select,
                 queue_select, queues, fault>>

WriteQueueSel(q) ==
  /\ queue_select' = q
  /\ UNCHANGED <<device_status, featureVars, queues, fault>>

WriteQueueNum(n) ==
  /\ QueueSet("size", n)
  /\ UNCHANGED <<device_status, featureVars, queue_select, fault>>

WriteRing_Whole(f, n, val) ==                                    \* mutant
  /\ IF queue_select \in Queues
     THEN LET ring == QueueGet("ring")
          IN  QueueSet("ring", [ring EXCEPT ![f] = IF n = 0 THEN val
                                                   ELSE val * WORD])
     ELSE UNCHANGED queues
  /\ UNCHANGED <<device_status, featureVars, queue_select, fault>>
(* One half of a ring's address; the other stays.                          *)
WriteRing(f, n, val) ==
  /\ IF queue_select \in Queues
     THEN LET ring == QueueGet("ring")
              hi == ring[f] \div WORD
              lo == ring[f] % WORD
          IN  QueueSet("ring", [ring EXCEPT ![f] = IF n = 0 THEN hi * WORD + val
                                                   ELSE val * WORD + lo])
     ELSE UNCHANGED queues
  /\ UNCHANGED <<device_status, featureVars, queue_select, fault>>

WriteQueueReady(ready) ==
  /\ QueueSet("ready", ready)
  /\ UNCHANGED <<device_status, featureVars, queue_select, fault>>

(* handle_mmio_write_queue_notify signals the queue's kick context without *)
(* looking whether it has one.                                             *)
WriteQueueNotify(q) ==
  /\ fault' = IF q \in Queues /\ queues[q].kick = NoCtx THEN "oops" ELSE fault
  /\ UNCHANGED <<device_status, featureVars, queue_select, queues>>
=============================================================================
