------------------------ MODULE DedupPipelineProofs ------------------------
(***************************************************************************)
(* Theorems about the parallel encoder: what its threads hold, that a      *)
(* queue's end is not passed on too early, that Reorder gets the chunks'   *)
(* numbers without a gap, and that the archive it writes is one that       *)
(* DedupStream allows.                                                     *)
(***************************************************************************)
EXTENDS DedupPipeline, FiniteSetTheorems, TLAPS

Alphabet == UNION {Range(k.file) : k \in Confs}
Chunks == [l1 : Nat, l2 : Nat, last : BOOLEAN, content : Seq(Alphabet)]
Indexes == 0..(conf.nthreads - 1)

(* --- the inductive invariant: the threads and the queues --- *)

Typed ==
  /\ conf \in Confs
  /\ que \in [Queues -> [Q -> Seq(Chunks)]]
  /\ nTerminated \in [Queues -> [Q -> Nat]]
  /\ pc \in [Threads -> {"read", "split", "run", "drain", "done", "overrun", "mismatch"}]
  /\ pc[Fragment] \in {"read", "split", "drain", "done"}
  /\ \A t \in Pool : pc[t] \in {"run", "drain", "done"}
  /\ pc[Reorder] \in {"run", "done", "overrun", "mismatch"}
  /\ recv_buf \in [Pool \union {Reorder} -> Seq(Chunks)]
  /\ send_buf \in [Pool \union {Fragment} -> [Queues -> Seq(Chunks)]]
  /\ qid \in [{"Fragment", "Reorder"} -> Q]
  /\ seek \in 0..Len(conf.file)
  /\ chunk \in [l1 : Nat, content : Seq(Alphabet)]
  /\ \A c \in DOMAIN cache : cache[c] \in {"UNCOMPRESSED", "COMPRESSED", "FLUSHED"}
  /\ writing \in Seq(Chunks)
  /\ tree \in SUBSET Chunks
  /\ next \in [l1 : Nat, l2 : Nat]
  /\ anchors \in Nat \ {0}
  /\ chunks_per_anchor \in [0..(anchors - 1) -> Nat]
  /\ out \in Seq([type : {"TYPE_COMPRESS", "TYPE_FINGERPRINT"}, content : Seq(Alphabet)])

\* nothing is longer than its bound
Bounded ==
  /\ \A s \in Queues, q \in Q : Len(que[s][q]) <= conf.QUEUE_SIZE
  /\ \A t \in Pool \union {Reorder} : Len(recv_buf[t]) <= conf.FETCH
  /\ \A t \in Pool \union {Fragment}, s \in Queues : Len(send_buf[t][s]) <= conf.INSERT
  /\ Len(writing) <= 1

\* the threads of a stage that use queue q, and those of them that have ended
Members(q) == {i \in Indexes : i \div conf.MAX_THREADS_PER_QUEUE = q}
Ended(n, q) == {i \in Members(q) : pc[<<n, i>>] = "done"}

\* nTerminated counts the producers that have ended
Counts ==
  /\ \A q \in Q : nTerminated["refine_que"][q] = IF pc[Fragment] = "done" THEN 1 ELSE 0
  /\ \A n \in Stages, q \in Q : nTerminated[Ends[n]][q] = Cardinality(Ended(n, q))

\* a thread sends to its own outputs; it ends when its input has ended and it
\* holds nothing any more
Ending ==
  /\ \A t \in Pool \union {Fragment}, s \in Queues :
       s \notin Outputs[t[1]] => send_buf[t][s] = <<>>
  /\ \A t \in Pool : pc[t] # "run" =>
       recv_buf[t] = <<>> /\ Dry(Input[t[1]], QidOf(t))
  /\ \A t \in Pool \union {Fragment}, s \in Queues :
       pc[t] = "done" => send_buf[t][s] = <<>>
  /\ pc[Reorder] # "run" => writing = <<>>

(* --- the inductive invariant: the chunks --- *)

\* everything that holds chunks, and what it holds
Places ==
  ({"que"} \X Q \X Queues)
  \union ({"send"} \X (Pool \union {Fragment}) \X Queues)
  \union ({"recv"} \X (Pool \union {Reorder}) \X {"none"})
  \union {<<"tree", 0, "none">>, <<"writing", 0, "none">>}

Hold(qs, sb, rb, tr, w) == [h \in Places |->
  CASE h[1] = "que" -> qs[h[3]][h[2]]
    [] h[1] = "send" -> sb[h[2]][h[3]]
    [] h[1] = "recv" -> rb[h[2]]
    [] h[1] = "tree" -> [c \in tr |-> c]
    [] h[1] = "writing" -> w]
Holding == Hold(que, send_buf, recv_buf, tree, writing)

\* the places before FragmentRefine has cut a coarse chunk
RoughPlaces == {h \in Places :
  \/ h[1] = "que" /\ h[3] = "refine_que"
  \/ h[1] = "send" /\ h[2] = Fragment
  \/ h[1] = "recv" /\ h[2][1] = "FragmentRefine"}
FinePlaces == Places \ RoughPlaces

HeldAt(H, S) == UNION {Range(H[h]) : h \in S}
Rough == HeldAt(Holding, RoughPlaces)
Fine == HeldAt(Holding, FinePlaces)
Taken == tree \union Range(writing)

\* no two places hold the same number
Apart(H) ==
  \A h, g \in DOMAIN H : \A i \in DOMAIN H[h], j \in DOMAIN H[g] :
    Number(H[h][i]) = Number(H[g][j]) => h = g /\ i = j

Reading == pc[Fragment] \in {"read", "split"}

\* the number of the next coarse chunk, if there may be one
More == IF Reading THEN {chunk.l1} ELSE {}

\* n comes no later than c's number
Due1(n, c) == n.l1 < c.l1 \/ (n.l1 = c.l1 /\ n.l2 <= c.l2)

\* of one coarse chunk, what is not cut yet comes last, and so does its last piece
Cut(R, F) ==
  /\ \A c \in R : c.last
  /\ \A c \in R : \A d \in R \union F :
       c.l1 = d.l1 => d = c \/ (d.l2 < c.l2 /\ ~d.last)
  /\ \A c, d \in F : c.last /\ c.l1 = d.l1 => d.l2 <= c.l2

\* no number is skipped: a chunk's successor exists already, unless the chunk
\* ends the input so far
Follows(R, F, more) ==
  /\ \A c \in F : ~c.last => \E d \in R \union F : d.l1 = c.l1 /\ d.l2 = c.l2 + 1
  /\ \A c \in R \union F : c.last =>
       \/ \E d \in R \union F : d.l1 = c.l1 + 1 /\ d.l2 = 0
       \/ /\ \A d \in R \union F : d.l1 <= c.l1
          /\ \A k \in more : k = c.l1 + 1

NextIsThere(S, n, more) ==
  IF S = {} THEN \A k \in more : n = [l1 |-> k, l2 |-> 0]
            ELSE \E c \in S : Number(c) = n

\* what Reorder has noted of the coarse chunks is how long they are
Noted(R, F, cpa, T, more) ==
  /\ \A i \in DOMAIN cpa : cpa[i] # 0 =>
       /\ \A c \in R : c.l1 # i
       /\ \A c \in F : c.l1 = i => c.l2 < cpa[i]
       /\ \A k \in more : i < k
  /\ \A c \in T : c.l1 \in DOMAIN cpa /\ (c.last => cpa[c.l1] = c.l2 + 1)

\* what is held comes after what is written, and before what is not read
Ordered(R, F, n, cpa, T, more) ==
  /\ \A c \in R \union F : Due1(n, c)
  /\ \A k \in more : /\ \A c \in R \union F : c.l1 < k
                    /\ Due1(n, [l1 |-> k, l2 |-> 0])
  /\ Cut(R, F)
  /\ Noted(R, F, cpa, T, more)

Unbroken(R, F, n, more) ==
  Follows(R, F, more) /\ NextIsThere(R \union F, n, more)

Numbers ==
  /\ Apart(Holding)
  /\ Ordered(Rough, Fine, next, chunks_per_anchor, Taken, More)
  /\ \A i \in DOMAIN writing : Number(writing[i]) = next
  /\ writing = <<>> => \A c \in tree : Number(c) # next

Complete ==
  pc[Reorder] # "overrun" => Unbroken(Rough, Fine, next, More)

NoMismatch == pc[Reorder] # "mismatch"

IInv == Typed /\ Bounded /\ Counts /\ Ending /\ Numbers /\ Complete /\ NoMismatch
-----------------------------------------------------------------------------
(* The configuration, and which threads share a queue. *)
LEMMA ConfFacts ==
  ASSUME conf \in Confs
  PROVE  /\ conf.nthreads \in Nat /\ conf.nthreads > 0
         /\ conf.MAX_THREADS_PER_QUEUE \in Nat /\ conf.MAX_THREADS_PER_QUEUE > 0
         /\ conf.QUEUE_SIZE \in Nat /\ conf.QUEUE_SIZE > 0
         /\ conf.FETCH \in Nat /\ conf.FETCH > 0
         /\ conf.INSERT \in Nat /\ conf.INSERT > 0
         /\ conf.MAXBUF \in Nat /\ conf.ANCHOR_JUMP \in Nat
         /\ conf.anchors \in Nat /\ conf.anchors > 0
         /\ conf.file \in Seq(Alphabet)
<1>1. ConfOK(conf)
  BY PipelineAssumption
<1>2. conf.file \in Seq(Range(conf.file)) /\ Range(conf.file) \subseteq Alphabet
  BY <1>1 DEF ConfOK, Alphabet
<1>3. conf.file \in Seq(Alphabet)
  BY <1>2
<1> QED
  BY <1>1, <1>3 DEF ConfOK

LEMMA QueueCount ==
  ASSUME NEW n \in Nat, n > 0, NEW m \in Nat, m > 0
  PROVE  /\ (n + m - 1) \div m \in Nat
         /\ (n + m - 1) \div m > 0
         /\ ((n + m - 1) \div m) * m < n + m
         /\ ((n + m - 1) \div m) * m >= n
<1>1. ASSUME NEW a \in Nat
      PROVE  a \div m \in Nat /\ (a \div m) * m <= a /\ a < (a \div m) * m + m
  OBVIOUS
<1>2. n + m - 1 \in Nat
  OBVIOUS
<1>3. PICK k \in Nat : k = (n + m - 1) \div m /\ k * m <= n + m - 1 /\ n + m - 1 < k * m + m
  BY <1>1, <1>2
<1>4. k > 0
  <2>1. k = 0 => k * m = 0
    OBVIOUS
  <2> QED
    BY <1>3, <2>1
<1>5. k * m \in Nat
  OBVIOUS
<1> QED
  BY <1>3, <1>4, <1>5

LEMMA QueueOf ==
  ASSUME NEW n \in Nat, NEW m \in Nat, m > 0, NEW k \in Nat, k * m >= n,
         NEW i \in 0..(n - 1)
  PROVE  i \div m \in 0..(k - 1)
<1>1. i \div m \in Nat /\ (i \div m) * m <= i
  OBVIOUS
<1>2. PICK d \in Nat : d = i \div m /\ d * m <= i
  BY <1>1
<1>3. d >= k => d * m >= k * m
  OBVIOUS
<1>4. d * m \in Nat /\ k * m \in Nat
  OBVIOUS
<1>5. d < k
  BY <1>2, <1>3, <1>4
<1> QED
  BY <1>2, <1>5

LEMMA Quotient ==
  ASSUME NEW m \in Nat, m > 0, NEW i \in Nat, NEW q \in Nat
  PROVE  i \div m = q <=> q * m <= i /\ i < q * m + m
<1>1. i \div m \in Nat /\ (i \div m) * m <= i /\ i < (i \div m) * m + m
  OBVIOUS
<1>2. PICK d \in Nat : d = i \div m /\ d * m <= i /\ i < d * m + m
  BY <1>1
<1>3. d * m \in Nat /\ q * m \in Nat
  OBVIOUS
<1>4. d < q => d * m + m <= q * m
  OBVIOUS
<1>5. q < d => q * m + m <= d * m
  OBVIOUS
<1> QED
  BY <1>2, <1>3, <1>4, <1>5

LEMMA QFacts ==
  ASSUME conf \in Confs
  PROVE  /\ nqueues \in Nat /\ nqueues > 0
         /\ \A i \in Indexes : i \div conf.MAX_THREADS_PER_QUEUE \in Q
         /\ 0 \in Q
<1> DEFINE n == conf.nthreads
           m == conf.MAX_THREADS_PER_QUEUE
<1>1. n \in Nat /\ n > 0 /\ m \in Nat /\ m > 0
  BY ConfFacts
<1>2. nqueues = (n + m - 1) \div m
  BY DEF nqueues
<1> HIDE DEF n, m
<1>3. nqueues \in Nat /\ nqueues > 0 /\ nqueues * m >= n
  BY <1>1, <1>2, QueueCount
<1>4. \A i \in 0..(n - 1) : i \div m \in 0..(nqueues - 1)
  BY <1>1, <1>3, QueueOf
<1> QED
  BY <1>3, <1>4 DEF Indexes, Q, n, m

LEMMA MembersCount ==
  ASSUME conf \in Confs, NEW q \in Q, NEW s \in Queues, s # "refine_que"
  PROVE  /\ IsFiniteSet(Members(q)) /\ Members(q) # {} /\ Members(q) \subseteq Indexes
         /\ Cardinality(Members(q)) = Producers(s, q)
<1> DEFINE n == conf.nthreads
           m == conf.MAX_THREADS_PER_QUEUE
           k == nqueues
           top == IF q * m + m <= n THEN q * m + m ELSE n
<1>1. n \in Nat /\ n > 0 /\ m \in Nat /\ m > 0
  BY ConfFacts
<1>2. k = (n + m - 1) \div m
  BY DEF nqueues
<1>3. Members(q) = {i \in 0..(n - 1) : i \div m = q} /\ Indexes = 0..(n - 1)
  BY DEF Members, Indexes
<1>4. Producers(s, q) = IF q < k - 1 \/ n % m = 0 THEN m ELSE n % m
  BY DEF Producers
<1>5. q \in 0..(k - 1)
  BY DEF Q
<1> HIDE DEF n, m, k
<1>6. k \in Nat /\ k > 0 /\ k * m < n + m /\ k * m >= n
  BY <1>1, <1>2, QueueCount
<1>7. q \in Nat /\ q < k /\ q * m \in Nat /\ k * m \in Nat
  BY <1>1, <1>5, <1>6
<1>8. q + 1 <= k - 1 => q * m + m + m <= k * m
  <2>1. \A a, b \in Nat : a <= b => a * m <= b * m
    BY <1>1
  <2>2. (q + 2) * m = q * m + m + m
    BY <1>1, <1>7
  <2> QED
    BY <1>6, <1>7, <2>1, <2>2
<1>9. q = k - 1 => q * m + m = k * m
  <2>1. (q + 1) * m = q * m + m
    BY <1>1, <1>7
  <2> QED
    BY <1>6, <1>7, <2>1
<1>10. q * m < n
  <2>1. q <= k - 1 => q * m + m <= k * m
    BY <1>1, <1>6, <1>7, <1>8, <1>9
  <2> QED
    BY <1>1, <1>6, <1>7, <2>1
<1>11. top \in Int /\ top > q * m
  BY <1>1, <1>7, <1>10
<1>12. Members(q) = (q * m)..(top - 1)
  <2>1. ASSUME NEW i \in Nat
        PROVE  i \div m = q <=> q * m <= i /\ i < q * m + m
    BY <1>1, <1>7, Quotient
  <2> QED
    BY <1>1, <1>3, <1>7, <2>1
<1>13. /\ IsFiniteSet(Members(q)) /\ Cardinality(Members(q)) = top - q * m
       /\ Members(q) # {}
  <2>1. q * m \in Int /\ top - 1 \in Int /\ top - 1 >= q * m
    BY <1>7, <1>11
  <2>2. IsFiniteSet((q * m)..(top - 1)) /\ Cardinality((q * m)..(top - 1)) = top - 1 - q * m + 1
    BY <2>1, FS_Interval
  <2>3. q * m \in (q * m)..(top - 1)
    BY <2>1
  <2> QED
    BY <1>7, <1>11, <1>12, <2>2, <2>3
<1>14. top - q * m = Producers(s, q)
  <2>1. PICK d \in Nat, r \in Nat : n % m = r /\ n = d * m + r /\ r < m
    <3>1. n \div m \in Nat /\ n % m \in Nat /\ n % m < m /\ n = (n \div m) * m + (n % m)
      BY <1>1
    <3> QED
      BY <3>1
  <2>2. CASE q < k - 1
    BY <1>1, <1>4, <1>6, <1>7, <1>8, <2>2
  <2>3. CASE q = k - 1 /\ r = 0
    <3>1. k = d
      <4>1. ASSUME k < d PROVE FALSE
        <5>1. k * m + m <= d * m
          BY <1>1, <1>6, <2>1, <4>1
        <5> QED
          BY <1>1, <1>6, <1>7, <2>1, <2>3, <5>1
      <4>2. ASSUME d < k PROVE FALSE
        <5>1. d * m + m <= k * m
          BY <1>1, <1>6, <2>1, <4>2
        <5> QED
          BY <1>1, <1>6, <1>7, <2>1, <2>3, <5>1
      <4> QED
        BY <1>6, <2>1, <4>1, <4>2
    <3> QED
      BY <1>1, <1>4, <1>7, <1>9, <2>1, <2>3, <3>1
  <2>4. CASE q = k - 1 /\ r > 0
    <3>1. q = d
      <4>0. d * m \in Nat
        BY <1>1, <2>1
      <4>1. ASSUME q < d PROVE FALSE
        <5>1. q * m + m <= d * m
          BY <1>1, <1>7, <2>1, <4>1
        <5> QED
          BY <1>1, <1>6, <1>7, <1>9, <2>1, <2>4, <4>0, <5>1
      <4>2. ASSUME d < q PROVE FALSE
        <5>1. d * m + m <= q * m
          BY <1>1, <1>7, <2>1, <4>2
        <5> QED
          BY <1>1, <1>6, <1>7, <1>10, <2>1, <2>4, <4>0, <5>1
      <4> QED
        BY <1>7, <2>1, <4>1, <4>2
    <3>2. ~(q * m + m <= n)
      BY <1>1, <1>7, <2>1, <3>1
    <3> QED
      BY <1>1, <1>4, <1>6, <1>7, <2>1, <2>4, <3>1, <3>2
  <2> QED
    BY <1>6, <1>7, <2>1, <2>2, <2>3, <2>4
<1>15. Members(q) \subseteq Indexes
  BY <1>3
<1> QED
  BY <1>13, <1>14, <1>15
-----------------------------------------------------------------------------
(* Threads and queues. *)
LEMMA PoolFacts ==
  ASSUME conf \in Confs, NEW t \in Pool
  PROVE  /\ t = <<t[1], t[2]>> /\ t[1] \in Stages /\ t[2] \in Indexes
         /\ t # Fragment /\ t # Reorder /\ t[1] # "Fragment"
         /\ QidOf(t) = t[2] \div conf.MAX_THREADS_PER_QUEUE /\ QidOf(t) \in Q
         /\ Input[t[1]] \in Queues /\ Outputs[t[1]] \subseteq Queues
         /\ Ends[t[1]] \in Outputs[t[1]]
         /\ t[2] \in Members(QidOf(t))
<1>1. t = <<t[1], t[2]>> /\ t[1] \in Stages /\ t[2] \in Indexes
  BY DEF Pool, Indexes
<1>2. t # Fragment /\ t # Reorder /\ t[1] # "Fragment"
  BY <1>1 DEF Stages, Fragment, Reorder
<1>3. QidOf(t) = t[2] \div conf.MAX_THREADS_PER_QUEUE /\ QidOf(t) \in Q
  BY <1>1, QFacts DEF QidOf
<1>4. Input[t[1]] \in Queues /\ Outputs[t[1]] \subseteq Queues /\ Ends[t[1]] \in Outputs[t[1]]
  BY <1>1 DEF Stages, Input, Outputs, Ends, Queues
<1>5. t[2] \in Members(QidOf(t))
  BY <1>1, <1>3 DEF Members
<1> QED
  BY <1>1, <1>2, <1>3, <1>4, <1>5

LEMMA SenderFacts ==
  ASSUME Typed, NEW t \in Pool \union {Fragment}
  PROVE  QidOf(t) \in Q /\ Outputs[t[1]] \subseteq Queues /\ Ends[t[1]] \in Outputs[t[1]]
         /\ t \in Threads /\ t # Reorder
<1>1. CASE t \in Pool
  BY <1>1, PoolFacts DEF Typed, Threads
<1>2. CASE t = Fragment
  <2>1. Fragment \notin Pool /\ Fragment # Reorder
    BY DEF Fragment, Pool, Stages, Reorder
  <2>2. QidOf(t) = qid["Fragment"]
    BY <1>2, <2>1 DEF QidOf, Fragment
  <2>3. Outputs[t[1]] = {"refine_que"} /\ Ends[t[1]] = "refine_que"
    BY <1>2 DEF Fragment, Outputs, Ends
  <2> QED
    BY <1>2, <2>1, <2>2, <2>3 DEF Typed, Queues, Threads
<1> QED
  BY <1>1, <1>2

LEMMA StageEnds ==
  /\ \A n \in Stages : Ends[n] \in Queues \ {"refine_que"}
  /\ \A s \in Queues : s # "refine_que" => \E n \in Stages : Ends[n] = s
  /\ \A n, o \in Stages : Ends[n] = Ends[o] => n = o
BY DEF Stages, Queues, Ends

LEMMA ThreadOf ==
  ASSUME NEW n \in Stages, NEW i \in Indexes
  PROVE  <<n, i>> \in Pool /\ <<n, i>> \in Threads
BY DEF Pool, Indexes, Threads

(* A queue is terminated when all the threads that are counted for it have *)
(* ended.                                                                  *)
LEMMA EndedCount ==
  ASSUME Typed, Counts, NEW n \in Stages, NEW q \in Q
  PROVE  /\ nTerminated[Ends[n]][q] <= Producers(Ends[n], q)
         /\ Terminated(Ends[n], q) <=> \A i \in Members(q) : pc[<<n, i>>] = "done"
<1> DEFINE P == Producers(Ends[n], q)
           T == nTerminated[Ends[n]][q]
<1>1. IsFiniteSet(Members(q)) /\ P = Cardinality(Members(q))
  BY MembersCount, StageEnds DEF Typed
<1>2. T = Cardinality(Ended(n, q))
  BY DEF Counts
<1>3. Ended(n, q) \in SUBSET Members(q)
  BY DEF Ended
<1>4. /\ IsFiniteSet(Ended(n, q)) /\ Cardinality(Ended(n, q)) <= Cardinality(Members(q))
      /\ Cardinality(Members(q)) = Cardinality(Ended(n, q)) => Members(q) = Ended(n, q)
  BY <1>1, <1>3, FS_Subset, Zenon
<1>5. Members(q) = Ended(n, q) <=> \A i \in Members(q) : pc[<<n, i>>] = "done"
  BY DEF Ended
<1>6. T = P <=> Members(q) = Ended(n, q)
  BY <1>1, <1>2, <1>4
<1>7. Terminated(Ends[n], q) <=> T = P
  BY DEF Terminated
<1> HIDE DEF T, P
<1> QED
  BY <1>1, <1>2, <1>4, <1>5, <1>6, <1>7 DEF T, P

LEMMA RefineEnds ==
  ASSUME Typed, Counts, NEW q \in Q
  PROVE  /\ Terminated("refine_que", q) <=> pc[Fragment] = "done"
         /\ nTerminated["refine_que"][q] <= Producers("refine_que", q)
BY DEF Counts, Terminated, Producers

(* What is true of a queue's end stays true. *)
LEMMA Same ==
  ASSUME conf' = conf
  PROVE  /\ Q' = Q /\ nqueues' = nqueues /\ Pool' = Pool /\ Threads' = Threads
         /\ Indexes' = Indexes /\ Places' = Places /\ RoughPlaces' = RoughPlaces
         /\ FinePlaces' = FinePlaces
         /\ \A s, q : Producers(s, q)' = Producers(s, q)
         /\ \A q : Members(q)' = Members(q)
         /\ \A t \in Pool : QidOf(t)' = QidOf(t)
<1>1. nqueues' = nqueues
  BY DEF nqueues
<1>2. Q' = Q
  BY <1>1 DEF Q
<1>3. Pool' = Pool /\ Indexes' = Indexes
  BY DEF Pool, Indexes
<1>4. Threads' = Threads
  BY <1>3 DEF Threads
<1>5. Places' = Places
  BY <1>2, <1>3 DEF Places
<1>6. RoughPlaces' = RoughPlaces
  BY <1>3, <1>5 DEF RoughPlaces
<1>7. FinePlaces' = FinePlaces
  BY <1>5, <1>6 DEF FinePlaces
<1>8. \A s, q : Producers(s, q)' = Producers(s, q)
  BY <1>1 DEF Producers
<1>9. \A q : Members(q)' = Members(q)
  BY <1>3 DEF Members
<1>10. \A t \in Pool : QidOf(t)' = QidOf(t)
  BY <1>3 DEF QidOf
<1> QED
  BY <1>1, <1>2, <1>3, <1>4, <1>5, <1>6, <1>7, <1>8, <1>9, <1>10

LEMMA StaysTerminated ==
  ASSUME Typed, Counts, Typed', Counts', conf' = conf,
         \A t \in Threads : pc[t] = "done" => pc'[t] = "done",
         NEW s \in Queues, NEW q \in Q, Terminated(s, q)
  PROVE  Terminated(s, q)'
<1>1. Q' = Q /\ \A p : Members(p)' = Members(p)
  BY Same
<1>2. CASE s = "refine_que"
  <2>1. Fragment \in Threads
    BY DEF Threads
  <2>2. pc[Fragment] = "done"
    BY <1>2, RefineEnds
  <2>3. pc'[Fragment] = "done"
    BY <2>1, <2>2
  <2>4. nTerminated'["refine_que"][q] = 1
    BY <1>1, <2>3 DEF Counts
  <2> QED
    BY <1>2, <2>4 DEF Terminated, Producers
<1>3. CASE s # "refine_que"
  <2>1. PICK n \in Stages : s = Ends[n]
    BY <1>3, StageEnds
  <2>2. \A i \in Members(q) : pc[<<n, i>>] = "done"
    BY <2>1, EndedCount
  <2>3. Members(q) \subseteq Indexes
    BY DEF Members
  <2>4. \A i \in Members(q) : pc'[<<n, i>>] = "done"
    BY <2>2, <2>3, ThreadOf
  <2>5. Ended(n, q)' = Members(q)
    BY <1>1, <2>4 DEF Ended
  <2>6. nTerminated'[s][q] = Cardinality(Members(q))
    BY <1>1, <2>1, <2>5 DEF Counts
  <2>7. Producers(s, q)' = Cardinality(Members(q))
    BY <1>3, MembersCount, Same DEF Typed
  <2> QED
    BY <2>6, <2>7 DEF Terminated
<1> QED
  BY <1>2, <1>3

(* What NothingAfterEnd says of the threads: nobody has anything for a queue *)
(* that is terminated.                                                     *)
LEMMA NoneLeft ==
  ASSUME Typed, Counts, Ending, NEW s \in Queues, NEW q \in Q, Terminated(s, q),
         NEW t \in Pool \union {Fragment}, t = Fragment \/ QidOf(t) = q
  PROVE  send_buf[t][s] = <<>>
<1>1. conf \in Confs
  BY DEF Typed
<1>2. CASE s \notin Outputs[t[1]]
  BY <1>2 DEF Ending
<1>3. CASE t = Fragment /\ s \in Outputs[t[1]]
  <2>1. s = "refine_que"
    BY <1>3 DEF Fragment, Outputs
  <2>2. pc[Fragment] = "done"
    BY <2>1, RefineEnds
  <2> QED
    BY <1>3, <2>2 DEF Ending
<1> DEFINE all(n) == \A i \in Members(q) : pc[<<n, i>>] = "done"
<1>4. ASSUME t \in Pool, all(t[1])
      PROVE  send_buf[t][s] = <<>>
  <2>1. QidOf(t) = q
    BY <1>1, <1>4, PoolFacts
  <2>2. t[2] \in Members(q) /\ t = <<t[1], t[2]>>
    BY <1>1, <1>4, <2>1, PoolFacts
  <2>3. pc[t] = "done"
    BY <1>4, <2>2
  <2> QED
    BY <1>4, <2>3 DEF Ending
<1>5. CASE t \in Pool /\ s = Ends[t[1]]
  <2>1. all(t[1])
    BY <1>1, <1>5, PoolFacts, EndedCount
  <2> QED
    BY <1>4, <1>5, <2>1
<1>6. CASE t \in Pool /\ s \in Outputs[t[1]] /\ s # Ends[t[1]]
  <2>1. t[1] = "Deduplicate" /\ s = "reorder_que"
    BY <1>1, <1>6, PoolFacts DEF Stages, Outputs, Ends
  <2>2. all("Compress")
    BY <2>1, EndedCount DEF Stages, Ends
  <2>3. Members(q) # {} /\ Members(q) \subseteq Indexes
    BY <1>1, MembersCount DEF Queues
  <2>4. PICK i \in Members(q) : i \in Indexes /\ pc[<<"Compress", i>>] = "done"
    BY <2>2, <2>3
  <2>5. <<"Compress", i>> \in Pool
    BY <2>4, ThreadOf DEF Stages
  <2>6. QidOf(<<"Compress", i>>) = q
    BY <2>4, <2>5 DEF QidOf, Members
  <2>7. Terminated("compress_que", q)
    BY <2>4, <2>5, <2>6 DEF Ending, Input, Dry
  <2>8. all("Deduplicate")
    BY <2>7, EndedCount DEF Stages, Ends
  <2> QED
    BY <1>4, <1>6, <2>1, <2>8
<1> QED
  BY <1>2, <1>3, <1>5, <1>6

(* Steps that end no thread leave the count alone. *)
LEMMA CountsKept ==
  ASSUME Typed, Counts, conf' = conf, nTerminated' = nTerminated,
         \A t \in Threads : pc'[t] = "done" <=> pc[t] = "done"
  PROVE  Counts'
<1>1. Q' = Q /\ \A q : Members(q)' = Members(q)
  BY Same
<1>2. pc'[Fragment] = "done" <=> pc[Fragment] = "done"
  BY DEF Threads
<1>3. \A n \in Stages, q \in Q : Ended(n, q)' = Ended(n, q)
  <2> TAKE n \in Stages, q \in Q
  <2>1. \A i \in Members(q) : <<n, i>> \in Threads
    BY ThreadOf DEF Members
  <2> QED
    BY <1>1, <2>1 DEF Ended
<1> QED
  BY <1>1, <1>2, <1>3 DEF Counts

LEMMA Pieces ==
  ASSUME NEW S, NEW s \in Seq(S), NEW n \in 0..Len(s)
  PROVE  /\ First(s, n) \in Seq(S) /\ Len(First(s, n)) = n
         /\ \A i \in 1..n : First(s, n)[i] = s[i]
         /\ Rest(s, n) \in Seq(S) /\ Len(Rest(s, n)) = Len(s) - n
         /\ \A i \in 1..(Len(s) - n) : Rest(s, n)[i] = s[n + i]
<1>1. First(s, n) \in Seq(S) /\ Len(First(s, n)) = n /\ \A i \in 1..n : First(s, n)[i] = s[i]
  BY DEF First
<1>2. Rest(s, n) \in Seq(S) /\ Len(Rest(s, n)) = Len(s) - n
      /\ \A i \in 1..(Len(s) - n) : Rest(s, n)[i] = s[n + i]
  BY DEF Rest
<1> QED
  BY <1>1, <1>2

LEMMA ChunkPieces ==
  \A s \in Seq(Chunks) : \A n \in 0..Len(s) :
    /\ First(s, n) \in Seq(Chunks) /\ Len(First(s, n)) = n
    /\ \A i \in 1..n : First(s, n)[i] = s[i]
    /\ Rest(s, n) \in Seq(Chunks) /\ Len(Rest(s, n)) = Len(s) - n
    /\ \A i \in 1..(Len(s) - n) : Rest(s, n)[i] = s[n + i]
BY Pieces

LEMMA Joins ==
  \A s, r \in Seq(Chunks) :
    /\ s \o r \in Seq(Chunks) /\ Len(s \o r) = Len(s) + Len(r)
    /\ \A i \in 1..Len(s) : (s \o r)[i] = s[i]
    /\ \A i \in 1..Len(r) : (s \o r)[Len(s) + i] = r[i]
OBVIOUS

LEMMA OneChunk ==
  /\ <<>> \in Seq(Chunks) /\ Len(<<>>) = 0
  /\ \A c \in Chunks : <<c>> \in Seq(Chunks) /\ Len(<<c>>) = 1 /\ <<c>>[1] = c
OBVIOUS

LEMMA AtMostOne ==
  ASSUME NEW w, NEW S \in SUBSET Chunks, w = <<>> \/ \E c \in S : w = <<c>>
  PROVE  w \in Seq(Chunks) /\ Len(w) <= 1
<1>1. CASE w = <<>>
  BY <1>1
<1>2. CASE \E c \in S : w = <<c>>
  <2>1. PICK c \in Chunks : w = <<c>>
    BY <1>2
  <2>2. w \in Seq(Chunks) /\ Len(w) = 1
    BY <2>1
  <2> QED
    BY <2>2
<1> QED
  BY <1>1, <1>2

LEMMA Steps ==
  ASSUME Typed, Counts, Ending, Typed', Counts', conf' = conf,
         \A t \in Threads : pc[t] = "done" => pc'[t] = "done",
         \A t \in Pool \union {Fragment}, s \in Queues :
           \/ send_buf'[t][s] = <<>>
           \/ s \in Outputs[t[1]] /\ pc'[t] # "done",
         \A t \in Pool : pc'[t] # "run" =>
           \/ recv_buf'[t] = <<>> /\ pc[t] # "run"
           \/ recv_buf'[t] = <<>> /\ Dry(Input[t[1]], QidOf(t)),
         \A s \in Queues, q \in Q : Dry(s, q) /\ s # "reorder_que" => que'[s][q] = <<>>,
         pc'[Reorder] # "run" => writing' = <<>>
  PROVE  Ending'
<1>1. Pool' = Pool /\ \A t \in Pool : QidOf(t)' = QidOf(t)
  BY Same
<1>2. conf \in Confs
  BY DEF Typed
<1>3. ASSUME NEW t \in Pool, pc'[t] # "run"
      PROVE  recv_buf'[t] = <<>> /\ Dry(Input[t[1]], QidOf(t))'
  <2>1. recv_buf'[t] = <<>> /\ Dry(Input[t[1]], QidOf(t))
    BY <1>3 DEF Ending
  <2>2. Input[t[1]] \in Queues /\ Input[t[1]] # "reorder_que" /\ QidOf(t) \in Q
    BY <1>2, PoolFacts DEF Input, Stages
  <2>3. PICK s \in Queues, q \in Q : s = Input[t[1]] /\ q = QidOf(t)
    BY <2>2
  <2>4. que'[s][q] = <<>>
    BY <2>1, <2>2, <2>3
  <2>5. Terminated(s, q)'
    BY <2>1, <2>3, StaysTerminated DEF Dry
  <2> QED
    BY <1>1, <2>1, <2>3, <2>4, <2>5 DEF Dry
<1> QED
  BY <1>1, <1>3 DEF Ending

Steady == Typed /\ Bounded /\ Counts /\ Ending

LEMMA Fetches ==
  ASSUME Steady, NEW t \in Pool \union {Reorder}, NEW s \in Queues, NEW q \in Q,
         recv_buf[t] = <<>>, pc[t] = "run", Dequeue(t, s, q),
         UNCHANGED <<conf, nTerminated, pc, send_buf, cache, fragVars, reorderVars>>,
         qid' \in [{"Fragment", "Reorder"} -> Q]
  PROVE  Steady'
<1> USE DEF fragVars, reorderVars
<1> DEFINE n == Least(Len(que[s][q]), conf.FETCH)
<1>0. Typed /\ Bounded /\ Counts /\ Ending
  BY DEF Steady
<1>1. Q' = Q /\ Pool' = Pool /\ Threads' = Threads
  BY Same
<1>2. conf.FETCH \in Nat /\ que[s][q] \in Seq(Chunks) /\ conf.QUEUE_SIZE \in Nat
  BY <1>0, ConfFacts DEF Typed
<1>3. n \in 0..Len(que[s][q]) /\ n <= conf.FETCH
  BY <1>2 DEF Least
<1> HIDE DEF n
<1>4. que' = [que EXCEPT ![s][q] = Rest(@, n)]
      /\ recv_buf' = [recv_buf EXCEPT ![t] = First(que[s][q], n)]
      /\ que[s][q] # <<>>
  BY DEF Dequeue, n
<1>5. /\ Rest(que[s][q], n) \in Seq(Chunks) /\ First(que[s][q], n) \in Seq(Chunks)
      /\ Len(First(que[s][q], n)) = n /\ Len(Rest(que[s][q], n)) = Len(que[s][q]) - n
  BY <1>2, <1>3, ChunkPieces
<1>6. que' \in [Queues -> [Q -> Seq(Chunks)]]
      /\ \A r \in Queues, p \in Q : que'[r][p] = IF r = s /\ p = q THEN Rest(que[s][q], n) ELSE que[r][p]
  BY <1>0, <1>4, <1>5 DEF Typed
<1>7. recv_buf' \in [Pool \union {Reorder} -> Seq(Chunks)]
      /\ \A u \in Pool \union {Reorder} : recv_buf'[u] = IF u = t THEN First(que[s][q], n) ELSE recv_buf[u]
  BY <1>0, <1>4, <1>5 DEF Typed
<1>8. Typed'
  BY <1>0, <1>1, <1>6, <1>7 DEF Typed, anchors
<1>9. Bounded'
  <2>1. \A r \in Queues, p \in Q : Len(que'[r][p]) <= conf.QUEUE_SIZE
    <3>1. Len(que[s][q]) - n <= Len(que[s][q]) /\ Len(que[s][q]) <= conf.QUEUE_SIZE
      BY <1>0, <1>2, <1>3 DEF Bounded
    <3>2. Len(Rest(que[s][q], n)) <= conf.QUEUE_SIZE
      BY <1>2, <1>3, <1>5, <3>1
    <3> QED
      BY <1>0, <1>6, <3>2 DEF Bounded
  <2>2. \A u \in Pool \union {Reorder} : Len(recv_buf'[u]) <= conf.FETCH
    BY <1>0, <1>3, <1>5, <1>7 DEF Bounded
  <2> QED
    BY <1>0, <1>1, <2>1, <2>2 DEF Bounded
<1>10. Counts'
  BY <1>0, CountsKept
<1>11. Ending'
  <2>1. \A u \in Pool : pc'[u] # "run" => recv_buf'[u] = <<>> /\ pc[u] # "run"
    BY <1>0, <1>7 DEF Ending
  <2>2. \A r \in Queues, p \in Q : Dry(r, p) => que'[r][p] = <<>>
    BY <1>4, <1>6 DEF Dry
  <2>3. \A u \in Pool \union {Fragment}, r \in Queues :
           send_buf'[u][r] = <<>> \/ (r \in Outputs[u[1]] /\ pc'[u] # "done")
    BY <1>0 DEF Ending
  <2>4. pc'[Reorder] # "run" => writing' = <<>>
    BY <1>0 DEF Ending
  <2> QED
    BY <1>0, <1>8, <1>10, <2>1, <2>2, <2>3, <2>4, Steps
<1> QED
  BY <1>8, <1>9, <1>10, <1>11 DEF Steady

LEMMA Enqueues ==
  ASSUME Steady, NEW t \in Pool \union {Fragment}, Enqueue(t)
  PROVE  Steady'
<1> USE DEF fragVars, reorderVars
<1>0. Typed /\ Bounded /\ Counts /\ Ending
  BY DEF Steady
<1> DEFINE q == QidOf(t)
<1>1. PICK s \in Outputs[t[1]] :
        LET n == Least(Len(send_buf[t][s]), conf.QUEUE_SIZE - Len(que[s][q]))
        IN  /\ MustSend(t, s)
            /\ Len(que[s][q]) < conf.QUEUE_SIZE
            /\ que' = [que EXCEPT ![s][q] = @ \o First(send_buf[t][s], n)]
            /\ send_buf' = [send_buf EXCEPT ![t][s] = Rest(@, n)]
  BY DEF Enqueue
<1> DEFINE n == Least(Len(send_buf[t][s]), conf.QUEUE_SIZE - Len(que[s][q]))
<1>2. /\ UNCHANGED <<conf, nTerminated, pc, recv_buf, cache, fragVars, reorderVars>>
      /\ qid' = IF t = Fragment THEN [qid EXCEPT !["Fragment"] = (q + 1) % nqueues] ELSE qid
  BY DEF Enqueue
<1>3. q \in Q /\ s \in Queues /\ t \in Threads
  BY <1>0, SenderFacts
<1> HIDE DEF q
<1>4. Q' = Q /\ Pool' = Pool /\ Threads' = Threads
  BY <1>2, Same
<1>5. /\ send_buf[t][s] \in Seq(Chunks) /\ que[s][q] \in Seq(Chunks) /\ conf.QUEUE_SIZE \in Nat
      /\ conf.INSERT \in Nat /\ conf.INSERT > 0
  <2>1. send_buf[t] \in [Queues -> Seq(Chunks)] /\ que[s] \in [Q -> Seq(Chunks)]
    BY <1>0, <1>3 DEF Typed
  <2>2. conf \in Confs
    BY <1>0 DEF Typed
  <2> QED
    BY <1>3, <2>1, <2>2, ConfFacts
<1>6. n \in 0..Len(send_buf[t][s]) /\ Len(que[s][q]) + n <= conf.QUEUE_SIZE
  <2>1. ASSUME NEW a \in Nat, NEW b \in Nat, NEW k \in Nat, b < k
        PROVE  Least(a, k - b) \in 0..a /\ b + Least(a, k - b) <= k
    BY <2>1 DEF Least
  <2>2. Len(send_buf[t][s]) \in Nat /\ Len(que[s][q]) \in Nat
    BY <1>5
  <2> QED
    BY <1>1, <1>5, <2>1, <2>2
<1>7. que' = [que EXCEPT ![s][q] = @ \o First(send_buf[t][s], n)]
      /\ send_buf' = [send_buf EXCEPT ![t][s] = Rest(@, n)]
  BY <1>1
<1> HIDE DEF n
<1>8. send_buf[t][s] # <<>>
  BY <1>1, <1>5 DEF MustSend, Due, Full
<1>9. /\ First(send_buf[t][s], n) \in Seq(Chunks) /\ Rest(send_buf[t][s], n) \in Seq(Chunks)
      /\ Len(First(send_buf[t][s], n)) = n
      /\ Len(Rest(send_buf[t][s], n)) = Len(send_buf[t][s]) - n
  BY <1>5, <1>6, ChunkPieces
<1>10. que' \in [Queues -> [Q -> Seq(Chunks)]]
       /\ \A r \in Queues, p \in Q :
            que'[r][p] = IF r = s /\ p = q THEN que[s][q] \o First(send_buf[t][s], n) ELSE que[r][p]
  <2>1. que[s][q] \o First(send_buf[t][s], n) \in Seq(Chunks)
    BY <1>5, <1>9, Joins
  <2> QED
    BY <1>0, <1>3, <1>7, <2>1 DEF Typed
<1>11. send_buf' \in [Pool \union {Fragment} -> [Queues -> Seq(Chunks)]]
       /\ \A u \in Pool \union {Fragment}, r \in Queues :
            send_buf'[u][r] = IF u = t /\ r = s THEN Rest(send_buf[t][s], n) ELSE send_buf[u][r]
  BY <1>0, <1>3, <1>5, <1>7, <1>9 DEF Typed
<1>12. qid' \in [{"Fragment", "Reorder"} -> Q]
  <2>1. nqueues \in Nat /\ nqueues > 0
    BY <1>0, QFacts DEF Typed
  <2>2. ASSUME NEW a \in Nat PROVE a % nqueues \in 0..(nqueues - 1)
    BY <2>1
  <2>3. (q + 1) % nqueues \in Q
    BY <1>3, <2>1, <2>2 DEF Q
  <2> QED
    BY <1>0, <1>2, <2>3 DEF Typed
<1>13. Typed'
  BY <1>0, <1>2, <1>4, <1>10, <1>11, <1>12 DEF Typed, anchors
<1>14. Bounded'
  <2>1. \A r \in Queues, p \in Q : Len(que'[r][p]) <= conf.QUEUE_SIZE
    <3>1. Len(que[s][q] \o First(send_buf[t][s], n)) <= conf.QUEUE_SIZE
      BY <1>5, <1>6, <1>9, Joins
    <3> QED
      BY <1>0, <1>10, <3>1 DEF Bounded
  <2>2. \A u \in Pool \union {Fragment}, r \in Queues : Len(send_buf'[u][r]) <= conf.INSERT
    <3>1. Len(send_buf[t][s]) <= conf.INSERT
      BY <1>0, <1>3 DEF Bounded
    <3>2. Len(Rest(send_buf[t][s], n)) <= conf.INSERT
      BY <1>5, <1>6, <1>9, <3>1
    <3> QED
      BY <1>0, <1>11, <3>2 DEF Bounded
  <2> QED
    BY <1>0, <1>2, <1>4, <2>1, <2>2 DEF Bounded
<1>15. Counts'
  BY <1>0, <1>2, CountsKept
<1>16. Ending'
  <2>1. \A u \in Pool : pc'[u] # "run" => recv_buf'[u] = <<>> /\ Dry(Input[u[1]], QidOf(u))
    BY <1>0, <1>2 DEF Ending
  <2>2. \A r \in Queues, p \in Q : Dry(r, p) => que'[r][p] = <<>>
    <3>1. ~Dry(s, q)
      BY <1>0, <1>3, <1>8, NoneLeft DEF Dry, q
    <3> QED
      BY <1>10, <3>1 DEF Dry
  <2>3. \A u \in Pool \union {Fragment}, r \in Queues :
           send_buf'[u][r] = <<>> \/ (r \in Outputs[u[1]] /\ pc'[u] # "done")
    <3>1. s \in Outputs[t[1]] /\ pc'[t] # "done"
      BY <1>0, <1>2, <1>3, <1>8 DEF Ending
    <3>2. ASSUME NEW u \in Pool \union {Fragment}, NEW r \in Queues, ~(u = t /\ r = s)
          PROVE  send_buf'[u][r] = <<>> \/ (r \in Outputs[u[1]] /\ pc'[u] # "done")
      <4>1. send_buf'[u][r] = send_buf[u][r]
        BY <1>11, <3>2
      <4> QED
        BY <1>0, <1>2, <4>1 DEF Ending
    <3> QED
      BY <3>1, <3>2
  <2>4. pc'[Reorder] # "run" => writing' = <<>>
    BY <1>0, <1>2 DEF Ending
  <2> QED
    BY <1>0, <1>2, <1>13, <1>15, <2>1, <2>2, <2>3, <2>4, Steps
<1> QED
  BY <1>13, <1>14, <1>15, <1>16 DEF Steady

LEMMA Drains ==
  ASSUME Steady, NEW t \in Pool, InputEnds(t)
  PROVE  Steady'
<1> USE DEF fragVars, reorderVars
<1>0. Typed /\ Bounded /\ Counts /\ Ending
  BY DEF Steady
<1>1. /\ UNCHANGED <<conf, que, nTerminated, recv_buf, send_buf, qid, cache, fragVars, reorderVars>>
      /\ pc' = [pc EXCEPT ![t] = "drain"] /\ pc[t] = "run" /\ recv_buf[t] = <<>>
      /\ Dry(Input[t[1]], QidOf(t))
  BY DEF InputEnds
<1>2. Q' = Q /\ Pool' = Pool /\ Threads' = Threads
  BY <1>1, Same
<1>3. t \in Threads /\ t # Fragment /\ t # Reorder /\ Fragment \in Threads /\ Reorder \in Threads
      /\ Pool \subseteq Threads
  BY <1>0, PoolFacts DEF Threads, Typed
<1>4. \A u \in Threads : pc'[u] = IF u = t THEN "drain" ELSE pc[u]
  BY <1>0, <1>1, <1>3 DEF Typed
<1>5. Typed'
  BY <1>0, <1>1, <1>2, <1>3, <1>4 DEF Typed, anchors
<1>6. Bounded'
  BY <1>0, <1>1, <1>2 DEF Bounded
<1>7. Counts'
  BY <1>0, <1>1, <1>4, CountsKept
<1>8. Ending'
  <2>1. \A u \in Pool : pc'[u] # "run" => recv_buf'[u] = <<>> /\ Dry(Input[u[1]], QidOf(u))
    BY <1>0, <1>1, <1>3, <1>4 DEF Ending
  <2>2. \A r \in Queues, p \in Q : Dry(r, p) => que'[r][p] = <<>>
    BY <1>1 DEF Dry
  <2>3. \A u \in Pool \union {Fragment}, r \in Queues :
           send_buf'[u][r] = <<>> \/ (r \in Outputs[u[1]] /\ pc'[u] # "done")
    BY <1>0, <1>1, <1>3, <1>4 DEF Ending
  <2>4. pc'[Reorder] # "run" => writing' = <<>>
    BY <1>0, <1>1, <1>3, <1>4 DEF Ending
  <2> QED
    BY <1>0, <1>1, <1>4, <1>5, <1>7, <2>1, <2>2, <2>3, <2>4, Steps
<1> QED
  BY <1>5, <1>6, <1>7, <1>8 DEF Steady

LEMMA Shuts ==
  ASSUME Steady, NEW t \in Pool \union {Fragment}, Shutdown(t)
  PROVE  Steady'
<1> USE DEF fragVars, reorderVars
<1>0. Typed /\ Bounded /\ Counts /\ Ending
  BY DEF Steady
<1> DEFINE s == Ends[t[1]]
<1>1. /\ UNCHANGED <<conf, que, recv_buf, send_buf, qid, cache, fragVars, reorderVars>>
      /\ pc' = [pc EXCEPT ![t] = "done"] /\ pc[t] = "drain" /\ Idle(t)
      /\ nTerminated' = [nTerminated EXCEPT ![s] = [q \in Q |->
                           IF t = Fragment \/ q = QidOf(t) THEN @[q] + 1 ELSE @[q]]]
  BY DEF Shutdown
<1>2. Q' = Q /\ Pool' = Pool /\ Threads' = Threads /\ Indexes' = Indexes
      /\ (\A q : Members(q)' = Members(q)) /\ \A r, q : Producers(r, q)' = Producers(r, q)
  BY <1>1, Same
<1>3. /\ QidOf(t) \in Q /\ Outputs[t[1]] \subseteq Queues /\ s \in Queues
      /\ t \in Threads /\ t # Reorder /\ Fragment \in Threads /\ Reorder \in Threads
      /\ Pool \subseteq Threads
  BY <1>0, SenderFacts DEF Threads
<1>4. \A u \in Threads : pc'[u] = IF u = t THEN "done" ELSE pc[u]
  BY <1>0, <1>1, <1>3 DEF Typed
<1>5. nTerminated' \in [Queues -> [Q -> Nat]]
      /\ \A r \in Queues, q \in Q : nTerminated'[r][q] =
           IF r = s /\ (t = Fragment \/ q = QidOf(t)) THEN nTerminated[r][q] + 1
                                                      ELSE nTerminated[r][q]
  <2>1. nTerminated[s] \in [Q -> Nat]
    BY <1>0, <1>3 DEF Typed
  <2> DEFINE new == [q \in Q |-> IF t = Fragment \/ q = QidOf(t) THEN nTerminated[s][q] + 1
                                                               ELSE nTerminated[s][q]]
  <2>2. new \in [Q -> Nat]
    BY <2>1
  <2>3. nTerminated' = [nTerminated EXCEPT ![s] = new]
    BY <1>1
  <2>4. \A q \in Q : new[q] = IF t = Fragment \/ q = QidOf(t) THEN nTerminated[s][q] + 1
                                                               ELSE nTerminated[s][q]
    OBVIOUS
  <2> HIDE DEF new, s
  <2> QED
    BY <1>0, <1>3, <2>2, <2>3, <2>4 DEF Typed
<1> HIDE DEF s
<1>6. Typed'
  BY <1>0, <1>1, <1>2, <1>3, <1>4, <1>5 DEF Typed, anchors
<1>7. Bounded'
  BY <1>0, <1>1, <1>2 DEF Bounded
<1>8. Counts'
  <2>1. CASE t = Fragment
    <3>1. s = "refine_que"
      BY <2>1 DEF s, Ends, Fragment
    <3>2. \A n \in Stages, q \in Q : Ended(n, q)' = Ended(n, q)
      <4> TAKE n \in Stages, q \in Q
      <4>1. \A i \in Members(q) : <<n, i>> \in Threads /\ <<n, i>> # t
        BY <2>1, ThreadOf DEF Members, Fragment, Stages
      <4> QED
        BY <1>2, <1>4, <4>1 DEF Ended
    <3>3. \A q \in Q : nTerminated'["refine_que"][q] = 1
      BY <1>0, <1>1, <1>5, <2>1, <3>1 DEF Counts, Queues
    <3>4. \A n \in Stages, q \in Q : nTerminated'[Ends[n]][q] = nTerminated[Ends[n]][q]
      BY <1>5, <3>1, StageEnds
    <3> QED
      BY <1>0, <1>2, <1>3, <1>4, <2>1, <3>2, <3>3, <3>4 DEF Counts
  <2>2. CASE t \in Pool /\ t # Fragment
    <3>1. t[1] \in Stages /\ t = <<t[1], t[2]>> /\ t[2] \in Members(QidOf(t)) /\ s # "refine_que"
      BY <1>0, <2>2, PoolFacts, StageEnds DEF Typed, s
    <3>2. ASSUME NEW n \in Stages, NEW q \in Q
          PROVE  Ended(n, q)' = IF n = t[1] /\ q = QidOf(t) THEN Ended(n, q) \union {t[2]}
                                                            ELSE Ended(n, q)
      <4>1. \A i \in Members(q) : <<n, i>> \in Threads
        BY ThreadOf DEF Members
      <4>2. \A i \in Members(q) : <<n, i>> = t <=> n = t[1] /\ i = t[2]
        BY <3>1
      <4>3. t[2] \in Members(q) => q = QidOf(t)
        BY <3>1 DEF Members
      <4> QED
        BY <1>2, <1>4, <3>1, <4>1, <4>2, <4>3 DEF Ended
    <3>3. ASSUME NEW n \in Stages, NEW q \in Q
          PROVE  nTerminated'[Ends[n]][q] = Cardinality(Ended(n, q)')
      <4>1. IsFiniteSet(Members(q)) /\ Ended(n, q) \in SUBSET Members(q)
        BY <1>0, MembersCount DEF Typed, Ended, Queues
      <4>2. IsFiniteSet(Ended(n, q))
        BY <4>1, FS_Subset
      <4>3. Cardinality(Ended(n, q) \union {t[2]}) =
              IF t[2] \in Ended(n, q) THEN Cardinality(Ended(n, q)) ELSE Cardinality(Ended(n, q)) + 1
        BY <4>2, FS_AddElement
      <4>4. n = t[1] => t[2] \notin Ended(n, q)
        BY <1>1, <3>1 DEF Ended
      <4>5. Ends[n] = s <=> n = t[1]
        BY <3>1, StageEnds DEF s
      <4>6. nTerminated[Ends[n]][q] = Cardinality(Ended(n, q)) /\ Ends[n] \in Queues
        BY <1>0, StageEnds DEF Counts
      <4> QED
        BY <1>5, <2>2, <3>2, <4>3, <4>4, <4>5, <4>6
    <3>4. \A q \in Q : nTerminated'["refine_que"][q] = nTerminated["refine_que"][q]
      BY <1>5, <3>1 DEF Queues
    <3>5. pc'[Fragment] = pc[Fragment]
      BY <1>3, <1>4, <2>2
    <3> QED
      BY <1>0, <1>2, <3>3, <3>4, <3>5 DEF Counts
  <2> QED
    BY <2>1, <2>2
<1>9. Ending'
  <2>1. \A u \in Pool : pc'[u] # "run" => recv_buf'[u] = <<>> /\ Dry(Input[u[1]], QidOf(u))
    <3> TAKE u \in Pool
    <3>1. pc'[u] # "run" => pc[u] # "run"
      BY <1>1, <1>3, <1>4
    <3> QED
      BY <1>0, <1>1, <3>1 DEF Ending
  <2>2. \A r \in Queues, p \in Q : Dry(r, p) => que'[r][p] = <<>>
    BY <1>1 DEF Dry
  <2>3. \A u \in Pool \union {Fragment}, r \in Queues :
           send_buf'[u][r] = <<>> \/ (r \in Outputs[u[1]] /\ pc'[u] # "done")
    <3>1. \A r \in Outputs[t[1]] : send_buf[t][r] = <<>>
      BY <1>1 DEF Idle, Due
    <3> QED
      BY <1>0, <1>1, <1>3, <1>4, <3>1 DEF Ending
  <2>4. pc'[Reorder] # "run" => writing' = <<>>
    BY <1>0, <1>1, <1>3, <1>4 DEF Ending
  <2> QED
    BY <1>0, <1>1, <1>4, <1>6, <1>8, <2>1, <2>2, <2>3, <2>4, Steps
<1> QED
  BY <1>6, <1>7, <1>8, <1>9 DEF Steady
-----------------------------------------------------------------------------
(* Steps of one thread with its own buffers. *)
LEMMA Sends ==
  ASSUME Steady, NEW t \in Pool \union {Fragment}, NEW s \in Outputs[t[1]], NEW c \in Chunks,
         Idle(t), pc[t] \notin {"drain", "done"}, Send(t, s, c)
  PROVE  /\ s \in Queues
         /\ send_buf' \in [Pool \union {Fragment} -> [Queues -> Seq(Chunks)]]
         /\ \A u \in Pool \union {Fragment}, r \in Queues : send_buf'[u][r] =
              IF u = t /\ r = s THEN Append(send_buf[t][s], c) ELSE send_buf[u][r]
         /\ \A u \in Pool \union {Fragment}, r \in Queues :
              /\ Len(send_buf'[u][r]) <= conf.INSERT
              /\ send_buf'[u][r] = <<>> \/ (r \in Outputs[u[1]] /\ pc[u] # "done")
<1>0. Typed /\ Bounded /\ Counts /\ Ending
  BY DEF Steady
<1>1. s \in Queues
  BY <1>0, SenderFacts
<1>2. send_buf[t] \in [Queues -> Seq(Chunks)]
  BY <1>0 DEF Typed
<1>3. send_buf[t][s] \in Seq(Chunks) /\ conf.INSERT \in Nat
  <2>1. conf \in Confs
    BY <1>0 DEF Typed
  <2> QED
    BY <1>1, <1>2, <2>1, ConfFacts
<1>4. Append(send_buf[t][s], c) \in Seq(Chunks)
      /\ Len(Append(send_buf[t][s], c)) = Len(send_buf[t][s]) + 1
  BY <1>3
<1>5. Len(send_buf[t][s]) < conf.INSERT
  <2>1. Len(send_buf[t][s]) # conf.INSERT
    BY DEF Idle, Due, Full
  <2>2. Len(send_buf[t][s]) <= conf.INSERT
    BY <1>0, <1>1 DEF Bounded
  <2> QED
    BY <1>3, <2>1, <2>2
<1>6. send_buf' = [send_buf EXCEPT ![t][s] = Append(send_buf[t][s], c)]
  BY DEF Send
<1>7. send_buf' \in [Pool \union {Fragment} -> [Queues -> Seq(Chunks)]]
      /\ \A u \in Pool \union {Fragment}, r \in Queues : send_buf'[u][r] =
              IF u = t /\ r = s THEN Append(send_buf[t][s], c) ELSE send_buf[u][r]
  BY <1>0, <1>1, <1>4, <1>6 DEF Typed
<1>8. \A u \in Pool \union {Fragment}, r \in Queues : Len(send_buf'[u][r]) <= conf.INSERT
  <2>1. Len(Append(send_buf[t][s], c)) <= conf.INSERT
    BY <1>3, <1>4, <1>5
  <2> QED
    BY <1>0, <1>7, <2>1 DEF Bounded
<1>9. \A u \in Pool \union {Fragment}, r \in Queues :
        send_buf'[u][r] = <<>> \/ (r \in Outputs[u[1]] /\ pc[u] # "done")
  <2> TAKE u \in Pool \union {Fragment}, r \in Queues
  <2>1. CASE u = t /\ r = s
    BY <2>1
  <2>2. CASE ~(u = t /\ r = s)
    <3>1. send_buf'[u][r] = send_buf[u][r]
      BY <1>7, <2>2
    <3>2. r \notin Outputs[u[1]] => send_buf[u][r] = <<>>
      BY <1>0 DEF Ending
    <3>3. pc[u] = "done" => send_buf[u][r] = <<>>
      BY <1>0 DEF Ending
    <3> QED
      BY <3>1, <3>2, <3>3
  <2> QED
    BY <2>1, <2>2
<1> QED
  BY <1>1, <1>7, <1>8, <1>9

\* what is left to show of a step that touches no queue
LEMMA Local ==
  ASSUME Steady, UNCHANGED <<conf, que, nTerminated, qid>>, Typed',
         \A t \in Threads : pc'[t] = "done" <=> pc[t] = "done",
         \A t \in Pool : pc'[t] = pc[t],
         \A t \in Pool \union {Reorder} : Len(recv_buf'[t]) <= conf.FETCH,
         \A t \in Pool : pc[t] # "run" => recv_buf'[t] = recv_buf[t],
         \A t \in Pool \union {Fragment}, s \in Queues :
           /\ Len(send_buf'[t][s]) <= conf.INSERT
           /\ send_buf'[t][s] = <<>> \/ (s \in Outputs[t[1]] /\ pc[t] # "done"),
         Len(writing') <= 1,
         pc'[Reorder] # "run" => writing' = <<>>
  PROVE  Steady'
<1>0. Typed /\ Bounded /\ Counts /\ Ending
  BY DEF Steady
<1>1. Q' = Q /\ Pool' = Pool
  BY Same
<1>2. Bounded'
  BY <1>0, <1>1 DEF Bounded
<1>3. Counts'
  BY <1>0, CountsKept
<1>4. Pool \subseteq Threads /\ Fragment \in Threads
  BY DEF Threads
<1>5. \A t \in Pool : pc'[t] # "run" => recv_buf'[t] = <<>> /\ Dry(Input[t[1]], QidOf(t))
  BY <1>0 DEF Ending
<1>6. \A t \in Pool \union {Fragment}, s \in Queues :
        send_buf'[t][s] = <<>> \/ (s \in Outputs[t[1]] /\ pc'[t] # "done")
  BY <1>4
<1>7. \A s \in Queues, q \in Q : Dry(s, q) => que'[s][q] = <<>>
  BY DEF Dry
<1>8. Ending'
  BY <1>0, <1>3, <1>5, <1>6, <1>7, Steps
<1> QED
  BY <1>2, <1>3, <1>8 DEF Steady

LEMMA SendsOnly ==
  ASSUME Steady, UNCHANGED <<conf, que, nTerminated, qid, recv_buf, writing>>, Typed',
         \A t \in Threads : t # Fragment => pc'[t] = pc[t],
         pc'[Fragment] = "done" <=> pc[Fragment] = "done",
         \A t \in Pool \union {Fragment}, s \in Queues :
           /\ Len(send_buf'[t][s]) <= conf.INSERT
           /\ send_buf'[t][s] = <<>> \/ (s \in Outputs[t[1]] /\ pc[t] # "done")
  PROVE  Steady'
<1>1. \A t \in Pool : t \in Threads /\ t # Fragment
  BY DEF Threads, Pool, Fragment, Stages
<1>2. Reorder \in Threads /\ Reorder # Fragment
  BY DEF Threads, Reorder, Fragment
<1> QED
  BY <1>1, <1>2, Local DEF Steady, Bounded, Ending

LEMMA Keeps ==
  ASSUME Steady
  PROVE  \A t \in Pool \union {Fragment}, s \in Queues :
           /\ Len(send_buf[t][s]) <= conf.INSERT
           /\ send_buf[t][s] = <<>> \/ (s \in Outputs[t[1]] /\ pc[t] # "done")
BY DEF Steady, Bounded, Ending

LEMMA FreshFacts ==
  ASSUME Typed
  PROVE  Fresh \in Seq(Alphabet) /\ seek + Len(Fresh) \in 0..Len(conf.file)
<1> DEFINE f == conf.file
           m == conf.MAXBUF
<1>1. f \in Seq(Alphabet) /\ m \in Nat /\ seek \in 0..Len(f)
  <2>1. conf \in Confs /\ seek \in 0..Len(f)
    BY DEF Typed
  <2> QED
    BY <2>1, ConfFacts
<1>2. Fresh = SubSeq(f, seek + 1, IF seek + m < Len(f) THEN seek + m ELSE Len(f))
  BY DEF Fresh, NextBytes
<1> HIDE DEF f, m
<1>3. PICK b \in 0..Len(f) : b >= seek /\ Fresh = SubSeq(f, seek + 1, b)
  <2>1. PICK b \in 0..Len(f) : b >= seek /\ b = IF seek + m < Len(f) THEN seek + m ELSE Len(f)
    BY <1>1
  <2> QED
    BY <1>2, <2>1
<1>4. SubSeq(f, seek + 1, b) \in Seq(Alphabet) /\ Len(SubSeq(f, seek + 1, b)) = b - seek
  BY <1>1, <1>3
<1> QED
  BY <1>1, <1>3, <1>4 DEF f

LEMMA Reads ==
  ASSUME Steady, FragmentRead
  PROVE  Steady'
<1> USE DEF fragVars, reorderVars
<1>0. Typed
  BY DEF Steady
<1>1. /\ pc[Fragment] = "read" /\ Idle(Fragment)
      /\ UNCHANGED <<conf, que, nTerminated, recv_buf, qid, cache, reorderVars>>
  BY DEF FragmentRead
<1>2. Q' = Q /\ Pool' = Pool /\ Threads' = Threads
  BY <1>1, Same
<1>3. /\ Fragment \in Threads /\ Reorder \in Threads /\ Reorder # Fragment
      /\ \A t \in Pool : t \in Threads /\ t # Fragment
  BY DEF Threads, Fragment, Reorder, Pool, Stages
<1>4. CASE Fresh # <<>>
  <2>1. /\ chunk' = [chunk EXCEPT !.content = @ \o Fresh] /\ seek' = seek + Len(Fresh)
        /\ pc' = [pc EXCEPT ![Fragment] = "split"] /\ send_buf' = send_buf
    BY <1>4 DEF FragmentRead
  <2>2. \A t \in Threads : pc'[t] = IF t = Fragment THEN "split" ELSE pc[t]
    BY <1>0, <2>1 DEF Typed
  <2>3. chunk' \in [l1 : Nat, content : Seq(Alphabet)]
    <3>1. chunk \in [l1 : Nat, content : Seq(Alphabet)] /\ Fresh \in Seq(Alphabet)
      BY <1>0, FreshFacts DEF Typed
    <3>2. chunk.content \o Fresh \in Seq(Alphabet)
      BY <3>1
    <3> QED
      BY <2>1, <3>1, <3>2
  <2>4. seek' \in 0..Len(conf.file)
    BY <1>0, <2>1, FreshFacts
  <2>5. Typed'
    BY <1>0, <1>1, <1>2, <1>3, <2>1, <2>2, <2>3, <2>4 DEF Typed, anchors
  <2> QED
    BY <1>1, <1>3, <2>1, <2>2, <2>5, Keeps, SendsOnly
<1>5. CASE Fresh = <<>>
  <2> DEFINE c == [l1 |-> chunk.l1, l2 |-> 0, last |-> TRUE, content |-> chunk.content]
  <2>1. /\ IF chunk.content = <<>> THEN UNCHANGED send_buf ELSE Send(Fragment, "refine_que", c)
        /\ chunk' = NoChunk /\ pc' = [pc EXCEPT ![Fragment] = "drain"] /\ seek' = seek
    BY <1>5 DEF FragmentRead
  <2>2. \A t \in Threads : pc'[t] = IF t = Fragment THEN "drain" ELSE pc[t]
    BY <1>0, <2>1 DEF Typed
  <2>3. chunk' \in [l1 : Nat, content : Seq(Alphabet)] /\ c \in Chunks
    BY <1>0, <2>1 DEF Typed, NoChunk, Chunks
  <2>4. /\ send_buf' \in [Pool \union {Fragment} -> [Queues -> Seq(Chunks)]]
        /\ \A t \in Pool \union {Fragment}, s \in Queues :
             /\ Len(send_buf'[t][s]) <= conf.INSERT
             /\ send_buf'[t][s] = <<>> \/ (s \in Outputs[t[1]] /\ pc[t] # "done")
    <3>1. CASE chunk.content = <<>>
      BY <1>0, <2>1, <3>1, Keeps DEF Typed
    <3>2. CASE chunk.content # <<>>
      <4>1. "refine_que" \in Outputs[Fragment[1]] /\ Fragment \in Pool \union {Fragment}
        BY DEF Outputs, Fragment
      <4>2. Send(Fragment, "refine_que", c) /\ pc[Fragment] \notin {"drain", "done"}
        BY <1>1, <2>1, <3>2
      <4> HIDE DEF c
      <4> QED
        BY <1>1, <2>3, <4>1, <4>2, Sends
    <3> QED
      BY <3>1, <3>2
  <2>5. Typed'
    BY <1>0, <1>1, <1>2, <1>3, <2>1, <2>2, <2>3, <2>4 DEF Typed, anchors
  <2> QED
    BY <1>1, <1>3, <2>2, <2>4, <2>5, SendsOnly
<1> QED
  BY <1>4, <1>5

LEMMA Splits ==
  ASSUME Steady, FragmentSplit
  PROVE  Steady'
<1> USE DEF fragVars, reorderVars
<1>0. Typed
  BY DEF Steady
<1>1. /\ pc[Fragment] = "split" /\ Idle(Fragment)
      /\ UNCHANGED <<conf, que, nTerminated, pc, recv_buf, qid, seek, cache, reorderVars>>
  BY DEF FragmentSplit
<1>2. PICK n \in (conf.ANCHOR_JUMP + 1)..(Len(chunk.content) - 1) :
        /\ Send(Fragment, "refine_que",
                [l1 |-> chunk.l1, l2 |-> 0, last |-> TRUE, content |-> First(chunk.content, n)])
        /\ chunk' = [l1 |-> chunk.l1 + 1, content |-> Rest(chunk.content, n)]
  BY DEF FragmentSplit
<1>3. Q' = Q /\ Pool' = Pool /\ Threads' = Threads
  BY <1>1, Same
<1>4. chunk.content \in Seq(Alphabet) /\ chunk.l1 \in Nat /\ conf \in Confs
  BY <1>0 DEF Typed
<1>5. n \in 0..Len(chunk.content)
  BY <1>4, ConfFacts
<1>6. First(chunk.content, n) \in Seq(Alphabet) /\ Rest(chunk.content, n) \in Seq(Alphabet)
  <2>1. PICK x \in Seq(Alphabet) : x = chunk.content
    BY <1>4
  <2> QED
    BY <1>5, <2>1, Pieces
<1> DEFINE c == [l1 |-> chunk.l1, l2 |-> 0, last |-> TRUE, content |-> First(chunk.content, n)]
<1>7. c \in Chunks /\ chunk' \in [l1 : Nat, content : Seq(Alphabet)]
  BY <1>2, <1>4, <1>6 DEF Chunks
<1>8. Send(Fragment, "refine_que", c)
  BY <1>2
<1> HIDE DEF c
<1>9. "refine_que" \in Outputs[Fragment[1]] /\ Fragment \in Pool \union {Fragment}
  BY DEF Outputs, Fragment
<1>10. /\ send_buf' \in [Pool \union {Fragment} -> [Queues -> Seq(Chunks)]]
       /\ \A t \in Pool \union {Fragment}, s \in Queues :
            /\ Len(send_buf'[t][s]) <= conf.INSERT
            /\ send_buf'[t][s] = <<>> \/ (s \in Outputs[t[1]] /\ pc[t] # "done")
  BY <1>1, <1>7, <1>8, <1>9, Sends
<1>11. Typed'
  BY <1>0, <1>1, <1>3, <1>7, <1>10 DEF Typed, anchors
<1> QED
  BY <1>1, <1>10, <1>11, SendsOnly

LEMMA NoSplits ==
  ASSUME Steady, FragmentNoSplit
  PROVE  Steady'
<1> USE DEF fragVars, reorderVars
<1>0. Typed
  BY DEF Steady
<1>1. /\ pc[Fragment] = "split" /\ pc' = [pc EXCEPT ![Fragment] = "read"]
      /\ UNCHANGED <<conf, que, nTerminated, recv_buf, send_buf, qid, cache, fragVars, reorderVars>>
  BY DEF FragmentNoSplit
<1>2. Q' = Q /\ Pool' = Pool /\ Threads' = Threads
  BY <1>1, Same
<1>3. /\ Fragment \in Threads /\ Reorder \in Threads /\ Reorder # Fragment
      /\ \A t \in Pool : t \in Threads /\ t # Fragment
  BY DEF Threads, Fragment, Reorder, Pool, Stages
<1>4. \A t \in Threads : pc'[t] = IF t = Fragment THEN "read" ELSE pc[t]
  BY <1>0, <1>1 DEF Typed
<1>5. Typed'
  BY <1>0, <1>1, <1>2, <1>3, <1>4 DEF Typed, anchors
<1> QED
  BY <1>1, <1>3, <1>4, <1>5, Keeps, SendsOnly

LEMMA HeadOf ==
  ASSUME Typed, NEW t \in Pool \union {Reorder}, recv_buf[t] # <<>>
  PROVE  /\ recv_buf[t] \in Seq(Chunks) /\ Head(recv_buf[t]) \in Chunks
         /\ Head(recv_buf[t]) = recv_buf[t][1] /\ 1 \in DOMAIN recv_buf[t]
         /\ Tail(recv_buf[t]) \in Seq(Chunks)
         /\ Len(Tail(recv_buf[t])) = Len(recv_buf[t]) - 1
         /\ \A i \in 1..(Len(recv_buf[t]) - 1) : Tail(recv_buf[t])[i] = recv_buf[t][i + 1]
<1>1. recv_buf[t] \in Seq(Chunks)
  BY DEF Typed
<1>2. ASSUME NEW r \in Seq(Chunks), r # <<>>
      PROVE  /\ Head(r) \in Chunks /\ Head(r) = r[1] /\ 1 \in DOMAIN r
             /\ Tail(r) \in Seq(Chunks) /\ Len(Tail(r)) = Len(r) - 1
             /\ \A i \in 1..(Len(r) - 1) : Tail(r)[i] = r[i + 1]
  BY <1>2
<1> QED
  BY <1>1, <1>2

\* a thread of the pool sends c, and what is left of its input is r
LEMMA PoolSends ==
  ASSUME Steady, NEW t \in Pool, NEW s \in Outputs[t[1]], NEW c \in Chunks,
         NEW r \in Seq(Chunks), Working(t), Send(t, s, c),
         recv_buf' = [recv_buf EXCEPT ![t] = r], Len(r) <= Len(recv_buf[t]),
         UNCHANGED <<conf, que, nTerminated, pc, qid, fragVars, reorderVars>>,
         \A x \in DOMAIN cache' : cache'[x] \in {"UNCOMPRESSED", "COMPRESSED", "FLUSHED"}
  PROVE  Steady'
<1> USE DEF fragVars, reorderVars
<1>0. Typed /\ Bounded
  BY DEF Steady
<1>1. Q' = Q /\ Pool' = Pool /\ Threads' = Threads
  BY Same
<1>2. pc[t] = "run" /\ Idle(t)
  BY DEF Working
<1>3. recv_buf' \in [Pool \union {Reorder} -> Seq(Chunks)]
      /\ \A u \in Pool \union {Reorder} : recv_buf'[u] = IF u = t THEN r ELSE recv_buf[u]
  BY <1>0 DEF Typed
<1>4. /\ send_buf' \in [Pool \union {Fragment} -> [Queues -> Seq(Chunks)]]
      /\ \A u \in Pool \union {Fragment}, q \in Queues :
           /\ Len(send_buf'[u][q]) <= conf.INSERT
           /\ send_buf'[u][q] = <<>> \/ (q \in Outputs[u[1]] /\ pc[u] # "done")
  BY <1>2, Sends
<1>5. Typed'
  BY <1>0, <1>1, <1>3, <1>4 DEF Typed, anchors
<1>6. \A u \in Pool \union {Reorder} : Len(recv_buf'[u]) <= conf.FETCH
  <2> TAKE u \in Pool \union {Reorder}
  <2>1. Len(recv_buf[u]) <= conf.FETCH /\ Len(recv_buf[u]) \in Nat /\ Len(r) \in Nat
    BY <1>0 DEF Bounded, Typed
  <2>2. conf.FETCH \in Nat
    BY <1>0, ConfFacts DEF Typed
  <2> QED
    BY <1>3, <2>1, <2>2
<1>7. \A u \in Pool : pc[u] # "run" => recv_buf'[u] = recv_buf[u]
  BY <1>2, <1>3
<1>8. Len(writing') <= 1 /\ (pc'[Reorder] # "run" => writing' = <<>>)
  BY DEF Steady, Bounded, Ending
<1> QED
  BY <1>4, <1>5, <1>6, <1>7, <1>8, Local

\* what FragmentRefine cuts off, n bytes long, and what it keeps
Piece(c, n) == [c EXCEPT !.content = First(@, n), !.last = (n = Len(c.content))]
Uncut(c, n) == [c EXCEPT !.content = Rest(@, n), !.l2 = @ + 1]
Kept(r, n) == IF n = Len(Head(r).content) THEN Tail(r) ELSE <<Uncut(Head(r), n)>> \o Tail(r)

LEMMA PieceFacts ==
  ASSUME NEW c \in Chunks, NEW n \in 1..Len(c.content)
  PROVE  /\ Piece(c, n) \in Chunks /\ Uncut(c, n) \in Chunks
         /\ Piece(c, n).l1 = c.l1 /\ Piece(c, n).l2 = c.l2
         /\ Piece(c, n).last = (n = Len(c.content))
         /\ Uncut(c, n).l1 = c.l1 /\ Uncut(c, n).l2 = c.l2 + 1 /\ Uncut(c, n).last = c.last
<1>1. c.content \in Seq(Alphabet) /\ n \in 0..Len(c.content)
  BY DEF Chunks
<1>2. First(c.content, n) \in Seq(Alphabet) /\ Rest(c.content, n) \in Seq(Alphabet)
  <2>1. PICK x \in Seq(Alphabet) : x = c.content
    BY <1>1
  <2> QED
    BY <1>1, <2>1, Pieces
<1>3. Piece(c, n) \in Chunks /\ Uncut(c, n) \in Chunks
  <2>1. ASSUME NEW m \in BOOLEAN, NEW y \in Seq(Alphabet)
        PROVE  [c EXCEPT !.content = y, !.last = m] \in Chunks
    BY DEF Chunks
  <2>2. ASSUME NEW k \in Nat, NEW y \in Seq(Alphabet)
        PROVE  [c EXCEPT !.content = y, !.l2 = k] \in Chunks
    BY DEF Chunks
  <2>3. (n = Len(c.content)) \in BOOLEAN /\ c.l2 + 1 \in Nat
    BY DEF Chunks
  <2>4. Piece(c, n) \in Chunks
    BY <1>2, <2>1, <2>3, Zenon DEF Piece
  <2>5. Uncut(c, n) \in Chunks
    BY <1>2, <2>2, <2>3, Zenon DEF Uncut
  <2> QED
    BY <2>4, <2>5
<1>4. Piece(c, n).l1 = c.l1 /\ Piece(c, n).l2 = c.l2
  BY DEF Chunks, Piece
<1>5. Piece(c, n).last = (n = Len(c.content))
  BY DEF Chunks, Piece
<1>6. Uncut(c, n).l1 = c.l1 /\ Uncut(c, n).last = c.last
  BY DEF Chunks, Uncut
<1>7. Uncut(c, n).l2 = c.l2 + 1
  BY DEF Chunks, Uncut
<1> QED
  BY <1>3, <1>4, <1>5, <1>6, <1>7

LEMMA RefineFacts ==
  ASSUME Typed, NEW t \in Pool, Refine(t)
  PROVE  \E n \in 1..Len(Head(recv_buf[t]).content) :
           /\ Send(t, "deduplicate_que", Piece(Head(recv_buf[t]), n))
           /\ recv_buf' = [recv_buf EXCEPT ![t] = Kept(recv_buf[t], n)]
           /\ Kept(recv_buf[t], n) \in Seq(Chunks)
           /\ Len(Kept(recv_buf[t], n)) <= Len(recv_buf[t])
<1> DEFINE r == recv_buf[t]
           c == Head(r)
<1>1. PICK n \in 1..Len(c.content) :
           /\ Send(t, "deduplicate_que", Piece(c, n))
           /\ recv_buf' = [recv_buf EXCEPT ![t] =
                IF n = Len(c.content) THEN Tail(@) ELSE <<Uncut(c, n)>> \o Tail(@)]
  BY DEF Refine, Piece, Uncut
<1>2. r \in Seq(Chunks) /\ r # <<>> /\ c \in Chunks /\ Tail(r) \in Seq(Chunks)
      /\ Len(Tail(r)) = Len(r) - 1
  BY HeadOf DEF Refine, Working
<1>3. Uncut(c, n) \in Chunks
  BY <1>2, PieceFacts
<1>4. recv_buf' = [recv_buf EXCEPT ![t] = Kept(r, n)]
  BY <1>1 DEF Kept
<1>5. Kept(r, n) \in Seq(Chunks) /\ Len(Kept(r, n)) <= Len(r)
  <2>1. <<Uncut(c, n)>> \in Seq(Chunks) /\ Len(<<Uncut(c, n)>>) = 1
    BY <1>3
  <2>2. /\ <<Uncut(c, n)>> \o Tail(r) \in Seq(Chunks)
        /\ Len(<<Uncut(c, n)>> \o Tail(r)) = Len(<<Uncut(c, n)>>) + Len(Tail(r))
    BY <1>2, <2>1, Joins
  <2>3. Len(r) \in Nat
    BY <1>2
  <2> QED
    BY <1>2, <2>1, <2>2, <2>3 DEF Kept
<1> QED
  BY <1>1, <1>4, <1>5

LEMMA Refines ==
  ASSUME Steady, NEW t \in Pool, t[1] = "FragmentRefine", Refine(t)
  PROVE  Steady'
<1> DEFINE r == recv_buf[t]
<1>0. Typed
  BY DEF Steady
<1>1. /\ Working(t) /\ UNCHANGED <<conf, que, nTerminated, pc, qid, cache, fragVars, reorderVars>>
  BY DEF Refine
<1>2. PICK n \in 1..Len(Head(r).content) :
           /\ Send(t, "deduplicate_que", Piece(Head(r), n))
           /\ recv_buf' = [recv_buf EXCEPT ![t] = Kept(r, n)]
           /\ Kept(r, n) \in Seq(Chunks) /\ Len(Kept(r, n)) <= Len(r)
  BY <1>0, RefineFacts
<1>3. Head(r) \in Chunks
  BY <1>0, <1>1, HeadOf DEF Working
<1>4. Piece(Head(r), n) \in Chunks
  BY <1>3, PieceFacts
<1>5. "deduplicate_que" \in Outputs[t[1]]
  BY DEF Outputs
<1>6. \A x \in DOMAIN cache' : cache'[x] \in {"UNCOMPRESSED", "COMPRESSED", "FLUSHED"}
  BY <1>0, <1>1 DEF Typed
<1> QED
  BY <1>1, <1>2, <1>4, <1>5, <1>6, PoolSends

LEMMA Deduplicates ==
  ASSUME Steady, NEW t \in Pool, t[1] = "Deduplicate", Deduplicate(t)
  PROVE  Steady'
<1> DEFINE c == Head(recv_buf[t])
           s == IF c.content \in DOMAIN cache THEN "reorder_que" ELSE "compress_que"
<1>0. Typed
  BY DEF Steady
<1>1. /\ Working(t) /\ UNCHANGED <<conf, que, nTerminated, pc, qid, fragVars, reorderVars>>
      /\ cache' = IF c.content \in DOMAIN cache THEN cache ELSE Inserted(c.content)
      /\ Send(t, s, c) /\ recv_buf' = [recv_buf EXCEPT ![t] = Tail(recv_buf[t])]
  BY DEF Deduplicate
<1>2. c \in Chunks /\ recv_buf[t] \in Seq(Chunks) /\ Tail(recv_buf[t]) \in Seq(Chunks)
      /\ Len(Tail(recv_buf[t])) = Len(recv_buf[t]) - 1
  BY <1>0, <1>1, HeadOf DEF Working
<1>3. s \in Outputs[t[1]]
  BY DEF Outputs
<1>4. \A x \in DOMAIN cache' : cache'[x] \in {"UNCOMPRESSED", "COMPRESSED", "FLUSHED"}
  <2>1. CASE c.content \in DOMAIN cache
    BY <1>0, <1>1, <2>1 DEF Typed
  <2>2. CASE c.content \notin DOMAIN cache
    <3>1. cache' = Inserted(c.content)
      BY <1>1, <2>2
    <3> QED
      BY <1>0, <3>1 DEF Typed, Inserted
  <2> QED
    BY <2>1, <2>2
<1>5. Len(Tail(recv_buf[t])) <= Len(recv_buf[t])
  BY <1>2
<1> HIDE DEF c, s
<1> QED
  BY <1>1, <1>2, <1>3, <1>4, <1>5, PoolSends

LEMMA Compresses ==
  ASSUME Steady, NEW t \in Pool, Compress(t)
  PROVE  Steady'
<1> USE DEF fragVars, reorderVars
<1>0. Typed
  BY DEF Steady
<1>1. /\ UNCHANGED <<conf, que, nTerminated, pc, recv_buf, send_buf, qid, fragVars, reorderVars>>
      /\ cache' = [cache EXCEPT ![Head(recv_buf[t]).content] = "COMPRESSED"]
  BY DEF Compress
<1>2. Q' = Q /\ Pool' = Pool /\ Threads' = Threads
  BY <1>1, Same
<1>3. \A x \in DOMAIN cache' : cache'[x] \in {"UNCOMPRESSED", "COMPRESSED", "FLUSHED"}
  BY <1>0, <1>1 DEF Typed
<1>4. Typed'
  BY <1>0, <1>1, <1>2, <1>3 DEF Typed, anchors
<1> QED
  BY <1>1, <1>4, Keeps, SendsOnly

LEMMA Passes ==
  ASSUME Steady, NEW t \in Pool, t[1] = "Compress", PassOn(t)
  PROVE  Steady'
<1> DEFINE c == Head(recv_buf[t])
<1>0. Typed
  BY DEF Steady
<1>1. /\ Working(t) /\ UNCHANGED <<conf, que, nTerminated, pc, qid, cache, fragVars, reorderVars>>
      /\ Send(t, "reorder_que", c) /\ recv_buf' = [recv_buf EXCEPT ![t] = Tail(recv_buf[t])]
  BY DEF PassOn
<1>2. c \in Chunks /\ recv_buf[t] \in Seq(Chunks) /\ Tail(recv_buf[t]) \in Seq(Chunks)
      /\ Len(Tail(recv_buf[t])) = Len(recv_buf[t]) - 1
  BY <1>0, <1>1, HeadOf DEF Working
<1>3. "reorder_que" \in Outputs[t[1]]
  BY DEF Outputs
<1>4. \A x \in DOMAIN cache' : cache'[x] \in {"UNCOMPRESSED", "COMPRESSED", "FLUSHED"}
  BY <1>0, <1>1 DEF Typed
<1>5. Len(Tail(recv_buf[t])) <= Len(recv_buf[t])
  BY <1>2
<1> HIDE DEF c
<1> QED
  BY <1>1, <1>2, <1>3, <1>4, <1>5, PoolSends
-----------------------------------------------------------------------------
(* Reorder. *)
LEMMA TurnIn ==
  ASSUME Typed
  PROVE  (\A i \in Nat : Turn(i) \in Q) /\ IsFiniteSet(Passed) /\ Passed \subseteq Q
         /\ Cardinality(Passed) \in Nat /\ Cardinality(Passed) <= nqueues
         /\ (Cardinality(Passed) = nqueues => Passed = Q)
         /\ (\A q \in Q : (q + 1) % nqueues \in Q)
<1>1. nqueues \in Nat /\ nqueues > 0
  BY QFacts DEF Typed
<1>2. ASSUME NEW a \in Nat PROVE a % nqueues \in 0..(nqueues - 1)
  BY <1>1
<1>3. qid["Reorder"] \in Nat
  BY DEF Typed, Q
<1>4. ASSUME NEW i \in Nat PROVE Turn(i) \in Q
  <2>1. qid["Reorder"] + i \in Nat
    BY <1>3
  <2> QED
    BY <1>2, <2>1 DEF Turn, Q
<1>5. \A q \in Q : (q + 1) % nqueues \in Q
  BY <1>1, <1>2 DEF Q
<1>6. IsFiniteSet(Q) /\ Cardinality(Q) = nqueues
  <2>1. 0 \in Int /\ nqueues - 1 \in Int /\ 0 <= nqueues - 1
    BY <1>1
  <2>2. IsFiniteSet(0..(nqueues - 1)) /\ Cardinality(0..(nqueues - 1)) = nqueues - 1 - 0 + 1
    BY <2>1, FS_Interval
  <2> QED
    BY <1>1, <2>2 DEF Q
<1>7. Passed \in SUBSET Q
  BY DEF Passed
<1>8. /\ IsFiniteSet(Passed) /\ Cardinality(Passed) <= Cardinality(Q)
      /\ Cardinality(Q) = Cardinality(Passed) => Q = Passed
  BY <1>6, <1>7, FS_Subset, Zenon
<1>9. Cardinality(Passed) \in Nat
  BY <1>8, FS_CardinalityType
<1> QED
  BY <1>4, <1>5, <1>6, <1>7, <1>8, <1>9

LEMMA ReorderFetchFacts ==
  ASSUME Typed, ReorderFetch
  PROVE  \E q \in Q : /\ Dequeue(Reorder, "reorder_que", q)
                      /\ qid' = [qid EXCEPT !["Reorder"] = (q + 1) % nqueues]
<1>1. Turn(Cardinality(Passed)) \in Q
  BY TurnIn
<1> QED
  BY <1>1 DEF ReorderFetch

LEMMA ReorderFetches ==
  ASSUME Steady, ReorderFetch
  PROVE  Steady'
<1>0. Typed
  BY DEF Steady
<1>1. PICK q \in Q : /\ Dequeue(Reorder, "reorder_que", q)
                     /\ qid' = [qid EXCEPT !["Reorder"] = (q + 1) % nqueues]
  BY <1>0, ReorderFetchFacts
<1>2. qid' \in [{"Fragment", "Reorder"} -> Q]
  BY <1>0, <1>1, TurnIn DEF Typed
<1>3. /\ pc[Reorder] = "run" /\ recv_buf[Reorder] = <<>>
      /\ UNCHANGED <<conf, nTerminated, pc, send_buf, cache, fragVars, reorderVars>>
  BY DEF ReorderFetch, Listening
<1> QED
  BY <1>1, <1>2, <1>3, Fetches DEF Queues

LEMMA AnchorCount ==
  ASSUME NEW k \in Nat \ {0}, NEW f \in [0..(k - 1) -> Nat]
  PROVE  Cardinality(DOMAIN f) = k
<1>1. 0 \in Int /\ k - 1 \in Int /\ 0 <= k - 1
  OBVIOUS
<1>2. Cardinality(0..(k - 1)) = k - 1 - 0 + 1
  BY <1>1, FS_Interval
<1> QED
  BY <1>2

LEMMA Doubling ==
  ASSUME Typed, NEW l1 \in Nat
  PROVE  \E k \in Nat \ {0} :
           /\ Doubled(l1) \in [0..(k - 1) -> Nat] /\ DOMAIN chunks_per_anchor \subseteq 0..(k - 1)
           /\ \A i \in 0..(k - 1) : Doubled(l1)[i] =
                IF i \in DOMAIN chunks_per_anchor THEN chunks_per_anchor[i] ELSE 0
<1>1. anchors \in Nat \ {0} /\ chunks_per_anchor \in [0..(anchors - 1) -> Nat]
  BY DEF Typed
<1>2. CASE l1 < anchors
  BY <1>1, <1>2 DEF Doubled
<1>3. CASE ~(l1 < anchors)
  <2>1. Doubled(l1) = [i \in 0..(2 * anchors - 1) |->
                         IF i < anchors THEN chunks_per_anchor[i] ELSE 0]
    BY <1>3 DEF Doubled
  <2>2. 2 * anchors \in Nat \ {0}
    BY <1>1
  <2> QED
    BY <1>1, <2>1, <2>2
<1> QED
  BY <1>2, <1>3

\* ReorderTake of the chunk c, with d the array
LEMMA TakeFacts ==
  ASSUME Typed, ReorderTake
  PROVE  LET c == Head(recv_buf[Reorder])
             d == Doubled(c.l1)
         IN  /\ c \in Chunks
             /\ pc[Reorder] = "run" /\ writing = <<>> /\ recv_buf[Reorder] # <<>>
             /\ recv_buf' = [recv_buf EXCEPT ![Reorder] = Tail(recv_buf[Reorder])]
             /\ UNCHANGED <<conf, que, nTerminated, send_buf, qid, cache, fragVars, next, out>>
             /\ \/ /\ pc' = [pc EXCEPT ![Reorder] = "overrun"]
                   /\ UNCHANGED <<chunks_per_anchor, writing, tree>>
                \/ /\ c.l1 \in DOMAIN d /\ pc' = pc
                   /\ chunks_per_anchor' = IF c.last THEN [d EXCEPT ![c.l1] = c.l2 + 1] ELSE d
                   /\ \/ Number(c) = next /\ writing' = <<c>> /\ tree' = tree
                      \/ Number(c) # next /\ writing' = <<>> /\ tree' = tree \union {c}
<1>1. Reorder \in Pool \union {Reorder} /\ recv_buf[Reorder] # <<>>
  BY DEF ReorderTake
<1>2. Head(recv_buf[Reorder]) \in Chunks
  BY <1>1, HeadOf
<1> QED
  BY <1>2 DEF ReorderTake

LEMMA Takes ==
  ASSUME Steady, ReorderTake
  PROVE  Steady'
<1> USE DEF fragVars, reorderVars
<1> DEFINE c == Head(recv_buf[Reorder])
           d == Doubled(c.l1)
<1>0. Typed
  BY DEF Steady
<1>1. /\ c \in Chunks
      /\ pc[Reorder] = "run" /\ writing = <<>> /\ recv_buf[Reorder] # <<>>
      /\ recv_buf' = [recv_buf EXCEPT ![Reorder] = Tail(recv_buf[Reorder])]
      /\ UNCHANGED <<conf, que, nTerminated, send_buf, qid, cache, fragVars, next, out>>
  BY <1>0, TakeFacts
<1>2. \/ /\ pc' = [pc EXCEPT ![Reorder] = "overrun"]
         /\ UNCHANGED <<chunks_per_anchor, writing, tree>>
      \/ /\ c.l1 \in DOMAIN d /\ pc' = pc
         /\ chunks_per_anchor' = IF c.last THEN [d EXCEPT ![c.l1] = c.l2 + 1] ELSE d
         /\ \/ Number(c) = next /\ writing' = <<c>> /\ tree' = tree
            \/ Number(c) # next /\ writing' = <<>> /\ tree' = tree \union {c}
  BY <1>0, TakeFacts
<1>3. Q' = Q /\ Pool' = Pool /\ Threads' = Threads
  BY <1>1, Same
<1>4. Reorder \in Threads /\ Reorder # Fragment /\ \A t \in Pool : t \in Threads /\ t # Reorder
  BY DEF Threads, Fragment, Reorder, Pool, Stages
<1>5. c.l1 \in Nat /\ c.l2 \in Nat
  BY <1>1 DEF Chunks
<1>6. PICK k \in Nat \ {0} : d \in [0..(k - 1) -> Nat]
  BY <1>0, <1>5, Doubling
<1>7. Reorder \in Pool \union {Reorder}
  OBVIOUS
<1>8. /\ Tail(recv_buf[Reorder]) \in Seq(Chunks)
      /\ Len(Tail(recv_buf[Reorder])) = Len(recv_buf[Reorder]) - 1
      /\ recv_buf[Reorder] \in Seq(Chunks)
  BY <1>0, <1>1, <1>7, HeadOf
<1> HIDE DEF c, d
<1>9. anchors' \in Nat \ {0} /\ chunks_per_anchor' \in [0..(anchors' - 1) -> Nat]
  <2>1. CASE chunks_per_anchor' = chunks_per_anchor
    BY <1>0, <2>1 DEF Typed, anchors
  <2>2. CASE c.l1 \in DOMAIN d
             /\ chunks_per_anchor' = IF c.last THEN [d EXCEPT ![c.l1] = c.l2 + 1] ELSE d
    <3>1. chunks_per_anchor' \in [0..(k - 1) -> Nat]
      BY <1>5, <1>6, <2>2
    <3>2. anchors' = k
      BY <3>1, AnchorCount DEF anchors
    <3> QED
      BY <3>1, <3>2
  <2> QED
    BY <1>2, <2>1, <2>2
<1>10. pc' \in [Threads -> {"read", "split", "run", "drain", "done", "overrun", "mismatch"}]
       /\ (\A t \in Threads : t # Reorder => pc'[t] = pc[t])
       /\ pc'[Reorder] \in {"run", "overrun"}
       /\ (pc'[Reorder] # "run" => writing' = <<>>)
  BY <1>0, <1>1, <1>2, <1>4 DEF Typed
<1>11. recv_buf' \in [Pool \union {Reorder} -> Seq(Chunks)]
       /\ \A t \in Pool \union {Reorder} : recv_buf'[t] =
            IF t = Reorder THEN Tail(recv_buf[Reorder]) ELSE recv_buf[t]
  BY <1>0, <1>1, <1>8 DEF Typed
<1>12. writing' \in Seq(Chunks) /\ Len(writing') <= 1 /\ tree' \in SUBSET Chunks
  <2>1. tree \in SUBSET Chunks
    BY <1>0 DEF Typed
  <2>2. (writing' = <<>> \/ \E e \in {c} : writing' = <<e>>) /\ tree' \subseteq tree \union {c}
    BY <1>1, <1>2
  <2>3. writing' \in Seq(Chunks) /\ Len(writing') <= 1
    BY <1>1, <2>2, AtMostOne
  <2> QED
    BY <1>1, <2>1, <2>2, <2>3
<1>13. Typed'
  <2>1. pc'[Fragment] = pc[Fragment] /\ \A t \in Pool : pc'[t] = pc[t]
    BY <1>4, <1>10 DEF Threads
  <2> QED
    BY <1>0, <1>1, <1>3, <1>9, <1>10, <1>11, <1>12, <2>1 DEF Typed
<1>14. \A t \in Pool \union {Reorder} : Len(recv_buf'[t]) <= conf.FETCH
  <2>1. \A t \in Pool \union {Reorder} : Len(recv_buf[t]) <= conf.FETCH
    BY DEF Steady, Bounded
  <2>2. conf.FETCH \in Nat /\ Len(recv_buf[Reorder]) \in Nat
    BY <1>0, <1>8, ConfFacts DEF Typed
  <2>3. Len(recv_buf[Reorder]) - 1 <= conf.FETCH
    BY <2>1, <2>2, <1>7
  <2> QED
    BY <1>8, <1>11, <2>1, <2>3
<1> QED
  BY <1>1, <1>4, <1>10, <1>11, <1>12, <1>13, <1>14, Keeps, Local

\* WriteChunk goes on with nxt, and with what is ready of the tree
Nxt ==
  IF chunks_per_anchor[next.l1] = next.l2 + 1 THEN [l1 |-> next.l1 + 1, l2 |-> 0]
                                              ELSE [next EXCEPT !.l2 = next.l2 + 1]
Ready == {d \in tree : Number(d) = Nxt}

LEMMA WriteFacts ==
  ASSUME Typed, WriteChunk
  PROVE  /\ writing # <<>> /\ writing[1] \in Chunks /\ 1 \in DOMAIN writing
         /\ next' = Nxt /\ Nxt \in [l1 : Nat, l2 : Nat]
         /\ Nxt.l1 = IF chunks_per_anchor[next.l1] = next.l2 + 1 THEN next.l1 + 1 ELSE next.l1
         /\ Nxt.l2 = IF chunks_per_anchor[next.l1] = next.l2 + 1 THEN 0 ELSE next.l2 + 1
         /\ tree' = tree \ Ready
         /\ \/ Ready = {} /\ writing' = <<>>
            \/ \E d \in Ready : writing' = <<d>>
         /\ UNCHANGED <<conf, que, nTerminated, pc, recv_buf, send_buf, qid, fragVars,
                        chunks_per_anchor>>
<1>1. writing # <<>> /\ writing[1] \in Chunks /\ 1 \in DOMAIN writing
  BY DEF WriteChunk, Typed
<1>2. next' = Nxt /\ tree' = tree \ Ready
  BY DEF WriteChunk, Nxt, Ready
<1>3. next \in [l1 : Nat, l2 : Nat]
  BY DEF Typed
<1>4. Nxt \in [l1 : Nat, l2 : Nat]
  BY <1>3 DEF Nxt
<1>5. /\ Nxt.l1 = IF chunks_per_anchor[next.l1] = next.l2 + 1 THEN next.l1 + 1 ELSE next.l1
      /\ Nxt.l2 = IF chunks_per_anchor[next.l1] = next.l2 + 1 THEN 0 ELSE next.l2 + 1
  BY <1>3 DEF Nxt
<1>6. writing' = IF Ready = {} THEN <<>> ELSE <<CHOOSE d \in Ready : TRUE>>
  BY DEF WriteChunk, Nxt, Ready
<1>7. \/ Ready = {} /\ writing' = <<>>
      \/ \E d \in Ready : writing' = <<d>>
  BY <1>6
<1>8. UNCHANGED <<conf, que, nTerminated, pc, recv_buf, send_buf, qid, fragVars,
                  chunks_per_anchor>>
  BY DEF WriteChunk
<1> QED
  BY <1>1, <1>2, <1>4, <1>5, <1>7, <1>8

LEMMA Writes ==
  ASSUME Steady, WriteChunk
  PROVE  Steady'
<1> USE DEF fragVars
<1>0. Typed
  BY DEF Steady
<1>1. Q' = Q /\ Pool' = Pool /\ Threads' = Threads
  BY Same DEF WriteChunk
<1>2. cache' = [cache EXCEPT ![writing[1].content] = "FLUSHED"]
  BY DEF WriteChunk
<1>3. \A x \in DOMAIN cache' : cache'[x] \in {"UNCOMPRESSED", "COMPRESSED", "FLUSHED"}
  BY <1>0, <1>2 DEF Typed
<1>4. writing' \in Seq(Chunks) /\ Len(writing') <= 1 /\ tree' \in SUBSET Chunks
  <2>1. tree \in SUBSET Chunks
    BY <1>0 DEF Typed
  <2>2. tree' = tree \ Ready /\ (writing' = <<>> \/ \E d \in Ready : writing' = <<d>>)
    BY <1>0, WriteFacts
  <2>3. Ready \subseteq tree
    BY DEF Ready
  <2> QED
    BY <2>1, <2>2, <2>3, AtMostOne
<1>5. out' \in Seq([type : {"TYPE_COMPRESS", "TYPE_FINGERPRINT"}, content : Seq(Alphabet)])
  <2>1. writing[1].content \in Seq(Alphabet)
    BY <1>0, WriteFacts DEF Chunks
  <2>2. PICK r \in [type : {"TYPE_COMPRESS", "TYPE_FINGERPRINT"}, content : Seq(Alphabet)] :
          out' = Append(out, r)
    BY <2>1 DEF WriteChunk, Data, Fingerprint
  <2> QED
    BY <1>0, <2>2 DEF Typed
<1>6. next' \in [l1 : Nat, l2 : Nat]
  BY <1>0, WriteFacts
<1>7. UNCHANGED <<conf, que, nTerminated, pc, recv_buf, send_buf, qid, fragVars,
                  chunks_per_anchor>>
  BY DEF WriteChunk
<1>8. Typed'
  BY <1>0, <1>1, <1>3, <1>4, <1>5, <1>6, <1>7 DEF Typed, anchors
<1>9. pc[Reorder] = "run"
  BY DEF Steady, Ending, WriteChunk
<1>10. \A t \in Pool \union {Reorder} : Len(recv_buf'[t]) <= conf.FETCH
  BY <1>7 DEF Steady, Bounded
<1> QED
  BY <1>4, <1>7, <1>8, <1>9, <1>10, Keeps, Local

LEMMA ReorderDone ==
  ASSUME Steady, ReorderEnds
  PROVE  Steady'
<1> USE DEF fragVars, reorderVars
<1>0. Typed
  BY DEF Steady
<1>1. /\ pc[Reorder] = "run" /\ writing = <<>>
      /\ UNCHANGED <<conf, que, nTerminated, recv_buf, send_buf, qid, cache, fragVars, reorderVars>>
      /\ pc' = [pc EXCEPT ![Reorder] = IF tree = {} THEN "done" ELSE "mismatch"]
  BY DEF ReorderEnds, Listening
<1>2. Q' = Q /\ Pool' = Pool /\ Threads' = Threads /\ Indexes' = Indexes
      /\ \A q : Members(q)' = Members(q)
  BY <1>1, Same
<1>3. /\ Reorder \in Threads /\ Fragment \in Threads /\ Reorder # Fragment
      /\ \A t \in Pool : t \in Threads /\ t # Reorder
  BY DEF Threads, Fragment, Reorder, Pool, Stages
<1>4. \A t \in Threads : pc'[t] = IF t = Reorder THEN pc'[Reorder] ELSE pc[t]
  BY <1>0, <1>1 DEF Typed
<1>5. Typed'
  BY <1>0, <1>1, <1>2, <1>3, <1>4 DEF Typed, anchors
<1>6. Bounded'
  BY <1>1, <1>2 DEF Steady, Bounded
<1>7. Counts'
  <2>1. \A n \in Stages, q \in Q : Ended(n, q)' = Ended(n, q)
    <3> TAKE n \in Stages, q \in Q
    <3>1. \A i \in Members(q) : <<n, i>> \in Pool
      BY ThreadOf DEF Members
    <3>2. \A i \in Members(q) : pc'[<<n, i>>] = pc[<<n, i>>]
      BY <1>3, <1>4, <3>1
    <3> QED
      BY <1>2, <3>2 DEF Ended
  <2> QED
    BY <1>1, <1>2, <1>3, <1>4, <2>1 DEF Steady, Counts
<1>8. Ending'
  <2>1. \A t \in Pool : pc'[t] # "run" => recv_buf'[t] = <<>> /\ Dry(Input[t[1]], QidOf(t))
    BY <1>1, <1>3, <1>4 DEF Steady, Ending
  <2>2. \A s \in Queues, q \in Q : Dry(s, q) => que'[s][q] = <<>>
    BY <1>1 DEF Dry
  <2>3. \A t \in Pool \union {Fragment}, s \in Queues :
           send_buf'[t][s] = <<>> \/ (s \in Outputs[t[1]] /\ pc'[t] # "done")
    BY <1>1, <1>3, <1>4 DEF Steady, Ending
  <2>4. \A t \in Threads : pc[t] = "done" => pc'[t] = "done"
    BY <1>1, <1>4
  <2> QED
    BY <1>0, <1>1, <1>5, <1>7, <2>1, <2>2, <2>3, <2>4, Steps DEF Steady
<1> QED
  BY <1>5, <1>6, <1>7, <1>8 DEF Steady

LEMMA SteadyInit ==
  ASSUME Init
  PROVE  Steady
<1>1. conf \in Confs
  BY DEF Init
<1>2. /\ Fragment \in Threads /\ Reorder \in Threads /\ Reorder # Fragment
      /\ \A t \in Pool : t \in Threads /\ t # Fragment /\ t # Reorder
  BY DEF Threads, Fragment, Reorder, Pool, Stages
<1>3. anchors \in Nat \ {0} /\ chunks_per_anchor \in [0..(anchors - 1) -> Nat]
  <2>1. conf.anchors \in Nat \ {0}
    BY <1>1, ConfFacts
  <2>2. chunks_per_anchor \in [0..(conf.anchors - 1) -> Nat]
    BY <2>1 DEF Init
  <2>3. anchors = conf.anchors
    BY <2>1, <2>2, AnchorCount DEF anchors
  <2> QED
    BY <2>1, <2>2, <2>3
<1>4. \A t \in Threads : pc[t] = IF t = Fragment THEN "read" ELSE "run"
  BY DEF Init
<1>5. /\ que \in [Queues -> [Q -> Seq(Chunks)]]
      /\ \A s \in Queues, q \in Q : que[s][q] = <<>>
      /\ nTerminated \in [Queues -> [Q -> Nat]]
      /\ \A s \in Queues, q \in Q : nTerminated[s][q] = 0
  BY OneChunk DEF Init
<1>6. /\ recv_buf \in [Pool \union {Reorder} -> Seq(Chunks)]
      /\ \A t \in Pool \union {Reorder} : recv_buf[t] = <<>>
      /\ send_buf \in [Pool \union {Fragment} -> [Queues -> Seq(Chunks)]]
      /\ \A t \in Pool \union {Fragment}, s \in Queues : send_buf[t][s] = <<>>
  BY OneChunk DEF Init
<1>7. Typed
  <2>1. pc \in [Threads -> {"read", "split", "run", "drain", "done", "overrun", "mismatch"}]
        /\ pc[Fragment] = "read" /\ pc[Reorder] = "run" /\ \A t \in Pool : pc[t] = "run"
    BY <1>2, <1>4 DEF Init
  <2>2. qid \in [{"Fragment", "Reorder"} -> Q]
    BY <1>1, QFacts DEF Init
  <2>3. seek \in 0..Len(conf.file)
    BY <1>1, ConfFacts DEF Init
  <2>4. chunk \in [l1 : Nat, content : Seq(Alphabet)] /\ next \in [l1 : Nat, l2 : Nat]
    BY DEF Init, NoChunk
  <2>5. writing \in Seq(Chunks) /\ tree \in SUBSET Chunks
        /\ out \in Seq([type : {"TYPE_COMPRESS", "TYPE_FINGERPRINT"}, content : Seq(Alphabet)])
    BY OneChunk DEF Init
  <2>6. \A c \in DOMAIN cache : cache[c] \in {"UNCOMPRESSED", "COMPRESSED", "FLUSHED"}
    BY DEF Init
  <2> QED
    BY <1>1, <1>3, <1>5, <1>6, <2>1, <2>2, <2>3, <2>4, <2>5, <2>6 DEF Typed
<1>8. Bounded
  BY <1>1, <1>5, <1>6, ConfFacts, OneChunk DEF Bounded, Init
<1>9. Counts
  <2>1. \A n \in Stages, q \in Q : Ended(n, q) = {}
    <3> TAKE n \in Stages, q \in Q
    <3>1. \A i \in Members(q) : <<n, i>> \in Pool
      BY ThreadOf DEF Members
    <3>2. \A i \in Members(q) : pc[<<n, i>>] # "done"
      BY <1>2, <1>4, <3>1
    <3> QED
      BY <3>2 DEF Ended
  <2>2. Cardinality({}) = 0
    BY FS_EmptySet
  <2>3. pc[Fragment] # "done"
    BY <1>2, <1>4
  <2> QED
    BY <1>5, <2>1, <2>2, <2>3, StageEnds DEF Counts, Queues
<1>10. Ending
  BY <1>2, <1>4, <1>6 DEF Ending
<1> QED
  BY <1>7, <1>8, <1>9, <1>10 DEF Steady

LEMMA SteadyNext ==
  ASSUME Steady, [Next]_vars
  PROVE  Steady'
<1>1. CASE FragmentNext
  BY <1>1, Reads, Splits, NoSplits DEF FragmentNext
<1>2. ASSUME NEW t \in Pool, PoolNext(t)
      PROVE  Steady'
  <2>1. CASE Fetch(t)
    <3>1. QidOf(t) \in Q /\ Input[t[1]] \in Queues
      BY PoolFacts DEF Steady, Typed
    <3>2. qid' \in [{"Fragment", "Reorder"} -> Q]
      BY <2>1 DEF Steady, Typed, Fetch
    <3> QED
      BY <2>1, <3>1, <3>2, Fetches DEF Fetch
  <2>2. CASE InputEnds(t)
    BY <2>2, Drains
  <2>3. CASE t[1] = "FragmentRefine" /\ Refine(t)
    BY <2>3, Refines
  <2>4. CASE t[1] = "Deduplicate" /\ Deduplicate(t)
    BY <2>4, Deduplicates
  <2>5. CASE t[1] = "Compress" /\ Compress(t)
    BY <2>5, Compresses
  <2>6. CASE t[1] = "Compress" /\ PassOn(t)
    BY <2>6, Passes
  <2> QED
    BY <1>2, <2>1, <2>2, <2>3, <2>4, <2>5, <2>6 DEF PoolNext
<1>3. ASSUME NEW t \in Pool \union {Fragment}, Enqueue(t) \/ Shutdown(t)
      PROVE  Steady'
  BY <1>3, Enqueues, Shuts
<1>4. CASE ReorderNext
  BY <1>4, ReorderFetches, Takes, Writes, ReorderDone DEF ReorderNext
<1>5. CASE UNCHANGED vars
  <2> USE <1>5 DEF vars
  <2>1. Typed'
    BY Same DEF Steady, Typed, anchors
  <2> QED
    BY <2>1, Keeps, Local DEF Steady, Bounded, Ending
<1> QED
  BY <1>1, <1>2, <1>3, <1>4, <1>5 DEF Next
-----------------------------------------------------------------------------
(* What moving chunks from place to place does to what is held. *)
LEMMA HeldIn ==
  ASSUME NEW H, NEW S, NEW c
  PROVE  c \in HeldAt(H, S) <=> \E h \in S : \E i \in DOMAIN H[h] : c = H[h][i]
BY DEF HeldAt, Range

LEMMA SameNumber ==
  ASSUME NEW c, NEW d
  PROVE  Number(c) = Number(d) <=> c.l1 = d.l1 /\ c.l2 = d.l2
BY DEF Number

\* the first n chunks of a go to the end of b
Moved(H, G, a, b) ==
  /\ Apart(H) => Apart(G)
  /\ \A S \in SUBSET DOMAIN H : (a \in S <=> b \in S) => HeldAt(G, S) = HeldAt(H, S)

LEMMA MoveApart ==
  ASSUME NEW H, NEW G, DOMAIN G = DOMAIN H, NEW a \in DOMAIN H, NEW b \in DOMAIN H, a # b,
         H[a] \in Seq(Chunks), H[b] \in Seq(Chunks), NEW n \in 0..Len(H[a]),
         \A h \in DOMAIN H : h # a /\ h # b => G[h] = H[h],
         G[a] = Rest(H[a], n), G[b] = H[b] \o First(H[a], n)
  PROVE  Moved(H, G, a, b)
<1> DEFINE D == DOMAIN H
<1>0. DOMAIN G = D /\ a \in D /\ b \in D /\ \A h \in D : h # a /\ h # b => G[h] = H[h]
  OBVIOUS
<1> HIDE DEF D
<1> DEFINE k == Len(H[b])
           m == Len(H[a])
           Pl(g, j) == IF g = b /\ j > k THEN a ELSE g
           Ix(g, j) == IF g = b THEN IF j > k THEN j - k ELSE j
                       ELSE IF g = a THEN n + j ELSE j
<1>1. /\ Rest(H[a], n) \in Seq(Chunks) /\ Len(Rest(H[a], n)) = m - n
      /\ \A i \in 1..(m - n) : Rest(H[a], n)[i] = H[a][n + i]
      /\ First(H[a], n) \in Seq(Chunks) /\ Len(First(H[a], n)) = n
      /\ \A i \in 1..n : First(H[a], n)[i] = H[a][i]
  BY ChunkPieces
<1>2. k \in Nat /\ m \in Nat /\ n \in Nat /\ n <= m /\ DOMAIN H[a] = 1..m /\ DOMAIN H[b] = 1..k
  OBVIOUS
<1>3. /\ DOMAIN G[a] = 1..(m - n) /\ \A j \in 1..(m - n) : G[a][j] = H[a][n + j]
  BY <1>1
<1>4. /\ G[b] \in Seq(Chunks) /\ Len(G[b]) = k + n
      /\ \A j \in 1..k : G[b][j] = H[b][j]
      /\ \A j \in 1..n : G[b][k + j] = H[a][j]
  <2>1. /\ H[b] \o First(H[a], n) \in Seq(Chunks)
        /\ Len(H[b] \o First(H[a], n)) = Len(H[b]) + Len(First(H[a], n))
        /\ \A i \in 1..Len(H[b]) : (H[b] \o First(H[a], n))[i] = H[b][i]
        /\ \A i \in 1..Len(First(H[a], n)) :
             (H[b] \o First(H[a], n))[Len(H[b]) + i] = First(H[a], n)[i]
    BY <1>1, Joins
  <2> QED
    BY <1>1, <2>1
<1>5. DOMAIN G[b] = 1..(k + n)
  BY <1>4
<1> HIDE DEF k, m
<1>6. ASSUME NEW g \in D, NEW j \in DOMAIN G[g]
      PROVE  /\ Pl(g, j) \in D /\ Ix(g, j) \in DOMAIN H[Pl(g, j)]
             /\ G[g][j] = H[Pl(g, j)][Ix(g, j)]
  <2>1. CASE g = a
    <3>1. j \in 1..(m - n) /\ n + j \in 1..m
      BY <1>2, <1>3, <1>6, <2>1
    <3> QED
      BY <1>2, <1>3, <2>1, <3>1
  <2>2. CASE g = b /\ j > k
    <3>1. j - k \in 1..n /\ j = k + (j - k)
      <4>1. j \in 1..(k + n)
        BY <1>5, <1>6, <2>2
      <4> QED
        BY <1>2, <2>2, <4>1
    <3>2. G[b][k + (j - k)] = H[a][j - k]
      BY <1>4, <3>1
    <3>3. j - k \in 1..m
      BY <1>2, <3>1
    <3> QED
      BY <1>0, <1>2, <2>2, <3>1, <3>2, <3>3
  <2>3. CASE g = b /\ ~(j > k)
    <3>1. j \in 1..k
      BY <1>2, <1>5, <1>6, <2>3
    <3> QED
      BY <1>2, <1>4, <2>3, <3>1
  <2>4. CASE g # a /\ g # b
    BY <1>0, <1>6, <2>4
  <2> QED
    BY <2>1, <2>2, <2>3, <2>4
<1>7. ASSUME NEW g \in D, NEW h \in D, NEW i \in DOMAIN G[g], NEW j \in DOMAIN G[h],
             Pl(g, i) = Pl(h, j), Ix(g, i) = Ix(h, j)
      PROVE  g = h /\ i = j
  <2>1. g = a => i \in 1..(m - n)
    BY <1>3
  <2>2. h = a => j \in 1..(m - n)
    BY <1>3
  <2>3. g = b => i \in 1..(k + n)
    BY <1>5
  <2>4. h = b => j \in 1..(k + n)
    BY <1>5
  <2>5. CASE g = a
    <3>1. h = a \/ (h = b /\ j > k)
      BY <1>7, <2>5
    <3>2. ~(h = b /\ j > k)
      BY <1>2, <1>7, <2>1, <2>4, <2>5
    <3> QED
      BY <1>2, <1>7, <2>1, <2>2, <2>5, <3>1, <3>2
  <2>6. CASE g = b /\ i > k
    <3>1. h = a \/ (h = b /\ j > k)
      BY <1>7, <2>6
    <3>2. h # a
      BY <1>2, <1>7, <2>2, <2>3, <2>6
    <3> QED
      BY <1>2, <1>7, <2>3, <2>4, <2>6, <3>1, <3>2
  <2>7. CASE g = b /\ ~(i > k)
    BY <1>2, <1>7, <2>3, <2>4, <2>7
  <2>8. CASE g # a /\ g # b
    BY <1>7, <2>8
  <2> QED
    BY <2>5, <2>6, <2>7, <2>8
<1>8. ASSUME Apart(H) PROVE Apart(G)
  <2> SUFFICES ASSUME NEW g \in D, NEW h \in D, NEW i \in DOMAIN G[g], NEW j \in DOMAIN G[h],
                      Number(G[g][i]) = Number(G[h][j])
               PROVE  g = h /\ i = j
    BY <1>0 DEF Apart
  <2> HIDE DEF Pl, Ix
  <2>1. Pl(g, i) \in D /\ Ix(g, i) \in DOMAIN H[Pl(g, i)] /\ G[g][i] = H[Pl(g, i)][Ix(g, i)]
    BY <1>6
  <2>2. Pl(h, j) \in D /\ Ix(h, j) \in DOMAIN H[Pl(h, j)] /\ G[h][j] = H[Pl(h, j)][Ix(h, j)]
    BY <1>6
  <2>3. Pl(g, i) = Pl(h, j) /\ Ix(g, i) = Ix(h, j)
    BY <1>8, <2>1, <2>2 DEF Apart, D
  <2> QED
    BY <1>7, <2>3
<1>9. ASSUME NEW S \in SUBSET D, a \in S <=> b \in S
      PROVE  HeldAt(G, S) = HeldAt(H, S)
  <2>1. ASSUME NEW c \in HeldAt(G, S) PROVE c \in HeldAt(H, S)
    <3>1. PICK g \in S : \E j \in DOMAIN G[g] : c = G[g][j]
      BY <2>1, HeldIn
    <3>2. PICK j \in DOMAIN G[g] : c = G[g][j]
      BY <3>1
    <3>3. Pl(g, j) \in S
      BY <1>9
    <3>4. \E h \in S : \E i \in DOMAIN H[h] : c = H[h][i]
      BY <1>6, <3>2, <3>3
    <3> QED
      BY <3>4, HeldIn
  <2>2. ASSUME NEW c \in HeldAt(H, S) PROVE c \in HeldAt(G, S)
    <3>0. PICK h \in S : \E i \in DOMAIN H[h] : c = H[h][i]
      BY <2>2, HeldIn
    <3>1. PICK i \in DOMAIN H[h] : c = H[h][i]
      BY <3>0
    <3>2. CASE h = a /\ i > n
      <4>1. i - n \in 1..(m - n) /\ n + (i - n) = i
        BY <1>2, <3>1, <3>2
      <4>2. G[a][i - n] = H[a][i] /\ i - n \in DOMAIN G[a]
        BY <1>3, <4>1
      <4> QED
        BY <3>1, <3>2, <4>2, HeldIn
    <3>3. CASE h = a /\ ~(i > n)
      <4>1. i \in 1..n /\ k + i \in 1..(k + n)
        BY <1>2, <3>1, <3>3
      <4>2. G[b][k + i] = H[a][i] /\ k + i \in DOMAIN G[b] /\ b \in S
        BY <1>4, <1>5, <1>9, <3>3, <4>1
      <4> QED
        BY <3>1, <3>3, <4>2, HeldIn
    <3>4. CASE h = b
      <4>1. i \in 1..k /\ i \in 1..(k + n)
        BY <1>2, <3>1, <3>4
      <4>2. G[b][i] = H[b][i] /\ i \in DOMAIN G[b]
        BY <1>4, <1>5, <4>1
      <4> QED
        BY <3>1, <3>4, <4>2, HeldIn
    <3>5. CASE h # a /\ h # b
      BY <1>0, <3>1, <3>5, HeldIn
    <3> QED
      BY <3>2, <3>3, <3>4, <3>5
  <2> QED
    BY <2>1, <2>2
<1> QED
  BY <1>8, <1>9 DEF Moved, D
-----------------------------------------------------------------------------
(* The chunks as two sets: what a step does to their numbers. *)
Unlike(R, F) ==
  /\ R \intersect F = {}
  /\ \A c, d \in R \union F : Number(c) = Number(d) => c = d

\* Fragment makes the next coarse chunk c, and goes on reading or not
LEMMA CreateKeeps ==
  ASSUME NEW R \in SUBSET Chunks, NEW F \in SUBSET Chunks, NEW T \in SUBSET F,
         NEW n \in [l1 : Nat, l2 : Nat], NEW cpa, NEW l1 \in Nat,
         NEW c \in Chunks, c.l1 = l1, c.l2 = 0, c.last, NEW more \in SUBSET {l1 + 1},
         DOMAIN cpa \subseteq Nat,
         Ordered(R, F, n, cpa, T, {l1})
  PROVE  /\ Ordered(R \union {c}, F, n, cpa, T, more)
         /\ Unbroken(R, F, n, {l1}) => Unbroken(R \union {c}, F, n, more)
<1>0. \A d \in R \union F : d.l1 \in Nat /\ d.l2 \in Nat
  BY DEF Chunks
<1>1. /\ \A d \in R \union F : Due1(n, d) /\ d.l1 < l1
      /\ Due1(n, [l1 |-> l1, l2 |-> 0])
      /\ Cut(R, F) /\ Noted(R, F, cpa, T, {l1})
  BY DEF Ordered
<1>2. Due1(n, c)
  BY <1>1 DEF Due1
<1>3. Due1(n, [l1 |-> l1 + 1, l2 |-> 0])
  BY <1>1 DEF Due1
<1>4. Cut(R \union {c}, F)
  <2>1. \A d \in R \union F : d.l1 # c.l1
    BY <1>0, <1>1
  <2> QED
    BY <1>1, <2>1 DEF Cut
<1>5. Noted(R \union {c}, F, cpa, T, more)
  <2>1. \A i \in DOMAIN cpa : cpa[i] # 0 => i # c.l1 /\ i < l1 + 1
    BY <1>1 DEF Noted
  <2> QED
    BY <1>1, <2>1 DEF Noted
<1>6. \A k \in more : /\ \A d \in (R \union {c}) \union F : d.l1 < k
                     /\ Due1(n, [l1 |-> k, l2 |-> 0])
  BY <1>0, <1>1, <1>3
<1>7. Ordered(R \union {c}, F, n, cpa, T, more)
  BY <1>1, <1>2, <1>4, <1>5, <1>6 DEF Ordered
<1>8. ASSUME Unbroken(R, F, n, {l1})
      PROVE  Unbroken(R \union {c}, F, n, more)
  <2>1. Follows(R, F, {l1}) /\ NextIsThere(R \union F, n, {l1})
    BY <1>8 DEF Unbroken
  <2>2. Follows(R \union {c}, F, more)
    <3>1. \A d \in (R \union {c}) \union F : d.l1 <= l1
      BY <1>0, <1>1
    <3>2. ASSUME NEW d \in (R \union {c}) \union F, d.last
          PROVE  \/ \E e \in (R \union {c}) \union F : e.l1 = d.l1 + 1 /\ e.l2 = 0
                 \/ /\ \A e \in (R \union {c}) \union F : e.l1 <= d.l1
                    /\ \A k \in more : k = d.l1 + 1
      <4>1. CASE d = c
        BY <3>1, <4>1
      <4>2. CASE d \in R \union F
        <5>1. \/ \E e \in R \union F : e.l1 = d.l1 + 1 /\ e.l2 = 0
              \/ l1 = d.l1 + 1
          BY <2>1, <3>2, <4>2 DEF Follows
        <5> QED
          BY <5>1
      <4> QED
        BY <4>1, <4>2
    <3>3. ASSUME NEW d \in F, ~d.last
          PROVE  \E e \in (R \union {c}) \union F : e.l1 = d.l1 /\ e.l2 = d.l2 + 1
      BY <2>1, <3>3 DEF Follows
    <3> QED
      BY <3>2, <3>3 DEF Follows
  <2>3. \E e \in (R \union {c}) \union F : Number(e) = n
    <3>1. CASE R \union F = {}
      BY <2>1, <3>1 DEF NextIsThere, Number
    <3>2. CASE R \union F # {}
      BY <2>1, <3>2 DEF NextIsThere
    <3> QED
      BY <3>1, <3>2
  <2> QED
    BY <2>2, <2>3 DEF Unbroken, NextIsThere
<1> QED
  BY <1>7, <1>8

\* Fragment stops reading, or chunks are gone
LEMMA FewerKeep ==
  ASSUME NEW R, NEW F, NEW T, NEW n, NEW cpa, NEW more,
         NEW R2 \in SUBSET R, NEW F2 \in SUBSET F, NEW rest \in SUBSET more,
         Ordered(R, F, n, cpa, T, more)
  PROVE  /\ Ordered(R2, F2, n, cpa, T, rest)
         /\ R2 = R /\ F2 = F /\ Unbroken(R, F, n, more) => Unbroken(R2, F2, n, rest)
<1>1. Cut(R2, F2)
  BY DEF Ordered, Cut
<1>2. Noted(R2, F2, cpa, T, rest)
  BY DEF Ordered, Noted
<1>3. Ordered(R2, F2, n, cpa, T, rest)
  BY <1>1, <1>2 DEF Ordered
<1>4. ASSUME R2 = R, F2 = F, Unbroken(R, F, n, more)
      PROVE  Unbroken(R2, F2, n, rest)
  BY <1>4 DEF Unbroken, Follows, NextIsThere
<1> QED
  BY <1>3, <1>4

\* FragmentRefine passes the rest of the coarse chunk c on as p
LEMMA RefineLastKeeps ==
  ASSUME NEW R \in SUBSET Chunks, NEW F \in SUBSET Chunks, NEW T \in SUBSET F,
         NEW n, NEW cpa, NEW more \in SUBSET Nat,
         NEW c \in R, NEW p \in Chunks, p.l1 = c.l1, p.l2 = c.l2, p.last,
         Ordered(R, F, n, cpa, T, more)
  PROVE  /\ Ordered(R \ {c}, F \union {p}, n, cpa, T, more)
         /\ Unbroken(R, F, n, more) => Unbroken(R \ {c}, F \union {p}, n, more)
<1>0. \A d \in R \union F : d.l1 \in Nat /\ d.l2 \in Nat
  BY DEF Chunks
<1>1. /\ \A d \in R \union F : Due1(n, d) /\ (\A k \in more : d.l1 < k)
      /\ \A k \in more : Due1(n, [l1 |-> k, l2 |-> 0])
      /\ Cut(R, F) /\ Noted(R, F, cpa, T, more)
  BY DEF Ordered
<1>2. Due1(n, p) /\ (\A k \in more : p.l1 < k)
  BY <1>1 DEF Due1
<1>3. Cut(R \ {c}, F \union {p})
  <2>1. \A d \in R \ {c} : d.last /\ d.l1 # c.l1
    BY <1>1 DEF Cut
  <2>2. \A d \in F : d.l1 = c.l1 => d.l2 <= c.l2 /\ (d.last => d.l2 = c.l2)
    BY <1>0, <1>1 DEF Cut
  <2> QED
    BY <1>0, <1>1, <2>1, <2>2 DEF Cut
<1>4. Noted(R \ {c}, F \union {p}, cpa, T, more)
  BY <1>1 DEF Noted
<1>5. Ordered(R \ {c}, F \union {p}, n, cpa, T, more)
  BY <1>1, <1>2, <1>3, <1>4 DEF Ordered
<1>6. ASSUME Unbroken(R, F, n, more)
      PROVE  Unbroken(R \ {c}, F \union {p}, n, more)
  <2> DEFINE S == R \union F
             U == (R \ {c}) \union (F \union {p})
  <2>1. Follows(R, F, more) /\ NextIsThere(S, n, more)
    BY <1>6 DEF Unbroken
  <2>2. ASSUME NEW i, NEW j, \E d \in S : d.l1 = i /\ d.l2 = j
        PROVE  \E d \in U : d.l1 = i /\ d.l2 = j
    BY <2>2
  <2>3. \A d \in U : \E e \in S : e.l1 = d.l1 /\ e.l2 = d.l2
    OBVIOUS
  <2>4. c.last
    BY <1>1 DEF Cut
  <2>5. Follows(R \ {c}, F \union {p}, more)
    <3>1. ASSUME NEW d \in F \union {p}, ~d.last
          PROVE  \E e \in U : e.l1 = d.l1 /\ e.l2 = d.l2 + 1
      <4>1. \E e \in S : e.l1 = d.l1 /\ e.l2 = d.l2 + 1
        BY <2>1, <3>1 DEF Follows
      <4> QED
        BY <2>2, <4>1
    <3>2. ASSUME NEW d \in U, d.last
          PROVE  \/ \E e \in U : e.l1 = d.l1 + 1 /\ e.l2 = 0
                 \/ /\ \A e \in U : e.l1 <= d.l1
                    /\ \A k \in more : k = d.l1 + 1
      <4>1. PICK e \in S : e.l1 = d.l1 /\ e.last
        BY <2>4, <3>2
      <4>2. \/ \E f \in S : f.l1 = e.l1 + 1 /\ f.l2 = 0
            \/ /\ \A f \in S : f.l1 <= e.l1
               /\ \A k \in more : k = e.l1 + 1
        BY <2>1, <4>1 DEF Follows
      <4>3. CASE \E f \in S : f.l1 = e.l1 + 1 /\ f.l2 = 0
        <5>1. \E f \in U : f.l1 = e.l1 + 1 /\ f.l2 = 0
          BY <2>2, <4>3
        <5> QED
          BY <4>1, <5>1
      <4>4. CASE (\A f \in S : f.l1 <= e.l1) /\ (\A k \in more : k = e.l1 + 1)
        BY <2>3, <4>1, <4>4
      <4> QED
        BY <4>2, <4>3, <4>4
    <3> QED
      BY <3>1, <3>2 DEF Follows
  <2>6. \E d \in U : Number(d) = n
    <3>1. PICK d \in S : Number(d) = n
      BY <2>1 DEF NextIsThere
    <3>2. \E e \in U : Number(e) = Number(d)
      BY SameNumber
    <3> QED
      BY <3>1, <3>2
  <2> HIDE DEF U, S
  <2>7. NextIsThere(U, n, more)
    BY <2>6 DEF NextIsThere
  <2> QED
    BY <2>5, <2>7 DEF Unbroken, U
<1> QED
  BY <1>5, <1>6

\* FragmentRefine cuts p off the coarse chunk c, and u is left of it
LEMMA RefinePartKeeps ==
  ASSUME NEW R \in SUBSET Chunks, NEW F \in SUBSET Chunks, NEW T \in SUBSET F,
         NEW n \in [l1 : Nat, l2 : Nat], NEW cpa, NEW more \in SUBSET Nat,
         NEW c \in R, NEW p \in Chunks, p.l1 = c.l1, p.l2 = c.l2, ~p.last,
         NEW u \in Chunks, u.l1 = c.l1, u.l2 = c.l2 + 1, u.last, c \notin F,
         Ordered(R, F, n, cpa, T, more)
  PROVE  /\ Ordered((R \ {c}) \union {u}, F \union {p}, n, cpa, T, more)
         /\ Unbroken(R, F, n, more) =>
              Unbroken((R \ {c}) \union {u}, F \union {p}, n, more)
<1> DEFINE R2 == (R \ {c}) \union {u}
           F2 == F \union {p}
<1>0. \A d \in R \union F : d.l1 \in Nat /\ d.l2 \in Nat
  BY DEF Chunks
<1>1. /\ \A d \in R \union F : Due1(n, d) /\ (\A k \in more : d.l1 < k)
      /\ \A k \in more : Due1(n, [l1 |-> k, l2 |-> 0])
      /\ Cut(R, F) /\ Noted(R, F, cpa, T, more)
  BY DEF Ordered
<1>2. Due1(n, p) /\ Due1(n, u) /\ (\A k \in more : p.l1 < k /\ u.l1 < k)
  <2>1. Due1(n, c) /\ c.l1 \in Nat /\ c.l2 \in Nat /\ n.l1 \in Nat /\ n.l2 \in Nat
    BY <1>0, <1>1
  <2> QED
    BY <1>1, <2>1 DEF Due1
<1>3. Cut(R2, F2)
  <2>1. \A d \in R \ {c} : d.last /\ d.l1 # c.l1
    BY <1>1 DEF Cut
  <2>2. \A d \in F : d.l1 = c.l1 => d.l2 < c.l2 /\ ~d.last
    BY <1>1 DEF Cut
  <2>3. \A d \in F : d.l1 = c.l1 => d.l2 < u.l2
    BY <1>0, <2>2
  <2>4. \A d \in R2 : d.last
    BY <2>1
  <2>5. ASSUME NEW d \in R2, NEW e \in R2 \union F2, d.l1 = e.l1
        PROVE  e = d \/ (e.l2 < d.l2 /\ ~e.last)
    <3>1. CASE d = u
      <4>1. e = u \/ e = p \/ e \in F
        BY <2>1, <2>5, <3>1
      <4>2. p.l2 < u.l2
        BY <1>0
      <4> QED
        BY <2>2, <2>3, <2>5, <3>1, <4>1, <4>2
    <3>2. CASE d \in R \ {c}
      <4>1. e # u /\ e # p
        BY <2>1, <2>5, <3>2
      <4>2. e \in R \union F
        BY <4>1
      <4> QED
        BY <1>1, <2>5, <3>2, <4>2 DEF Cut
    <3> QED
      BY <3>1, <3>2
  <2>6. ASSUME NEW d \in F2, NEW e \in F2, d.last, d.l1 = e.l1
        PROVE  e.l2 <= d.l2
    <3>1. d # p /\ d.l1 # c.l1
      BY <2>2, <2>6
    <3>2. d \in F /\ e \in F
      BY <2>6, <3>1
    <3> QED
      BY <1>1, <2>6, <3>2 DEF Cut
  <2> HIDE DEF R2, F2
  <2> QED
    BY <2>4, <2>5, <2>6 DEF Cut
<1>4. Noted(R2, F2, cpa, T, more)
  BY <1>1 DEF Noted
<1>5. Ordered(R2, F2, n, cpa, T, more)
  BY <1>1, <1>2, <1>3, <1>4 DEF Ordered
<1>6. ASSUME Unbroken(R, F, n, more)
      PROVE  Unbroken(R2, F2, n, more)
  <2> DEFINE S == R \union F
             U == R2 \union F2
  <2>1. Follows(R, F, more) /\ NextIsThere(S, n, more)
    BY <1>6 DEF Unbroken
  <2>2. ASSUME NEW i, NEW j, \E d \in S : d.l1 = i /\ d.l2 = j
        PROVE  \E d \in U : d.l1 = i /\ d.l2 = j
    BY <2>2
  <2>3. \A d \in U : \E e \in S : e.l1 = d.l1 /\ (d.last => e.last)
    <3>1. c.last
      BY <1>1 DEF Cut
    <3> QED
      BY <3>1
  <2>5. Follows(R2, F2, more)
    <3>1. ASSUME NEW d \in F2, ~d.last
          PROVE  \E e \in U : e.l1 = d.l1 /\ e.l2 = d.l2 + 1
      <4>1. CASE d = p
        BY <4>1
      <4>2. CASE d \in F
        <5>1. \E e \in S : e.l1 = d.l1 /\ e.l2 = d.l2 + 1
          BY <2>1, <3>1, <4>2 DEF Follows
        <5> QED
          BY <2>2, <5>1
      <4> QED
        BY <4>1, <4>2
    <3>2. ASSUME NEW d \in U, d.last
          PROVE  \/ \E e \in U : e.l1 = d.l1 + 1 /\ e.l2 = 0
                 \/ /\ \A e \in U : e.l1 <= d.l1
                    /\ \A k \in more : k = d.l1 + 1
      <4>1. PICK e \in S : e.l1 = d.l1 /\ e.last
        BY <2>3, <3>2
      <4>2. \/ \E f \in S : f.l1 = e.l1 + 1 /\ f.l2 = 0
            \/ /\ \A f \in S : f.l1 <= e.l1
               /\ \A k \in more : k = e.l1 + 1
        BY <2>1, <4>1 DEF Follows
      <4>3. CASE \E f \in S : f.l1 = e.l1 + 1 /\ f.l2 = 0
        <5>1. \E f \in U : f.l1 = e.l1 + 1 /\ f.l2 = 0
          BY <2>2, <4>3
        <5> QED
          BY <4>1, <5>1
      <4>4. CASE (\A f \in S : f.l1 <= e.l1) /\ (\A k \in more : k = e.l1 + 1)
        BY <2>3, <4>1, <4>4
      <4> QED
        BY <4>2, <4>3, <4>4
    <3> HIDE DEF R2, F2
    <3> QED
      BY <3>1, <3>2 DEF Follows
  <2>6. \E d \in U : Number(d) = n
    <3>1. PICK d \in S : Number(d) = n
      BY <2>1 DEF NextIsThere
    <3>2. \E e \in U : Number(e) = Number(d)
      BY SameNumber
    <3> QED
      BY <3>1, <3>2
  <2>7. U # {}
    OBVIOUS
  <2> HIDE DEF U, S
  <2>8. NextIsThere(U, n, more)
    BY <2>6, <2>7 DEF NextIsThere
  <2> QED
    BY <2>5, <2>8 DEF Unbroken, U
<1> QED
  BY <1>5, <1>6

\* Reorder takes c: d is its array after the doubling, if there was one
LEMMA TakeKeeps ==
  ASSUME NEW R \in SUBSET Chunks, NEW F \in SUBSET Chunks, NEW T \in SUBSET F,
         NEW n, NEW top, NEW cpa \in [0..(top - 1) -> Nat], NEW m,
         NEW d \in [0..(m - 1) -> Nat], DOMAIN cpa \subseteq DOMAIN d,
         \A i \in DOMAIN d : d[i] = IF i \in DOMAIN cpa THEN cpa[i] ELSE 0,
         NEW more,
         NEW c \in F, c \notin R, c.l1 \in DOMAIN d,
         Ordered(R, F, n, cpa, T, more)
  PROVE  Ordered(R, F, n, IF c.last THEN [d EXCEPT ![c.l1] = c.l2 + 1] ELSE d,
                 T \union {c}, more)
<1> DEFINE new == IF c.last THEN [d EXCEPT ![c.l1] = c.l2 + 1] ELSE d
<1>0. \A e \in R \union F : e.l1 \in Nat /\ e.l2 \in Nat
  BY DEF Chunks
<1>1. Cut(R, F) /\ Noted(R, F, cpa, T, more) /\ (\A k \in more : c.l1 < k)
  BY DEF Ordered
<1>2. DOMAIN new = DOMAIN d
      /\ \A i \in DOMAIN d : new[i] = IF c.last /\ i = c.l1 THEN c.l2 + 1 ELSE d[i]
  OBVIOUS
<1> HIDE DEF new
<1>3. ASSUME NEW i \in DOMAIN new, new[i] # 0
      PROVE  /\ \A e \in R : e.l1 # i
             /\ \A e \in F : e.l1 = i => e.l2 < new[i]
             /\ \A k \in more : i < k
  <2>1. CASE c.last /\ i = c.l1
    <3>1. \A e \in R : e.l1 # i
      BY <1>1, <2>1 DEF Cut
    <3>2. \A e \in F : e.l1 = i => e.l2 <= c.l2
      BY <1>1, <2>1 DEF Cut
    <3>3. \A e \in F : e.l1 = i => e.l2 < c.l2 + 1
      BY <1>0, <3>2
    <3> QED
      BY <1>1, <1>2, <1>3, <2>1, <3>1, <3>3
  <2>2. CASE ~(c.last /\ i = c.l1)
    <3>1. i \in DOMAIN cpa /\ new[i] = cpa[i]
      BY <1>2, <1>3, <2>2
    <3> QED
      BY <1>1, <1>3, <3>1 DEF Noted
  <2> QED
    BY <2>1, <2>2
<1>4. ASSUME NEW e \in T \union {c}
      PROVE  e.l1 \in DOMAIN new /\ (e.last => new[e.l1] = e.l2 + 1)
  <2>1. CASE e = c
    BY <1>2, <2>1
  <2>2. CASE e \in T
    <3>1. e.l1 \in DOMAIN cpa /\ (e.last => cpa[e.l1] = e.l2 + 1)
      BY <1>1, <2>2 DEF Noted
    <3>2. c.last /\ e.last /\ e.l1 = c.l1 => e.l2 = c.l2
      <4>1. ASSUME c.last, e.last, e.l1 = c.l1 PROVE e.l2 <= c.l2 /\ c.l2 <= e.l2
        BY <1>1, <2>2, <4>1 DEF Cut
      <4> QED
        BY <1>0, <2>2, <4>1
    <3> QED
      BY <1>2, <3>1, <3>2
  <2> QED
    BY <1>4, <2>1, <2>2
<1>5. Noted(R, F, new, T \union {c}, more)
  BY <1>3, <1>4 DEF Noted
<1> QED
  BY <1>5 DEF Ordered, new

\* Reorder writes w, the next chunk, and the number after it is due
LEMMA WriteKeeps ==
  ASSUME NEW R \in SUBSET Chunks, NEW F \in SUBSET Chunks, NEW T \in SUBSET F,
         NEW n \in [l1 : Nat, l2 : Nat], NEW top, NEW cpa \in [0..(top - 1) -> Nat],
         NEW more \in SUBSET Nat, NEW w \in T, Number(w) = n, Unlike(R, F),
         NEW x \in [l1 : Nat, l2 : Nat],
         x.l1 = (IF cpa[n.l1] = n.l2 + 1 THEN n.l1 + 1 ELSE n.l1),
         x.l2 = (IF cpa[n.l1] = n.l2 + 1 THEN 0 ELSE n.l2 + 1),
         Ordered(R, F, n, cpa, T, more)
  PROVE  /\ Ordered(R, F \ {w}, x, cpa, T \ {w}, more)
         /\ Unbroken(R, F, n, more) => Unbroken(R, F \ {w}, x, more)
<1>0. /\ \A d \in R \union F : d.l1 \in Nat /\ d.l2 \in Nat
      /\ n.l1 \in Nat /\ n.l2 \in Nat /\ x.l1 \in Nat /\ x.l2 \in Nat
      /\ w.l1 = n.l1 /\ w.l2 = n.l2 /\ w \in F /\ w \notin R
  BY DEF Chunks, Number, Unlike
<1>1. /\ \A d \in R \union F : Due1(n, d) /\ (\A k \in more : d.l1 < k)
      /\ Cut(R, F) /\ Noted(R, F, cpa, T, more)
  BY DEF Ordered
<1> DEFINE S == R \union (F \ {w})
<1>2. \A d \in S : d.l1 > n.l1 \/ (d.l1 = n.l1 /\ d.l2 >= n.l2 + 1)
  <2> TAKE d \in S
  <2>1. Number(d) # Number(w)
    BY <1>0 DEF Unlike
  <2>2. ~(d.l1 = n.l1 /\ d.l2 = n.l2)
    BY <1>0, <2>1, SameNumber
  <2>3. Due1(n, d)
    BY <1>1
  <2> QED
    BY <1>0, <2>2, <2>3 DEF Due1
<1>3. n.l1 \in DOMAIN cpa
  BY <1>0, <1>1 DEF Noted
<1>4. cpa[n.l1] = n.l2 + 1 => \A d \in S : d.l1 > n.l1
  <2> SUFFICES ASSUME cpa[n.l1] = n.l2 + 1, NEW d \in S, d.l1 = n.l1 PROVE FALSE
    BY <1>0, <1>2
  <2>1. cpa[n.l1] # 0
    BY <1>0
  <2>2. d \notin R
    BY <1>1, <1>3, <2>1 DEF Noted
  <2>3. d.l2 < n.l2 + 1
    BY <1>1, <1>3, <2>1, <2>2 DEF Noted
  <2> QED
    BY <1>0, <1>2, <2>3
<1>5. \A d \in S : Due1(x, d)
  <2> TAKE d \in S
  <2>1. CASE cpa[n.l1] = n.l2 + 1
    BY <1>0, <1>4, <2>1 DEF Due1
  <2>2. CASE cpa[n.l1] # n.l2 + 1
    BY <1>0, <1>2, <2>2 DEF Due1
  <2> QED
    BY <2>1, <2>2
<1>6. \A k \in more : Due1(x, [l1 |-> k, l2 |-> 0])
  <2>1. \A k \in more : k \in Nat /\ n.l1 < k
    BY <1>0, <1>1
  <2> QED
    BY <1>0, <2>1 DEF Due1
<1>7. Cut(R, F \ {w}) /\ Noted(R, F \ {w}, cpa, T \ {w}, more)
  BY <1>1 DEF Cut, Noted
<1>8. Ordered(R, F \ {w}, x, cpa, T \ {w}, more)
  BY <1>1, <1>5, <1>6, <1>7 DEF Ordered
<1>9. ASSUME Unbroken(R, F, n, more)
      PROVE  Unbroken(R, F \ {w}, x, more)
  <2>1. Follows(R, F, more)
    BY <1>9 DEF Unbroken
  <2>2. Follows(R, F \ {w}, more)
    <3>1. ASSUME NEW d \in F \ {w}, ~d.last
          PROVE  \E e \in S : e.l1 = d.l1 /\ e.l2 = d.l2 + 1
      <4>1. PICK e \in R \union F : e.l1 = d.l1 /\ e.l2 = d.l2 + 1
        BY <2>1, <3>1 DEF Follows
      <4>2. e # w
        BY <1>0, <1>2, <4>1
      <4> QED
        BY <4>1, <4>2
    <3>2. ASSUME NEW d \in S, d.last
          PROVE  \/ \E e \in S : e.l1 = d.l1 + 1 /\ e.l2 = 0
                 \/ /\ \A e \in S : e.l1 <= d.l1
                    /\ \A k \in more : k = d.l1 + 1
      <4>1. \/ \E e \in R \union F : e.l1 = d.l1 + 1 /\ e.l2 = 0
            \/ /\ \A e \in R \union F : e.l1 <= d.l1
               /\ \A k \in more : k = d.l1 + 1
        BY <2>1, <3>2 DEF Follows
      <4>2. ASSUME NEW e \in R \union F, e.l1 = d.l1 + 1
            PROVE  e # w
        BY <1>0, <1>2, <4>2
      <4> QED
        BY <4>1, <4>2
    <3> QED
      BY <3>1, <3>2 DEF Follows
  <2>3. CASE w.last
    <3>1. cpa[n.l1] = n.l2 + 1
      BY <1>0, <1>1, <2>3 DEF Noted
    <3>2. x.l1 = n.l1 + 1 /\ x.l2 = 0
      BY <3>1
    <3>3. \/ \E d \in R \union F : d.l1 = w.l1 + 1 /\ d.l2 = 0
          \/ /\ \A d \in R \union F : d.l1 <= w.l1
             /\ \A k \in more : k = w.l1 + 1
      BY <1>0, <2>1, <2>3 DEF Follows
    <3>4. CASE \E d \in R \union F : d.l1 = w.l1 + 1 /\ d.l2 = 0
      <4>1. PICK d \in R \union F : d.l1 = w.l1 + 1 /\ d.l2 = 0
        BY <3>4
      <4>2. d \in S
        BY <1>0, <4>1
      <4>3. Number(d) = x
        BY <1>0, <3>2, <4>1 DEF Number
      <4>4. NextIsThere(S, x, more)
        BY <4>2, <4>3 DEF NextIsThere
      <4> QED
        BY <2>2, <4>4 DEF Unbroken
    <3>5. CASE (\A d \in R \union F : d.l1 <= w.l1) /\ (\A k \in more : k = w.l1 + 1)
      <4>1. S = {}
        BY <1>0, <1>4, <3>1, <3>5
      <4>2. \A k \in more : x = [l1 |-> k, l2 |-> 0]
        BY <1>0, <3>2, <3>5
      <4>3. NextIsThere(S, x, more)
        BY <4>1, <4>2 DEF NextIsThere
      <4> QED
        BY <2>2, <4>3 DEF Unbroken
    <3> QED
      BY <3>3, <3>4, <3>5
  <2>4. CASE ~w.last
    <3>1. PICK d \in R \union F : d.l1 = w.l1 /\ d.l2 = w.l2 + 1
      BY <1>0, <2>1, <2>4 DEF Follows
    <3>2. d \in S
      BY <1>0, <3>1
    <3>3. cpa[n.l1] # n.l2 + 1
      BY <1>0, <1>4, <3>1, <3>2
    <3>4. Number(d) = x
      BY <1>0, <3>1, <3>3 DEF Number
    <3>5. NextIsThere(S, x, more)
      BY <3>2, <3>4 DEF NextIsThere
    <3> QED
      BY <2>2, <3>5 DEF Unbroken
  <2> QED
    BY <2>3, <2>4
<1> QED
  BY <1>8, <1>9
-----------------------------------------------------------------------------
(* A chunk that comes to a place, and one that leaves. *)
Elsewhere(H, G, a) == DOMAIN G = DOMAIN H /\ \A h \in DOMAIN H : h # a => G[h] = H[h]

\* what is held after c has come to b, and after it has gone from a
Came(H, G, b, c) ==
  /\ Apart(H) /\ (\A d \in HeldAt(H, DOMAIN H) : Number(d) # Number(c)) => Apart(G)
  /\ \A S \in SUBSET DOMAIN H :
       HeldAt(G, S) = IF b \in S THEN HeldAt(H, S) \union {c} ELSE HeldAt(H, S)
Gone(H, G, a, c) ==
  /\ Apart(G)
  /\ \A d \in HeldAt(G, DOMAIN H) : Number(d) # Number(c)
  /\ \A S \in SUBSET DOMAIN H :
       HeldAt(G, S) = IF a \in S THEN HeldAt(H, S) \ {c} ELSE HeldAt(H, S)

LEMMA Added ==
  ASSUME NEW H, NEW G, NEW b \in DOMAIN H, NEW c, NEW x, Elsewhere(H, G, b),
         x \notin DOMAIN H[b], DOMAIN G[b] = DOMAIN H[b] \union {x},
         \A j \in DOMAIN H[b] : G[b][j] = H[b][j],
         G[b][x] = c
  PROVE  Came(H, G, b, c)
<1> DEFINE D == DOMAIN H
<1>0. DOMAIN G = D /\ b \in D /\ \A h \in D : h # b => G[h] = H[h]
  BY DEF Elsewhere
<1> HIDE DEF D
<1>1. ASSUME NEW g \in D, NEW j \in DOMAIN G[g]
      PROVE  \/ g = b /\ j = x /\ G[g][j] = c
             \/ ~(g = b /\ j = x) /\ j \in DOMAIN H[g] /\ G[g][j] = H[g][j]
  BY <1>0, <1>1
<1>2. ASSUME NEW g \in D, NEW j \in DOMAIN H[g]
      PROVE  j \in DOMAIN G[g] /\ G[g][j] = H[g][j]
  BY <1>0, <1>2
<1>3. ASSUME Apart(H), \A d \in HeldAt(H, D) : Number(d) # Number(c)
      PROVE  Apart(G)
  <2> SUFFICES ASSUME NEW g \in D, NEW h \in D, NEW i \in DOMAIN G[g], NEW j \in DOMAIN G[h],
                      Number(G[g][i]) = Number(G[h][j])
               PROVE  g = h /\ i = j
    BY <1>0 DEF Apart
  <2>1. \A f \in D : \A k \in DOMAIN H[f] : Number(H[f][k]) # Number(c)
    BY <1>3, HeldIn
  <2>2. CASE g = b /\ i = x
    BY <1>1, <2>1, <2>2
  <2>3. CASE h = b /\ j = x
    BY <1>1, <2>1, <2>3
  <2>4. CASE ~(g = b /\ i = x) /\ ~(h = b /\ j = x)
    <3>1. i \in DOMAIN H[g] /\ G[g][i] = H[g][i] /\ j \in DOMAIN H[h] /\ G[h][j] = H[h][j]
      BY <1>1, <2>4
    <3> QED
      BY <1>3, <3>1 DEF Apart, D
  <2> QED
    BY <2>2, <2>3, <2>4
<1>4. ASSUME NEW S \in SUBSET D, NEW d
      PROVE  d \in HeldAt(G, S) <=> (d \in HeldAt(H, S) \/ (b \in S /\ d = c))
  <2>1. ASSUME d \in HeldAt(G, S)
        PROVE  d \in HeldAt(H, S) \/ (b \in S /\ d = c)
    <3>1. PICK g \in S : \E j \in DOMAIN G[g] : d = G[g][j]
      BY <2>1, HeldIn
    <3>2. PICK j \in DOMAIN G[g] : d = G[g][j]
      BY <3>1
    <3>3. (g = b /\ d = c) \/ \E i \in DOMAIN H[g] : d = H[g][i]
      BY <1>1, <3>2
    <3> QED
      BY <3>3, HeldIn
  <2>2. ASSUME d \in HeldAt(H, S)
        PROVE  d \in HeldAt(G, S)
    <3>1. PICK g \in S : \E j \in DOMAIN H[g] : d = H[g][j]
      BY <2>2, HeldIn
    <3>2. \E j \in DOMAIN G[g] : d = G[g][j]
      BY <1>2, <3>1
    <3> QED
      BY <3>2, HeldIn
  <2>3. b \in S => c \in HeldAt(G, S)
    <3>1. x \in DOMAIN G[b]
      OBVIOUS
    <3> QED
      BY <3>1, HeldIn
  <2> QED
    BY <2>1, <2>2, <2>3
<1>5. ASSUME NEW S \in SUBSET D
      PROVE  HeldAt(G, S) = IF b \in S THEN HeldAt(H, S) \union {c} ELSE HeldAt(H, S)
  <2>1. \A d : d \in HeldAt(G, S) <=> (d \in HeldAt(H, S) \/ (b \in S /\ d = c))
    BY <1>4
  <2>2. CASE b \in S
    BY <2>1, <2>2
  <2>3. CASE b \notin S
    BY <2>1, <2>3
  <2> QED
    BY <2>2, <2>3
<1> QED
  BY <1>3, <1>5 DEF Came, D

\* s is r without r[x], and f says where everything else was
Without(s, r, x, f) ==
  /\ f \in [DOMAIN s -> DOMAIN r \ {x}]
  /\ \A j \in DOMAIN s : s[j] = r[f[j]]
  /\ \A i, j \in DOMAIN s : f[i] = f[j] => i = j
  /\ \A i \in DOMAIN r \ {x} : \E j \in DOMAIN s : f[j] = i

LEMMA Removed ==
  ASSUME NEW H, NEW G, NEW a \in DOMAIN H, NEW x \in DOMAIN H[a], Elsewhere(H, G, a),
         NEW f, Without(G[a], H[a], x, f), Apart(H)
  PROVE  Gone(H, G, a, H[a][x])
<1> DEFINE D == DOMAIN H
<1>0. DOMAIN G = D /\ a \in D /\ \A h \in D : h # a => G[h] = H[h]
  BY DEF Elsewhere
<1> HIDE DEF D
<1> DEFINE Ix(g, j) == IF g = a THEN f[j] ELSE j
<1>1. ASSUME NEW g \in D, NEW j \in DOMAIN G[g]
      PROVE  Ix(g, j) \in DOMAIN H[g] /\ G[g][j] = H[g][Ix(g, j)] /\ ~(g = a /\ Ix(g, j) = x)
  BY <1>0, <1>1 DEF Without
<1>2. ASSUME NEW g \in D, NEW i \in DOMAIN G[g], NEW j \in DOMAIN G[g], Ix(g, i) = Ix(g, j)
      PROVE  i = j
  BY <1>2 DEF Without
<1>3. ASSUME NEW g \in D, NEW i \in DOMAIN H[g], ~(g = a /\ i = x)
      PROVE  \E j \in DOMAIN G[g] : Ix(g, j) = i
  BY <1>0, <1>3 DEF Without
<1> HIDE DEF Ix
<1>4. Apart(G)
  <2> SUFFICES ASSUME NEW g \in D, NEW h \in D, NEW i \in DOMAIN G[g], NEW j \in DOMAIN G[h],
                      Number(G[g][i]) = Number(G[h][j])
               PROVE  g = h /\ i = j
    BY <1>0 DEF Apart
  <2>1. Ix(g, i) \in DOMAIN H[g] /\ G[g][i] = H[g][Ix(g, i)]
    BY <1>1
  <2>2. Ix(h, j) \in DOMAIN H[h] /\ G[h][j] = H[h][Ix(h, j)]
    BY <1>1
  <2>3. g = h /\ Ix(g, i) = Ix(h, j)
    BY <2>1, <2>2 DEF Apart, D
  <2> QED
    BY <1>2, <2>3
<1>5. ASSUME NEW g \in D, NEW j \in DOMAIN G[g]
      PROVE  Number(G[g][j]) # Number(H[a][x])
  <2>1. Ix(g, j) \in DOMAIN H[g] /\ G[g][j] = H[g][Ix(g, j)] /\ ~(g = a /\ Ix(g, j) = x)
    BY <1>1
  <2> QED
    BY <1>0, <2>1 DEF Apart, D
<1>6. \A d \in HeldAt(G, D) : Number(d) # Number(H[a][x])
  BY <1>5, HeldIn
<1>7. ASSUME NEW S \in SUBSET D, NEW d
      PROVE  d \in HeldAt(G, S) <=> (d \in HeldAt(H, S) /\ ~(a \in S /\ d = H[a][x]))
  <2>1. ASSUME d \in HeldAt(G, S)
        PROVE  d \in HeldAt(H, S) /\ d # H[a][x]
    <3>1. PICK g \in S : \E j \in DOMAIN G[g] : d = G[g][j]
      BY <2>1, HeldIn
    <3>2. PICK j \in DOMAIN G[g] : d = G[g][j]
      BY <3>1
    <3>3. Number(d) # Number(H[a][x]) /\ \E i \in DOMAIN H[g] : d = H[g][i]
      BY <1>1, <1>5, <3>2
    <3> QED
      BY <3>3, HeldIn
  <2>2. ASSUME d \in HeldAt(H, S), ~(a \in S /\ d = H[a][x])
        PROVE  d \in HeldAt(G, S)
    <3>1. PICK g \in S : \E i \in DOMAIN H[g] : d = H[g][i]
      BY <2>2, HeldIn
    <3>2. PICK i \in DOMAIN H[g] : d = H[g][i]
      BY <3>1
    <3>3. PICK j \in DOMAIN G[g] : Ix(g, j) = i
      BY <1>3, <2>2, <3>2
    <3>4. G[g][j] = d
      BY <1>1, <3>2, <3>3
    <3> QED
      BY <3>4, HeldIn
  <2> QED
    BY <2>1, <2>2
<1>8. ASSUME NEW S \in SUBSET D
      PROVE  HeldAt(G, S) = IF a \in S THEN HeldAt(H, S) \ {H[a][x]} ELSE HeldAt(H, S)
  <2>1. \A d : d \in HeldAt(G, S) <=> (d \in HeldAt(H, S) /\ ~(a \in S /\ d = H[a][x]))
    BY <1>7
  <2>2. CASE a \in S
    BY <2>1, <2>2
  <2>3. CASE a \notin S
    BY <2>1, <2>3
  <2> QED
    BY <2>2, <2>3
<1> QED
  BY <1>4, <1>6, <1>8 DEF Gone, D

LEMMA HeadRemoved ==
  ASSUME NEW H, NEW G, NEW a \in DOMAIN H, NEW n \in Nat \ {0}, Elsewhere(H, G, a),
         DOMAIN H[a] = 1..n, DOMAIN G[a] = 1..(n - 1),
         \A j \in 1..(n - 1) : G[a][j] = H[a][j + 1], Apart(H)
  PROVE  Gone(H, G, a, H[a][1])
<1> DEFINE f == [j \in 1..(n - 1) |-> j + 1]
<1>1. f \in [1..(n - 1) -> (1..n) \ {1}] /\ \A j \in 1..(n - 1) : f[j] = j + 1
  OBVIOUS
<1>2. \A i \in (1..n) \ {1} : i - 1 \in 1..(n - 1) /\ f[i - 1] = i
  OBVIOUS
<1> HIDE DEF f
<1>3. f \in [DOMAIN G[a] -> DOMAIN H[a] \ {1}]
  BY <1>1
<1>4. \A i, j \in DOMAIN G[a] : f[i] = f[j] => i = j
  BY <1>1
<1>5. \A i \in DOMAIN H[a] \ {1} : \E j \in DOMAIN G[a] : f[j] = i
  BY <1>2
<1>6. \A j \in DOMAIN G[a] : G[a][j] = H[a][f[j]]
  BY <1>1
<1>7. 1 \in DOMAIN H[a]
  OBVIOUS
<1>8. Without(G[a], H[a], 1, f)
  BY <1>3, <1>4, <1>5, <1>6, Zenon DEF Without
<1> QED
  BY <1>7, <1>8, Removed

LEMMA ItemRemoved ==
  ASSUME NEW H, NEW G, NEW a \in DOMAIN H, NEW x \in DOMAIN H[a], Elsewhere(H, G, a),
         DOMAIN G[a] = DOMAIN H[a] \ {x}, \A j \in DOMAIN G[a] : G[a][j] = H[a][j], Apart(H)
  PROVE  Gone(H, G, a, H[a][x])
<1> DEFINE f == [j \in DOMAIN G[a] |-> j]
<1>1. f \in [DOMAIN G[a] -> DOMAIN H[a] \ {x}] /\ \A j \in DOMAIN G[a] : f[j] = j
  OBVIOUS
<1> HIDE DEF f
<1>2. Without(G[a], H[a], x, f)
  BY <1>1 DEF Without
<1> QED
  BY <1>2, Removed
-----------------------------------------------------------------------------
(* The places, and what they hold before and after a step. *)
LEMMA PlaceOf ==
  /\ \A q \in Q, s \in Queues :
       <<"que", q, s>> \in Places /\ (<<"que", q, s>> \in RoughPlaces <=> s = "refine_que")
  /\ \A t \in Pool \union {Fragment}, s \in Queues :
       <<"send", t, s>> \in Places /\ (<<"send", t, s>> \in RoughPlaces <=> t = Fragment)
  /\ \A t \in Pool \union {Reorder} :
       /\ <<"recv", t, "none">> \in Places
       /\ <<"recv", t, "none">> \in RoughPlaces <=> t[1] = "FragmentRefine"
  /\ <<"tree", 0, "none">> \in FinePlaces /\ <<"writing", 0, "none">> \in FinePlaces
  /\ RoughPlaces \subseteq Places /\ FinePlaces = Places \ RoughPlaces
<1>1. ASSUME NEW q \in Q, NEW s \in Queues
      PROVE  <<"que", q, s>> \in Places /\ (<<"que", q, s>> \in RoughPlaces <=> s = "refine_que")
  BY DEF Places, RoughPlaces
<1>2. ASSUME NEW t \in Pool \union {Fragment}, NEW s \in Queues
      PROVE  <<"send", t, s>> \in Places /\ (<<"send", t, s>> \in RoughPlaces <=> t = Fragment)
  BY DEF Places, RoughPlaces
<1>3. ASSUME NEW t \in Pool \union {Reorder}
      PROVE  /\ <<"recv", t, "none">> \in Places
             /\ <<"recv", t, "none">> \in RoughPlaces <=> t[1] = "FragmentRefine"
  BY DEF Places, RoughPlaces
<1>4. <<"tree", 0, "none">> \in FinePlaces /\ <<"writing", 0, "none">> \in FinePlaces
  BY DEF Places, RoughPlaces, FinePlaces
<1> QED
  BY <1>1, <1>2, <1>3, <1>4 DEF RoughPlaces, FinePlaces

LEMMA PlaceKinds ==
  ASSUME NEW h \in Places
  PROVE  \/ \E q \in Q, s \in Queues : h = <<"que", q, s>>
         \/ \E t \in Pool \union {Fragment}, s \in Queues : h = <<"send", t, s>>
         \/ \E t \in Pool \union {Reorder} : h = <<"recv", t, "none">>
         \/ h = <<"tree", 0, "none">> \/ h = <<"writing", 0, "none">>
<1>1. CASE h \in {"que"} \X Q \X Queues
  BY <1>1
<1>2. CASE h \in {"send"} \X (Pool \union {Fragment}) \X Queues
  BY <1>2
<1>3. CASE h \in {"recv"} \X (Pool \union {Reorder}) \X {"none"}
  BY <1>3
<1>4. CASE h \in {<<"tree", 0, "none">>, <<"writing", 0, "none">>}
  BY <1>4
<1> QED
  BY <1>1, <1>2, <1>3, <1>4 DEF Places

Holds(H, qs, sb, rb, tr, w) ==
  /\ DOMAIN H = Places
  /\ \A q \in Q, s \in Queues : H[<<"que", q, s>>] = qs[s][q]
  /\ \A t \in Pool \union {Fragment}, s \in Queues : H[<<"send", t, s>>] = sb[t][s]
  /\ \A t \in Pool \union {Reorder} : H[<<"recv", t, "none">>] = rb[t]
  /\ H[<<"tree", 0, "none">>] = [c \in tr |-> c]
  /\ H[<<"writing", 0, "none">>] = w

LEMMA HoldAt ==
  ASSUME NEW qs, NEW sb, NEW rb, NEW tr, NEW w
  PROVE  Holds(Hold(qs, sb, rb, tr, w), qs, sb, rb, tr, w)
<1>1. ASSUME NEW q \in Q, NEW s \in Queues
      PROVE  Hold(qs, sb, rb, tr, w)[<<"que", q, s>>] = qs[s][q]
  BY PlaceOf DEF Hold
<1>2. ASSUME NEW t \in Pool \union {Fragment}, NEW s \in Queues
      PROVE  Hold(qs, sb, rb, tr, w)[<<"send", t, s>>] = sb[t][s]
  BY PlaceOf DEF Hold
<1>3. ASSUME NEW t \in Pool \union {Reorder}
      PROVE  Hold(qs, sb, rb, tr, w)[<<"recv", t, "none">>] = rb[t]
  BY PlaceOf DEF Hold
<1>4. Hold(qs, sb, rb, tr, w)[<<"tree", 0, "none">>] = [c \in tr |-> c]
  BY PlaceOf DEF Hold, FinePlaces
<1>5. Hold(qs, sb, rb, tr, w)[<<"writing", 0, "none">>] = w
  BY PlaceOf DEF Hold, FinePlaces
<1> QED
  BY <1>1, <1>2, <1>3, <1>4, <1>5 DEF Hold, Holds

LEMMA HoldingIs ==
  Holds(Holding, que, send_buf, recv_buf, tree, writing)
BY HoldAt DEF Holding

LEMMA HoldingAfter ==
  ASSUME conf' = conf
  PROVE  Holds(Holding', que', send_buf', recv_buf', tree', writing')
<1>1. Holding' = Hold(que', send_buf', recv_buf', tree', writing')
  BY Same DEF Holding, Hold
<1> QED
  BY <1>1, HoldAt

LEMMA HeldAfter ==
  ASSUME conf' = conf
  PROVE  Rough' = HeldAt(Holding', RoughPlaces) /\ Fine' = HeldAt(Holding', FinePlaces)
<1>1. RoughPlaces' = RoughPlaces /\ FinePlaces' = FinePlaces
  BY Same
<1> QED
  BY <1>1 DEF Rough, Fine, HeldAt

\* a place holds what it did if the step leaves it alone
LEMMA Untouched ==
  ASSUME conf' = conf, NEW h \in Places,
         \A q \in Q, s \in Queues : h = <<"que", q, s>> => que'[s][q] = que[s][q],
         \A t \in Pool \union {Fragment}, s \in Queues :
           h = <<"send", t, s>> => send_buf'[t][s] = send_buf[t][s],
         \A t \in Pool \union {Reorder} : h = <<"recv", t, "none">> => recv_buf'[t] = recv_buf[t],
         h = <<"tree", 0, "none">> => tree' = tree,
         h = <<"writing", 0, "none">> => writing' = writing
  PROVE  Holding'[h] = Holding[h]
<1>1. CASE \E q \in Q, s \in Queues : h = <<"que", q, s>>
  BY <1>1, HoldingIs, HoldingAfter DEF Holds
<1>2. CASE \E t \in Pool \union {Fragment}, s \in Queues : h = <<"send", t, s>>
  BY <1>2, HoldingIs, HoldingAfter DEF Holds
<1>3. CASE \E t \in Pool \union {Reorder} : h = <<"recv", t, "none">>
  BY <1>3, HoldingIs, HoldingAfter DEF Holds
<1>4. CASE h = <<"tree", 0, "none">>
  BY <1>4, HoldingIs, HoldingAfter DEF Holds
<1>5. CASE h = <<"writing", 0, "none">>
  BY <1>5, HoldingIs, HoldingAfter DEF Holds
<1> QED
  BY <1>1, <1>2, <1>3, <1>4, <1>5, PlaceKinds

\* everything that is held is a chunk
LEMMA HeldChunks ==
  ASSUME Typed
  PROVE  /\ \A h \in Places : \A i \in DOMAIN Holding[h] : Holding[h][i] \in Chunks
         /\ Rough \in SUBSET Chunks /\ Fine \in SUBSET Chunks
         /\ Rough \union Fine = HeldAt(Holding, Places)
<1>1. ASSUME NEW h \in Places, NEW i \in DOMAIN Holding[h]
      PROVE  Holding[h][i] \in Chunks
  <2>0. \A s \in Seq(Chunks) : \A j \in DOMAIN s : s[j] \in Chunks
    OBVIOUS
  <2>1. CASE \E q \in Q, s \in Queues : h = <<"que", q, s>>
    <3>1. Holding[h] \in Seq(Chunks)
      BY <2>1, HoldingIs DEF Typed, Holds
    <3> QED
      BY <2>0, <3>1
  <2>2. CASE \E t \in Pool \union {Fragment}, s \in Queues : h = <<"send", t, s>>
    <3>1. Holding[h] \in Seq(Chunks)
      BY <2>2, HoldingIs DEF Typed, Holds
    <3> QED
      BY <2>0, <3>1
  <2>3. CASE \E t \in Pool \union {Reorder} : h = <<"recv", t, "none">>
    <3>1. Holding[h] \in Seq(Chunks)
      BY <2>3, HoldingIs DEF Typed, Holds
    <3> QED
      BY <2>0, <3>1
  <2>4. CASE h = <<"tree", 0, "none">>
    BY <2>4, HoldingIs DEF Typed, Holds
  <2>5. CASE h = <<"writing", 0, "none">>
    BY <2>0, <2>5, HoldingIs DEF Typed, Holds
  <2> QED
    BY <2>1, <2>2, <2>3, <2>4, <2>5, PlaceKinds
<1>2. ASSUME NEW S \in SUBSET Places
      PROVE  HeldAt(Holding, S) \in SUBSET Chunks
  BY <1>1, HeldIn
<1>3. Rough \union Fine = HeldAt(Holding, Places)
  <2>1. \A c : c \in Rough \/ c \in Fine <=> c \in HeldAt(Holding, Places)
    BY HeldIn, PlaceOf DEF Rough, Fine
  <2> QED
    BY <2>1
<1> QED
  BY <1>1, <1>2, <1>3, PlaceOf DEF Rough, Fine

\* two chunks have different numbers, and no coarse one is a fine one
LEMMA HeldOnce ==
  ASSUME Typed, Apart(Holding)
  PROVE  Unlike(Rough, Fine)
<1>1. ASSUME NEW c \in Rough, NEW d \in Fine
      PROVE  Number(c) # Number(d)
  <2>1. PICK h \in RoughPlaces : \E i \in DOMAIN Holding[h] : c = Holding[h][i]
    BY HeldIn DEF Rough
  <2>2. PICK g \in FinePlaces : \E j \in DOMAIN Holding[g] : d = Holding[g][j]
    BY HeldIn DEF Fine
  <2>3. h # g /\ h \in DOMAIN Holding /\ g \in DOMAIN Holding
    BY PlaceOf, HoldingIs DEF Holds
  <2> QED
    BY <2>1, <2>2, <2>3 DEF Apart
<1>2. ASSUME NEW c \in HeldAt(Holding, Places), NEW d \in HeldAt(Holding, Places),
             Number(c) = Number(d)
      PROVE  c = d
  <2>1. PICK h \in Places : \E i \in DOMAIN Holding[h] : c = Holding[h][i]
    BY HeldIn
  <2>2. PICK g \in Places : \E j \in DOMAIN Holding[g] : d = Holding[g][j]
    BY HeldIn
  <2> QED
    BY <1>2, <2>1, <2>2, HoldingIs DEF Apart, Holds
<1> QED
  BY <1>1, <1>2, HeldChunks DEF Unlike
-----------------------------------------------------------------------------
(* Steps that move chunks and make, drop or note none. *)
Chained == Numbers /\ Complete

\* the same chunks are held, at whatever places
LEMMA SameHeld ==
  ASSUME Chained, Apart(Holding'), Rough' = Rough, Fine' = Fine,
         More' = More,
         UNCHANGED <<next, chunks_per_anchor, writing, tree>>,
         pc'[Reorder] = "overrun" <=> pc[Reorder] = "overrun"
  PROVE  Chained'
<1>1. Taken' = Taken
  BY DEF Taken
<1>2. Ordered(Rough, Fine, next, chunks_per_anchor, Taken, More)'
  BY <1>1 DEF Chained, Numbers, Ordered, Cut, Noted
<1>3. (pc[Reorder] # "overrun" => Unbroken(Rough, Fine, next, More))'
  BY DEF Chained, Complete, Unbroken, Follows, NextIsThere
<1> QED
  BY <1>2, <1>3 DEF Chained, Numbers, Complete

LEMMA Still ==
  ASSUME Chained, UNCHANGED <<conf, que, send_buf, recv_buf, tree, writing, next,
                              chunks_per_anchor>>,
         More' = More,
         pc'[Reorder] = "overrun" <=> pc[Reorder] = "overrun"
  PROVE  Chained'
<1>1. Holding' = Holding
  <2>1. Places' = Places
    BY Same
  <2>2. Holding' = Hold(que', send_buf', recv_buf', tree', writing')
    BY <2>1 DEF Holding, Hold
  <2>3. /\ que' = que /\ send_buf' = send_buf /\ recv_buf' = recv_buf
        /\ tree' = tree /\ writing' = writing
    OBVIOUS
  <2> QED
    BY <2>2, <2>3 DEF Holding
<1>2. Apart(Holding')
  BY <1>1 DEF Chained, Numbers
<1>3. Rough' = Rough /\ Fine' = Fine
  BY <1>1, HeldAfter DEF Rough, Fine
<1> QED
  BY <1>2, <1>3, SameHeld

\* the first n chunks of a go to the end of b
LEMMA Moves ==
  ASSUME Chained, NEW a \in Places, NEW b \in Places, a # b, a \in RoughPlaces <=> b \in RoughPlaces,
         NEW s \in Seq(Chunks), s = Holding[a], Holding[b] \in Seq(Chunks), NEW n \in 0..Len(s),
         \A h \in Places : h # a /\ h # b => Holding'[h] = Holding[h],
         Holding'[a] = Rest(s, n), Holding'[b] = Holding[b] \o First(s, n),
         UNCHANGED <<conf, next, chunks_per_anchor, writing, tree, pc>>,
         More' = More
  PROVE  Chained'
<1>1. DOMAIN Holding = Places /\ DOMAIN Holding' = Places
  BY HoldingIs, HoldingAfter DEF Holds
<1>2. Moved(Holding, Holding', a, b)
  <2> DEFINE H == Holding
             G == Holding'
  <2>1. /\ DOMAIN G = DOMAIN H /\ a \in DOMAIN H /\ b \in DOMAIN H
        /\ H[a] \in Seq(Chunks) /\ H[b] \in Seq(Chunks) /\ n \in 0..Len(H[a])
        /\ \A h \in DOMAIN H : h # a /\ h # b => G[h] = H[h]
        /\ G[a] = Rest(H[a], n) /\ G[b] = H[b] \o First(H[a], n)
    BY <1>1
  <2> HIDE DEF H, G
  <2>2. Moved(H, G, a, b)
    BY <2>1, MoveApart
  <2> QED
    BY <2>2 DEF H, G
<1>3. Rough' = Rough /\ Fine' = Fine
  BY <1>1, <1>2, HeldAfter, PlaceOf DEF Rough, Fine, Moved
<1> QED
  BY <1>2, <1>3, SameHeld DEF Chained, Numbers, Moved

LEMMA FetchChained ==
  ASSUME Typed, Chained, NEW t \in Pool \union {Reorder}, NEW s \in Queues, NEW q \in Q,
         s = "refine_que" <=> t[1] = "FragmentRefine",
         recv_buf[t] = <<>>, Dequeue(t, s, q),
         UNCHANGED <<conf, pc, send_buf, fragVars, reorderVars>>
  PROVE  Chained'
<1> USE DEF fragVars, reorderVars
<1> DEFINE n == Least(Len(que[s][q]), conf.FETCH)
           a == <<"que", q, s>>
           b == <<"recv", t, "none">>
<1>1. conf.FETCH \in Nat /\ que[s][q] \in Seq(Chunks)
  BY ConfFacts DEF Typed
<1>2. n \in 0..Len(que[s][q])
  BY <1>1 DEF Least
<1>3. que' = [que EXCEPT ![s][q] = Rest(@, n)]
      /\ recv_buf' = [recv_buf EXCEPT ![t] = First(que[s][q], n)]
  BY DEF Dequeue
<1> HIDE DEF n
<1>4. /\ \A r \in Queues, p \in Q :
           que'[r][p] = IF r = s /\ p = q THEN Rest(que[s][q], n) ELSE que[r][p]
      /\ \A u \in Pool \union {Reorder} :
           recv_buf'[u] = IF u = t THEN First(que[s][q], n) ELSE recv_buf[u]
  BY <1>3 DEF Typed
<1>5. /\ a \in Places /\ b \in Places /\ a # b /\ (a \in RoughPlaces <=> b \in RoughPlaces)
      /\ Holding[a] = que[s][q] /\ Holding[b] = <<>>
  BY PlaceOf, HoldingIs DEF Holds
<1>6. Holding'[a] = Rest(que[s][q], n) /\ Holding'[b] = First(que[s][q], n)
  BY <1>4, HoldingAfter DEF Holds
<1>7. <<>> \o First(que[s][q], n) = First(que[s][q], n)
  <2>1. First(que[s][q], n) \in Seq(Chunks)
    BY <1>1, <1>2, ChunkPieces
  <2> QED
    BY <2>1
<1>8. ASSUME NEW h \in Places, h # a, h # b
      PROVE  Holding'[h] = Holding[h]
  <2>1. \A p \in Q, r \in Queues : h = <<"que", p, r>> => que'[r][p] = que[r][p]
    BY <1>4, <1>8
  <2>2. \A u \in Pool \union {Reorder} : h = <<"recv", u, "none">> => recv_buf'[u] = recv_buf[u]
    BY <1>4, <1>8
  <2> QED
    BY <2>1, <2>2, Untouched
<1> HIDE DEF a, b
<1>9. More' = More
  BY DEF More, Reading
<1>10. Holding[b] \in Seq(Chunks) /\ Holding'[b] = Holding[b] \o First(que[s][q], n)
  BY <1>5, <1>6, <1>7, OneChunk
<1> QED
  BY <1>1, <1>2, <1>5, <1>6, <1>8, <1>9, <1>10, Moves

LEMMA EnqueueChained ==
  ASSUME Typed, Chained, NEW t \in Pool \union {Fragment}, Enqueue(t)
  PROVE  Chained'
<1> USE DEF fragVars, reorderVars
<1> DEFINE q == QidOf(t)
<1>1. PICK s \in Outputs[t[1]] :
        LET n == Least(Len(send_buf[t][s]), conf.QUEUE_SIZE - Len(que[s][q]))
        IN  /\ Len(que[s][q]) < conf.QUEUE_SIZE
            /\ que' = [que EXCEPT ![s][q] = @ \o First(send_buf[t][s], n)]
            /\ send_buf' = [send_buf EXCEPT ![t][s] = Rest(@, n)]
  BY DEF Enqueue
<1> DEFINE n == Least(Len(send_buf[t][s]), conf.QUEUE_SIZE - Len(que[s][q]))
           a == <<"send", t, s>>
           b == <<"que", q, s>>
<1>2. UNCHANGED <<conf, nTerminated, pc, recv_buf, cache, fragVars, reorderVars>>
  BY DEF Enqueue
<1>3. q \in Q /\ s \in Queues
  BY SenderFacts
<1> HIDE DEF q
<1>4. send_buf[t][s] \in Seq(Chunks) /\ que[s][q] \in Seq(Chunks) /\ conf.QUEUE_SIZE \in Nat
  <2>1. send_buf[t] \in [Queues -> Seq(Chunks)] /\ que[s] \in [Q -> Seq(Chunks)] /\ conf \in Confs
    BY <1>3 DEF Typed
  <2> QED
    BY <1>3, <2>1, ConfFacts
<1>5. n \in 0..Len(send_buf[t][s])
  <2>1. ASSUME NEW i \in Nat, NEW j \in Nat, NEW k \in Nat, j < k
        PROVE  Least(i, k - j) \in 0..i
    BY <2>1 DEF Least
  <2>2. Len(send_buf[t][s]) \in Nat /\ Len(que[s][q]) \in Nat
    BY <1>4
  <2> QED
    BY <1>1, <1>4, <2>1, <2>2
<1>6. que' = [que EXCEPT ![s][q] = @ \o First(send_buf[t][s], n)]
      /\ send_buf' = [send_buf EXCEPT ![t][s] = Rest(@, n)]
  BY <1>1
<1> HIDE DEF n
<1>7. /\ \A r \in Queues, p \in Q : que'[r][p] =
           IF r = s /\ p = q THEN que[s][q] \o First(send_buf[t][s], n) ELSE que[r][p]
      /\ \A u \in Pool \union {Fragment}, r \in Queues :
           send_buf'[u][r] = IF u = t /\ r = s THEN Rest(send_buf[t][s], n) ELSE send_buf[u][r]
  BY <1>3, <1>6 DEF Typed
<1>8. s = "refine_que" <=> t = Fragment
  <2>1. CASE t \in Pool
    <3>1. conf \in Confs
      BY DEF Typed
    <3>2. t[1] \in Stages /\ t # Fragment
      BY <2>1, <3>1, PoolFacts
    <3> QED
      BY <3>2 DEF Stages, Outputs
  <2>2. CASE t = Fragment
    BY <2>2 DEF Outputs, Fragment
  <2> QED
    BY <2>1, <2>2
<1>9. /\ a \in Places /\ b \in Places /\ a # b /\ (a \in RoughPlaces <=> b \in RoughPlaces)
      /\ Holding[a] = send_buf[t][s] /\ Holding[b] = que[s][q]
  BY <1>3, <1>8, PlaceOf, HoldingIs DEF Holds
<1>10. Holding'[a] = Rest(send_buf[t][s], n) /\ Holding'[b] = que[s][q] \o First(send_buf[t][s], n)
  BY <1>2, <1>3, <1>7, HoldingAfter DEF Holds
<1>11. ASSUME NEW h \in Places, h # a, h # b
      PROVE  Holding'[h] = Holding[h]
  <2>1. \A p \in Q, r \in Queues : h = <<"que", p, r>> => que'[r][p] = que[r][p]
    BY <1>7, <1>11
  <2>2. \A u \in Pool \union {Fragment}, r \in Queues :
          h = <<"send", u, r>> => send_buf'[u][r] = send_buf[u][r]
    BY <1>7, <1>11
  <2> QED
    BY <1>2, <2>1, <2>2, Untouched
<1> HIDE DEF a, b
<1>12. More' = More
  BY <1>2 DEF More, Reading
<1> QED
  BY <1>2, <1>4, <1>5, <1>9, <1>10, <1>11, <1>12, Moves

\* a thread sends the chunk at the head of its input on as it is
LEMMA PassChained ==
  ASSUME Steady, Chained, NEW t \in Pool, t[1] # "FragmentRefine", NEW s \in Outputs[t[1]],
         Working(t), Send(t, s, Head(recv_buf[t])),
         recv_buf' = [recv_buf EXCEPT ![t] = Tail(recv_buf[t])],
         UNCHANGED <<conf, que, pc, fragVars, reorderVars>>
  PROVE  Chained'
<1> USE DEF fragVars, reorderVars
<1> DEFINE r == recv_buf[t]
           a == <<"recv", t, "none">>
           b == <<"send", t, s>>
<1>0. Typed
  BY DEF Steady
<1>1. r \in Seq(Chunks) /\ r # <<>> /\ Head(r) \in Chunks
  BY <1>0, HeadOf DEF Working
<1>2. ASSUME NEW x \in Seq(Chunks), x # <<>>
      PROVE  1 \in 0..Len(x) /\ Tail(x) = Rest(x, 1) /\ First(x, 1) = <<Head(x)>>
  <2>1. Len(x) \in Nat /\ Len(x) > 0 /\ Head(x) = x[1] /\ 1 \in 0..Len(x) /\ 1 \in 1..1
    BY <1>2
  <2>2. Tail(x) = Rest(x, 1)
    BY <1>2, <2>1 DEF Rest
  <2>3. First(x, 1) \in Seq(Chunks) /\ Len(First(x, 1)) = 1 /\ First(x, 1)[1] = x[1]
    BY <2>1, ChunkPieces
  <2>4. First(x, 1) = <<x[1]>>
    <3>1. PICK y \in Seq(Chunks) : y = First(x, 1)
      BY <2>3
    <3> QED
      BY <2>3, <3>1
  <2> QED
    BY <2>1, <2>2, <2>4
<1>3. 1 \in 0..Len(r) /\ Tail(r) = Rest(r, 1) /\ First(r, 1) = <<Head(r)>>
  BY <1>1, <1>2
<1>4. /\ s \in Queues
      /\ \A u \in Pool \union {Fragment}, p \in Queues : send_buf'[u][p] =
              IF u = t /\ p = s THEN Append(send_buf[t][s], Head(r)) ELSE send_buf[u][p]
  BY <1>1, Sends DEF Working
<1>5. send_buf[t][s] \in Seq(Chunks)
  <2>1. send_buf[t] \in [Queues -> Seq(Chunks)]
    BY <1>0 DEF Typed
  <2> QED
    BY <1>4, <2>1
<1>6. Append(send_buf[t][s], Head(r)) = send_buf[t][s] \o First(r, 1)
  <2>1. \A x \in Seq(Chunks), c \in Chunks : Append(x, c) = x \o <<c>>
    OBVIOUS
  <2> QED
    BY <1>1, <1>3, <1>5, <2>1
<1>7. \A u \in Pool \union {Reorder} : recv_buf'[u] = IF u = t THEN Rest(r, 1) ELSE recv_buf[u]
  BY <1>0, <1>3 DEF Typed
<1> HIDE DEF r
<1>8. /\ a \in Places /\ b \in Places /\ a # b /\ (a \in RoughPlaces <=> b \in RoughPlaces)
      /\ Holding[a] = r /\ Holding[b] = send_buf[t][s]
  <2>1. t # Fragment
    BY <1>0, PoolFacts DEF Typed
  <2> QED
    BY <1>4, <2>1, PlaceOf, HoldingIs DEF Holds, r
<1>9. Holding'[a] = Rest(r, 1) /\ Holding'[b] = send_buf[t][s] \o First(r, 1)
  <2>1. recv_buf'[t] = Rest(r, 1) /\ send_buf'[t][s] = send_buf[t][s] \o First(r, 1)
    BY <1>4, <1>6, <1>7
  <2>2. Holds(Holding', que', send_buf', recv_buf', tree', writing')
    BY HoldingAfter
  <2>3. Holding'[a] = recv_buf'[t] /\ Holding'[b] = send_buf'[t][s]
    BY <1>4, <2>2 DEF Holds
  <2> QED
    BY <2>1, <2>3
<1>10. ASSUME NEW h \in Places, h # a, h # b
       PROVE  Holding'[h] = Holding[h]
  <2>1. \A u \in Pool \union {Reorder} : h = <<"recv", u, "none">> => recv_buf'[u] = recv_buf[u]
    BY <1>7, <1>10
  <2>2. \A u \in Pool \union {Fragment}, p \in Queues :
          h = <<"send", u, p>> => send_buf'[u][p] = send_buf[u][p]
    BY <1>4, <1>10
  <2> QED
    BY <2>1, <2>2, Untouched
<1> HIDE DEF a, b
<1>11. More' = More
  BY DEF More, Reading
<1> QED
  BY <1>1, <1>3, <1>5, <1>8, <1>9, <1>10, <1>11, Moves
-----------------------------------------------------------------------------
(* Steps that make, cut, note and write chunks. *)
LEMMA TakenHeld ==
  ASSUME Typed
  PROVE  /\ Taken \in SUBSET Fine /\ tree \in SUBSET Taken
         /\ \A i \in DOMAIN writing : writing[i] \in Taken
<1>1. ASSUME NEW c \in tree PROVE c \in Fine
  <2>1. Holding[<<"tree", 0, "none">>] = [d \in tree |-> d]
    BY HoldingIs DEF Holds
  <2>2. \E i \in DOMAIN Holding[<<"tree", 0, "none">>] : c = Holding[<<"tree", 0, "none">>][i]
    BY <2>1
  <2> QED
    BY <2>2, PlaceOf, HeldIn DEF Fine
<1>2. ASSUME NEW i \in DOMAIN writing PROVE writing[i] \in Fine
  <2>1. Holding[<<"writing", 0, "none">>] = writing
    BY HoldingIs DEF Holds
  <2> QED
    BY <2>1, PlaceOf, HeldIn DEF Fine
<1> QED
  BY <1>1, <1>2 DEF Taken, Range

LEMMA HeldParts ==
  ASSUME NEW H, NEW S, NEW U
  PROVE  HeldAt(H, S \union U) = HeldAt(H, S) \union HeldAt(H, U)
BY DEF HeldAt

LEMMA CreateChained ==
  ASSUME Steady, Chained, NEW c \in Chunks, c.l1 = chunk.l1, c.l2 = 0, c.last,
         Reading, Idle(Fragment), Send(Fragment, "refine_que", c),
         UNCHANGED <<conf, que, recv_buf, reorderVars>>, pc'[Reorder] = pc[Reorder],
         chunk'.l1 \in Nat, Reading' => chunk'.l1 = chunk.l1 + 1
  PROVE  Chained'
<1> USE DEF reorderVars
<1> DEFINE s == "refine_que"
           b == <<"send", Fragment, s>>
           sb == send_buf[Fragment][s]
           x == Len(sb) + 1
<1>0. Typed
  BY DEF Steady
<1>1. "refine_que" \in Outputs[Fragment[1]] /\ Fragment \in Pool \union {Fragment}
      /\ pc[Fragment] \notin {"drain", "done"}
  BY DEF Outputs, Fragment, Reading
<1>2. /\ s \in Queues
      /\ \A u \in Pool \union {Fragment}, r \in Queues : send_buf'[u][r] =
              IF u = Fragment /\ r = s THEN Append(sb, c) ELSE send_buf[u][r]
  BY <1>1, Sends
<1>3. sb \in Seq(Chunks)
  <2>1. send_buf[Fragment] \in [Queues -> Seq(Chunks)]
    BY <1>0 DEF Typed
  <2> QED
    BY <1>2, <2>1
<1>4. /\ x \notin DOMAIN sb /\ DOMAIN Append(sb, c) = DOMAIN sb \union {x}
      /\ \A j \in DOMAIN sb : Append(sb, c)[j] = sb[j]
      /\ Append(sb, c)[x] = c
  BY <1>3
<1>5. b \in Places /\ b \in RoughPlaces /\ b \notin FinePlaces /\ DOMAIN Holding = Places
      /\ Holding[b] = sb /\ Holding'[b] = Append(sb, c) /\ DOMAIN Holding' = Places
  <2>1. b \in Places /\ b \in RoughPlaces /\ b \notin FinePlaces
    BY <1>1, <1>2, PlaceOf
  <2>2. DOMAIN Holding = Places /\ Holding[b] = sb
    BY <1>1, <1>2, HoldingIs DEF Holds
  <2>3. DOMAIN Holding' = Places /\ Holding'[b] = send_buf'[Fragment][s]
    BY <1>1, <1>2, HoldingAfter DEF Holds
  <2>4. send_buf'[Fragment][s] = Append(sb, c)
    BY <1>1, <1>2
  <2> QED
    BY <2>1, <2>2, <2>3, <2>4
<1>6. ASSUME NEW h \in Places, h # b
      PROVE  Holding'[h] = Holding[h]
  <2>1. \A u \in Pool \union {Fragment}, p \in Queues :
          h = <<"send", u, p>> => send_buf'[u][p] = send_buf[u][p]
    BY <1>2, <1>6
  <2> QED
    BY <2>1, Untouched
<1> HIDE DEF b, sb, x
<1>7. Elsewhere(Holding, Holding', b)
  BY <1>5, <1>6 DEF Elsewhere
<1>8. Came(Holding, Holding', b, c)
  <2> DEFINE H == Holding
             G == Holding'
  <2>1. /\ b \in DOMAIN H /\ Elsewhere(H, G, b) /\ x \notin DOMAIN H[b]
        /\ DOMAIN G[b] = DOMAIN H[b] \union {x}
        /\ \A j \in DOMAIN H[b] : G[b][j] = H[b][j]
        /\ G[b][x] = c
    BY <1>4, <1>5, <1>7
  <2> HIDE DEF H, G
  <2>2. Came(H, G, b, c)
    BY <2>1, Added
  <2> QED
    BY <2>2 DEF H, G
<1>9. Ordered(Rough, Fine, next, chunks_per_anchor, Taken, {chunk.l1})
  BY DEF Chained, Numbers, More
<1>10. chunk.l1 \in Nat /\ next \in [l1 : Nat, l2 : Nat] /\ DOMAIN chunks_per_anchor \subseteq Nat
  BY <1>0 DEF Typed
<1>11. Apart(Holding')
  <2>1. \A d \in Rough \union Fine : d.l1 < chunk.l1
    BY <1>9 DEF Ordered
  <2>2. \A d \in HeldAt(Holding, Places) : Number(d) # Number(c)
    BY <1>0, <1>10, <2>1, HeldChunks, SameNumber
  <2> QED
    BY <1>5, <1>8, <2>2 DEF Came, Chained, Numbers
<1>12. Rough' = Rough \union {c} /\ Fine' = Fine
  BY <1>5, <1>8, HeldAfter, PlaceOf DEF Came, Rough, Fine
<1>13. Taken' = Taken
  BY DEF Taken
<1>14. More' \in SUBSET {chunk.l1 + 1} /\ More = {chunk.l1}
  BY DEF More
<1>15. /\ Ordered(Rough \union {c}, Fine, next, chunks_per_anchor, Taken, More')
       /\ Unbroken(Rough, Fine, next, {chunk.l1}) => Unbroken(Rough \union {c}, Fine, next, More')
  <2>1. Rough \in SUBSET Chunks /\ Fine \in SUBSET Chunks /\ Taken \in SUBSET Fine
    BY <1>0, HeldChunks, TakenHeld
  <2> QED
    BY <1>9, <1>10, <1>14, <2>1, CreateKeeps
<1>16. Ordered(Rough, Fine, next, chunks_per_anchor, Taken, More)'
  BY <1>12, <1>13, <1>15 DEF Ordered, Cut, Noted
<1>17. (pc[Reorder] # "overrun" => Unbroken(Rough, Fine, next, More))'
  <2>1. pc[Reorder] # "overrun" => Unbroken(Rough, Fine, next, {chunk.l1})
    BY <1>14 DEF Chained, Complete
  <2> QED
    BY <1>12, <1>15, <2>1 DEF Unbroken, Follows, NextIsThere
<1> QED
  BY <1>11, <1>16, <1>17 DEF Chained, Numbers, Complete

\* Fragment stops without a last chunk
LEMMA StopChained ==
  ASSUME Chained, UNCHANGED <<conf, que, send_buf, recv_buf, reorderVars>>,
         ~Reading', pc'[Reorder] = pc[Reorder]
  PROVE  Chained'
<1> USE DEF reorderVars
<1>1. Holding' = Holding
  <2>1. Places' = Places
    BY Same
  <2>2. Holding' = Hold(que', send_buf', recv_buf', tree', writing')
    BY <2>1 DEF Holding, Hold
  <2> QED
    BY <2>2 DEF Holding
<1>2. Rough' = Rough /\ Fine' = Fine /\ Taken' = Taken
  BY <1>1, HeldAfter DEF Rough, Fine, Taken
<1>3. More' = {} /\ {} \in SUBSET More
  BY DEF More
<1>4. /\ Ordered(Rough, Fine, next, chunks_per_anchor, Taken, {})
      /\ Unbroken(Rough, Fine, next, More) => Unbroken(Rough, Fine, next, {})
  <2>1. Ordered(Rough, Fine, next, chunks_per_anchor, Taken, More)
    BY DEF Chained, Numbers
  <2>2. Rough \in SUBSET Rough /\ Fine \in SUBSET Fine
    OBVIOUS
  <2> QED
    BY <1>3, <2>1, <2>2, FewerKeep
<1>5. Ordered(Rough, Fine, next, chunks_per_anchor, Taken, More)'
  BY <1>2, <1>3, <1>4 DEF Ordered, Cut, Noted
<1>6. (pc[Reorder] # "overrun" => Unbroken(Rough, Fine, next, More))'
  BY <1>2, <1>3, <1>4 DEF Chained, Complete, Unbroken, Follows, NextIsThere
<1> QED
  BY <1>1, <1>5, <1>6 DEF Chained, Numbers, Complete

LEMMA ReadChained ==
  ASSUME Steady, Chained, FragmentRead
  PROVE  Chained'
<1> USE DEF reorderVars
<1>0. Typed /\ chunk.l1 \in Nat /\ chunk \in [l1 : Nat, content : Seq(Alphabet)]
  BY DEF Steady, Typed
<1>1. /\ pc[Fragment] = "read" /\ Idle(Fragment) /\ Reading
      /\ UNCHANGED <<conf, que, nTerminated, recv_buf, qid, cache, reorderVars>>
  BY DEF FragmentRead, Reading
<1>2. Fragment \in Threads /\ Reorder \in Threads /\ Reorder # Fragment
  BY DEF Threads, Fragment, Reorder
<1>3. CASE Fresh # <<>>
  <2>1. /\ chunk' = [chunk EXCEPT !.content = @ \o Fresh]
        /\ pc' = [pc EXCEPT ![Fragment] = "split"] /\ send_buf' = send_buf
    BY <1>3 DEF FragmentRead
  <2>2. pc'[Fragment] = "split" /\ pc'[Reorder] = pc[Reorder] /\ chunk'.l1 = chunk.l1
    BY <1>0, <1>2, <2>1 DEF Typed
  <2>3. More' = More
    BY <1>1, <2>2 DEF More, Reading
  <2> QED
    BY <1>1, <2>1, <2>2, <2>3, Still
<1>4. CASE Fresh = <<>>
  <2> DEFINE c == [l1 |-> chunk.l1, l2 |-> 0, last |-> TRUE, content |-> chunk.content]
  <2>1. /\ IF chunk.content = <<>> THEN UNCHANGED send_buf ELSE Send(Fragment, "refine_que", c)
        /\ chunk' = NoChunk /\ pc' = [pc EXCEPT ![Fragment] = "drain"]
    BY <1>4 DEF FragmentRead
  <2>2. pc'[Fragment] = "drain" /\ pc'[Reorder] = pc[Reorder] /\ chunk'.l1 = 0
    BY <1>0, <1>2, <2>1 DEF Typed, NoChunk
  <2>3. ~Reading'
    BY <2>2 DEF Reading
  <2>4. c \in Chunks /\ c.l1 = chunk.l1 /\ c.l2 = 0 /\ c.last
    BY <1>0 DEF Chunks
  <2> HIDE DEF c
  <2>5. CASE chunk.content = <<>>
    BY <1>1, <2>1, <2>2, <2>3, <2>5, StopChained
  <2>6. CASE chunk.content # <<>>
    BY <1>1, <2>1, <2>2, <2>3, <2>4, <2>6, CreateChained
  <2> QED
    BY <2>5, <2>6
<1> QED
  BY <1>3, <1>4

LEMMA SplitChained ==
  ASSUME Steady, Chained, FragmentSplit
  PROVE  Chained'
<1> USE DEF reorderVars
<1>0. Typed /\ chunk.l1 \in Nat /\ chunk.content \in Seq(Alphabet) /\ conf \in Confs
  BY DEF Steady, Typed
<1>1. /\ pc[Fragment] = "split" /\ Idle(Fragment) /\ Reading
      /\ UNCHANGED <<conf, que, nTerminated, pc, recv_buf, qid, seek, cache, reorderVars>>
  BY DEF FragmentSplit, Reading
<1>2. PICK n \in (conf.ANCHOR_JUMP + 1)..(Len(chunk.content) - 1) :
        /\ Send(Fragment, "refine_que",
                [l1 |-> chunk.l1, l2 |-> 0, last |-> TRUE, content |-> First(chunk.content, n)])
        /\ chunk' = [l1 |-> chunk.l1 + 1, content |-> Rest(chunk.content, n)]
  BY DEF FragmentSplit
<1>3. n \in 0..Len(chunk.content)
  BY <1>0, ConfFacts
<1>4. First(chunk.content, n) \in Seq(Alphabet)
  <2>1. PICK x \in Seq(Alphabet) : x = chunk.content
    BY <1>0
  <2> QED
    BY <1>3, <2>1, Pieces
<1> DEFINE c == [l1 |-> chunk.l1, l2 |-> 0, last |-> TRUE, content |-> First(chunk.content, n)]
<1>5. c \in Chunks /\ c.l1 = chunk.l1 /\ c.l2 = 0 /\ c.last
  BY <1>0, <1>4 DEF Chunks
<1>6. Send(Fragment, "refine_que", c) /\ chunk'.l1 = chunk.l1 + 1 /\ chunk'.l1 \in Nat
  BY <1>0, <1>2
<1> HIDE DEF c
<1> QED
  BY <1>1, <1>5, <1>6, CreateChained

\* what the chunks' part of the invariant asks of the next state
LEMMA Rechained ==
  ASSUME NEW R, NEW F, NEW T, NEW n, NEW cpa, NEW more,
         Rough' = R, Fine' = F, Taken' = T, next' = n, chunks_per_anchor' = cpa, More' = more,
         Apart(Holding'), Ordered(R, F, n, cpa, T, more),
         pc'[Reorder] # "overrun" => Unbroken(R, F, n, more),
         \A i \in DOMAIN writing' : Number(writing'[i]) = n,
         writing' = <<>> => \A c \in tree' : Number(c) # n
  PROVE  Chained'
<1>1. Ordered(Rough, Fine, next, chunks_per_anchor, Taken, More)'
  BY DEF Ordered, Cut, Noted
<1>2. (pc[Reorder] # "overrun" => Unbroken(Rough, Fine, next, More))'
  BY DEF Unbroken, Follows, NextIsThere
<1>3. (\A i \in DOMAIN writing : Number(writing[i]) = next)'
      /\ (writing = <<>> => \A c \in tree : Number(c) # next)'
  BY DEF Number
<1> QED
  BY <1>1, <1>2, <1>3 DEF Chained, Numbers, Complete

LEMMA RefineChained ==
  ASSUME Steady, Chained, NEW t \in Pool, t[1] = "FragmentRefine", Refine(t)
  PROVE  Chained'
<1> USE DEF reorderVars, fragVars
<1> DEFINE r == recv_buf[t]
           c == Head(r)
           s == "deduplicate_que"
           a == <<"recv", t, "none">>
           b == <<"send", t, s>>
           sb == send_buf[t][s]
           x == Len(sb) + 1
           H == Holding
           G == Holding'
<1>0. Typed
  BY DEF Steady
<1>1. /\ Working(t) /\ UNCHANGED <<conf, que, nTerminated, pc, qid, cache, fragVars, reorderVars>>
  BY DEF Refine
<1>2. PICK n \in 1..Len(c.content) :
           /\ Send(t, s, Piece(c, n)) /\ recv_buf' = [recv_buf EXCEPT ![t] = Kept(r, n)]
           /\ Kept(r, n) \in Seq(Chunks)
  BY <1>0, RefineFacts
<1> DEFINE p == Piece(c, n)
           u == Uncut(c, n)
           last == n = Len(c.content)
<1>3. /\ r \in Seq(Chunks) /\ r # <<>> /\ c \in Chunks /\ c = r[1] /\ 1 \in DOMAIN r
      /\ Tail(r) \in Seq(Chunks) /\ Len(Tail(r)) = Len(r) - 1
      /\ \A i \in 1..(Len(r) - 1) : Tail(r)[i] = r[i + 1]
  BY <1>0, <1>1, HeadOf DEF Working
<1>4. /\ p \in Chunks /\ u \in Chunks /\ p.l1 = c.l1 /\ p.l2 = c.l2 /\ (p.last = last)
      /\ u.l1 = c.l1 /\ u.l2 = c.l2 + 1 /\ u.last = c.last
  BY <1>3, PieceFacts
<1>5. s \in Queues /\ s \in Outputs[t[1]]
  BY DEF Queues, Outputs
<1>6. \A v \in Pool \union {Fragment}, q \in Queues : send_buf'[v][q] =
        IF v = t /\ q = s THEN Append(sb, p) ELSE send_buf[v][q]
  BY <1>1, <1>2, <1>4, <1>5, Sends DEF Working
<1>7. \A v \in Pool \union {Reorder} : recv_buf'[v] = IF v = t THEN Kept(r, n) ELSE recv_buf[v]
  BY <1>0, <1>2 DEF Typed
<1>8. sb \in Seq(Chunks)
  <2>1. send_buf[t] \in [Queues -> Seq(Chunks)]
    BY <1>0 DEF Typed
  <2> QED
    BY <1>5, <2>1
<1> HIDE DEF p, u, c
<1>9. /\ x \notin DOMAIN sb /\ DOMAIN Append(sb, p) = DOMAIN sb \union {x}
      /\ \A j \in DOMAIN sb : Append(sb, p)[j] = sb[j]
      /\ Append(sb, p)[x] = p
  BY <1>4, <1>8
<1>10. t # Fragment
  BY <1>0, PoolFacts DEF Typed
<1>11. /\ a \in Places /\ a \in RoughPlaces /\ a \notin FinePlaces /\ a # b
       /\ b \in Places /\ b \notin RoughPlaces /\ b \in FinePlaces
       /\ DOMAIN H = Places /\ DOMAIN G = Places
  BY <1>1, <1>5, <1>10, PlaceOf, HoldingIs, HoldingAfter DEF Holds
<1>12. H[a] = r /\ H[b] = sb
  BY <1>5, HoldingIs DEF Holds
<1>13. G[a] = Kept(r, n) /\ G[b] = Append(sb, p)
  <2>1. Holds(Holding', que', send_buf', recv_buf', tree', writing')
    BY <1>1, HoldingAfter
  <2>2. G[a] = recv_buf'[t] /\ G[b] = send_buf'[t][s]
    BY <1>5, <2>1 DEF Holds
  <2> QED
    BY <1>5, <1>6, <1>7, <2>2
<1>14. ASSUME NEW h \in Places, h # a, h # b
       PROVE  G[h] = H[h]
  <2>1. \A v \in Pool \union {Reorder} : h = <<"recv", v, "none">> => recv_buf'[v] = recv_buf[v]
    BY <1>7, <1>14
  <2>2. \A v \in Pool \union {Fragment}, q \in Queues :
          h = <<"send", v, q>> => send_buf'[v][q] = send_buf[v][q]
    BY <1>6, <1>14
  <2> QED
    BY <1>1, <2>1, <2>2, Untouched
<1>15. /\ Rough = HeldAt(H, RoughPlaces) /\ Fine = HeldAt(H, FinePlaces)
       /\ Rough' = HeldAt(G, RoughPlaces) /\ Fine' = HeldAt(G, FinePlaces)
       /\ HeldAt(H, Places) = Rough \union Fine /\ Apart(H)
       /\ Rough \in SUBSET Chunks /\ Fine \in SUBSET Chunks /\ Taken \in SUBSET Fine
  BY <1>0, <1>1, HeldAfter, HeldChunks, TakenHeld DEF Rough, Fine, Chained, Numbers
<1>16. c \in Rough /\ c \notin Fine
  <2>1. c \in Rough
    BY <1>3, <1>11, <1>12, <1>15, HeldIn
  <2> QED
    BY <1>0, <1>15, <2>1, HeldOnce DEF Unlike
<1>17. Ordered(Rough, Fine, next, chunks_per_anchor, Taken, More)
       /\ More \in SUBSET Nat /\ next \in [l1 : Nat, l2 : Nat]
  BY <1>0 DEF Chained, Numbers, More, Typed
<1>18. Number(p) = Number(c)
  BY <1>4, SameNumber
<1>19. Taken' = Taken /\ More' = More /\ next' = next /\ chunks_per_anchor' = chunks_per_anchor
       /\ (\A i \in DOMAIN writing' : Number(writing'[i]) = next)
       /\ (writing' = <<>> => \A d \in tree' : Number(d) # next)
  BY <1>1 DEF Taken, More, Reading, Chained, Numbers
<1> HIDE DEF H, G, a, b, sb, x
<1>20. CASE last
  <2> DEFINE H1 == [h \in Places |-> IF h = a THEN Tail(r) ELSE H[h]]
  <2>1. G[a] = Tail(r)
    BY <1>13, <1>20 DEF Kept, c
  <2>2. /\ DOMAIN H1 = Places /\ H1[a] = Tail(r) /\ H1[b] = sb
        /\ \A h \in Places : h # a => H1[h] = H[h]
        /\ \A h \in Places : h # b => G[h] = H1[h]
    BY <1>11, <1>12, <1>14, <2>1
  <2> HIDE DEF H1
  <2>3. Gone(H, H1, a, c)
    <3>1. Elsewhere(H, H1, a)
      BY <1>11, <2>2 DEF Elsewhere
    <3>2. /\ Len(r) \in Nat \ {0} /\ DOMAIN H[a] = 1..Len(r) /\ DOMAIN H1[a] = 1..(Len(r) - 1)
          /\ \A j \in 1..(Len(r) - 1) : H1[a][j] = H[a][j + 1]
      BY <1>3, <1>12, <2>2
    <3>3. Gone(H, H1, a, H[a][1])
      BY <1>11, <1>15, <3>1, <3>2, HeadRemoved
    <3> QED
      BY <1>3, <1>12, <3>3
  <2>4. Came(H1, G, b, p)
    <3>1. Elsewhere(H1, G, b)
      BY <1>11, <2>2 DEF Elsewhere
    <3>2. b \in DOMAIN H1 /\ x \notin DOMAIN H1[b] /\ DOMAIN G[b] = DOMAIN H1[b] \union {x}
          /\ (\A j \in DOMAIN H1[b] : G[b][j] = H1[b][j]) /\ G[b][x] = p
      BY <1>9, <1>11, <1>13, <2>2
    <3> QED
      BY <3>1, <3>2, Added
  <2>5. Apart(G)
    BY <1>11, <1>18, <2>2, <2>3, <2>4 DEF Gone, Came
  <2>6. Rough' = Rough \ {c} /\ Fine' = Fine \union {p}
    <3>1. RoughPlaces \in SUBSET Places /\ FinePlaces \in SUBSET Places
      BY PlaceOf
    <3>2. HeldAt(H1, RoughPlaces) = Rough \ {c} /\ HeldAt(H1, FinePlaces) = Fine
      BY <1>11, <1>15, <2>3, <3>1 DEF Gone
    <3>3. HeldAt(G, RoughPlaces) = HeldAt(H1, RoughPlaces)
          /\ HeldAt(G, FinePlaces) = HeldAt(H1, FinePlaces) \union {p}
      BY <1>11, <2>2, <2>4, <3>1 DEF Came
    <3> QED
      BY <1>15, <3>2, <3>3
  <2>7. /\ Ordered(Rough \ {c}, Fine \union {p}, next, chunks_per_anchor, Taken, More)
        /\ Unbroken(Rough, Fine, next, More) => Unbroken(Rough \ {c}, Fine \union {p}, next, More)
    BY <1>4, <1>15, <1>16, <1>17, <1>20, RefineLastKeeps
  <2>8. pc'[Reorder] # "overrun" => Unbroken(Rough \ {c}, Fine \union {p}, next, More)
    BY <1>1, <2>7 DEF Chained, Complete
  <2> QED
    BY <1>1, <1>19, <2>5, <2>6, <2>7, <2>8, Rechained DEF G
<1>21. CASE ~last
  <2> DEFINE H1 == [h \in Places |-> IF h = a THEN [i \in DOMAIN r \ {1} |-> r[i]] ELSE H[h]]
             H2 == [h \in Places |-> IF h = a THEN Kept(r, n) ELSE H[h]]
  <2>1. Kept(r, n) = <<u>> \o Tail(r)
    BY <1>21 DEF Kept, c, u
  <2>2. /\ DOMAIN H1 = Places /\ DOMAIN H1[a] = DOMAIN r \ {1}
        /\ \A i \in DOMAIN H1[a] : H1[a][i] = r[i]
        /\ DOMAIN H2 = Places /\ H2[a] = Kept(r, n) /\ H2[b] = sb
        /\ \A h \in Places : h # a => H1[h] = H[h] /\ H2[h] = H[h]
        /\ \A h \in Places : h # b => G[h] = H2[h]
    BY <1>11, <1>12, <1>13, <1>14
  <2> HIDE DEF H1, H2
  <2>3. Gone(H, H1, a, c)
    <3>1. Elsewhere(H, H1, a)
      BY <1>11, <2>2 DEF Elsewhere
    <3>2. Gone(H, H1, a, H[a][1])
      BY <1>3, <1>11, <1>12, <1>15, <2>2, <3>1, ItemRemoved
    <3> QED
      BY <1>3, <1>12, <3>2
  <2>4. Came(H1, H2, a, u)
    <3>1. Elsewhere(H1, H2, a)
      BY <1>11, <2>2 DEF Elsewhere
    <3>2. /\ Kept(r, n)[1] = u /\ DOMAIN Kept(r, n) = DOMAIN r
          /\ \A i \in DOMAIN r \ {1} : Kept(r, n)[i] = r[i]
      <4>1. /\ <<u>> \in Seq(Chunks) /\ Len(<<u>>) = 1 /\ <<u>>[1] = u
        BY <1>4, OneChunk
      <4>2. /\ <<u>> \o Tail(r) \in Seq(Chunks)
            /\ Len(<<u>> \o Tail(r)) = Len(<<u>>) + Len(Tail(r))
            /\ \A i \in 1..Len(<<u>>) : (<<u>> \o Tail(r))[i] = <<u>>[i]
            /\ \A i \in 1..Len(Tail(r)) : (<<u>> \o Tail(r))[Len(<<u>>) + i] = Tail(r)[i]
        BY <1>3, <4>1, Joins
      <4>3. Len(r) \in Nat /\ Len(r) >= 1 /\ DOMAIN r = 1..Len(r)
        BY <1>3
      <4>4. Len(Kept(r, n)) = Len(r) /\ DOMAIN Kept(r, n) = 1..Len(r)
        BY <1>3, <2>1, <4>1, <4>2, <4>3
      <4>5. Kept(r, n)[1] = u
        BY <2>1, <4>1, <4>2
      <4>6. \A j \in 1..(Len(r) - 1) : Kept(r, n)[1 + j] = r[j + 1]
        BY <1>3, <2>1, <4>1, <4>2, <4>3
      <4>7. ASSUME NEW i \in DOMAIN r \ {1} PROVE Kept(r, n)[i] = r[i]
        <5>1. i - 1 \in 1..(Len(r) - 1) /\ 1 + (i - 1) = i /\ (i - 1) + 1 = i
          BY <4>3
        <5> QED
          BY <4>6, <5>1
      <4> QED
        BY <4>3, <4>4, <4>5, <4>7
    <3>3. /\ a \in DOMAIN H1 /\ 1 \notin DOMAIN H1[a] /\ DOMAIN H2[a] = DOMAIN H1[a] \union {1}
          /\ (\A j \in DOMAIN H1[a] : H2[a][j] = H1[a][j]) /\ H2[a][1] = u
      BY <1>3, <1>11, <2>2, <3>2
    <3> QED
      BY <3>1, <3>3, Added
  <2>5. Came(H2, G, b, p)
    <3>1. Elsewhere(H2, G, b)
      BY <1>11, <2>2 DEF Elsewhere
    <3>2. b \in DOMAIN H2 /\ x \notin DOMAIN H2[b] /\ DOMAIN G[b] = DOMAIN H2[b] \union {x}
          /\ (\A j \in DOMAIN H2[b] : G[b][j] = H2[b][j]) /\ G[b][x] = p
      BY <1>9, <1>11, <1>13, <2>2
    <3> QED
      BY <3>1, <3>2, Added
  <2>6. Places \in SUBSET Places /\ RoughPlaces \in SUBSET Places /\ FinePlaces \in SUBSET Places
    BY PlaceOf
  <2>7. HeldAt(H1, Places) = (Rough \union Fine) \ {c}
        /\ HeldAt(H1, RoughPlaces) = Rough \ {c} /\ HeldAt(H1, FinePlaces) = Fine
    BY <1>11, <1>15, <2>3, <2>6 DEF Gone
  <2>8. HeldAt(H2, Places) = ((Rough \union Fine) \ {c}) \union {u}
        /\ HeldAt(H2, RoughPlaces) = (Rough \ {c}) \union {u} /\ HeldAt(H2, FinePlaces) = Fine
    BY <1>11, <2>2, <2>4, <2>6, <2>7 DEF Came
  <2>9. \A d \in HeldAt(H1, Places) : Number(d) # Number(u)
    <3> SUFFICES ASSUME NEW d \in (Rough \union Fine) \ {c}, d.l1 = u.l1, d.l2 = u.l2
                 PROVE  FALSE
      BY <2>7, SameNumber
    <3>1. d.l2 < c.l2
      BY <1>4, <1>16, <1>17 DEF Ordered, Cut
    <3> QED
      BY <1>3, <1>4, <1>15, <3>1 DEF Chunks
  <2>10. Apart(H2)
    BY <1>11, <2>2, <2>3, <2>4, <2>9 DEF Gone, Came
  <2>11. \A d \in HeldAt(H2, Places) : Number(d) # Number(p)
    <3>1. \A d \in HeldAt(H1, Places) : Number(d) # Number(p)
      BY <1>11, <1>18, <2>3 DEF Gone
    <3>2. Number(u) # Number(p)
      BY <1>3, <1>4, SameNumber DEF Chunks
    <3> QED
      BY <2>7, <2>8, <3>1, <3>2
  <2>12. Apart(G)
    BY <1>11, <2>2, <2>5, <2>10, <2>11 DEF Came
  <2>13. Rough' = (Rough \ {c}) \union {u} /\ Fine' = Fine \union {p}
    <3>1. HeldAt(G, RoughPlaces) = HeldAt(H2, RoughPlaces)
          /\ HeldAt(G, FinePlaces) = HeldAt(H2, FinePlaces) \union {p}
      BY <1>11, <2>2, <2>5, <2>6 DEF Came
    <3> QED
      BY <1>15, <2>8, <3>1
  <2>14. u.last
    BY <1>4, <1>16, <1>17 DEF Ordered, Cut
  <2>15. /\ Ordered((Rough \ {c}) \union {u}, Fine \union {p}, next, chunks_per_anchor, Taken, More)
         /\ Unbroken(Rough, Fine, next, More) =>
              Unbroken((Rough \ {c}) \union {u}, Fine \union {p}, next, More)
    BY <1>4, <1>15, <1>16, <1>17, <1>21, <2>14, RefinePartKeeps
  <2>16. pc'[Reorder] # "overrun" =>
           Unbroken((Rough \ {c}) \union {u}, Fine \union {p}, next, More)
    BY <1>1, <2>15 DEF Chained, Complete
  <2> QED
    BY <1>1, <1>19, <2>12, <2>13, <2>15, <2>16, Rechained DEF G
<1> QED
  BY <1>20, <1>21

LEMMA TakeChained ==
  ASSUME Steady, Chained, ReorderTake
  PROVE  Chained'
<1> USE DEF fragVars
<1> DEFINE r == recv_buf[Reorder]
           c == Head(r)
           d == Doubled(c.l1)
           a == <<"recv", Reorder, "none">>
           tp == <<"tree", 0, "none">>
           wp == <<"writing", 0, "none">>
           H == Holding
           G == Holding'
           H1 == [h \in Places |-> IF h = a THEN Tail(r) ELSE H[h]]
<1>0. Typed
  BY DEF Steady
<1>1. /\ c \in Chunks
      /\ pc[Reorder] = "run" /\ writing = <<>> /\ r # <<>>
      /\ recv_buf' = [recv_buf EXCEPT ![Reorder] = Tail(r)]
      /\ UNCHANGED <<conf, que, send_buf, fragVars, next>>
      /\ \/ /\ pc' = [pc EXCEPT ![Reorder] = "overrun"]
            /\ UNCHANGED <<chunks_per_anchor, writing, tree>>
         \/ /\ c.l1 \in DOMAIN d /\ pc' = pc
            /\ chunks_per_anchor' = IF c.last THEN [d EXCEPT ![c.l1] = c.l2 + 1] ELSE d
            /\ \/ Number(c) = next /\ writing' = <<c>> /\ tree' = tree
               \/ Number(c) # next /\ writing' = <<>> /\ tree' = tree \union {c}
  BY <1>0, TakeFacts
<1>2. Reorder \in Pool \union {Reorder} /\ Reorder \in Threads /\ Fragment \in Threads
      /\ Reorder # Fragment /\ Reorder[1] # "FragmentRefine"
  BY DEF Reorder, Fragment, Threads
<1>3. /\ r \in Seq(Chunks) /\ c = r[1] /\ 1 \in DOMAIN r
      /\ Tail(r) \in Seq(Chunks) /\ Len(Tail(r)) = Len(r) - 1
      /\ \A i \in 1..(Len(r) - 1) : Tail(r)[i] = r[i + 1]
  BY <1>0, <1>1, <1>2, HeadOf
<1>4. \A t \in Pool \union {Reorder} : recv_buf'[t] = IF t = Reorder THEN Tail(r) ELSE recv_buf[t]
  BY <1>0, <1>1 DEF Typed
<1>5. /\ a \in FinePlaces /\ tp \in FinePlaces /\ wp \in FinePlaces
      /\ RoughPlaces \in SUBSET Places /\ FinePlaces = Places \ RoughPlaces
      /\ a # tp /\ a # wp
      /\ DOMAIN H = Places /\ DOMAIN G = Places
      /\ H[a] = r /\ H[tp] = [e \in tree |-> e] /\ H[wp] = writing
      /\ G[a] = Tail(r) /\ G[tp] = [e \in tree' |-> e] /\ G[wp] = writing'
  <2>1. /\ Holds(Holding, que, send_buf, recv_buf, tree, writing)
        /\ Holds(Holding', que', send_buf', recv_buf', tree', writing')
    BY <1>1, HoldingIs, HoldingAfter
  <2> QED
    BY <1>2, <1>4, <2>1, PlaceOf DEF Holds
<1>6. ASSUME NEW h \in Places, h # a, h = tp => tree' = tree, h = wp => writing' = writing
      PROVE  G[h] = H[h]
  <2>1. \A t \in Pool \union {Reorder} : h = <<"recv", t, "none">> => recv_buf'[t] = recv_buf[t]
    BY <1>4, <1>6
  <2> QED
    BY <1>1, <1>6, <2>1, Untouched
<1>7. /\ Rough = HeldAt(H, RoughPlaces) /\ Fine = HeldAt(H, FinePlaces)
      /\ Rough' = HeldAt(G, RoughPlaces) /\ Fine' = HeldAt(G, FinePlaces)
      /\ HeldAt(H, Places) = Rough \union Fine /\ Apart(H)
      /\ Rough \in SUBSET Chunks /\ Fine \in SUBSET Chunks /\ Taken \in SUBSET Fine
  BY <1>0, <1>1, HeldAfter, HeldChunks, TakenHeld DEF Rough, Fine, Chained, Numbers
<1>8. /\ c \in Fine /\ c \notin Rough
  <2>1. a \in FinePlaces /\ 1 \in DOMAIN H[a] /\ c = H[a][1]
    BY <1>3, <1>5
  <2> HIDE DEF H, c
  <2>2. c \in HeldAt(H, FinePlaces)
    BY <2>1, HeldIn
  <2> QED
    BY <1>0, <1>7, <2>2, HeldOnce DEF Unlike, H
<1>9. /\ Ordered(Rough, Fine, next, chunks_per_anchor, Taken, More)
      /\ (\A e \in tree : Number(e) # next)
      /\ Number(c) # next => \A e \in tree \union {c} : Number(e) # next
  BY <1>1 DEF Chained, Numbers
<1>10. Reading' = Reading /\ More' = More /\ next' = next
  <2>1. pc'[Fragment] = pc[Fragment]
    BY <1>0, <1>1, <1>2 DEF Typed
  <2> QED
    BY <1>1, <2>1 DEF More, Reading
<1>11. /\ DOMAIN H1 = Places /\ H1[a] = Tail(r)
       /\ \A h \in Places : h # a => H1[h] = H[h]
  BY <1>5
<1> HIDE DEF H1, H, G, c, d
<1>12. Gone(H, H1, a, c)
  <2>1. Elsewhere(H, H1, a)
    BY <1>5, <1>11 DEF Elsewhere
  <2>2. /\ Len(r) \in Nat \ {0} /\ DOMAIN H[a] = 1..Len(r) /\ DOMAIN H1[a] = 1..(Len(r) - 1)
        /\ \A j \in 1..(Len(r) - 1) : H1[a][j] = H[a][j + 1]
    BY <1>1, <1>3, <1>5, <1>11
  <2>3. Gone(H, H1, a, H[a][1])
    BY <1>5, <1>7, <2>1, <2>2, HeadRemoved
  <2> QED
    BY <1>3, <1>5, <2>3
<1>13. /\ HeldAt(H1, RoughPlaces) = Rough /\ HeldAt(H1, FinePlaces) = Fine \ {c}
       /\ Apart(H1) /\ \A e \in HeldAt(H1, Places) : Number(e) # Number(c)
  BY <1>5, <1>7, <1>12 DEF Gone
<1>14. ASSUME NEW b \in {tp, wp}, NEW x, x \notin DOMAIN H1[b], G[b][x] = c,
              DOMAIN G[b] = DOMAIN H1[b] \union {x}, \A j \in DOMAIN H1[b] : G[b][j] = H1[b][j],
              \A h \in Places : h # b => G[h] = H1[h]
       PROVE  Apart(G) /\ Rough' = Rough /\ Fine' = Fine
  <2>1. Came(H1, G, b, c)
    <3>1. Elsewhere(H1, G, b)
      BY <1>5, <1>11, <1>14 DEF Elsewhere
    <3>2. b \in DOMAIN H1
      BY <1>5, <1>11
    <3> QED
      BY <1>14, <3>1, <3>2, Added
  <2>2. b \in FinePlaces /\ b \notin RoughPlaces /\ FinePlaces \in SUBSET Places
    BY <1>5
  <2>3. Apart(G) /\ HeldAt(G, RoughPlaces) = Rough /\ HeldAt(G, FinePlaces) = (Fine \ {c}) \union {c}
    BY <1>5, <1>11, <1>13, <2>1, <2>2 DEF Came
  <2> QED
    BY <1>7, <1>8, <2>3
<1>15. CASE /\ pc' = [pc EXCEPT ![Reorder] = "overrun"]
            /\ UNCHANGED <<chunks_per_anchor, writing, tree>>
  <2>1. pc'[Reorder] = "overrun"
    BY <1>0, <1>2, <1>15 DEF Typed
  <2>2. Gone(H, G, a, c)
    <3>1. Elsewhere(H, G, a)
      BY <1>5, <1>6, <1>15 DEF Elsewhere
    <3>2. /\ Len(r) \in Nat \ {0} /\ DOMAIN H[a] = 1..Len(r) /\ DOMAIN G[a] = 1..(Len(r) - 1)
          /\ \A j \in 1..(Len(r) - 1) : G[a][j] = H[a][j + 1]
      BY <1>1, <1>3, <1>5
    <3>3. Gone(H, G, a, H[a][1])
      BY <1>5, <1>7, <3>1, <3>2, HeadRemoved
    <3> QED
      BY <1>3, <1>5, <3>3
  <2>3. Rough' = Rough /\ Fine' = Fine \ {c} /\ Apart(G) /\ Taken' = Taken
    BY <1>5, <1>7, <1>15, <2>2 DEF Taken, Gone
  <2>4. Ordered(Rough, Fine \ {c}, next, chunks_per_anchor, Taken, More)
    <3>1. Rough \in SUBSET Rough /\ Fine \ {c} \in SUBSET Fine /\ More \in SUBSET More
      OBVIOUS
    <3> QED
      BY <1>9, <3>1, FewerKeep
  <2> QED
    BY <1>1, <1>9, <1>10, <1>15, <2>1, <2>3, <2>4, Rechained DEF G
<1>16. CASE /\ c.l1 \in DOMAIN d /\ pc' = pc
            /\ chunks_per_anchor' = IF c.last THEN [d EXCEPT ![c.l1] = c.l2 + 1] ELSE d
            /\ \/ Number(c) = next /\ writing' = <<c>> /\ tree' = tree
               \/ Number(c) # next /\ writing' = <<>> /\ tree' = tree \union {c}
  <2>1. Apart(G) /\ Rough' = Rough /\ Fine' = Fine
    <3>1. CASE writing' = <<c>> /\ tree' = tree
      <4>1. H1[wp] = <<>> /\ DOMAIN H1[wp] = {}
        BY <1>1, <1>5, <1>11
      <4>2. G[wp] = <<c>> /\ DOMAIN G[wp] = {1} /\ G[wp][1] = c
        BY <1>5, <3>1
      <4>3. \A h \in Places : h # wp => G[h] = H1[h]
        BY <1>5, <1>6, <1>11, <3>1
      <4>4. wp \in {tp, wp} /\ 1 \notin DOMAIN H1[wp] /\ DOMAIN G[wp] = DOMAIN H1[wp] \union {1}
            /\ \A j \in DOMAIN H1[wp] : G[wp][j] = H1[wp][j]
        BY <4>1, <4>2
      <4> QED
        BY <1>14, <4>2, <4>3, <4>4
    <3>2. CASE writing' = <<>> /\ tree' = tree \union {c}
      <4>1. H1[tp] = [e \in tree |-> e] /\ G[tp] = [e \in tree \union {c} |-> e]
        BY <1>5, <1>11, <3>2
      <4>2. c \notin tree
        <5>1. ASSUME c \in tree PROVE c \in HeldAt(H1, Places)
          <6>1. c \in DOMAIN H1[tp] /\ H1[tp][c] = c
            BY <4>1, <5>1
          <6> QED
            BY <1>5, <6>1, HeldIn
        <5> QED
          BY <1>13, <5>1
      <4>3. \A h \in Places : h # tp => G[h] = H1[h]
        BY <1>1, <1>5, <1>6, <1>11, <3>2
      <4>4. tp \in {tp, wp} /\ c \notin DOMAIN H1[tp] /\ DOMAIN G[tp] = DOMAIN H1[tp] \union {c}
            /\ (\A j \in DOMAIN H1[tp] : G[tp][j] = H1[tp][j]) /\ G[tp][c] = c
        BY <4>1, <4>2
      <4> QED
        BY <1>14, <4>3, <4>4
    <3> QED
      BY <1>16, <3>1, <3>2
  <2>2. Taken' = Taken \union {c}
    BY <1>1, <1>16 DEF Taken, Range
  <2>3. Ordered(Rough, Fine, next, IF c.last THEN [d EXCEPT ![c.l1] = c.l2 + 1] ELSE d,
                Taken \union {c}, More)
    <3>1. c.l1 \in Nat
      BY <1>1 DEF Chunks, c
    <3>2. PICK k \in Nat \ {0} :
            /\ d \in [0..(k - 1) -> Nat] /\ DOMAIN chunks_per_anchor \subseteq 0..(k - 1)
            /\ \A i \in 0..(k - 1) : d[i] =
                 IF i \in DOMAIN chunks_per_anchor THEN chunks_per_anchor[i] ELSE 0
      BY <1>0, <3>1, Doubling DEF d
    <3>3. chunks_per_anchor \in [0..(anchors - 1) -> Nat]
      BY <1>0 DEF Typed
    <3>4. DOMAIN d = 0..(k - 1)
      BY <3>2
    <3> QED
      BY <1>7, <1>8, <1>9, <1>16, <3>2, <3>3, <3>4, TakeKeeps
  <2>4. pc'[Reorder] # "overrun" => Unbroken(Rough, Fine, next, More)
    BY <1>1, <1>16 DEF Chained, Complete
  <2>5. /\ \A i \in DOMAIN writing' : Number(writing'[i]) = next
        /\ writing' = <<>> => \A e \in tree' : Number(e) # next
    <3>1. CASE writing' = <<c>> /\ Number(c) = next
      <4>1. DOMAIN writing' = {1} /\ writing'[1] = c /\ writing' # <<>>
        BY <3>1
      <4> QED
        BY <3>1, <4>1
    <3>2. CASE writing' = <<>> /\ Number(c) # next /\ tree' = tree \union {c}
      BY <1>9, <3>2
    <3> QED
      BY <1>16, <3>1, <3>2
  <2> QED
    BY <1>10, <1>16, <2>1, <2>2, <2>3, <2>4, <2>5, Rechained DEF G
<1> QED
  BY <1>1, <1>15, <1>16

LEMMA WriteChained ==
  ASSUME Steady, Chained, WriteChunk
  PROVE  Chained'
<1> USE DEF fragVars
<1> DEFINE w == writing[1]
           tp == <<"tree", 0, "none">>
           wp == <<"writing", 0, "none">>
           H == Holding
           G == Holding'
           H1 == [h \in Places |-> IF h = wp THEN <<>> ELSE H[h]]
           F == Fine \ {w}
<1>0. Typed
  BY DEF Steady
<1>1. /\ w \in Chunks /\ 1 \in DOMAIN writing
      /\ next' = Nxt /\ Nxt \in [l1 : Nat, l2 : Nat]
      /\ Nxt.l1 = (IF chunks_per_anchor[next.l1] = next.l2 + 1 THEN next.l1 + 1 ELSE next.l1)
      /\ Nxt.l2 = (IF chunks_per_anchor[next.l1] = next.l2 + 1 THEN 0 ELSE next.l2 + 1)
      /\ tree' = tree \ Ready
      /\ \/ Ready = {} /\ writing' = <<>>
         \/ \E d \in Ready : writing' = <<d>>
      /\ UNCHANGED <<conf, que, pc, recv_buf, send_buf, fragVars, chunks_per_anchor>>
  BY <1>0, WriteFacts
<1>2. writing = <<w>> /\ DOMAIN writing = {1}
  <2>1. writing \in Seq(Chunks) /\ Len(writing) <= 1
    BY DEF Steady, Typed, Bounded
  <2>2. 1 \in DOMAIN writing
    BY <1>1
  <2>3. Len(writing) \in Nat /\ DOMAIN writing = 1..Len(writing)
    BY <2>1
  <2>4. Len(writing) = 1
    BY <2>1, <2>2, <2>3
  <2> QED
    BY <2>1, <2>3, <2>4
<1>3. /\ tp \in FinePlaces /\ wp \in FinePlaces /\ tp # wp
      /\ RoughPlaces \in SUBSET Places /\ FinePlaces = Places \ RoughPlaces
      /\ DOMAIN H = Places /\ DOMAIN G = Places
      /\ H[tp] = [e \in tree |-> e] /\ H[wp] = writing
      /\ G[tp] = [e \in tree' |-> e] /\ G[wp] = writing'
  <2>1. /\ Holds(Holding, que, send_buf, recv_buf, tree, writing)
        /\ Holds(Holding', que', send_buf', recv_buf', tree', writing')
    BY <1>1, HoldingIs, HoldingAfter
  <2> QED
    BY <2>1, PlaceOf DEF Holds
<1>4. ASSUME NEW h \in Places, h # wp, h = tp => tree' = tree
      PROVE  G[h] = H[h]
  BY <1>1, <1>4, Untouched
<1>5. /\ Rough = HeldAt(H, RoughPlaces) /\ Fine = HeldAt(H, FinePlaces)
      /\ Rough' = HeldAt(G, RoughPlaces) /\ Fine' = HeldAt(G, FinePlaces)
      /\ Apart(H) /\ Unlike(Rough, Fine)
      /\ Rough \in SUBSET Chunks /\ Fine \in SUBSET Chunks
      /\ Taken \in SUBSET Fine /\ w \in Taken
  BY <1>0, <1>1, HeldAfter, HeldChunks, HeldOnce, TakenHeld DEF Rough, Fine, Chained, Numbers
<1>6. /\ Ordered(Rough, Fine, next, chunks_per_anchor, Taken, More) /\ Number(w) = next
      /\ next \in [l1 : Nat, l2 : Nat] /\ More \in SUBSET Nat
      /\ chunks_per_anchor \in [0..(anchors - 1) -> Nat]
  BY <1>0, <1>1 DEF Chained, Numbers, Typed, More
<1>7. More' = More
  BY <1>1 DEF More, Reading
<1>8. /\ Ordered(Rough, F, Nxt, chunks_per_anchor, Taken \ {w}, More)
      /\ Unbroken(Rough, Fine, next, More) => Unbroken(Rough, F, Nxt, More)
  BY <1>1, <1>5, <1>6, WriteKeeps
<1>9. pc'[Reorder] # "overrun" => Unbroken(Rough, F, Nxt, More)
  BY <1>1, <1>8 DEF Chained, Complete
<1>10. /\ DOMAIN H1 = Places /\ H1[wp] = <<>> /\ H1[tp] = [e \in tree |-> e]
       /\ \A h \in Places : h # wp => H1[h] = H[h]
  BY <1>3
<1> HIDE DEF H1, H, G, w, F
<1>11. Gone(H, H1, wp, w)
  <2>1. Elsewhere(H, H1, wp)
    BY <1>3, <1>10 DEF Elsewhere
  <2>2. /\ 1 \in Nat \ {0} /\ DOMAIN H[wp] = 1..1 /\ DOMAIN H1[wp] = 1..(1 - 1)
        /\ \A j \in 1..(1 - 1) : H1[wp][j] = H[wp][j + 1]
    BY <1>2, <1>3, <1>10
  <2>3. Gone(H, H1, wp, H[wp][1])
    BY <1>3, <1>5, <2>1, <2>2, HeadRemoved
  <2> QED
    BY <1>3, <2>3 DEF w
<1>12. /\ HeldAt(H1, RoughPlaces) = Rough /\ HeldAt(H1, FinePlaces) = F
       /\ Apart(H1) /\ \A e \in HeldAt(H1, Places) : Number(e) # Number(w)
  BY <1>3, <1>5, <1>11 DEF Gone, F
<1>13. Taken \ {w} = tree
  <2>1. w \notin tree
    <3>1. ASSUME w \in tree PROVE w \in HeldAt(H1, Places)
      <4>1. w \in DOMAIN H1[tp] /\ H1[tp][w] = w
        BY <1>10, <3>1
      <4> QED
        BY <1>3, <4>1, HeldIn
    <3> QED
      BY <1>12, <3>1
  <2>2. Taken = tree \union {w}
    BY <1>2 DEF Taken, Range, w
  <2> QED
    BY <2>1, <2>2
<1>14. CASE Ready = {} /\ writing' = <<>>
  <2>1. tree' = tree
    BY <1>1, <1>14
  <2>2. Gone(H, G, wp, w)
    <3>1. Elsewhere(H, G, wp)
      BY <1>3, <1>4, <2>1 DEF Elsewhere
    <3>2. /\ 1 \in Nat \ {0} /\ DOMAIN H[wp] = 1..1 /\ DOMAIN G[wp] = 1..(1 - 1)
          /\ \A j \in 1..(1 - 1) : G[wp][j] = H[wp][j + 1]
      BY <1>2, <1>3, <1>14
    <3>3. Gone(H, G, wp, H[wp][1])
      BY <1>3, <1>5, <3>1, <3>2, HeadRemoved
    <3> QED
      BY <1>3, <3>3 DEF w
  <2>3. Rough' = Rough /\ Fine' = F /\ Apart(G)
    BY <1>3, <1>5, <2>2 DEF Gone, F
  <2>4. Taken' = Taken \ {w}
    BY <1>13, <1>14, <2>1 DEF Taken, Range
  <2>5. DOMAIN writing' = {} /\ \A e \in tree' : Number(e) # Nxt
    BY <1>14, <2>1 DEF Ready
  <2> QED
    BY <1>1, <1>7, <1>8, <1>9, <2>3, <2>4, <2>5, Rechained DEF G
<1>15. CASE \E d \in Ready : writing' = <<d>>
  <2>1. PICK d \in Ready : writing' = <<d>>
    BY <1>15
  <2>2. d \in tree /\ Number(d) = Nxt
    BY DEF Ready
  <2>3. Ready = {d}
    <3>1. ASSUME NEW e \in Ready PROVE e = d
      <4>1. e \in tree /\ Number(e) = Number(d)
        BY <2>2 DEF Ready
      <4>2. H[tp][e] = e /\ H[tp][d] = d /\ e \in DOMAIN H[tp] /\ d \in DOMAIN H[tp]
            /\ tp \in DOMAIN H
        BY <1>3, <2>2, <4>1
      <4> QED
        BY <1>5, <4>1, <4>2 DEF Apart
    <3> QED
      BY <3>1
  <2>4. tree' = tree \ {d}
    BY <1>1, <2>3
  <2> DEFINE H2 == [h \in Places |-> IF h = tp THEN [e \in tree \ {d} |-> e] ELSE H1[h]]
  <2>5. /\ DOMAIN H2 = Places /\ H2[tp] = [e \in tree \ {d} |-> e] /\ H2[wp] = <<>>
        /\ \A h \in Places : h # tp => H2[h] = H1[h]
        /\ \A h \in Places : h # wp => G[h] = H2[h]
    BY <1>3, <1>4, <1>10, <2>4
  <2> HIDE DEF H2
  <2>6. Gone(H1, H2, tp, d)
    <3>1. Elsewhere(H1, H2, tp)
      BY <1>10, <2>5 DEF Elsewhere
    <3>2. /\ tp \in DOMAIN H1 /\ d \in DOMAIN H1[tp] /\ H1[tp][d] = d
          /\ DOMAIN H2[tp] = DOMAIN H1[tp] \ {d}
          /\ \A e \in DOMAIN H2[tp] : H2[tp][e] = H1[tp][e]
      BY <1>3, <1>10, <2>2, <2>5
    <3>3. Gone(H1, H2, tp, H1[tp][d])
      BY <1>12, <3>1, <3>2, ItemRemoved
    <3> QED
      BY <3>2, <3>3
  <2>7. Came(H2, G, wp, d)
    <3>1. Elsewhere(H2, G, wp)
      BY <1>3, <2>5 DEF Elsewhere
    <3>2. /\ wp \in DOMAIN H2 /\ 1 \notin DOMAIN H2[wp] /\ DOMAIN G[wp] = DOMAIN H2[wp] \union {1}
          /\ (\A j \in DOMAIN H2[wp] : G[wp][j] = H2[wp][j]) /\ G[wp][1] = d
      BY <1>3, <2>1, <2>5
    <3> QED
      BY <3>1, <3>2, Added
  <2>8. d \in F
    <3>1. d \in DOMAIN H1[tp] /\ H1[tp][d] = d
      BY <1>10, <2>2
    <3> QED
      BY <1>3, <1>12, <3>1, HeldIn
  <2>9. Rough' = Rough /\ Fine' = F /\ Apart(G)
    <3>1. /\ Apart(H2) /\ (\A e \in HeldAt(H2, Places) : Number(e) # Number(d))
          /\ HeldAt(H2, RoughPlaces) = Rough /\ HeldAt(H2, FinePlaces) = F \ {d}
      BY <1>3, <1>10, <1>12, <2>6 DEF Gone
    <3>2. Apart(G) /\ HeldAt(G, RoughPlaces) = Rough /\ HeldAt(G, FinePlaces) = (F \ {d}) \union {d}
      BY <1>3, <2>5, <2>7, <3>1 DEF Came
    <3> QED
      BY <1>5, <2>8, <3>2
  <2>10. Taken' = Taken \ {w}
    BY <1>13, <2>1, <2>2, <2>4 DEF Taken, Range
  <2>11. writing' # <<>> /\ \A i \in DOMAIN writing' : Number(writing'[i]) = Nxt
    BY <2>1, <2>2
  <2> QED
    BY <1>1, <1>7, <1>8, <1>9, <2>9, <2>10, <2>11, Rechained DEF G
<1> QED
  BY <1>1, <1>14, <1>15

\* every step keeps the chunks' part of the invariant
LEMMA ChainedNext ==
  ASSUME Steady, Chained, [Next]_vars
  PROVE  Chained'
<1> USE DEF fragVars, reorderVars
<1>0. Typed
  BY DEF Steady
<1>1. CASE UNCHANGED vars
  <2>1. More' = More /\ (pc'[Reorder] = "overrun" <=> pc[Reorder] = "overrun")
    BY <1>1 DEF vars, More, Reading
  <2> QED
    BY <1>1, <2>1, Still DEF vars
<1>2. CASE FragmentRead
  BY <1>2, ReadChained
<1>3. CASE FragmentSplit
  BY <1>3, SplitChained
<1>4. Fragment \in Threads /\ Reorder \in Threads /\ Fragment # Reorder
      /\ \A t \in Pool : t \in Threads /\ t # Fragment /\ t # Reorder
  BY DEF Threads, Fragment, Reorder, Pool, Stages
<1>5. CASE FragmentNoSplit
  <2>1. /\ pc[Fragment] = "split" /\ pc' = [pc EXCEPT ![Fragment] = "read"]
        /\ UNCHANGED <<conf, que, nTerminated, recv_buf, send_buf, qid, cache, fragVars, reorderVars>>
    BY <1>5 DEF FragmentNoSplit
  <2>2. pc'[Fragment] = "read" /\ pc'[Reorder] = pc[Reorder]
    BY <1>0, <1>4, <2>1 DEF Typed
  <2>3. More' = More
    BY <2>1, <2>2 DEF More, Reading
  <2> QED
    BY <2>1, <2>2, <2>3, Still
<1>6. ASSUME NEW t \in Pool, PoolNext(t) PROVE Chained'
  <2>1. t[1] \in Stages
    BY DEF Pool
  <2>2. CASE Fetch(t)
    <3>1. /\ recv_buf[t] = <<>> /\ Dequeue(t, Input[t[1]], QidOf(t))
          /\ UNCHANGED <<conf, pc, send_buf, fragVars, reorderVars>>
      BY <2>2 DEF Fetch
    <3>2. Input[t[1]] \in Queues /\ (Input[t[1]] = "refine_que" <=> t[1] = "FragmentRefine")
      BY <2>1 DEF Stages, Input, Queues
    <3>3. QidOf(t) \in Q
      BY <1>0, PoolFacts DEF Typed
    <3> QED
      BY <1>0, <3>1, <3>2, <3>3, FetchChained
  <2>3. CASE InputEnds(t)
    <3>1. /\ pc' = [pc EXCEPT ![t] = "drain"]
          /\ UNCHANGED <<conf, que, recv_buf, send_buf, fragVars, reorderVars>>
      BY <2>3 DEF InputEnds
    <3>2. pc'[Fragment] = pc[Fragment] /\ pc'[Reorder] = pc[Reorder]
      BY <1>0, <1>4, <3>1 DEF Typed
    <3>3. More' = More
      BY <3>1, <3>2 DEF More, Reading
    <3> QED
      BY <3>1, <3>2, <3>3, Still
  <2>4. CASE t[1] = "FragmentRefine" /\ Refine(t)
    BY <2>4, RefineChained
  <2>5. CASE t[1] = "Deduplicate" /\ Deduplicate(t)
    <3>1. PICK s \in {"reorder_que", "compress_que"} :
            /\ Working(t) /\ Send(t, s, Head(recv_buf[t]))
            /\ recv_buf' = [recv_buf EXCEPT ![t] = Tail(recv_buf[t])]
            /\ UNCHANGED <<conf, que, pc, fragVars, reorderVars>>
      BY <2>5 DEF Deduplicate
    <3>2. s \in Outputs[t[1]] /\ t[1] # "FragmentRefine"
      BY <2>5 DEF Outputs
    <3> QED
      BY <3>1, <3>2, PassChained
  <2>6. CASE t[1] = "Compress" /\ Compress(t)
    <3>1. UNCHANGED <<conf, que, pc, recv_buf, send_buf, fragVars, reorderVars>>
      BY <2>6 DEF Compress
    <3>2. More' = More
      BY <3>1 DEF More, Reading
    <3> QED
      BY <3>1, <3>2, Still
  <2>7. CASE t[1] = "Compress" /\ PassOn(t)
    <3>1. /\ Working(t) /\ Send(t, "reorder_que", Head(recv_buf[t]))
          /\ recv_buf' = [recv_buf EXCEPT ![t] = Tail(recv_buf[t])]
          /\ UNCHANGED <<conf, que, pc, fragVars, reorderVars>>
      BY <2>7 DEF PassOn
    <3>2. "reorder_que" \in Outputs[t[1]] /\ t[1] # "FragmentRefine"
      BY <2>7 DEF Outputs
    <3> QED
      BY <3>1, <3>2, PassChained
  <2> QED
    BY <1>6, <2>2, <2>3, <2>4, <2>5, <2>6, <2>7 DEF PoolNext
<1>7. ASSUME NEW t \in Pool \union {Fragment}, Shutdown(t) PROVE Chained'
  <2>1. /\ pc[t] = "drain" /\ pc' = [pc EXCEPT ![t] = "done"]
        /\ UNCHANGED <<conf, que, recv_buf, send_buf, fragVars, reorderVars>>
    BY <1>7 DEF Shutdown
  <2>2. (pc'[Fragment] = IF t = Fragment THEN "done" ELSE pc[Fragment])
        /\ pc'[Reorder] = pc[Reorder]
    BY <1>0, <1>4, <2>1 DEF Typed
  <2>3. More' = More
    BY <2>1, <2>2 DEF More, Reading
  <2> QED
    BY <2>1, <2>2, <2>3, Still
<1>8. CASE ReorderFetch
  <2>1. PICK q \in Q : Dequeue(Reorder, "reorder_que", q)
    BY <1>0, <1>8, ReorderFetchFacts
  <2>2. /\ recv_buf[Reorder] = <<>> /\ UNCHANGED <<conf, pc, send_buf, fragVars, reorderVars>>
    BY <1>8 DEF ReorderFetch, Listening
  <2>3. Reorder \in Pool \union {Reorder} /\ "reorder_que" \in Queues
        /\ Reorder[1] # "FragmentRefine"
    BY DEF Reorder, Queues
  <2> QED
    BY <1>0, <2>1, <2>2, <2>3, FetchChained
<1>9. CASE ReorderEnds
  <2>1. /\ pc[Reorder] = "run" /\ UNCHANGED <<conf, que, recv_buf, send_buf, fragVars, reorderVars>>
        /\ pc' = [pc EXCEPT ![Reorder] = IF tree = {} THEN "done" ELSE "mismatch"]
    BY <1>9 DEF ReorderEnds, Listening
  <2>2. pc'[Fragment] = pc[Fragment] /\ pc'[Reorder] \in {"done", "mismatch"}
    BY <1>0, <1>4, <2>1 DEF Typed
  <2>3. More' = More
    BY <2>1, <2>2 DEF More, Reading
  <2> QED
    BY <2>1, <2>2, <2>3, Still
<1> QED
  BY <1>0, <1>1, <1>2, <1>3, <1>5, <1>6, <1>7, <1>8, <1>9, TakeChained, WriteChained, EnqueueChained
     DEF Next, FragmentNext, ReorderNext
-----------------------------------------------------------------------------
(* When Reorder ends, everything has been written or is in its tree. *)

\* a stage whose end has reached all its queues holds nothing, and its input has ended
LEMMA StageEnded ==
  ASSUME Steady, NEW n \in Stages, \A q \in Q : Terminated(Ends[n], q)
  PROVE  /\ \A q \in Q : Dry(Input[n], q)
         /\ \A t \in Pool : t[1] = n =>
              recv_buf[t] = <<>> /\ \A s \in Queues : send_buf[t][s] = <<>>
<1>0. Typed /\ Counts /\ Ending
  BY DEF Steady
<1>1. ASSUME NEW t \in Pool, t[1] = n
      PROVE  pc[t] = "done"
  <2>1. QidOf(t) \in Q /\ t[2] \in Members(QidOf(t)) /\ t = <<n, t[2]>>
    BY <1>0, <1>1, PoolFacts DEF Typed, Pool
  <2>2. \A i \in Members(QidOf(t)) : pc[<<n, i>>] = "done"
    BY <1>0, <2>1, EndedCount
  <2> QED
    BY <2>1, <2>2
<1>2. ASSUME NEW q \in Q
      PROVE  Dry(Input[n], q)
  <2>1. conf \in Confs /\ "reorder_que" \in Queues
    BY <1>0 DEF Typed, Queues
  <2>2. PICK i \in Members(q) : i \in Indexes
    BY <2>1, MembersCount
  <2>3. <<n, i>> \in Pool /\ QidOf(<<n, i>>) = q
    BY <2>2, ThreadOf DEF Members, QidOf
  <2>4. pc[<<n, i>>] # "run"
    BY <1>1, <2>3
  <2> QED
    BY <1>0, <2>3, <2>4 DEF Ending
<1>3. ASSUME NEW t \in Pool, t[1] = n
      PROVE  recv_buf[t] = <<>> /\ \A s \in Queues : send_buf[t][s] = <<>>
  BY <1>0, <1>1, <1>3 DEF Ending
<1> QED
  BY <1>2, <1>3

\* Reorder has passed over every queue, whichever it began with
LEMMA EveryTurn ==
  ASSUME Typed, NEW q \in Q
  PROVE  \E i \in Q : Turn(i) = q
<1> DEFINE n == nqueues
           z == qid["Reorder"]
<1>1. n \in Nat /\ n > 0 /\ Q = 0..(n - 1) /\ z \in 0..(n - 1)
  BY QFacts DEF Typed, Q
<1>2. \A i : Turn(i) = (z + i) % n
  BY DEF Turn
<1> HIDE DEF n, z
<1>3. q \in Nat /\ q < n /\ z \in Nat /\ z < n
  BY <1>1
<1>4. CASE z <= q
  <2>1. q - z \in 0..(n - 1) /\ z + (q - z) = q
    BY <1>1, <1>3, <1>4
  <2>2. q % n = q
    BY <1>1, <1>3
  <2> QED
    BY <1>1, <1>2, <2>1, <2>2
<1>5. CASE q < z
  <2>1. n + q - z \in 0..(n - 1) /\ z + (n + q - z) = q + n
    BY <1>1, <1>3, <1>5
  <2>2. (q + n) % n = q
    BY <1>1, <1>3
  <2> QED
    BY <1>1, <1>2, <2>1, <2>2
<1> QED
  BY <1>3, <1>4, <1>5

LEMMA NothingLeft ==
  ASSUME Steady, Chained, ReorderEnds
  PROVE  tree = {}
<1>0. Typed /\ Counts /\ Ending
  BY DEF Steady
<1>1. /\ pc[Reorder] = "run" /\ recv_buf[Reorder] = <<>> /\ writing = <<>>
      /\ Cardinality(Passed) = nqueues
  BY DEF ReorderEnds, Listening
<1>2. \A q \in Q : Dry("reorder_que", q)
  <2> TAKE q \in Q
  <2>1. PICK i \in Q : Turn(i) = q
    BY <1>0, EveryTurn
  <2>2. i \in Passed
    BY <1>0, <1>1, TurnIn
  <2>3. i \in 0..i
    BY <1>0, QFacts DEF Typed, Q
  <2> QED
    BY <2>1, <2>2, <2>3 DEF Passed
<1>3. /\ Ends["Compress"] = "reorder_que" /\ Input["Compress"] = "compress_que"
      /\ Ends["Deduplicate"] = "compress_que" /\ Input["Deduplicate"] = "deduplicate_que"
      /\ Ends["FragmentRefine"] = "deduplicate_que" /\ Input["FragmentRefine"] = "refine_que"
      /\ Stages = {"FragmentRefine", "Deduplicate", "Compress"}
  BY DEF Ends, Input, Stages
<1> DEFINE Empty(n) == \A t \in Pool : t[1] = n =>
             recv_buf[t] = <<>> /\ \A s \in Queues : send_buf[t][s] = <<>>
<1>4. (\A q \in Q : Dry("compress_que", q)) /\ Empty("Compress")
  BY <1>2, <1>3, StageEnded DEF Dry
<1>5. (\A q \in Q : Dry("deduplicate_que", q)) /\ Empty("Deduplicate")
  BY <1>3, <1>4, StageEnded DEF Dry
<1>6. (\A q \in Q : Dry("refine_que", q)) /\ Empty("FragmentRefine")
  BY <1>3, <1>5, StageEnded DEF Dry
<1>7. \A s \in Queues : send_buf[Fragment][s] = <<>>
  <2>1. 0 \in Q
    BY <1>0, QFacts DEF Typed
  <2>2. pc[Fragment] = "done"
    BY <1>0, <1>6, <2>1, RefineEnds DEF Dry
  <2> QED
    BY <1>0, <2>2 DEF Ending
<1>8. /\ \A q \in Q, s \in Queues : que[s][q] = <<>>
      /\ \A t \in Pool \union {Fragment}, s \in Queues : send_buf[t][s] = <<>>
      /\ \A t \in Pool \union {Reorder} : recv_buf[t] = <<>>
  <2>1. \A t \in Pool : t[1] \in Stages
    BY DEF Pool
  <2>2. \A q \in Q, s \in Queues : que[s][q] = <<>>
    BY <1>2, <1>4, <1>5, <1>6 DEF Dry, Queues
  <2>3. \A t \in Pool : recv_buf[t] = <<>> /\ \A s \in Queues : send_buf[t][s] = <<>>
    BY <1>3, <1>4, <1>5, <1>6, <2>1
  <2> QED
    BY <1>1, <1>7, <2>2, <2>3
<1>9. Rough \union Fine \subseteq tree
  <2> SUFFICES ASSUME NEW h \in Places, NEW i \in DOMAIN Holding[h] PROVE Holding[h][i] \in tree
    BY <1>0, HeldChunks, HeldIn
  <2>1. DOMAIN <<>> = {}
    OBVIOUS
  <2>2. h = <<"tree", 0, "none">>
    BY <1>1, <1>8, <2>1, HoldingIs, PlaceKinds DEF Holds
  <2> QED
    BY <2>2, HoldingIs DEF Holds
<1>10. Rough \union Fine = tree
  BY <1>0, <1>9, TakenHeld
<1>11. NextIsThere(tree, next, More) /\ \A c \in tree : Number(c) # next
  BY <1>1, <1>10 DEF Chained, Numbers, Complete, Unbroken
<1> QED
  BY <1>11 DEF NextIsThere

LEMMA NoMismatchNext ==
  ASSUME Steady, Chained, NoMismatch, [Next]_vars
  PROVE  NoMismatch'
<1>0. Typed
  BY DEF Steady
<1>1. Fragment \in Threads /\ Reorder \in Threads /\ Fragment # Reorder
      /\ \A t \in Pool : t \in Threads /\ t # Reorder
  BY DEF Threads, Fragment, Reorder, Pool, Stages
<1>2. CASE ReorderEnds
  <2>1. pc' = [pc EXCEPT ![Reorder] = "done"]
    BY <1>2, NothingLeft DEF ReorderEnds
  <2> QED
    BY <1>0, <1>1, <2>1 DEF Typed, NoMismatch
<1>3. CASE ReorderTake
  <2>1. pc' = pc \/ pc' = [pc EXCEPT ![Reorder] = "overrun"]
    BY <1>3 DEF ReorderTake
  <2> QED
    BY <1>0, <1>1, <2>1 DEF Typed, NoMismatch
<1>4. ASSUME NEW t \in Pool \union {Fragment}, NEW to,
             pc' = pc \/ pc' = [pc EXCEPT ![t] = to]
      PROVE  NoMismatch'
  BY <1>0, <1>1, <1>4 DEF Typed, NoMismatch
<1>5. ASSUME NEW t \in Pool, PoolNext(t) PROVE NoMismatch'
  <2>1. pc' = pc \/ pc' = [pc EXCEPT ![t] = "drain"]
    BY <1>5 DEF PoolNext, Fetch, InputEnds, Refine, Deduplicate, Compress, PassOn
  <2> QED
    BY <1>4, <2>1
<1>6. ASSUME NEW t \in Pool \union {Fragment}, Enqueue(t) \/ Shutdown(t) PROVE NoMismatch'
  <2>1. pc' = pc \/ pc' = [pc EXCEPT ![t] = "done"]
    BY <1>6 DEF Enqueue, Shutdown
  <2> QED
    BY <1>4, <2>1
<1>7. CASE FragmentNext
  <2>1. \E to : pc' = pc \/ pc' = [pc EXCEPT ![Fragment] = to]
    BY <1>7 DEF FragmentNext, FragmentRead, FragmentSplit, FragmentNoSplit
  <2> QED
    BY <1>4, <2>1
<1>8. CASE ReorderFetch \/ WriteChunk \/ UNCHANGED vars
  BY <1>8 DEF ReorderFetch, WriteChunk, vars, NoMismatch
<1> QED
  BY <1>2, <1>3, <1>5, <1>6, <1>7, <1>8 DEF Next, ReorderNext
-----------------------------------------------------------------------------
(* The invariant holds. *)
LEMMA ChainedInit ==
  ASSUME Init
  PROVE  Chained
<1>1. conf \in Confs /\ Typed
  BY SteadyInit DEF Init, Steady
<1>2. DOMAIN <<>> = {} /\ DOMAIN [c \in {} |-> c] = {}
  OBVIOUS
<1>3. /\ \A q \in Q, s \in Queues : que[s][q] = <<>>
      /\ \A t \in Pool \union {Fragment}, s \in Queues : send_buf[t][s] = <<>>
      /\ \A t \in Pool \union {Reorder} : recv_buf[t] = <<>>
      /\ writing = <<>> /\ tree = {}
  BY DEF Init
<1>4. \A h \in Places : DOMAIN Holding[h] = {}
  BY <1>2, <1>3, HoldingIs, PlaceKinds DEF Holds
<1>5. Apart(Holding)
  BY <1>4, HoldingIs DEF Apart, Holds
<1>6. Rough = {} /\ Fine = {} /\ Taken = {}
  <2>1. RoughPlaces \subseteq Places /\ FinePlaces \subseteq Places
    BY PlaceOf
  <2> QED
    BY <1>2, <1>3, <1>4, <2>1, HeldIn DEF Rough, Fine, Taken, Range
<1>7. More = {0} /\ next = [l1 |-> 0, l2 |-> 0]
  <2>1. pc[Fragment] = "read" /\ chunk.l1 = 0
    BY DEF Init, Threads, NoChunk
  <2> QED
    BY <2>1 DEF More, Reading, Init
<1>8. \A i \in DOMAIN chunks_per_anchor : chunks_per_anchor[i] = 0
  BY DEF Init
<1>9. Ordered({}, {}, next, chunks_per_anchor, {}, {0})
  BY <1>7, <1>8 DEF Ordered, Cut, Noted, Due1
<1>10. Unbroken({}, {}, next, {0})
  BY <1>7 DEF Unbroken, Follows, NextIsThere
<1> QED
  BY <1>2, <1>3, <1>5, <1>6, <1>7, <1>9, <1>10 DEF Chained, Numbers, Complete

LEMMA InvInit ==
  ASSUME Init
  PROVE  IInv
<1>1. NoMismatch
  BY DEF Init, NoMismatch, Threads, Fragment, Reorder
<1> QED
  BY <1>1, SteadyInit, ChainedInit DEF IInv, Steady, Chained

LEMMA InvNext ==
  ASSUME IInv, [Next]_vars
  PROVE  IInv'
<1>1. Steady /\ Chained /\ NoMismatch
  BY DEF IInv, Steady, Chained
<1>2. Steady' /\ Chained' /\ NoMismatch'
  BY <1>1, SteadyNext, ChainedNext, NoMismatchNext
<1> QED
  BY <1>2 DEF IInv, Steady, Chained

THEOREM Invariant == Spec => []IInv
<1>1. Init => IInv
  BY InvInit
<1>2. IInv /\ [Next]_vars => IInv'
  BY InvNext
<1> QED
  BY <1>1, <1>2, PTL DEF Spec

\* The parallel encoder is typed and within its bounds: no queue or buffer grows
\* beyond its size and no queue is terminated more often than queue_init was told.
THEOREM TypeCorrect == Spec => []TypeOK
<1>1. ASSUME IInv PROVE TypeOK
  <2>1. Typed /\ Bounded /\ Counts
    BY <1>1 DEF IInv
  <2>2. \A s \in Queues, q \in Q : nTerminated[s][q] <= Producers(s, q)
    <3> TAKE s \in Queues, q \in Q
    <3>1. CASE s = "refine_que"
      BY <2>1, <3>1, RefineEnds
    <3>2. CASE s # "refine_que"
      BY <2>1, <3>2, StageEnds, EndedCount
    <3> QED
      BY <3>1, <3>2
  <2>3. \A i \in DOMAIN out : out[i] \in {Data(out[i].content), Fingerprint(out[i].content)}
    <3> TAKE i \in DOMAIN out
    <3> DEFINE Records == [type : {"TYPE_COMPRESS", "TYPE_FINGERPRINT"}, content : Seq(Alphabet)]
    <3>1. out[i] \in Records
      <4>1. PICK o \in Seq(Records) : o = out
        BY <2>1 DEF Typed
      <4> HIDE DEF Records
      <4> QED
        BY <4>1
    <3> QED
      BY <3>1 DEF Data, Fingerprint
  <2> QED
    BY <2>1, <2>2, <2>3 DEF Typed, Bounded, TypeOK
<1> QED
  BY <1>1, Invariant, PTL

\* A chunk some stage still holds is not yet written under its own number, so
\* Reorder frees no chunk a stage will still look at (encoder.c:430, 1272).
THEOREM Unwritten == Spec => []InFlightUnwritten
<1>1. ASSUME IInv PROVE InFlightUnwritten
  <2>1. Typed /\ Ordered(Rough, Fine, next, chunks_per_anchor, Taken, More)
    BY <1>1 DEF IInv, Numbers
  <2>2. ASSUME NEW c \in InFlight
        PROVE  \E h \in Places : \E i \in DOMAIN Holding[h] : c = Holding[h][i]
    <3> DEFINE Found == \E h \in Places : \E i \in DOMAIN Holding[h] : c = Holding[h][i]
               Q1 == {{que[s][q][i] : i \in DOMAIN que[s][q]} :
                         s \in Queues \ {"refine_que"}, q \in Q}
               S1 == {{send_buf[t][s][i] : i \in DOMAIN send_buf[t][s]} :
                         t \in Pool, s \in Queues}
               R1 == {{recv_buf[t][i] : i \in DOMAIN recv_buf[t]} :
                         t \in {u \in Pool : u[1] # "FragmentRefine"} \union {Reorder}}
               W1 == {writing[i] : i \in DOMAIN writing}
    <3>1. PICK S \in Q1 \union S1 \union R1 \union {tree, W1} : c \in S
      BY DEF InFlight
    <3>2. ASSUME NEW h \in Places, NEW i \in DOMAIN Holding[h], c = Holding[h][i]
          PROVE  Found
      BY <3>2
    <3> HIDE DEF Found
    <3>3. CASE S \in Q1
      <4>1. PICK s \in Queues, q \in Q : S = {que[s][q][i] : i \in DOMAIN que[s][q]}
        BY <3>3
      <4>2. PICK i \in DOMAIN que[s][q] : c = que[s][q][i]
        BY <3>1, <4>1
      <4>3. <<"que", q, s>> \in Places /\ Holding[<<"que", q, s>>] = que[s][q]
        BY PlaceOf, HoldingIs DEF Holds
      <4> QED
        BY <3>2, <4>2, <4>3
    <3>4. CASE S \in S1
      <4>1. PICK t \in Pool, s \in Queues :
              S = {send_buf[t][s][i] : i \in DOMAIN send_buf[t][s]}
        BY <3>4
      <4>2. PICK i \in DOMAIN send_buf[t][s] : c = send_buf[t][s][i]
        BY <3>1, <4>1
      <4>3. <<"send", t, s>> \in Places /\ Holding[<<"send", t, s>>] = send_buf[t][s]
        BY PlaceOf, HoldingIs DEF Holds
      <4> QED
        BY <3>2, <4>2, <4>3
    <3>5. CASE S \in R1
      <4>1. PICK t \in Pool \union {Reorder} : S = {recv_buf[t][i] : i \in DOMAIN recv_buf[t]}
        BY <3>5
      <4>2. PICK i \in DOMAIN recv_buf[t] : c = recv_buf[t][i]
        BY <3>1, <4>1
      <4>3. <<"recv", t, "none">> \in Places /\ Holding[<<"recv", t, "none">>] = recv_buf[t]
        BY PlaceOf, HoldingIs DEF Holds
      <4> QED
        BY <3>2, <4>2, <4>3
    <3>6. CASE S = tree
      <4>1. <<"tree", 0, "none">> \in Places /\ Holding[<<"tree", 0, "none">>] = [e \in tree |-> e]
        BY PlaceOf, HoldingIs DEF Holds
      <4>2. c \in DOMAIN Holding[<<"tree", 0, "none">>] /\ c = Holding[<<"tree", 0, "none">>][c]
        BY <3>1, <3>6, <4>1
      <4> QED
        BY <3>2, <4>1, <4>2
    <3>7. CASE S = W1
      <4>1. <<"writing", 0, "none">> \in Places /\ Holding[<<"writing", 0, "none">>] = writing
        BY PlaceOf, HoldingIs DEF Holds
      <4>2. PICK i \in DOMAIN writing : c = writing[i]
        BY <3>1, <3>7
      <4> QED
        BY <3>2, <4>1, <4>2
    <3> QED
      BY <3>1, <3>3, <3>4, <3>5, <3>6, <3>7 DEF Found
  <2>3. ASSUME NEW c \in InFlight
        PROVE  c \in Chunks /\ Due1(next, c)
    BY <2>1, <2>2, HeldIn, HeldChunks DEF Ordered
  <2>4. next.l1 \in Nat /\ next.l2 \in Nat
    BY <2>1 DEF Typed
  <2> QED
    BY <2>3, <2>4 DEF InFlightUnwritten, Due1, Chunks
<1> QED
  BY <1>1, Invariant, PTL

\* Once a queue's counted producers have all ended, no thread has anything to
\* put into it, a Deduplicate thread into the reorder queue included, which
\* only the Compress threads terminate (encoder.c:1395); and Reorder ends with
\* an empty tree (encoder.c:1300), for any number of threads and queues.
THEOREM EndsKept == Spec => []NothingAfterEnd
<1>1. ASSUME IInv PROVE NothingAfterEnd
  <2>1. Typed /\ Counts /\ Ending /\ NoMismatch
    BY <1>1 DEF IInv
  <2> QED
    BY <2>1, NoneLeft DEF NothingAfterEnd, NoMismatch
<1> QED
  BY <1>1, Invariant, PTL
-----------------------------------------------------------------------------
(* The archive: where in the file the chunks lie, and what the hash table knows. *)

\* a chunk's number, and that of the chunk behind it
At(c) == <<c.l1, c.l2>>
After(c) == IF c.last THEN <<c.l1 + 1, 0>> ELSE <<c.l1, c.l2 + 1>>

\* c is the part of the file f from start[At(c)] up to start[After(c)]
Lies(c, start, f) ==
  /\ c.content # <<>>
  /\ start[After(c)] = start[At(c)] + Len(c.content)
  /\ c.content = SubSeq(f, start[At(c)] + 1, start[After(c)])

Starts == [Nat \X Nat -> 0..Len(conf.file)]
Held == HeldAt(Holding, Places)

\* start says where each chunk begins: those that are held, the next one to be
\* written, and what Fragment has left over
Placed(start) ==
  /\ \A c \in Held : Lies(c, start, conf.file)
  /\ start[<<next.l1, next.l2>>] = Bytes(out)
  /\ Reading =>
       /\ start[<<chunk.l1, 0>>] + Len(chunk.content) = seek
       /\ chunk.content = SubSeq(conf.file, start[<<chunk.l1, 0>>] + 1, seek)

Laid == IsFiniteSet(Described(out)) /\ \E start \in Starts : Placed(start)

\* the places behind Deduplicate
SeenPlaces == {h \in Places :
  \/ h[1] \in {"que", "send"} /\ h[3] \in {"compress_que", "reorder_que"}
  \/ h[1] = "recv" /\ h[2][1] \in {"Compress", "Reorder"}
  \/ h[1] \in {"tree", "writing"}}
Seen == HeldAt(Holding, SeenPlaces)

\* the hash table has the chunks Deduplicate has seen, and those written are
\* the ones it says are
Cached ==
  /\ \A c \in Seen : c.content \in DOMAIN cache
  /\ \A b \in DOMAIN cache : cache[b] = "FLUSHED" <=> HasData(out, b)
  /\ \A i \in DOMAIN out : out[i].content \in DOMAIN cache

\* every chunk that one of the variables holds at a place of S is in N
Within(S, N, qs, sb, rb, tr, w) ==
  /\ \A q \in Q, s \in Queues : <<"que", q, s>> \in S =>
       \A i \in DOMAIN qs[s][q] : qs[s][q][i] \in N
  /\ \A t \in Pool \union {Fragment}, s \in Queues : <<"send", t, s>> \in S =>
       \A i \in DOMAIN sb[t][s] : sb[t][s][i] \in N
  /\ \A t \in Pool \union {Reorder} : <<"recv", t, "none">> \in S =>
       \A i \in DOMAIN rb[t] : rb[t][i] \in N
  /\ <<"tree", 0, "none">> \in S => tr \subseteq N
  /\ <<"writing", 0, "none">> \in S => \A i \in DOMAIN w : w[i] \in N

LEMMA WithinHeld ==
  ASSUME NEW S \in SUBSET Places
  PROVE  Within(S, HeldAt(Holding, S), que, send_buf, recv_buf, tree, writing)
<1>1. \A h \in S : \A i \in DOMAIN Holding[h] : Holding[h][i] \in HeldAt(Holding, S)
  BY HeldIn
<1>2. <<"tree", 0, "none">> \in S => tree \subseteq HeldAt(Holding, S)
  <2>1. Holding[<<"tree", 0, "none">>] = [c \in tree |-> c]
    BY HoldingIs DEF Holds
  <2> QED
    BY <1>1, <2>1
<1> QED
  BY <1>1, <1>2, HoldingIs DEF Holds, Within

LEMMA HeldWithin ==
  ASSUME conf' = conf, NEW S \in SUBSET Places, NEW N,
         Within(S, N, que', send_buf', recv_buf', tree', writing')
  PROVE  HeldAt(Holding', S) \subseteq N
<1> SUFFICES ASSUME NEW h \in S, NEW i \in DOMAIN Holding'[h]
             PROVE  Holding'[h][i] \in N
  BY HeldIn
<1>1. Holds(Holding', que', send_buf', recv_buf', tree', writing')
  BY HoldingAfter
<1>2. CASE \E q \in Q, s \in Queues : h = <<"que", q, s>>
  BY <1>1, <1>2 DEF Holds, Within
<1>3. CASE \E t \in Pool \union {Fragment}, s \in Queues : h = <<"send", t, s>>
  BY <1>1, <1>3 DEF Holds, Within
<1>4. CASE \E t \in Pool \union {Reorder} : h = <<"recv", t, "none">>
  BY <1>1, <1>4 DEF Holds, Within
<1>5. CASE h = <<"tree", 0, "none">>
  BY <1>1, <1>5 DEF Holds, Within
<1>6. CASE h = <<"writing", 0, "none">>
  BY <1>1, <1>6 DEF Holds, Within
<1> QED
  BY <1>2, <1>3, <1>4, <1>5, <1>6, PlaceKinds

\* the places seen, and what is at them after a step
LEMMA SeenPlace ==
  /\ \A q \in Q, s \in Queues :
       <<"que", q, s>> \in SeenPlaces <=> s \in {"compress_que", "reorder_que"}
  /\ \A t \in Pool \union {Fragment}, s \in Queues :
       <<"send", t, s>> \in SeenPlaces <=> s \in {"compress_que", "reorder_que"}
  /\ \A t \in Pool \union {Reorder} :
       <<"recv", t, "none">> \in SeenPlaces <=> t[1] \in {"Compress", "Reorder"}
  /\ <<"tree", 0, "none">> \in SeenPlaces /\ <<"writing", 0, "none">> \in SeenPlaces
  /\ SeenPlaces \in SUBSET Places
<1>1. ASSUME NEW q \in Q, NEW s \in Queues
      PROVE  <<"que", q, s>> \in SeenPlaces <=> s \in {"compress_que", "reorder_que"}
  BY PlaceOf DEF SeenPlaces
<1>2. ASSUME NEW t \in Pool \union {Fragment}, NEW s \in Queues
      PROVE  <<"send", t, s>> \in SeenPlaces <=> s \in {"compress_que", "reorder_que"}
  BY PlaceOf DEF SeenPlaces
<1>3. ASSUME NEW t \in Pool \union {Reorder}
      PROVE  <<"recv", t, "none">> \in SeenPlaces <=> t[1] \in {"Compress", "Reorder"}
  BY PlaceOf DEF SeenPlaces
<1>4. <<"tree", 0, "none">> \in SeenPlaces /\ <<"writing", 0, "none">> \in SeenPlaces
  BY PlaceOf DEF SeenPlaces
<1>5. SeenPlaces \in SUBSET Places
  BY DEF SeenPlaces
<1> QED
  BY <1>1, <1>2, <1>3, <1>4, <1>5

LEMMA SeenAfter ==
  ASSUME conf' = conf
  PROVE  Held' = HeldAt(Holding', Places) /\ Seen' = HeldAt(Holding', SeenPlaces)
<1>1. Places' = Places
  BY Same
<1>2. SeenPlaces' = SeenPlaces
  BY <1>1 DEF SeenPlaces
<1> QED
  BY <1>1, <1>2 DEF Held, Seen, HeldAt
-----------------------------------------------------------------------------
(* What each kind of step can add to the chunks at some places. *)

LEMMA PartsIn ==
  ASSUME NEW s \in Seq(Chunks), NEW n \in 0..Len(s), NEW N, \A i \in DOMAIN s : s[i] \in N
  PROVE  /\ \A i \in DOMAIN First(s, n) : First(s, n)[i] \in N
         /\ \A i \in DOMAIN Rest(s, n) : Rest(s, n)[i] \in N
<1>1. /\ First(s, n) \in Seq(Chunks) /\ Len(First(s, n)) = n
      /\ \A i \in 1..n : First(s, n)[i] = s[i]
      /\ Rest(s, n) \in Seq(Chunks) /\ Len(Rest(s, n)) = Len(s) - n
      /\ \A i \in 1..(Len(s) - n) : Rest(s, n)[i] = s[n + i]
  BY ChunkPieces
<1>2. DOMAIN First(s, n) = 1..n /\ DOMAIN Rest(s, n) = 1..(Len(s) - n) /\ DOMAIN s = 1..Len(s)
  BY <1>1
<1>3. \A i \in 1..n : i \in DOMAIN s
  BY <1>2
<1>4. \A i \in 1..(Len(s) - n) : n + i \in DOMAIN s
  BY <1>2
<1>5. \A i \in DOMAIN First(s, n) : First(s, n)[i] \in N
  BY <1>1, <1>2, <1>3
<1>6. \A i \in DOMAIN Rest(s, n) : Rest(s, n)[i] \in N
  BY <1>1, <1>2, <1>4
<1> QED
  BY <1>5, <1>6

LEMMA JoinIn ==
  ASSUME NEW s \in Seq(Chunks), NEW r \in Seq(Chunks), NEW N,
         \A i \in DOMAIN s : s[i] \in N, \A i \in DOMAIN r : r[i] \in N
  PROVE  \A i \in DOMAIN (s \o r) : (s \o r)[i] \in N
OBVIOUS

\* nothing moves
LEMMA StillHeld ==
  ASSUME UNCHANGED <<conf, que, send_buf, recv_buf, tree, writing>>
  PROVE  Held' = Held /\ Seen' = Seen
<1>1. Places' = Places
  BY Same
<1>2. Holding' = Hold(que', send_buf', recv_buf', tree', writing')
  BY <1>1 DEF Holding, Hold
<1>3. Holding' = Holding
  BY <1>2 DEF Holding
<1> QED
  BY <1>3, SeenAfter DEF Held, Seen

LEMMA FetchHeld ==
  ASSUME Typed, NEW S \in SUBSET Places,
         NEW t \in Pool \union {Reorder}, NEW s \in Queues, NEW q \in Q, Dequeue(t, s, q),
         <<"recv", t, "none">> \in S => <<"que", q, s>> \in S,
         UNCHANGED <<conf, send_buf, tree, writing>>
  PROVE  HeldAt(Holding', S) \subseteq HeldAt(Holding, S)
<1> DEFINE n == Least(Len(que[s][q]), conf.FETCH)
           N == HeldAt(Holding, S)
<1>1. conf.FETCH \in Nat /\ que[s][q] \in Seq(Chunks)
  BY ConfFacts DEF Typed
<1>2. n \in 0..Len(que[s][q])
  BY <1>1 DEF Least
<1>3. que' = [que EXCEPT ![s][q] = Rest(@, n)]
      /\ recv_buf' = [recv_buf EXCEPT ![t] = First(que[s][q], n)]
  BY DEF Dequeue
<1> HIDE DEF n
<1>4. /\ \A r \in Queues, p \in Q :
           que'[r][p] = IF r = s /\ p = q THEN Rest(que[s][q], n) ELSE que[r][p]
      /\ \A u \in Pool \union {Reorder} :
           recv_buf'[u] = IF u = t THEN First(que[s][q], n) ELSE recv_buf[u]
  BY <1>3 DEF Typed
<1>5. Within(S, N, que, send_buf, recv_buf, tree, writing)
  BY WithinHeld
<1> HIDE DEF N
<1>6. <<"que", q, s>> \in S =>
        /\ \A i \in DOMAIN Rest(que[s][q], n) : Rest(que[s][q], n)[i] \in N
        /\ \A i \in DOMAIN First(que[s][q], n) : First(que[s][q], n)[i] \in N
  <2>1. <<"que", q, s>> \in S => \A i \in DOMAIN que[s][q] : que[s][q][i] \in N
    BY <1>5 DEF Within
  <2> QED
    BY <1>1, <1>2, <2>1, PartsIn
<1>7. Within(S, N, que', send_buf', recv_buf', tree', writing')
  BY <1>4, <1>5, <1>6 DEF Within
<1> QED
  BY <1>7, HeldWithin DEF N

LEMMA EnqueueHeld ==
  ASSUME Typed, NEW S \in SUBSET Places, NEW t \in Pool \union {Fragment}, Enqueue(t),
         \A q \in Q, s \in Queues : <<"que", q, s>> \in S <=> <<"send", t, s>> \in S
  PROVE  HeldAt(Holding', S) \subseteq HeldAt(Holding, S)
<1> DEFINE q == QidOf(t)
           N == HeldAt(Holding, S)
<1>1. PICK s \in Outputs[t[1]] :
        LET n == Least(Len(send_buf[t][s]), conf.QUEUE_SIZE - Len(que[s][q]))
        IN  /\ Len(que[s][q]) < conf.QUEUE_SIZE
            /\ que' = [que EXCEPT ![s][q] = @ \o First(send_buf[t][s], n)]
            /\ send_buf' = [send_buf EXCEPT ![t][s] = Rest(@, n)]
  BY DEF Enqueue
<1> DEFINE n == Least(Len(send_buf[t][s]), conf.QUEUE_SIZE - Len(que[s][q]))
<1>2. UNCHANGED <<conf, recv_buf, tree, writing>>
  BY DEF Enqueue, reorderVars
<1>3. q \in Q /\ s \in Queues
  BY SenderFacts
<1> HIDE DEF q
<1>4. send_buf[t][s] \in Seq(Chunks) /\ que[s][q] \in Seq(Chunks) /\ conf.QUEUE_SIZE \in Nat
  <2>1. send_buf[t] \in [Queues -> Seq(Chunks)] /\ que[s] \in [Q -> Seq(Chunks)] /\ conf \in Confs
    BY <1>3 DEF Typed
  <2> QED
    BY <1>3, <2>1, ConfFacts
<1>5. n \in 0..Len(send_buf[t][s])
  <2>1. ASSUME NEW i \in Nat, NEW j \in Nat, NEW k \in Nat, j < k
        PROVE  Least(i, k - j) \in 0..i
    BY <2>1 DEF Least
  <2>2. Len(send_buf[t][s]) \in Nat /\ Len(que[s][q]) \in Nat
    BY <1>4
  <2> QED
    BY <1>1, <1>4, <2>1, <2>2
<1>6. que' = [que EXCEPT ![s][q] = @ \o First(send_buf[t][s], n)]
      /\ send_buf' = [send_buf EXCEPT ![t][s] = Rest(@, n)]
  BY <1>1
<1> HIDE DEF n
<1>7. /\ \A r \in Queues, p \in Q : que'[r][p] =
           IF r = s /\ p = q THEN que[s][q] \o First(send_buf[t][s], n) ELSE que[r][p]
      /\ \A u \in Pool \union {Fragment}, r \in Queues :
           send_buf'[u][r] = IF u = t /\ r = s THEN Rest(send_buf[t][s], n) ELSE send_buf[u][r]
  BY <1>3, <1>6 DEF Typed
<1>8. Within(S, N, que, send_buf, recv_buf, tree, writing)
  BY WithinHeld
<1> HIDE DEF N
<1>9. <<"send", t, s>> \in S =>
        /\ \A i \in DOMAIN Rest(send_buf[t][s], n) : Rest(send_buf[t][s], n)[i] \in N
        /\ \A i \in DOMAIN (que[s][q] \o First(send_buf[t][s], n)) :
             (que[s][q] \o First(send_buf[t][s], n))[i] \in N
  <2> SUFFICES ASSUME <<"send", t, s>> \in S
               PROVE  /\ \A i \in DOMAIN Rest(send_buf[t][s], n) : Rest(send_buf[t][s], n)[i] \in N
                      /\ \A i \in DOMAIN (que[s][q] \o First(send_buf[t][s], n)) :
                           (que[s][q] \o First(send_buf[t][s], n))[i] \in N
    OBVIOUS
  <2>1. /\ \A i \in DOMAIN que[s][q] : que[s][q][i] \in N
        /\ \A i \in DOMAIN send_buf[t][s] : send_buf[t][s][i] \in N
    BY <1>3, <1>8 DEF Within
  <2>2. /\ \A i \in DOMAIN Rest(send_buf[t][s], n) : Rest(send_buf[t][s], n)[i] \in N
        /\ \A i \in DOMAIN First(send_buf[t][s], n) : First(send_buf[t][s], n)[i] \in N
        /\ First(send_buf[t][s], n) \in Seq(Chunks)
    BY <1>4, <1>5, <2>1, PartsIn, ChunkPieces
  <2> QED
    BY <1>4, <2>1, <2>2, JoinIn
<1>10. ASSUME NEW p \in Q, NEW r \in Queues, <<"que", p, r>> \in S, NEW i \in DOMAIN que'[r][p]
       PROVE  que'[r][p][i] \in N
  <2>1. CASE r = s /\ p = q
    BY <1>3, <1>7, <1>9, <1>10, <2>1
  <2>2. CASE ~(r = s /\ p = q)
    <3>1. que'[r][p] = que[r][p]
      BY <1>7, <2>2
    <3> QED
      BY <1>8, <1>10, <3>1 DEF Within
  <2> QED
    BY <2>1, <2>2
<1>11. ASSUME NEW u \in Pool \union {Fragment}, NEW r \in Queues, <<"send", u, r>> \in S,
              NEW i \in DOMAIN send_buf'[u][r]
       PROVE  send_buf'[u][r][i] \in N
  <2>1. CASE u = t /\ r = s
    BY <1>3, <1>7, <1>9, <1>11, <2>1
  <2>2. CASE ~(u = t /\ r = s)
    <3>1. send_buf'[u][r] = send_buf[u][r]
      BY <1>7, <2>2
    <3> QED
      BY <1>8, <1>11, <3>1 DEF Within
  <2> QED
    BY <2>1, <2>2
<1>12. Within(S, N, que', send_buf', recv_buf', tree', writing')
  BY <1>2, <1>8, <1>10, <1>11 DEF Within
<1> QED
  BY <1>2, <1>12, HeldWithin DEF N

\* c goes into a send buffer, and a receive buffer loses or changes its first chunk
LEMMA SendHeld ==
  ASSUME Steady, NEW S \in SUBSET Places, NEW t \in Pool \union {Fragment},
         NEW s \in Outputs[t[1]], NEW c \in Chunks, NEW N,
         Idle(t), pc[t] \notin {"drain", "done"}, Send(t, s, c),
         HeldAt(Holding, S) \subseteq N,
         <<"send", t, s>> \in S => c \in N,
         \A u \in Pool \union {Reorder} : <<"recv", u, "none">> \in S =>
           \A i \in DOMAIN recv_buf'[u] : recv_buf'[u][i] \in N,
         UNCHANGED <<conf, que, tree, writing>>
  PROVE  HeldAt(Holding', S) \subseteq N
<1> DEFINE sb == send_buf[t][s]
<1>1. /\ s \in Queues
      /\ \A u \in Pool \union {Fragment}, r \in Queues :
           send_buf'[u][r] = IF u = t /\ r = s THEN Append(sb, c) ELSE send_buf[u][r]
  BY Sends
<1>2. sb \in Seq(Chunks)
  <2>1. send_buf[t] \in [Queues -> Seq(Chunks)]
    BY DEF Steady, Typed
  <2> QED
    BY <1>1, <2>1
<1>3. Within(S, N, que, send_buf, recv_buf, tree, writing)
  BY WithinHeld DEF Within
<1>4. <<"send", t, s>> \in S => \A i \in DOMAIN Append(sb, c) : Append(sb, c)[i] \in N
  <2>1. <<"send", t, s>> \in S => \A i \in DOMAIN sb : sb[i] \in N
    BY <1>1, <1>3 DEF Within
  <2> HIDE DEF sb
  <2> QED
    BY <1>2, <2>1
<1> HIDE DEF sb
<1>5. ASSUME NEW u \in Pool \union {Fragment}, NEW r \in Queues, <<"send", u, r>> \in S,
             NEW i \in DOMAIN send_buf'[u][r]
      PROVE  send_buf'[u][r][i] \in N
  <2>1. CASE u = t /\ r = s
    BY <1>1, <1>4, <1>5, <2>1
  <2>2. CASE ~(u = t /\ r = s)
    <3>1. send_buf'[u][r] = send_buf[u][r]
      BY <1>1, <2>2
    <3> QED
      BY <1>3, <1>5, <3>1 DEF Within
  <2> QED
    BY <2>1, <2>2
<1>6. Within(S, N, que', send_buf', recv_buf', tree', writing')
  BY <1>3, <1>5 DEF Within
<1> QED
  BY <1>6, HeldWithin

LEMMA TakeHeld ==
  ASSUME Typed, ReorderTake, NEW S \in SUBSET Places, <<"recv", Reorder, "none">> \in S
  PROVE  HeldAt(Holding', S) \subseteq HeldAt(Holding, S)
<1> DEFINE N == HeldAt(Holding, S)
           r == recv_buf[Reorder]
           c == Head(r)
<1>1. /\ r # <<>> /\ UNCHANGED <<conf, que, send_buf>>
      /\ recv_buf' = [recv_buf EXCEPT ![Reorder] = Tail(r)]
      /\ tree' \subseteq tree \union {c}
      /\ writing' = writing \/ writing' = <<c>> \/ writing' = <<>>
  BY TakeFacts
<1>2. /\ r \in Seq(Chunks) /\ c = r[1] /\ 1 \in DOMAIN r
      /\ Tail(r) \in Seq(Chunks) /\ Len(Tail(r)) = Len(r) - 1
      /\ \A i \in 1..(Len(r) - 1) : Tail(r)[i] = r[i + 1]
  BY <1>1, HeadOf
<1>3. Within(S, N, que, send_buf, recv_buf, tree, writing)
  BY WithinHeld
<1>4. \A i \in DOMAIN r : r[i] \in N
  BY <1>3 DEF Within
<1>5. \A u \in Pool \union {Reorder} : recv_buf'[u] = IF u = Reorder THEN Tail(r) ELSE recv_buf[u]
  BY <1>1 DEF Typed
<1> HIDE DEF N, r, c
<1>6. c \in N /\ \A i \in DOMAIN Tail(r) : Tail(r)[i] \in N
  BY <1>2, <1>4
<1>7. <<"writing", 0, "none">> \in S => \A i \in DOMAIN writing' : writing'[i] \in N
  BY <1>1, <1>3, <1>6 DEF Within
<1>8. Within(S, N, que', send_buf', recv_buf', tree', writing')
  BY <1>1, <1>3, <1>5, <1>6, <1>7 DEF Within
<1> QED
  BY <1>1, <1>8, HeldWithin DEF N

LEMMA WriteHeld ==
  ASSUME Typed, WriteChunk, NEW S \in SUBSET Places, <<"tree", 0, "none">> \in S
  PROVE  HeldAt(Holding', S) \subseteq HeldAt(Holding, S)
<1> DEFINE N == HeldAt(Holding, S)
<1>1. /\ UNCHANGED <<conf, que, send_buf, recv_buf>>
      /\ tree' \subseteq tree
      /\ writing' = <<>> \/ \E d \in tree : writing' = <<d>>
  BY WriteFacts DEF Ready
<1>2. Within(S, N, que, send_buf, recv_buf, tree, writing)
  BY WithinHeld
<1> HIDE DEF N
<1>3. \A i \in DOMAIN writing' : writing'[i] \in N
  BY <1>1, <1>2 DEF Within
<1>4. Within(S, N, que', send_buf', recv_buf', tree', writing')
  BY <1>1, <1>2, <1>3 DEF Within
<1> QED
  BY <1>1, <1>4, HeldWithin DEF N
-----------------------------------------------------------------------------
(* The bytes of the records, and parts of the file. *)
LEMMA BytesAppend ==
  ASSUME NEW R, NEW s \in Seq(R), NEW r \in R, NEW n \in Nat, Len(r.content) = n,
         IsFiniteSet(Described(s))
  PROVE  /\ IsFiniteSet(Described(Append(s, r)))
         /\ Bytes(Append(s, r)) = Bytes(s) + n
<1> DEFINE k == Len(s) + 1
           o == Append(s, r)
           Row(q, i) == {i} \X (1..Len(q[i].content))
           new == {k} \X (1..n)
<1>1. /\ DOMAIN s = 1..Len(s) /\ Len(s) \in Nat /\ DOMAIN o = DOMAIN s \union {k}
      /\ o[k] = r /\ \A i \in DOMAIN s : o[i] = s[i] /\ i # k
  OBVIOUS
<1>2. /\ Described(s) = UNION {Row(s, i) : i \in DOMAIN s}
      /\ Described(o) = UNION {Row(o, i) : i \in DOMAIN o}
  BY DEF Described
<1>3. Row(o, k) = new /\ \A i \in DOMAIN s : Row(o, i) = Row(s, i)
  BY <1>1
<1> HIDE DEF o, k
<1>4. Described(o) = Described(s) \union new
  <2> HIDE DEF new, Row
  <2> QED
    BY <1>1, <1>2, <1>3
<1>5. Described(s) \intersect new = {}
  <2>1. ASSUME NEW e \in Described(s) PROVE e \notin new
    <3>1. PICK i \in DOMAIN s : e \in Row(s, i)
      BY <1>2
    <3>2. e[1] = i /\ i # k
      BY <1>1, <3>1
    <3> QED
      BY <3>2
  <2> QED
    BY <2>1
<1>6. IsFiniteSet(new) /\ Cardinality(new) = n
  <2>1. IsFiniteSet({k}) /\ Cardinality({k}) = 1
    BY FS_Singleton
  <2>2. IsFiniteSet(1..n) /\ Cardinality(1..n) = n
    <3>1. 1 \in Int /\ n \in Int
      OBVIOUS
    <3>2. IsFiniteSet(1..n) /\ Cardinality(1..n) = IF 1 > n THEN 0 ELSE n - 1 + 1
      BY <3>1, FS_Interval
    <3> QED
      BY <3>2
  <2>3. IsFiniteSet({k} \X (1..n)) /\ Cardinality({k} \X (1..n)) = Cardinality({k}) * Cardinality(1..n)
    BY <2>1, <2>2, FS_Product
  <2> QED
    BY <2>1, <2>2, <2>3
<1> HIDE DEF new
<1>7. /\ IsFiniteSet(Described(s) \union new)
      /\ Cardinality(Described(s) \union new)
           = Cardinality(Described(s)) + Cardinality(new) - Cardinality(Described(s) \intersect new)
  BY <1>6, FS_Union
<1>8. Cardinality({}) = 0 /\ Cardinality(Described(s)) \in Nat
  BY FS_EmptySet, FS_CardinalityType
<1>9. IsFiniteSet(Described(o)) /\ Cardinality(Described(o)) = Cardinality(Described(s)) + n
  <2>1. Cardinality(Described(s) \union new) = Cardinality(Described(s)) + n - 0
    BY <1>5, <1>6, <1>7, <1>8
  <2> QED
    BY <1>4, <1>7, <1>8, <2>1
<1> QED
  BY <1>9 DEF Bytes, o

LEMMA NoBytes == Described(<<>>) = {} /\ IsFiniteSet(Described(<<>>)) /\ Bytes(<<>>) = 0
<1>1. Described(<<>>) = {}
  BY DEF Described
<1> QED
  BY <1>1, FS_EmptySet DEF Bytes

\* the part of f behind its first i elements, up to its j-th
LEMMA PartOf ==
  ASSUME NEW A, NEW f \in Seq(A), NEW i \in Nat, NEW j \in i..Len(f)
  PROVE  /\ SubSeq(f, i + 1, j) \in Seq(A) /\ Len(SubSeq(f, i + 1, j)) = j - i
         /\ \A k \in 1..(j - i) : SubSeq(f, i + 1, j)[k] = f[i + k]
OBVIOUS

LEMMA SameSeq ==
  ASSUME NEW A, NEW s \in Seq(A), NEW r \in Seq(A), Len(s) = Len(r),
         \A k \in 1..Len(s) : s[k] = r[k]
  PROVE  s = r
OBVIOUS

LEMMA PartCut ==
  ASSUME NEW A, NEW f \in Seq(A), NEW i \in Nat, NEW j \in i..Len(f), NEW n \in 0..(j - i)
  PROVE  /\ First(SubSeq(f, i + 1, j), n) = SubSeq(f, i + 1, i + n)
         /\ Rest(SubSeq(f, i + 1, j), n) = SubSeq(f, i + n + 1, j)
<1> DEFINE s == SubSeq(f, i + 1, j)
           p == SubSeq(f, i + 1, i + n)
           r == SubSeq(f, i + n + 1, j)
           m == i + n
<1>1. s \in Seq(A) /\ Len(s) = j - i /\ \A k \in 1..(j - i) : s[k] = f[i + k]
  BY PartOf
<1>2. m \in i..Len(f) /\ m \in Nat /\ j \in m..Len(f) /\ n \in 0..Len(s)
  BY <1>1
<1>3. p \in Seq(A) /\ Len(p) = n /\ \A k \in 1..n : p[k] = f[i + k]
  <2>1. /\ SubSeq(f, i + 1, m) \in Seq(A) /\ Len(SubSeq(f, i + 1, m)) = m - i
        /\ \A k \in 1..(m - i) : SubSeq(f, i + 1, m)[k] = f[i + k]
    BY <1>2, PartOf
  <2> QED
    BY <2>1
<1>4. r \in Seq(A) /\ Len(r) = j - m /\ \A k \in 1..(j - m) : r[k] = f[m + k]
  BY <1>2, PartOf
<1> HIDE DEF s, p, r
<1>5. /\ First(s, n) \in Seq(A) /\ Len(First(s, n)) = n
      /\ \A k \in 1..n : First(s, n)[k] = s[k]
      /\ Rest(s, n) \in Seq(A) /\ Len(Rest(s, n)) = Len(s) - n
      /\ \A k \in 1..(Len(s) - n) : Rest(s, n)[k] = s[n + k]
  BY <1>1, <1>2, Pieces
<1>6. First(s, n) = p
  <2>1. \A k \in 1..n : First(s, n)[k] = p[k]
    <3> TAKE k \in 1..n
    <3>1. k \in 1..(j - i)
      OBVIOUS
    <3> QED
      BY <1>1, <1>3, <1>5, <3>1
  <2> QED
    BY <1>3, <1>5, <2>1, SameSeq
<1>7. Rest(s, n) = r
  <2>1. \A k \in 1..(j - m) : Rest(s, n)[k] = r[k]
    <3> TAKE k \in 1..(j - m)
    <3>1. k \in 1..(Len(s) - n) /\ n + k \in 1..(j - i) /\ m + k = i + (n + k)
      BY <1>1
    <3> QED
      BY <1>1, <1>4, <1>5, <3>1
  <2>2. Len(Rest(s, n)) = j - m
    BY <1>1, <1>5
  <2> QED
    BY <1>4, <1>5, <2>1, <2>2, SameSeq
<1> QED
  BY <1>6, <1>7 DEF s, p, r

LEMMA JoinOf ==
  ASSUME NEW A, NEW s \in Seq(A), NEW r \in Seq(A)
  PROVE  /\ s \o r \in Seq(A) /\ Len(s \o r) = Len(s) + Len(r)
         /\ \A k \in 1..Len(s) : (s \o r)[k] = s[k]
         /\ \A k \in 1..Len(r) : (s \o r)[Len(s) + k] = r[k]
OBVIOUS

LEMMA PartJoin ==
  ASSUME NEW A, NEW f \in Seq(A), NEW i \in Nat, NEW m \in i..Len(f), NEW j \in m..Len(f)
  PROVE  SubSeq(f, i + 1, m) \o SubSeq(f, m + 1, j) = SubSeq(f, i + 1, j)
<1> DEFINE p == SubSeq(f, i + 1, m)
           r == SubSeq(f, m + 1, j)
           s == SubSeq(f, i + 1, j)
<1>1. p \in Seq(A) /\ Len(p) = m - i /\ \A k \in 1..(m - i) : p[k] = f[i + k]
  BY PartOf
<1>2. r \in Seq(A) /\ Len(r) = j - m /\ \A k \in 1..(j - m) : r[k] = f[m + k]
  BY PartOf
<1>3. s \in Seq(A) /\ Len(s) = j - i /\ \A k \in 1..(j - i) : s[k] = f[i + k]
  BY PartOf
<1> HIDE DEF p, r, s
<1>4. /\ p \o r \in Seq(A) /\ Len(p \o r) = Len(p) + Len(r)
      /\ \A k \in 1..Len(p) : (p \o r)[k] = p[k]
      /\ \A k \in 1..Len(r) : (p \o r)[Len(p) + k] = r[k]
  <2>1. p \in Seq(A) /\ r \in Seq(A)
    BY <1>1, <1>2
  <2> QED
    BY <2>1, JoinOf
<1>5. \A k \in 1..(j - i) : (p \o r)[k] = s[k]
  <2> TAKE k \in 1..(j - i)
  <2>1. CASE k <= m - i
    <3>1. k \in 1..(m - i)
      BY <2>1
    <3> QED
      BY <1>1, <1>3, <1>4, <3>1
  <2>2. CASE ~(k <= m - i)
    <3>1. PICK l \in 1..(j - m) : k = (m - i) + l
      <4>1. k - (m - i) \in 1..(j - m) /\ k = (m - i) + (k - (m - i))
        BY <2>2
      <4> QED
        BY <4>1
    <3>2. (p \o r)[k] = r[l] /\ r[l] = f[m + l] /\ m + l = i + k
      BY <1>1, <1>2, <1>4, <3>1
    <3> QED
      BY <1>3, <3>2
  <2> QED
    BY <2>1, <2>2
<1>6. Len(p \o r) = j - i
  BY <1>1, <1>2, <1>4
<1>7. p \o r = s
  BY <1>3, <1>4, <1>5, <1>6, SameSeq
<1> QED
  BY <1>7 DEF p, r, s

\* what is read is the part of the file behind what has been read
LEMMA FreshPart ==
  ASSUME Typed
  PROVE  Fresh = SubSeq(conf.file, seek + 1, seek + Len(Fresh))
<1> DEFINE f == conf.file
           m == conf.MAXBUF
           b == IF seek + m < Len(f) THEN seek + m ELSE Len(f)
<1>1. f \in Seq(Alphabet) /\ m \in Nat /\ seek \in 0..Len(f)
  <2>1. conf \in Confs /\ seek \in 0..Len(f)
    BY DEF Typed
  <2> QED
    BY <2>1, ConfFacts
<1>2. Fresh = SubSeq(f, seek + 1, b)
  BY DEF Fresh, NextBytes
<1> HIDE DEF f, m
<1>3. b \in seek..Len(f) /\ seek \in Nat
  BY <1>1
<1> HIDE DEF b
<1>4. Len(Fresh) = b - seek
  BY <1>1, <1>2, <1>3, PartOf
<1> QED
  BY <1>2, <1>3, <1>4 DEF f
-----------------------------------------------------------------------------
(* The hash table, step by step. *)

\* no chunk is written, and those that come behind Deduplicate are in the table
LEMMA CachedKept ==
  ASSUME Typed, Cached, out' = out, NEW N, Seen' \subseteq Seen \union N,
         \A c \in N : c.content \in DOMAIN cache',
         DOMAIN cache \subseteq DOMAIN cache',
         \A b \in DOMAIN cache' :
           cache'[b] = "FLUSHED" <=> b \in DOMAIN cache /\ cache[b] = "FLUSHED"
  PROVE  Cached'
<1>1. \A c \in Seen' : c.content \in DOMAIN cache'
  BY DEF Cached
<1>2. \A i \in DOMAIN out : out[i].content \in DOMAIN cache
  BY DEF Cached
<1>3. ASSUME NEW b \in DOMAIN cache'
      PROVE  cache'[b] = "FLUSHED" <=> HasData(out, b)
  <2>1. HasData(out, b) => b \in DOMAIN cache
    <3>1. DOMAIN out = 1..Len(out)
      BY DEF Typed
    <3> QED
      BY <1>2, <3>1 DEF HasData, Data
  <2> QED
    BY <1>3, <2>1 DEF Cached
<1>4. \A i \in DOMAIN out' : out'[i].content \in DOMAIN cache'
  BY <1>2
<1> QED
  BY <1>1, <1>3, <1>4 DEF Cached, HasData

\* a step that leaves the hash table alone and takes nothing past Deduplicate
LEMMA CachedStill ==
  ASSUME Cached, UNCHANGED <<cache, out>>, Seen' \subseteq Seen
  PROVE  Cached'
BY DEF Cached, HasData

LEMMA CachedWrite ==
  ASSUME Steady, Cached, WriteChunk
  PROVE  Cached'
<1> DEFINE w == writing[1]
           b == w.content
           r == IF cache[b] = "COMPRESSED" THEN Data(b) ELSE Fingerprint(b)
           k == Len(out) + 1
<1>0. Typed
  BY DEF Steady
<1>1. /\ cache[b] # "UNCOMPRESSED" /\ out' = Append(out, r)
      /\ cache' = [cache EXCEPT ![b] = "FLUSHED"] /\ 1 \in DOMAIN writing
      /\ conf' = conf
  BY <1>0, WriteFacts DEF WriteChunk
<1>2. w \in Seen
  BY <1>1, WithinHeld, SeenPlace DEF Within, Seen
<1>3. Seen' \subseteq Seen
  BY <1>0, <1>1, SeenPlace, SeenAfter, WriteHeld DEF Seen
<1> HIDE DEF w, b
<1>4. b \in DOMAIN cache
  BY <1>2 DEF Cached, b
<1>5. cache[b] \in {"COMPRESSED", "FLUSHED"}
  BY <1>0, <1>1, <1>4 DEF Typed
<1>6. DOMAIN cache' = DOMAIN cache
      /\ \A x \in DOMAIN cache : cache'[x] = IF x = b THEN "FLUSHED" ELSE cache[x]
  BY <1>1
<1>7. /\ Len(out') = k /\ out'[k] = r /\ Len(out) \in Nat
      /\ \A i \in 1..Len(out) : out'[i] = out[i]
      /\ DOMAIN out' = 1..k /\ DOMAIN out = 1..Len(out)
  BY <1>0, <1>1 DEF Typed
<1>8. r.content = b /\ (\A x : r = Data(x) <=> x = b /\ cache[b] = "COMPRESSED")
  BY DEF Data, Fingerprint
<1> HIDE DEF r
<1>9. ASSUME NEW x
      PROVE  HasData(out', x) <=> HasData(out, x) \/ (x = b /\ cache[b] = "COMPRESSED")
  <2>1. HasData(out', x) => HasData(out, x) \/ r = Data(x)
    BY <1>7 DEF HasData
  <2>2. HasData(out, x) => HasData(out', x)
    BY <1>7 DEF HasData
  <2>3. r = Data(x) => HasData(out', x)
    BY <1>7 DEF HasData
  <2> QED
    BY <1>8, <2>1, <2>2, <2>3
<1>10. \A c \in Seen' : c.content \in DOMAIN cache'
  BY <1>3, <1>6 DEF Cached
<1>11. \A x \in DOMAIN cache' : cache'[x] = "FLUSHED" <=> HasData(out', x)
  <2> TAKE x \in DOMAIN cache'
  <2>1. cache[x] = "FLUSHED" <=> HasData(out, x)
    BY <1>6 DEF Cached
  <2> QED
    BY <1>4, <1>5, <1>6, <1>9, <2>1
<1>12. \A i \in DOMAIN out' : out'[i].content \in DOMAIN cache'
  <2>1. \A i \in 1..Len(out) : out[i].content \in DOMAIN cache
    BY <1>7 DEF Cached
  <2> TAKE i \in DOMAIN out'
  <2>2. i = k \/ i \in 1..Len(out)
    BY <1>7
  <2> QED
    BY <1>4, <1>6, <1>7, <1>8, <2>1, <2>2
<1> QED
  BY <1>10, <1>11, <1>12 DEF Cached, HasData
-----------------------------------------------------------------------------
(* Where the chunks lie, step by step. *)
LEMMA LaidWith ==
  ASSUME conf' = conf, NEW start \in Starts,
         \A c \in Held' : Lies(c, start, conf.file),
         IsFiniteSet(Described(out')),
         start[<<next'.l1, next'.l2>>] = Bytes(out'),
         Reading' =>
           /\ start[<<chunk'.l1, 0>>] + Len(chunk'.content) = seek'
           /\ chunk'.content = SubSeq(conf.file, start[<<chunk'.l1, 0>>] + 1, seek')
  PROVE  Laid'
<1>1. Starts' = Starts
  BY DEF Starts
<1>2. Placed(start)'
  BY DEF Placed, Lies, Bytes, Described
<1>3. IsFiniteSet(Described(out))'
  BY DEF Described
<1> QED
  BY <1>1, <1>2, <1>3 DEF Laid

LEMMA LaidStill ==
  ASSUME Laid, UNCHANGED <<conf, out, next>>, Held' \subseteq Held,
         Reading' => Reading /\ chunk' = chunk /\ seek' = seek
  PROVE  Laid'
<1>1. PICK start \in Starts : Placed(start)
  BY DEF Laid
<1>2. \A c \in Held' : Lies(c, start, conf.file)
  BY <1>1 DEF Placed
<1>3. IsFiniteSet(Described(out')) /\ start[<<next'.l1, next'.l2>>] = Bytes(out')
  BY <1>1 DEF Placed, Laid
<1>4. Reading' =>
           /\ start[<<chunk'.l1, 0>>] + Len(chunk'.content) = seek'
           /\ chunk'.content = SubSeq(conf.file, start[<<chunk'.l1, 0>>] + 1, seek')
  BY <1>1 DEF Placed
<1> QED
  BY <1>1, <1>2, <1>3, <1>4, LaidWith

LEMMA HeldRange ==
  ASSUME Typed
  PROVE  Held \in SUBSET Chunks /\ Held = Rough \union Fine
         /\ \A c \in Held : At(c) \in Nat \X Nat /\ After(c) \in Nat \X Nat
<1>1. Held \in SUBSET Chunks /\ Held = Rough \union Fine
  BY HeldChunks DEF Held
<1> QED
  BY <1>1 DEF At, After, Chunks

\* a chunk still lies where it did if start has changed for none of its ends
LEMMA LiesStill ==
  ASSUME NEW c, NEW f, NEW start, NEW begin, Lies(c, start, f),
         begin[At(c)] = start[At(c)], begin[After(c)] = start[After(c)]
  PROVE  Lies(c, begin, f)
BY DEF Lies

\* Fragment makes a coarse chunk of the first n bytes it has
LEMMA CreateLaid ==
  ASSUME Steady, Chained, Laid, Reading, NEW n \in 1..Len(chunk.content), NEW c,
         c = [l1 |-> chunk.l1, l2 |-> 0, last |-> TRUE, content |-> First(chunk.content, n)],
         Held' \subseteq Held \union {c}, UNCHANGED <<conf, out, next, seek>>,
         Reading' => chunk' = [l1 |-> chunk.l1 + 1, content |-> Rest(chunk.content, n)]
  PROVE  Laid'
<1> DEFINE f == conf.file
           k == chunk.l1
           o == <<k, 0>>
           e == <<k + 1, 0>>
<1>0. Typed
  BY DEF Steady
<1>1. PICK start \in Starts : Placed(start)
  BY DEF Laid
<1>2. f \in Seq(Alphabet) /\ Len(f) \in Nat /\ k \in Nat /\ seek \in 0..Len(f)
      /\ start \in [Nat \X Nat -> 0..Len(f)] /\ o \in Nat \X Nat /\ e \in Nat \X Nat
  <2>1. conf \in Confs /\ k \in Nat /\ seek \in 0..Len(f)
    BY <1>0 DEF Typed
  <2>2. f \in Seq(Alphabet)
    BY <2>1, ConfFacts
  <2> QED
    BY <2>1, <2>2 DEF Starts
<1> DEFINE i == start[o]
<1> HIDE DEF f, k, o, e
<1>3. i \in Nat /\ chunk.content = SubSeq(f, i + 1, seek) /\ i + Len(chunk.content) = seek
      /\ seek \in i..Len(f) /\ n \in 0..(seek - i) /\ i + n \in 0..Len(f) /\ n > 0
  <2>1. chunk.content \in Seq(Alphabet) /\ Len(chunk.content) \in Nat
    BY <1>0 DEF Typed
  <2>2. chunk.content = SubSeq(f, i + 1, seek) /\ i + Len(chunk.content) = seek
    BY <1>1 DEF Placed, f, o, k
  <2>3. i \in 0..Len(f)
    BY <1>2
  <2> HIDE DEF i
  <2> QED
    BY <1>2, <2>1, <2>2, <2>3
<1> HIDE DEF i
<1>4. /\ First(chunk.content, n) = SubSeq(f, i + 1, i + n)
      /\ Rest(chunk.content, n) = SubSeq(f, i + n + 1, seek)
  <2>1. f \in Seq(Alphabet) /\ i \in Nat /\ seek \in i..Len(f) /\ n \in 0..(seek - i)
    BY <1>2, <1>3
  <2>2. /\ First(SubSeq(f, i + 1, seek), n) = SubSeq(f, i + 1, i + n)
        /\ Rest(SubSeq(f, i + 1, seek), n) = SubSeq(f, i + n + 1, seek)
    BY <2>1, PartCut
  <2> QED
    BY <1>3, <2>2
<1>5. SubSeq(f, i + 1, i + n) # <<>> /\ Len(SubSeq(f, i + 1, i + n)) = n
      /\ Len(SubSeq(f, i + n + 1, seek)) = seek - (i + n)
  <2>1. PICK m \in Nat : m = i + n
    BY <1>3
  <2>2. f \in Seq(Alphabet) /\ i \in Nat /\ m \in i..Len(f) /\ seek \in m..Len(f) /\ m - i = n
    BY <1>2, <1>3, <2>1
  <2>3. Len(SubSeq(f, i + 1, m)) = m - i /\ Len(SubSeq(f, m + 1, seek)) = seek - m
    BY <2>2, PartOf
  <2>4. SubSeq(f, i + 1, m) # <<>>
    <3>1. Len(SubSeq(f, i + 1, m)) # Len(<<>>)
      BY <1>3, <2>2, <2>3
    <3> QED
      BY <3>1
  <2> QED
    BY <2>1, <2>2, <2>3, <2>4
<1> DEFINE begin == [start EXCEPT ![e] = i + n]
<1>6. begin \in Starts /\ begin[e] = i + n /\ \A a \in Nat \X Nat : a # e => begin[a] = start[a]
  <2>1. begin \in [Nat \X Nat -> 0..Len(f)] /\ begin[e] = i + n
        /\ \A a \in Nat \X Nat : a # e => begin[a] = start[a]
    BY <1>2, <1>3
  <2> QED
    BY <2>1 DEF Starts, f
<1>7. /\ \A d \in Held : d.l1 < k
      /\ next.l1 <= k /\ next.l1 \in Nat /\ next.l2 \in Nat
  <2>1. More = {k} /\ Ordered(Rough, Fine, next, chunks_per_anchor, Taken, More)
    BY DEF More, Chained, Numbers, k
  <2>2. next.l1 \in Nat /\ next.l2 \in Nat
    BY <1>0 DEF Typed
  <2>3. Held = Rough \union Fine
    BY <1>0, HeldRange
  <2> QED
    BY <1>2, <2>1, <2>2, <2>3 DEF Ordered, Due1
<1> HIDE DEF begin
<1>8. ASSUME NEW d \in Held PROVE Lies(d, begin, f)
  <2>1. Lies(d, start, f) /\ d \in Chunks /\ At(d) \in Nat \X Nat /\ After(d) \in Nat \X Nat
    BY <1>0, <1>1, HeldRange DEF Placed, f
  <2>2. At(d) # e /\ After(d) # e
    <3>1. d.l1 \in Nat /\ d.l2 \in Nat /\ d.l1 < k
      BY <1>7, <2>1 DEF Chunks
    <3>2. d.l1 # k + 1 /\ d.l1 + 1 # k + 1
      BY <1>2, <3>1
    <3> QED
      BY <3>2 DEF At, After, e
  <2> QED
    BY <1>6, <2>1, <2>2, LiesStill
<1>9. Lies(c, begin, f)
  <2>1. At(c) = o /\ After(c) = e /\ c.content = SubSeq(f, i + 1, i + n)
    BY <1>4 DEF At, After, o, e, k
  <2>2. o # e /\ begin[o] = i
    BY <1>2, <1>6 DEF i, o, e
  <2> QED
    BY <1>5, <1>6, <2>1, <2>2 DEF Lies
<1>10. begin[<<next.l1, next.l2>>] = Bytes(out)
  <2>1. <<next.l1, next.l2>> # e /\ <<next.l1, next.l2>> \in Nat \X Nat
    BY <1>2, <1>7 DEF e
  <2> QED
    BY <1>1, <1>6, <2>1 DEF Placed
<1>11. Reading' =>
           /\ begin[<<chunk'.l1, 0>>] + Len(chunk'.content) = seek'
           /\ chunk'.content = SubSeq(f, begin[<<chunk'.l1, 0>>] + 1, seek')
  <2> SUFFICES ASSUME Reading'
               PROVE  /\ begin[<<chunk'.l1, 0>>] + Len(chunk'.content) = seek'
                      /\ chunk'.content = SubSeq(f, begin[<<chunk'.l1, 0>>] + 1, seek')
    OBVIOUS
  <2>1. chunk'.l1 = k + 1 /\ chunk'.content = SubSeq(f, i + n + 1, seek) /\ seek' = seek
    BY <1>4 DEF k
  <2>2. begin[<<chunk'.l1, 0>>] = i + n
    BY <1>6, <2>1 DEF e
  <2>3. Len(chunk'.content) = seek - (i + n)
    BY <1>5, <2>1
  <2> QED
    BY <1>2, <1>3, <2>1, <2>2, <2>3
<1>12. IsFiniteSet(Described(out')) /\ begin[<<next'.l1, next'.l2>>] = Bytes(out')
  BY <1>10 DEF Laid
<1> QED
  BY <1>6, <1>8, <1>9, <1>11, <1>12, LaidWith DEF f

\* FragmentRefine cuts n bytes, p, off the coarse chunk c; what is left is u
LEMMA CutLaid ==
  ASSUME Steady, Chained, Laid, NEW c \in Held \intersect Rough,
         NEW n \in 1..Len(c.content), NEW p \in Chunks, NEW u \in Chunks,
         p.l1 = c.l1, p.l2 = c.l2, p.last = (n = Len(c.content)),
         p.content = First(c.content, n),
         u.l1 = c.l1, u.l2 = c.l2 + 1, u.last = c.last,
         u.content = Rest(c.content, n),
         Held' \subseteq Held \union (IF n = Len(c.content) THEN {p} ELSE {p, u}),
         UNCHANGED <<conf, pc, chunk, seek, next, out>>
  PROVE  Laid'
<1> DEFINE f == conf.file
           m == Len(c.content)
           b == <<c.l1, c.l2>>
           x == <<c.l1, c.l2 + 1>>
           e == <<c.l1 + 1, 0>>
<1>0. Typed
  BY DEF Steady
<1>1. PICK start \in Starts : Placed(start)
  BY DEF Laid
<1>2. /\ c \in Chunks /\ c.l1 \in Nat /\ c.l2 \in Nat /\ c.content \in Seq(Alphabet)
      /\ m \in Nat /\ c.last \in BOOLEAN
  <2>1. c \in Chunks
    BY <1>0, HeldRange
  <2> QED
    BY <2>1 DEF Chunks
<1>3. /\ c.last
      /\ \A d \in Held : d.l1 = c.l1 => d = c \/ (d.l2 < c.l2 /\ ~d.last)
      /\ Due1(next, c)
  <2>1. Ordered(Rough, Fine, next, chunks_per_anchor, Taken, More) /\ Held = Rough \union Fine
    BY <1>0, HeldRange DEF Chained, Numbers
  <2> QED
    BY <2>1 DEF Ordered, Cut
<1>4. At(c) = b /\ After(c) = e
  BY <1>3 DEF At, After
<1>5. f \in Seq(Alphabet) /\ Len(f) \in Nat /\ start \in [Nat \X Nat -> 0..Len(f)]
  <2>1. conf \in Confs
    BY <1>0 DEF Typed
  <2>2. f \in Seq(Alphabet)
    BY <2>1, ConfFacts
  <2> QED
    BY <2>2 DEF Starts
<1>6. b \in Nat \X Nat /\ x \in Nat \X Nat /\ e \in Nat \X Nat /\ x # b /\ x # e
  BY <1>2
<1> DEFINE i == start[b]
           j == start[e]
<1> HIDE DEF f, m, b, x, e
<1>7. Lies(c, start, f)
  BY <1>1 DEF Placed, f
<1>8. /\ c.content = SubSeq(f, i + 1, j) /\ j = i + m
      /\ i \in 0..Len(f) /\ j \in 0..Len(f)
  BY <1>4, <1>5, <1>6, <1>7 DEF Lies, m
<1> HIDE DEF i, j
<1>9. f \in Seq(Alphabet) /\ i \in Nat /\ j \in i..Len(f) /\ n \in 0..(j - i) /\ n \in 1..m
      /\ i + n \in 0..Len(f)
  BY <1>2, <1>5, <1>8 DEF m
<1>10. p.content = SubSeq(f, i + 1, i + n) /\ u.content = SubSeq(f, i + n + 1, j)
  <2>1. /\ First(SubSeq(f, i + 1, j), n) = SubSeq(f, i + 1, i + n)
        /\ Rest(SubSeq(f, i + 1, j), n) = SubSeq(f, i + n + 1, j)
    BY <1>9, PartCut
  <2> QED
    BY <1>8, <2>1
<1>11. Len(p.content) = n /\ Len(u.content) = j - (i + n)
  <2>1. PICK k \in Nat : k = i + n
    BY <1>9
  <2>2. k \in i..Len(f) /\ j \in k..Len(f) /\ k - i = n
    BY <1>9, <2>1
  <2>3. Len(SubSeq(f, i + 1, k)) = k - i /\ Len(SubSeq(f, k + 1, j)) = j - k
    BY <1>9, <2>2, PartOf
  <2> QED
    BY <1>10, <2>1, <2>2, <2>3
<1>12. p.content # <<>>
  <2>1. Len(p.content) # Len(<<>>)
    BY <1>9, <1>11
  <2> QED
    BY <2>1
<1>13. At(p) = b /\ At(u) = x /\ After(u) = e
  BY <1>3 DEF At, After, b, x, e
<1>14. CASE n = m
  <2>1. After(p) = e
    BY <1>3, <1>14 DEF After, e, m
  <2>2. p.content = SubSeq(f, i + 1, j) /\ Len(p.content) = m
    BY <1>8, <1>10, <1>11, <1>14
  <2>3. Lies(p, start, f)
    BY <1>8, <1>12, <1>13, <2>1, <2>2 DEF Lies, i, j
  <2>4. \A d \in Held' : Lies(d, start, conf.file)
    BY <1>1, <1>14, <2>3 DEF Placed, f, m
  <2>5. IsFiniteSet(Described(out')) /\ start[<<next'.l1, next'.l2>>] = Bytes(out')
    BY <1>1 DEF Placed, Laid
  <2>6. Reading' =>
           /\ start[<<chunk'.l1, 0>>] + Len(chunk'.content) = seek'
           /\ chunk'.content = SubSeq(conf.file, start[<<chunk'.l1, 0>>] + 1, seek')
    BY <1>1 DEF Placed, Reading
  <2> QED
    BY <1>1, <2>4, <2>5, <2>6, LaidWith
<1>15. CASE n # m
  <2> DEFINE begin == [start EXCEPT ![x] = i + n]
  <2>1. begin \in Starts /\ begin[x] = i + n /\ \A a \in Nat \X Nat : a # x => begin[a] = start[a]
    <3>1. begin \in [Nat \X Nat -> 0..Len(f)] /\ begin[x] = i + n
          /\ \A a \in Nat \X Nat : a # x => begin[a] = start[a]
      BY <1>5, <1>6, <1>9
    <3> QED
      BY <3>1 DEF Starts, f
  <2> HIDE DEF begin
  <2>2. begin[b] = i /\ begin[e] = j
    BY <1>6, <2>1 DEF i, j
  <2>3. After(p) = x
    BY <1>15 DEF After, x, m
  <2>4. Lies(p, begin, f)
    BY <1>10, <1>11, <1>12, <1>13, <2>1, <2>2, <2>3 DEF Lies
  <2>5. Lies(u, begin, f)
    <3>0. j - (i + n) # 0 /\ (i + n) + (j - (i + n)) = j
      BY <1>2, <1>8, <1>9, <1>15
    <3>1. Len(u.content) # Len(<<>>)
      BY <1>11, <3>0
    <3>2. u.content # <<>>
      BY <3>1
    <3>3. begin[After(u)] = begin[At(u)] + Len(u.content)
      BY <1>11, <1>13, <2>1, <2>2, <3>0
    <3> QED
      BY <1>10, <1>13, <2>1, <2>2, <3>2, <3>3 DEF Lies
  <2>6. ASSUME NEW d \in Held PROVE Lies(d, begin, f)
    <3>1. Lies(d, start, f) /\ d \in Chunks /\ At(d) \in Nat \X Nat /\ After(d) \in Nat \X Nat
      BY <1>0, <1>1, HeldRange DEF Placed, f
    <3>2. d.l1 \in Nat /\ d.l2 \in Nat
      BY <3>1 DEF Chunks
    <3>3. CASE d = c
      BY <1>4, <1>6, <2>1, <3>1, <3>3, LiesStill
    <3>4. CASE d # c
      <4>1. d.l1 = c.l1 => d.l2 < c.l2
        BY <1>3, <3>4
      <4>2. At(d) # x
        BY <1>2, <3>2, <4>1 DEF At, x
      <4>3. After(d) # x
        BY <1>2, <3>2, <4>1 DEF After, x
      <4> QED
        BY <2>1, <3>1, <4>2, <4>3, LiesStill
    <3> QED
      BY <3>3, <3>4
  <2>7. \A d \in Held' : Lies(d, begin, conf.file)
    BY <2>4, <2>5, <2>6 DEF f
  <2>8. begin[<<next.l1, next.l2>>] = Bytes(out)
    <3>1. next.l1 \in Nat /\ next.l2 \in Nat
      BY <1>0 DEF Typed
    <3>2. <<next.l1, next.l2>> # x
      BY <1>2, <1>3, <3>1 DEF Due1, x
    <3> QED
      BY <1>1, <2>1, <3>1, <3>2 DEF Placed
  <2>9. IsFiniteSet(Described(out')) /\ begin[<<next'.l1, next'.l2>>] = Bytes(out')
    BY <2>8 DEF Laid
  <2>10. begin[<<chunk.l1, 0>>] = start[<<chunk.l1, 0>>]
    <3>1. chunk.l1 \in Nat
      BY <1>0 DEF Typed
    <3>2. <<chunk.l1, 0>> # x
      BY <1>2 DEF x
    <3> QED
      BY <2>1, <3>1, <3>2
  <2>11. Reading' =>
           /\ begin[<<chunk'.l1, 0>>] + Len(chunk'.content) = seek'
           /\ chunk'.content = SubSeq(conf.file, begin[<<chunk'.l1, 0>>] + 1, seek')
    BY <1>1, <2>10 DEF Placed, Reading
  <2> QED
    BY <2>1, <2>7, <2>9, <2>11, LaidWith
<1> QED
  BY <1>14, <1>15

\* Fragment puts c into its send buffer
LEMMA FragmentHeld ==
  ASSUME Steady, NEW c \in Chunks, Reading, Idle(Fragment), Send(Fragment, "refine_que", c),
         UNCHANGED <<conf, que, recv_buf, tree, writing>>
  PROVE  Held' \subseteq Held \union {c} /\ Seen' \subseteq Seen
<1>1. Fragment \in Pool \union {Fragment} /\ "refine_que" \in Outputs[Fragment[1]]
      /\ pc[Fragment] \notin {"drain", "done"} /\ "refine_que" \in Queues
  BY DEF Reading, Fragment, Outputs, Queues
<1>2. ASSUME NEW S \in SUBSET Places, NEW N, HeldAt(Holding, S) \subseteq N,
             <<"send", Fragment, "refine_que">> \in S => c \in N
      PROVE  HeldAt(Holding', S) \subseteq N
  <2>1. \A u \in Pool \union {Reorder} : <<"recv", u, "none">> \in S =>
           \A i \in DOMAIN recv_buf'[u] : recv_buf'[u][i] \in N
    BY <1>2, WithinHeld DEF Within
  <2> QED
    BY <1>1, <1>2, <2>1, SendHeld
<1>3. HeldAt(Holding', Places) \subseteq Held \union {c}
  BY <1>2 DEF Held
<1>4. <<"send", Fragment, "refine_que">> \notin SeenPlaces /\ SeenPlaces \in SUBSET Places
  BY <1>1, SeenPlace
<1>5. HeldAt(Holding', SeenPlaces) \subseteq Seen
  BY <1>2, <1>4 DEF Seen
<1> QED
  BY <1>3, <1>5, SeenAfter

LEMMA SplitLaid ==
  ASSUME Steady, Chained, Laid, Cached, FragmentSplit
  PROVE  Laid' /\ Cached'
<1>0. Typed /\ chunk.l1 \in Nat /\ chunk.content \in Seq(Alphabet) /\ conf \in Confs
  BY DEF Steady, Typed
<1>1. /\ Idle(Fragment) /\ Reading
      /\ UNCHANGED <<conf, que, recv_buf, seek, cache, tree, writing, next, out>>
  BY DEF FragmentSplit, Reading, reorderVars
<1>2. PICK n \in (conf.ANCHOR_JUMP + 1)..(Len(chunk.content) - 1) :
        /\ Send(Fragment, "refine_que",
                [l1 |-> chunk.l1, l2 |-> 0, last |-> TRUE, content |-> First(chunk.content, n)])
        /\ chunk' = [l1 |-> chunk.l1 + 1, content |-> Rest(chunk.content, n)]
  BY DEF FragmentSplit
<1>3. n \in 0..Len(chunk.content) /\ n \in 1..Len(chunk.content)
  BY <1>0, ConfFacts
<1> DEFINE c == [l1 |-> chunk.l1, l2 |-> 0, last |-> TRUE, content |-> First(chunk.content, n)]
<1>4. c \in Chunks
  <2>1. First(chunk.content, n) \in Seq(Alphabet)
    <3>1. PICK x \in Seq(Alphabet) : x = chunk.content
      BY <1>0
    <3> QED
      BY <1>3, <3>1, Pieces
  <2> QED
    BY <1>0, <2>1 DEF Chunks
<1>5. Held' \subseteq Held \union {c} /\ Seen' \subseteq Seen
  <2>1. Send(Fragment, "refine_que", c)
    BY <1>2
  <2> HIDE DEF c
  <2> QED
    BY <1>1, <1>4, <2>1, FragmentHeld
<1>6. Laid'
  BY <1>1, <1>2, <1>3, <1>5, CreateLaid
<1>7. Cached'
  BY <1>1, <1>5, CachedStill
<1> QED
  BY <1>6, <1>7

LEMMA ReadLaid ==
  ASSUME Steady, Chained, Laid, Cached, FragmentRead
  PROVE  Laid' /\ Cached'
<1>0. Typed /\ chunk.l1 \in Nat /\ chunk.content \in Seq(Alphabet) /\ conf \in Confs
      /\ chunk \in [l1 : Nat, content : Seq(Alphabet)]
      /\ seek \in 0..Len(conf.file)
  BY DEF Steady, Typed
<1>1. /\ Idle(Fragment) /\ Reading /\ Fragment \in Threads
      /\ UNCHANGED <<conf, que, recv_buf, cache, tree, writing, next, out>>
  BY DEF FragmentRead, Reading, reorderVars, Threads
<1>2. CASE Fresh # <<>>
  <2>1. /\ chunk' = [chunk EXCEPT !.content = @ \o Fresh] /\ seek' = seek + Len(Fresh)
        /\ send_buf' = send_buf
    BY <1>2 DEF FragmentRead
  <2>2. Held' = Held /\ Seen' = Seen
    BY <1>1, <2>1, StillHeld
  <2>3. Cached'
    BY <1>1, <2>2, CachedStill
  <2>4. PICK start \in Starts : Placed(start)
    BY DEF Laid
  <2> DEFINE f == conf.file
             i == start[<<chunk.l1, 0>>]
             j == seek + Len(Fresh)
  <2>5. /\ f \in Seq(Alphabet) /\ Fresh \in Seq(Alphabet) /\ j \in 0..Len(f)
        /\ Fresh = SubSeq(f, seek + 1, j)
    BY <1>0, ConfFacts, FreshFacts, FreshPart
  <2>6. chunk.content = SubSeq(f, i + 1, seek) /\ i + Len(chunk.content) = seek
    BY <1>1, <2>4 DEF Placed
  <2>7. i \in 0..Len(f)
    <3>1. <<chunk.l1, 0>> \in Nat \X Nat
      BY <1>0
    <3> QED
      BY <2>4, <3>1 DEF Starts
  <2>8. chunk'.l1 = chunk.l1 /\ chunk'.content = chunk.content \o Fresh
    BY <1>0, <2>1
  <2> HIDE DEF f, i, j
  <2>9. i \in Nat /\ seek \in i..Len(f) /\ j \in seek..Len(f) /\ seek \in Nat
    <3>1. Len(chunk.content) \in Nat /\ Len(Fresh) \in Nat /\ seek \in 0..Len(f)
      BY <1>0, <2>5 DEF f
    <3> QED
      BY <2>5, <2>6, <2>7, <3>1 DEF j
  <2>10. chunk'.content = SubSeq(f, i + 1, j)
    <3>1. SubSeq(f, i + 1, seek) \o SubSeq(f, seek + 1, j) = SubSeq(f, i + 1, j)
      BY <2>5, <2>9, PartJoin
    <3> QED
      BY <2>5, <2>6, <2>8, <3>1
  <2>11. i + Len(chunk'.content) = j
    <3>1. j \in i..Len(f)
      BY <2>9
    <3>2. Len(SubSeq(f, i + 1, j)) = j - i
      BY <2>5, <2>9, <3>1, PartOf
    <3> QED
      BY <2>9, <2>10, <3>2
  <2>12. /\ start[<<chunk'.l1, 0>>] + Len(chunk'.content) = seek'
         /\ chunk'.content = SubSeq(conf.file, start[<<chunk'.l1, 0>>] + 1, seek')
    BY <2>1, <2>8, <2>10, <2>11 DEF i, j, f
  <2>13. \A c \in Held' : Lies(c, start, conf.file)
    BY <2>2, <2>4 DEF Placed
  <2>14. IsFiniteSet(Described(out')) /\ start[<<next'.l1, next'.l2>>] = Bytes(out')
    BY <1>1, <2>4 DEF Placed, Laid
  <2>15. Laid'
    BY <1>1, <2>4, <2>12, <2>13, <2>14, LaidWith
  <2> QED
    BY <2>3, <2>15
<1>3. CASE Fresh = <<>>
  <2> DEFINE c == [l1 |-> chunk.l1, l2 |-> 0, last |-> TRUE, content |-> chunk.content]
             n == Len(chunk.content)
  <2>1. /\ IF chunk.content = <<>> THEN UNCHANGED send_buf ELSE Send(Fragment, "refine_que", c)
        /\ pc' = [pc EXCEPT ![Fragment] = "drain"] /\ seek' = seek
    BY <1>3 DEF FragmentRead
  <2>2. ~Reading'
    <3>1. pc'[Fragment] = "drain"
      BY <1>0, <1>1, <2>1 DEF Typed
    <3> QED
      BY <3>1 DEF Reading
  <2>3. CASE chunk.content = <<>>
    <3>1. Held' = Held /\ Seen' = Seen
      BY <1>1, <2>1, <2>3, StillHeld
    <3> QED
      BY <1>1, <2>2, <3>1, LaidStill, CachedStill
  <2>4. CASE chunk.content # <<>>
    <3>1. Send(Fragment, "refine_que", c) /\ c \in Chunks
      BY <1>0, <2>1, <2>4 DEF Chunks
    <3>2. n \in 1..n /\ First(chunk.content, n) = chunk.content
      <4>1. \A x \in Seq(Alphabet) : x # <<>> => Len(x) \in 1..Len(x) /\ SubSeq(x, 1, Len(x)) = x
        OBVIOUS
      <4> QED
        BY <1>0, <2>4, <4>1 DEF First
    <3>3. c = [l1 |-> chunk.l1, l2 |-> 0, last |-> TRUE, content |-> First(chunk.content, n)]
      BY <3>2
    <3> HIDE DEF c
    <3>4. Held' \subseteq Held \union {c} /\ Seen' \subseteq Seen
      BY <1>1, <3>1, FragmentHeld
    <3>5. Laid'
      BY <1>1, <2>1, <2>2, <3>2, <3>3, <3>4, CreateLaid
    <3>6. Cached'
      BY <1>1, <3>4, CachedStill
    <3> QED
      BY <3>5, <3>6
  <2> QED
    BY <2>3, <2>4
<1> QED
  BY <1>2, <1>3

LEMMA RefineLaid ==
  ASSUME Steady, Chained, Laid, Cached, NEW t \in Pool, t[1] = "FragmentRefine", Refine(t)
  PROVE  Laid' /\ Cached'
<1> DEFINE r == recv_buf[t]
           c == Head(r)
           q == "deduplicate_que"
<1>0. Typed
  BY DEF Steady
<1>1. /\ Working(t) /\ Idle(t) /\ pc[t] = "run"
      /\ UNCHANGED <<conf, que, pc, cache, chunk, seek, tree, writing, next, out>>
  BY DEF Refine, Working, fragVars, reorderVars
<1>2. PICK n \in 1..Len(c.content) :
           /\ Send(t, q, Piece(c, n)) /\ recv_buf' = [recv_buf EXCEPT ![t] = Kept(r, n)]
           /\ Kept(r, n) \in Seq(Chunks)
  BY <1>0, RefineFacts
<1> DEFINE p == Piece(c, n)
           u == Uncut(c, n)
           m == Len(c.content)
           New == IF n = m THEN {p} ELSE {p, u}
<1>3. /\ r \in Seq(Chunks) /\ r # <<>> /\ c \in Chunks /\ c = r[1] /\ 1 \in DOMAIN r
      /\ Tail(r) \in Seq(Chunks) /\ Len(Tail(r)) = Len(r) - 1
      /\ \A i \in 1..(Len(r) - 1) : Tail(r)[i] = r[i + 1]
  BY <1>0, <1>1, HeadOf DEF Working
<1>4. /\ p \in Chunks /\ u \in Chunks /\ p.l1 = c.l1 /\ p.l2 = c.l2 /\ (p.last = (n = m))
      /\ u.l1 = c.l1 /\ u.l2 = c.l2 + 1 /\ u.last = c.last
  BY <1>3, PieceFacts
<1>5. p.content = First(c.content, n) /\ u.content = Rest(c.content, n)
  BY <1>3 DEF Piece, Uncut, Chunks
<1>6. \A v \in Pool \union {Reorder} : recv_buf'[v] = IF v = t THEN Kept(r, n) ELSE recv_buf[v]
  BY <1>0, <1>2 DEF Typed
<1>7. q \in Outputs[t[1]] /\ q \in Queues
  BY DEF Outputs, Queues
<1>8. c \in Held /\ c \in Rough /\ \A i \in DOMAIN Tail(r) : Tail(r)[i] \in Held
  <2>1. \A i \in DOMAIN r : r[i] \in Held
    BY WithinHeld, PlaceOf DEF Within, Held
  <2>2. \A i \in DOMAIN r : r[i] \in Rough
    BY WithinHeld, PlaceOf DEF Within, Rough
  <2> HIDE DEF r
  <2> QED
    BY <1>3, <2>1, <2>2
<1>9. \A i \in DOMAIN Kept(r, n) : Kept(r, n)[i] \in Held \union New
  <2>1. CASE n = m
    <3>1. Kept(r, n) = Tail(r)
      BY <2>1 DEF Kept
    <3> QED
      BY <1>8, <3>1
  <2>2. CASE n # m
    <3>1. Kept(r, n) = <<u>> \o Tail(r) /\ u \in New
      BY <2>2 DEF Kept
    <3>2. <<u>> \in Seq(Chunks) /\ \A i \in DOMAIN <<u>> : <<u>>[i] \in Held \union New
      BY <1>4, <3>1
    <3>3. \A i \in DOMAIN Tail(r) : Tail(r)[i] \in Held \union New
      BY <1>8
    <3> HIDE DEF New, u
    <3>4. \A i \in DOMAIN (<<u>> \o Tail(r)) : (<<u>> \o Tail(r))[i] \in Held \union New
      BY <1>3, <3>2, <3>3, JoinIn
    <3> QED
      BY <3>1, <3>4
  <2> QED
    BY <2>1, <2>2
<1> HIDE DEF r, p, u, m
<1>10. Held' \subseteq Held \union New
  <2> DEFINE N == Held \union New
  <2>1. \A v \in Pool \union {Reorder} : <<"recv", v, "none">> \in Places =>
           \A i \in DOMAIN recv_buf'[v] : recv_buf'[v][i] \in N
    <3> TAKE v \in Pool \union {Reorder}
    <3>1. CASE v = t
      BY <1>6, <1>9, <3>1
    <3>2. CASE v # t
      <4>1. recv_buf'[v] = recv_buf[v]
        BY <1>6, <3>2
      <4>2. \A i \in DOMAIN recv_buf[v] : recv_buf[v][i] \in Held
        BY WithinHeld, PlaceOf DEF Within, Held
      <4> QED
        BY <4>1, <4>2
    <3> QED
      BY <3>1, <3>2
  <2>2. p \in N /\ HeldAt(Holding, Places) \subseteq N
    BY DEF Held
  <2>3. Send(t, q, p) /\ t \in Pool \union {Fragment}
    BY <1>2 DEF p
  <2> HIDE DEF N
  <2>4. HeldAt(Holding', Places) \subseteq N
    BY <1>1, <1>4, <1>7, <2>1, <2>2, <2>3, SendHeld
  <2> QED
    BY <1>1, <2>4, SeenAfter DEF N
<1>11. Seen' \subseteq Seen
  <2>1. /\ <<"recv", t, "none">> \notin SeenPlaces /\ <<"send", t, q>> \notin SeenPlaces
        /\ SeenPlaces \in SUBSET Places
    BY <1>7, SeenPlace
  <2>2. \A v \in Pool \union {Reorder} : <<"recv", v, "none">> \in SeenPlaces =>
           \A i \in DOMAIN recv_buf'[v] : recv_buf'[v][i] \in Seen
    <3>1. Within(SeenPlaces, Seen, que, send_buf, recv_buf, tree, writing)
      BY <2>1, WithinHeld DEF Seen
    <3> QED
      BY <1>6, <2>1, <3>1 DEF Within
  <2>3. Send(t, q, p) /\ t \in Pool \union {Fragment}
    BY <1>2 DEF p
  <2>4. HeldAt(Holding', SeenPlaces) \subseteq Seen
    BY <1>1, <1>4, <1>7, <2>1, <2>2, <2>3, SendHeld DEF Seen
  <2> QED
    BY <1>1, <2>4, SeenAfter
<1>12. Cached'
  BY <1>1, <1>11, CachedStill
<1>13. Laid'
  BY <1>0, <1>1, <1>3, <1>4, <1>5, <1>8, <1>10, CutLaid DEF m
<1> QED
  BY <1>12, <1>13
-----------------------------------------------------------------------------
(* Steps that move chunks or the hash table's entries. *)

\* a thread of the pool passes on the chunk at the head of its input
LEMMA PassHeld ==
  ASSUME Steady, NEW t \in Pool, NEW s \in Outputs[t[1]],
         Working(t), Send(t, s, Head(recv_buf[t])),
         recv_buf' = [recv_buf EXCEPT ![t] = Tail(recv_buf[t])],
         UNCHANGED <<conf, que, tree, writing>>
  PROVE  /\ Head(recv_buf[t]) \in Chunks
         /\ Held' \subseteq Held
         /\ Seen' \subseteq Seen \union {Head(recv_buf[t])}
         /\ t[1] = "Compress" => Head(recv_buf[t]) \in Seen
<1> DEFINE r == recv_buf[t]
           c == Head(r)
<1>0. Typed /\ Idle(t) /\ pc[t] = "run" /\ r # <<>> /\ t \in Pool \union {Reorder}
      /\ t \in Pool \union {Fragment}
  BY DEF Steady, Working
<1>1. /\ r \in Seq(Chunks) /\ c \in Chunks /\ c = r[1] /\ 1 \in DOMAIN r
      /\ Tail(r) \in Seq(Chunks) /\ Len(Tail(r)) = Len(r) - 1
      /\ \A i \in 1..(Len(r) - 1) : Tail(r)[i] = r[i + 1]
  BY <1>0, HeadOf
<1>2. \A v \in Pool \union {Reorder} : recv_buf'[v] = IF v = t THEN Tail(r) ELSE recv_buf[v]
  BY <1>0 DEF Typed
<1>3. ASSUME NEW N, \A i \in DOMAIN r : r[i] \in N
      PROVE  c \in N /\ \A i \in DOMAIN Tail(r) : Tail(r)[i] \in N
  <2> HIDE DEF r
  <2> QED
    BY <1>1, <1>3
<1> HIDE DEF r
<1>4. ASSUME NEW S \in SUBSET Places, NEW N, HeldAt(Holding, S) \subseteq N,
             <<"send", t, s>> \in S => c \in N
      PROVE  HeldAt(Holding', S) \subseteq N
  <2>1. Within(S, HeldAt(Holding, S), que, send_buf, recv_buf, tree, writing)
    BY WithinHeld
  <2>2. ASSUME NEW u \in Pool \union {Reorder}, <<"recv", u, "none">> \in S
        PROVE  \A i \in DOMAIN recv_buf'[u] : recv_buf'[u][i] \in N
    <3>1. \A i \in DOMAIN recv_buf[u] : recv_buf[u][i] \in N
      BY <1>4, <2>1, <2>2 DEF Within
    <3>2. CASE u = t
      <4>1. \A i \in DOMAIN Tail(r) : Tail(r)[i] \in N
        BY <1>3, <3>1, <3>2 DEF r
      <4> QED
        BY <1>2, <3>2, <4>1
    <3>3. CASE u # t
      BY <1>2, <3>1, <3>3
    <3> QED
      BY <3>2, <3>3
  <2>3. Send(t, s, c) /\ c \in Chunks /\ pc[t] \notin {"drain", "done"}
    BY <1>0, <1>1 DEF r
  <2> HIDE DEF c
  <2> QED
    BY <1>0, <1>4, <2>2, <2>3, SendHeld
<1>5. c \in Held
  <2>1. \A i \in DOMAIN r : r[i] \in Held
    BY <1>0, WithinHeld, PlaceOf DEF Within, Held, r
  <2> QED
    BY <1>3, <2>1
<1>6. HeldAt(Holding', Places) \subseteq Held
  <2>1. HeldAt(Holding, Places) \subseteq Held
    BY DEF Held
  <2> QED
    BY <1>4, <1>5, <2>1
<1>7. HeldAt(Holding', SeenPlaces) \subseteq Seen \union {c}
  <2>1. HeldAt(Holding, SeenPlaces) \subseteq Seen \union {c} /\ c \in Seen \union {c}
        /\ SeenPlaces \in SUBSET Places
    BY SeenPlace DEF Seen
  <2> QED
    BY <1>4, <2>1
<1>8. ASSUME t[1] = "Compress" PROVE c \in Seen
  <2>1. <<"recv", t, "none">> \in SeenPlaces
    BY <1>0, <1>8, SeenPlace
  <2>2. \A i \in DOMAIN r : r[i] \in Seen
    BY <1>0, <2>1, WithinHeld, SeenPlace DEF Within, Seen, r
  <2> QED
    BY <1>3, <2>2
<1> QED
  BY <1>1, <1>6, <1>7, <1>8, SeenAfter DEF r

LEMMA PassOnLaid ==
  ASSUME Steady, Laid, Cached, NEW t \in Pool, t[1] = "Compress", PassOn(t)
  PROVE  Laid' /\ Cached'
<1>1. /\ Working(t) /\ Send(t, "reorder_que", Head(recv_buf[t]))
      /\ recv_buf' = [recv_buf EXCEPT ![t] = Tail(recv_buf[t])]
      /\ UNCHANGED <<conf, que, pc, cache, chunk, seek, tree, writing, next, out>>
  BY DEF PassOn, fragVars, reorderVars
<1>2. "reorder_que" \in Outputs[t[1]]
  BY DEF Outputs
<1>3. Held' \subseteq Held /\ Seen' \subseteq Seen
  BY <1>1, <1>2, PassHeld
<1>4. Laid'
  BY <1>1, <1>3, LaidStill DEF Reading
<1>5. Cached'
  BY <1>1, <1>3, CachedStill
<1> QED
  BY <1>4, <1>5

LEMMA DeduplicateLaid ==
  ASSUME Steady, Laid, Cached, NEW t \in Pool, t[1] = "Deduplicate", Deduplicate(t)
  PROVE  Laid' /\ Cached'
<1> DEFINE c == Head(recv_buf[t])
           b == c.content
<1>0. Typed
  BY DEF Steady
<1>1. PICK s \in {"reorder_que", "compress_que"} :
        /\ Working(t) /\ Send(t, s, c)
        /\ recv_buf' = [recv_buf EXCEPT ![t] = Tail(recv_buf[t])]
        /\ cache' = IF b \in DOMAIN cache THEN cache ELSE Inserted(b)
        /\ UNCHANGED <<conf, que, pc, chunk, seek, tree, writing, next, out>>
  BY DEF Deduplicate, fragVars, reorderVars
<1>2. s \in Outputs[t[1]]
  BY DEF Outputs
<1>3. Held' \subseteq Held /\ Seen' \subseteq Seen \union {c}
  BY <1>1, <1>2, PassHeld
<1>4. Laid'
  BY <1>1, <1>3, LaidStill DEF Reading
<1> HIDE DEF b
<1>5. /\ DOMAIN cache' = DOMAIN cache \union {b}
      /\ \A x \in DOMAIN cache' :
           cache'[x] = "FLUSHED" <=> x \in DOMAIN cache /\ cache[x] = "FLUSHED"
  <2>1. CASE b \in DOMAIN cache
    BY <1>1, <2>1
  <2>2. CASE b \notin DOMAIN cache
    <3>1. cache' = [x \in DOMAIN cache \union {b} |-> IF x = b THEN "UNCOMPRESSED" ELSE cache[x]]
      BY <1>1, <2>2 DEF Inserted
    <3> QED
      BY <2>2, <3>1
  <2> QED
    BY <2>1, <2>2
<1>6. \A x \in {c} : x.content \in DOMAIN cache'
  BY <1>5 DEF b
<1>7. PICK N : N = {c}
  OBVIOUS
<1> HIDE DEF c
<1>8. /\ Seen' \subseteq Seen \union N /\ \A x \in N : x.content \in DOMAIN cache'
      /\ DOMAIN cache \subseteq DOMAIN cache' /\ out' = out
  BY <1>1, <1>3, <1>5, <1>6, <1>7
<1>9. Cached'
  BY <1>0, <1>5, <1>8, CachedKept
<1> QED
  BY <1>4, <1>9

LEMMA CompressLaid ==
  ASSUME Steady, Laid, Cached, NEW t \in Pool, Compress(t)
  PROVE  Laid' /\ Cached'
<1> DEFINE b == Head(recv_buf[t]).content
<1>0. Typed
  BY DEF Steady
<1>1. /\ cache[b] = "UNCOMPRESSED" /\ cache' = [cache EXCEPT ![b] = "COMPRESSED"]
      /\ UNCHANGED <<conf, que, send_buf, recv_buf, pc, chunk, seek, tree, writing, next, out>>
  BY DEF Compress, fragVars, reorderVars
<1>2. Held' = Held /\ Seen' = Seen
  BY <1>1, StillHeld
<1>3. Laid'
  BY <1>1, <1>2, LaidStill DEF Reading
<1> HIDE DEF b
<1>4. /\ DOMAIN cache' = DOMAIN cache
      /\ \A x \in DOMAIN cache' :
           cache'[x] = "FLUSHED" <=> x \in DOMAIN cache /\ cache[x] = "FLUSHED"
  BY <1>1
<1>5. PICK N : N = {}
  OBVIOUS
<1>6. Cached'
  <2>1. /\ Seen' \subseteq Seen \union N /\ \A x \in N : x.content \in DOMAIN cache'
        /\ DOMAIN cache \subseteq DOMAIN cache' /\ out' = out
    BY <1>1, <1>2, <1>4, <1>5
  <2> QED
    BY <1>0, <1>4, <2>1, CachedKept
<1> QED
  BY <1>3, <1>6

LEMMA FetchLaid ==
  ASSUME Steady, Laid, Cached, NEW t \in Pool \union {Reorder}, NEW s \in Queues,
         NEW q \in Q, Dequeue(t, s, q),
         t[1] \in {"Compress", "Reorder"} => s \in {"compress_que", "reorder_que"},
         UNCHANGED <<conf, pc, send_buf, cache, chunk, seek, tree, writing, next, out>>
  PROVE  Laid' /\ Cached'
<1>0. Typed
  BY DEF Steady
<1>1. HeldAt(Holding', Places) \subseteq HeldAt(Holding, Places)
  BY <1>0, PlaceOf, FetchHeld
<1>2. HeldAt(Holding', SeenPlaces) \subseteq HeldAt(Holding, SeenPlaces)
  <2>1. /\ <<"recv", t, "none">> \in SeenPlaces => <<"que", q, s>> \in SeenPlaces
        /\ SeenPlaces \in SUBSET Places
    BY SeenPlace
  <2> QED
    BY <1>0, <2>1, FetchHeld
<1>3. Held' \subseteq Held /\ Seen' \subseteq Seen
  BY <1>1, <1>2, SeenAfter DEF Held, Seen
<1> QED
  BY <1>3, LaidStill, CachedStill DEF Reading

LEMMA EnqueueLaid ==
  ASSUME Steady, Laid, Cached, NEW t \in Pool \union {Fragment}, Enqueue(t)
  PROVE  Laid' /\ Cached'
<1>0. Typed
  BY DEF Steady
<1>1. UNCHANGED <<conf, pc, recv_buf, cache, chunk, seek, tree, writing, next, out>>
  BY DEF Enqueue, fragVars, reorderVars
<1>2. HeldAt(Holding', Places) \subseteq HeldAt(Holding, Places)
  BY <1>0, PlaceOf, EnqueueHeld
<1>3. HeldAt(Holding', SeenPlaces) \subseteq HeldAt(Holding, SeenPlaces)
  <2>1. /\ \A q \in Q, s \in Queues :
             <<"que", q, s>> \in SeenPlaces <=> <<"send", t, s>> \in SeenPlaces
        /\ SeenPlaces \in SUBSET Places
    BY SeenPlace
  <2> QED
    BY <1>0, <2>1, EnqueueHeld
<1>4. Held' \subseteq Held /\ Seen' \subseteq Seen
  BY <1>1, <1>2, <1>3, SeenAfter DEF Held, Seen
<1> QED
  BY <1>1, <1>4, LaidStill, CachedStill DEF Reading

LEMMA TakeLaid ==
  ASSUME Steady, Laid, Cached, ReorderTake
  PROVE  Laid' /\ Cached'
<1>0. Typed
  BY DEF Steady
<1>1. UNCHANGED <<conf, cache, chunk, seek, next, out>>
      /\ (pc' = pc \/ pc' = [pc EXCEPT ![Reorder] = "overrun"])
  BY <1>0, TakeFacts DEF fragVars
<1>2. pc'[Fragment] = pc[Fragment]
  BY <1>0, <1>1 DEF Typed, Threads, Fragment, Reorder
<1>3. /\ <<"recv", Reorder, "none">> \in SeenPlaces /\ SeenPlaces \in SUBSET Places
      /\ <<"recv", Reorder, "none">> \in Places
  BY SeenPlace, PlaceOf DEF Reorder
<1>4. Held' \subseteq Held /\ Seen' \subseteq Seen
  BY <1>0, <1>1, <1>3, TakeHeld, SeenAfter DEF Held, Seen
<1> QED
  BY <1>1, <1>2, <1>4, LaidStill, CachedStill DEF Reading

\* a step that moves no chunk
LEMMA StillLaid ==
  ASSUME Laid, Cached, Reading' => Reading,
         UNCHANGED <<conf, que, send_buf, recv_buf, tree, writing, cache, fragVars, next, out>>
  PROVE  Laid' /\ Cached'
<1>1. Held' = Held /\ Seen' = Seen
  BY StillHeld
<1> QED
  BY <1>1, LaidStill, CachedStill DEF fragVars
-----------------------------------------------------------------------------
(* Reorder writes, and the encoder implements DedupStream. *)

\* what Reorder writes is held, has the next number, and Nxt is the one behind it
LEMMA NextIsAfter ==
  ASSUME Steady, Chained, WriteChunk
  PROVE  /\ writing[1] \in Held /\ writing[1] \in Seen /\ writing[1] \in Chunks
         /\ At(writing[1]) = <<next.l1, next.l2>>
         /\ After(writing[1]) = <<Nxt.l1, Nxt.l2>>
<1> DEFINE w == writing[1]
<1>0. Typed /\ Ending
  BY DEF Steady
<1>1. /\ writing # <<>> /\ w \in Chunks /\ 1 \in DOMAIN writing
      /\ Nxt.l1 = IF chunks_per_anchor[next.l1] = next.l2 + 1 THEN next.l1 + 1 ELSE next.l1
      /\ Nxt.l2 = IF chunks_per_anchor[next.l1] = next.l2 + 1 THEN 0 ELSE next.l2 + 1
  BY <1>0, WriteFacts
<1>2. w \in Held /\ w \in Seen
  BY <1>1, WithinHeld, SeenPlace, PlaceOf DEF Within, Seen, Held
<1>3. Number(w) = next
  BY <1>1 DEF Chained, Numbers
<1>4. w \in Taken /\ Taken \in SUBSET Fine
  BY <1>0, <1>1, TakenHeld DEF Taken, Range
<1>5. /\ Noted(Rough, Fine, chunks_per_anchor, Taken, More)
      /\ pc[Reorder] # "overrun" => Follows(Rough, Fine, More)
  BY DEF Chained, Numbers, Ordered, Complete, Unbroken
<1>6. pc[Reorder] = "run"
  BY <1>0, <1>1 DEF Ending
<1> HIDE DEF w
<1>7. w.l1 = next.l1 /\ w.l2 = next.l2 /\ w.l1 \in Nat /\ w.l2 \in Nat /\ w.last \in BOOLEAN
  BY <1>1, <1>3 DEF Number, Chunks
<1>8. w.l1 \in DOMAIN chunks_per_anchor
      /\ (w.last <=> chunks_per_anchor[w.l1] = w.l2 + 1)
  <2>1. w.l1 \in DOMAIN chunks_per_anchor
        /\ (w.last => chunks_per_anchor[w.l1] = w.l2 + 1)
    BY <1>4, <1>5 DEF Noted
  <2>2. ASSUME ~w.last, chunks_per_anchor[w.l1] = w.l2 + 1 PROVE FALSE
    <3>1. PICK d \in Rough \union Fine : d.l1 = w.l1 /\ d.l2 = w.l2 + 1
      BY <1>4, <1>5, <1>6, <2>2 DEF Follows
    <3>2. chunks_per_anchor[w.l1] # 0
      BY <1>7, <2>2
    <3>3. /\ d \in Rough => d.l1 # w.l1
          /\ d \in Fine => d.l2 < w.l2 + 1
      BY <1>5, <2>1, <2>2, <3>1, <3>2 DEF Noted
    <3> QED
      BY <1>7, <3>1, <3>3
  <2> QED
    BY <2>1, <2>2
<1>9. At(w) = <<next.l1, next.l2>>
  BY <1>7 DEF At
<1>10. After(w) = <<Nxt.l1, Nxt.l2>>
  BY <1>1, <1>7, <1>8 DEF After
<1> QED
  BY <1>1, <1>2, <1>9, <1>10 DEF w

\* Reorder writes the part of the file behind what it has written so far
LEMMA WriteLaid ==
  ASSUME Steady, Chained, Laid, Cached, WriteChunk
  PROVE  /\ Laid' /\ Cached'
         /\ Bytes(out') \in (Bytes(out) + 1)..Len(conf.file)
         /\ writing[1].content = SubSeq(conf.file, Bytes(out) + 1, Bytes(out'))
<1> DEFINE w == writing[1]
           b == w.content
           r == IF cache[b] = "COMPRESSED" THEN Data(b) ELSE Fingerprint(b)
           f == conf.file
<1>0. Typed
  BY DEF Steady
<1>1. /\ next' = Nxt /\ Nxt \in [l1 : Nat, l2 : Nat] /\ w \in Chunks
      /\ UNCHANGED <<conf, que, pc, recv_buf, send_buf, chunk, seek>>
      /\ out' = Append(out, r)
  BY <1>0, WriteFacts DEF WriteChunk, fragVars
<1>2. w \in Held /\ At(w) = <<next.l1, next.l2>> /\ After(w) = <<Nxt.l1, Nxt.l2>>
  BY NextIsAfter
<1>3. PICK start \in Starts : Placed(start)
  BY DEF Laid
<1> DEFINE i == start[At(w)]
           j == start[After(w)]
<1>4. Lies(w, start, f) /\ i = Bytes(out)
  BY <1>2, <1>3 DEF Placed
<1>5. f \in Seq(Alphabet) /\ i \in 0..Len(f) /\ j \in 0..Len(f) /\ b \in Seq(Alphabet)
  <2>1. At(w) \in Nat \X Nat /\ After(w) \in Nat \X Nat
    BY <1>0, <1>2, HeldRange
  <2>2. f \in Seq(Alphabet) /\ conf \in Confs
    BY <1>0, ConfFacts DEF Typed
  <2>3. b \in Seq(Alphabet)
    BY <1>1 DEF Chunks
  <2> QED
    BY <2>1, <2>2, <2>3 DEF Starts
<1>6. b # <<>> /\ j = i + Len(b) /\ b = SubSeq(f, i + 1, j)
  BY <1>4 DEF Lies
<1> HIDE DEF i, j, f, b, w
<1>7. Len(b) \in Nat \ {0}
  <2>1. \A s \in Seq(Alphabet) : s # <<>> => Len(s) \in Nat \ {0}
    OBVIOUS
  <2> QED
    BY <1>5, <1>6, <2>1
<1>8. IsFiniteSet(Described(out')) /\ Bytes(out') = j
  <2> DEFINE R == [type : {"TYPE_COMPRESS", "TYPE_FINGERPRINT"}, content : Seq(Alphabet)]
  <2>1. out \in Seq(R)
    BY <1>0 DEF Typed
  <2>2. r \in R /\ r.content = b
    BY <1>5 DEF Data, Fingerprint
  <2>3. IsFiniteSet(Described(out))
    BY DEF Laid
  <2> HIDE DEF R, r
  <2>4. IsFiniteSet(Described(Append(out, r))) /\ Bytes(Append(out, r)) = Bytes(out) + Len(b)
    BY <1>7, <2>1, <2>2, <2>3, BytesAppend
  <2> QED
    BY <1>1, <1>4, <1>6, <2>4
<1>9. Held' \subseteq Held
  <2>1. <<"tree", 0, "none">> \in Places /\ Places \in SUBSET Places
    BY PlaceOf
  <2> QED
    BY <1>0, <1>1, <2>1, WriteHeld, SeenAfter DEF Held
<1>10. Laid'
  <2>1. \A c \in Held' : Lies(c, start, conf.file)
    BY <1>3, <1>9 DEF Placed
  <2>2. start[<<next'.l1, next'.l2>>] = Bytes(out')
    BY <1>1, <1>2, <1>8 DEF j
  <2>3. Reading' =>
           /\ start[<<chunk'.l1, 0>>] + Len(chunk'.content) = seek'
           /\ chunk'.content = SubSeq(conf.file, start[<<chunk'.l1, 0>>] + 1, seek')
    BY <1>1, <1>3 DEF Placed, Reading
  <2> QED
    BY <1>1, <1>3, <1>8, <2>1, <2>2, <2>3, LaidWith
<1>11. Cached'
  BY CachedWrite
<1>12. Bytes(out') \in (Bytes(out) + 1)..Len(f)
  BY <1>4, <1>5, <1>6, <1>7, <1>8
<1>13. b = SubSeq(f, Bytes(out) + 1, Bytes(out'))
  BY <1>4, <1>6, <1>8
<1> QED
  BY <1>10, <1>11, <1>12, <1>13 DEF f, b, w

\* which is a step of DedupStream: the data the first time, then the fingerprint
LEMMA WriteIsWrite ==
  ASSUME Steady, Chained, Laid, Cached, WriteChunk
  PROVE  Stream!WriteChunk
<1> DEFINE b == writing[1].content
           to == Bytes(out')
<1>0. Typed
  BY DEF Steady
<1>1. /\ cache[b] # "UNCOMPRESSED" /\ conf' = conf
      /\ out' = Append(out, IF cache[b] = "COMPRESSED" THEN Data(b) ELSE Fingerprint(b))
  BY DEF WriteChunk
<1>2. /\ to \in (Bytes(out) + 1)..Len(conf.file)
      /\ b = SubSeq(conf.file, Bytes(out) + 1, to)
  BY WriteLaid
<1>3. b \in DOMAIN cache
  BY NextIsAfter DEF Cached
<1>4. cache[b] # "COMPRESSED" <=> HasData(out, b)
  BY <1>0, <1>1, <1>3 DEF Cached, Typed
<1>5. out' = Append(out, IF HasData(out, b) THEN Fingerprint(b) ELSE Data(b))
  BY <1>1, <1>4
<1>6. Bytes(out)' = to /\ conf.file' = conf.file
  BY <1>1 DEF Bytes, Described
<1> HIDE DEF b, to
<1>7. \E k \in (Bytes(out) + 1)..Len(conf.file) :
        /\ Bytes(out)' = k
        /\ out' = Append(out, IF HasData(out, SubSeq(conf.file, Bytes(out) + 1, k))
                             THEN Fingerprint(SubSeq(conf.file, Bytes(out) + 1, k))
                             ELSE Data(SubSeq(conf.file, Bytes(out) + 1, k)))
  BY <1>2, <1>5, <1>6
<1> QED
  BY <1>6, <1>7 DEF Stream!WriteChunk, Stream!HasData, Stream!Fingerprint, Stream!Data,
                  HasData, Fingerprint, Data

LEMMA LaidInit ==
  ASSUME Init
  PROVE  Laid /\ Cached
<1> DEFINE start == [a \in Nat \X Nat |-> 0]
<1>1. conf \in Confs /\ Typed
  BY SteadyInit DEF Init, Steady
<1>2. /\ \A q \in Q, s \in Queues : que[s][q] = <<>>
      /\ \A t \in Pool \union {Fragment}, s \in Queues : send_buf[t][s] = <<>>
      /\ \A t \in Pool \union {Reorder} : recv_buf[t] = <<>>
      /\ writing = <<>> /\ tree = {} /\ out = <<>> /\ cache = <<>>
      /\ next = [l1 |-> 0, l2 |-> 0] /\ chunk = NoChunk /\ seek = 0
  BY DEF Init
<1>3. DOMAIN <<>> = {} /\ DOMAIN [c \in {} |-> c] = {}
  OBVIOUS
<1>4. \A h \in Places : DOMAIN Holding[h] = {}
  BY <1>2, <1>3, HoldingIs, PlaceKinds DEF Holds
<1>5. Held = {} /\ Seen = {}
  BY <1>4, HeldIn, SeenPlace DEF Held, Seen
<1>6. start \in Starts
  <2>1. conf.file \in Seq(Alphabet)
    BY <1>1, ConfFacts
  <2>2. 0 \in 0..Len(conf.file)
    BY <2>1
  <2> QED
    BY <2>2 DEF Starts
<1>7. Placed(start)
  <2>1. Len(<<>>) = 0 /\ SubSeq(conf.file, 0 + 1, 0) = <<>>
    <3>1. conf.file \in Seq(Alphabet)
      BY <1>1, ConfFacts
    <3>2. SubSeq(conf.file, 0 + 1, 0) \in Seq(Alphabet) /\ Len(SubSeq(conf.file, 0 + 1, 0)) = 0
      BY <3>1, PartOf
    <3> QED
      BY <3>2
  <2>2. chunk.l1 = 0 /\ chunk.content = <<>> /\ <<0, 0>> \in Nat \X Nat
        /\ next.l1 = 0 /\ next.l2 = 0
    BY <1>2 DEF NoChunk
  <2>3. start[<<0, 0>>] = 0
    BY <2>2
  <2> HIDE DEF start
  <2> QED
    BY <1>2, <1>5, <2>1, <2>2, <2>3, NoBytes DEF Placed
<1>8. Laid
  BY <1>2, <1>6, <1>7, NoBytes DEF Laid
<1>9. Cached
  BY <1>2, <1>3, <1>5 DEF Cached
<1> QED
  BY <1>8, <1>9

\* each step keeps the chunks where they lie, and writes what DedupStream would
LEMMA LaidNext ==
  ASSUME Steady, Chained, Laid, Cached, [Next]_vars
  PROVE  Laid' /\ Cached' /\ (Stream!WriteChunk \/ UNCHANGED <<conf, out>>)
<1>0. Typed
  BY DEF Steady
<1>1. CASE UNCHANGED vars
  BY <1>1, StillLaid DEF vars, Reading, fragVars
<1>2. CASE FragmentRead
  BY <1>2, ReadLaid DEF FragmentRead, reorderVars
<1>3. CASE FragmentSplit
  BY <1>3, SplitLaid DEF FragmentSplit, reorderVars
<1>4. Fragment \in Threads /\ Reorder \in Threads /\ Fragment # Reorder
      /\ \A t \in Pool : t \in Threads /\ t # Fragment /\ t # Reorder
  BY DEF Threads, Fragment, Reorder, Pool, Stages
<1>5. CASE FragmentNoSplit
  <2>1. /\ pc[Fragment] = "split"
        /\ UNCHANGED <<conf, que, recv_buf, send_buf, cache, fragVars, tree, writing, next, out>>
    BY <1>5 DEF FragmentNoSplit, reorderVars
  <2> QED
    BY <2>1, StillLaid DEF Reading
<1>6. ASSUME NEW t \in Pool, PoolNext(t)
      PROVE  Laid' /\ Cached' /\ UNCHANGED <<conf, out>>
  <2>1. t[1] \in Stages
    BY DEF Pool
  <2>2. CASE Fetch(t)
    <3>1. /\ Dequeue(t, Input[t[1]], QidOf(t))
          /\ UNCHANGED <<conf, pc, send_buf, cache, chunk, seek, tree, writing, next, out>>
      BY <2>2 DEF Fetch, fragVars, reorderVars
    <3>2. Input[t[1]] \in Queues
          /\ (t[1] \in {"Compress", "Reorder"} => Input[t[1]] \in {"compress_que", "reorder_que"})
      BY <2>1 DEF Stages, Input, Queues
    <3>3. QidOf(t) \in Q
      BY <1>0, PoolFacts DEF Typed
    <3> QED
      BY <3>1, <3>2, <3>3, FetchLaid
  <2>3. CASE InputEnds(t)
    <3>1. /\ pc' = [pc EXCEPT ![t] = "drain"]
          /\ UNCHANGED <<conf, que, recv_buf, send_buf, cache, fragVars, tree, writing, next, out>>
      BY <2>3 DEF InputEnds, reorderVars
    <3>2. pc'[Fragment] = pc[Fragment]
      BY <1>0, <1>4, <3>1 DEF Typed
    <3> QED
      BY <3>1, <3>2, StillLaid DEF Reading
  <2>4. CASE t[1] = "FragmentRefine" /\ Refine(t)
    BY <2>4, RefineLaid DEF Refine, reorderVars
  <2>5. CASE t[1] = "Deduplicate" /\ Deduplicate(t)
    BY <2>5, DeduplicateLaid DEF Deduplicate, reorderVars
  <2>6. CASE t[1] = "Compress" /\ Compress(t)
    BY <2>6, CompressLaid DEF Compress, reorderVars
  <2>7. CASE t[1] = "Compress" /\ PassOn(t)
    BY <2>7, PassOnLaid DEF PassOn, reorderVars
  <2> QED
    BY <1>6, <2>2, <2>3, <2>4, <2>5, <2>6, <2>7 DEF PoolNext
<1>7. ASSUME NEW t \in Pool \union {Fragment}, Shutdown(t)
      PROVE  Laid' /\ Cached' /\ UNCHANGED <<conf, out>>
  <2>1. /\ pc[t] = "drain" /\ pc' = [pc EXCEPT ![t] = "done"]
        /\ UNCHANGED <<conf, que, recv_buf, send_buf, cache, fragVars, tree, writing, next, out>>
    BY <1>7 DEF Shutdown, reorderVars
  <2>2. pc'[Fragment] = IF t = Fragment THEN "done" ELSE pc[Fragment]
    BY <1>0, <1>4, <2>1 DEF Typed
  <2> QED
    BY <2>1, <2>2, StillLaid DEF Reading
<1>8. ASSUME NEW t \in Pool \union {Fragment}, Enqueue(t)
      PROVE  Laid' /\ Cached' /\ UNCHANGED <<conf, out>>
  BY <1>8, EnqueueLaid DEF Enqueue, reorderVars
<1>9. CASE ReorderFetch
  <2>1. PICK q \in Q : Dequeue(Reorder, "reorder_que", q)
    BY <1>0, <1>9, ReorderFetchFacts
  <2>2. UNCHANGED <<conf, pc, send_buf, cache, chunk, seek, tree, writing, next, out>>
    BY <1>9 DEF ReorderFetch, fragVars, reorderVars
  <2>3. Reorder \in Pool \union {Reorder} /\ "reorder_que" \in Queues
    BY DEF Queues
  <2> QED
    BY <2>1, <2>2, <2>3, FetchLaid
<1>10. CASE ReorderTake
  BY <1>10, TakeLaid DEF ReorderTake
<1>11. CASE WriteChunk
  BY <1>11, WriteLaid, WriteIsWrite
<1>12. CASE ReorderEnds
  <2>1. /\ UNCHANGED <<conf, que, recv_buf, send_buf, cache, fragVars, tree, writing, next, out>>
        /\ pc' = [pc EXCEPT ![Reorder] = IF tree = {} THEN "done" ELSE "mismatch"]
    BY <1>12 DEF ReorderEnds, reorderVars
  <2>2. pc'[Fragment] = pc[Fragment]
    BY <1>0, <1>4, <2>1 DEF Typed
  <2> QED
    BY <2>1, <2>2, StillLaid DEF Reading
<1> QED
  BY <1>1, <1>2, <1>3, <1>5, <1>6, <1>7, <1>8, <1>9, <1>10, <1>11, <1>12
     DEF Next, FragmentNext, ReorderNext

\* The parallel encoder implements DedupStream: in whatever order its threads run,
\* Reorder (encoder.c) writes the records of the input from its first byte on,
\* without a gap, each chunk's data exactly once and before any fingerprint of it.
THEOREM ParallelRefines == Spec => ImplementsStream
<1> DEFINE I == IInv /\ Laid /\ Cached
<1>1. Init => I /\ Stream!Init
  <2> SUFFICES ASSUME Init PROVE I /\ Stream!Init
    OBVIOUS
  <2>1. IInv /\ Laid /\ Cached
    BY InvInit, LaidInit
  <2>2. conf \in Confs /\ out = <<>>
    BY DEF Init
  <2>3. Stream!Init
    <3>1. Bytes(out) = 0
      BY <2>2, NoBytes
    <3> QED
      BY <2>2, <3>1 DEF Stream!Init
  <2> QED
    BY <2>1, <2>3
<1>2. I /\ [Next]_vars => I' /\ [Stream!WriteChunk]_<<conf.file, Bytes(out), out>>
  <2> SUFFICES ASSUME I, [Next]_vars
               PROVE  I' /\ [Stream!WriteChunk]_<<conf.file, Bytes(out), out>>
    OBVIOUS
  <2>1. Steady /\ Chained
    BY DEF IInv, Steady, Chained
  <2>2. Laid' /\ Cached' /\ (Stream!WriteChunk \/ UNCHANGED <<conf, out>>)
    BY <2>1, LaidNext
  <2>3. IInv'
    BY InvNext
  <2>4. UNCHANGED <<conf, out>> => UNCHANGED <<conf.file, Bytes(out), out>>
    BY DEF Bytes, Described
  <2> QED
    BY <2>2, <2>3, <2>4
<1> HIDE DEF I
<1> QED
  BY <1>1, <1>2, PTL DEF Spec, ImplementsStream, Stream!Spec
=============================================================================
