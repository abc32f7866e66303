--------------------------- MODULE DedupPipeline ---------------------------
(***************************************************************************)
(* dedup's parallel encoder (encoder.c with ENABLE_PTHREADS): one Fragment *)
(* thread, nthreads threads each of FragmentRefine, Deduplicate and        *)
(* Compress, one Reorder thread, and bounded queues between the stages.    *)
(* MAX_THREADS_PER_QUEUE threads of a stage share a queue; Fragment deals  *)
(* coarse chunks out to the refine queues in turn and Reorder collects     *)
(* from the reorder queues in turn.                                        *)
(*                                                                         *)
(* The queues are a library's (queue.c): queue_dequeue waits while its     *)
(* queue is empty and not terminated, queue_enqueue waits while it is full *)
(* and moves what fits.  A thread inserts into its own send buffer and     *)
(* enqueues when that is full, and empties it when its input has ended.    *)
(* Where rabinseg finds anchors is left open, as in DedupSerial.           *)
(***************************************************************************)
EXTENDS DedupFile, Integers, SequencesExt

CONSTANT Confs  \* the inputs and configurations, see ConfOK

ConfOK(k) ==
  /\ DOMAIN k = {"file", "nthreads", "MAX_THREADS_PER_QUEUE", "QUEUE_SIZE",
                 "FETCH", "INSERT", "MAXBUF", "ANCHOR_JUMP", "anchors", "cuts"}
  /\ \A f \in DOMAIN k \ {"file", "ANCHOR_JUMP", "cuts"} : k[f] \in Nat \ {0}
  /\ k.ANCHOR_JUMP \in Nat
  /\ k.file \in Seq(Range(k.file))
  /\ k.cuts \subseteq 1..Len(k.file)  \* where Fragment may find an anchor

ASSUME PipelineAssumption == \A k \in Confs : ConfOK(k)

Stages == {"FragmentRefine", "Deduplicate", "Compress"}
Queues == {"refine_que", "deduplicate_que", "compress_que", "reorder_que"}

VARIABLES
  conf,
  \* the queues, and how often each has been terminated
  que, nTerminated,
  \* the threads of the three pools, and Fragment and Reorder as thread 0
  pc, recv_buf, send_buf,
  qid,         \* of Fragment and of Reorder: the queue whose turn it is
  \* Fragment
  seek,        \* how much of the input has been read
  chunk,       \* the coarse chunk in hand: its number and its bytes
  \* the hash table: the state of the first chunk with these bytes
  cache,
  \* Reorder
  writing,     \* the chunks next in the sequence: none or one
  tree,        \* the chunks that came early
  next,        \* the number of the next chunk to write
  chunks_per_anchor,
  out          \* the archive

vars == <<conf, que, nTerminated, pc, recv_buf, send_buf, qid, seek, chunk,
          cache, writing, tree, next, chunks_per_anchor, out>>

nqueues == (conf.nthreads + conf.MAX_THREADS_PER_QUEUE - 1)
             \div conf.MAX_THREADS_PER_QUEUE
Q == 0..(nqueues - 1)

Fragment == <<"Fragment", 0>>
Reorder == <<"Reorder", 0>>
Pool == Stages \X (0..(conf.nthreads - 1))
Threads == Pool \union {Fragment, Reorder}

\* the stage's queues, and the one its end is passed on to
Input == [FragmentRefine |-> "refine_que", Deduplicate |-> "deduplicate_que",
          Compress |-> "compress_que"]
Outputs == [Fragment |-> {"refine_que"}, FragmentRefine |-> {"deduplicate_que"},
            Deduplicate |-> {"compress_que", "reorder_que"}, Compress |-> {"reorder_que"}]
Ends == [Fragment |-> "refine_que", FragmentRefine |-> "deduplicate_que",
         Deduplicate |-> "compress_que", Compress |-> "reorder_que"]

\* the queue, of those of its stage, that a thread uses
QidOf(t) == IF t \in Pool THEN t[2] \div conf.MAX_THREADS_PER_QUEUE
                          ELSE qid[t[1]]

Producers_One(s, q) == 1

\* the terminations queue_init is told to expect
Producers(s, q) ==
  LET rest == conf.nthreads % conf.MAX_THREADS_PER_QUEUE
  IN  IF s = "refine_que" THEN 1
      ELSE IF q < nqueues - 1 \/ rest = 0 THEN conf.MAX_THREADS_PER_QUEUE
                                          ELSE rest

Terminated(s, q) == nTerminated[s][q] = Producers(s, q)

NoChunk == [l1 |-> 0, content |-> <<>>]

Init ==
  /\ conf \in Confs
  /\ que = [s \in Queues |-> [q \in Q |-> <<>>]]
  /\ nTerminated = [s \in Queues |-> [q \in Q |-> 0]]
  /\ pc = [t \in Threads |-> IF t = Fragment THEN "read" ELSE "run"]
  /\ recv_buf = [t \in Pool \union {Reorder} |-> <<>>]
  /\ send_buf = [t \in Pool \union {Fragment} |-> [s \in Queues |-> <<>>]]
  /\ qid = [n \in {"Fragment", "Reorder"} |-> 0]
  /\ seek = 0
  /\ chunk = NoChunk
  /\ cache = <<>>
  /\ writing = <<>>
  /\ tree = {}
  /\ next = [l1 |-> 0, l2 |-> 0]
  /\ chunks_per_anchor = [i \in 0..(conf.anchors - 1) |-> 0]
  /\ out = <<>>

fragVars == <<seek, chunk>>
reorderVars == <<writing, tree, next, chunks_per_anchor, out>>

(* --- queues and buffers --- *)

Least(i, j) == IF i < j THEN i ELSE j
First(s, n) == SubSeq(s, 1, n)
Rest(s, n) == SubSeq(s, n + 1, Len(s))

Full(t, s) == Len(send_buf[t][s]) = conf.INSERT

\* t has to enqueue to s before it does anything else: its send buffer is full,
\* or its input has ended and the buffer is not empty; Deduplicate empties the
\* one for compress_que first
Due(t, s) == IF pc[t] = "drain" THEN send_buf[t][s] # <<>> ELSE Full(t, s)
MustSend(t, s) == Due(t, s) /\ ~(s = "reorder_que" /\ Due(t, "compress_que"))
Idle(t) == \A s \in Outputs[t[1]] : ~Due(t, s)

Send(t, s, c) == send_buf' = [send_buf EXCEPT ![t][s] = Append(@, c)]

Enqueue_Overfills(t) ==
  \E s \in Outputs[t[1]] :
    LET q == QidOf(t)
    IN  /\ MustSend(t, s)
        /\ que' = [que EXCEPT ![s][q] = @ \o send_buf[t][s]]
        /\ send_buf' = [send_buf EXCEPT ![t][s] = <<>>]
        /\ UNCHANGED <<conf, nTerminated, pc, recv_buf, qid, cache, fragVars, reorderVars>>

Enqueue(t) ==
  \E s \in Outputs[t[1]] :
    LET q == QidOf(t)
        n == Least(Len(send_buf[t][s]), conf.QUEUE_SIZE - Len(que[s][q]))
    IN  /\ MustSend(t, s)
        /\ Len(que[s][q]) < conf.QUEUE_SIZE
        /\ que' = [que EXCEPT ![s][q] = @ \o First(send_buf[t][s], n)]
        /\ send_buf' = [send_buf EXCEPT ![t][s] = Rest(@, n)]
        /\ qid' = IF t = Fragment THEN [qid EXCEPT !["Fragment"] = (q + 1) % nqueues]
                                  ELSE qid
        /\ UNCHANGED <<conf, nTerminated, pc, recv_buf, cache, fragVars, reorderVars>>

\* queue_dequeue by t, of at most FETCH chunks
Dequeue(t, s, q) ==
  LET n == Least(Len(que[s][q]), conf.FETCH)
  IN  /\ que[s][q] # <<>>
      /\ recv_buf' = [recv_buf EXCEPT ![t] = First(que[s][q], n)]
      /\ que' = [que EXCEPT ![s][q] = Rest(@, n)]

\* queue_dequeue would return -1
Dry(s, q) == que[s][q] = <<>> /\ Terminated(s, q)

Fetch(t) ==
  /\ pc[t] = "run"
  /\ recv_buf[t] = <<>>
  /\ Idle(t)
  /\ Dequeue(t, Input[t[1]], QidOf(t))
  /\ UNCHANGED <<conf, nTerminated, pc, send_buf, qid, cache, fragVars, reorderVars>>

InputEnds(t) ==
  /\ pc[t] = "run"
  /\ recv_buf[t] = <<>>
  /\ Idle(t)
  /\ Dry(Input[t[1]], QidOf(t))
  /\ pc' = [pc EXCEPT ![t] = "drain"]
  /\ UNCHANGED <<conf, que, nTerminated, recv_buf, send_buf, qid, cache,
                 fragVars, reorderVars>>

Shutdown_OneQueue(t) ==
  /\ pc[t] = "drain"
  /\ Idle(t)
  /\ nTerminated' = [nTerminated EXCEPT ![Ends[t[1]]][QidOf(t)] = @ + 1]
  /\ pc' = [pc EXCEPT ![t] = "done"]
  /\ UNCHANGED <<conf, que, recv_buf, send_buf, qid, cache, fragVars, reorderVars>>

\* all sent: terminate the next stage's queue, Fragment every refine queue
Shutdown(t) ==
  /\ pc[t] = "drain"
  /\ Idle(t)
  /\ LET s == Ends[t[1]]
     IN  nTerminated' = [nTerminated EXCEPT ![s] = [q \in Q |->
                           IF t = Fragment \/ q = QidOf(t) THEN @[q] + 1 ELSE @[q]]]
  /\ pc' = [pc EXCEPT ![t] = "done"]
  /\ UNCHANGED <<conf, que, recv_buf, send_buf, qid, cache, fragVars, reorderVars>>

(* --- Fragment --- *)

Fresh == NextBytes(conf.file, seek, conf.MAXBUF)

\* read behind what is left over; without any new data the rest is the last
\* coarse chunk, and without anything at all there is none
FragmentRead ==
  /\ pc[Fragment] = "read"
  /\ Idle(Fragment)
  /\ IF Fresh # <<>>
     THEN /\ chunk' = [chunk EXCEPT !.content = @ \o Fresh]
          /\ seek' = seek + Len(Fresh)
          /\ pc' = [pc EXCEPT ![Fragment] = "split"]
          /\ UNCHANGED send_buf
     ELSE /\ IF chunk.content = <<>> THEN UNCHANGED send_buf
             ELSE Send(Fragment, "refine_que",
                       [l1 |-> chunk.l1, l2 |-> 0, last |-> TRUE,
                        content |-> chunk.content])
          /\ chunk' = NoChunk
          /\ pc' = [pc EXCEPT ![Fragment] = "drain"]
          /\ UNCHANGED seek
  /\ UNCHANGED <<conf, que, nTerminated, recv_buf, qid, cache, reorderVars>>

\* cut at an anchor more than ANCHOR_JUMP bytes into the buffer
FragmentSplit ==
  /\ pc[Fragment] = "split"
  /\ Idle(Fragment)
  /\ \E n \in (conf.ANCHOR_JUMP + 1)..(Len(chunk.content) - 1) :
       /\ seek - Len(chunk.content) + n \in conf.cuts
       /\ Send(Fragment, "refine_que",
               [l1 |-> chunk.l1, l2 |-> 0, last |-> TRUE,
                content |-> First(chunk.content, n)])
       /\ chunk' = [l1 |-> chunk.l1 + 1, content |-> Rest(chunk.content, n)]
  /\ UNCHANGED <<conf, que, nTerminated, pc, recv_buf, qid, seek, cache, reorderVars>>

\* no anchor, one at the end, or no more than ANCHOR_JUMP bytes
FragmentNoSplit ==
  /\ pc[Fragment] = "split"
  /\ Idle(Fragment)
  /\ pc' = [pc EXCEPT ![Fragment] = "read"]
  /\ UNCHANGED <<conf, que, nTerminated, recv_buf, send_buf, qid, cache,
                 fragVars, reorderVars>>

(* --- the pools: what a thread does with the chunk at the head of recv_buf --- *)

Working(t) == pc[t] = "run" /\ recv_buf[t] # <<>> /\ Idle(t)

\* FragmentRefine cuts a fine chunk off the coarse one, or sends the last one;
\* l2 of the coarse chunk is chcount
Refine(t) ==
  /\ Working(t)
  /\ LET c == Head(recv_buf[t])
     IN  \E n \in 1..Len(c.content) :
           /\ Send(t, "deduplicate_que",
                   [c EXCEPT !.content = First(@, n), !.last = (n = Len(c.content))])
           /\ recv_buf' = [recv_buf EXCEPT ![t] =
                IF n = Len(c.content) THEN Tail(@)
                ELSE <<[c EXCEPT !.content = Rest(@, n), !.l2 = @ + 1]>> \o Tail(@)]
  /\ UNCHANGED <<conf, que, nTerminated, pc, qid, cache, fragVars, reorderVars>>

\* the hash table with a first chunk of these bytes
Inserted(bytes) == [b \in DOMAIN cache \union {bytes} |->
                      IF b = bytes THEN "UNCOMPRESSED" ELSE cache[b]]

Deduplicate_Both(t) ==
  /\ Working(t)
  /\ LET c == Head(recv_buf[t])
         known == c.content \in DOMAIN cache
     IN  /\ cache' = IF known THEN cache ELSE Inserted(c.content)
         /\ send_buf' = [send_buf EXCEPT
              ![t]["reorder_que"] = Append(@, c),
              ![t]["compress_que"] = IF known THEN @ ELSE Append(@, c)]
  /\ recv_buf' = [recv_buf EXCEPT ![t] = Tail(@)]
  /\ UNCHANGED <<conf, que, nTerminated, pc, qid, fragVars, reorderVars>>

\* sub_Deduplicate: search and insertion under the lock of the hash table; a
\* new chunk goes to Compress, a known one straight to Reorder
Deduplicate(t) ==
  /\ Working(t)
  /\ LET c == Head(recv_buf[t])
         isDuplicate == c.content \in DOMAIN cache
     IN  /\ cache' = IF isDuplicate THEN cache ELSE Inserted(c.content)
         /\ Send(t, IF isDuplicate THEN "reorder_que" ELSE "compress_que", c)
  /\ recv_buf' = [recv_buf EXCEPT ![t] = Tail(@)]
  /\ UNCHANGED <<conf, que, nTerminated, pc, qid, fragVars, reorderVars>>

\* sub_Compress, under the chunk's lock
Compress(t) ==
  /\ Working(t)
  /\ LET c == Head(recv_buf[t])
     IN  /\ cache[c.content] = "UNCOMPRESSED"
         /\ cache' = [cache EXCEPT ![c.content] = "COMPRESSED"]
  /\ UNCHANGED <<conf, que, nTerminated, pc, recv_buf, send_buf, qid, fragVars,
                 reorderVars>>

\* after the unlock: the statistics read the compressed size, which Reorder may
\* have freed by now with the chunk written for a duplicate; then the chunk is
\* put into the send buffer
PassOn(t) ==
  /\ Working(t)
  /\ LET c == Head(recv_buf[t])
     IN  /\ cache[c.content] # "UNCOMPRESSED"
         /\ Send(t, "reorder_que", c)
  /\ recv_buf' = [recv_buf EXCEPT ![t] = Tail(@)]
  /\ UNCHANGED <<conf, que, nTerminated, pc, qid, cache, fragVars, reorderVars>>

(* --- Reorder --- *)

Number(c) == [l1 |-> c.l1, l2 |-> c.l2]

\* the queues Reorder passes over, terminated and empty, from the one whose
\* turn it is: queue_dequeue waits at the first that is not
Turn(i) == (qid["Reorder"] + i) % nqueues
Passed == {i \in Q : \A j \in 0..i : Dry("reorder_que", Turn(j))}

Listening == pc[Reorder] = "run" /\ recv_buf[Reorder] = <<>> /\ writing = <<>>

ReorderFetch ==
  /\ Listening
  /\ Cardinality(Passed) < nqueues
  /\ LET q == Turn(Cardinality(Passed))
     IN  /\ Dequeue(Reorder, "reorder_que", q)
         /\ qid' = [qid EXCEPT !["Reorder"] = (q + 1) % nqueues]
  /\ UNCHANGED <<conf, nTerminated, pc, send_buf, cache, fragVars, reorderVars>>

anchors == Cardinality(DOMAIN chunks_per_anchor)

\* the array after one doubling if l1 is beyond its end
Doubled(l1) ==
  IF l1 < anchors THEN chunks_per_anchor
  ELSE [i \in 0..(2 * anchors - 1) |-> IF i < anchors THEN chunks_per_anchor[i] ELSE 0]

\* take a chunk: note the length of its coarse chunk if it is the last of it,
\* and keep it unless it is the next one.  Beyond the array anything can
\* happen and the model ends
ReorderTake ==
  /\ pc[Reorder] = "run"
  /\ writing = <<>>
  /\ recv_buf[Reorder] # <<>>
  /\ LET c == Head(recv_buf[Reorder])
         d == Doubled(c.l1)
     IN  IF c.l1 \notin DOMAIN d
         THEN /\ pc' = [pc EXCEPT ![Reorder] = "overrun"]
              /\ UNCHANGED <<chunks_per_anchor, writing, tree>>
         ELSE /\ chunks_per_anchor' = IF c.last THEN [d EXCEPT ![c.l1] = c.l2 + 1] ELSE d
              /\ IF Number(c) = next THEN writing' = <<c>> /\ UNCHANGED tree
                                     ELSE tree' = tree \union {c} /\ UNCHANGED writing
              /\ UNCHANGED pc
  /\ recv_buf' = [recv_buf EXCEPT ![Reorder] = Tail(@)]
  /\ UNCHANGED <<conf, que, nTerminated, send_buf, qid, cache, fragVars, next, out>>

WriteChunk_NoWait ==
  /\ writing # <<>>
  /\ LET c == writing[1]
     IN  /\ out' = Append(out, IF cache[c.content] = "COMPRESSED"
                               THEN Data(c.content) ELSE Fingerprint(c.content))
         /\ cache' = [cache EXCEPT ![c.content] = "FLUSHED"]
  /\ writing' = <<>>
  /\ UNCHANGED <<conf, que, nTerminated, pc, recv_buf, send_buf, qid, fragVars,
                 tree, next, chunks_per_anchor>>

\* write_chunk_to_file waits for the compression of the chunk or of its
\* original and writes the data once; then the next chunk, if it came early
WriteChunk ==
  /\ writing # <<>>
  /\ LET c == writing[1]
         l2 == next.l2 + 1
         nxt == IF chunks_per_anchor[next.l1] = l2 THEN [l1 |-> next.l1 + 1, l2 |-> 0]
                                                   ELSE [next EXCEPT !.l2 = l2]
         ready == {d \in tree : Number(d) = nxt}
     IN  /\ cache[c.content] # "UNCOMPRESSED"
         /\ out' = Append(out, IF cache[c.content] = "COMPRESSED"
                               THEN Data(c.content) ELSE Fingerprint(c.content))
         /\ cache' = [cache EXCEPT ![c.content] = "FLUSHED"]
         /\ next' = nxt
         /\ tree' = tree \ ready
         /\ writing' = IF ready = {} THEN <<>> ELSE <<CHOOSE d \in ready : TRUE>>
  /\ UNCHANGED <<conf, que, nTerminated, pc, recv_buf, send_buf, qid, fragVars,
                 chunks_per_anchor>>

\* every queue has ended: the flush loop would write what is next in the tree,
\* but that has been done; anything left there is a mismatch
ReorderEnds ==
  /\ Listening
  /\ Cardinality(Passed) = nqueues
  /\ pc' = [pc EXCEPT ![Reorder] = IF tree = {} THEN "done" ELSE "mismatch"]
  /\ UNCHANGED <<conf, que, nTerminated, recv_buf, send_buf, qid, cache, fragVars,
                 reorderVars>>

FragmentNext == FragmentRead \/ FragmentSplit \/ FragmentNoSplit

PoolNext(t) ==
  \/ Fetch(t)
  \/ InputEnds(t)
  \/ t[1] = "FragmentRefine" /\ Refine(t)
  \/ t[1] = "Deduplicate" /\ Deduplicate(t)
  \/ t[1] = "Compress" /\ (Compress(t) \/ PassOn(t))

ReorderNext == ReorderFetch \/ ReorderTake \/ WriteChunk \/ ReorderEnds

Next == \/ FragmentNext
        \/ \E t \in Pool : PoolNext(t)
        \/ \E t \in Pool \union {Fragment} : Enqueue(t) \/ Shutdown(t)
        \/ ReorderNext

\* some thread that can run does
Spec == Init /\ [][Next]_vars /\ WF_vars(Next)

(* --- properties --- *)

TypeOK ==
  /\ conf \in Confs
  /\ \A s \in Queues, q \in Q :
       /\ Len(que[s][q]) <= conf.QUEUE_SIZE
       /\ nTerminated[s][q] <= Producers(s, q)
  /\ \A t \in Pool \union {Reorder} : Len(recv_buf[t]) <= conf.FETCH
  /\ \A t \in Pool \union {Fragment}, s \in Queues : Len(send_buf[t][s]) <= conf.INSERT
  /\ \A c \in DOMAIN cache : cache[c] \in {"UNCOMPRESSED", "COMPRESSED", "FLUSHED"}
  /\ seek \in 0..Len(conf.file)
  /\ Len(writing) <= 1
  /\ \A i \in DOMAIN out : out[i] \in {Data(out[i].content), Fingerprint(out[i].content)}

\* the chunks that are somewhere between FragmentRefine and the archive
InFlight ==
  UNION ({{que[s][q][i] : i \in DOMAIN que[s][q]} :
            s \in Queues \ {"refine_que"}, q \in Q}
         \union {{send_buf[t][s][i] : i \in DOMAIN send_buf[t][s]} :
            t \in Pool, s \in Queues}
         \union {{recv_buf[t][i] : i \in DOMAIN recv_buf[t]} :
            t \in {u \in Pool : u[1] # "FragmentRefine"} \union {Reorder}}
         \union {tree, {writing[i] : i \in DOMAIN writing}})

\* A chunk that some stage still holds has not been written under its own
\* number: when Compress reads the size of a chunk already flushed (encoder.c:430),
\* a duplicate with a smaller number has been written in its place, and a chunk
\* freed by Reorder is in nobody's hands.
InFlightUnwritten ==
  \A c \in InFlight : c.l1 > next.l1 \/ (c.l1 = next.l1 /\ c.l2 >= next.l2)

\* No thread still has anything for a queue all its counted producers have
\* terminated (queue_enqueue asserts it), not even a Deduplicate thread for the
\* reorder queue, which only the Compress threads terminate (encoder.c:1395); and
\* Reorder, when every queue has ended, has nothing left in its tree.
NothingAfterEnd ==
  /\ \A s \in Queues, q \in Q : Terminated(s, q) =>
       \A t \in Pool \union {Fragment} :
         (t = Fragment \/ QidOf(t) = q) => send_buf[t][s] = <<>>
  /\ pc[Reorder] # "mismatch"

\* how many bytes of the input the records describe, byte j of record i
Described(s) == UNION {{i} \X (1..Len(s[i].content)) : i \in DOMAIN s}
Bytes(s) == Cardinality(Described(s))

Stream == INSTANCE DedupStream WITH Files <- {k.file : k \in Confs},
                                    file <- conf.file, upto <- Bytes(out)

\* The parallel encoder writes an archive DedupStream allows, whatever the
\* threads' order: in the order of the input, every chunk in full exactly once
\* and before any fingerprint of it, the copy the hash table saw first or not.
ImplementsStream == Stream!Spec

AllDone == \A t \in Threads : pc[t] = "done"

\* Reorder waits, for a compression or at an empty queue, while a thread that
\* has something to send waits at a full one
Jammed ==
  /\ conf.nthreads > 1
  /\ \/ writing # <<>> /\ cache[writing[1].content] = "UNCOMPRESSED"
     \/ Listening /\ que["reorder_que"][Turn(Cardinality(Passed))] = <<>>
  /\ \E t \in Pool \union {Fragment} : \E s \in Outputs[t[1]] :
       MustSend(t, s) /\ Len(que[s][QidOf(t)]) = conf.QUEUE_SIZE

\* a chunk has come so far ahead of the others that one doubling of
\* chunks_per_anchor is not enough for it (encoder.c:1238)
Overran == pc[Reorder] = "overrun" /\ Cardinality(conf.cuts) >= 2 * conf.anchors

\* The pipeline ends with the whole file written, and only two things can keep
\* it from that: a jam, which takes several threads per stage and queues that
\* fill, and a file with more coarse chunks than the array takes doubled once.
EndsOrFails == <>[](\/ AllDone /\ Bytes(out) = Len(conf.file)
                    \/ Jammed
                    \/ Overran)
=============================================================================
