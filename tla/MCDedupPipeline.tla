-------------------------- MODULE MCDedupPipeline --------------------------
(* Instances of DedupPipeline for TLC.                                     *)
EXTENDS DedupPipeline

CONSTANTS x, y, z

Conf(file, n, perQueue, size, fetch, insert, maxbuf, jump, anc, cuts) ==
  [file |-> file, nthreads |-> n, MAX_THREADS_PER_QUEUE |-> perQueue,
   QUEUE_SIZE |-> size, FETCH |-> fetch, INSERT |-> insert,
   MAXBUF |-> maxbuf, ANCHOR_JUMP |-> jump, anchors |-> anc, cuts |-> cuts]

\* one thread per stage, as CKI's experiments run dedup (-t 1)
One == Conf(<<x, y, x, y>>, 1, 4, 2, 2, 2, 2, 1, 1, 1..4)
\* two threads per stage that share the queues: a duplicate can overtake the
\* chunk it refers to
Shared == Conf(<<x, y, x>>, 2, 2, 2, 2, 1, 2, 1, 1, 1..3)
\* a queue for each of two threads, so small that the pipeline can jam
Apart == Conf(<<x, y, z, x>>, 2, 1, 1, 1, 1, 4, 0, 1, {1})
\* three threads on two queues: the last queue has one producer
Uneven == Conf(<<x, x>>, 3, 2, 1, 1, 1, 2, 0, 2, {1})

\* three coarse chunks and an array for one: a duplicate that comes first needs
\* a second doubling
Ahead == Conf(<<x, y, x>>, 1, 4, 2, 2, 1, 3, 0, 1, {1, 2})

MCConfs == {One, Shared, Apart, Uneven, Ahead}
=============================================================================
