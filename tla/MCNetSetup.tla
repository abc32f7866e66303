---------------------------- MODULE MCNetSetup ----------------------------
(* Instances of NetSetup for TLC: the container's two regions are 8 bytes, *)
(* a word of an address is 3 bits, the second region is below the first.   *)
EXTENDS NetSetup

Ring3(a) == [f \in Rings |-> CASE f = "desc_table" -> a
                               [] f = "avail_ring" -> a + 1
                               [] f = "used_ring" -> a + 2]

\* rings at either end of either region, of full and of halved size
MCLayouts ==
  {[q \in Queues |-> [size |-> IF q = 0 THEN QUEUE_SIZE ELSE n,
                      ring |-> Ring3(IF q = 0 THEN a ELSE b)]] :
     n \in {QUEUE_SIZE, QUEUE_SIZE \div 2}, a \in {8, 24}, b \in {13, 29}}

MCDriverFeatures ==
  {MRG_RXBUF, INDIRECT_DESC, EVENT_IDX, VERSION_1, ACCESS_PLATFORM, 5, 17, 38}
MCJunk == {0, 77}
=============================================================================
