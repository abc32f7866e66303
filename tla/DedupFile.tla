----------------------------- MODULE DedupFile -----------------------------
(***************************************************************************)
(* The records of a dedup archive.  A chunk is the sequence of its bytes;  *)
(* the SHA1 sum of a chunk stands for its bytes (no two chunks collide)    *)
(* and compression loses nothing, so both kinds of record carry the bytes  *)
(* themselves and differ in whether a reader may use them.                 *)
(***************************************************************************)
EXTENDS Naturals, Sequences

Data(c) == [type |-> "TYPE_COMPRESS", content |-> c]
Fingerprint(c) == [type |-> "TYPE_FINGERPRINT", content |-> c]

\* s holds the data of c
HasData(s, c) == \E i \in 1..Len(s) : s[i] = Data(c)

\* what is read from n at a time after the first i bytes of f
NextBytes(f, i, n) == SubSeq(f, i + 1, IF i + n < Len(f) THEN i + n ELSE Len(f))
=============================================================================
