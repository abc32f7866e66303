---------------------------- MODULE DedupStream ----------------------------
(***************************************************************************)
(* What the encoders of dedup promise: the archive grows by one record at  *)
(* a time, the records describe the input file from its first byte to its  *)
(* last without a gap, and a chunk is written in full exactly once, before *)
(* any reference to it.  SerialIntegratedPipeline and the parallel         *)
(* pipeline both implement this.                                           *)
(***************************************************************************)
EXTENDS DedupFile

CONSTANT Files  \* the possible input files

VARIABLES file,  \* the input
          upto,  \* how many of its bytes the records describe
          out    \* the records

Init == /\ file \in Files
        /\ upto = 0
        /\ out = <<>>

WriteChunk ==
  \E to \in (upto + 1)..Len(file) :
    LET c == SubSeq(file, upto + 1, to)
    IN  /\ upto' = to
        /\ out' = Append(out, IF HasData(out, c) THEN Fingerprint(c) ELSE Data(c))
        /\ UNCHANGED file

Spec == Init /\ [][WriteChunk]_<<file, upto, out>>
=============================================================================
