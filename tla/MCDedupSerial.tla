--------------------------- MODULE MCDedupSerial ---------------------------
(* Instances of DedupSerial for TLC: every file of at most five bytes.     *)
EXTENDS DedupSerial, SequencesExt

CONSTANTS a, b

MCFiles == BoundedSeq({a, b}, 5)
=============================================================================
