---------------------------- MODULE DedupSerial ----------------------------
(***************************************************************************)
(* dedup's serial encoder, SerialIntegratedPipeline (encoder.c), followed  *)
(* by its decoder, Decode (decoder.c), on the archive it leaves.           *)
(*                                                                         *)
(* The encoder reads MAXBUF bytes behind what the last round left over,    *)
(* cuts chunks off the front as long as rabinseg finds an anchor inside    *)
(* the buffer, and keeps the rest for the next round; the rest at the end  *)
(* of the file is a chunk of its own.  Where the anchors are is up to      *)
(* rabinseg: any place behind the first byte.  The decoder inflates into a *)
(* buffer of UNCOMPRESS_BOUND bytes that never grows.                      *)
(***************************************************************************)
EXTENDS DedupFile

CONSTANTS Byte,              \* the bytes of a file
          Files,             \* the possible input files
          MAXBUF,            \* bytes per read
          UNCOMPRESS_BOUND,  \* bytes the decoder has room for in one chunk
          CompressTypes      \* the compressions a user can ask for

ASSUME SerialAssumption ==
  /\ MAXBUF \in Nat \ {0}
  /\ UNCOMPRESS_BOUND \in Nat
  /\ CompressTypes \subseteq {"COMPRESS_NONE", "COMPRESS_GZIP", "COMPRESS_BZIP2"}
  /\ Files \subseteq Seq(Byte)

VARIABLES
  \* the encoder
  file,           \* the input
  compress_type,  \* of the archive's header
  seek,           \* how much of the input has been read
  buf,            \* chunk (or temp between two rounds): bytes not yet cut
  pc,             \* where the encoder is: "read", "split", "done"
  cache,          \* the chunks in the hash table
  out,            \* the archive
  \* the decoder
  reader,         \* "run", "end", or "failed" for an EXIT_TRACE
  rd,             \* records it has read
  known,          \* the chunks in its hash table
  restored        \* its output

encVars == <<file, compress_type, seek, buf, pc, cache, out>>
decVars == <<reader, rd, known, restored>>
vars == <<encVars, decVars>>

EncInit == /\ file \in Files
           /\ compress_type \in CompressTypes
           /\ seek = 0
           /\ buf = <<>>
           /\ pc = "read"
           /\ cache = {}
           /\ out = <<>>

DecInit == /\ reader = "run"
           /\ rd = 0
           /\ known = {}
           /\ restored = <<>>

Init == EncInit /\ DecInit

(* --- the encoder --- *)

Archive_InsertsFirst(c) ==
  /\ cache' = cache \union {c}
  /\ out' = Append(out, IF c \in cache' THEN Fingerprint(c) ELSE Data(c))

\* sub_Deduplicate, sub_Compress of a chunk seen for the first time, and the
\* serial write_chunk_to_file, one after the other on the same chunk
Archive(c) ==
  /\ cache' = cache \union {c}
  /\ out' = Append(out, IF c \in cache THEN Fingerprint(c) ELSE Data(c))

Fresh == NextBytes(file, seek, MAXBUF)

\* nothing left over and nothing new: the input was empty
ReadNothing ==
  /\ pc = "read"
  /\ buf \o Fresh = <<>>
  /\ pc' = "done"
  /\ UNCHANGED <<file, compress_type, seek, buf, cache, out>>

ReadEnd_Splits ==
  /\ pc = "read"
  /\ buf # <<>>
  /\ Fresh = <<>>
  /\ pc' = "split"
  /\ UNCHANGED <<file, compress_type, seek, buf, cache, out>>

\* nothing new: what is left over is the last chunk
ReadEnd ==
  /\ pc = "read"
  /\ buf # <<>>
  /\ Fresh = <<>>
  /\ Archive(buf)
  /\ buf' = <<>>
  /\ pc' = "done"
  /\ UNCHANGED <<file, compress_type, seek>>

ReadMore_SeeksFar ==
  /\ pc = "read"
  /\ Fresh # <<>>
  /\ buf' = buf \o Fresh
  /\ seek' = seek + MAXBUF
  /\ pc' = "split"
  /\ UNCHANGED <<file, compress_type, cache, out>>

ReadMore ==
  /\ pc = "read"
  /\ Fresh # <<>>
  /\ buf' = buf \o Fresh
  /\ seek' = seek + Len(Fresh)
  /\ pc' = "split"
  /\ UNCHANGED <<file, compress_type, cache, out>>

Split_Overlaps ==
  /\ pc = "split"
  /\ \E offset \in 1..(Len(buf) - 1) :
       /\ Archive(SubSeq(buf, 1, offset + 1))
       /\ buf' = SubSeq(buf, offset + 1, Len(buf))
  /\ UNCHANGED <<file, compress_type, seek, pc>>

\* rabinseg found an anchor inside the buffer
Split ==
  /\ pc = "split"
  /\ \E offset \in 1..(Len(buf) - 1) :
       /\ Archive(SubSeq(buf, 1, offset))
       /\ buf' = SubSeq(buf, offset + 1, Len(buf))
  /\ UNCHANGED <<file, compress_type, seek, pc>>

\* no anchor, or one at the end of the buffer: the two look the same
NoSplit ==
  /\ pc = "split"
  /\ pc' = "read"
  /\ UNCHANGED <<file, compress_type, seek, buf, cache, out>>

Encode == ReadNothing \/ ReadEnd \/ ReadMore \/ Split \/ NoSplit

(* --- the decoder, started when the archive is complete --- *)

\* uncompress_chunk: only COMPRESS_NONE makes a buffer of the size needed
Inflates(c) == compress_type = "COMPRESS_NONE" \/ Len(c) <= UNCOMPRESS_BOUND

\* a record whose bytes the decoder can have
Usable(r) == IF r.type = "TYPE_COMPRESS" THEN Inflates(r.content)
                                         ELSE r.content \in known

DecodeChunk ==
  /\ reader = "run"
  /\ rd < Len(out)
  /\ LET r == out[rd + 1]
     IN  /\ Usable(r)
         /\ known' = known \union {r.content}
         /\ restored' = restored \o r.content
  /\ rd' = rd + 1
  /\ UNCHANGED reader

DecodeFails ==
  /\ reader = "run"
  /\ rd < Len(out)
  /\ ~Usable(out[rd + 1])
  /\ reader' = "failed"
  /\ UNCHANGED <<rd, known, restored>>

DecodeEnd ==
  /\ reader = "run"
  /\ rd = Len(out)
  /\ reader' = "end"
  /\ UNCHANGED <<rd, known, restored>>

Decode == DecodeChunk \/ DecodeFails \/ DecodeEnd

Next == \/ Encode /\ UNCHANGED decVars
        \/ pc = "done" /\ Decode /\ UNCHANGED encVars

Spec == Init /\ [][Next]_vars /\ WF_vars(Next)

(* --- properties --- *)

TypeOK ==
  /\ file \in Files
  /\ compress_type \in CompressTypes
  /\ seek \in 0..Len(file)
  /\ buf \in Seq(Byte)
  /\ pc \in {"read", "split", "done"}
  /\ cache \subseteq Seq(Byte)
  /\ out \in Seq([type : {"TYPE_COMPRESS", "TYPE_FINGERPRINT"}, content : Seq(Byte)])
  /\ reader \in {"run", "end", "failed"}
  /\ rd \in 0..Len(out)
  /\ known \subseteq Seq(Byte)
  /\ restored \in Seq(Byte)

\* Decode undoes Encode: what it has written is always the beginning of the
\* input, all of it at the end, and the one thing that can stop it is a chunk
\* longer than its buffer (the TODO at decoder.c:126), never a fingerprint
\* whose chunk it has not seen (the EXIT_TRACE at decoder.c:243).
RoundTrip ==
  /\ restored = SubSeq(file, 1, Len(restored))
  /\ reader = "end" => restored = file
  /\ reader = "failed" => /\ out[rd + 1].type = "TYPE_COMPRESS"
                          /\ Len(out[rd + 1].content) > UNCOMPRESS_BOUND
                          /\ compress_type # "COMPRESS_NONE"

Stream == INSTANCE DedupStream WITH upto <- seek - Len(buf)

\* The serial encoder implements the archive DedupStream promises: every byte
\* once and in order across reads, left-overs and splits, every chunk in full
\* exactly once.
ImplementsStream == Stream!Spec

\* Encoding and decoding end: every round of the read loop that cuts nothing
\* reads something, and what is left at the end of the file is written once.
TripEnds == <>(reader # "run")
=============================================================================
