------------------------- MODULE DedupSerialProofs -------------------------
(***************************************************************************)
(* Theorems about DedupSerial, for every file, every size of the buffers   *)
(* and every choice of anchors: decoding undoes encoding, and the encoder  *)
(* implements DedupStream.                                                 *)
(*                                                                         *)
(* The invariant says where in the file each record's chunk lies: cut[i]   *)
(* bytes of the file come up to the end of record i.  The encoder is at    *)
(* cut[Len(out)], the decoder at cut[rd].                                  *)
(***************************************************************************)
EXTENDS DedupSerial, SequenceTheorems, TLAPS

Record == [type : {"TYPE_COMPRESS", "TYPE_FINGERPRINT"}, content : Seq(Byte)]

\* how much of the file the records describe
Upto == seek - Len(buf)

\* the buffer is the part of the file read but not yet described
InHand == Len(buf) <= seek /\ buf = SubSeq(file, Upto + 1, seek)

\* the encoder stops when there is nothing left
AtEnd == pc = "done" => buf = <<>> /\ seek = Len(file)

\* the hash table has the chunks of the records
Described == cache = {out[i].content : i \in 1..Len(out)}

\* a fingerprint comes after the data it stands for
Backed == \A i \in 1..Len(out) :
            out[i].type = "TYPE_FINGERPRINT" =>
              \E j \in 1..(i - 1) : out[j] = Data(out[i].content)

\* the decoder's hash table has the chunks of the records read, and it stops
\* at the end or at a record it cannot use
Reading ==
  /\ known = {out[i].content : i \in 1..rd}
  /\ rd > 0 => pc = "done"
  /\ reader # "run" => pc = "done"
  /\ reader = "end" => rd = Len(out)
  /\ reader = "failed" => rd < Len(out) /\ ~Usable(out[rd + 1])

\* cut[i] bytes of the file f lie up to the end of record i of o: u to the end
\* of the last, as many as in r to the end of record k
Cuts(cut, f, o, u, r, k) ==
  /\ cut[0] = 0
  /\ cut[Len(o)] = u
  /\ \A i \in 1..Len(o) :
       /\ cut[i - 1] <= cut[i]
       /\ o[i].content = SubSeq(f, cut[i - 1] + 1, cut[i])
  /\ r = SubSeq(f, 1, cut[k])

Laid == \E cut \in [0..Len(out) -> 0..Len(file)] : Cuts(cut, file, out, Upto, restored, rd)

IInv == /\ TypeOK
        /\ InHand
        /\ AtEnd
        /\ Described
        /\ Backed
        /\ Reading
        /\ Laid

(* What is read: what is left of the file, or MAXBUF bytes of it.          *)
LEMMA FreshIs ==
  ASSUME TypeOK
  PROVE  /\ Fresh \in Seq(Byte)
         /\ seek + Len(Fresh) \in 0..Len(file)
         /\ Fresh = SubSeq(file, seek + 1, seek + Len(Fresh))
         /\ Fresh = <<>> <=> seek = Len(file)
<1> DEFINE n == IF seek + MAXBUF < Len(file) THEN seek + MAXBUF ELSE Len(file)
<1>1. file \in Seq(Byte) /\ Len(file) \in Nat /\ seek \in 0..Len(file) /\ MAXBUF \in Nat \ {0}
  BY SerialAssumption, LenProperties DEF TypeOK
<1>2. n \in seek..Len(file) /\ (n = seek <=> seek = Len(file))
  BY <1>1
<1>3. Fresh = SubSeq(file, seek + 1, n)
  BY DEF Fresh, NextBytes
<1>4. \A i \in (seek + 1)..n : file[i] \in Byte
  BY <1>1, <1>2, ElementOfSeq
<1>5. Fresh \in Seq(Byte) /\ Len(Fresh) = n - seek
  <2> HIDE DEF n
  <2>1. /\ SubSeq(file, seek + 1, n) \in Seq(Byte)
        /\ Len(SubSeq(file, seek + 1, n)) = IF seek + 1 <= n THEN n - (seek + 1) + 1 ELSE 0
    BY <1>1, <1>2, <1>4, SubSeqProperties
  <2> QED BY <1>1, <1>2, <1>3, <2>1
<1>6. Fresh = <<>> <=> Len(Fresh) = 0
  BY <1>5, EmptySeq
<1> QED
  <2> HIDE DEF n
  <2> QED BY <1>1, <1>2, <1>3, <1>5, <1>6

(* A part of the file is a sequence of bytes of the length one expects.    *)
LEMMA PartOfFile ==
  ASSUME NEW f \in Seq(Byte), NEW m \in Nat, NEW n \in m..Len(f)
  PROVE  /\ SubSeq(f, m + 1, n) \in Seq(Byte)
         /\ Len(SubSeq(f, m + 1, n)) = n - m
<1>1. Len(f) \in Nat /\ \A i \in (m + 1)..n : f[i] \in Byte
  BY LenProperties, ElementOfSeq
<1>2. /\ SubSeq(f, m + 1, n) \in Seq(Byte)
      /\ Len(SubSeq(f, m + 1, n)) = IF m + 1 <= n THEN n - (m + 1) + 1 ELSE 0
  BY <1>1, SubSeqProperties
<1> QED BY <1>1, <1>2

(* A part of a part of the file is a part of the file.                     *)
LEMMA PartOfPart ==
  ASSUME NEW f \in Seq(Byte), NEW u \in Nat, NEW w \in Nat, w <= Len(f),
         NEW m \in Nat, NEW n \in Nat, m < n, n <= w - u
  PROVE  SubSeq(SubSeq(f, u + 1, w), m + 1, n) = SubSeq(f, u + m + 1, u + n)
<1> DEFINE i == u + 1
           k == m + 1
<1>1. Len(f) \in Nat
  BY LenProperties
<1>2. i \in 1..Len(f) /\ w \in 1..Len(f) /\ k \in 1..(w - i + 1) /\ n \in 1..(w - i + 1)
  BY <1>1
<1>3. i + k - 1 = u + m + 1 /\ i + n - 1 = u + n
  OBVIOUS
<1> HIDE DEF i, k
<1>4. SubSeq(SubSeq(f, i, w), k, n) = SubSeq(f, i + k - 1, i + n - 1)
  BY <1>2, SubSeqOfSubSeq
<1> QED BY <1>3, <1>4 DEF i, k

LEMMA InitInv == Init => IInv
<1> SUFFICES ASSUME Init PROVE IInv
  OBVIOUS
<1> USE DEF Init, EncInit, DecInit
<1>1. file \in Seq(Byte) /\ Len(file) \in Nat
  BY SerialAssumption, LenProperties
<1>2. <<>> \in Seq(Byte) /\ Len(<<>>) = 0 /\ <<>> \in Seq(Record)
  BY EmptySeq
<1>3. TypeOK
  BY <1>1, <1>2 DEF TypeOK, Record
<1>4. SubSeq(file, 1, 0) = <<>>
  BY <1>1, SubSeqEmpty
<1>5. InHand /\ AtEnd
  BY <1>2, <1>4 DEF InHand, AtEnd, Upto
<1>6. Described /\ Backed /\ Reading
  BY <1>2 DEF Described, Backed, Reading
<1>7. Laid
  <2> DEFINE zero == [i \in 0..0 |-> 0]
  <2>1. /\ Len(out) = 0 /\ Upto = 0 /\ rd = 0 /\ restored = <<>>
        /\ 1..Len(out) = {}
    <3>1. out = <<>> /\ buf = <<>> /\ seek = 0 /\ rd = 0 /\ restored = <<>>
      OBVIOUS
    <3>2. Len(out) = 0 /\ Len(buf) = 0
      BY <1>2, <3>1
    <3>3. seek = 0
      BY <3>1
    <3> HIDE DEF Init, EncInit
    <3>4. Upto = 0
      BY <3>2, <3>3 DEF Upto
    <3>5. 1..0 = {}
      OBVIOUS
    <3> QED BY <3>1, <3>2, <3>4, <3>5
  <2>2. zero \in [0..Len(out) -> 0..Len(file)] /\ zero[0] = 0
    BY <1>1, <1>2
  <2> HIDE DEF zero
  <2>3. Cuts(zero, file, out, Upto, restored, rd)
    BY <1>4, <2>1, <2>2 DEF Cuts
  <2> QED BY <2>2, <2>3 DEF Laid
<1> QED BY <1>3, <1>5, <1>6, <1>7 DEF IInv

(* A chunk is in the hash table if and only if its data is in the archive. *)
LEMMA CacheIsData ==
  ASSUME IInv, NEW c
  PROVE  c \in cache <=> HasData(out, c)
<1>1. \A i \in 1..Len(out) : out[i] \in Record
  BY ElementOfSeq DEF IInv, TypeOK, Record
<1>2. \A i \in 1..Len(out) : out[i] = Data(out[i].content) \/ out[i].type = "TYPE_FINGERPRINT"
  BY <1>1 DEF Record, Data
<1>3. ASSUME c \in cache PROVE HasData(out, c)
  <2>1. PICK i \in 1..Len(out) : out[i].content = c
    BY <1>3 DEF IInv, Described
  <2>2. CASE out[i] = Data(c)
    BY <2>2 DEF HasData
  <2>3. CASE out[i].type = "TYPE_FINGERPRINT"
    <3>1. PICK j \in 1..(i - 1) : out[j] = Data(c)
      BY <2>1, <2>3 DEF IInv, Backed
    <3>2. j \in 1..Len(out)
      BY <2>1, <3>1, LenProperties DEF IInv, TypeOK
    <3> QED BY <3>1, <3>2 DEF HasData
  <2> QED BY <1>2, <2>1, <2>2, <2>3
<1>4. ASSUME HasData(out, c) PROVE c \in cache
  <2>1. PICK i \in 1..Len(out) : out[i] = Data(c)
    BY <1>4 DEF HasData
  <2>2. out[i].content = c
    BY <2>1 DEF Data
  <2> QED BY <2>1, <2>2 DEF IInv, Described
<1> QED BY <1>3, <1>4

(* What a chunk cut off the front of the buffer does to the archive: the   *)
(* records still describe the file, up to the end of the chunk, and it is  *)
(* a step of DedupStream.                                                  *)
LEMMA ArchiveStep ==
  ASSUME IInv, pc # "done",
         NEW c, Archive(c), UNCHANGED <<file, compress_type, decVars>>,
         Upto' \in (Upto + 1)..Len(file), c = SubSeq(file, Upto + 1, Upto')
  PROVE  /\ cache' \subseteq Seq(Byte)
         /\ out' \in Seq(Record)
         /\ Described'
         /\ Backed'
         /\ Reading'
         /\ rd' \in 0..Len(out')
         /\ Laid'
         /\ Stream!WriteChunk
<1> DEFINE r == IF c \in cache THEN Fingerprint(c) ELSE Data(c)
<1>1. /\ file \in Seq(Byte) /\ Len(file) \in Nat
      /\ Upto \in 0..Len(file)
      /\ out \in Seq(Record) /\ Len(out) \in Nat
      /\ rd = 0 /\ reader = "run" /\ known = {}
  BY SerialAssumption, LenProperties DEF IInv, TypeOK, Record, InHand, Upto, Reading
<1>2. c \in Seq(Byte)
  BY <1>1, PartOfFile
<1>3. r \in Record /\ r.content = c
  BY <1>2 DEF Record, Data, Fingerprint
<1>4. out' = Append(out, r) /\ cache' = cache \union {c}
  BY DEF Archive
<1> HIDE DEF r
<1>5. /\ out' \in Seq(Record)
      /\ Len(out') = Len(out) + 1
      /\ \A i \in 1..Len(out) : out'[i] = out[i]
      /\ out'[Len(out) + 1] = r
  BY <1>1, <1>3, <1>4, AppendProperties
<1>6. Described'
  <2>1. cache = {out[i].content : i \in 1..Len(out)}
    BY DEF IInv, Described
  <2>2. 1..Len(out') = 1..Len(out) \union {Len(out) + 1}
    BY <1>1, <1>5
  <2>3. {out'[i].content : i \in 1..Len(out')} = {out[i].content : i \in 1..Len(out)} \union {c}
    BY <1>3, <1>5, <2>2
  <2> QED BY <1>4, <2>1, <2>3 DEF Described
<1>7. Backed'
  <2> SUFFICES ASSUME NEW i \in 1..Len(out'), out'[i].type = "TYPE_FINGERPRINT"
               PROVE  \E j \in 1..(i - 1) : out'[j] = Data(out'[i].content)
    BY DEF Backed
  <2>1. CASE i <= Len(out)
    <3>1. i \in 1..Len(out) /\ out'[i] = out[i]
      BY <1>1, <1>5, <2>1
    <3>2. PICK j \in 1..(i - 1) : out[j] = Data(out[i].content)
      BY <3>1 DEF IInv, Backed
    <3>3. out'[j] = out[j]
      BY <1>1, <1>5, <3>1, <3>2
    <3> QED BY <3>1, <3>2, <3>3
  <2>2. CASE i = Len(out) + 1
    <3>1. out'[i] = r /\ r.type = "TYPE_FINGERPRINT"
      BY <1>5, <2>2
    <3>2. c \in cache
      BY <3>1 DEF r, Data
    <3>3. PICK j \in 1..Len(out) : out[j] = Data(c)
      BY <3>2, CacheIsData DEF HasData
    <3>4. j \in 1..(i - 1) /\ out'[j] = out[j]
      BY <1>1, <1>5, <2>2, <3>3
    <3> QED BY <1>3, <3>1, <3>3, <3>4
  <2> QED BY <1>1, <1>5, <2>1, <2>2
<1>8. Reading' /\ rd' \in 0..Len(out')
  <2>1. rd' = 0 /\ reader' = "run" /\ known' = {}
    BY <1>1 DEF decVars
  <2>2. 1..rd' = {}
    BY <2>1
  <2> QED BY <1>1, <1>5, <2>1, <2>2 DEF Reading
<1>9. Laid'
  <2>1. PICK cut \in [0..Len(out) -> 0..Len(file)] : Cuts(cut, file, out, Upto, restored, rd)
    BY DEF IInv, Laid
  <2> DEFINE more == [i \in 0..(Len(out) + 1) |-> IF i <= Len(out) THEN cut[i] ELSE Upto']
  <2>2. file' = file /\ restored' = restored /\ rd' = 0
    BY <1>1 DEF decVars
  <2>3. more \in [0..Len(out') -> 0..Len(file')]
    BY <1>1, <1>5, <2>1, <2>2
  <2>4. more[0] = 0 /\ more[Len(out')] = Upto' /\ more[Len(out)] = Upto
    BY <1>1, <1>5, <2>1 DEF Cuts
  <2>5. \A i \in 1..Len(out) : i - 1 \in 0..Len(out) /\ more[i] = cut[i] /\ more[i - 1] = cut[i - 1]
    BY <1>1
  <2>6. ASSUME NEW i \in 1..Len(out')
        PROVE  /\ more[i - 1] <= more[i]
               /\ out'[i].content = SubSeq(file', more[i - 1] + 1, more[i])
    <3> HIDE DEF more
    <3>1. CASE i <= Len(out)
      <4>1. i \in 1..Len(out) /\ out'[i] = out[i]
        BY <1>1, <1>5, <3>1
      <4>2. cut[i - 1] <= cut[i] /\ out[i].content = SubSeq(file, cut[i - 1] + 1, cut[i])
        BY <2>1, <4>1 DEF Cuts
      <4> QED BY <2>2, <2>5, <4>1, <4>2
    <3>2. CASE i = Len(out) + 1
      <4>1. i - 1 = Len(out) /\ i = Len(out')
        BY <1>1, <1>5, <3>2
      <4>2. more[i - 1] = Upto /\ more[i] = Upto'
        BY <2>4, <4>1
      <4> QED BY <1>1, <1>3, <1>5, <2>2, <3>2, <4>2
    <3> QED BY <1>1, <1>5, <3>1, <3>2
  <2>7. restored' = SubSeq(file', 1, more[rd'])
    BY <1>1, <2>1, <2>2, <2>4 DEF Cuts
  <2> HIDE DEF more
  <2>8. Cuts(more, file', out', Upto', restored', rd')
    BY <2>3, <2>4, <2>6, <2>7 DEF Cuts
  <2> QED BY <2>3, <2>8 DEF Laid
<1>10. cache' \subseteq Seq(Byte)
  BY <1>2, <1>4 DEF IInv, TypeOK
<1>11. Stream!WriteChunk
  <2>1. c \in cache <=> HasData(out, c)
    BY CacheIsData
  <2>2. out' = Append(out, IF HasData(out, c) THEN Fingerprint(c) ELSE Data(c))
    BY <2>1 DEF Archive
  <2> QED BY <2>2 DEF Stream!WriteChunk, Stream!HasData, Stream!Data, Stream!Fingerprint,
                      HasData, Data, Fingerprint, Upto
<1> QED BY <1>5, <1>6, <1>7, <1>8, <1>9, <1>10, <1>11

(* The facts about the state that the steps use.                           *)
LEMMA Facts ==
  ASSUME IInv
  PROVE  /\ file \in Seq(Byte) /\ Len(file) \in Nat
         /\ seek \in 0..Len(file)
         /\ buf \in Seq(Byte) /\ Len(buf) \in Nat
         /\ Upto \in 0..Len(file) /\ Upto + Len(buf) = seek
         /\ out \in Seq(Record) /\ Len(out) \in Nat
         /\ pc # "done" => rd = 0 /\ reader = "run"
  BY SerialAssumption, LenProperties
     DEF IInv, TypeOK, Record, InHand, Upto, Reading

LEMMA QuietStep ==
  ASSUME IInv, ReadNothing \/ NoSplit, UNCHANGED decVars
  PROVE  IInv' /\ UNCHANGED <<file, Upto, out>>
<1>1. /\ pc # "done" /\ pc' \in {"read", "done"}
      /\ UNCHANGED <<file, compress_type, seek, buf, cache, out, reader, rd, known, restored>>
  BY DEF ReadNothing, NoSplit, decVars
<1>2. UNCHANGED Upto
  BY <1>1 DEF Upto
<1>3. pc' = "done" => buf = <<>> /\ seek = Len(file)
  <2> SUFFICES ASSUME ReadNothing PROVE buf = <<>> /\ seek = Len(file)
    BY DEF NoSplit
  <2>1. Fresh \in Seq(Byte) /\ (Fresh = <<>> <=> seek = Len(file))
    BY FreshIs DEF IInv
  <2>2. buf = <<>> /\ Fresh = <<>>
    BY <2>1, Facts, ConcatEqualIffEmpty DEF ReadNothing
  <2> QED BY <2>1, <2>2
<1>4. TypeOK' /\ InHand' /\ AtEnd' /\ Described' /\ Backed'
  BY <1>1, <1>2, <1>3 DEF IInv, TypeOK, InHand, AtEnd, Described, Backed
<1>5. Reading'
  BY <1>1, Facts DEF IInv, Reading
<1>6. Laid'
  BY <1>1, <1>2 DEF IInv, Laid
<1> QED BY <1>1, <1>2, <1>4, <1>5, <1>6 DEF IInv

LEMMA ReadMoreStep ==
  ASSUME IInv, ReadMore, UNCHANGED decVars
  PROVE  IInv' /\ UNCHANGED <<file, Upto, out>>
<1>1. /\ pc = "read" /\ pc' = "split"
      /\ buf' = buf \o Fresh /\ seek' = seek + Len(Fresh)
      /\ UNCHANGED <<file, compress_type, cache, out, reader, rd, known, restored>>
  BY DEF ReadMore, decVars
<1>2. /\ Fresh \in Seq(Byte) /\ Len(Fresh) \in Nat
      /\ seek + Len(Fresh) \in 0..Len(file)
      /\ Fresh = SubSeq(file, seek + 1, seek + Len(Fresh))
  BY FreshIs, LenProperties DEF IInv
<1>3. buf' \in Seq(Byte) /\ Len(buf') = Len(buf) + Len(Fresh)
  BY <1>1, <1>2, Facts, ConcatProperties
<1>4. UNCHANGED Upto
  BY <1>1, <1>2, <1>3, Facts DEF Upto
<1>5. InHand'
  <2>1. buf = SubSeq(file, Upto + 1, seek)
    BY DEF IInv, InHand
  <2>2. /\ Upto + 1 \in 1..(Len(file) + 1)
        /\ seek \in ((Upto + 1) - 1)..Len(file)
        /\ seek + Len(Fresh) \in seek..Len(file)
    <3>1. /\ Upto \in Nat /\ seek \in Nat /\ Len(file) \in Nat /\ Len(Fresh) \in Nat
          /\ Upto <= seek /\ seek <= Len(file) /\ seek + Len(Fresh) <= Len(file)
      BY <1>2, Facts
    <3> QED BY <3>1
  <2>3. SubSeq(file, Upto + 1, seek) \o SubSeq(file, seek + 1, seek + Len(Fresh))
          = SubSeq(file, Upto + 1, seek + Len(Fresh))
    BY <2>2, Facts, ConcatAdjacentSubSeq
  <2>4. buf' = SubSeq(file', Upto' + 1, seek')
    BY <1>1, <1>2, <1>4, <2>1, <2>3
  <2>5. Len(buf') <= seek'
    BY <1>1, <1>2, <1>3, Facts
  <2> QED BY <2>4, <2>5 DEF InHand
<1>6. TypeOK' /\ AtEnd' /\ Described' /\ Backed'
  BY <1>1, <1>2, <1>3 DEF IInv, TypeOK, AtEnd, Described, Backed
<1>7. Reading'
  BY <1>1, Facts DEF IInv, Reading
<1>8. Laid'
  BY <1>1, <1>4 DEF IInv, Laid
<1> QED BY <1>1, <1>4, <1>5, <1>6, <1>7, <1>8 DEF IInv

LEMMA SplitStep ==
  ASSUME IInv, Split, UNCHANGED decVars
  PROVE  IInv' /\ Stream!WriteChunk
<1>1. PICK offset \in 1..(Len(buf) - 1) :
        /\ Archive(SubSeq(buf, 1, offset))
        /\ buf' = SubSeq(buf, offset + 1, Len(buf))
  BY DEF Split
<1>2. /\ pc = "split" /\ pc' = pc /\ seek' = seek
      /\ UNCHANGED <<file, compress_type, reader, rd, known, restored>>
  BY DEF Split, decVars
<1>3. offset \in Nat /\ offset > 0 /\ offset < Len(buf)
  BY <1>1, Facts
<1>4. buf' \in Seq(Byte) /\ Len(buf') = Len(buf) - offset
  BY <1>1, <1>3, Facts, PartOfFile
<1>5. Upto' = Upto + offset /\ Upto' \in (Upto + 1)..Len(file) /\ Upto' <= seek
  BY <1>2, <1>3, <1>4, Facts DEF Upto
<1>6. /\ SubSeq(buf, 1, offset) = SubSeq(file, Upto + 1, Upto')
      /\ buf' = SubSeq(file, Upto' + 1, seek)
  <2>1. buf = SubSeq(file, Upto + 1, seek)
    BY DEF IInv, InHand
  <2>2. SubSeq(buf, 0 + 1, offset) = SubSeq(file, Upto + 0 + 1, Upto + offset)
    <3>1. Upto \in Nat /\ seek \in Nat /\ seek <= Len(file) /\ offset <= seek - Upto
      BY <1>3, Facts
    <3> QED BY <1>3, <2>1, <3>1, Facts, PartOfPart
  <2>3. SubSeq(buf, offset + 1, Len(buf)) = SubSeq(file, Upto + offset + 1, Upto + Len(buf))
    <3>1. Upto \in Nat /\ seek \in Nat /\ seek <= Len(file) /\ Len(buf) <= seek - Upto
      BY <1>3, Facts
    <3> QED BY <1>3, <2>1, <3>1, Facts, PartOfPart
  <2>4. Upto + 0 + 1 = Upto + 1 /\ 0 + 1 = 1 /\ Upto + Len(buf) = seek
    BY Facts
  <2> QED BY <1>1, <1>5, <2>2, <2>3, <2>4
<1>7. UNCHANGED <<file, compress_type, decVars>>
  BY <1>2 DEF decVars
<1>8. /\ cache' \subseteq Seq(Byte) /\ out' \in Seq(Record)
      /\ Described' /\ Backed' /\ Reading' /\ rd' \in 0..Len(out') /\ Laid'
      /\ Stream!WriteChunk
  BY <1>1, <1>2, <1>5, <1>6, <1>7, ArchiveStep
<1>9. InHand'
  BY <1>2, <1>3, <1>4, <1>6, Facts DEF InHand
<1>10. TypeOK' /\ AtEnd'
  BY <1>2, <1>4, <1>8 DEF IInv, TypeOK, AtEnd, Record
<1> QED BY <1>8, <1>9, <1>10 DEF IInv

LEMMA ReadEndStep ==
  ASSUME IInv, ReadEnd, UNCHANGED decVars
  PROVE  IInv' /\ Stream!WriteChunk
<1>1. /\ pc = "read" /\ pc' = "done" /\ Archive(buf)
      /\ buf # <<>> /\ Fresh = <<>> /\ buf' = <<>> /\ seek' = seek
      /\ UNCHANGED <<file, compress_type, reader, rd, known, restored>>
  BY DEF ReadEnd, decVars
<1>2. seek = Len(file)
  BY <1>1, FreshIs DEF IInv
<1>3. Len(buf) > 0
  BY <1>1, Facts, EmptySeq
<1>4. Len(buf') = 0
  BY <1>1, EmptySeq
<1>5. Upto' = Len(file) /\ Upto' \in (Upto + 1)..Len(file)
  BY <1>1, <1>2, <1>3, <1>4, Facts DEF Upto
<1>6. buf = SubSeq(file, Upto + 1, Upto')
  BY <1>2, <1>5 DEF IInv, InHand
<1>7. UNCHANGED <<file, compress_type, decVars>>
  BY <1>1 DEF decVars
<1>8. /\ cache' \subseteq Seq(Byte) /\ out' \in Seq(Record)
      /\ Described' /\ Backed' /\ Reading' /\ rd' \in 0..Len(out') /\ Laid'
      /\ Stream!WriteChunk
  BY <1>1, <1>5, <1>6, <1>7, ArchiveStep
<1>9. InHand'
  <2>1. SubSeq(file, Len(file) + 1, Len(file)) = <<>>
    BY Facts, SubSeqEmpty
  <2>2. Len(buf') <= seek'
    BY <1>1, <1>4, Facts
  <2>3. buf' = SubSeq(file', Upto' + 1, seek')
    BY <1>1, <1>2, <1>5, <2>1
  <2> QED BY <2>2, <2>3 DEF InHand
<1>10. TypeOK' /\ AtEnd'
  <2>1. <<>> \in Seq(Byte)
    BY EmptySeq
  <2> QED BY <1>1, <1>2, <1>8, <2>1 DEF IInv, TypeOK, AtEnd, Record
<1> QED BY <1>8, <1>9, <1>10 DEF IInv

LEMMA DecodeChunkStep ==
  ASSUME IInv, pc = "done", DecodeChunk, UNCHANGED encVars
  PROVE  IInv' /\ UNCHANGED <<file, Upto, out>>
<1> DEFINE r == out[rd + 1]
<1>1. /\ reader = "run" /\ reader' = reader /\ rd < Len(out) /\ rd' = rd + 1
      /\ known' = known \union {r.content} /\ restored' = restored \o r.content
      /\ UNCHANGED <<file, compress_type, seek, buf, pc, cache, out>>
  BY DEF DecodeChunk, encVars
<1>2. UNCHANGED Upto
  BY <1>1 DEF Upto
<1>3. rd \in Nat /\ rd + 1 \in 1..Len(out) /\ rd' \in 1..Len(out)
  BY <1>1, Facts DEF IInv, TypeOK
<1>4. r.content \in Seq(Byte)
  <2>1. r \in Record
    BY <1>3, Facts, ElementOfSeq
  <2> QED BY <2>1 DEF Record
<1> HIDE DEF r
<1>5. restored' \in Seq(Byte) /\ known' \subseteq Seq(Byte)
  BY <1>1, <1>4, ConcatProperties DEF IInv, TypeOK
<1>6. TypeOK' /\ InHand' /\ AtEnd' /\ Described' /\ Backed'
  <2>1. rd' \in 0..Len(out')
    BY <1>1, <1>3
  <2>2. TypeOK'
    BY <1>1, <1>5, <2>1 DEF IInv, TypeOK
  <2> QED BY <1>1, <1>2, <2>2 DEF IInv, InHand, AtEnd, Described, Backed
<1>7. Reading'
  <2>1. 1..(rd + 1) = 1..rd \union {rd + 1}
    BY <1>3
  <2>2. {out[i].content : i \in 1..(rd + 1)} = {out[i].content : i \in 1..rd} \union {r.content}
    BY <2>1 DEF r
  <2>3. known' = {out'[i].content : i \in 1..rd'}
    BY <1>1, <2>2 DEF IInv, Reading
  <2> QED BY <1>1, <2>3 DEF Reading
<1>8. Laid'
  <2>1. PICK cut \in [0..Len(out) -> 0..Len(file)] : Cuts(cut, file, out, Upto, restored, rd)
    BY DEF IInv, Laid
  <2>2. /\ restored = SubSeq(file, 1, cut[rd])
        /\ r.content = SubSeq(file, cut[rd] + 1, cut[rd + 1])
        /\ cut[rd] <= cut[rd + 1]
    <3>1. (rd + 1) - 1 = rd
      BY <1>3
    <3> QED BY <1>3, <2>1, <3>1 DEF Cuts, r
  <2>3. cut[rd] \in 0..Len(file) /\ cut[rd + 1] \in cut[rd]..Len(file)
    BY <1>3, <2>1, <2>2, Facts
  <2>4. SubSeq(file, 1, cut[rd]) \o SubSeq(file, cut[rd] + 1, cut[rd + 1])
          = SubSeq(file, 1, cut[rd + 1])
    <3>1. 1 \in 1..(Len(file) + 1) /\ cut[rd] \in (1 - 1)..Len(file)
      BY <2>3, Facts
    <3> QED BY <2>3, <3>1, Facts, ConcatAdjacentSubSeq
  <2>5. restored' = SubSeq(file, 1, cut[rd'])
    BY <1>1, <2>2, <2>4
  <2>6. Cuts(cut, file', out', Upto', restored', rd')
    BY <1>1, <1>2, <2>1, <2>5 DEF Cuts
  <2> QED BY <1>1, <2>1, <2>6 DEF Laid
<1> QED BY <1>1, <1>2, <1>6, <1>7, <1>8 DEF IInv

LEMMA DecodeStopStep ==
  ASSUME IInv, pc = "done", DecodeFails \/ DecodeEnd, UNCHANGED encVars
  PROVE  IInv' /\ UNCHANGED <<file, Upto, out>>
<1>1. /\ reader' \in {"end", "failed"}
      /\ reader' = "end" => rd = Len(out)
      /\ reader' = "failed" => rd < Len(out) /\ ~Usable(out[rd + 1])
      /\ UNCHANGED <<file, compress_type, seek, buf, pc, cache, out, rd, known, restored>>
  BY DEF DecodeFails, DecodeEnd, encVars
<1>2. UNCHANGED Upto
  BY <1>1 DEF Upto
<1>3. Usable(out[rd + 1])' <=> Usable(out[rd + 1])
  BY <1>1 DEF Usable, Inflates
<1>4. Reading'
  BY <1>1, <1>3 DEF IInv, Reading
<1>5. TypeOK' /\ InHand' /\ AtEnd' /\ Described' /\ Backed' /\ Laid'
  BY <1>1, <1>2 DEF IInv, TypeOK, InHand, AtEnd, Described, Backed, Laid
<1> QED BY <1>1, <1>2, <1>4, <1>5 DEF IInv

(* Every step keeps the invariant and is a step of DedupStream or none.    *)
LEMMA StepInv ==
  ASSUME IInv, [Next]_vars
  PROVE  IInv' /\ [Stream!WriteChunk]_<<file, Upto, out>>
<1>1. CASE Encode /\ UNCHANGED decVars
  BY <1>1, QuietStep, ReadMoreStep, SplitStep, ReadEndStep DEF Encode
<1>2. CASE pc = "done" /\ Decode /\ UNCHANGED encVars
  BY <1>2, DecodeChunkStep, DecodeStopStep DEF Decode
<1>3. CASE UNCHANGED vars
  <2>1. UNCHANGED <<file, compress_type, seek, buf, pc, cache, out, reader, rd, known, restored>>
    BY <1>3 DEF vars, encVars, decVars
  <2>2. UNCHANGED Upto
    BY <2>1 DEF Upto
  <2>3. Usable(out[rd + 1])' <=> Usable(out[rd + 1])
    BY <2>1 DEF Usable, Inflates
  <2>4. Reading'
    BY <2>1, <2>3 DEF IInv, Reading
  <2> QED BY <2>1, <2>2, <2>4
          DEF IInv, TypeOK, InHand, AtEnd, Described, Backed, Laid
<1> QED BY <1>1, <1>2, <1>3 DEF Next

(* The invariant gives what decoding promises.                             *)
LEMMA InvRoundTrip == IInv => RoundTrip
<1> SUFFICES ASSUME IInv PROVE RoundTrip
  OBVIOUS
<1>1. PICK cut \in [0..Len(out) -> 0..Len(file)] : Cuts(cut, file, out, Upto, restored, rd)
  BY DEF IInv, Laid
<1>2. rd \in 0..Len(out) /\ cut[rd] \in 0..Len(file)
  BY <1>1, Facts DEF IInv, TypeOK
<1>3. restored = SubSeq(file, 1, cut[rd])
  BY <1>1 DEF Cuts
<1>4. Len(restored) = cut[rd]
  <2>1. Len(SubSeq(file, 0 + 1, cut[rd])) = cut[rd] - 0
    BY <1>2, Facts, PartOfFile
  <2>2. 0 + 1 = 1 /\ cut[rd] - 0 = cut[rd]
    BY <1>2
  <2> QED BY <1>3, <2>1, <2>2
<1>5. ASSUME reader = "end" PROVE restored = file
  <2>1. rd = Len(out) /\ pc = "done"
    BY <1>5 DEF IInv, Reading
  <2>2. buf = <<>> /\ seek = Len(file)
    BY <2>1 DEF IInv, AtEnd
  <2>3. Upto = Len(file)
    BY <2>2, Facts, EmptySeq
  <2>4. cut[rd] = Len(file)
    BY <1>1, <2>1, <2>3 DEF Cuts
  <2> QED BY <1>3, <2>4, Facts, SubSeqFull
<1>6. ASSUME reader = "failed"
      PROVE  /\ out[rd + 1].type = "TYPE_COMPRESS"
             /\ Len(out[rd + 1].content) > UNCOMPRESS_BOUND
             /\ compress_type # "COMPRESS_NONE"
  <2> DEFINE r == out[rd + 1]
  <2>1. rd < Len(out) /\ ~Usable(r) /\ known = {out[i].content : i \in 1..rd}
    BY <1>6 DEF IInv, Reading
  <2>2. rd + 1 \in 1..Len(out) /\ (rd + 1) - 1 = rd /\ rd \in Nat
    BY <1>2, <2>1, Facts
  <2>3. r \in Record
    BY <2>2, Facts, ElementOfSeq
  <2>4. r.type # "TYPE_FINGERPRINT"
    <3> SUFFICES ASSUME r.type = "TYPE_FINGERPRINT" PROVE FALSE
      OBVIOUS
    <3>1. PICK j \in 1..rd : out[j] = Data(r.content)
      BY <2>2 DEF IInv, Backed
    <3>2. r.content \in known
      BY <2>1, <3>1 DEF Data
    <3> QED BY <2>1, <3>2 DEF Usable
  <2>5. r.type = "TYPE_COMPRESS" /\ Len(r.content) \in Nat
    BY <2>3, <2>4, LenProperties DEF Record
  <2> HIDE DEF r
  <2>6. ~Inflates(r.content)
    BY <2>1, <2>5 DEF Usable
  <2> QED BY <2>5, <2>6, SerialAssumption DEF Inflates, r
<1> QED BY <1>3, <1>4, <1>5, <1>6 DEF RoundTrip

(* The types of both programs' variables hold for every file, every size   *)
(* of the buffers and every choice of anchors.                             *)
THEOREM TypeCorrect == Spec => []TypeOK
<1>1. IInv => TypeOK
  BY DEF IInv
<1>2. IInv /\ [Next]_vars => IInv'
  BY StepInv
<1> QED BY <1>1, <1>2, InitInv, PTL DEF Spec

(* Decode (decoder.c) restores what SerialIntegratedPipeline (encoder.c)   *)
(* read, and a chunk longer than its buffer is all that can stop it.       *)
THEOREM DecodeUndoes == Spec => []RoundTrip
<1>1. IInv /\ [Next]_vars => IInv'
  BY StepInv
<1> QED BY <1>1, InitInv, InvRoundTrip, PTL DEF Spec

(* SerialIntegratedPipeline writes an archive DedupStream allows.          *)
THEOREM SerialRefines == Spec => ImplementsStream
<1>1. Init => Stream!Init
  <2> SUFFICES ASSUME Init PROVE Stream!Init
    OBVIOUS
  <2>1. file \in Files /\ seek = 0 /\ buf = <<>> /\ out = <<>>
    BY DEF Init, EncInit
  <2>2. Len(buf) = 0
    BY <2>1, EmptySeq
  <2>3. seek - Len(buf) = 0
    <3> HIDE DEF Init
    <3>1. seek = 0
      BY <2>1
    <3> QED BY <2>2, <3>1
  <2> QED BY <2>1, <2>3 DEF Stream!Init
<1>2. IInv /\ [Next]_vars => IInv' /\ [Stream!WriteChunk]_<<file, seek - Len(buf), out>>
  BY StepInv DEF Upto
<1> QED BY <1>1, <1>2, InitInv, PTL DEF Spec, ImplementsStream, Stream!Spec
=============================================================================
