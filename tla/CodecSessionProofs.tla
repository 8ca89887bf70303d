------------------------- MODULE CodecSessionProofs -------------------------
(***************************************************************************)
(* Proofs about CodecSession, for sessions of any length.                  *)
(*                                                                         *)
(* Whatever a session writes is the start of one file, the one its batches *)
(* make: header, batches, footer.  Content(n, p) is the first p parts of   *)
(* the file of n batches.  The properties are about what a reader gets,    *)
(* so the invariant says which start of which file the sink holds, and     *)
(* ReadBack what is read from it.                                          *)
(***************************************************************************)
EXTENDS CodecSession, SequenceTheorems, TLAPS

\* Headers in a file of n batches.
Heads(n) == Len(Codec.opening) + (IF n > 0 THEN Len(CodecWriter.first) ELSE 0)

Size(n) == Heads(n) + n + Len(CodecWriter.footer)

PartAt(n, i) ==
  IF i <= Heads(n) THEN Header
  ELSE IF i <= Heads(n) + n THEN Batch(i - Heads(n))
  ELSE Footer

Content(n, p) == [i \in 1 .. p |-> PartAt(n, i)]

\* The next part may be cut short.
Remnant(n, p) == Content(n, p) \o <<Torn(PartAt(n, p + 1))>>

Written(n) == Content(n, Heads(n) + n)

\* Parts that are in the sink with the accepted batches, whatever comes after.
Reached ==
  IF CodecWriter.holdsBack \/ accepted = 0 THEN 0 ELSE Heads(accepted) + accepted

\* As long as nothing failed, sink and buffer hold what was accepted.
OpenInv ==
  /\ writer = "none" => sink = <<>> /\ offered = 0 /\ ~broken
  /\ writer # "open" \/ ~CodecWriter.holdsBack => buffer = <<>>
  /\ writer = "open" /\ ~broken => sink \o buffer = Written(accepted)
  /\ writer # "taken" => finish = "never"

\* The encoder stops at the first error.
EncoderInv ==
  caller = "encoder" /\ writer # "taken" => ~broken /\ accepted = offered

\* A complete file, or what the encoder left behind.
EndInv ==
  /\ finish = "ok" /\ ~broken => sink = Content(accepted, Size(accepted))
  /\ ended = "returned" => finish = "ok" /\ ~broken /\ accepted = offered
  /\ ended = "raised" =>
       /\ offered <= accepted + 1
       /\ \E p \in 0 .. Size(offered) :
            Reached <= p /\ sink \in {Content(offered, p), Remnant(offered, p)}

IInv == TypeOK /\ OpenInv /\ EncoderInv /\ EndInv

-----------------------------------------------------------------------------
(* What the five formats have in common.                                   *)
LEMMA FormatFacts ==
  ASSUME format \in Formats
  PROVE  /\ Codec.opening \in {<<>>, <<Header>>}
         /\ CodecWriter.first \in {<<>>, <<Header>>}
         /\ Codec.opening = <<>> \/ CodecWriter.first = <<>>
         /\ CodecWriter.footer \in {<<>>, <<Footer>>}
         /\ Codec.readsHeader \in BOOLEAN /\ Codec.readsFooter \in BOOLEAN
         /\ CodecWriter.holdsBack \in BOOLEAN
         /\ Codec.readsHeader => Codec.opening = <<Header>>
         /\ Codec.readsFooter => Codec.readsHeader /\ CodecWriter.footer = <<Footer>>
         /\ Codec.readsFooter = CodecWriter.holdsBack
<1>1. format \in {"arrow", "parquet", "csv", "jsonl", "avro"}
  BY SessionAssumption
<1>2. CASE format = "arrow"
  <2>1. Codec = ArrowIpcCodec /\ CodecWriter = ArrowIpcWriter
    BY <1>2 DEF Codec, CodecWriter
  <2> QED
    BY <2>1 DEF ArrowIpcCodec, ArrowIpcWriter
<1>3. CASE format = "parquet"
  <2>1. Codec = ParquetCodec /\ CodecWriter = ParquetWriter
    BY <1>3 DEF Codec, CodecWriter
  <2> QED
    BY <2>1 DEF ParquetCodec, ParquetWriter
<1>4. CASE format = "csv"
  <2>1. Codec = CsvCodec /\ CodecWriter = CsvCodecWriter
    BY <1>4 DEF Codec, CodecWriter
  <2> QED
    BY <2>1 DEF CsvCodec, CsvCodecWriter
<1>5. CASE format = "jsonl"
  <2>1. Codec = JsonLinesCodec /\ CodecWriter = JsonLinesCodecWriter
    BY <1>5 DEF Codec, CodecWriter
  <2> QED
    BY <2>1 DEF JsonLinesCodec, JsonLinesCodecWriter
<1>6. CASE format = "avro"
  <2>1. Codec = AvroCodec /\ CodecWriter = AvroCodecWriter
    BY <1>6 DEF Codec, CodecWriter
  <2> QED
    BY <2>1 DEF AvroCodec, AvroCodecWriter
<1> QED
  BY <1>1, <1>2, <1>3, <1>4, <1>5, <1>6

(* A file has at most one header and one footer, and adding a batch does   *)
(* not change what it begins with.                                         *)
LEMMA Counts ==
  ASSUME format \in Formats, NEW n \in Nat
  PROVE  /\ Heads(n) \in {0, 1} /\ Len(CodecWriter.footer) \in {0, 1}
         /\ Size(n) \in Nat /\ Size(n) = Heads(n) + n + Len(CodecWriter.footer)
         /\ Heads(n + 1) = Heads(n) \/ (n = 0 /\ Heads(n) = 0)
         /\ Codec.readsHeader => Heads(n) = 1
         /\ Codec.readsFooter => Len(CodecWriter.footer) = 1
<1> DEFINE opens == Len(Codec.opening)
           first == Len(CodecWriter.first)
           foots == Len(CodecWriter.footer)
<1>1. /\ opens \in {0, 1} /\ first \in {0, 1} /\ foots \in {0, 1}
      /\ opens = 0 \/ first = 0
      /\ Codec.readsHeader => opens = 1
      /\ Codec.readsFooter => foots = 1
  <2>1. Len(<<>>) = 0 /\ Len(<<Header>>) = 1 /\ Len(<<Footer>>) = 1
    OBVIOUS
  <2> QED
    BY <2>1, FormatFacts, Zenon
<1>2. /\ Heads(n) = opens + IF n > 0 THEN first ELSE 0
      /\ Heads(n + 1) = opens + IF n + 1 > 0 THEN first ELSE 0
      /\ Size(n) = Heads(n) + n + foots
  BY DEF Heads, Size
<1> HIDE DEF opens, first, foots
<1>3. /\ Heads(n) \in {0, 1} /\ Size(n) \in Nat
      /\ Heads(n + 1) = Heads(n) \/ (n = 0 /\ Heads(n) = 0)
      /\ Codec.readsHeader => Heads(n) = 1
  BY <1>1, <1>2
<1> QED
  BY <1>1, <1>2, <1>3 DEF foots

(* The four kinds of parts are told apart.                                 *)
LEMMA PartKinds ==
  /\ Header # Footer /\ Header.part # "torn" /\ Footer.part # "torn"
  /\ Header.batch = 0 /\ Footer.batch = 0
  /\ \A k : /\ Batch(k) # Header /\ Batch(k) # Footer /\ Batch(k).part # "torn"
            /\ Batch(k).batch = k
  /\ \A part : Torn(part).part = "torn" /\ Torn(part).batch = part.batch
BY DEF Header, Footer, Torn, Batch

(* Which parts there are; a torn part torn again is none of another kind.  *)
LEMMA PartsFacts ==
  /\ Header \in Parts /\ Footer \in Parts
  /\ \A k \in 1 .. MaxBatches : Batch(k) \in Parts
  /\ \A part \in Parts : Torn(part) \in Parts
<1> DEFINE whole == {Header, Footer} \union {Batch(k) : k \in 1 .. MaxBatches}
<1>1. Parts = whole \union {Torn(part) : part \in whole}
  BY DEF Parts
<1>2. Header \in whole /\ Footer \in whole /\ \A k \in 1 .. MaxBatches : Batch(k) \in whole
  OBVIOUS
<1> HIDE DEF whole
<1>3. ASSUME NEW part \in Parts
      PROVE  Torn(part) \in Parts
  <2>1. CASE part \in whole
    BY <1>1, <2>1
  <2>2. CASE part \notin whole
    <3>1. PICK other \in whole : part = Torn(other)
      BY <1>1, <2>2
    <3>2. Torn(part) = Torn(other)
      BY <3>1 DEF Torn
    <3> QED
      BY <1>1, <3>2
  <2> QED
    BY <2>1, <2>2
<1> QED
  BY <1>1, <1>2, <1>3

(* A file is a sequence of parts, none of them torn.                       *)
LEMMA ContentType ==
  ASSUME format \in Formats, NEW n \in 0 .. MaxBatches, NEW p \in 0 .. Size(n)
  PROVE  /\ Content(n, p) \in Seq(Parts) /\ Len(Content(n, p)) = p
         /\ DOMAIN Content(n, p) = 1 .. p
         /\ \A i \in 1 .. p : /\ Content(n, p)[i] = PartAt(n, i)
                              /\ PartAt(n, i) \in Parts /\ PartAt(n, i).part # "torn"
<1>1. /\ n \in Nat /\ Size(n) \in Nat /\ p \in Nat /\ Heads(n) \in Nat /\ n <= MaxBatches
      /\ MaxBatches \in Nat
  <2>1. n \in Nat /\ n <= MaxBatches /\ MaxBatches \in Nat
    BY SessionAssumption
  <2>2. Size(n) \in Nat /\ Heads(n) \in {0, 1}
    BY <2>1, Counts, Zenon
  <2> QED
    BY <2>1, <2>2
<1>2. ASSUME NEW i \in 1 .. p
      PROVE  PartAt(n, i) \in Parts /\ PartAt(n, i).part # "torn"
  <2>1. CASE i <= Heads(n)
    BY <2>1, PartKinds, PartsFacts DEF PartAt
  <2>2. CASE i > Heads(n) /\ i <= Heads(n) + n
    <3>1. i - Heads(n) \in 1 .. MaxBatches
      BY <1>1, <2>2
    <3>2. PartAt(n, i) = Batch(i - Heads(n))
      BY <1>1, <2>2 DEF PartAt
    <3> QED
      BY <3>1, <3>2, PartKinds, PartsFacts
  <2>3. CASE i > Heads(n) + n
    <3>1. PartAt(n, i) = Footer
      BY <1>1, <2>3 DEF PartAt
    <3> QED
      BY <3>1, PartKinds, PartsFacts
  <2> QED
    BY <1>1, <2>1, <2>2, <2>3
<1> QED
  BY <1>1, <1>2 DEF Content

(* The start of a file is a shorter start of it.                           *)
LEMMA ContentStart ==
  ASSUME format \in Formats, NEW n \in 0 .. MaxBatches, NEW p \in 0 .. Size(n),
         NEW q \in 0 .. p
  PROVE  SubSeq(Content(n, p), 1, q) = Content(n, q) /\ q \in 0 .. Size(n)
<1>1. p \in Nat /\ q \in Nat /\ q <= p /\ q \in 0 .. Size(n)
  BY SessionAssumption, Counts
<1>2. /\ Content(n, p) \in Seq(Parts) /\ Len(Content(n, p)) = p
      /\ \A i \in 1 .. p : Content(n, p)[i] = PartAt(n, i)
  BY ContentType
<1>3. /\ Content(n, q) \in Seq(Parts) /\ Len(Content(n, q)) = q
      /\ \A i \in 1 .. q : Content(n, q)[i] = PartAt(n, i)
  BY <1>1, ContentType
<1> DEFINE s == Content(n, p)  t == Content(n, q)
<1> HIDE DEF s, t
<1>4. SubSeq(s, 1, q) = t
  <2>1. /\ s \in Seq(Parts) /\ Len(s) = p /\ t \in Seq(Parts) /\ Len(t) = q
        /\ \A i \in 1 .. q : s[i] = t[i]
    BY <1>1, <1>2, <1>3 DEF s, t
  <2>2. /\ SubSeq(s, 1, q) \in Seq(Parts) /\ Len(SubSeq(s, 1, q)) = q
        /\ \A i \in 1 .. q : SubSeq(s, 1, q)[i] = s[i]
    BY <1>1, <2>1
  <2> QED
    BY <2>1, <2>2, SeqEqual
<1> QED
  BY <1>1, <1>4 DEF s, t

(* A start of a file without its footer is a start of the longer file.     *)
LEMMA ContentNext ==
  ASSUME format \in Formats, NEW n \in Nat, NEW p \in 0 .. Heads(n) + n
  PROVE  /\ Content(n + 1, p) = Content(n, p)
         /\ p \in 0 .. Heads(n + 1) + n + 1
<1>1. /\ Heads(n) \in {0, 1}
      /\ Heads(n + 1) = Heads(n) \/ (n = 0 /\ Heads(n) = 0)
  BY Counts, Zenon
<1>2. Heads(n + 1) \in {0, 1}
  <2>1. n + 1 \in Nat
    OBVIOUS
  <2> QED
    BY <2>1, Counts, Zenon
<1>3. ASSUME NEW i \in 1 .. p
      PROVE  PartAt(n + 1, i) = PartAt(n, i)
  <2>1. i \in Nat /\ i >= 1 /\ i <= Heads(n) + n /\ Heads(n + 1) = Heads(n)
    BY <1>1
  <2> QED
    BY <1>1, <2>1 DEF PartAt
<1>4. p \in 0 .. Heads(n + 1) + n + 1
  BY <1>1, <1>2
<1> QED
  BY <1>3, <1>4 DEF Content

(* What a batch adds to a file.                                            *)
LEMMA BatchPartsFacts ==
  ASSUME format \in Formats, NEW n \in Nat, ~broken
  PROVE  \/ Heads(n + 1) = Heads(n) /\ BatchParts(n + 1) = <<Batch(n + 1)>>
         \/ /\ n = 0 /\ Heads(n) = 0 /\ Heads(n + 1) = 1
            /\ BatchParts(n + 1) = <<Header, Batch(n + 1)>>
<1> DEFINE opening == Codec.opening
           first == CodecWriter.first
<1>1. /\ opening \in {<<>>, <<Header>>} /\ first \in {<<>>, <<Header>>}
      /\ opening = <<>> \/ first = <<>>
  BY FormatFacts, Zenon
<1>2. /\ Heads(n) = Len(opening) + IF n > 0 THEN Len(first) ELSE 0
      /\ Heads(n + 1) = Len(opening) + IF n + 1 > 0 THEN Len(first) ELSE 0
      /\ BatchParts(n + 1) = (IF n + 1 = 1 THEN first ELSE <<>>) \o <<Batch(n + 1)>>
  BY DEF Heads, BatchParts
<1> HIDE DEF opening, first
<1> DEFINE b == Batch(n + 1)  h == Header
<1> HIDE DEF b, h
<1>3. <<>> \o <<b>> = <<b>> /\ <<h>> \o <<b>> = <<h, b>>
  <2>1. <<b>> \in Seq({b, h}) /\ <<h>> \in Seq({b, h}) /\ Len(<<b>>) = 1 /\ Len(<<h>>) = 1
    OBVIOUS
  <2>2. <<>> \o <<b>> = <<b>>
    BY <2>1, ConcatEmptySeq
  <2> DEFINE c == <<h>> \o <<b>>
  <2>3. /\ c \in Seq({b, h}) /\ Len(c) = 2
        /\ \A i \in 1 .. 2 : c[i] = IF i <= 1 THEN <<h>>[i] ELSE <<b>>[i - 1]
    BY <2>1, ConcatProperties
  <2> HIDE DEF c
  <2>4. c[1] = h /\ c[2] = b
    BY <2>3
  <2>5. c = <<h, b>>
    BY <2>3, <2>4
  <2> QED
    BY <2>2, <2>5 DEF c
<1>4. Len(<<>>) = 0 /\ Len(<<Header>>) = 1
  OBVIOUS
<1>5. CASE first = <<>> \/ n # 0
  <2>1. Heads(n + 1) = Heads(n)
    BY <1>1, <1>2, <1>4, <1>5
  <2>2. BatchParts(n + 1) = <<>> \o <<b>>
    BY <1>2, <1>5 DEF b
  <2> QED
    BY <1>3, <2>1, <2>2 DEF b
<1>6. CASE first # <<>> /\ n = 0
  <2>1. Heads(n) = 0 /\ Heads(n + 1) = 1
    BY <1>1, <1>2, <1>4, <1>6
  <2>2. first = <<h>> /\ n + 1 = 1
    BY <1>1, <1>6 DEF h
  <2>3. BatchParts(n + 1) = first \o <<Batch(n + 1)>>
    BY <1>2, <2>2, Zenon
  <2>4. BatchParts(n + 1) = <<h>> \o <<b>>
    BY <2>2, <2>3, Zenon DEF b
  <2> QED
    BY <1>3, <1>6, <2>1, <2>4, Zenon DEF b, h
<1> QED
  BY <1>5, <1>6

(* Files grow by what a batch adds, and end with the footer.               *)
LEMMA WrittenGrows ==
  ASSUME format \in Formats, NEW n \in 0 .. MaxBatches
  PROVE  /\ Codec.opening = Written(0)
         /\ Written(n) \o CodecWriter.footer = Content(n, Size(n))
         /\ n < MaxBatches /\ ~broken => Written(n) \o BatchParts(n + 1) = Written(n + 1)
<1> DEFINE w == Written(n)  len == Heads(n) + n
<1>1. n \in Nat /\ n <= MaxBatches /\ MaxBatches \in Nat /\ 0 \in 0 .. MaxBatches
  BY SessionAssumption
<1>2. /\ Heads(n) \in {0, 1} /\ Size(n) = Heads(n) + n + Len(CodecWriter.footer)
      /\ Len(CodecWriter.footer) \in {0, 1}
  BY <1>1, Counts, Zenon
<1>3. /\ len \in 0 .. Size(n) /\ len \in Nat
  BY <1>1, <1>2
<1>4. /\ w \in Seq(Parts) /\ Len(w) = len /\ \A i \in 1 .. len : w[i] = PartAt(n, i)
  BY <1>3, ContentType DEF Written
<1>5. Codec.opening = Written(0)
  <2>1. Heads(0) = Len(Codec.opening) /\ Heads(0) \in {0, 1} /\ Size(0) \in Nat
        /\ Size(0) = Heads(0) + 0 + Len(CodecWriter.footer)
    <3>1. Heads(0) \in {0, 1} /\ Size(0) \in Nat
          /\ Size(0) = Heads(0) + 0 + Len(CodecWriter.footer)
      BY Counts, Zenon, 0 \in Nat
    <3>2. Heads(0) = Len(Codec.opening)
      BY <3>1 DEF Heads
    <3> QED
      BY <3>1, <3>2
  <2>2. Heads(0) + 0 = Heads(0) /\ Heads(0) \in 0 .. Size(0)
    BY <1>2, <2>1
  <2> DEFINE opening == Codec.opening  v == Content(0, Heads(0))
  <2>3. v \in Seq(Parts) /\ Len(v) = Heads(0) /\ \A i \in 1 .. Heads(0) : v[i] = PartAt(0, i)
    BY <1>1, <2>2, ContentType
  <2>4. opening \in {<<>>, <<Header>>} /\ Len(opening) = Heads(0)
    BY <2>1, FormatFacts, Zenon
  <2>5. \A i \in 1 .. Heads(0) : PartAt(0, i) = Header
    BY <2>1 DEF PartAt
  <2>6. Written(0) = v
    BY <2>2 DEF Written
  <2> HIDE DEF opening, v
  <2>7. opening = v
    BY <2>1, <2>3, <2>4, <2>5
  <2> QED
    BY <2>6, <2>7 DEF opening
<1>6. w \o CodecWriter.footer = Content(n, Size(n))
  <2> DEFINE footer == CodecWriter.footer  v == Content(n, Size(n))
  <2>1. /\ v \in Seq(Parts) /\ Len(v) = Size(n) /\ Size(n) \in Nat
        /\ \A i \in 1 .. Size(n) : v[i] = PartAt(n, i)
    <3>1. Size(n) \in Nat
      BY <1>1, Counts, Zenon
    <3>2. Size(n) \in 0 .. Size(n)
      BY <3>1
    <3> QED
      BY <3>1, <3>2, ContentType, Zenon
  <2>2. footer \in {<<>>, <<Footer>>} /\ Size(n) = len + Len(footer)
    <3>1. footer \in {<<>>, <<Footer>>}
      BY FormatFacts, Zenon
    <3>2. Size(n) = len + Len(footer)
      BY <1>2, Zenon
    <3> QED
      BY <3>1, <3>2
  <2>3. PartAt(n, len + 1) = Footer
    BY <1>1, <1>2 DEF PartAt
  <2>4. Footer \in Parts
    BY PartsFacts
  <2> HIDE DEF footer, v, w, len
  <2>5. footer \in Seq(Parts) /\ Len(footer) \in {0, 1}
        /\ \A i \in 1 .. Len(footer) : footer[i] = Footer /\ i = 1
    <3> DEFINE f == Footer
    <3>1. f \in Parts /\ (footer = <<>> \/ footer = <<f>>)
      BY <2>2, <2>4
    <3> HIDE DEF f
    <3>2. footer \in Seq(Parts) /\ Len(footer) \in {0, 1}
          /\ \A i \in 1 .. Len(footer) : footer[i] = f /\ i = 1
      <4>1. CASE footer = <<>>
        BY <4>1
      <4>2. CASE footer = <<f>>
        <5>1. <<f>> \in Seq(Parts) /\ Len(<<f>>) = 1 /\ <<f>>[1] = f
          BY <3>1
        <5> QED
          BY <4>2, <5>1
      <4> QED
        BY <3>1, <4>1, <4>2
    <3> QED
      BY <3>2 DEF f
  <2>6. /\ w \o footer \in Seq(Parts) /\ Len(w \o footer) = Size(n)
        /\ \A i \in 1 .. Size(n) : (w \o footer)[i] = IF i <= len THEN w[i] ELSE footer[i - len]
    BY <1>3, <1>4, <2>2, <2>5
  <2>7. ASSUME NEW i \in 1 .. Size(n)
        PROVE  (w \o footer)[i] = v[i]
    <3>1. CASE i <= len
      BY <1>3, <1>4, <2>1, <2>6, <3>1
    <3>2. CASE ~(i <= len)
      <4>1. i - len \in 1 .. Len(footer)
        BY <1>3, <2>2, <2>5, <3>2
      <4>2. i - len = 1
        BY <2>5, <4>1
      <4>3. i = len + 1
        BY <1>3, <4>2
      <4>5. (w \o footer)[i] = footer[i - len]
        BY <2>6, <3>2, Zenon
      <4>6. v[i] = PartAt(n, len + 1)
        BY <2>1, <4>3, Zenon
      <4>7. footer[i - len] = Footer
        BY <2>5, <4>1, Zenon
      <4> QED
        BY <2>3, <4>5, <4>6, <4>7, Zenon
    <3> QED
      BY <3>1, <3>2
  <2>8. w \o footer = v
    BY <2>1, <2>6, <2>7, SeqEqual
  <2> QED
    BY <2>8 DEF footer, v
<1>7. ASSUME n < MaxBatches, ~broken
      PROVE  w \o BatchParts(n + 1) = Written(n + 1)
  <2> DEFINE m == n + 1  parts == BatchParts(m)  v == Written(m)  long == Heads(m) + m
  <2>1. m \in 0 .. MaxBatches /\ m \in Nat
    BY <1>1, <1>7
  <2>2. Heads(m) \in {0, 1} /\ long \in 0 .. Size(m) /\ long \in Nat
    <3>1. Heads(m) \in {0, 1} /\ Size(m) = Heads(m) + m + Len(CodecWriter.footer)
      BY <2>1, Counts, Zenon
    <3> QED
      BY <1>2, <2>1, <3>1
  <2>3. v \in Seq(Parts) /\ Len(v) = long /\ \A i \in 1 .. long : v[i] = PartAt(m, i)
    BY <2>1, <2>2, ContentType DEF Written
  <2>4. Batch(m) \in Parts /\ Header \in Parts
    BY <1>1, <1>7, PartsFacts
  <2>5. \/ Heads(m) = Heads(n) /\ parts = <<Batch(m)>>
        \/ n = 0 /\ Heads(n) = 0 /\ Heads(m) = 1 /\ parts = <<Header, Batch(m)>>
    BY <1>1, <1>7, BatchPartsFacts
  <2>6. PartAt(m, long) = Batch(m)
    <3>1. long - Heads(m) = m /\ ~(long <= Heads(m))
      BY <1>1, <2>2
    <3> QED
      BY <2>2, <3>1 DEF PartAt
  <2> HIDE DEF parts, v
  <2>7. parts \in Seq(Parts) /\ Len(parts) = long - len
        /\ \A i \in 1 .. Len(parts) : parts[i] = PartAt(m, len + i)
    <3>1. CASE Heads(m) = Heads(n) /\ parts = <<Batch(m)>>
      <4>1. long = len + 1
        BY <1>1, <1>2, <3>1
      <4> DEFINE b == Batch(m)
      <4> HIDE DEF b
      <4>2. parts = <<b>> /\ b \in Parts /\ PartAt(m, len + 1) = b
        BY <2>4, <2>6, <3>1, <4>1 DEF b
      <4> HIDE DEF len, long
      <4> QED
        BY <1>3, <4>1, <4>2
    <3>2. CASE n = 0 /\ Heads(n) = 0 /\ Heads(m) = 1 /\ parts = <<Header, Batch(m)>>
      <4>1. long = len + 2 /\ len = 0
        BY <3>2
      <4> DEFINE b == Batch(m)  h == Header
      <4>2. PartAt(m, len + 1) = h
        BY <3>2 DEF PartAt
      <4> HIDE DEF b, h
      <4>3. parts = <<h, b>> /\ b \in Parts /\ h \in Parts /\ PartAt(m, len + 2) = b
        BY <2>4, <2>6, <3>2, <4>1 DEF b, h
      <4> HIDE DEF len, long
      <4> QED
        BY <1>3, <4>1, <4>2, <4>3
    <3> QED
      BY <2>5, <3>1, <3>2
  <2>8. \A i \in 1 .. len : w[i] = PartAt(m, i)
    <3>1. Content(m, len) = Content(n, len)
      BY <1>1, <1>3, ContentNext
    <3> QED
      BY <1>3, <3>1 DEF Content, Written
  <2> HIDE DEF w, len, long
  <2>9. /\ w \o parts \in Seq(Parts) /\ Len(w \o parts) = long
        /\ \A i \in 1 .. long : (w \o parts)[i] = IF i <= len THEN w[i] ELSE parts[i - len]
    <3>1. Len(w) = len /\ len + Len(parts) = long
      BY <1>3, <1>4, <2>2, <2>7
    <3>2. w \in Seq(Parts) /\ parts \in Seq(Parts)
      BY <1>4, <2>7
    <3> QED
      BY <3>1, <3>2, ConcatProperties
  <2>10. ASSUME NEW i \in 1 .. long
         PROVE  (w \o parts)[i] = v[i]
    <3>1. CASE i <= len
      BY <1>3, <2>2, <2>3, <2>8, <2>9, <3>1
    <3>2. CASE ~(i <= len)
      <4>1. i - len \in 1 .. Len(parts) /\ len + (i - len) = i
        BY <1>3, <2>2, <2>7, <3>2
      <4>2. parts[i - len] = PartAt(m, i)
        BY <2>7, <4>1
      <4>4. (w \o parts)[i] = parts[i - len]
        BY <2>9, <3>2, Zenon
      <4>5. v[i] = PartAt(m, i)
        BY <2>3, Zenon
      <4> QED
        BY <4>2, <4>4, <4>5, Zenon
    <3> QED
      BY <3>1, <3>2
  <2>11. w \o parts = v
    BY <2>3, <2>9, <2>10, SeqEqual
  <2> QED
    BY <2>11 DEF parts, v
<1> QED
  BY <1>5, <1>6, <1>7

-----------------------------------------------------------------------------
(* What is read from the start of a file.                                  *)

\* Whole batches in the first p parts of a file of n batches.
Arrived(n, p) ==
  IF p <= Heads(n) THEN 0 ELSE IF p <= Heads(n) + n THEN p - Heads(n) ELSE n

(* A reader finds the batches that are there, in order.                    *)
LEMMA ReadBack ==
  ASSUME format \in Formats, NEW n \in 0 .. MaxBatches, NEW p \in 0 .. Size(n)
  PROVE  BatchNumbers(Content(n, p)) = Numbers(Arrived(n, p)) /\ Arrived(n, p) \in 0 .. n
<1> DEFINE s     == Content(n, p)
           first == IF s # <<>> /\ Head(s) = Header THEN 2 ELSE 1
           last  == IF s # <<>> /\ Last(s) = Footer THEN Len(s) - 1 ELSE Len(s)
           a     == Arrived(n, p)
           h     == Heads(n)
<1>1. n \in Nat /\ n <= MaxBatches /\ MaxBatches \in Nat
  BY SessionAssumption
<1>2. h \in {0, 1}
  BY <1>1, Counts, Zenon
<1>3. \E f \in {0, 1} : Size(n) = h + n + f
  BY <1>1, Counts, Zenon
<1>4. p \in Nat /\ p <= h + n + 1
  BY <1>1, <1>2, <1>3
<1>5. /\ s \in Seq(Parts) /\ Len(s) = p
      /\ \A i \in 1 .. p : s[i] = PartAt(n, i)
  BY ContentType
<1>6. BatchNumbers(s) = [i \in 1 .. last - first + 1 |-> s[first + i - 1].batch]
  BY DEF BatchNumbers
<1>7. \A i \in 1 .. p :
        PartAt(n, i) = IF i <= h THEN Header ELSE IF i <= h + n THEN Batch(i - h) ELSE Footer
  BY DEF PartAt
<1>8. a = IF p <= h THEN 0 ELSE IF p <= h + n THEN p - h ELSE n
  BY DEF Arrived
<1> HIDE DEF a, h
<1>9. a \in 0 .. n
  BY <1>1, <1>2, <1>4, <1>8
<1> HIDE DEF s
<1>10. CASE p = 0
  <2>1. s = <<>> /\ Len(s) = 0
    BY <1>5, <1>10
  <2>2. first = 1 /\ last = 0 /\ a = 0
    BY <1>2, <1>8, <1>10, <2>1
  <2> HIDE DEF first, last
  <2> QED
    BY <1>6, <1>9, <2>2 DEF Numbers, s, a
<1>11. CASE p # 0
  <2>1. s # <<>> /\ 1 \in 1 .. p /\ p \in 1 .. p
    BY <1>4, <1>5, <1>11
  <2>2. Head(s) = s[1] /\ Last(s) = s[p]
    BY <1>5, <2>1 DEF Last
  <2>3. Head(s) = PartAt(n, 1) /\ Last(s) = PartAt(n, p)
    BY <1>5, <2>1, <2>2, Zenon
  <2>4. (Head(s) = Header) <=> h = 1
    <3>1. CASE h = 1
      BY <1>7, <2>1, <2>3, <3>1
    <3>2. CASE h = 0
      <4>1. Head(s) # Header
        BY <1>1, <1>7, <2>1, <2>3, <3>2, PartKinds
      <4> QED
        BY <3>2, <4>1
    <3> QED
      BY <1>2, <3>1, <3>2
  <2>5. (Last(s) = Footer) <=> p > h + n
    <3>1. CASE p > h + n
      BY <1>1, <1>2, <1>7, <2>1, <2>3, <3>1
    <3>2. CASE p <= h + n
      <4>1. Last(s) # Footer
        BY <1>1, <1>2, <1>7, <2>1, <2>3, <3>2, PartKinds
      <4> QED
        BY <1>1, <1>2, <3>2, <4>1
    <3> QED
      BY <1>1, <1>2, <1>4, <3>1, <3>2
  <2>6. first = h + 1 /\ last = IF p > h + n THEN p - 1 ELSE p
    BY <1>2, <1>5, <2>1, <2>4, <2>5
  <2> HIDE DEF first, last
  <2>7. last - first + 1 = a
    BY <1>1, <1>2, <1>4, <1>8, <1>11, <2>6
  <2>8. ASSUME NEW i \in 1 .. a
        PROVE  s[first + i - 1].batch = i
    <3>1. first + i - 1 = h + i /\ h + i \in 1 .. p /\ ~(h + i <= h) /\ h + i <= h + n
          /\ (h + i) - h = i
      BY <1>1, <1>2, <1>4, <1>8, <1>9, <2>6
    <3>2. s[h + i] = PartAt(n, h + i)
      BY <1>5, <3>1, Zenon
    <3>3. PartAt(n, h + i) = Batch((h + i) - h)
      BY <1>7, <3>1, Zenon
    <3> QED
      BY <3>1, <3>2, <3>3, PartKinds, Zenon
  <2>9. BatchNumbers(s) = [i \in 1 .. a |-> s[first + i - 1].batch]
    BY <1>6, <2>7, Zenon
  <2>10. [i \in 1 .. a |-> s[first + i - 1].batch] = [i \in 1 .. a |-> i]
    BY <2>8
  <2> QED
    BY <1>9, <2>9, <2>10 DEF Numbers, s, a
<1> QED
  BY <1>10, <1>11

\* Where the torn part is, as Decodings finds it.
TornAt(parts) == SelectInSeq(parts, LAMBDA part : part.part = "torn")

(* It is found at the end of what the encoder leaves, or nowhere.          *)
LEMMA TornFound ==
  ASSUME format \in Formats, NEW n \in 0 .. MaxBatches, NEW p \in 0 .. Size(n)
  PROVE  /\ TornAt(Content(n, p)) = 0
         /\ TornAt(Remnant(n, p)) = p + 1
         /\ SubSeq(Remnant(n, p), 1, (p + 1) - 1) = Content(n, p)
         /\ Remnant(n, p)[p + 1] = Torn(PartAt(n, p + 1))
<1> DEFINE s == Content(n, p)  x == Torn(PartAt(n, p + 1))  all == Parts \union {x}
           t == s \o <<x>>
<1>1. p \in Nat
  <2>1. n \in Nat
    BY SessionAssumption
  <2>2. Size(n) \in Nat
    BY <2>1, Counts, Zenon
  <2> QED
    BY <2>2
<1>2. /\ s \in Seq(Parts) /\ Len(s) = p
      /\ \A i \in 1 .. p : s[i].part # "torn"
  <2>1. /\ s \in Seq(Parts) /\ Len(s) = p
        /\ \A i \in 1 .. p : s[i] = PartAt(n, i) /\ PartAt(n, i).part # "torn"
    BY ContentType, Zenon
  <2> HIDE DEF s
  <2> QED
    BY <2>1
<1>3. x.part = "torn" /\ Remnant(n, p) = t
  BY PartKinds DEF Remnant
<1> HIDE DEF s, x
<1>4. TornAt(s) = 0
  <2>1. {i \in 1 .. Len(s) : s[i].part = "torn"} = {}
    BY <1>2
  <2> QED
    BY <2>1 DEF TornAt, SelectInSeq
<1>5. s \in Seq(all)
  <2>1. \A i \in 1 .. p : s[i] \in all
    BY <1>2
  <2>2. DOMAIN s = 1 .. p /\ s = [i \in 1 .. p |-> s[i]]
    BY <1>1, <1>2
  <2> HIDE DEF all
  <2> QED
    BY <1>1, <2>1, <2>2
<1>6. /\ t \in Seq(all) /\ Len(t) = p + 1
      /\ \A i \in 1 .. p : t[i] = s[i]
      /\ t[p + 1] = x
  <2>1. x \in all
    OBVIOUS
  <2> HIDE DEF all
  <2> QED
    BY <1>1, <1>2, <1>5, <2>1
<1> HIDE DEF t
<1>7. TornAt(t) = p + 1
  <2>1. {i \in 1 .. Len(t) : t[i].part = "torn"} = {p + 1}
    BY <1>1, <1>2, <1>3, <1>6
  <2>2. Min({p + 1}) = p + 1
    BY <1>1 DEF Min
  <2> QED
    BY <2>1, <2>2 DEF TornAt, SelectInSeq
<1>8. SubSeq(t, 1, p) = s
  <2> HIDE DEF all
  <2>1. /\ SubSeq(t, 1, p) \in Seq(all) /\ Len(SubSeq(t, 1, p)) = p
        /\ \A i \in 1 .. p : SubSeq(t, 1, p)[i] = t[i]
    BY <1>1, <1>6
  <2> QED
    BY <1>1, <1>2, <1>5, <1>6, <2>1, SeqEqual
<1>9. (p + 1) - 1 = p
  BY <1>1
<1> QED
  BY <1>3, <1>4, <1>6, <1>7, <1>8, <1>9, Zenon DEF s, x

\* What a reader answers to the parts before the first torn one, of which it is
\* batch `cut`.
DecodedAs(torn, whole, cut) ==
  IF \/ Codec.readsHeader /\ (whole = <<>> \/ Head(whole) # Header)
     \/ Codec.readsFooter /\ (torn # 0 \/ Last(whole) # Footer)
    THEN {NothingOf}
  ELSE IF torn = 0
    THEN {AllOf(BatchNumbers(whole))}
  ELSE CutShort(BatchNumbers(whole), cut) \union Erroneous(BatchNumbers(whole), cut)

(* A sink is read up to the first torn part.                               *)
LEMMA DecodedWhole ==
  ASSUME NEW parts
  PROVE  Decodings(parts) =
           DecodedAs(TornAt(parts),
                     IF TornAt(parts) = 0 THEN parts ELSE SubSeq(parts, 1, TornAt(parts) - 1),
                     IF Codec.torn = "lost" THEN 0 ELSE parts[TornAt(parts)].batch)
BY Zenon DEF Decodings, DecodedAs, TornAt

\* What is read is a start of n batches, the first k of them in whole; without
\* an error it is the a that have arrived, and the next may be altered.
Starts(decoding, a, n) ==
  \E k \in 0 .. a :
    /\ decoding.batches = Numbers(k)
    /\ decoding.partial = 0 \/ (decoding.partial = k + 1 /\ k + 1 <= n)
    /\ ~decoding.error => k = a
    /\ decoding.altered => ~decoding.error /\ decoding.partial # 0

(* The fields of a decoding.                                               *)
LEMMA DecodingFields ==
  ASSUME NEW batches, NEW partial, NEW altered, NEW error
  PROVE  /\ Decoding(batches, partial, altered, error).batches = batches
         /\ Decoding(batches, partial, altered, error).partial = partial
         /\ Decoding(batches, partial, altered, error).altered = altered
         /\ Decoding(batches, partial, altered, error).error = error
BY DEF Decoding

(* A start of the first a numbers, and what comes after it with one more.  *)
LEMMA NumbersStart ==
  ASSUME NEW a \in Nat, NEW k \in 0 .. a, NEW cut
  PROVE  /\ Numbers(a) \in Seq(Nat) /\ Len(Numbers(a)) = a
         /\ SubSeq(Numbers(a), 1, k) = Numbers(k)
         /\ (Numbers(a) \o <<cut>>)[k + 1] = IF k < a THEN k + 1 ELSE cut
<1> DEFINE s == Numbers(a)  t == Numbers(k)  all == Nat \union {cut}
<1>1. k \in Nat /\ k <= a
  OBVIOUS
<1>2. s \in Seq(Nat) /\ Len(s) = a /\ \A i \in 1 .. a : s[i] = i
  BY DEF Numbers
<1>3. t \in Seq(Nat) /\ Len(t) = k /\ \A i \in 1 .. k : t[i] = i
  BY <1>1 DEF Numbers
<1>4. s \in Seq(all) /\ cut \in all
  BY DEF Numbers
<1> HIDE DEF s, t, all
<1>5. SubSeq(s, 1, k) = t
  <2>1. /\ SubSeq(s, 1, k) \in Seq(Nat) /\ Len(SubSeq(s, 1, k)) = k
        /\ \A i \in 1 .. k : SubSeq(s, 1, k)[i] = s[i]
    BY <1>1, <1>2
  <2>2. \A i \in 1 .. k : SubSeq(s, 1, k)[i] = t[i]
    BY <1>1, <1>2, <1>3, <2>1
  <2> QED
    BY <1>3, <2>1, <2>2, SeqEqual
<1>6. (s \o <<cut>>)[k + 1] = IF k < a THEN k + 1 ELSE cut
  <2>1. /\ \A i \in 1 .. a : (s \o <<cut>>)[i] = s[i]
        /\ (s \o <<cut>>)[a + 1] = cut
    BY <1>2, <1>4
  <2> QED
    BY <1>1, <1>2, <2>1
<1> QED
  BY <1>2, <1>5, <1>6 DEF s, t

(* To be such a start is a matter of the four fields.                      *)
LEMMA StartsFields ==
  ASSUME NEW n, NEW a, NEW k \in 0 .. a, NEW partial, NEW altered \in BOOLEAN,
         NEW error \in BOOLEAN,
         partial = 0 \/ (partial = k + 1 /\ k + 1 <= n),
         ~error => k = a, altered => ~error /\ partial # 0
  PROVE  Starts(Decoding(Numbers(k), partial, altered, error), a, n)
<1> DEFINE decoding == Decoding(Numbers(k), partial, altered, error)
<1>1. /\ decoding.batches = Numbers(k) /\ decoding.partial = partial
      /\ decoding.altered = altered /\ decoding.error = error
  BY DecodingFields
<1> HIDE DEF decoding
<1>2. /\ decoding.partial = 0 \/ (decoding.partial = k + 1 /\ k + 1 <= n)
      /\ ~decoding.error => k = a
      /\ decoding.altered => ~decoding.error /\ decoding.partial # 0
  BY <1>1, Zenon
<1>3. Starts(decoding, a, n)
  BY <1>1, <1>2, Zenon DEF Starts
<1> QED
  BY <1>3 DEF decoding

(* Behind a torn part only that batch is not whole, and an error takes     *)
(* batches from the end.                                                   *)
LEMMA TornStarts ==
  ASSUME NEW n \in Nat, NEW a \in 0 .. n, NEW cut, cut = 0 \/ (cut = a + 1 /\ a + 1 <= n),
         NEW decoding \in CutShort(Numbers(a), cut) \union Erroneous(Numbers(a), cut)
  PROVE  Starts(decoding, a, n)
<1>1. a \in Nat /\ a \in 0 .. a
  OBVIOUS
<1>2. CASE decoding \in CutShort(Numbers(a), cut)
  <2>1. CASE decoding = AllOf(Numbers(a))
    BY <1>1, <2>1, StartsFields, Zenon DEF AllOf
  <2>2. CASE decoding # AllOf(Numbers(a))
    <3>1. PICK altered \in {FALSE, Codec.torn = "values" /\ cut # 0} :
            decoding = Decoding(Numbers(a), cut, altered, FALSE)
      BY <1>2, <2>2, Zenon DEF CutShort
    <3>2. altered \in BOOLEAN /\ (altered => cut # 0)
      BY <3>1, Zenon
    <3> QED
      BY <1>1, <3>1, <3>2, StartsFields, Zenon
  <2> QED
    BY <2>1, <2>2
<1>3. CASE decoding \in Erroneous(Numbers(a), cut)
  <2>1. CASE ~Codec.regroups
    <3>1. decoding = Decoding(Numbers(a), 0, FALSE, TRUE)
      BY <1>3, <2>1, Zenon DEF Erroneous
    <3> QED
      BY <1>1, <3>1, StartsFields, Zenon
  <2>2. CASE Codec.regroups
    <3>1. PICK k \in 0 .. Len(Numbers(a)) :
            decoding \in {Decoding(SubSeq(Numbers(a), 1, k), partial, FALSE, TRUE) :
                            partial \in {0, (Numbers(a) \o <<cut>>)[k + 1]}}
      BY <1>3, <2>2 DEF Erroneous
    <3>2. k \in 0 .. a
      BY <1>1, NumbersStart
    <3>3. /\ SubSeq(Numbers(a), 1, k) = Numbers(k)
          /\ (Numbers(a) \o <<cut>>)[k + 1] = IF k < a THEN k + 1 ELSE cut
      BY <1>1, <3>2, NumbersStart
    <3>4. PICK partial \in {0, IF k < a THEN k + 1 ELSE cut} :
            decoding = Decoding(Numbers(k), partial, FALSE, TRUE)
      BY <3>1, <3>3, Zenon
    <3>5. partial = 0 \/ (partial = k + 1 /\ k + 1 <= n)
      BY <1>1, <3>2, <3>4
    <3> QED
      BY <3>2, <3>4, <3>5, StartsFields, Zenon
  <2> QED
    BY <2>1, <2>2
<1> QED
  BY <1>2, <1>3

(* The part that is cut short is of the batch after those that arrived.    *)
LEMMA CutBatch ==
  ASSUME format \in Formats, NEW n \in 0 .. MaxBatches, NEW p \in 0 .. Size(n)
  PROVE  \/ PartAt(n, p + 1).batch = 0
         \/ /\ PartAt(n, p + 1).batch = Arrived(n, p) + 1
            /\ Arrived(n, p) + 1 <= n
<1> DEFINE h == Heads(n)  a == Arrived(n, p)
<1>1. n \in Nat
  BY SessionAssumption
<1>2. h \in {0, 1} /\ Size(n) \in Nat
  BY <1>1, Counts, Zenon
<1>3. a = IF p <= h THEN 0 ELSE IF p <= h + n THEN p - h ELSE n
  BY DEF Arrived
<1>4. PartAt(n, p + 1) = IF p + 1 <= h THEN Header
                         ELSE IF p + 1 <= h + n THEN Batch((p + 1) - h) ELSE Footer
  BY DEF PartAt
<1> HIDE DEF h, a
<1>5. CASE p + 1 > h /\ p + 1 <= h + n
  <2>1. (p + 1) - h = a + 1 /\ a + 1 <= n
    BY <1>1, <1>2, <1>3, <1>5
  <2>2. PartAt(n, p + 1) = Batch((p + 1) - h)
    BY <1>1, <1>2, <1>4, <1>5
  <2> QED
    BY <2>1, <2>2, PartKinds, Zenon DEF a
<1>6. CASE ~(p + 1 > h /\ p + 1 <= h + n)
  <2>1. PartAt(n, p + 1) = Header \/ PartAt(n, p + 1) = Footer
    BY <1>1, <1>2, <1>4, <1>6
  <2> QED
    BY <2>1, PartKinds, Zenon
<1> QED
  BY <1>5, <1>6

(* The start of a file reads as the batches that are there, unless what    *)
(* the reader must find is not; with the next part cut short, as a start   *)
(* of them.                                                                *)
LEMMA DecodedStart ==
  ASSUME format \in Formats, NEW n \in 0 .. MaxBatches, NEW p \in 0 .. Size(n)
  PROVE  /\ (Codec.readsHeader => p # 0) /\ (Codec.readsFooter => p = Size(n)) =>
              Decodings(Content(n, p)) = {AllOf(Numbers(Arrived(n, p)))}
         /\ Codec.readsFooter /\ p # Size(n) =>
              Decodings(Content(n, p)) = {NothingOf}
         /\ \A decoding \in Decodings(Content(n, p)) \union Decodings(Remnant(n, p)) :
              /\ Starts(decoding, Arrived(n, p), n)
              /\ Codec.readsFooter /\ ~decoding.error => p = Size(n)
<1> DEFINE s == Content(n, p)
           t == Remnant(n, p)
           a == Arrived(n, p)
           cut == IF Codec.torn = "lost" THEN 0 ELSE PartAt(n, p + 1).batch
           found == Numbers(Arrived(n, p))
<1>1. \E other : Decodings(s) = DecodedAs(0, s, other)
  <2>1. TornAt(s) = 0
    BY TornFound
  <2> QED
    BY <2>1, DecodedWhole, Zenon
<1>2. p + 1 # 0 /\ n \in Nat /\ p \in Nat
  <2>1. n \in Nat
    BY SessionAssumption
  <2>2. Size(n) \in Nat
    BY <2>1, Counts, Zenon
  <2> QED
    BY <2>1, <2>2
<1>3. Decodings(t) = DecodedAs(p + 1, s, cut)
  <2>1. /\ TornAt(t) = p + 1 /\ SubSeq(t, 1, (p + 1) - 1) = s
        /\ t[p + 1] = Torn(PartAt(n, p + 1))
    BY TornFound
  <2>2. Decodings(t) = DecodedAs(TornAt(t),
                                 IF TornAt(t) = 0 THEN t ELSE SubSeq(t, 1, TornAt(t) - 1),
                                 IF Codec.torn = "lost" THEN 0 ELSE t[TornAt(t)].batch)
    BY DecodedWhole
  <2>3. Torn(PartAt(n, p + 1)).batch = PartAt(n, p + 1).batch
    BY PartKinds
  <2> HIDE DEF s, t
  <2> QED
    BY <1>2, <2>1, <2>2, <2>3, Zenon
<1>4. BatchNumbers(s) = found
  BY ReadBack
<1>5. /\ s \in Seq(Parts) /\ Len(s) = p
      /\ \A i \in 1 .. p : s[i] = PartAt(n, i)
  BY ContentType
<1>6. Codec.readsHeader /\ p # 0 => s # <<>> /\ Head(s) = Header
  <2> SUFFICES ASSUME Codec.readsHeader, p # 0
               PROVE  s # <<>> /\ Head(s) = Header
    OBVIOUS
  <2>1. Heads(n) = 1
    BY <1>2, Counts, Zenon
  <2>2. PartAt(n, 1) = Header
    BY <2>1 DEF PartAt
  <2> HIDE DEF s
  <2>3. 1 \in 1 .. p
    BY <1>2
  <2>4. s[1] = Header
    BY <1>5, <2>2, <2>3, Zenon
  <2> QED
    BY <1>2, <1>5, <2>4
<1>7. Codec.readsFooter => (p = Size(n) <=> p # 0 /\ Last(s) = Footer)
  <2> SUFFICES ASSUME Codec.readsFooter
               PROVE  p = Size(n) <=> p # 0 /\ Last(s) = Footer
    OBVIOUS
  <2>1. Heads(n) \in {0, 1} /\ Size(n) = Heads(n) + n + 1
    BY <1>2, Counts, Zenon
  <2>2. p <= Heads(n) + n \/ p = Size(n)
    BY <1>2, <2>1
  <2>3. p = Size(n) => p # 0 /\ PartAt(n, p) = Footer
    BY <1>2, <2>1 DEF PartAt
  <2>4. p # Size(n) => PartAt(n, p) # Footer
    <3> SUFFICES ASSUME p # Size(n) PROVE PartAt(n, p) # Footer
      OBVIOUS
    <3>1. p <= Heads(n) \/ (~(p <= Heads(n)) /\ p <= Heads(n) + n)
      BY <1>2, <2>1, <2>2
    <3>2. PartAt(n, p) = Header \/ PartAt(n, p) = Batch(p - Heads(n))
      BY <3>1, Zenon DEF PartAt
    <3> QED
      BY <3>2, PartKinds, Zenon
  <2>5. p # 0 => Last(s) = PartAt(n, p)
    <3> SUFFICES ASSUME p # 0 PROVE Last(s) = PartAt(n, p)
      OBVIOUS
    <3>1. p \in 1 .. p
      BY <1>2
    <3>2. Last(s) = s[p]
      BY <1>5, Zenon DEF Last
    <3> QED
      BY <1>5, <3>1, <3>2, Zenon
  <2> QED
    BY <2>3, <2>4, <2>5, Zenon
<1>8. Codec.readsFooter => Codec.readsHeader
  BY FormatFacts, Zenon
<1>9. p = 0 => s = <<>>
  <2> HIDE DEF s
  <2> QED
    BY <1>5
<1> DEFINE unlike  == Codec.readsHeader /\ (s = <<>> \/ Head(s) # Header)
           without == Codec.readsFooter /\ Last(s) # Footer
<1>10. \A other : DecodedAs(0, s, other) = IF unlike \/ without THEN {NothingOf} ELSE {AllOf(found)}
  BY <1>4, Zenon DEF DecodedAs
<1>11. DecodedAs(p + 1, s, cut) = IF unlike \/ Codec.readsFooter THEN {NothingOf}
                                  ELSE CutShort(found, cut) \union Erroneous(found, cut)
  BY <1>2, <1>4, Zenon DEF DecodedAs
<1>12. (Codec.readsHeader => p # 0) /\ (Codec.readsFooter => p = Size(n)) => ~unlike /\ ~without
  BY <1>6, <1>7, Zenon
<1>13. Codec.readsFooter /\ p # Size(n) => unlike \/ without
  BY <1>7, <1>8, <1>9, Zenon
<1>14. a \in 0 .. n /\ a \in 0 .. a /\ 0 \in 0 .. a
  <2>1. a \in 0 .. n
    BY ReadBack, Zenon
  <2> HIDE DEF a
  <2> QED
    BY <1>2, <2>1
<1>15. Starts(NothingOf, a, n) /\ NothingOf.error
  <2>1. Numbers(0) = <<>>
    BY DEF Numbers
  <2>2. NothingOf = Decoding(Numbers(0), 0, FALSE, TRUE)
    BY <2>1 DEF NothingOf
  <2> HIDE DEF a
  <2>3. Starts(Decoding(Numbers(0), 0, FALSE, TRUE), a, n)
    BY <1>14, StartsFields, Zenon
  <2>4. NothingOf.error
    BY DEF NothingOf, Decoding
  <2> QED
    BY <2>2, <2>3, <2>4, Zenon
<1>16. Starts(AllOf(found), a, n)
  <2> HIDE DEF a
  <2> QED
    BY <1>14, StartsFields, Zenon DEF AllOf, a
<1>17. cut = 0 \/ (cut = a + 1 /\ a + 1 <= n)
  BY CutBatch, Zenon
<1> HIDE DEF s, t, a, unlike, without, cut
<1>18. ASSUME NEW decoding \in Decodings(s)
       PROVE  /\ Starts(decoding, a, n)
              /\ Codec.readsFooter /\ ~decoding.error => p = Size(n)
  <2>1. CASE unlike \/ without
    <3>1. decoding = NothingOf
      BY <1>1, <1>10, <1>18, <2>1, Zenon
    <3> QED
      BY <1>15, <3>1, Zenon
  <2>2. CASE ~(unlike \/ without)
    <3>1. decoding = AllOf(found)
      BY <1>1, <1>10, <1>18, <2>2, Zenon
    <3> QED
      BY <1>13, <1>16, <2>2, <3>1, Zenon
  <2> QED
    BY <2>1, <2>2
<1>19. ASSUME NEW decoding \in Decodings(t)
       PROVE  /\ Starts(decoding, a, n)
              /\ Codec.readsFooter /\ ~decoding.error => p = Size(n)
  <2>1. CASE unlike \/ Codec.readsFooter
    <3>1. decoding = NothingOf
      BY <1>3, <1>11, <1>19, <2>1, Zenon
    <3> QED
      BY <1>15, <3>1, Zenon
  <2>2. CASE ~(unlike \/ Codec.readsFooter)
    <3>1. decoding \in CutShort(Numbers(a), cut) \union Erroneous(Numbers(a), cut)
      BY <1>3, <1>11, <1>19, <2>2, Zenon DEF a
    <3>2. Starts(decoding, a, n)
      BY <1>2, <1>14, <1>17, <3>1, TornStarts, Zenon
    <3> QED
      BY <2>2, <3>2
  <2> QED
    BY <2>1, <2>2
<1>20. /\ (Codec.readsHeader => p # 0) /\ (Codec.readsFooter => p = Size(n)) =>
            Decodings(s) = {AllOf(found)}
       /\ Codec.readsFooter /\ p # Size(n) => Decodings(s) = {NothingOf}
  BY <1>1, <1>10, <1>12, <1>13, Zenon
<1> QED
  BY <1>18, <1>19, <1>20, Zenon DEF s, t, a

-----------------------------------------------------------------------------
(* What reaches the sink.                                                  *)

(* Cutting what is about to be written in two loses nothing.               *)
LEMMA Cuts ==
  ASSUME NEW s \in Seq(Parts), NEW all \in Seq(Parts), NEW k \in 0 .. Len(all)
  PROVE  /\ SubSeq(all, 1, k) \in Seq(Parts)
         /\ SubSeq(all, k + 1, Len(all)) \in Seq(Parts)
         /\ s \o SubSeq(all, 1, k) \in Seq(Parts)
         /\ (s \o SubSeq(all, 1, k)) \o SubSeq(all, k + 1, Len(all)) = s \o all
         /\ s \o SubSeq(all, 1, k) = SubSeq(s \o all, 1, Len(s) + k)
         /\ k = Len(all) => SubSeq(all, 1, k) = all /\ SubSeq(all, k + 1, Len(all)) = <<>>
<1> DEFINE a == SubSeq(all, 1, k)  b == SubSeq(all, k + 1, Len(all))
<1>1. /\ Len(all) \in Nat /\ k \in Nat /\ k <= Len(all) /\ Len(s) \in Nat
  OBVIOUS
<1>2. /\ a \in Seq(Parts) /\ Len(a) = k
      /\ \A i \in 1 .. k : a[i] = all[i]
  BY <1>1
<1>3. /\ b \in Seq(Parts) /\ Len(b) = Len(all) - k
      /\ \A i \in 1 .. Len(all) - k : b[i] = all[k + i]
  BY <1>1
<1>4. k = Len(all) => a = all /\ b = <<>>
  <2>1. k = Len(all) => a = all
    BY SubSeqFull
  <2>2. k = Len(all) => Len(b) = 0
    BY <1>1, <1>3
  <2> HIDE DEF b
  <2>3. k = Len(all) => b = <<>>
    BY <1>3, <2>2
  <2> QED
    BY <2>1, <2>3
<1> HIDE DEF a, b
<1>5. a \o b = all
  <2>1. /\ a \o b \in Seq(Parts) /\ Len(a \o b) = Len(all)
        /\ \A i \in 1 .. Len(all) : (a \o b)[i] = IF i <= k THEN a[i] ELSE b[i - k]
    BY <1>1, <1>2, <1>3
  <2>2. ASSUME NEW i \in 1 .. Len(all)
        PROVE  (a \o b)[i] = all[i]
    <3>1. CASE i <= k
      BY <1>1, <1>2, <2>1, <3>1
    <3>2. CASE ~(i <= k)
      <4>1. i - k \in 1 .. Len(all) - k /\ k + (i - k) = i
        BY <1>1, <3>2
      <4>2. b[i - k] = all[i]
        BY <1>3, <4>1
      <4>3. (a \o b)[i] = b[i - k]
        BY <2>1, <3>2, Zenon
      <4> QED
        BY <4>2, <4>3
    <3> QED
      BY <3>1, <3>2
  <2> QED
    BY <2>1, <2>2, SeqEqual
<1>6. (s \o a) \o b = s \o all /\ s \o a \in Seq(Parts)
  <2>1. (s \o a) \o b = s \o (a \o b)
    <3>1. a \in Seq(Parts) /\ b \in Seq(Parts) /\ s \in Seq(Parts)
      BY <1>2, <1>3
    <3> QED
      BY <3>1, ConcatAssociative
  <2>2. s \o a \in Seq(Parts)
    BY <1>2
  <2> QED
    BY <1>5, <2>1, <2>2, Zenon
<1>7. s \o a = SubSeq(s \o all, 1, Len(s) + k)
  <2> DEFINE u == s \o a  w == s \o all  len == Len(s) + k
  <2>1. /\ u \in Seq(Parts) /\ Len(u) = len /\ len \in Nat /\ len <= Len(s) + Len(all)
        /\ \A i \in 1 .. len : u[i] = IF i <= Len(s) THEN s[i] ELSE a[i - Len(s)]
    <3>1. u \in Seq(Parts) /\ Len(u) = Len(s) + Len(a)
      BY <1>2
    <3>2. len \in Nat /\ len <= Len(s) + Len(all) /\ Len(u) = len
      BY <1>1, <1>2, <3>1
    <3>3. \A i \in 1 .. Len(s) + Len(a) : u[i] = IF i <= Len(s) THEN s[i] ELSE a[i - Len(s)]
      BY <1>2
    <3> QED
      BY <1>2, <3>1, <3>2, <3>3
  <2>2. /\ w \in Seq(Parts) /\ Len(w) = Len(s) + Len(all)
        /\ \A i \in 1 .. Len(s) + Len(all) :
             w[i] = IF i <= Len(s) THEN s[i] ELSE all[i - Len(s)]
    BY <1>1, ConcatProperties
  <2> HIDE DEF u, w
  <2>3. ASSUME NEW i \in 1 .. len
        PROVE  u[i] = w[i]
    <3>1. i \in 1 .. Len(s) + Len(all)
      BY <1>1
    <3>2. CASE i <= Len(s)
      BY <2>1, <2>2, <3>1, <3>2, Zenon
    <3>3. CASE ~(i <= Len(s))
      <4>1. i - Len(s) \in 1 .. k
        BY <1>1, <3>3
      <4>2. u[i] = a[i - Len(s)] /\ w[i] = all[i - Len(s)]
        BY <2>1, <2>2, <3>1, <3>3, Zenon
      <4> QED
        BY <1>2, <4>1, <4>2, Zenon
    <3> QED
      BY <3>2, <3>3
  <2>4. /\ SubSeq(w, 1, len) \in Seq(Parts) /\ Len(SubSeq(w, 1, len)) = len
        /\ \A i \in 1 .. len : SubSeq(w, 1, len)[i] = w[i]
    <3> HIDE DEF len
    <3> QED
      BY <1>1, <2>1, <2>2
  <2> HIDE DEF len
  <2>5. u = SubSeq(w, 1, len)
    BY <2>1, <2>3, <2>4, SeqEqual
  <2> QED
    BY <2>5 DEF u, w, len
<1> QED
  BY <1>2, <1>3, <1>4, <1>6, <1>7 DEF a, b

(* Of what makes a start of a file, a part makes a shorter start.          *)
LEMMA FileCut ==
  ASSUME format \in Formats, NEW n \in 0 .. MaxBatches, NEW p \in 0 .. Size(n),
         NEW s \in Seq(Parts), NEW all \in Seq(Parts), s \o all = Content(n, p),
         NEW k \in 0 .. Len(all)
  PROVE  /\ Len(s) + k \in 0 .. p /\ Len(s) + Len(all) = p
         /\ s \o SubSeq(all, 1, k) = Content(n, Len(s) + k)
<1>1. p \in Nat
  <2>1. n \in Nat
    BY SessionAssumption
  <2>2. Size(n) \in Nat
    BY <2>1, Counts, Zenon
  <2> QED
    BY <2>2
<1>2. Len(s \o all) = p
  BY ContentType
<1>3. Len(s) + Len(all) = p /\ Len(s) \in Nat /\ Len(all) \in Nat
  <2>1. Len(s \o all) = Len(s) + Len(all)
    OBVIOUS
  <2> QED
    BY <1>2, <2>1
<1>4. Len(s) + k \in 0 .. p
  BY <1>1, <1>3
<1>5. SubSeq(s \o all, 1, Len(s) + k) = Content(n, Len(s) + k)
  BY <1>4, ContentStart
<1> QED
  BY <1>3, <1>4, <1>5, Cuts

(* What a failing write leaves of a file.                                  *)
LEMMA TearLeaves ==
  ASSUME format \in Formats, sink \in Seq(Parts), buffer \in Seq(Parts),
         NEW parts \in Seq(Parts), Tear(parts)
  PROVE  /\ sink' \in Seq(Parts) /\ buffer' = <<>> /\ broken' = TRUE
         /\ \A n \in 0 .. MaxBatches : \A p \in 0 .. Size(n) :
              (sink \o buffer) \o parts = Content(n, p) =>
                \E q \in 0 .. p : /\ Len(sink) <= q
                                  /\ sink' \in {Content(n, q), Remnant(n, q)}
<1> DEFINE all == buffer \o parts
<1>1. PICK k \in 0 .. Len(all) :
        sink' = sink \o SubSeq(all, 1, k) \o (IF k < Len(all) THEN <<Torn(all[k + 1])>> ELSE <<>>)
  BY DEF Tear
<1>2. buffer' = <<>> /\ broken' = TRUE
  BY DEF Tear
<1>3. all \in Seq(Parts) /\ (sink \o buffer) \o parts = sink \o all
  BY ConcatProperties, ConcatAssociative
<1> DEFINE torn == Torn(all[k + 1])
<1>4. <<>> \in Seq(Parts) /\ (k < Len(all) => <<torn>> \in Seq(Parts))
  <2>1. ASSUME k < Len(all)
        PROVE  torn \in Parts
    <3> HIDE DEF all
    <3>1. all[k + 1] \in Parts
      BY <1>3, <2>1
    <3> QED
      BY <3>1, PartsFacts
  <2> HIDE DEF all, torn
  <2> QED
    BY <2>1
<1> HIDE DEF all, torn
<1> DEFINE cut == sink \o SubSeq(all, 1, k)
<1>5. cut \in Seq(Parts)
  BY <1>3, Cuts
<1>6. sink' = cut \/ (k < Len(all) /\ sink' = cut \o <<torn>>)
  <2>1. cut \o <<>> = cut
    BY <1>5, ConcatEmptySeq
  <2> QED
    BY <1>1, <2>1 DEF torn
<1>7. sink' \in Seq(Parts)
  BY <1>4, <1>5, <1>6, ConcatProperties
<1>8. ASSUME NEW n \in 0 .. MaxBatches, NEW p \in 0 .. Size(n),
             (sink \o buffer) \o parts = Content(n, p)
      PROVE  \E q \in 0 .. p : Len(sink) <= q /\ sink' \in {Content(n, q), Remnant(n, q)}
  <2> DEFINE q == Len(sink) + k
  <2>1. sink \o all = Content(n, p)
    BY <1>3, <1>8, Zenon
  <2>2. /\ all \in Seq(Parts) /\ k \in 0 .. Len(all) /\ sink \in Seq(Parts)
        /\ n \in 0 .. MaxBatches /\ p \in 0 .. Size(n) /\ format \in Formats
    BY <1>3
  <2>3. q \in 0 .. p /\ Len(sink) + Len(all) = p
    <3>1. Len(sink) + k \in 0 .. p
      BY <2>1, <2>2, FileCut, Zenon
    <3>2. Len(sink \o all) = Len(sink) + Len(all)
      BY <2>2
    <3>3. Len(Content(n, p)) = p
      BY ContentType, Zenon
    <3> QED
      BY <2>1, <3>1, <3>2, <3>3
  <2>4. cut = Content(n, q)
    <3>1. SubSeq(sink \o all, 1, q) = Content(n, q)
      BY <2>1, <2>2, <2>3, ContentStart, Zenon
    <3>2. sink \o SubSeq(all, 1, k) = SubSeq(sink \o all, 1, q)
      BY <2>2, Cuts
    <3> QED
      BY <3>1, <3>2
  <2>5. Len(sink) <= q
    BY <2>2
  <2>6. ASSUME k < Len(all)
        PROVE  torn = Torn(PartAt(n, q + 1))
    <3>1. q + 1 = Len(sink) + (k + 1) /\ q + 1 \in 1 .. p /\ k + 1 \in 1 .. Len(all)
      BY <2>2, <2>3, <2>6
    <3>2. (sink \o all)[Len(sink) + (k + 1)] = all[k + 1]
      BY <2>2, <3>1
    <3>3. Content(n, p)[q + 1] = PartAt(n, q + 1)
      BY <2>2, <3>1, ContentType, Zenon
    <3>4. all[k + 1] = PartAt(n, q + 1)
      BY <2>1, <3>1, <3>2, <3>3, Zenon
    <3> QED
      BY <3>4, Zenon DEF torn
  <2>7. sink' = Content(n, q) \/ sink' = Remnant(n, q)
    <3>1. CASE sink' = cut
      BY <2>4, <3>1, Zenon
    <3>2. CASE k < Len(all) /\ sink' = cut \o <<torn>>
      BY <2>4, <2>6, <3>2, Zenon DEF Remnant
    <3> QED
      BY <1>6, <3>1, <3>2, Zenon
  <2> HIDE DEF q
  <2> QED
    BY <2>3, <2>5, <2>7
<1> QED
  BY <1>2, <1>7, <1>8

-----------------------------------------------------------------------------
(* Steps.                                                                  *)

(* The format of a session never changes, and with it no file does.        *)
LEMMA SameFormat ==
  ASSUME format' = format
  PROVE  /\ Codec' = Codec /\ CodecWriter' = CodecWriter
         /\ Written(accepted)' = Written(accepted')
         /\ Content(accepted, Size(accepted))' = Content(accepted', Size(accepted'))
         /\ Size(offered)' = Size(offered')
         /\ Heads(accepted)' = Heads(accepted')
         /\ \A p : Content(offered, p)' = Content(offered', p)
         /\ \A p : Remnant(offered, p)' = Remnant(offered', p)
         /\ accepted' = accepted => Reached' = Reached
<1>1. Codec' = Codec /\ CodecWriter' = CodecWriter
  BY DEF Codec, CodecWriter
<1>2. Heads(accepted)' = Heads(accepted') /\ Heads(offered)' = Heads(offered')
  BY <1>1, Zenon DEF Heads
<1>3. Size(accepted)' = Size(accepted') /\ Size(offered)' = Size(offered')
  BY <1>1, <1>2, Zenon DEF Size
<1>4. /\ \A i : PartAt(accepted, i)' = PartAt(accepted', i)
      /\ \A i : PartAt(offered, i)' = PartAt(offered', i)
  BY <1>2, Zenon DEF PartAt, Header, Footer, Batch
<1>5. /\ \A p : Content(accepted, p)' = Content(accepted', p)
      /\ \A p : Content(offered, p)' = Content(offered', p)
  BY <1>4, Zenon DEF Content
<1>6. Written(accepted)' = Written(accepted')
  BY <1>2, <1>4, Zenon DEF Written, Content
<1>7. Content(accepted, Size(accepted))' = Content(accepted', Size(accepted'))
  BY <1>3, <1>4, Zenon DEF Content
<1>8. \A p : Remnant(offered, p)' = Remnant(offered', p)
  BY <1>4, <1>5, Zenon DEF Remnant, Torn
<1>9. accepted' = accepted => Reached' = Reached
  BY <1>1, <1>2, Zenon DEF Reached
<1> QED
  BY <1>1, <1>2, <1>3, <1>5, <1>6, <1>7, <1>8, <1>9

(* What is passed on goes through the buffer, in order.                    *)
LEMMA PassLeaves ==
  ASSUME sink \in Seq(Parts), buffer \in Seq(Parts), NEW parts \in Seq(Parts), Pass(parts)
  PROVE  /\ sink' \in Seq(Parts) /\ buffer' \in Seq(Parts)
         /\ sink' \o buffer' = (sink \o buffer) \o parts
         /\ ~CodecWriter.holdsBack => buffer' = <<>>
<1> DEFINE all == buffer \o parts
<1>1. PICK k \in 0 .. Len(all) :
        /\ ~CodecWriter.holdsBack => k = Len(all)
        /\ sink' = sink \o SubSeq(all, 1, k)
        /\ buffer' = SubSeq(all, k + 1, Len(all))
  BY DEF Pass
<1>2. all \in Seq(Parts) /\ (sink \o buffer) \o parts = sink \o all
  BY ConcatProperties, ConcatAssociative
<1> HIDE DEF all
<1>3. /\ SubSeq(all, k + 1, Len(all)) \in Seq(Parts)
      /\ sink \o SubSeq(all, 1, k) \in Seq(Parts)
      /\ (sink \o SubSeq(all, 1, k)) \o SubSeq(all, k + 1, Len(all)) = sink \o all
      /\ k = Len(all) => SubSeq(all, k + 1, Len(all)) = <<>>
  BY <1>2, Cuts
<1>4. sink' \in Seq(Parts) /\ buffer' \in Seq(Parts)
  BY <1>1, <1>3, Zenon
<1>5. sink' \o buffer' = (sink \o buffer) \o parts
  BY <1>1, <1>2, <1>3, Zenon
<1>6. ~CodecWriter.holdsBack => buffer' = <<>>
  BY <1>1, <1>3, Zenon
<1> QED
  BY <1>4, <1>5, <1>6

(* A finished writer passes everything on.                                 *)
LEMMA PassAllLeaves ==
  ASSUME sink \in Seq(Parts), buffer \in Seq(Parts), NEW parts \in Seq(Parts), PassAll(parts)
  PROVE  /\ sink' \in Seq(Parts) /\ buffer' = <<>>
         /\ sink' = (sink \o buffer) \o parts
BY ConcatProperties DEF PassAll

(* What a dropped session leaves of a file is a start of it.               *)
LEMMA DropLeaves ==
  ASSUME format \in Formats, sink \in Seq(Parts), buffer \in Seq(Parts), Drop
  PROVE  /\ sink' \in Seq(Parts) /\ buffer' = <<>> /\ writer' = "taken"
         /\ \A n \in 0 .. MaxBatches : \A p \in 0 .. Size(n) :
              sink \o buffer = Content(n, p) =>
                \E q \in 0 .. p : Len(sink) <= q /\ sink' = Content(n, q)
<1>1. PICK k \in 0 .. Len(buffer) : sink' = sink \o SubSeq(buffer, 1, k)
  BY DEF Drop
<1>2. buffer' = <<>> /\ writer' = "taken"
  BY DEF Drop
<1>3. sink' \in Seq(Parts)
  BY <1>1, Cuts
<1>4. ASSUME NEW n \in 0 .. MaxBatches, NEW p \in 0 .. Size(n), sink \o buffer = Content(n, p)
      PROVE  \E q \in 0 .. p : Len(sink) <= q /\ sink' = Content(n, q)
  <2>1. Len(sink) + k \in 0 .. p
    BY <1>4, FileCut, Zenon
  <2>4. Len(sink) <= Len(sink) + k
    OBVIOUS
  <2>2. SubSeq(sink \o buffer, 1, Len(sink) + k) = Content(n, Len(sink) + k)
    BY <1>4, <2>1, ContentStart, Zenon
  <2>3. sink' = SubSeq(sink \o buffer, 1, Len(sink) + k)
    BY <1>1, Cuts
  <2> DEFINE q == Len(sink) + k
  <2>5. sink' = Content(n, q)
    BY <2>2, <2>3, Zenon
  <2> HIDE DEF q
  <2> QED
    BY <2>1, <2>4, <2>5 DEF q
<1> QED
  BY <1>2, <1>3, <1>4

(* What a session writes at once is a sequence of parts.                   *)
LEMMA WritesParts ==
  ASSUME format \in Formats
  PROVE  /\ Codec.opening \in Seq(Parts) /\ CodecWriter.footer \in Seq(Parts)
         /\ \A n \in 0 .. MaxBatches : n < MaxBatches => BatchParts(n + 1) \in Seq(Parts)
<1>1. <<>> \in Seq(Parts) /\ <<Header>> \in Seq(Parts) /\ <<Footer>> \in Seq(Parts)
  <2> DEFINE h == Header  f == Footer
  <2>1. h \in Parts /\ f \in Parts
    BY PartsFacts
  <2> HIDE DEF h, f
  <2>2. <<>> \in Seq(Parts) /\ <<h>> \in Seq(Parts) /\ <<f>> \in Seq(Parts)
    BY <2>1
  <2> QED
    BY <2>2 DEF h, f
<1>2. Codec.opening \in Seq(Parts) /\ CodecWriter.footer \in Seq(Parts)
  BY <1>1, FormatFacts, Zenon
<1>3. ASSUME NEW n \in 0 .. MaxBatches, n < MaxBatches
      PROVE  BatchParts(n + 1) \in Seq(Parts)
  <2> DEFINE first == IF n + 1 = 1 /\ ~broken THEN CodecWriter.first ELSE <<>>
             b == Batch(n + 1)
  <2>1. b \in Parts
    <3>1. n + 1 \in 1 .. MaxBatches
      BY <1>3, SessionAssumption
    <3> QED
      BY <3>1, PartsFacts
  <2>2. first \in Seq(Parts)
    BY <1>1, FormatFacts, Zenon
  <2>3. BatchParts(n + 1) = first \o <<b>>
    BY DEF BatchParts
  <2> HIDE DEF first, b
  <2>4. first \o <<b>> \in Seq(Parts)
    BY <2>1, <2>2
  <2> QED
    BY <2>3, <2>4, Zenon
<1> QED
  BY <1>2, <1>3

(* A new session has written nothing.                                      *)
LEMMA InitIInv ==
  ASSUME Init
  PROVE  IInv
<1>1. 0 \in 0 .. MaxBatches /\ 0 \in 0 .. 0 /\ <<>> \in Seq(Parts)
  BY SessionAssumption
<1>2. TypeOK
  BY <1>1 DEF Init, TypeOK
<1>3. OpenInv /\ EncoderInv /\ EndInv
  BY DEF Init, OpenInv, EncoderInv, EndInv
<1> QED
  BY <1>2, <1>3 DEF IInv

(* What the invariant says of a session that is not over.                  *)
LEMMA LiveFacts ==
  ASSUME IInv, writer # "taken"
  PROVE  /\ TypeOK
         /\ offered \in 0 .. MaxBatches /\ accepted \in 0 .. MaxBatches
         /\ offered \in Nat /\ accepted \in Nat
         /\ finish = "never" /\ ended = "never"
         /\ Heads(accepted) + accepted \in 0 .. Size(accepted)
         /\ writer = "open" /\ ~broken => sink \o buffer = Written(accepted)
         /\ writer = "none" => /\ sink = <<>> /\ buffer = <<>>
                               /\ offered = 0 /\ accepted = 0 /\ ~broken
         /\ caller = "encoder" => ~broken /\ accepted = offered
<1>1. /\ TypeOK /\ finish = "never" /\ ended = "never"
      /\ writer = "open" /\ ~broken => sink \o buffer = Written(accepted)
      /\ writer = "none" => sink = <<>> /\ buffer = <<>> /\ offered = 0 /\ ~broken
      /\ caller = "encoder" => ~broken /\ accepted = offered
  BY DEF IInv, TypeOK, OpenInv, EncoderInv
<1>2. /\ offered \in 0 .. MaxBatches /\ accepted \in 0 .. MaxBatches
      /\ offered \in Nat /\ accepted \in Nat /\ accepted <= offered /\ format \in Formats
  BY <1>1, SessionAssumption DEF TypeOK
<1>3. /\ Heads(accepted) \in {0, 1} /\ Len(CodecWriter.footer) \in {0, 1}
      /\ Size(accepted) = Heads(accepted) + accepted + Len(CodecWriter.footer)
  BY <1>2, Counts, Zenon
<1>4. Heads(accepted) + accepted \in 0 .. Size(accepted)
  BY <1>2, <1>3
<1>5. offered = 0 => accepted = 0
  BY <1>2
<1> QED
  BY <1>1, <1>2, <1>4, <1>5, Zenon

(* A format that holds nothing back has written what the encoder accepted. *)
LEMMA SinkReaches ==
  ASSUME IInv, writer # "taken", caller = "encoder"
  PROVE  Reached \in Nat /\ Reached <= Len(sink)
<1>1. /\ TypeOK /\ accepted \in 0 .. MaxBatches /\ accepted \in Nat
      /\ Heads(accepted) + accepted \in 0 .. Size(accepted)
      /\ writer = "open" => sink \o buffer = Written(accepted)
      /\ writer = "none" => accepted = 0
  BY LiveFacts, Zenon
<1>2. /\ format \in Formats /\ sink \in Seq(Parts) /\ writer \in {"none", "open"}
      /\ ~CodecWriter.holdsBack => buffer = <<>>
  BY <1>1 DEF IInv, OpenInv, TypeOK
<1>3. CASE CodecWriter.holdsBack \/ accepted = 0
  <2>1. Reached = 0 /\ Len(sink) \in Nat
    BY <1>2, <1>3 DEF Reached
  <2> QED
    BY <2>1
<1>4. CASE ~(CodecWriter.holdsBack \/ accepted = 0)
  <2>1. Reached = Heads(accepted) + accepted
    BY <1>4, Zenon DEF Reached
  <2>2. sink = Content(accepted, Heads(accepted) + accepted)
    <3>1. sink \o buffer = Written(accepted) /\ buffer = <<>>
      BY <1>1, <1>2, <1>4
    <3>2. sink \o <<>> = sink
      BY <1>2, ConcatEmptySeq
    <3> QED
      BY <3>1, <3>2, Zenon DEF Written
  <2>3. Len(sink) = Heads(accepted) + accepted
    BY <1>1, <1>2, <2>2, ContentType, Zenon
  <2>4. Heads(accepted) \in Nat
    <3>1. Heads(accepted) \in {0, 1}
      BY <1>1, <1>2, Counts, Zenon
    <3> QED
      BY <3>1
  <2> QED
    BY <1>1, <2>1, <2>3, <2>4
<1> QED
  BY <1>3, <1>4

(* A session that is over and did not finish.                              *)
LEMMA Abandoned ==
  ASSUME format' = format, accepted' = accepted, TypeOK', writer' = "taken",
         buffer' = <<>>, finish' # "ok", ended' # "returned",
         ended' = "raised" =>
           /\ offered' <= accepted + 1
           /\ \E p \in 0 .. Size(offered') :
                Reached <= p /\ sink' \in {Content(offered', p), Remnant(offered', p)}
  PROVE  IInv'
<1>1. OpenInv' /\ EncoderInv'
  BY DEF OpenInv, EncoderInv
<1>2. ASSUME ended' = "raised"
      PROVE  \E p \in 0 .. Size(offered)' :
               Reached' <= p /\ sink' \in {Content(offered, p)', Remnant(offered, p)'}
  <2>1. PICK p \in 0 .. Size(offered') :
          Reached <= p /\ sink' \in {Content(offered', p), Remnant(offered', p)}
    BY <1>2
  <2>2. /\ Size(offered)' = Size(offered') /\ Reached' = Reached
        /\ Content(offered, p)' = Content(offered', p)
        /\ Remnant(offered, p)' = Remnant(offered', p)
    BY SameFormat
  <2> QED
    BY <2>1, <2>2
<1>3. EndInv'
  BY <1>2 DEF EndInv
<1> QED
  BY <1>1, <1>3 DEF IInv

(* Starting writes what a file without batches begins with.                *)
LEMMA StartKeeps ==
  ASSUME IInv, Start
  PROVE  IInv'
<1>1. /\ writer = "none" /\ writer' = "open" /\ ended = "never"
      /\ Pass(Codec.opening)
      /\ UNCHANGED <<format, caller, offered, accepted, broken, finish, ended>>
  BY DEF Start
<1>2. /\ sink = <<>> /\ buffer = <<>> /\ offered = 0 /\ accepted = 0 /\ ~broken
      /\ finish = "never" /\ TypeOK /\ format \in Formats
      /\ sink \in Seq(Parts) /\ buffer \in Seq(Parts)
  BY <1>1, LiveFacts DEF TypeOK
<1>3. /\ sink' \in Seq(Parts) /\ buffer' \in Seq(Parts)
      /\ sink' \o buffer' = (sink \o buffer) \o Codec.opening
      /\ ~CodecWriter.holdsBack => buffer' = <<>>
  BY <1>1, <1>2, PassLeaves, WritesParts
<1>4. sink' \o buffer' = Written(0)
  <2>1. Codec.opening \in Seq(Parts) /\ Codec.opening = Written(0)
    <3>1. 0 \in 0 .. MaxBatches
      BY SessionAssumption
    <3> QED
      BY <1>2, <3>1, WritesParts, WrittenGrows
  <2>2. (<<>> \o <<>>) \o Written(0) = Written(0)
    BY <2>1, ConcatEmptySeq
  <2> QED
    BY <1>2, <1>3, <2>1, <2>2
<1>5. TypeOK'
  BY <1>1, <1>2, <1>3 DEF TypeOK
<1>6. OpenInv'
  <2>1. Written(accepted)' = Written(0)
    BY <1>1, <1>2, SameFormat
  <2> QED
    BY <1>1, <1>2, <1>3, <1>4, <2>1, SameFormat DEF OpenInv
<1>7. EncoderInv' /\ EndInv'
  BY <1>1, <1>2 DEF EncoderInv, EndInv
<1> QED
  BY <1>5, <1>6, <1>7 DEF IInv

(* What was offered cannot run out of numbers.                             *)
LEMMA OfferFacts ==
  ASSUME TypeOK, Offer
  PROVE  /\ writer = "open" /\ offered' = offered + 1
         /\ offered + 1 \in 0 .. MaxBatches /\ accepted \in 0 .. offered + 1
         /\ accepted + 1 \in 0 .. offered + 1 /\ accepted < MaxBatches
BY SessionAssumption DEF TypeOK, Offer

(* A file without batches has no negative size.                            *)
LEMMA EmptyFile ==
  ASSUME format \in Formats
  PROVE  Size(0) \in Nat /\ 0 \in 0 .. Size(0) /\ Heads(0) + 0 \in 0 .. Size(0)
<1> DEFINE heads == Heads(0)  foots == Len(CodecWriter.footer)  size == Size(0)
<1>1. /\ heads \in {0, 1} /\ foots \in {0, 1}
      /\ size = heads + 0 + foots
  <2>1. 0 \in Nat
    OBVIOUS
  <2> QED
    BY <2>1, Counts, Zenon
<1> HIDE DEF heads, foots, size
<1>2. size \in Nat /\ 0 \in 0 .. size /\ heads + 0 \in 0 .. size
  BY <1>1
<1> QED
  BY <1>2 DEF heads, size

(* A start that fails leaves a part of that.                               *)
LEMMA StartFailsKeeps ==
  ASSUME IInv, StartFails
  PROVE  IInv'
<1>1. /\ writer = "none" /\ writer' = "taken" /\ Tear(Codec.opening)
      /\ ended' = IF caller = "encoder" THEN "raised" ELSE ended
      /\ UNCHANGED <<format, caller, offered, accepted, finish>>
  BY DEF StartFails
<1>2. /\ sink = <<>> /\ buffer = <<>> /\ offered = 0 /\ accepted = 0 /\ finish = "never" /\ ended = "never"
      /\ TypeOK /\ format \in Formats /\ 0 \in 0 .. MaxBatches
      /\ sink \in Seq(Parts) /\ buffer \in Seq(Parts)
  BY <1>1, LiveFacts DEF TypeOK
<1>3. Codec.opening \in Seq(Parts) /\ Codec.opening = Content(0, Heads(0) + 0)
  BY <1>2, WritesParts, WrittenGrows DEF Written
<1>4. (sink \o buffer) \o Codec.opening = Content(0, Heads(0) + 0)
  <2>1. (<<>> \o <<>>) \o Codec.opening = Codec.opening
    BY <1>3, ConcatEmptySeq
  <2> QED
    BY <1>2, <1>3, <2>1
<1>5. Heads(0) + 0 \in 0 .. Size(0) /\ Size(0) \in Nat
  BY <1>2, EmptyFile
<1>6. /\ sink' \in Seq(Parts) /\ buffer' = <<>> /\ broken' = TRUE
      /\ \E q \in 0 .. Heads(0) + 0 :
           Len(sink) <= q /\ sink' \in {Content(0, q), Remnant(0, q)}
  BY <1>1, <1>2, <1>3, <1>4, <1>5, TearLeaves
<1>7. ASSUME caller = "encoder"
      PROVE  \E p \in 0 .. Size(offered') :
               Reached <= p /\ sink' \in {Content(offered', p), Remnant(offered', p)}
  <2>1. PICK q \in 0 .. Heads(0) + 0 :
          Len(sink) <= q /\ sink' \in {Content(0, q), Remnant(0, q)}
    BY <1>6
  <2>2. q \in 0 .. Size(0)
    BY <1>5
  <2>3. offered' = 0
    BY <1>1, <1>2
  <2>4. Reached <= q
    <3>1. Reached \in Nat /\ Reached <= Len(sink) /\ Len(sink) \in Nat /\ q \in Int
      BY <1>1, <1>2, <1>7, SinkReaches
    <3> QED
      BY <2>1, <3>1
  <2> QED
    BY <2>1, <2>2, <2>3, <2>4
<1>8. TypeOK'
  <2>1. <<>> \in Seq(Parts)
    OBVIOUS
  <2> QED
    BY <1>1, <1>2, <1>6, <2>1 DEF TypeOK
<1> QED
  <2>1. ended' = "raised" => caller = "encoder" /\ offered' <= accepted + 1
    BY <1>1, <1>2
  <2> QED
    BY <1>1, <1>2, <1>6, <1>7, <1>8, <2>1, Abandoned

(* An accepted batch is the next one of the file.                          *)
LEMMA WriteBatchKeeps ==
  ASSUME IInv, WriteBatch
  PROVE  IInv'
<1>1. /\ Offer /\ Pass(BatchParts(accepted + 1)) /\ accepted' = accepted + 1
      /\ UNCHANGED <<format, caller, writer, broken, finish, ended>>
  BY DEF WriteBatch
<1>2. /\ TypeOK /\ format \in Formats /\ sink \in Seq(Parts) /\ buffer \in Seq(Parts)
      /\ writer = "open" /\ writer # "taken" /\ writer # "none"
  <2>1. TypeOK
    BY DEF IInv
  <2> QED
    BY <1>1, <2>1, OfferFacts DEF TypeOK
<1>3. /\ offered' = offered + 1 /\ offered + 1 \in 0 .. MaxBatches
      /\ accepted + 1 \in 0 .. offered + 1 /\ accepted < MaxBatches
  BY <1>1, <1>2, OfferFacts
<1>4. /\ accepted \in 0 .. MaxBatches /\ finish = "never" /\ ended = "never"
      /\ ~broken => sink \o buffer = Written(accepted)
      /\ caller = "encoder" => ~broken /\ accepted = offered
  BY <1>2, LiveFacts
<1>5. BatchParts(accepted + 1) \in Seq(Parts)
  BY <1>2, <1>3, <1>4, WritesParts
<1>6. /\ sink' \in Seq(Parts) /\ buffer' \in Seq(Parts)
      /\ sink' \o buffer' = (sink \o buffer) \o BatchParts(accepted + 1)
      /\ ~CodecWriter.holdsBack => buffer' = <<>>
  BY <1>1, <1>2, <1>5, PassLeaves
<1>7. ~broken => Written(accepted) \o BatchParts(accepted + 1) = Written(accepted + 1)
  BY <1>2, <1>3, <1>4, WrittenGrows
<1>8. TypeOK'
  BY <1>1, <1>2, <1>3, <1>6 DEF TypeOK
<1>9. OpenInv'
  <2>1. ~broken => sink' \o buffer' = Written(accepted + 1)
    BY <1>4, <1>6, <1>7
  <2>2. Written(accepted)' = Written(accepted + 1) /\ CodecWriter' = CodecWriter
    BY <1>1, SameFormat
  <2> QED
    BY <1>1, <1>2, <1>4, <1>6, <2>1, <2>2 DEF OpenInv
<1>10. EncoderInv' /\ EndInv'
  BY <1>1, <1>3, <1>4 DEF EncoderInv, EndInv
<1> QED
  BY <1>8, <1>9, <1>10 DEF IInv

(* A session that is dropped leaves a start of the file of what was        *)
(* offered.                                                                *)
LEMMA DropKeeps ==
  ASSUME IInv, writer # "taken", caller = "encoder", GiveUp,
         UNCHANGED <<format, caller, accepted, broken, finish>>,
         offered' = offered \/ (writer = "open" /\ offered' = offered + 1),
         offered' \in 0 .. MaxBatches, accepted \in 0 .. offered'
  PROVE  IInv'
<1>1. Drop /\ ended' = "raised"
  BY DEF GiveUp
<1>2. /\ TypeOK /\ finish = "never" /\ ended = "never"
      /\ offered \in 0 .. MaxBatches /\ offered \in Nat /\ accepted = offered
      /\ Heads(offered) + offered \in 0 .. Size(offered)
      /\ writer = "open" => sink \o buffer = Written(offered)
      /\ writer = "none" => sink = <<>> /\ buffer = <<>> /\ offered = 0
  BY LiveFacts, Zenon
<1>3. format \in Formats /\ sink \in Seq(Parts) /\ buffer \in Seq(Parts)
      /\ writer \in {"none", "open"}
  BY <1>2 DEF TypeOK
<1>4. /\ sink' \in Seq(Parts) /\ buffer' = <<>> /\ writer' = "taken"
      /\ \A n \in 0 .. MaxBatches : \A p \in 0 .. Size(n) :
           sink \o buffer = Content(n, p) =>
             \E q \in 0 .. p : Len(sink) <= q /\ sink' = Content(n, q)
  BY <1>1, <1>3, DropLeaves
<1>5. \E p \in 0 .. Size(offered') : sink \o buffer = Content(offered', p)
  <2>1. CASE writer = "open" /\ offered' = offered
    BY <1>2, <2>1 DEF Written
  <2>2. CASE writer = "open" /\ offered' = offered + 1
    <3> DEFINE len == Heads(offered) + offered
    <3>1. len \in 0 .. Heads(offered) + offered
      BY <1>2
    <3>2. /\ Content(offered + 1, len) = Content(offered, len)
          /\ len \in 0 .. Heads(offered + 1) + offered + 1
      BY <1>2, <1>3, <3>1, ContentNext, Zenon
    <3>3. Heads(offered + 1) + offered + 1 <= Size(offered + 1)
      <4>1. offered + 1 \in Nat
        BY <1>2
      <4>2. /\ Heads(offered + 1) \in {0, 1} /\ Len(CodecWriter.footer) \in {0, 1}
            /\ Size(offered + 1) = Heads(offered + 1) + (offered + 1) + Len(CodecWriter.footer)
        BY <1>3, <4>1, Counts, Zenon
      <4> QED
        BY <1>2, <4>2
    <3>4. len \in 0 .. Size(offered + 1)
      <4>1. offered + 1 \in Nat
        BY <1>2
      <4>2. Heads(offered + 1) \in {0, 1} /\ Size(offered + 1) \in Nat
        BY <1>3, <4>1, Counts, Zenon
      <4> HIDE DEF len
      <4> QED
        BY <1>2, <3>2, <3>3, <4>2
    <3>5. sink \o buffer = Content(offered + 1, len)
      BY <1>2, <2>2, <3>2 DEF Written
    <3> HIDE DEF len
    <3> QED
      BY <2>2, <3>4, <3>5
  <2>3. CASE writer = "none" /\ offered' = offered
    <3>1. sink \o buffer = <<>>
      <4>1. <<>> \o <<>> = <<>>
        BY <1>3, ConcatEmptySeq
      <4> QED
        BY <1>2, <2>3, <4>1
    <3>2. Content(0, 0) = <<>>
      <4>1. 0 \in 0 .. MaxBatches /\ 0 \in 0 .. Size(0)
        BY <1>2, <1>3, <2>3, EmptyFile
      <4>2. Content(0, 0) \in Seq(Parts) /\ Len(Content(0, 0)) = 0
        BY <1>3, <4>1, ContentType
      <4> DEFINE c == Content(0, 0)
      <4> HIDE DEF c
      <4>3. c = <<>>
        BY <4>2 DEF c
      <4> QED
        BY <4>3 DEF c
    <3>3. offered' = 0 /\ 0 \in 0 .. Size(0)
      BY <1>2, <1>3, <2>3, EmptyFile
    <3> QED
      BY <3>1, <3>2, <3>3
  <2> QED
    BY <1>3, <2>1, <2>2, <2>3
<1>6. \E p \in 0 .. Size(offered') :
        Reached <= p /\ sink' \in {Content(offered', p), Remnant(offered', p)}
  <2>1. PICK p \in 0 .. Size(offered') : sink \o buffer = Content(offered', p)
    BY <1>5
  <2>2. PICK q \in 0 .. p : Len(sink) <= q /\ sink' = Content(offered', q)
    BY <1>4, <2>1
  <2>3. Size(offered') \in Nat
    <3>1. offered' \in Nat
      BY SessionAssumption
    <3> QED
      BY <1>3, <3>1, Counts, Zenon
  <2>4. q \in 0 .. Size(offered')
    BY <2>3
  <2>5. Reached <= q
    <3>1. Reached \in Nat /\ Reached <= Len(sink) /\ Len(sink) \in Nat /\ q \in Int
      BY <1>3, SinkReaches
    <3> QED
      BY <2>2, <3>1
  <2> QED
    BY <2>2, <2>4, <2>5
<1>7. TypeOK'
  <2>1. <<>> \in Seq(Parts)
    OBVIOUS
  <2> QED
    BY <1>1, <1>2, <1>4, <2>1 DEF TypeOK
<1> QED
  <2>1. offered' <= accepted + 1
    BY <1>2
  <2> QED
    BY <1>1, <1>2, <1>4, <1>6, <1>7, <2>1, Abandoned

(* A refused batch leaves no trace, or ends the encoder.                   *)
LEMMA WriteRefusedKeeps ==
  ASSUME IInv, WriteRefused
  PROVE  IInv'
<1>1. /\ Offer /\ UNCHANGED <<format, caller, accepted, broken, finish>>
  BY DEF WriteRefused
<1>2. TypeOK
  BY DEF IInv
<1>3. /\ writer = "open" /\ writer # "taken" /\ offered' = offered + 1
      /\ offered' \in 0 .. MaxBatches /\ accepted \in 0 .. offered'
  BY <1>1, <1>2, OfferFacts
<1>4. CASE caller = "encoder"
  <2>1. GiveUp
    BY <1>4 DEF WriteRefused
  <2> QED
    BY <1>1, <1>3, <1>4, <2>1, DropKeeps
<1>5. CASE caller # "encoder"
  <2>1. UNCHANGED <<writer, sink, buffer, ended>>
    BY <1>5 DEF WriteRefused
  <2>2. TypeOK'
    BY <1>1, <1>2, <1>3, <2>1 DEF TypeOK
  <2>3. /\ finish = "never" /\ ended = "never"
        /\ ~broken => sink \o buffer = Written(accepted)
    BY <1>3, LiveFacts
  <2>4. OpenInv'
    <3>1. Written(accepted)' = Written(accepted) /\ CodecWriter' = CodecWriter
      BY <1>1, SameFormat
    <3>2. OpenInv
      BY DEF IInv
    <3> QED
      BY <1>1, <1>3, <2>1, <2>3, <3>1, <3>2 DEF OpenInv
  <2>5. EncoderInv' /\ EndInv'
    BY <1>1, <1>5, <2>1, <2>3 DEF EncoderInv, EndInv
  <2> QED
    BY <2>2, <2>4, <2>5 DEF IInv
<1> QED
  BY <1>4, <1>5

(* The iterable failing ends the encoder.                                  *)
LEMMA IterableFailsKeeps ==
  ASSUME IInv, IterableFails
  PROVE  IInv'
<1>1. /\ caller = "encoder" /\ writer # "taken" /\ GiveUp
      /\ UNCHANGED <<format, caller, offered, accepted, broken, finish>>
  BY DEF IterableFails
<1>2. offered' = offered /\ offered' \in 0 .. MaxBatches /\ accepted \in 0 .. offered'
  BY <1>1 DEF IInv, TypeOK
<1> QED
  BY <1>1, <1>2, DropKeeps

(* A batch that fails to be written ends the encoder with a part of it;    *)
(* of what the holder's sink holds from then on nothing is claimed.        *)
LEMMA WriteFailsKeeps ==
  ASSUME IInv, WriteFails
  PROVE  IInv'
<1>1. /\ Offer /\ Tear(BatchParts(accepted + 1))
      /\ IF caller = "encoder" THEN ended' = "raised" /\ writer' = "taken"
                               ELSE UNCHANGED <<writer, ended>>
      /\ UNCHANGED <<format, caller, accepted, finish>>
  BY DEF WriteFails
<1>2. /\ TypeOK /\ format \in Formats /\ sink \in Seq(Parts) /\ buffer \in Seq(Parts)
      /\ writer = "open" /\ writer # "taken" /\ writer # "none"
  <2>1. TypeOK
    BY DEF IInv
  <2> QED
    BY <1>1, <2>1, OfferFacts DEF TypeOK
<1>3. /\ offered' = offered + 1 /\ offered' \in 0 .. MaxBatches
      /\ accepted \in 0 .. offered' /\ accepted < MaxBatches
  BY <1>1, <1>2, OfferFacts
<1>4. /\ accepted \in 0 .. MaxBatches /\ accepted \in Nat /\ finish = "never" /\ ended = "never"
      /\ ~broken => sink \o buffer = Written(accepted)
      /\ caller = "encoder" => ~broken /\ accepted = offered
  BY <1>2, LiveFacts
<1>5. BatchParts(accepted + 1) \in Seq(Parts)
  BY <1>2, <1>3, <1>4, WritesParts
<1>6. /\ sink' \in Seq(Parts) /\ buffer' = <<>> /\ broken' = TRUE
      /\ \A n \in 0 .. MaxBatches : \A p \in 0 .. Size(n) :
           (sink \o buffer) \o BatchParts(accepted + 1) = Content(n, p) =>
             \E q \in 0 .. p : Len(sink) <= q /\ sink' \in {Content(n, q), Remnant(n, q)}
  BY <1>1, <1>2, <1>5, TearLeaves
<1>7. TypeOK'
  <2>1. <<>> \in Seq(Parts)
    OBVIOUS
  <2> QED
    BY <1>1, <1>2, <1>3, <1>4, <1>6, <2>1 DEF TypeOK
<1>8. CASE caller = "encoder"
  <2> DEFINE n == accepted + 1  len == Heads(n) + n
  <2>1. n \in 0 .. MaxBatches /\ n \in Nat /\ n = offered'
    BY <1>3, <1>4, <1>8
  <2>2. len \in 0 .. Size(n) /\ Size(n) \in Nat
    <3>1. /\ Heads(n) \in {0, 1} /\ Len(CodecWriter.footer) \in {0, 1}
          /\ Size(n) = Heads(n) + n + Len(CodecWriter.footer)
      BY <1>2, <2>1, Counts, Zenon
    <3> HIDE DEF n
    <3> QED
      BY <2>1, <3>1
  <2>3. (sink \o buffer) \o BatchParts(n) = Content(n, len)
    <3>1. Written(accepted) \o BatchParts(n) = Written(n)
      BY <1>2, <1>3, <1>4, <1>8, WrittenGrows
    <3> QED
      BY <1>4, <1>8, <3>1, Zenon DEF Written
  <2> HIDE DEF n, len
  <2>4. PICK q \in 0 .. len : Len(sink) <= q /\ sink' \in {Content(n, q), Remnant(n, q)}
    BY <1>6, <2>1, <2>2, <2>3 DEF n
  <2>5. q \in 0 .. Size(n)
    BY <2>2
  <2>6. \E p \in 0 .. Size(offered') :
          Reached <= p /\ sink' \in {Content(offered', p), Remnant(offered', p)}
    <3>1. Reached \in Nat /\ Reached <= Len(sink) /\ Len(sink) \in Nat /\ q \in Int
      BY <1>2, <1>8, <2>5, SinkReaches
    <3>2. Reached <= q
      BY <2>4, <3>1
    <3> QED
      BY <2>1, <2>4, <2>5, <3>2
  <2>7. offered' <= accepted + 1
    BY <2>1 DEF n
  <2> QED
    BY <1>1, <1>4, <1>6, <1>7, <1>8, <2>6, <2>7, Abandoned
<1>9. CASE caller # "encoder"
  <2>1. OpenInv'
    BY <1>1, <1>2, <1>4, <1>6, <1>9 DEF OpenInv
  <2>2. EncoderInv' /\ EndInv'
    BY <1>1, <1>4, <1>6, <1>9 DEF EncoderInv, EndInv
  <2> QED
    BY <1>7, <2>1, <2>2 DEF IInv
<1> QED
  BY <1>8, <1>9

(* Finishing completes the file.                                           *)
LEMMA FinishKeeps ==
  ASSUME IInv, Finish
  PROVE  IInv'
<1>1. /\ writer = "open" /\ writer' = "taken" /\ writer # "taken"
      /\ PassAll(CodecWriter.footer) /\ finish' = "ok"
      /\ ended' = IF caller = "encoder" THEN "returned" ELSE ended
      /\ UNCHANGED <<format, caller, offered, accepted, broken>>
  BY DEF Finish
<1>2. /\ TypeOK /\ ended = "never" /\ accepted \in 0 .. MaxBatches
      /\ ~broken => sink \o buffer = Written(accepted)
      /\ caller = "encoder" => ~broken /\ accepted = offered
  BY <1>1, LiveFacts
<1>3. format \in Formats /\ sink \in Seq(Parts) /\ buffer \in Seq(Parts)
  BY <1>2 DEF TypeOK
<1>4. CodecWriter.footer \in Seq(Parts)
  BY <1>3, WritesParts
<1>5. /\ sink' \in Seq(Parts) /\ buffer' = <<>>
      /\ sink' = (sink \o buffer) \o CodecWriter.footer
  BY <1>1, <1>3, <1>4, PassAllLeaves
<1>6. Written(accepted) \o CodecWriter.footer = Content(accepted, Size(accepted))
  BY <1>2, <1>3, WrittenGrows
<1>7. TypeOK'
  <2>1. <<>> \in Seq(Parts)
    OBVIOUS
  <2> QED
    BY <1>1, <1>2, <1>5, <2>1 DEF TypeOK
<1>8. OpenInv' /\ EncoderInv'
  BY <1>1, <1>5 DEF OpenInv, EncoderInv
<1>9. EndInv'
  <2>1. ~broken => sink' = Content(accepted, Size(accepted))
    BY <1>2, <1>5, <1>6
  <2>2. Content(accepted, Size(accepted))' = Content(accepted, Size(accepted))
    BY <1>1, SameFormat
  <2> QED
    BY <1>1, <1>2, <2>1, <2>2 DEF EndInv
<1> QED
  BY <1>7, <1>8, <1>9 DEF IInv

(* A finish that fails leaves a part of the file.                          *)
LEMMA FinishFailsKeeps ==
  ASSUME IInv, FinishFails
  PROVE  IInv'
<1>1. /\ writer = "open" /\ writer' = "taken" /\ writer # "taken"
      /\ Tear(CodecWriter.footer) /\ finish' = "failed"
      /\ ended' = IF caller = "encoder" THEN "raised" ELSE ended
      /\ UNCHANGED <<format, caller, offered, accepted>>
  BY DEF FinishFails
<1>2. /\ TypeOK /\ ended = "never" /\ accepted \in 0 .. MaxBatches /\ accepted \in Nat
      /\ ~broken => sink \o buffer = Written(accepted)
      /\ caller = "encoder" => ~broken /\ accepted = offered
  BY <1>1, LiveFacts
<1>3. format \in Formats /\ sink \in Seq(Parts) /\ buffer \in Seq(Parts)
  BY <1>2 DEF TypeOK
<1>4. CodecWriter.footer \in Seq(Parts)
  BY <1>3, WritesParts
<1>5. /\ sink' \in Seq(Parts) /\ buffer' = <<>> /\ broken' = TRUE
      /\ \A n \in 0 .. MaxBatches : \A p \in 0 .. Size(n) :
           (sink \o buffer) \o CodecWriter.footer = Content(n, p) =>
             \E q \in 0 .. p : Len(sink) <= q /\ sink' \in {Content(n, q), Remnant(n, q)}
  BY <1>1, <1>3, <1>4, TearLeaves
<1>6. Written(accepted) \o CodecWriter.footer = Content(accepted, Size(accepted))
  BY <1>2, <1>3, WrittenGrows
<1>7. TypeOK'
  <2>1. <<>> \in Seq(Parts)
    OBVIOUS
  <2> QED
    BY <1>1, <1>2, <1>5, <2>1 DEF TypeOK
<1>8. ASSUME ended' = "raised"
      PROVE  /\ offered' <= accepted + 1
             /\ \E p \in 0 .. Size(offered') :
                  Reached <= p /\ sink' \in {Content(offered', p), Remnant(offered', p)}
  <2>1. caller = "encoder" /\ ~broken /\ accepted = offered'
    BY <1>1, <1>2, <1>8
  <2>2. (sink \o buffer) \o CodecWriter.footer = Content(accepted, Size(accepted))
    BY <1>2, <1>6, <2>1
  <2>3. Size(accepted) \in 0 .. Size(accepted)
    <3>1. Size(accepted) \in Nat
      BY <1>2, <1>3, Counts, Zenon
    <3> QED
      BY <3>1
  <2>4. PICK q \in 0 .. Size(accepted) :
          Len(sink) <= q /\ sink' \in {Content(accepted, q), Remnant(accepted, q)}
    BY <1>2, <1>5, <2>2, <2>3
  <2>5. Reached <= q
    <3>1. Reached \in Nat /\ Reached <= Len(sink) /\ Len(sink) \in Nat /\ q \in Int
      BY <1>1, <1>3, <2>1, SinkReaches
    <3> QED
      BY <2>4, <3>1
  <2>6. offered' <= accepted + 1
    BY <1>2, <2>1
  <2> QED
    BY <2>1, <2>4, <2>5, <2>6
<1> QED
  BY <1>1, <1>2, <1>5, <1>7, <1>8, Abandoned

(* Every step of a session keeps it.                                       *)
LEMMA NextIInv ==
  ASSUME IInv, [Next]_vars
  PROVE  IInv'
<1>1. CASE Next
  BY <1>1, StartKeeps, StartFailsKeeps, WriteBatchKeeps, WriteRefusedKeeps, WriteFailsKeeps,
     IterableFailsKeeps, FinishKeeps, FinishFailsKeeps DEF Next
<1>2. CASE UNCHANGED vars
  <2>1. /\ format' = format /\ caller' = caller /\ writer' = writer /\ sink' = sink
        /\ buffer' = buffer /\ offered' = offered /\ accepted' = accepted
        /\ broken' = broken /\ finish' = finish /\ ended' = ended
    BY <1>2 DEF vars
  <2>2. /\ CodecWriter' = CodecWriter /\ Written(accepted)' = Written(accepted)
        /\ Content(accepted, Size(accepted))' = Content(accepted, Size(accepted))
        /\ Size(offered)' = Size(offered)
        /\ \A p : Content(offered, p)' = Content(offered, p)
        /\ \A p : Remnant(offered, p)' = Remnant(offered, p)
        /\ Reached' = Reached
    BY <2>1, SameFormat
  <2>3. TypeOK' /\ EncoderInv'
    BY <2>1 DEF IInv, TypeOK, EncoderInv
  <2>4. OpenInv'
    BY <2>1, <2>2 DEF IInv, OpenInv
  <2>5. EndInv'
    BY <2>1, <2>2 DEF IInv, EndInv
  <2> QED
    BY <2>3, <2>4, <2>5 DEF IInv
<1> QED
  BY <1>1, <1>2

-----------------------------------------------------------------------------
(* In every state of every session, of any length and in any of the five   *)
(* formats, IInv holds.                                                    *)
THEOREM Inductive == Spec => []IInv
<1> QED
  BY InitIInv, NextIInv, PTL DEF Spec

(* The writer, its buffer and the counts of a session stay within their    *)
(* types; an encoder that has ended holds no writer any more.              *)
THEOREM TypeCorrect == Spec => []TypeOK
<1>1. IInv => TypeOK
  BY DEF IInv
<1> QED
  BY Inductive, <1>1, PTL

(* All the batches of a file arrive once its footer, or in a format        *)
(* without one its last batch, is there.                                   *)
LEMMA AllArrive ==
  ASSUME format \in Formats, NEW n \in 0 .. MaxBatches
  PROVE  /\ Size(n) \in Nat /\ Heads(n) + n \in 0 .. Size(n)
         /\ Arrived(n, Size(n)) = n /\ Arrived(n, Heads(n) + n) = n
         /\ Codec.readsHeader => Size(n) # 0 /\ Heads(n) + n # 0
         /\ Codec.readsFooter => Heads(n) + n < Size(n)
<1> DEFINE heads == Heads(n)  foots == Len(CodecWriter.footer)  size == Size(n)
           header == Codec.readsHeader  footer == Codec.readsFooter
<1>1. n \in Nat
  BY SessionAssumption
<1>2. /\ heads \in {0, 1} /\ foots \in {0, 1} /\ size = heads + n + foots
      /\ header => heads = 1
      /\ footer => foots = 1
  BY <1>1, Counts, Zenon
<1>3. \A p : Arrived(n, p) = IF p <= heads THEN 0 ELSE IF p <= heads + n THEN p - heads ELSE n
  BY DEF Arrived
<1> HIDE DEF heads, foots, size, header, footer
<1>4. /\ size \in Nat /\ heads + n \in 0 .. size
      /\ Arrived(n, size) = n /\ Arrived(n, heads + n) = n
      /\ header => size # 0 /\ heads + n # 0
      /\ footer => heads + n < size
  <2>1. size \in Nat /\ heads + n \in 0 .. size /\ (footer => heads + n < size)
        /\ (header => size # 0 /\ heads + n # 0)
    BY <1>1, <1>2
  <2>2. Arrived(n, heads + n) = n
    <3>1. ASSUME NEW p, p = heads + n
          PROVE  Arrived(n, p) = n
      <4>1. Arrived(n, p) = IF p <= heads THEN 0 ELSE IF p <= heads + n THEN p - heads ELSE n
        BY <1>3, Zenon
      <4> QED
        BY <1>1, <1>2, <3>1, <4>1
    <3> QED
      BY <3>1
  <2>3. Arrived(n, size) = n
    <3>1. Arrived(n, size) = IF size <= heads THEN 0
                             ELSE IF size <= heads + n THEN size - heads ELSE n
      BY <1>3
    <3> QED
      BY <1>1, <1>2, <3>1
  <2> QED
    BY <2>1, <2>2, <2>3
<1> QED
  BY <1>4, Zenon DEF heads, size, header, footer

(* As long as nothing failed, whoever reads the sink of an open session    *)
(* gets exactly the batches accepted so far, a refused batch having left   *)
(* no trace; of Parquet nothing can be read before it is finished.         *)
THEOREM OpenSessionsAreReadable == Spec => []WrittenIsReadable
<1>1. IInv => WrittenIsReadable
  <2> SUFFICES ASSUME IInv, writer = "open", ~broken
               PROVE  Decodings(sink) = {IF Codec.readsFooter THEN NothingOf
                                         ELSE AllOf(Numbers(accepted))}
    BY DEF WrittenIsReadable
  <2> DEFINE n == accepted  len == Heads(n) + n
  <2>1. /\ TypeOK /\ n \in 0 .. MaxBatches
        /\ sink \o buffer = Written(n) /\ (~CodecWriter.holdsBack => buffer = <<>>)
    BY LiveFacts DEF IInv, OpenInv
  <2>2. format \in Formats /\ sink \in Seq(Parts) /\ buffer \in Seq(Parts)
    BY <2>1 DEF TypeOK
  <2>3. /\ Size(n) \in Nat /\ len \in 0 .. Size(n) /\ Arrived(n, len) = n
        /\ Codec.readsHeader => len # 0
        /\ Codec.readsFooter => len < Size(n)
    BY <2>1, <2>2, AllArrive, Zenon
  <2>4. sink \o buffer = Content(n, len)
    BY <2>1 DEF Written
  <2>5. Codec.readsFooter = CodecWriter.holdsBack /\ Codec.readsFooter \in BOOLEAN
    BY <2>2, FormatFacts, Zenon
  <2>6. CASE Codec.readsFooter
    <3>1. Len(Content(n, len)) = len
      BY <2>1, <2>2, <2>3, ContentType, Zenon
    <3>2. Len(sink) + Len(buffer) = len
      <4>1. Len(sink \o buffer) = Len(sink) + Len(buffer)
        BY <2>2
      <4> QED
        BY <2>4, <3>1, <4>1, Zenon
    <3>3. Len(sink) \in 0 .. Size(n) /\ Len(sink) # Size(n) /\ Len(sink) \in 0 .. len
      <4> HIDE DEF n, len
      <4>1. Len(sink) \in Nat /\ Len(buffer) \in Nat
        BY <2>2
      <4> QED
        BY <2>3, <2>6, <3>2, <4>1
    <3>4. SubSeq(sink \o buffer, 1, Len(sink)) = Content(n, Len(sink))
      BY <2>1, <2>2, <2>3, <2>4, <3>3, ContentStart, Zenon
    <3>5. SubSeq(sink \o buffer, 1, Len(sink)) = sink
      <4>1. \A i \in 1 .. Len(sink) : (sink \o buffer)[i] = sink[i]
        BY <2>2
      <4> DEFINE t == SubSeq(sink \o buffer, 1, Len(sink))
      <4>2. /\ t \in Seq(Parts) /\ Len(t) = Len(sink)
            /\ \A i \in 1 .. Len(sink) : t[i] = (sink \o buffer)[i]
        BY <2>2
      <4> HIDE DEF t
      <4>3. t = sink
        BY <2>2, <4>1, <4>2, SeqEqual
      <4> QED
        BY <4>3 DEF t
    <3>6. Decodings(Content(n, Len(sink))) = {NothingOf}
      BY <2>1, <2>2, <2>6, <3>3, DecodedStart, Zenon
    <3> QED
      BY <2>6, <3>4, <3>5, <3>6, Zenon
  <2>7. CASE ~Codec.readsFooter
    <3>1. sink = Content(n, len)
      <4>1. buffer = <<>>
        BY <2>1, <2>5, <2>7, Zenon
      <4>2. sink \o <<>> = sink
        BY <2>2, ConcatEmptySeq
      <4> QED
        BY <2>4, <4>1, <4>2, Zenon
    <3>2. Decodings(Content(n, len)) = {AllOf(Numbers(Arrived(n, len)))}
      BY <2>1, <2>2, <2>3, <2>7, DecodedStart, Zenon
    <3> QED
      BY <2>3, <2>7, <3>1, <3>2, Zenon
  <2> QED
    BY <2>6, <2>7
<1> QED
  BY Inductive, <1>1, PTL

(* A session that finished on a sink that never failed reads back as the   *)
(* accepted batches; and when the encoder returns, these are all batches   *)
(* of its iterable.                                                        *)
THEOREM FinishedFilesAreWhole == Spec => []FinishedReadsBack
<1>1. IInv => FinishedReadsBack
  <2> SUFFICES ASSUME IInv
               PROVE  FinishedReadsBack
    OBVIOUS
  <2> DEFINE n == accepted
  <2>1. /\ finish = "ok" /\ ~broken => sink = Content(n, Size(n))
        /\ ended = "returned" => finish = "ok" /\ ~broken /\ accepted = offered
    BY DEF IInv, EndInv
  <2>2. format \in Formats /\ n \in 0 .. MaxBatches
    BY SessionAssumption DEF IInv, TypeOK
  <2>3. /\ Size(n) \in Nat /\ Arrived(n, Size(n)) = n
        /\ Codec.readsHeader => Size(n) # 0
    BY <2>2, AllArrive, Zenon
  <2>4. Size(n) \in 0 .. Size(n)
    <3> HIDE DEF n
    <3> QED
      BY <2>3
  <2>5. Decodings(Content(n, Size(n))) = {AllOf(Numbers(n))}
    BY <2>2, <2>3, <2>4, DecodedStart, Zenon
  <2> QED
    BY <2>1, <2>5, Zenon DEF FinishedReadsBack
<1> QED
  BY Inductive, <1>1, PTL

(* The first batches are a start of the batches.                           *)
LEMMA NumbersPrefix ==
  ASSUME NEW n \in Nat, NEW m \in 0 .. n
  PROVE  IsPrefix(Numbers(m), Numbers(n)) /\ IsPrefix(<<>>, Numbers(n))
<1> DEFINE s == Numbers(m)  t == Numbers(n)
<1>1. m \in Nat /\ m <= n
  OBVIOUS
<1>2. s \in Seq(Nat) /\ Len(s) = m /\ \A k \in 1 .. m : s[k] = k
  BY <1>1 DEF Numbers
<1>3. t \in Seq(Nat) /\ Len(t) = n /\ \A k \in 1 .. n : t[k] = k
  BY DEF Numbers
<1> HIDE DEF s, t
<1>4. SubSeq(s, 1, Len(s)) = SubSeq(t, 1, Len(s))
  <2>1. SubSeq(s, 1, Len(s)) = s
    BY <1>2, SubSeqFull
  <2>2. /\ SubSeq(t, 1, m) \in Seq(Nat) /\ Len(SubSeq(t, 1, m)) = m
        /\ \A k \in 1 .. m : SubSeq(t, 1, m)[k] = t[k]
    BY <1>1, <1>3
  <2>3. s = SubSeq(t, 1, m)
    BY <1>1, <1>2, <1>3, <2>2, SeqEqual
  <2> QED
    BY <1>2, <2>1, <2>3
<1>5. /\ Len(<<>>) <= Len(t)
      /\ SubSeq(<<>>, 1, Len(<<>>)) = SubSeq(t, 1, Len(<<>>))
  BY <1>3
<1> QED
  BY <1>1, <1>2, <1>3, <1>4, <1>5 DEF IsPrefix, s, t

(* A start of n numbers and the next one are a longer start.               *)
LEMMA NumbersGrow ==
  ASSUME NEW k \in Nat
  PROVE  Numbers(k) \o <<>> = Numbers(k) /\ Numbers(k) \o <<k + 1>> = Numbers(k + 1)
<1> DEFINE s == Numbers(k)  t == Numbers(k + 1)
<1>1. s \in Seq(Nat) /\ Len(s) = k /\ \A i \in 1 .. k : s[i] = i
  BY DEF Numbers
<1>2. t \in Seq(Nat) /\ Len(t) = k + 1 /\ \A i \in 1 .. k + 1 : t[i] = i
  BY DEF Numbers
<1> HIDE DEF s, t
<1>3. s \o <<>> = s
  BY <1>1, ConcatEmptySeq
<1>4. /\ s \o <<k + 1>> \in Seq(Nat) /\ Len(s \o <<k + 1>>) = k + 1
      /\ \A i \in 1 .. k : (s \o <<k + 1>>)[i] = s[i]
      /\ (s \o <<k + 1>>)[k + 1] = k + 1
  BY <1>1
<1>5. \A i \in 1 .. k + 1 : (s \o <<k + 1>>)[i] = t[i]
  BY <1>1, <1>2, <1>4
<1>6. s \o <<k + 1>> = t
  BY <1>2, <1>4, <1>5, SeqEqual
<1> QED
  BY <1>3, <1>6 DEF s, t

(* Where the accepted batches are in the sink, they arrive.                *)
LEMMA AcceptedArrive ==
  ASSUME format \in Formats, TypeOK, offered <= accepted + 1,
         NEW p \in 0 .. Size(offered), Reached <= p,
         Codec.readsFooter => p = Size(offered)
  PROVE  accepted <= Arrived(offered, p)
<1> DEFINE n == offered  h == Heads(n)  foots == Len(CodecWriter.footer)  size == Size(n)
           a == Arrived(n, p)
<1>1. /\ n \in 0 .. MaxBatches /\ n \in Nat /\ accepted \in Nat /\ accepted <= n
      /\ n <= accepted + 1
  BY SessionAssumption DEF TypeOK
<1>2. /\ h \in {0, 1} /\ foots \in {0, 1} /\ size = h + n + foots
      /\ Codec.readsFooter => foots = 1
  BY <1>1, Counts, Zenon
<1>3. a = IF p <= h THEN 0 ELSE IF p <= h + n THEN p - h ELSE n
  BY DEF Arrived
<1>4. Codec.readsFooter = CodecWriter.holdsBack
  BY FormatFacts, Zenon
<1>5. a \in 0 .. n
  BY <1>1, ReadBack, Zenon
<1> HIDE DEF a, h, foots, size
<1>6. CASE accepted = 0
  BY <1>5, <1>6 DEF a
<1>7. CASE Codec.readsFooter
  <2>1. p = size /\ size = h + n + 1
    BY <1>2, <1>7 DEF size
  <2>2. a = n
    BY <1>1, <1>2, <1>3, <2>1
  <2> QED
    BY <1>1, <2>2 DEF a
<1>8. CASE accepted # 0 /\ ~Codec.readsFooter
  <2>1. Heads(accepted) + accepted <= p
    BY <1>4, <1>8, Zenon DEF Reached
  <2>2. Heads(accepted) = h
    <3>1. CASE n = accepted
      BY <3>1 DEF h
    <3>2. CASE n = accepted + 1
      <4>1. Heads(accepted + 1) = Heads(accepted) \/ accepted = 0
        BY <1>1, Counts, Zenon
      <4> QED
        BY <1>8, <3>2, <4>1 DEF h
    <3> QED
      BY <1>1, <3>1, <3>2
  <2>3. h + accepted <= p /\ p \in Int
    BY <2>1, <2>2
  <2>4. accepted <= a
    BY <1>1, <1>2, <1>3, <2>3
  <2> QED
    BY <2>4 DEF a
<1> QED
  BY <1>6, <1>7, <1>8

(* When the encoder raises, what it leaves reads as a start of the batches *)
(* it was offered.  Read without an error it has every accepted batch in   *)
(* whole, so that only the batch being written can arrive in part or with  *)
(* an altered value; and a format with a footer is then complete.          *)
THEOREM FragmentsAreStarts == Spec => []FragmentsReadAsPrefixes
<1>1. IInv => FragmentsReadAsPrefixes
  <2> SUFFICES ASSUME IInv, ended = "raised", NEW decoding \in Decodings(sink)
               PROVE  /\ IsPrefix(Arriving(decoding), Numbers(offered))
                      /\ ~decoding.error => accepted <= Len(decoding.batches)
                      /\ decoding.altered => decoding.partial = offered
                      /\ Codec.readsFooter /\ ~decoding.error =>
                           decoding.batches = Numbers(offered)
    BY DEF FragmentsReadAsPrefixes
  <2> DEFINE n == offered
  <2>1. /\ format \in Formats /\ TypeOK /\ n \in 0 .. MaxBatches /\ n \in Nat
        /\ accepted \in Nat /\ n <= accepted + 1
    BY SessionAssumption DEF IInv, TypeOK, EndInv
  <2>2. PICK p \in 0 .. Size(n) : Reached <= p /\ sink \in {Content(n, p), Remnant(n, p)}
    BY DEF IInv, EndInv
  <2> DEFINE a == Arrived(n, p)
  <2>3. Starts(decoding, a, n) /\ (Codec.readsFooter /\ ~decoding.error => p = Size(n))
    <3>1. decoding \in Decodings(Content(n, p)) \union Decodings(Remnant(n, p))
      BY <2>2
    <3> QED
      BY <2>1, <3>1, DecodedStart, Zenon
  <2>4. PICK k \in 0 .. a :
          /\ decoding.batches = Numbers(k)
          /\ decoding.partial = 0 \/ (decoding.partial = k + 1 /\ k + 1 <= n)
          /\ ~decoding.error => k = a
          /\ decoding.altered => ~decoding.error /\ decoding.partial # 0
    BY <2>3, Zenon DEF Starts
  <2>5. a \in 0 .. n
    BY <2>1, ReadBack, Zenon
  <2>6. k \in Nat /\ k \in 0 .. n
    <3> HIDE DEF a
    <3> QED
      BY <2>1, <2>5
  <2>7. IsPrefix(Arriving(decoding), Numbers(n))
    <3>1. CASE decoding.partial = 0
      <4>1. Arriving(decoding) = Numbers(k)
        BY <2>4, <2>6, <3>1, NumbersGrow DEF Arriving
      <4> QED
        BY <2>1, <2>6, <4>1, NumbersPrefix, Zenon
    <3>2. CASE decoding.partial = k + 1 /\ k + 1 <= n
      <4>1. k + 1 # 0 /\ k + 1 \in 0 .. n
        BY <2>1, <2>6, <3>2
      <4>2. Arriving(decoding) = Numbers(k) \o <<k + 1>>
        BY <2>4, <3>2, <4>1, Zenon DEF Arriving
      <4>3. Arriving(decoding) = Numbers(k + 1)
        BY <2>6, <4>2, NumbersGrow, Zenon
      <4> QED
        BY <2>1, <4>1, <4>3, NumbersPrefix, Zenon
    <3> QED
      BY <2>4, <3>1, <3>2
  <2>8. ~decoding.error => k = a /\ accepted <= a
    <3> SUFFICES ASSUME ~decoding.error
                 PROVE  k = a /\ accepted <= a
      OBVIOUS
    <3>1. Codec.readsFooter => p = Size(n)
      BY <2>3
    <3>2. accepted <= a
      BY <2>1, <2>2, <3>1, AcceptedArrive, Zenon
    <3> QED
      BY <2>4, <3>2
  <2>9. Len(decoding.batches) = k
    <3>1. k \in 0 .. k
      BY <2>6
    <3>2. Len(Numbers(k)) = k
      BY <2>6, <3>1, NumbersStart, Zenon
    <3> QED
      BY <2>4, <3>2
  <2>10. ~decoding.error => accepted <= Len(decoding.batches)
    BY <2>8, <2>9
  <2>11. decoding.altered => decoding.partial = n
    <3> SUFFICES ASSUME decoding.altered
                 PROVE  decoding.partial = n
      OBVIOUS
    <3>1. decoding.partial = k + 1 /\ k + 1 <= n /\ accepted <= k
      BY <2>4, <2>8, Zenon
    <3> QED
      BY <2>1, <2>6, <3>1
  <2>12. Codec.readsFooter /\ ~decoding.error => decoding.batches = Numbers(n)
    <3>1. Arrived(n, Size(n)) = n
      BY <2>1, AllArrive, Zenon
    <3> QED
      BY <2>3, <2>4, <3>1, Zenon
  <2> QED
    BY <2>7, <2>10, <2>11, <2>12
<1> QED
  BY Inductive, <1>1, PTL

=============================================================================
