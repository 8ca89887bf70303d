---------------------------- MODULE CodecSession ----------------------------
(***************************************************************************)
(* A writer session: a codec writes a header, encoded batches and a footer *)
(* to a sink that may fail at any moment.  Its user is either whoever      *)
(* holds the session (`caller` = "holder"), who may go on after an error,  *)
(* or encode_batches_to ("encoder", and encode_stream in Rust), which      *)
(* takes batches from an iterable and gives up at the first error.         *)
(*                                                                         *)
(* Batch k is the k-th batch the session accepted.  What a sink holds is a *)
(* sequence of parts; a part is torn when the sink failed in the middle,   *)
(* or the format's writer met a value or a type it cannot write.  Some rows *)
(* of a torn batch may still be read, as Decodings says.                   *)
(***************************************************************************)
EXTENDS Integers, SequencesExt

CONSTANTS
  Formats,      (* the formats to model                                    *)
  MaxBatches    (* bound: batches offered to one session                   *)

ASSUME SessionAssumption ==
  /\ Formats \subseteq {"arrow", "parquet", "csv", "jsonl", "avro"}
  /\ MaxBatches \in Nat

VARIABLES
  format,
  caller,       (* "holder" or "encoder"                                   *)
  writer,       (* "none" before the session, "open", "taken" when there   *)
                (* will be none any more                                   *)
  sink,         (* the parts the sink received                             *)
  buffer,       (* parts the format's writer has not passed on yet         *)
  (* History variables. *)
  offered,      (* batches handed to the session                           *)
  accepted,     (* how many of them write_batch returned Ok for            *)
  broken,       (* writing has failed                                      *)
  finish,       (* how the session's finish went: "never", "ok", "failed"  *)
  ended         (* how encode_batches_to went: "never", "returned",        *)
                (* "raised"                                                *)

vars == <<format, caller, writer, sink, buffer, offered, accepted, broken, finish, ended>>

Header   == [part |-> "header", batch |-> 0]
Footer   == [part |-> "footer", batch |-> 0]
Batch(k) == [part |-> "batch", batch |-> k]

\* A part that is cut short; of a batch, rows may be left.
Torn(part) == [part |-> "torn", batch |-> part.batch]

-----------------------------------------------------------------------------
(* The five codecs: what a session opens with, and what their readers need *)
(* to find.  Readers also differ in what they make of a torn batch: nothing *)
(* ("lost"), its whole rows ("rows"), or also a last row whose last value  *)
(* is cut short ("values").  A reader that regroups the rows to its own    *)
(* batch size loses a group of them with an error, not a batch.            *)

ArrowIpcCodec  == [opening |-> <<Header>>, readsHeader |-> TRUE, readsFooter |-> FALSE,
                   torn |-> "lost", regroups |-> FALSE]
ParquetCodec   == [opening |-> <<Header>>, readsHeader |-> TRUE, readsFooter |-> TRUE,
                   torn |-> "lost", regroups |-> TRUE]
CsvCodec       == [opening |-> <<>>, readsHeader |-> FALSE, readsFooter |-> FALSE,
                   torn |-> "values", regroups |-> TRUE]
JsonLinesCodec == [opening |-> <<>>, readsHeader |-> FALSE, readsFooter |-> FALSE,
                   torn |-> "rows", regroups |-> TRUE]
AvroCodec      == [opening |-> <<Header>>, readsHeader |-> TRUE, readsFooter |-> FALSE,
                   torn |-> "lost", regroups |-> TRUE]

Codec == [arrow |-> ArrowIpcCodec, parquet |-> ParquetCodec, csv |-> CsvCodec,
          jsonl |-> JsonLinesCodec, avro |-> AvroCodec][format]

(* Their writers: what goes before the first batch, what finish() writes,  *)
(* whether it touches the sink at all, and whether parts are held back.    *)

ArrowIpcWriter       == [first |-> <<>>, footer |-> <<Footer>>, finishes |-> TRUE,
                         holdsBack |-> FALSE]
ParquetWriter        == [first |-> <<>>, footer |-> <<Footer>>, finishes |-> TRUE,
                         holdsBack |-> TRUE]
CsvCodecWriter       == [first |-> <<Header>>, footer |-> <<>>, finishes |-> FALSE,
                         holdsBack |-> FALSE]
JsonLinesCodecWriter == [first |-> <<>>, footer |-> <<>>, finishes |-> FALSE,
                         holdsBack |-> FALSE]
AvroCodecWriter      == [first |-> <<>>, footer |-> <<>>, finishes |-> TRUE,
                         holdsBack |-> FALSE]

CodecWriter == [arrow |-> ArrowIpcWriter, parquet |-> ParquetWriter, csv |-> CsvCodecWriter,
                jsonl |-> JsonLinesCodecWriter, avro |-> AvroCodecWriter][format]

\* What goes first goes once, even if that write fails.
BatchParts(k) ==
  (IF k = 1 /\ ~broken THEN CodecWriter.first ELSE <<>>) \o <<Batch(k)>>

-----------------------------------------------------------------------------
(* What decoding a sink's parts answers: the batches all of whose rows     *)
(* arrive, the one of which some rows follow (0 if there is none), whether *)
(* the last of these is altered, and whether it all ends in an error.      *)

Decoding(batches, partial, altered, error) ==
  [batches |-> batches, partial |-> partial, altered |-> altered, error |-> error]

AllOf(batches) == Decoding(batches, 0, FALSE, FALSE)
NothingOf      == Decoding(<<>>, 0, FALSE, TRUE)

Numbers(n) == [k \in 1 .. n |-> k]

\* The numbers of the batches: a reader takes for a batch what is neither the
\* header at the start nor the footer at the end.
BatchNumbers(parts) ==
  LET first == IF parts # <<>> /\ Head(parts) = Header THEN 2 ELSE 1
      last  == IF parts # <<>> /\ Last(parts) = Footer THEN Len(parts) - 1 ELSE Len(parts)
  IN [i \in 1 .. last - first + 1 |-> parts[first + i - 1].batch]

\* To a reader that does not know how much there is, a torn part may be the end
\* of the data; of batch `cut` it may then read rows, 0 standing for none.
CutShort(found, cut) ==
  {AllOf(found)} \union
  {Decoding(found, cut, altered, FALSE) :
     altered \in {FALSE, Codec.torn = "values" /\ cut # 0}}

\* Or it is an error, behind a start of the rows before it.
Erroneous(found, cut) ==
  IF ~Codec.regroups THEN {Decoding(found, 0, FALSE, TRUE)}
  ELSE UNION {{Decoding(SubSeq(found, 1, n), partial, FALSE, TRUE) :
                 partial \in {0, (found \o <<cut>>)[n + 1]}} : n \in 0 .. Len(found)}

\* What follows a torn part is not looked at: an encoder stops there.
Decodings(parts) ==
  LET torn  == SelectInSeq(parts, LAMBDA part : part.part = "torn")
      whole == IF torn = 0 THEN parts ELSE SubSeq(parts, 1, torn - 1)
      found == BatchNumbers(whole)
      cut   == IF Codec.torn = "lost" THEN 0 ELSE parts[torn].batch
  IN IF \/ Codec.readsHeader /\ (whole = <<>> \/ Head(whole) # Header)
        \/ Codec.readsFooter /\ (torn # 0 \/ Last(whole) # Footer)
       THEN {NothingOf}
     ELSE IF torn = 0
       THEN {AllOf(found)}
     ELSE CutShort(found, cut) \union Erroneous(found, cut)

-----------------------------------------------------------------------------
\* The parts pass through the writer's buffer; where it holds back, any number
\* of them may stay there.
Pass(parts) ==
  LET all == buffer \o parts IN
  \E n \in 0 .. Len(all) :
    /\ ~CodecWriter.holdsBack => n = Len(all)
    /\ sink' = sink \o SubSeq(all, 1, n)
    /\ buffer' = SubSeq(all, n + 1, Len(all))

PassAll(parts) ==
  /\ sink' = sink \o buffer \o parts
  /\ buffer' = <<>>

\* Writing fails after some whole parts, in the middle of one or, once the sink
\* has them all, when it is flushed; what the writer still holds is lost.
Tear(parts) ==
  LET all == buffer \o parts IN
  \E n \in 0 .. Len(all) :
    /\ sink' = sink \o SubSeq(all, 1, n) \o (IF n < Len(all) THEN <<Torn(all[n + 1])>> ELSE <<>>)
    /\ buffer' = <<>>
    /\ broken' = TRUE

\* Parts in the buffer of a session that is dropped may still be flushed.
Drop ==
  /\ writer' = "taken"
  /\ \E n \in 0 .. Len(buffer) : sink' = sink \o SubSeq(buffer, 1, n)
  /\ buffer' = <<>>

-----------------------------------------------------------------------------
Init ==
  /\ format \in Formats
  /\ caller \in {"holder", "encoder"}
  /\ writer = "none"
  /\ sink = <<>> /\ buffer = <<>>
  /\ offered = 0 /\ accepted = 0
  /\ broken = FALSE
  /\ finish = "never" /\ ended = "never"

(* start_owned_writer, over a PythonWriter.                                *)
Start ==
  /\ writer = "none" /\ ended = "never"
  /\ writer' = "open"
  /\ Pass(Codec.opening)
  /\ UNCHANGED <<format, caller, offered, accepted, broken, finish, ended>>

(* The writers of CSV and JSON lines are built without writing.            *)
StartFails ==
  /\ writer = "none" /\ ended = "never"
  /\ Codec.opening # <<>>
  /\ Tear(Codec.opening)
  /\ ended' = IF caller = "encoder" THEN "raised" ELSE ended
  /\ writer' = "taken"
  /\ UNCHANGED <<format, caller, offered, accepted, finish>>

Offer ==
  /\ writer = "open" /\ offered < MaxBatches
  /\ offered' = offered + 1

WriteBatch ==
  /\ Offer
  /\ Pass(BatchParts(accepted + 1))
  /\ accepted' = accepted + 1
  /\ UNCHANGED <<format, caller, writer, broken, finish, ended>>

\* Mutant: encode_batches_to finishes the file whatever happened.
GiveUpAndFinish ==
  /\ PassAll(CodecWriter.footer)
  /\ ended' = "raised"
  /\ writer' = "taken"

\* Mutant: the session outlives the exception.
GiveUpKeepsWriter ==
  /\ ended' = "raised"
  /\ UNCHANGED <<writer, sink, buffer>>

(* An error leaves the encoder, which drops the session.                   *)
GiveUp ==
  /\ Drop
  /\ ended' = "raised"

\* Mutant: a batch is written before its schema is looked at.
WriteRefusedLate ==
  /\ Offer
  /\ Pass(BatchParts(accepted + 1))
  /\ UNCHANGED <<format, caller, writer, accepted, broken, finish, ended>>

(* validate_batch refuses a batch with another schema before anything of   *)
(* it is written.                                                          *)
WriteRefused ==
  /\ Offer
  /\ IF caller = "encoder" THEN GiveUp ELSE UNCHANGED <<writer, sink, buffer, ended>>
  /\ UNCHANGED <<format, caller, accepted, broken, finish>>

WriteFails ==
  /\ Offer
  /\ Tear(BatchParts(accepted + 1))
  /\ IF caller = "encoder" THEN ended' = "raised" /\ writer' = "taken"
                           ELSE UNCHANGED <<writer, ended>>
  /\ UNCHANGED <<format, caller, accepted, finish>>

(* The iterable raises, or yields something that is not a batch; when the  *)
(* schema is to come from the first batch, there is no session yet.        *)
IterableFails ==
  /\ caller = "encoder" /\ writer # "taken"
  /\ GiveUp
  /\ UNCHANGED <<format, caller, offered, accepted, broken, finish>>

\* Mutant: finish leaves what the writer holds to the drop of the writer.
FinishUnflushed ==
  /\ writer = "open"
  /\ writer' = "taken"
  /\ Pass(CodecWriter.footer)
  /\ finish' = "ok"
  /\ ended' = IF caller = "encoder" THEN "returned" ELSE ended
  /\ UNCHANGED <<format, caller, offered, accepted, broken>>

(* NativeCodecWriter.finish takes the writer out before it finishes it.    *)
Finish ==
  /\ writer = "open"
  /\ writer' = "taken"
  /\ PassAll(CodecWriter.footer)
  /\ finish' = "ok"
  /\ ended' = IF caller = "encoder" THEN "returned" ELSE ended
  /\ UNCHANGED <<format, caller, offered, accepted, broken>>

(* The writers of CSV and JSON lines do nothing when they are finished.    *)
FinishFails ==
  /\ writer = "open"
  /\ CodecWriter.finishes
  /\ writer' = "taken"
  /\ Tear(CodecWriter.footer)
  /\ finish' = "failed"
  /\ ended' = IF caller = "encoder" THEN "raised" ELSE ended
  /\ UNCHANGED <<format, caller, offered, accepted>>

\* With the writer gone, write_batch raises and finish returns Ok: neither
\* changes anything.
Next ==
  \/ Start \/ StartFails
  \/ WriteBatch \/ WriteRefused \/ WriteFails \/ IterableFails
  \/ Finish \/ FinishFails

Spec == Init /\ [][Next]_vars

-----------------------------------------------------------------------------
Parts == LET whole == {Header, Footer} \union {Batch(k) : k \in 1 .. MaxBatches}
         IN  whole \union {Torn(part) : part \in whole}

TypeOK ==
  /\ format \in Formats
  /\ caller \in {"holder", "encoder"}
  /\ writer \in {"none", "open", "taken"}
  /\ sink \in Seq(Parts) /\ buffer \in Seq(Parts)
  /\ offered \in 0 .. MaxBatches /\ accepted \in 0 .. offered
  /\ broken \in BOOLEAN
  /\ finish \in {"never", "ok", "failed"}
  /\ ended \in {"never", "returned", "raised"}
  /\ ended # "never" => caller = "encoder" /\ writer = "taken"

(* As long as nothing failed, whoever reads the sink of an open session    *)
(* gets exactly the batches accepted so far, a refused batch having left   *)
(* no trace; of Parquet nothing can be read before it is finished.         *)
WrittenIsReadable ==
  writer = "open" /\ ~broken =>
    Decodings(sink) = {IF Codec.readsFooter THEN NothingOf ELSE AllOf(Numbers(accepted))}

(* A session that finished on a sink that never failed reads back as the   *)
(* accepted batches; and when the encoder returns, these are all batches   *)
(* of its iterable.                                                        *)
FinishedReadsBack ==
  /\ finish = "ok" /\ ~broken => Decodings(sink) = {AllOf(Numbers(accepted))}
  /\ ended = "returned" => finish = "ok" /\ ~broken /\ accepted = offered

Arriving(decoding) ==
  decoding.batches \o IF decoding.partial = 0 THEN <<>> ELSE <<decoding.partial>>

(* When the encoder raises, what it leaves reads as a start of the batches *)
(* it was offered.  Read without an error it has every accepted batch in   *)
(* whole, so that only the batch being written can arrive in part or with  *)
(* an altered value; and a format with a footer is then complete.          *)
FragmentsReadAsPrefixes ==
  ended = "raised" =>
    \A decoding \in Decodings(sink) :
      /\ IsPrefix(Arriving(decoding), Numbers(offered))
      /\ ~decoding.error => accepted <= Len(decoding.batches)
      /\ decoding.altered => decoding.partial = offered
      /\ Codec.readsFooter /\ ~decoding.error => decoding.batches = Numbers(offered)
=============================================================================
