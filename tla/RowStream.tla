----------------------------- MODULE RowStream -----------------------------
(***************************************************************************)
(* What a stream of decoded rows promises its consumer, with none of the   *)
(* machinery: rows come out in source order, no more of them than the row  *)
(* limit, in batches no larger than the batch size; the stream says it is  *)
(* exhausted only when the consumer has everything it may have; nothing is *)
(* delivered after that, and after an error nothing at all happens.        *)
(***************************************************************************)
EXTENDS Integers

CONSTANTS
  AllOptions,   (* every StreamOptions the stream can be created with     *)
  NoLimit       (* the row_limit of a stream that has none                *)

VARIABLES
  options,      (* the options the stream was created with                *)
  produced,     (* rows the source has handed over                        *)
  exhausted,    (* the source has answered that it has no more            *)
  delivered,    (* rows the consumer has received: rows 1..delivered      *)
  status        (* "open", "exhausted" or "failed"                        *)

vars == <<options, produced, exhausted, delivered, status>>

Init ==
  /\ options \in AllOptions
  /\ produced = 0
  /\ exhausted = FALSE
  /\ delivered = 0
  /\ status = "open"

MayDeliver(n) == options.rowLimit # NoLimit => delivered + n <= options.rowLimit

(* The source is read only when the consumer has all it produced so far    *)
(* and may have more.                                                      *)
Produce ==
  /\ status = "open" /\ ~exhausted
  /\ delivered = produced /\ MayDeliver(1)
  /\ produced' \in Nat /\ produced' > produced
  /\ UNCHANGED <<options, exhausted, delivered, status>>

Deliver ==
  /\ status = "open"
  /\ \E n \in 1..options.batchSize :
       /\ delivered + n <= produced
       /\ MayDeliver(n)
       /\ delivered' = delivered + n
  /\ UNCHANGED <<options, produced, exhausted, status>>

Complete == ~MayDeliver(1) \/ (exhausted' /\ delivered = produced)

Finish ==
  /\ status = "open"
  /\ exhausted' \in BOOLEAN /\ (exhausted => exhausted')
  /\ Complete
  /\ status' = "exhausted"
  /\ UNCHANGED <<options, produced, delivered>>

(* A stream that ended may still report a cancellation.                    *)
Fail ==
  /\ status # "failed"
  /\ status' = "failed"
  /\ UNCHANGED <<options, produced, exhausted, delivered>>

Next == Produce \/ Deliver \/ Finish \/ Fail

Spec == Init /\ [][Next]_vars
=============================================================================
