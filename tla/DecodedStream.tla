--------------------------- MODULE DecodedStream ---------------------------
(***************************************************************************)
(* The pull-based stream every codec decodes through: it re-cuts the       *)
(* batches of a source iterator to the batch size of its options, counts   *)
(* rows and bytes against the limits and observes a cancellation token     *)
(* that clones of it may set from other threads.                           *)
(*                                                                         *)
(* A call of next() takes several steps: its entry checks, one step per    *)
(* turn of its loop, and the cut it returns; the token may be set between  *)
(* any two.  Row k is the k-th row the source hands over, so a batch is    *)
(* the number of rows before it, how many it holds, and the offset from    *)
(* which they are still to be delivered.                                   *)
(***************************************************************************)
EXTENDS Integers, Sequences

CONSTANTS
  BatchSizes,    (* batch_size values a caller asks for                    *)
  RowLimits,     (* row_limit values, NoLimit among them                   *)
  ByteLimits,    (* byte_limit values, NoLimit among them                  *)
  NoLimit,       (* None                                                   *)
  BatchRows,     (* how many rows a source batch may hold                  *)
  Memory,        (* Arrow memory of a source batch of n rows               *)
  UsizeMax,      (* usize::MAX, where saturating_add stops                 *)
  MaxSourceRows  (* bound: rows the source has before it must end          *)

ASSUME SizesAssumption ==
  /\ BatchSizes \subseteq Nat
  /\ BatchRows \subseteq Nat
  /\ Memory \in [BatchRows -> Nat]
  /\ UsizeMax \in Nat
  /\ \A rows \in BatchRows : rows <= UsizeMax
  /\ MaxSourceRows \in Nat

\* A limit of usize::MAX bytes is no limit: saturated counts cannot pass it.
ASSUME LimitsAssumption ==
  /\ NoLimit \notin Nat
  /\ RowLimits \subseteq Nat \union {NoLimit}
  /\ ByteLimits \subseteq Nat \union {NoLimit}
  /\ \A limit \in ByteLimits \ {NoLimit} : limit < UsizeMax

VARIABLES
  options,       (* StreamOptions                                          *)
  cancelled,     (* the flag behind the CancellationToken                  *)
  pending,       (* the batch partly delivered, NoBatch for None           *)
  emittedRows,
  emittedBytes,
  finished,
  pc,            (* where the consumer's call of next() is                 *)
  inHand,        (* the batch the loop broke out with                      *)
  sourceRows,    (* rows the source iterator has handed over               *)
  sourceEnded,   (* the source iterator has returned None                  *)
  (* History variables. *)
  outcome,       (* how the last call ended                                *)
  firstRefusal,  (* how the first call begun after cancel() ended          *)
  status,        (* "open" until a call ends with None or an error         *)
  delivered,     (* the batches the consumer received, in order            *)
  memoryHeld,    (* Arrow memory the delivered batches reference           *)
  afterCancel    (* batches received after cancel() returned               *)

streamVars  == <<options, pending, emittedRows, emittedBytes, finished>>
sourceVars  == <<sourceRows, sourceEnded>>
historyVars == <<delivered, memoryHeld, afterCancel>>
callVars    == <<outcome, firstRefusal, status>>
vars == <<streamVars, cancelled, pc, inHand, sourceVars, callVars, historyVars>>

Options == [batchSize : BatchSizes, rowLimit : RowLimits, byteLimit : ByteLimits]
Batches == [first : Nat, rows : BatchRows \union {0}, offset : Nat]
Errors  == {"StreamCancelled", "SourceError", "ByteLimitExceeded"}

\* None: like a batch with no rows left, it makes the loop read the source.
NoBatch == [first |-> 0, rows |-> 0, offset |-> 0]

RowsLeft(batch) == batch.rows - batch.offset

Min2(a, b) == IF a <= b THEN a ELSE b

\* Mutant: a plain `+`, which wraps around.
WrappingAdd(a, b) == (a + b) % (UsizeMax + 1)

SaturatingAdd(a, b) == Min2(a + b, UsizeMax)

-----------------------------------------------------------------------------
(* DecodedStream::new refuses a batch size of zero.                        *)
Init ==
  /\ options \in {o \in Options : o.batchSize # 0}
  /\ cancelled = FALSE
  /\ pending = NoBatch
  /\ emittedRows = 0
  /\ emittedBytes = 0
  /\ finished = FALSE
  /\ pc = "idle"
  /\ inHand = NoBatch
  /\ sourceRows = 0
  /\ sourceEnded = FALSE
  /\ outcome = "NoAnswer"
  /\ firstRefusal = "NoAnswer"
  /\ status = "open"
  /\ delivered = <<>>
  /\ memoryHeld = 0
  /\ afterCancel = 0

(* CancellationToken::cancel, from any clone of the token at any moment.   *)
Cancel ==
  /\ cancelled' = TRUE
  /\ UNCHANGED <<streamVars, pc, inHand, sourceVars, callVars, historyVars>>

-----------------------------------------------------------------------------
(* How a call of next() returns.                                           *)

Return(answer) ==
  /\ pc' = "idle"
  /\ outcome' = answer
  /\ firstRefusal' = IF cancelled /\ pc = "idle" /\ firstRefusal = "NoAnswer"
                     THEN answer ELSE firstRefusal

ReturnNone ==
  /\ Return("None")
  /\ status' = IF status = "open" THEN "exhausted" ELSE status

\* Mutant: an error does not finish the stream.
ReturnErrorUnfinished(error) ==
  /\ Return(error)
  /\ status' = "failed"
  /\ finished' = finished

ReturnError(error) ==
  /\ Return(error)
  /\ status' = "failed"
  /\ finished' = TRUE

\* Mutant: one row too late.
RowLimitPassed ==
  /\ options.rowLimit # NoLimit
  /\ emittedRows > options.rowLimit

RowLimitReached ==
  /\ options.rowLimit # NoLimit
  /\ emittedRows >= options.rowLimit

(* The checks next() makes before its loop, in their order.  The token is  *)
(* the only thing they share with another thread and they read it once.    *)

NextFinished ==
  /\ pc = "idle" /\ finished
  /\ ReturnNone
  /\ UNCHANGED <<streamVars, cancelled, inHand, sourceVars, historyVars>>

NextCancelled ==
  /\ pc = "idle" /\ ~finished /\ cancelled
  /\ ReturnError("StreamCancelled")
  /\ UNCHANGED <<options, pending, emittedRows, emittedBytes, cancelled, inHand,
                 sourceVars, historyVars>>

NextLimitReached ==
  /\ pc = "idle" /\ ~finished /\ ~cancelled
  /\ RowLimitReached
  /\ finished' = TRUE
  /\ ReturnNone
  /\ UNCHANGED <<options, pending, emittedRows, emittedBytes, cancelled, inHand,
                 sourceVars, historyVars>>

\* Mutant: enters the loop without looking at the token.
NextEntersUnchecked ==
  /\ pc = "idle" /\ ~finished
  /\ ~RowLimitReached
  /\ pc' = "looping"
  /\ UNCHANGED <<streamVars, cancelled, inHand, sourceVars, callVars, historyVars>>

NextEnters ==
  /\ pc = "idle" /\ ~finished /\ ~cancelled
  /\ ~RowLimitReached
  /\ pc' = "looping"
  /\ UNCHANGED <<streamVars, cancelled, inHand, sourceVars, callVars, historyVars>>

-----------------------------------------------------------------------------
(* The loop: the pending batch if there is one, else the source's next     *)
(* item, until a batch has rows left.  Nothing here reads the token.       *)

TakePending ==
  /\ pc = "looping" /\ pending # NoBatch
  /\ pending' = NoBatch
  /\ inHand' = pending
  /\ pc' = IF RowsLeft(pending) > 0 THEN "cutting" ELSE "looping"
  /\ UNCHANGED <<options, emittedRows, emittedBytes, finished, cancelled,
                 sourceVars, callVars, historyVars>>

\* Mutant: reads the source although a batch is pending.
PullBatchAhead(rows) ==
  /\ pc = "looping"
  /\ ~sourceEnded /\ sourceRows + rows <= MaxSourceRows
  /\ inHand' = IF rows > 0 THEN [first |-> sourceRows, rows |-> rows, offset |-> 0]
                            ELSE NoBatch
  /\ sourceRows' = sourceRows + rows
  /\ pc' = IF rows > 0 THEN "cutting" ELSE "looping"
  /\ UNCHANGED <<streamVars, cancelled, sourceEnded, callVars, historyVars>>

PullBatch(rows) ==
  /\ pc = "looping" /\ pending = NoBatch
  /\ ~sourceEnded /\ sourceRows + rows <= MaxSourceRows
  /\ inHand' = IF rows > 0 THEN [first |-> sourceRows, rows |-> rows, offset |-> 0]
                            ELSE NoBatch
  /\ sourceRows' = sourceRows + rows
  /\ pc' = IF rows > 0 THEN "cutting" ELSE "looping"
  /\ UNCHANGED <<streamVars, cancelled, sourceEnded, callVars, historyVars>>

\* Mutant: a source error is taken for the end.
PullErrorSwallowed ==
  /\ pc = "looping" /\ pending = NoBatch
  /\ ~sourceEnded
  /\ ReturnNone
  /\ finished' = TRUE
  /\ UNCHANGED <<options, pending, emittedRows, emittedBytes, cancelled, inHand,
                 sourceVars, historyVars>>

PullError ==
  /\ pc = "looping" /\ pending = NoBatch
  /\ ~sourceEnded
  /\ ReturnError("SourceError")
  /\ UNCHANGED <<options, pending, emittedRows, emittedBytes, cancelled, inHand,
                 sourceVars, historyVars>>

\* Mutant: asks an ended source again and again.
PullEndRetries ==
  /\ pc = "looping" /\ pending = NoBatch
  /\ sourceEnded' = TRUE
  /\ UNCHANGED <<streamVars, cancelled, pc, inHand, sourceRows, callVars, historyVars>>

\* The `?` returns without setting `finished`: a later call asks the source
\* again, and the readers behind the codecs go on answering None.
PullEnd ==
  /\ pc = "looping" /\ pending = NoBatch
  /\ sourceEnded' = TRUE
  /\ ReturnNone
  /\ UNCHANGED <<streamVars, cancelled, inHand, sourceRows, historyVars>>

-----------------------------------------------------------------------------
(* The cut of the batch in hand.                                           *)

\* Mutant: counts the batch in hand as already emitted.
RowRemainingAfterBatch ==
  IF options.rowLimit = NoLimit THEN UsizeMax
  ELSE options.rowLimit - (emittedRows + RowsLeft(inHand))

RowRemaining ==
  IF options.rowLimit = NoLimit THEN UsizeMax ELSE options.rowLimit - emittedRows

CutLength == Min2(Min2(RowsLeft(inHand), options.batchSize), RowRemaining)

\* Mutants: the rest is forgotten; the rest starts at the cut's own length.
RestForgotten(length) == NoBatch
RestMisplaced(length) ==
  IF length < RowsLeft(inHand) THEN [inHand EXCEPT !.offset = length] ELSE NoBatch

Rest(length) ==
  IF length < RowsLeft(inHand) THEN [inHand EXCEPT !.offset = @ + length] ELSE NoBatch

\* A slice references the whole batch, so the whole batch is what it costs.
Attempted == SaturatingAdd(emittedBytes, Memory[inHand.rows])

OverByteLimit ==
  /\ options.byteLimit # NoLimit
  /\ Attempted > options.byteLimit

(* The code's own answer to a cut of no rows; CutsSomeRows says it is      *)
(* never given.                                                            *)
CutNothing ==
  /\ CutLength = 0
  /\ finished' = TRUE
  /\ ReturnNone
  /\ UNCHANGED <<pending, emittedRows, emittedBytes, historyVars>>

CutOverBudget ==
  /\ CutLength # 0 /\ OverByteLimit
  /\ pending' = Rest(CutLength)
  /\ ReturnError("ByteLimitExceeded")
  /\ UNCHANGED <<emittedRows, emittedBytes, historyVars>>

CutDelivered ==
  /\ CutLength # 0 /\ ~OverByteLimit
  /\ pending' = Rest(CutLength)
  /\ emittedRows' = emittedRows + CutLength
  /\ emittedBytes' = Attempted
  /\ Return("batch")
  /\ delivered' = Append(delivered, [first  |-> inHand.first + inHand.offset,
                                     length |-> CutLength])
  /\ memoryHeld' = memoryHeld + Memory[inHand.rows]
  /\ afterCancel' = IF cancelled THEN afterCancel + 1 ELSE afterCancel
  /\ UNCHANGED <<finished, status>>

Cut ==
  /\ pc = "cutting"
  /\ inHand' = NoBatch
  /\ CutNothing \/ CutOverBudget \/ CutDelivered
  /\ UNCHANGED <<options, cancelled, sourceVars>>

-----------------------------------------------------------------------------
CallNext == NextFinished \/ NextCancelled \/ NextLimitReached \/ NextEnters

Loop == TakePending \/ (\E rows \in BatchRows : PullBatch(rows)) \/ PullError \/ PullEnd

Next == Cancel \/ CallNext \/ Loop \/ Cut

Spec == Init /\ [][Next]_vars

(* collect_batches, like every `for batch in stream`, calls next() until   *)
(* it answers None or an error, on a source that does not go on for ever   *)
(* without a row, an error or its end.  Nobody has to cancel.              *)
Fairness ==
  /\ WF_vars(status = "open" /\ CallNext)
  /\ WF_vars(Loop)
  /\ WF_vars(Cut)

FairSpec == Spec /\ Fairness

-----------------------------------------------------------------------------
(* Types: what the struct's fields and the history variables hold.         *)
TypeOK ==
  /\ options \in {o \in Options : o.batchSize # 0}
  /\ cancelled \in BOOLEAN
  /\ pending \in Batches
  /\ emittedRows \in Nat
  /\ emittedBytes \in Nat
  /\ finished \in BOOLEAN
  /\ pc \in {"idle", "looping", "cutting"}
  /\ inHand \in Batches
  /\ sourceRows \in Nat
  /\ sourceEnded \in BOOLEAN
  /\ {outcome, firstRefusal} \subseteq {"NoAnswer", "batch", "None"} \union Errors
  /\ status \in {"open", "exhausted", "failed"}
  /\ delivered \in Seq([first : Nat, length : Nat])
  /\ memoryHeld \in Nat
  /\ afterCancel \in Nat

(* However next() re-cuts the source's batches, what the consumer receives *)
(* is rows 1..emittedRows of the source, each once and in order: every     *)
(* batch starts where the one before it stopped.                           *)
RowsInOrder ==
  LET n == Len(delivered) IN
  /\ \A i \in 1..n :
       delivered[i].first = IF i = 1 THEN 0
                            ELSE delivered[i - 1].first + delivered[i - 1].length
  /\ emittedRows = IF n = 0 THEN 0 ELSE delivered[n].first + delivered[n].length

(* No row is dropped between the source and the consumer: as long as the   *)
(* stream is not finished, a row the source handed over was delivered, is  *)
(* pending, or is in the batch the current call has in hand.               *)
NoRowLost ==
  ~finished => sourceRows = emittedRows + RowsLeft(pending) + RowsLeft(inHand)

(* The limits are those of what the consumer really got, whatever the      *)
(* counters say: no more rows than row_limit, no batch above batch_size or *)
(* empty, and never references to more Arrow memory than byte_limit, also  *)
(* when the byte counter saturates.                                        *)
WithinLimits ==
  /\ options.rowLimit # NoLimit => emittedRows <= options.rowLimit
  /\ \A i \in DOMAIN delivered : delivered[i].length \in 1..options.batchSize
  /\ options.byteLimit # NoLimit => memoryHeld <= options.byteLimit

(* next() subtracts emitted_rows from the row limit in usize arithmetic:   *)
(* when it does, the limit is the larger, and the cut it computes has at   *)
(* least one row, so the branch for a cut of none is dead code.            *)
CutsSomeRows ==
  pc = "cutting" => /\ options.rowLimit # NoLimit => emittedRows < options.rowLimit
                    /\ CutLength > 0

(* A stream that ends without an error has delivered everything there was: *)
(* its row limit, or every row of a source that has no more.               *)
ExhaustedIsComplete ==
  status = "exhausted" =>
    \/ RowLimitReached
    \/ sourceEnded /\ emittedRows = sourceRows

(* cancel() lets at most one more batch through: that of the call that had *)
(* passed its entry checks when the token was set.                         *)
CancelBoundsDelivery == afterCancel <= 1

(* A row limit stops reads upstream: the source is asked for another batch *)
(* only by a consumer that holds every row read so far and may have more,  *)
(* and never again once a call has ended the stream.                       *)
ReadsOnDemand ==
  [][sourceRows' # sourceRows =>
       /\ emittedRows = sourceRows
       /\ ~RowLimitReached
       /\ status = "open"]_vars

(* The stream implements the promise of RowStream: in particular nothing   *)
(* is delivered after None, and nothing happens after an error.            *)
Promise == INSTANCE RowStream WITH
  AllOptions <- {o \in Options : o.batchSize # 0},
  produced   <- sourceRows,
  exhausted  <- sourceEnded,
  delivered  <- emittedRows

ImplementsRowStream == Promise!Spec

(* What the documentation says of cancel(): the next iteration raises.     *)
(* The code raises only if no call has finished the stream before: a       *)
(* stream that stopped at its row limit goes on answering None.            *)
CancelRaises == firstRefusal \in {"NoAnswer", "StreamCancelled"}

(* collect_batches and every other loop over the stream comes to an end.   *)
CollectTerminates == <>(status # "open")
=============================================================================
