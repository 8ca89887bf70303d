------------------------ MODULE DecodedStreamProofs ------------------------
(***************************************************************************)
(* Proofs about DecodedStream, for every set of options, every memory      *)
(* function and every source.  The safety properties are not inductive:    *)
(* they follow from IInv, which also says where the batch in hand and the  *)
(* pending batch stand, and what `finished` and `status` know together.    *)
(***************************************************************************)
EXTENDS DecodedStream, TLAPS

(* The batch in hand, or the pending one, starts at the row the consumer   *)
(* is waiting for; never do both have rows left.                           *)
Placement ==
  /\ pc # "cutting" => inHand = NoBatch
  /\ pc = "cutting" =>
       /\ RowsLeft(inHand) > 0
       /\ inHand.first + inHand.offset = emittedRows
       /\ pending = NoBatch
  /\ pending # NoBatch => RowsLeft(pending) > 0
  /\ ~finished /\ pending # NoBatch => pending.first + pending.offset = emittedRows

RowBudget ==
  /\ options.rowLimit # NoLimit => emittedRows <= options.rowLimit
  /\ pc # "idle" => ~RowLimitReached

ByteBudget ==
  /\ emittedBytes = Min2(memoryHeld, UsizeMax)
  /\ options.byteLimit # NoLimit => emittedBytes <= options.byteLimit

CutSizes == \A i \in DOMAIN delivered : delivered[i].length \in 1..options.batchSize

(* How the stream's own `finished` relates to what the consumer was told.  *)
Endings ==
  /\ finished => status # "open" /\ pc = "idle"
  /\ status = "failed" => finished
  /\ status = "exhausted" =>
       \/ RowLimitReached
       \/ sourceEnded /\ emittedRows = sourceRows
  /\ status = "exhausted" /\ ~finished =>
       sourceEnded /\ pending = NoBatch /\ pc # "cutting"
  /\ sourceEnded => status # "open"

CancelCount ==
  /\ afterCancel <= 1
  /\ afterCancel > 0 => cancelled /\ pc = "idle"

IInv ==
  /\ TypeOK
  /\ Placement
  /\ NoRowLost
  /\ RowsInOrder
  /\ RowBudget
  /\ ByteBudget
  /\ CutSizes
  /\ Endings
  /\ CancelCount

LEMMA OptionFacts ==
  ASSUME TypeOK
  PROVE  /\ options.batchSize \in Nat /\ options.batchSize > 0
         /\ options.rowLimit # NoLimit => options.rowLimit \in Nat
         /\ options.byteLimit # NoLimit =>
              options.byteLimit \in Nat /\ options.byteLimit < UsizeMax
<1>1. options \in Options /\ options.batchSize # 0
  BY DEF TypeOK
<1>2. /\ options.batchSize \in BatchSizes
      /\ options.rowLimit \in RowLimits
      /\ options.byteLimit \in ByteLimits
  BY <1>1 DEF Options
<1>3. options.batchSize \in Nat
  BY <1>2, SizesAssumption
<1>4. options.rowLimit # NoLimit => options.rowLimit \in Nat
  BY <1>2, LimitsAssumption
<1>5. options.byteLimit # NoLimit => options.byteLimit \in Nat
  BY <1>2, LimitsAssumption
<1>6. options.byteLimit # NoLimit => options.byteLimit < UsizeMax
  BY <1>2, LimitsAssumption
<1>7. QED
  BY <1>1, <1>3, <1>4, <1>5, <1>6

LEMMA BatchFacts ==
  ASSUME NEW batch \in Batches
  PROVE  /\ batch.first \in Nat /\ batch.rows \in Nat /\ batch.offset \in Nat
         /\ RowsLeft(batch) \in Int
         /\ RowsLeft(batch) > 0 =>
              /\ batch.rows \in BatchRows
              /\ Memory[batch.rows] \in Nat
              /\ RowsLeft(batch) <= UsizeMax
<1>1. batch.first \in Nat /\ batch.rows \in BatchRows \union {0} /\ batch.offset \in Nat
  BY DEF Batches
<1>2. batch.rows \in Nat
  <2>1. batch.rows \in BatchRows => batch.rows \in Nat
    BY SizesAssumption
  <2>2. batch.rows \in BatchRows \/ batch.rows = 0
    BY <1>1
  <2>3. QED
    BY <2>1, <2>2
<1>3. RowsLeft(batch) > 0 => batch.rows \in BatchRows
  BY <1>1, <1>2 DEF RowsLeft
<1>4. batch.rows \in BatchRows => Memory[batch.rows] \in Nat
  BY SizesAssumption
<1>5. batch.rows \in BatchRows => RowsLeft(batch) <= UsizeMax
  <2>1. batch.rows \in BatchRows => batch.rows <= UsizeMax
    BY SizesAssumption
  <2>2. UsizeMax \in Nat
    BY SizesAssumption
  <2>3. QED
    BY <1>1, <1>2, <2>1, <2>2 DEF RowsLeft
<1>6. QED
  BY <1>1, <1>2, <1>3, <1>4, <1>5 DEF RowsLeft

(* The initial states satisfy the inductive invariant.                     *)
LEMMA InitIInv == Init => IInv
<1> SUFFICES ASSUME Init PROVE IInv
  OBVIOUS
<1> USE DEF Init
<1>1. TypeOK
  <2>1. options \in {o \in Options : o.batchSize # 0}
    OBVIOUS
  <2>2. pending \in Batches /\ inHand \in Batches
    BY DEF Batches, NoBatch
  <2>3. delivered \in Seq([first : Nat, length : Nat])
    OBVIOUS
  <2>4. {outcome, firstRefusal} \subseteq {"NoAnswer", "batch", "None"} \union Errors
    OBVIOUS
  <2>5. QED
    BY <2>1, <2>2, <2>3, <2>4 DEF TypeOK
<1>2. Placement /\ NoRowLost /\ RowsInOrder
  BY DEF Placement, NoRowLost, RowsInOrder, RowsLeft, NoBatch
<1>3. RowBudget /\ ByteBudget
  <2>1. options.rowLimit # NoLimit => options.rowLimit \in Nat
    BY LimitsAssumption DEF Options
  <2>2. options.byteLimit # NoLimit => options.byteLimit \in Nat
    BY LimitsAssumption DEF Options
  <2>3. QED
    BY <2>1, <2>2, SizesAssumption DEF RowBudget, ByteBudget, Min2
<1>4. CutSizes /\ Endings /\ CancelCount
  BY DEF CutSizes, Endings, CancelCount
<1>5. QED
  BY <1>1, <1>2, <1>3, <1>4 DEF IInv

(* The steps that move no row: whatever the outcome they report, only      *)
(* `finished`, `status` and the call's place change.                       *)
LEMMA QuietStep ==
  ASSUME IInv, Cancel \/ CallNext \/ PullError \/ PullEnd
  PROVE  IInv'
<1> USE DEF IInv, CallNext, streamVars, sourceVars, callVars, historyVars,
            ReturnNone, ReturnError, Return
<1>1. TypeOK'
  BY DEF TypeOK, Cancel, NextFinished, NextCancelled, NextLimitReached, NextEnters,
         PullError, PullEnd, Errors
<1>2. Placement'
  BY DEF TypeOK, Placement, Endings, Cancel, NextFinished, NextCancelled,
         NextLimitReached, NextEnters, PullError, PullEnd, RowsLeft
<1>3. NoRowLost'
  BY DEF NoRowLost, Endings, Cancel, NextFinished, NextCancelled, NextLimitReached,
         NextEnters, PullError, PullEnd, RowsLeft
<1>4. RowsInOrder' /\ CutSizes' /\ ByteBudget'
  BY DEF RowsInOrder, CutSizes, ByteBudget, Cancel, NextFinished, NextCancelled,
         NextLimitReached, NextEnters, PullError, PullEnd, Min2
<1>5. RowBudget'
  BY DEF RowBudget, RowLimitReached, Cancel, NextFinished, NextCancelled,
         NextLimitReached, NextEnters, PullError, PullEnd
<1>6. Endings'
  <2>1. CASE Cancel \/ CallNext
    BY <2>1 DEF TypeOK, Endings, RowLimitReached, Cancel, NextFinished, NextCancelled,
                NextLimitReached, NextEnters
  <2>2. CASE PullError
    BY <2>2 DEF TypeOK, Endings, RowLimitReached, PullError
  <2>3. CASE PullEnd
    BY <2>3 DEF TypeOK, Endings, RowLimitReached, PullEnd, Placement, NoRowLost,
                RowsLeft, NoBatch
  <2>4. QED
    BY <2>1, <2>2, <2>3
<1>7. CancelCount'
  BY DEF TypeOK, CancelCount, Cancel, NextFinished, NextCancelled, NextLimitReached,
         NextEnters, PullError, PullEnd
<1>8. QED
  BY <1>1, <1>2, <1>3, <1>4, <1>5, <1>6, <1>7

-----------------------------------------------------------------------------
(* The loop puts the next rows the consumer is due into its hand.          *)
LEMMA TakePendingStep ==
  ASSUME IInv, TakePending
  PROVE  IInv'
<1> USE DEF IInv, TakePending, sourceVars, callVars, historyVars
<1>1. RowsLeft(pending) > 0 /\ pc' = "cutting" /\ ~finished
  BY DEF Placement, Endings, TypeOK
<1>2. TypeOK'
  BY DEF TypeOK, Batches, NoBatch
<1>3. Placement' /\ NoRowLost'
  <2>1. pending \in Batches /\ emittedRows \in Nat /\ sourceRows \in Nat
    BY DEF TypeOK
  <2>2. inHand = NoBatch
    BY DEF Placement
  <2>3. pending.first + pending.offset = emittedRows
    BY <1>1 DEF Placement
  <2>4. sourceRows = emittedRows + RowsLeft(pending)
    BY <1>1, <2>1, <2>2, BatchFacts DEF NoRowLost, RowsLeft, NoBatch
  <2>5. RowsLeft(NoBatch) = 0
    BY DEF RowsLeft, NoBatch
  <2>6. RowsLeft(pending)' = 0 /\ RowsLeft(inHand)' = RowsLeft(pending)
    BY <2>5 DEF RowsLeft
  <2>7. NoRowLost'
    BY <2>1, <2>4, <2>6, BatchFacts DEF NoRowLost
  <2>8. QED
    BY <1>1, <2>3, <2>6, <2>7 DEF Placement
<1>4. RowsInOrder' /\ CutSizes' /\ RowBudget' /\ ByteBudget' /\ CancelCount'
  BY DEF RowsInOrder, CutSizes, RowBudget, RowLimitReached, ByteBudget, Min2,
         CancelCount, TypeOK
<1>5. Endings'
  BY DEF Endings, RowLimitReached, TypeOK
<1>6. QED
  BY <1>1, <1>2, <1>3, <1>4, <1>5

LEMMA PullBatchStep ==
  ASSUME IInv, NEW rows \in BatchRows, PullBatch(rows)
  PROVE  IInv'
<1> USE DEF IInv, PullBatch, streamVars, callVars, historyVars
<1>1. rows \in Nat
  BY SizesAssumption
<1>2. status = "open" /\ ~finished /\ inHand = NoBatch
  BY DEF Endings, TypeOK, Placement
<1>3. TypeOK'
  BY <1>1 DEF TypeOK, Batches, NoBatch
<1>4. Placement' /\ NoRowLost'
  BY <1>1, <1>2 DEF Placement, NoRowLost, RowsLeft, NoBatch, TypeOK, Batches
<1>5. RowsInOrder' /\ CutSizes' /\ RowBudget' /\ ByteBudget' /\ CancelCount'
  BY DEF RowsInOrder, CutSizes, RowBudget, RowLimitReached, ByteBudget, Min2,
         CancelCount, TypeOK
<1>6. Endings'
  BY <1>2 DEF Endings
<1>7. QED
  BY <1>3, <1>4, <1>5, <1>6

(* What a cut has to work with: a batch of the source's with rows left.    *)
LEMMA CutFacts ==
  ASSUME IInv, pc = "cutting"
  PROVE  /\ CutLength \in 1..options.batchSize
         /\ CutLength <= RowsLeft(inHand)
         /\ RowsLeft(inHand) \in Nat
         /\ options.rowLimit # NoLimit => emittedRows + CutLength <= options.rowLimit
         /\ options.rowLimit # NoLimit => emittedRows < options.rowLimit
         /\ Memory[inHand.rows] \in Nat
         /\ ~finished /\ status = "open" /\ pending = NoBatch
         /\ inHand.first + inHand.offset = emittedRows
         /\ sourceRows = emittedRows + RowsLeft(inHand)
<1> USE DEF IInv
<1>1. /\ inHand \in Batches /\ pending \in Batches
      /\ emittedRows \in Nat /\ sourceRows \in Nat
  BY DEF TypeOK
<1>2. RowsLeft(inHand) > 0 /\ RowsLeft(inHand) \in Nat
  BY <1>1, BatchFacts DEF Placement
<1>3. RowsLeft(inHand) <= UsizeMax /\ Memory[inHand.rows] \in Nat
  BY <1>1, <1>2, BatchFacts
<1>4. ~finished /\ status = "open" /\ pending = NoBatch
  <2>1. status \in {"open", "exhausted", "failed"}
    BY DEF TypeOK
  <2>2. QED
    BY <2>1 DEF Endings, Placement
<1>5. options.batchSize \in Nat /\ options.batchSize > 0
  BY OptionFacts
<1>6. options.rowLimit # NoLimit =>
        options.rowLimit \in Nat /\ emittedRows < options.rowLimit
  BY <1>1, OptionFacts DEF RowBudget, RowLimitReached
<1>7. RowRemaining \in Nat /\ RowRemaining > 0
  BY <1>1, <1>2, <1>3, <1>6, SizesAssumption DEF RowRemaining
<1>8. /\ CutLength \in 1..options.batchSize
      /\ CutLength <= RowsLeft(inHand) /\ CutLength <= RowRemaining
  BY <1>2, <1>5, <1>7 DEF CutLength, Min2
<1>9. options.rowLimit # NoLimit => emittedRows + CutLength <= options.rowLimit
  BY <1>1, <1>5, <1>6, <1>8 DEF RowRemaining
<1>10. sourceRows = emittedRows + RowsLeft(inHand)
  BY <1>1, <1>2, <1>4 DEF NoRowLost, RowsLeft, NoBatch
<1>11. QED
  BY <1>2, <1>3, <1>4, <1>6, <1>8, <1>9, <1>10, SizesAssumption DEF Placement

(* What is left pending of the batch in hand after a cut of n rows.        *)
LEMMA RestFacts ==
  ASSUME inHand \in Batches, RowsLeft(inHand) \in Nat,
         NEW n \in Nat, n > 0, n <= RowsLeft(inHand)
  PROVE  /\ Rest(n) \in Batches
         /\ RowsLeft(Rest(n)) = RowsLeft(inHand) - n
         /\ Rest(n) # NoBatch =>
              /\ RowsLeft(Rest(n)) > 0
              /\ Rest(n).first + Rest(n).offset = inHand.first + inHand.offset + n
<1>1. /\ inHand.first \in Nat /\ inHand.rows \in Nat /\ inHand.offset \in Nat
      /\ inHand.rows \in BatchRows \union {0}
  BY BatchFacts DEF Batches
<1>2. CASE n < RowsLeft(inHand)
  <2> DEFINE rest == [first |-> inHand.first, rows |-> inHand.rows,
                      offset |-> inHand.offset + n]
  <2>1. Rest(n) = rest
    BY <1>2 DEF Rest, Batches
  <2>2. rest \in Batches
    BY <1>1 DEF Batches
  <2>3. RowsLeft(rest) = RowsLeft(inHand) - n
    BY <1>1 DEF RowsLeft
  <2>4. rest.first + rest.offset = inHand.first + inHand.offset + n
    BY <1>1
  <2>5. RowsLeft(inHand) - n > 0
    BY <1>2
  <2> HIDE DEF rest
  <2>6. QED
    BY <2>1, <2>2, <2>3, <2>4, <2>5
<1>3. CASE n = RowsLeft(inHand)
  <2>1. Rest(n) = NoBatch
    BY <1>3 DEF Rest
  <2>2. NoBatch \in Batches /\ RowsLeft(NoBatch) = 0
    BY DEF Batches, NoBatch, RowsLeft
  <2>3. QED
    BY <1>3, <2>1, <2>2
<1>4. QED
  BY <1>2, <1>3

LEMMA CutOverBudgetStep ==
  ASSUME IInv, Cut, CutOverBudget
  PROVE  IInv'
<1> USE DEF Cut, CutOverBudget, ReturnError, Return, historyVars, sourceVars
<1>1. /\ CutLength \in Nat /\ CutLength > 0 /\ CutLength <= RowsLeft(inHand)
      /\ RowsLeft(inHand) \in Nat
  BY CutFacts, OptionFacts DEF IInv
<1>2. inHand \in Batches /\ pc' = "idle" /\ finished' = TRUE /\ status' = "failed"
  BY DEF IInv, TypeOK
<1>3. pending' \in Batches /\ (pending' # NoBatch => RowsLeft(pending') > 0)
  BY <1>1, <1>2, RestFacts DEF RowsLeft
<1>4. TypeOK'
  BY <1>2, <1>3 DEF IInv, TypeOK, Errors, Batches, NoBatch
<1>5. Placement' /\ NoRowLost'
  BY <1>2, <1>3 DEF Placement, NoRowLost, RowsLeft
<1>6. RowsInOrder' /\ CutSizes' /\ RowBudget' /\ ByteBudget'
  BY <1>2 DEF IInv, RowsInOrder, CutSizes, RowBudget, ByteBudget, Min2
<1>7. Endings' /\ CancelCount'
  BY <1>2 DEF IInv, Endings, CancelCount, TypeOK
<1>8. QED
  BY <1>4, <1>5, <1>6, <1>7 DEF IInv

(* Appending a slice that starts where the delivered rows stop keeps the   *)
(* slices contiguous.                                                      *)
LEMMA DeliverInOrder ==
  ASSUME TypeOK, RowsInOrder, NEW n \in Nat,
         delivered' = Append(delivered, [first |-> emittedRows, length |-> n]),
         emittedRows' = emittedRows + n
  PROVE  /\ delivered' \in Seq([first : Nat, length : Nat])
         /\ RowsInOrder'
         /\ DOMAIN delivered' = DOMAIN delivered \union {Len(delivered')}
         /\ delivered'[Len(delivered')].length = n
         /\ \A i \in DOMAIN delivered : delivered'[i] = delivered[i]
<1> DEFINE slice == [first |-> emittedRows, length |-> n]
           D == delivered
           E == delivered'
<1>1. emittedRows \in Nat /\ D \in Seq([first : Nat, length : Nat])
  BY DEF TypeOK
<1>2. slice \in [first : Nat, length : Nat]
  BY <1>1
<1>3. /\ E \in Seq([first : Nat, length : Nat])
      /\ Len(E) = Len(D) + 1
      /\ \A i \in 1..Len(D) : E[i] = D[i]
      /\ E[Len(D) + 1] = slice
  BY <1>1, <1>2
<1>4. Len(D) \in Nat /\ DOMAIN D = 1..Len(D) /\ DOMAIN E = 1..(Len(D) + 1)
  BY <1>1, <1>3
<1>5. ASSUME NEW i \in 1..Len(E)
      PROVE  E[i].first = IF i = 1 THEN 0 ELSE E[i - 1].first + E[i - 1].length
  <2>1. CASE i = Len(D) + 1
    <3>1. CASE Len(D) = 0
      BY <1>1, <1>3, <2>1, <3>1 DEF RowsInOrder
    <3>2. CASE Len(D) # 0
      <4>1. i # 1 /\ i - 1 = Len(D) /\ Len(D) \in 1..Len(D)
        BY <1>4, <2>1, <3>2
      <4>2. E[i].first = emittedRows /\ E[i - 1] = D[Len(D)]
        BY <1>3, <2>1, <4>1
      <4>3. emittedRows = D[Len(D)].first + D[Len(D)].length
        BY <3>2 DEF RowsInOrder
      <4>4. QED
        BY <4>1, <4>2, <4>3
    <3>3. QED
      BY <3>1, <3>2
  <2>2. CASE i \in 1..Len(D)
    <3>1. D[i].first = IF i = 1 THEN 0 ELSE D[i - 1].first + D[i - 1].length
      BY <2>2 DEF RowsInOrder
    <3>2. E[i] = D[i] /\ (i # 1 => E[i - 1] = D[i - 1])
      BY <1>3, <1>4, <2>2
    <3>3. QED
      BY <3>1, <3>2
  <2>3. QED
    BY <1>3, <1>4, <2>1, <2>2
<1>6. E[Len(E)].first = emittedRows /\ E[Len(E)].length = n /\ Len(E) # 0
  BY <1>3, <1>4
<1>7. RowsInOrder'
  BY <1>5, <1>6 DEF RowsInOrder
<1>8. DOMAIN E = DOMAIN D \union {Len(E)}
  BY <1>3, <1>4
<1>9. QED
  BY <1>3, <1>4, <1>6, <1>7, <1>8

LEMMA Min2Nat ==
  ASSUME NEW a \in Nat, NEW b \in Nat
  PROVE  Min2(a, b) \in Nat
BY DEF Min2

LEMMA CutDeliveredStep ==
  ASSUME IInv, Cut, CutDelivered
  PROVE  IInv'
<1> USE DEF Cut, CutDelivered, Return, sourceVars
<1>0. pc = "cutting"
  OBVIOUS
<1>1. /\ CutLength \in Nat /\ CutLength \in 1..options.batchSize
      /\ CutLength <= RowsLeft(inHand) /\ RowsLeft(inHand) \in Nat
      /\ options.rowLimit # NoLimit => emittedRows + CutLength <= options.rowLimit
      /\ Memory[inHand.rows] \in Nat
      /\ ~finished /\ status = "open" /\ pending = NoBatch
      /\ inHand.first + inHand.offset = emittedRows
      /\ sourceRows = emittedRows + RowsLeft(inHand)
  BY <1>0, CutFacts, OptionFacts DEF IInv
<1>2. /\ inHand \in Batches /\ emittedRows \in Nat /\ emittedBytes \in Nat
      /\ memoryHeld \in Nat /\ sourceRows \in Nat /\ afterCancel \in Nat
      /\ options' = options /\ pc' = "idle" /\ inHand' = NoBatch
      /\ finished' = finished /\ status' = status
  BY DEF IInv, TypeOK
<1>3. /\ pending' \in Batches
      /\ RowsLeft(pending') = RowsLeft(inHand) - CutLength
      /\ pending' # NoBatch => /\ RowsLeft(pending') > 0
                               /\ pending'.first + pending'.offset = emittedRows'
  <2>1. pending' = Rest(CutLength) /\ emittedRows' = emittedRows + CutLength
    OBVIOUS
  <2>2. QED
    BY <1>1, <1>2, <2>1, RestFacts DEF RowsLeft
<1>4. /\ delivered' \in Seq([first : Nat, length : Nat])
      /\ RowsInOrder'
      /\ CutSizes'
  <2>1. delivered' = Append(delivered, [first |-> emittedRows, length |-> CutLength])
    BY <1>1
  <2>2. /\ delivered' \in Seq([first : Nat, length : Nat])
        /\ RowsInOrder'
        /\ DOMAIN delivered' = DOMAIN delivered \union {Len(delivered')}
        /\ delivered'[Len(delivered')].length = CutLength
        /\ \A i \in DOMAIN delivered : delivered'[i] = delivered[i]
    BY <1>1, <2>1, DeliverInOrder DEF IInv
  <2>3. CutSizes'
    BY <1>1, <1>2, <2>2 DEF IInv, CutSizes
  <2>4. QED
    BY <2>2, <2>3
<1>5. emittedBytes' \in Nat /\ memoryHeld' \in Nat /\ ByteBudget'
  <2>1. UsizeMax \in Nat
    BY SizesAssumption
  <2>2. emittedBytes = Min2(memoryHeld, UsizeMax)
    BY DEF IInv, ByteBudget
  <2>3. emittedBytes' = Min2(emittedBytes + Memory[inHand.rows], UsizeMax)
    BY DEF Attempted, SaturatingAdd
  <2>4. memoryHeld' = memoryHeld + Memory[inHand.rows]
    OBVIOUS
  <2>5. emittedBytes + Memory[inHand.rows] \in Nat /\ memoryHeld' \in Nat
    BY <1>1, <1>2, <2>4
  <2>6. emittedBytes' \in Nat
    <3> HIDE DEF Cut, CutDelivered
    <3> QED
      BY <2>1, <2>3, <2>5, Min2Nat
  <2>7. options.byteLimit # NoLimit => options.byteLimit \in Nat
    BY OptionFacts DEF IInv
  <2>8. options.byteLimit # NoLimit => emittedBytes' <= options.byteLimit
    <3>1. options.byteLimit # NoLimit => ~(emittedBytes' > options.byteLimit)
      BY DEF OverByteLimit
    <3>2. QED
      BY <2>7, <2>6, <3>1
  <2>9. emittedBytes' = Min2(memoryHeld', UsizeMax)
    BY <1>1, <1>2, <2>1, <2>2, <2>3, <2>4 DEF Min2
  <2>10. QED
    BY <1>2, <2>8, <2>9, <2>5, <2>6 DEF ByteBudget, Min2
<1>6. TypeOK'
  <2>1. inHand' \in Batches
    BY <1>2 DEF Batches, NoBatch
  <2>2. emittedRows' \in Nat /\ afterCancel' \in Nat
    BY <1>1, <1>2
  <2>3. /\ options' \in {o \in Options : o.batchSize # 0}
        /\ cancelled' \in BOOLEAN /\ finished' \in BOOLEAN /\ sourceEnded' \in BOOLEAN
        /\ status' \in {"open", "exhausted", "failed"}
        /\ pc' \in {"idle", "looping", "cutting"}
        /\ sourceRows' \in Nat
    BY DEF IInv, TypeOK
  <2>4. {outcome', firstRefusal'} \subseteq {"NoAnswer", "batch", "None"} \union Errors
    BY DEF IInv, TypeOK
  <2>5. QED
    BY <1>3, <1>4, <1>5, <2>1, <2>2, <2>3, <2>4 DEF TypeOK
<1>7. Placement' /\ NoRowLost'
  <2>1. RowsLeft(NoBatch) = 0 /\ sourceRows' = sourceRows
        /\ emittedRows' = emittedRows + CutLength
    BY DEF RowsLeft, NoBatch
  <2>2. NoRowLost'
    BY <1>1, <1>2, <1>3, <2>1 DEF NoRowLost, RowsLeft
  <2>3. QED
    BY <1>2, <1>3, <2>2 DEF Placement, RowsLeft
<1>8. RowBudget'
  BY <1>1, <1>2 DEF RowBudget
<1>9. Endings'
  <2>1. sourceEnded = FALSE
    BY <1>1 DEF IInv, Endings, TypeOK
  <2>2. QED
    BY <1>1, <1>2, <2>1 DEF Endings
<1>10. CancelCount'
  BY <1>0, <1>2 DEF IInv, CancelCount, TypeOK
<1>11. QED
  BY <1>4, <1>5, <1>6, <1>7, <1>8, <1>9, <1>10 DEF IInv

LEMMA CutStep ==
  ASSUME IInv, Cut
  PROVE  IInv'
<1>1. CASE CutNothing
  BY <1>1, CutFacts, OptionFacts DEF IInv, Cut, CutNothing
<1>2. CASE CutOverBudget
  BY <1>2, CutOverBudgetStep
<1>3. CASE CutDelivered
  BY <1>3, CutDeliveredStep
<1>4. QED
  BY <1>1, <1>2, <1>3 DEF Cut

LEMMA NextStep ==
  ASSUME IInv, [Next]_vars
  PROVE  IInv'
<1>1. CASE Cancel \/ CallNext
  BY <1>1, QuietStep
<1>2. CASE Loop
  BY <1>2, QuietStep, TakePendingStep, PullBatchStep DEF Loop
<1>3. CASE Cut
  BY <1>3, CutStep
<1>4. CASE UNCHANGED vars
  BY <1>4 DEF vars, streamVars, sourceVars, callVars, historyVars, IInv, TypeOK,
              Placement, NoRowLost, RowsLeft, RowsInOrder, RowBudget, RowLimitReached,
              ByteBudget, CutSizes, Endings, CancelCount
<1>5. QED
  BY <1>1, <1>2, <1>3, <1>4 DEF Next

(* IInv holds in every state of every stream.                              *)
THEOREM Inductive == Spec => []IInv
<1>1. Init => IInv
  BY InitIInv
<1>2. IInv /\ [Next]_vars => IInv'
  BY NextStep
<1>3. QED
  BY <1>1, <1>2, PTL DEF Spec

-----------------------------------------------------------------------------
(* The fields of DecodedStream and the histories keep their types.         *)
THEOREM TypeCorrect == Spec => []TypeOK
<1>1. IInv => TypeOK
  BY DEF IInv
<1>2. QED
  BY <1>1, Inductive, PTL

(* For every source and every choice of options, the consumer receives the *)
(* source's rows in order, each once.                                      *)
THEOREM DeliversInOrder == Spec => []RowsInOrder
<1>1. IInv => RowsInOrder
  BY DEF IInv
<1>2. QED
  BY <1>1, Inductive, PTL

(* No row is dropped between the source and the consumer of an unfinished  *)
(* stream.                                                                 *)
THEOREM LosesNoRow == Spec => []NoRowLost
<1>1. IInv => NoRowLost
  BY DEF IInv
<1>2. QED
  BY <1>1, Inductive, PTL

(* The row, batch and byte limits hold of what the consumer really gets;   *)
(* for bytes it takes ByteBudget, which ties the saturating counter to the *)
(* memory the delivered batches reference.                                 *)
THEOREM RespectsLimits == Spec => []WithinLimits
<1>1. ASSUME IInv PROVE WithinLimits
  <2>1. options.rowLimit # NoLimit => emittedRows <= options.rowLimit
    BY <1>1 DEF IInv, RowBudget
  <2>2. \A i \in DOMAIN delivered : delivered[i].length \in 1..options.batchSize
    BY <1>1 DEF IInv, CutSizes
  <2>3. options.byteLimit # NoLimit => memoryHeld <= options.byteLimit
    <3>1. /\ options.byteLimit # NoLimit =>
               options.byteLimit \in Nat /\ options.byteLimit < UsizeMax
          /\ memoryHeld \in Nat /\ emittedBytes \in Nat
      BY <1>1, OptionFacts DEF IInv, TypeOK
    <3>2. UsizeMax \in Nat
      BY SizesAssumption
    <3>3. QED
      BY <1>1, <3>1, <3>2 DEF IInv, ByteBudget, Min2
  <2>4. QED
    BY <2>1, <2>2, <2>3 DEF WithinLimits
<1>2. QED
  BY <1>1, Inductive, PTL

(* limit - emitted_rows never underflows and a cut always has rows.        *)
THEOREM CutsNeverEmpty == Spec => []CutsSomeRows
<1>1. ASSUME IInv PROVE CutsSomeRows
  BY <1>1, CutFacts, OptionFacts DEF CutsSomeRows, IInv
<1>2. QED
  BY <1>1, Inductive, PTL

(* A stream that ended without an error delivered all it could.            *)
THEOREM CompleteWhenExhausted == Spec => []ExhaustedIsComplete
<1>1. IInv => ExhaustedIsComplete
  BY DEF IInv, Endings, ExhaustedIsComplete
<1>2. QED
  BY <1>1, Inductive, PTL

(* At most one batch is delivered after cancel() returned.                 *)
THEOREM CancelStopsDelivery == Spec => []CancelBoundsDelivery
<1>1. IInv => CancelBoundsDelivery
  BY DEF IInv, CancelCount, CancelBoundsDelivery
<1>2. QED
  BY <1>1, Inductive, PTL

-----------------------------------------------------------------------------
(* Which variables of RowStream the steps of the stream change: sourceRows *)
(* only a pull, emittedRows only a cut that delivers.                      *)
LEMMA PullsOnDemand ==
  ASSUME IInv, NEW rows \in BatchRows, PullBatch(rows)
  PROVE  /\ emittedRows = sourceRows /\ ~RowLimitReached /\ status = "open"
         /\ ~sourceEnded
         /\ sourceRows' \in Nat /\ sourceRows' >= sourceRows
         /\ UNCHANGED <<options, sourceEnded, emittedRows, status>>
<1> USE DEF PullBatch, streamVars, callVars
<1>1. rows \in Nat /\ sourceRows \in Nat /\ emittedRows \in Nat
  BY SizesAssumption DEF IInv, TypeOK
<1>2. ~finished /\ status = "open" /\ inHand = NoBatch
  BY DEF IInv, Endings, Placement, TypeOK
<1>3. emittedRows = sourceRows
  BY <1>1, <1>2 DEF IInv, NoRowLost, RowsLeft, NoBatch
<1>4. ~RowLimitReached
  BY DEF IInv, RowBudget
<1>5. QED
  BY <1>1, <1>2, <1>3, <1>4

(* The source is read only by a consumer that waits for its next row.      *)
THEOREM ReadsSourceOnDemand == Spec => ReadsOnDemand
<1> DEFINE Demand == sourceRows' # sourceRows =>
                       /\ emittedRows = sourceRows
                       /\ ~RowLimitReached
                       /\ status = "open"
<1>1. ASSUME IInv, [Next]_vars PROVE [Demand]_vars
  <2>1. CASE \E rows \in BatchRows : PullBatch(rows)
    BY <1>1, <2>1, PullsOnDemand
  <2>2. CASE Cancel \/ CallNext \/ TakePending \/ PullError \/ PullEnd \/ Cut
    BY <2>2 DEF Cancel, CallNext, NextFinished, NextCancelled, NextLimitReached,
                NextEnters, TakePending, PullError, PullEnd, Cut, sourceVars
  <2>3. CASE UNCHANGED vars
    BY <2>3
  <2>4. QED
    BY <1>1, <2>1, <2>2, <2>3 DEF Next, Loop
<1>2. QED
  BY <1>1, Inductive, PTL DEF Spec, ReadsOnDemand

(* The stream implements RowStream: each of its steps is a step of the     *)
(* promise or leaves it alone.                                             *)
THEOREM Refinement == Spec => ImplementsRowStream
<1> USE DEF Promise!MayDeliver
<1>1. ASSUME Init PROVE Promise!Init
  BY <1>1 DEF Init, Promise!Init
<1>2. ASSUME IInv, Next PROVE [Promise!Next]_Promise!vars
  <2>0. /\ emittedRows \in Nat /\ sourceRows \in Nat /\ sourceEnded \in BOOLEAN
        /\ options.rowLimit # NoLimit => options.rowLimit \in Nat
    BY <1>2, OptionFacts DEF IInv, TypeOK
  <2>1. CASE Cancel \/ NextEnters \/ TakePending
    BY <2>1 DEF Cancel, NextEnters, TakePending, streamVars, sourceVars, callVars,
                Promise!vars
  <2>2. CASE NextFinished
    <3>1. status # "open"
      BY <1>2, <2>2 DEF IInv, Endings, NextFinished
    <3>2. QED
      BY <2>2, <3>1 DEF NextFinished, ReturnNone, streamVars, sourceVars, Promise!vars
  <2>3. CASE NextCancelled
    <3>1. status # "failed"
      BY <1>2, <2>3 DEF IInv, Endings, NextCancelled
    <3>2. Promise!Fail
      BY <2>3, <3>1 DEF NextCancelled, ReturnError, sourceVars, Promise!Fail
    <3>3. QED
      BY <3>2 DEF Promise!Next
  <2>4. CASE NextLimitReached
    <3>1. CASE status = "open"
      <4>1. Promise!Complete
        BY <2>0, <2>4 DEF NextLimitReached, RowLimitReached, Promise!Complete
      <4>2. Promise!Finish
        BY <2>0, <2>4, <3>1, <4>1 DEF NextLimitReached, ReturnNone, sourceVars,
                                      Promise!Finish
      <4>3. QED
        BY <4>2 DEF Promise!Next
    <3>2. CASE status # "open"
      BY <2>4, <3>2 DEF NextLimitReached, ReturnNone, sourceVars, Promise!vars
    <3>3. QED
      BY <3>1, <3>2
  <2>5. CASE \E rows \in BatchRows : PullBatch(rows)
    <3>1. PICK rows \in BatchRows : PullBatch(rows)
      BY <2>5
    <3>2. /\ emittedRows = sourceRows /\ ~RowLimitReached /\ status = "open"
          /\ ~sourceEnded
          /\ sourceRows' \in Nat /\ sourceRows' >= sourceRows
          /\ UNCHANGED <<options, sourceEnded, emittedRows, status>>
      BY <1>2, <3>1, PullsOnDemand
    <3>3. CASE sourceRows' = sourceRows
      BY <3>2, <3>3 DEF Promise!vars
    <3>4. CASE sourceRows' > sourceRows
      <4>1. options.rowLimit # NoLimit => emittedRows + 1 <= options.rowLimit
        BY <2>0, <3>2 DEF RowLimitReached
      <4>2. Promise!Produce
        BY <3>2, <3>4, <4>1 DEF Promise!Produce
      <4>3. QED
        BY <4>2 DEF Promise!Next
    <3>5. QED
      BY <2>0, <3>2, <3>3, <3>4
  <2>6. CASE PullError
    <3>1. status # "failed"
      BY <1>2, <2>6 DEF IInv, Endings, PullError
    <3>2. Promise!Fail
      BY <2>6, <3>1 DEF PullError, ReturnError, sourceVars, Promise!Fail
    <3>3. QED
      BY <3>2 DEF Promise!Next
  <2>7. CASE PullEnd
    <3>1. ~finished /\ inHand = NoBatch /\ pending = NoBatch
      BY <1>2, <2>7 DEF IInv, Endings, Placement, PullEnd
    <3>2. emittedRows = sourceRows
      BY <1>2, <2>0, <3>1 DEF IInv, NoRowLost, RowsLeft, NoBatch
    <3>3. CASE status = "open"
      <4>1. Promise!Finish
        BY <2>0, <2>7, <3>2, <3>3 DEF PullEnd, ReturnNone, streamVars,
                                      Promise!Finish, Promise!Complete
      <4>2. QED
        BY <4>1 DEF Promise!Next
    <3>4. CASE status # "open"
      <4>1. status = "exhausted" /\ sourceEnded
        BY <1>2, <3>1, <3>4 DEF IInv, Endings, TypeOK
      <4>2. QED
        BY <2>7, <3>4, <4>1 DEF PullEnd, ReturnNone, streamVars, Promise!vars
    <3>5. QED
      BY <3>3, <3>4
  <2>8. CASE Cut
    <3>1. /\ CutLength \in 1..options.batchSize /\ CutLength \in Nat
          /\ RowsLeft(inHand) \in Nat /\ CutLength <= RowsLeft(inHand)
          /\ options.rowLimit # NoLimit => emittedRows + CutLength <= options.rowLimit
          /\ status = "open"
          /\ sourceRows = emittedRows + RowsLeft(inHand)
      BY <1>2, <2>8, CutFacts, OptionFacts DEF IInv, Cut
    <3>2. CutLength # 0
      BY <3>1
    <3>3. CASE CutOverBudget
      <4>1. Promise!Fail
        BY <2>8, <3>1, <3>3 DEF Cut, CutOverBudget, ReturnError, sourceVars,
                                Promise!Fail
      <4>2. QED
        BY <4>1 DEF Promise!Next
    <3>4. CASE CutDelivered
      <4>1. /\ emittedRows' = emittedRows + CutLength
            /\ UNCHANGED <<options, sourceRows, sourceEnded, status>>
        BY <2>8, <3>4 DEF Cut, CutDelivered, sourceVars
      <4>2. emittedRows + CutLength <= sourceRows
        BY <2>0, <3>1
      <4>3. Promise!Deliver
        BY <3>1, <4>1, <4>2 DEF Promise!Deliver
      <4>4. QED
        BY <4>3 DEF Promise!Next
    <3>5. QED
      BY <2>8, <3>2, <3>3, <3>4 DEF Cut, CutNothing
  <2>9. QED
    BY <1>2, <2>1, <2>2, <2>3, <2>4, <2>5, <2>6, <2>7, <2>8
       DEF Next, CallNext, Loop
<1>3. ASSUME UNCHANGED vars PROVE UNCHANGED Promise!vars
  BY <1>3 DEF vars, streamVars, sourceVars, callVars, Promise!vars
<1>4. QED
  BY <1>1, <1>2, <1>3, Inductive, PTL DEF Spec, ImplementsRowStream, Promise!Spec
=============================================================================
