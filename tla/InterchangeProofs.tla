------------------------- MODULE InterchangeProofs -------------------------
(***************************************************************************)
(* For any families of requests over any schemas: what an interchange      *)
(* plans, what a batch becomes, and what convert() encodes.                *)
(***************************************************************************)
EXTENDS Interchange, PlannerProofs

-----------------------------------------------------------------------------
(* Cells.                                                                  *)

(* What the cells of a column look like.                                   *)
LEMMA CellKinds ==
  ASSUME NEW type, NEW cell \in Cells(type)
  PROVE  /\ type # "Null"
         /\ \/ cell.kind = "integer" /\ cell \in Integers /\ type \notin Strings /\ Fits(type, cell)
            \/ cell = Fraction /\ cell.kind = "fraction" /\ type \in Floats
            \/ cell.kind = "digits" /\ type \in Strings /\ \E c \in Integers : cell = Digits(c)
            \/ cell = Word /\ cell.kind = "word" /\ type \in Strings
<1>1. \A c \in Integers : c.kind = "integer" /\ Digits(c).kind = "digits"
  BY DEF Integers, Cell, Digits
<1>2. Fraction.kind = "fraction" /\ Word.kind = "word"
  BY DEF Fraction, Word, Cell
<1>3. CASE type = "Null"
  BY <1>3 DEF Cells, Floats, Strings
<1>4. CASE type # "Null" /\ type \in Floats
  <2>1. Cells(type) = {c \in Integers : Fits(type, c)} \union {Fraction}
    BY <1>4 DEF Cells, Floats, Strings
  <2>2. type \notin Strings
    BY <1>4 DEF Floats, Strings
  <2> QED
    BY <1>1, <1>2, <1>4, <2>1, <2>2
<1>5. CASE type # "Null" /\ type \in Strings
  <2>1. Cells(type) = {Digits(c) : c \in Integers} \union {Word}
    BY <1>5 DEF Cells, Floats, Strings
  <2> QED
    BY <1>1, <1>2, <1>5, <2>1
<1>6. CASE type # "Null" /\ type \notin Floats /\ type \notin Strings
  <2>1. Cells(type) = {c \in Integers : Fits(type, c)}
    BY <1>6 DEF Cells
  <2> QED
    BY <1>1, <1>6, <2>1
<1> QED
  BY <1>3, <1>4, <1>5, <1>6

(* A cast that is planned turns a value into one of the target type, or    *)
(* alters it, or fails; a null stays null.                                 *)
LEMMA CastConforms ==
  ASSUME NEW source \in CellTypes, NEW target \in CellTypes,
         Classify(source, target) # NoCast,
         NEW cell \in Cells(source) \union {Null}
  PROVE  /\ cell = Null => StrictCast(cell, target) = Null
         /\ cell # Null => StrictCast(cell, target) \in Cells(target) \union {Altered, Failed}
<1>1. target \in Numeric \union Strings
  <2>1. Classify(source, "Null") = NoCast
    BY DEF Classify, SafeCasts, LossyCasts, RuntimeCheckedCasts, SignedWidening, UnsignedWidening,
           UnsignedIntoSigned, Numeric, Signed, Unsigned, Floats, Strings, SignedRank, UnsignedRank
  <2> QED
    BY <2>1, CellAssumption
<1>2. Null.kind = "null"
  BY DEF Null, Cell
<1>3. CASE cell = Null
  BY <1>2, <1>3 DEF StrictCast
<1>4. CASE cell # Null /\ target \in Strings
  <2>1. /\ target \notin Floats /\ target \notin Numeric
        /\ Cells(target) = {Digits(c) : c \in Integers} \union {Word}
    BY <1>4 DEF Cells, Numeric, Signed, Unsigned, Floats, Strings, SignedRank, UnsignedRank
  <2>2. CASE cell.kind = "integer" /\ cell \in Integers
    <3>1. StrictCast(cell, target) = Digits(cell)
      BY <1>4, <2>1, <2>2 DEF StrictCast
    <3> QED
      BY <1>4, <2>1, <2>2, <3>1
  <2>3. CASE cell.kind = "fraction"
    <3>1. StrictCast(cell, target) = Word
      BY <1>4, <2>1, <2>3 DEF StrictCast
    <3> QED
      BY <1>4, <2>1, <3>1
  <2>4. CASE cell.kind \in {"digits", "word"}
    <3>1. StrictCast(cell, target) = cell
      BY <1>4, <2>1, <2>4 DEF StrictCast
    <3>2. cell = Word \/ \E c \in Integers : cell = Digits(c)
      BY <1>4, <2>4, CellKinds
    <3> QED
      BY <1>4, <2>1, <3>1, <3>2
  <2> QED
    BY <1>4, <2>2, <2>3, <2>4, CellKinds
<1>5. CASE cell # Null /\ target \in Numeric
  <2>1. target # "Null" /\ target \notin Strings
    BY <1>5 DEF Numeric, Signed, Unsigned, Floats, Strings, SignedRank, UnsignedRank
  <2>2. {c \in Integers : Fits(target, c)} \subseteq Cells(target)
    BY <2>1 DEF Cells
  <2>3. target \in Floats => Fraction \in Cells(target)
    BY <2>1 DEF Cells
  <2>4. CASE cell.kind = "word"
    <3>1. StrictCast(cell, target) = Failed
      BY <2>1, <2>4 DEF StrictCast
    <3> QED
      BY <1>5, <3>1
  <2>5. CASE cell = Fraction /\ cell.kind = "fraction"
    <3>1. StrictCast(cell, target) = IF target \in Floats THEN cell ELSE Altered
      BY <2>1, <2>5 DEF StrictCast
    <3> QED
      BY <1>5, <2>3, <2>5, <3>1
  <2>6. ASSUME cell.kind \in {"integer", "digits"}, Parsed(cell) \in Integers,
               Fits(target, cell) => Fits(target, Parsed(cell))
        PROVE  StrictCast(cell, target) \in Cells(target) \union {Altered, Failed}
    <3>1. StrictCast(cell, target) = IF Fits(target, cell) THEN Parsed(cell)
                                     ELSE IF target \in Floats THEN Altered ELSE Failed
      BY <1>5, <2>1, <2>6 DEF StrictCast
    <3> QED
      BY <2>2, <2>6, <3>1
  <2>7. CASE cell.kind = "integer" /\ cell \in Integers
    <3>1. Parsed(cell) = cell
      BY <2>7 DEF Parsed, Integers, Cell
    <3> QED
      BY <1>5, <2>6, <2>7, <3>1
  <2>8. CASE cell.kind = "digits" /\ \E c \in Integers : cell = Digits(c)
    <3>1. PICK c \in Integers : cell = Digits(c)
      BY <2>8
    <3>2. Parsed(cell) = c /\ cell.negative = c.negative /\ cell.bits = c.bits
      <4>1. PICK negative \in BOOLEAN, bits \in Magnitudes : c = Cell("integer", negative, bits)
        BY DEF Integers
      <4>2. cell = [kind |-> "digits", negative |-> negative, bits |-> bits]
        BY <3>1, <4>1 DEF Digits, Cell
      <4> QED
        BY <4>1, <4>2 DEF Parsed, Cell
    <3>3. Fits(target, cell) <=> Fits(target, c)
      BY <3>2 DEF Fits
    <3> QED
      BY <1>5, <2>6, <2>8, <3>2, <3>3
  <2> QED
    BY <1>5, <2>4, <2>5, <2>7, <2>8, CellKinds
<1> QED
  BY <1>1, <1>3, <1>4, <1>5

(* A safe cast hands every cell on as it is.                               *)
LEMMA SafeCastKeeps ==
  ASSUME NEW source \in CellTypes, NEW target \in CellTypes,
         Classify(source, target) = "safe",
         NEW cell \in Cells(source) \union {Null}
  PROVE  StrictCast(cell, target) = cell
<1>1. CASE cell = Null
  BY <1>1 DEF StrictCast, Null, Cell
<1>2. CASE cell # Null /\ source \in Strings
  <2>1. target \in Strings
    BY <1>2 DEF Classify, SafeCasts, LossyCasts, RuntimeCheckedCasts, SignedWidening,
                UnsignedWidening, UnsignedIntoSigned, Numeric, Signed, Unsigned, Floats, Strings,
                SignedRank, UnsignedRank, NoCast
  <2>2. cell.kind \in {"digits", "word"}
    <3>1. source \notin Floats
      BY <1>2 DEF Strings, Floats
    <3> QED
      BY <1>2, <3>1, CellKinds
  <2>3. target \notin Floats /\ target \notin Numeric
    BY <2>1 DEF Numeric, Signed, Unsigned, Floats, Strings, SignedRank, UnsignedRank
  <2> QED
    BY <2>1, <2>2, <2>3 DEF StrictCast
<1>3. CASE cell # Null /\ source \in Numeric
  <2>1. Represents(target, source)
    BY <1>3, SafeCastsRepresent
  <2>2. target \in Numeric /\ target \notin Strings
    BY <1>3 DEF Classify, SafeCasts, LossyCasts, RuntimeCheckedCasts, SignedWidening,
                UnsignedWidening, UnsignedIntoSigned, Numeric, Signed, Unsigned, Floats, Strings,
                SignedRank, UnsignedRank, NoCast
  <2>3. source \notin Strings
    BY <1>3 DEF Numeric, Signed, Unsigned, Floats, Strings, SignedRank, UnsignedRank
  <2>4. CASE cell.kind = "integer" /\ cell \in Integers /\ Fits(source, cell)
    <3>1. cell.bits \in Nat
      BY <2>4, CellAssumption DEF Integers, Cell
    <3>2. /\ Above(source) \in Int /\ Above(target) \in Int
          /\ Below(source) \in Int /\ Below(target) \in Int
      BY <1>3, <2>2 DEF Above, Below, Bits, Numeric, Signed, Unsigned, Floats, SignedRank,
                        UnsignedRank
    <3>3. Fits(target, cell)
      BY <2>1, <2>4, <3>1, <3>2 DEF Fits, Represents
    <3>4. Parsed(cell) = cell
      BY <2>4 DEF Parsed, Integers, Cell
    <3> QED
      BY <2>2, <2>4, <3>3, <3>4 DEF StrictCast
  <2>5. CASE cell = Fraction /\ cell.kind = "fraction" /\ source \in Floats
    <3>1. target \in Floats
      BY <2>1, <2>5 DEF Represents
    <3> QED
      BY <2>2, <2>5, <3>1 DEF StrictCast
  <2> QED
    BY <1>3, <2>3, <2>4, <2>5, CellKinds
<1>4. source \in Numeric \union Strings \union {"Null"}
  BY CellAssumption
<1> QED
  BY <1>1, <1>2, <1>3, <1>4, CellKinds

-----------------------------------------------------------------------------
(* The inductive invariant.                                                *)

(* What is planned is planned of the request, which nothing changes.       *)
PlanInv ==
  /\ IsRequest(request)
  /\ IF phase = "requested" THEN plan = Rejected("NotPlanned") ELSE plan \in Plans(request)

(* As long as convert() is neither at an error nor at its end, it lost     *)
(* nothing.                                                                *)
ConvertInv ==
  /\ phase \in {"requested", "rejected"} => decoded = 0
  /\ caller = "converts" /\ phase \in {"streaming", "converted"} => planned = decoded
  /\ phase = "converted" => caller = "converts" /\ encoded = planned

(* The last batch was made by apply_batch of rows of the provided schema,  *)
(* unless the batch was a foreign one.                                     *)
BatchInv ==
  /\ phase \in {"requested", "rejected"} => output = <<>>
  /\ phase \in {"streaming", "converted"} => output # <<Failed>>
  /\ output # <<>> /\ (input # <<>> \/ output # <<Failed>>) =>
       /\ CellsModelled
       /\ \E row \in Rows(request.provided) : input = row /\ output = ApplyBatch(row)

IInv == TypeOK /\ PlanInv /\ ConvertInv /\ BatchInv

(* What TypeOK says of a plan holds of every plan there is.                *)
LEMMA PlanTypes ==
  ASSUME NEW r, IsRequest(r), NEW p \in Plans(r)
  PROVE  /\ p.mappings \subseteq [source : DOMAIN r.provided, target : DOMAIN r.requested,
                                  cast : CastKinds \union {NoCast}, checkNulls : BOOLEAN]
         /\ p.additions \subseteq [target : DOMAIN r.requested, null : BOOLEAN]
<1>1. CASE p = Rejected(p.error)
  BY <1>1 DEF Rejected
<1>2. ASSUME NEW source, NEW added, Fills(r, p, source, added)
      PROVE  /\ p.mappings \subseteq [source : DOMAIN r.provided, target : DOMAIN r.requested,
                                      cast : CastKinds \union {NoCast}, checkNulls : BOOLEAN]
             /\ p.additions \subseteq [target : DOMAIN r.requested, null : BOOLEAN]
  BY <1>2, FilledTypes
<1> QED
  BY <1>1, <1>2, EveryPlan

LEMMA InitIInv == Init => IInv
<1> SUFFICES ASSUME Init PROVE IInv
  OBVIOUS
<1> USE DEF Init
<1>1. IsRequest(request)
  BY RequestAssumption
<1>2. TypeOK
  BY CellAssumption DEF TypeOK, Rejected, NoError
<1>3. BatchInv
  BY DEF BatchInv
<1> QED
  BY <1>1, <1>2, <1>3 DEF IInv, PlanInv, ConvertInv

(* The rows of a batch become the same columns as long as the request, the *)
(* plan and the engine are the same.                                       *)
LEMMA SameBatch ==
  ASSUME UNCHANGED <<request, plan, engine>>
  PROVE  /\ \A row : ApplyBatch(row)' = ApplyBatch(row)
         /\ CellsModelled' = CellsModelled
         /\ Rows(request.provided)' = Rows(request.provided)
<1>1. \A row : ApplyBatch(row)' = ApplyBatch(row)
  BY DEF ApplyBatch, Columns, Column, NullSeen, ApplyCast, StrictCast, Constant, Refused
<1>2. CellsModelled' = CellsModelled
  BY DEF CellsModelled
<1>3. Rows(request.provided)' = Rows(request.provided)
  BY DEF Rows
<1> QED
  BY <1>1, <1>2, <1>3

(* Planning keeps the invariant.                                           *)
LEMMA PlanRequestIInv ==
  ASSUME IInv, PlanRequest
  PROVE  IInv'
<1>1. /\ IsRequest(request) /\ phase = "requested" /\ output = <<>>
      /\ decoded \in 0 .. MaxBatches /\ planned \in 0 .. decoded /\ encoded \in 0 .. planned
      /\ caller = "nobody" /\ engine = "nobody" /\ MaxBatches \in Nat /\ decoded = 0
  BY CellAssumption DEF IInv, TypeOK, PlanInv, ConvertInv, BatchInv, PlanRequest
<1>2. UNCHANGED <<request, input, output, decoded, planned, encoded>> /\ plan' \in Plans(request)
  BY DEF PlanRequest
<1>3. \/ /\ plan'.error = NoError /\ phase' = "streaming"
         /\ engine' \in {"rust", "python"} /\ caller' \in {"iterates", "converts"}
      \/ /\ plan'.error # NoError /\ phase' = "rejected" /\ UNCHANGED <<caller, engine>>
  BY DEF PlanRequest, FollowPlan
<1>4. /\ plan'.mappings \subseteq [source : DOMAIN request.provided,
                                   target : DOMAIN request.requested,
                                   cast : CastKinds \union {NoCast}, checkNulls : BOOLEAN]
      /\ plan'.additions \subseteq [target : DOMAIN request.requested, null : BOOLEAN]
  BY <1>1, <1>2, PlanTypes
<1>5. TypeOK'
  BY <1>1, <1>2, <1>3, <1>4 DEF TypeOK, CastKinds, NoCast, NoError
<1>6. PlanInv'
  <2>1. Plans(request)' = Plans(request) /\ IsRequest(request)'
    BY <1>1, <1>2
  <2> QED
    BY <1>1, <1>2, <1>3, <2>1 DEF PlanInv
<1>7. ConvertInv' /\ BatchInv'
  BY <1>1, <1>2, <1>3 DEF ConvertInv, BatchInv
<1> QED
  BY <1>5, <1>6, <1>7 DEF IInv

(* A batch, be it applied or refused, keeps the invariant.                 *)
LEMMA NextBatchIInv ==
  ASSUME IInv, CellsModelled, NEW row \in Rows(request.provided), NextBatch(row)
  PROVE  IInv'
<1>1. /\ phase = "streaming" /\ decoded < MaxBatches
      /\ input' = row /\ output' = ApplyBatch(row) /\ decoded' = decoded + 1
      /\ UNCHANGED <<request, caller, engine, plan, encoded>>
      /\ \/ output' = <<Failed>> /\ phase' = "raised" /\ planned' = planned
         \/ output' # <<Failed>> /\ phase' = "streaming" /\ planned' = planned + 1
  BY DEF NextBatch
<1>2. TypeOK /\ PlanInv /\ ConvertInv /\ BatchInv
  BY DEF IInv
<1>3. MaxBatches \in Nat
  BY CellAssumption
<1>4. TypeOK'
  <2>1. decoded' \in 0 .. MaxBatches /\ planned' \in 0 .. decoded' /\ encoded' \in 0 .. planned'
    BY <1>1, <1>2, <1>3 DEF TypeOK
  <2>2. caller' \in {"iterates", "converts"} /\ engine' \in {"rust", "python"}
    BY <1>1, <1>2 DEF TypeOK
  <2>3. plan'.error = NoError
    BY <1>1, <1>2 DEF TypeOK
  <2>4. /\ plan'.mappings \subseteq [source : DOMAIN request'.provided,
                                     target : DOMAIN request'.requested,
                                     cast : CastKinds \union {NoCast}, checkNulls : BOOLEAN]
        /\ plan'.additions \subseteq [target : DOMAIN request'.requested, null : BOOLEAN]
    BY <1>1, <1>2 DEF TypeOK
  <2>5. phase' \in {"streaming", "raised"}
    BY <1>1
  <2> QED
    BY <2>1, <2>2, <2>3, <2>4, <2>5 DEF TypeOK, CastKinds, NoCast, NoError
<1>5. PlanInv'
  <2>1. Plans(request)' = Plans(request) /\ IsRequest(request)' /\ plan \in Plans(request)
    BY <1>1, <1>2 DEF PlanInv
  <2> QED
    BY <1>1, <2>1 DEF PlanInv
<1>6. ConvertInv'
  BY <1>1, <1>2 DEF ConvertInv
<1>7. BatchInv'
  <2>1. /\ \A r : ApplyBatch(r)' = ApplyBatch(r)
        /\ CellsModelled' = CellsModelled
        /\ Rows(request.provided)' = Rows(request.provided)
    BY <1>1, SameBatch
  <2> QED
    BY <1>1, <2>1 DEF BatchInv
<1> QED
  BY <1>4, <1>5, <1>6, <1>7 DEF IInv

(* So does every step that leaves the request, the plan and who follows it *)
(* alone, and either has no output or keeps it.                            *)
LEMMA OtherStepIInv ==
  ASSUME IInv, phase \in {"streaming", "raised"}, phase' \in {"streaming", "raised", "converted"},
         UNCHANGED <<request, caller, engine, plan>>,
         decoded' \in 0 .. MaxBatches, planned' \in 0 .. decoded', encoded' \in 0 .. planned',
         ConvertInv',
         \/ output' = <<>>
         \/ output' = <<Failed>> /\ input' = <<>> /\ phase' = "raised"
         \/ UNCHANGED <<input, output>> /\ phase = "streaming"
  PROVE  IInv'
<1>1. TypeOK /\ PlanInv /\ BatchInv
  BY DEF IInv
<1>2. TypeOK'
  <2>1. caller' \in {"iterates", "converts"} /\ engine' \in {"rust", "python"}
    BY <1>1 DEF TypeOK
  <2>2. plan'.error = NoError
    BY <1>1 DEF TypeOK
  <2>3. /\ plan'.mappings \subseteq [source : DOMAIN request'.provided,
                                     target : DOMAIN request'.requested,
                                     cast : CastKinds \union {NoCast}, checkNulls : BOOLEAN]
        /\ plan'.additions \subseteq [target : DOMAIN request'.requested, null : BOOLEAN]
    BY <1>1 DEF TypeOK
  <2> QED
    BY <2>1, <2>2, <2>3 DEF TypeOK, CastKinds, NoCast, NoError
<1>3. PlanInv'
  <2>1. Plans(request)' = Plans(request) /\ IsRequest(request)' /\ plan \in Plans(request)
    BY <1>1 DEF PlanInv
  <2> QED
    BY <2>1 DEF PlanInv
<1>4. BatchInv'
  <2>1. /\ \A r : ApplyBatch(r)' = ApplyBatch(r)
        /\ CellsModelled' = CellsModelled
        /\ Rows(request.provided)' = Rows(request.provided)
    BY SameBatch
  <2>2. <<>> # <<Failed>>
    OBVIOUS
  <2> QED
    BY <1>1, <2>1, <2>2 DEF BatchInv
<1> QED
  BY <1>2, <1>3, <1>4 DEF IInv

LEMMA NextIInv == IInv /\ [Next]_vars => IInv'
<1> SUFFICES ASSUME IInv, [Next]_vars PROVE IInv'
  OBVIOUS
<1>1. /\ TypeOK /\ ConvertInv /\ MaxBatches \in Nat
      /\ decoded \in 0 .. MaxBatches /\ planned \in 0 .. decoded /\ encoded \in 0 .. planned
  BY CellAssumption DEF IInv, TypeOK
<1>2. CASE PlanRequest
  BY <1>2, PlanRequestIInv
<1>3. CASE CellsModelled /\ \E row \in Rows(request.provided) : NextBatch(row)
  BY <1>3, NextBatchIInv
<1>4. CASE NextForeignBatch
  <2>1. /\ phase' = "raised" /\ output' = <<Failed>> /\ input' = <<>> /\ phase = "streaming"
        /\ decoded < MaxBatches /\ decoded' = decoded + 1 /\ planned' = planned
        /\ UNCHANGED <<request, caller, engine, plan, encoded>>
    BY <1>4 DEF NextForeignBatch
  <2>2. ConvertInv'
    BY <1>1, <2>1 DEF ConvertInv
  <2> QED
    BY <1>1, <2>1, <2>2, OtherStepIInv
<1>5. CASE Continue
  <2>1. /\ phase' = "streaming" /\ output' = <<>> /\ phase = "raised" /\ caller = "iterates"
        /\ UNCHANGED <<request, caller, engine, plan, input, decoded, planned, encoded>>
    BY <1>5 DEF Continue
  <2>2. ConvertInv'
    BY <1>1, <2>1 DEF ConvertInv
  <2> QED
    BY <1>1, <2>1, <2>2, OtherStepIInv
<1>6. CASE Convert
  <2>1. /\ phase' = "converted" /\ phase = "streaming" /\ caller = "converts"
        /\ encoded' = planned
        /\ UNCHANGED <<request, caller, engine, plan, input, output, decoded, planned>>
    BY <1>6 DEF Convert
  <2>2. ConvertInv'
    BY <1>1, <2>1 DEF ConvertInv
  <2> QED
    BY <1>1, <2>1, <2>2, OtherStepIInv
<1>7. CASE UNCHANGED vars
  <2>1. UNCHANGED <<request, caller, engine, plan, phase, input, output, decoded, planned, encoded>>
    BY <1>7 DEF vars
  <2>2. Plans(request)' = Plans(request) /\ IsRequest(request)' = IsRequest(request)
    BY <2>1
  <2>3. /\ \A r : ApplyBatch(r)' = ApplyBatch(r)
        /\ CellsModelled' = CellsModelled
        /\ Rows(request.provided)' = Rows(request.provided)
    BY <2>1, SameBatch
  <2>4. TypeOK'
    BY <1>1, <2>1 DEF TypeOK, CastKinds, NoCast, NoError
  <2>5. PlanInv' /\ ConvertInv'
    BY <2>1, <2>2 DEF IInv, PlanInv, ConvertInv, Rejected
  <2>6. BatchInv'
    BY <2>1, <2>3 DEF IInv, BatchInv
  <2> QED
    BY <2>4, <2>5, <2>6 DEF IInv
<1> QED
  BY <1>2, <1>3, <1>4, <1>5, <1>6, <1>7 DEF Next

(* The invariant holds in every state of every interchange.                *)
THEOREM Inductive == Spec => []IInv
<1> QED
  BY InitIInv, NextIInv, PTL DEF Spec

-----------------------------------------------------------------------------
(* What an interchange promises.                                           *)

(* TypeOK, in every state of every interchange.                            *)
THEOREM TypeCorrect == Spec => []TypeOK
<1>1. IInv => TypeOK
  BY DEF IInv
<1> QED
  BY Inductive, <1>1, PTL

(* convert() encodes every batch that was decoded, or nothing: an error on *)
(* the way (InterchangePlan.convert collects before it encodes).           *)
THEOREM ConvertIsWhole == Spec => []ConvertsAllOrNothing
<1>1. IInv => ConvertsAllOrNothing
  BY DEF IInv, ConvertInv, ConvertsAllOrNothing
<1> QED
  BY Inductive, <1>1, PTL

(* A plan, before it is made and when it is refused, lists nothing.        *)
LEMMA PlanIs ==
  ASSUME IInv
  PROVE  \/ plan.error # NoError /\ plan.mappings = {} /\ plan.additions = {}
         \/ plan.error = NoError /\ \E source, added : Fills(request, plan, source, added)
<1>1. CASE phase = "requested"
  BY <1>1 DEF IInv, PlanInv, Rejected, NoError
<1>2. CASE phase # "requested"
  <2>1. IsRequest(request) /\ plan \in Plans(request)
    BY <1>2 DEF IInv, PlanInv
  <2>2. plan = Rejected(plan.error) => plan.mappings = {} /\ plan.additions = {}
    BY DEF Rejected
  <2> QED
    BY <2>1, <2>2, EveryPlan
<1> QED
  BY <1>1, <1>2

(* A cast that a plan calls safe keeps every number, whatever the policy,  *)
(* the operations and the other fields (CastRegistry::classify).           *)
THEOREM SafeCastsAreExact == Spec => []SafeCastsExact
<1>1. IInv => SafeCastsExact
  <2> SUFFICES ASSUME IInv, NEW mapping \in plan.mappings, mapping.cast = "safe",
                      Type(request.provided, mapping.source) \in Numeric
               PROVE  Represents(Type(request.requested, mapping.target),
                                 Type(request.provided, mapping.source))
    BY DEF SafeCastsExact
  <2>1. PICK source, added : Fills(request, plan, source, added)
    BY PlanIs
  <2>2. mapping = Carry(request, mapping.source, mapping.target)
    BY <2>1, FilledTypes DEF IInv, PlanInv
  <2>3. mapping.cast = CastOf(request.provided[mapping.source], request.requested[mapping.target])
    BY <2>2 DEF Carry, Mapping
  <2> QED
    BY <2>3, SafeCastsRepresent DEF CastOf, Type
<1> QED
  BY Inductive, <1>1, PTL

(* A plan fills every requested field once, by a mapping or by a default.  *)
THEOREM TargetsAreFilledOnce == Spec => []EveryTargetOnce
<1>1. IInv => EveryTargetOnce
  <2> SUFFICES ASSUME IInv, plan.error = NoError, NEW t \in DOMAIN request.requested
               PROVE  Cardinality({mapping \in plan.mappings : mapping.target = t})
                        + Cardinality({addition \in plan.additions : addition.target = t}) = 1
    BY DEF EveryTargetOnce, Planned
  <2>1. PICK source, added : Fills(request, plan, source, added)
    BY PlanIs
  <2> QED
    BY <2>1, FilledOnce
<1> QED
  BY Inductive, <1>1, PTL

(* A plan leaves no provided field out but by projection or by name, and   *)
(* fills a field only from the one that carries its name.                  *)
THEOREM DataIsNotIgnored == Spec => []NothingIgnored
<1>1. IInv => NothingIgnored
  <2> SUFFICES ASSUME IInv, plan.error = NoError PROVE NothingIgnored
    BY DEF NothingIgnored, Planned
  <2>1. PICK source, added : Fills(request, plan, source, added)
    BY PlanIs
  <2>2. \A mapping \in plan.mappings : Suits(request, mapping.source, mapping.target)
    BY <2>1, FilledTypes DEF IInv, PlanInv
  <2>3. \A mapping \in plan.mappings :
          request.requested[mapping.target].name
            = Renamed(request.options, request.provided[mapping.source].name)
    BY <2>2 DEF Suits
  <2>4. \A t \in DOMAIN source : \E mapping \in plan.mappings : mapping.source = source[t]
    <3>1. plan.mappings = {Carry(request, source[t], t) : t \in DOMAIN source}
      BY <2>1 DEF Fills, Accepted
    <3>2. \A t : Carry(request, source[t], t).source = source[t]
      BY DEF Carry, Mapping
    <3> QED
      BY <3>1, <3>2
  <2>5. \A i \in DOMAIN request.provided :
          \/ request.policy = "projection"
          \/ request.provided[i].name \in request.options.drop
          \/ \E mapping \in plan.mappings : mapping.source = i
    BY <2>1, <2>4 DEF Fills, Covers
  <2> QED
    BY <2>3, <2>5 DEF NothingIgnored
<1> QED
  BY Inductive, <1>1, PTL

-----------------------------------------------------------------------------
(* What becomes of a batch.                                                *)

(* The marks of failed and altered values are no values.                   *)
LEMMA CellsApart ==
  /\ Null # Failed /\ Altered # Failed /\ Altered # Null
  /\ \A type : \A cell \in Cells(type) : cell # Failed /\ cell # Null
<1>1. /\ Null.kind = "null" /\ Failed.kind = "failed" /\ Altered.kind = "altered"
      /\ Fraction.kind = "fraction" /\ Word.kind = "word"
  BY DEF Null, Failed, Altered, Fraction, Word, Cell
<1> QED
  BY <1>1, CellKinds

(* Each requested field has one column: what its mapping makes of the row, *)
(* or its default.                                                         *)
LEMMA ColumnsOf ==
  ASSUME NEW source, NEW added, Fills(request, plan, source, added), NEW row
  PROVE  LET mapped(t) == <<t, Column(Carry(request, source[t], t), row)>>
             given(t)  == <<t, Constant(Given(request, t))>>
         IN /\ Columns(row) = {mapped(t) : t \in DOMAIN source} \union {given(t) : t \in added}
            /\ \A t \in DOMAIN source :
                 (CHOOSE column \in Columns(row) : column[1] = t) = mapped(t)
            /\ \A t \in added :
                 (CHOOSE column \in Columns(row) : column[1] = t) = given(t)
<1> DEFINE mapped(t) == <<t, Column(Carry(request, source[t], t), row)>>
           given(t)  == <<t, Constant(Given(request, t))>>
           columns   == Columns(row)
<1>1. /\ plan.mappings = {Carry(request, source[t], t) : t \in DOMAIN source}
      /\ plan.additions = {Given(request, t) : t \in added}
      /\ DOMAIN source \intersect added = {}
  BY DEF Fills, Accepted
<1>2. \A t : Carry(request, source[t], t).target = t /\ Given(request, t).target = t
  BY DEF Carry, Mapping, Given
<1>3. columns = {<<m.target, Column(m, row)>> : m \in plan.mappings}
                  \union {<<a.target, Constant(a)>> : a \in plan.additions}
  BY DEF Columns
<1>4. {<<m.target, Column(m, row)>> : m \in plan.mappings} = {mapped(t) : t \in DOMAIN source}
  BY <1>1, <1>2
<1>5. {<<a.target, Constant(a)>> : a \in plan.additions} = {given(t) : t \in added}
  BY <1>1, <1>2
<1>6. columns = {mapped(t) : t \in DOMAIN source} \union {given(t) : t \in added}
  BY <1>3, <1>4, <1>5
<1>7. \A t : mapped(t)[1] = t /\ given(t)[1] = t
  OBVIOUS
<1> HIDE DEF mapped, given, columns
<1>8. ASSUME NEW t \in DOMAIN source
      PROVE  (CHOOSE column \in columns : column[1] = t) = mapped(t)
  <2>1. \A column \in columns : column[1] = t => column = mapped(t)
    BY <1>1, <1>6, <1>7
  <2>2. mapped(t) \in columns /\ mapped(t)[1] = t
    BY <1>6, <1>7
  <2> QED
    BY <2>1, <2>2
<1>9. ASSUME NEW t \in added
      PROVE  (CHOOSE column \in columns : column[1] = t) = given(t)
  <2>1. \A column \in columns : column[1] = t => column = given(t)
    BY <1>1, <1>6, <1>7
  <2>2. given(t) \in columns /\ given(t)[1] = t
    BY <1>6, <1>7
  <2> QED
    BY <2>1, <2>2
<1> QED
  BY <1>6, <1>8, <1>9 DEF mapped, given, columns

(* A field filled from an array of type Null is filled with nulls only.    *)
LEMMA FilledWithNulls ==
  ASSUME NEW source, NEW added, Fills(request, plan, source, added)
  PROVE  /\ \A t \in DOMAIN source :
              request.provided[source[t]].type = "Null" => NullsOnly(t)
         /\ \A t \in added : DefaultOf(request, t).type = "Null" => NullsOnly(t)
<1>1. /\ plan.mappings = {Carry(request, source[t], t) : t \in DOMAIN source}
      /\ plan.additions = {Given(request, t) : t \in added}
  BY DEF Fills, Accepted
<1>2. /\ \A t : Carry(request, source[t], t).target = t /\ Given(request, t).target = t
      /\ \A t : Carry(request, source[t], t).source = source[t]
  BY DEF Carry, Mapping, Given
<1>3. ASSUME NEW t \in DOMAIN source, request.provided[source[t]].type = "Null"
      PROVE  NullsOnly(t)
  <2>1. Carry(request, source[t], t) \in plan.mappings
    BY <1>1
  <2> QED
    BY <1>2, <1>3, <2>1 DEF NullsOnly, Type
<1>4. ASSUME NEW t \in added, DefaultOf(request, t).type = "Null"
      PROVE  NullsOnly(t)
  <2>1. Given(request, t) \in plan.additions
    BY <1>1
  <2> QED
    BY <1>2, <1>4, <2>1 DEF NullsOnly, DefaultOf
<1> QED
  BY <1>3, <1>4

(* A column has values of the field's type, or it failed; a null that the  *)
(* field may not have comes from a column of type Null, or is left to the  *)
(* Rust engine, which refuses it.  A field that may only be cast safely    *)
(* keeps its values, and only what is of type Null becomes a Null field.   *)
LEMMA ColumnConforms ==
  ASSUME IsRequest(request), CellsModelled, engine \in {"rust", "python"},
         NEW row \in Rows(request.provided),
         NEW i \in DOMAIN request.provided, NEW t \in DOMAIN request.requested,
         Suits(request, i, t)
  PROVE  LET value == Column(Carry(request, i, t), row)
             target == request.requested[t]
         IN /\ \/ value = Failed
               \/ value \in Cells(target.type) \union {Altered}
               \/ /\ value = Null
                  /\ target.nullable \/ request.provided[i].type = "Null" \/ engine = "rust"
            /\ OnlySafely(request, target.name) =>
                 /\ value = row[i] /\ value # Failed
                 /\ value = Null => target.nullable \/ request.provided[i].type = "Null"
            /\ target.type = "Null" => request.provided[i].type = "Null"
<1> DEFINE value  == Column(Carry(request, i, t), row)
           source == request.provided[i]
           target == request.requested[t]
           cast   == CastOf(source, target)
           checkNulls == source.nullable /\ ~target.nullable
           cell   == row[i]
<1>1. /\ source.type \in CellTypes /\ target.type \in CellTypes
  BY DEF CellsModelled
<1>2. cell \in Cells(source.type) \union (IF MayBeNull(source) THEN {Null} ELSE {})
  BY DEF Rows
<1>3. source.nullable \in BOOLEAN /\ target.nullable \in BOOLEAN
  BY FieldsOf DEF IsRequest
<1>4. value = IF checkNulls /\ cell = Null /\ (engine = "rust" => source.type # "Null")
                THEN Failed
              ELSE IF cast = NoCast THEN cell
              ELSE ApplyCast(engine, cast, cell, target.type)
  BY DEF Column, NullSeen, Carry, Mapping
<1>5. cast = Classify(source.type, target.type) /\ (source.type = target.type \/ cast # NoCast)
  BY DEF CastOf, Suits
<1>6. cast = NoCast => source.type = target.type
  BY <1>5
<1>7. cast # NoCast =>
        /\ cell = Null => ApplyCast(engine, cast, cell, target.type) = Null
        /\ cell # Null => ApplyCast(engine, cast, cell, target.type)
                            \in Cells(target.type) \union {Altered, Failed}
  <2>1. ASSUME cast # NoCast
        PROVE  /\ cell = Null => StrictCast(cell, target.type) = Null
               /\ cell # Null => StrictCast(cell, target.type)
                                   \in Cells(target.type) \union {Altered, Failed}
    <3> HIDE DEF cell, source, target
    <3> QED
      BY <1>1, <1>2, <1>5, <2>1, CastConforms
  <2> HIDE DEF cell, source, target, cast
  <2> QED
    BY <2>1, CellsApart DEF ApplyCast
<1>8. OnlySafely(request, target.name) => cast \in {NoCast, "safe"} /\ ~checkNulls
  BY DEF Suits
<1>9. cast = "safe" => ApplyCast(engine, cast, cell, target.type) = cell
  <2>1. ASSUME cast = "safe" PROVE StrictCast(cell, target.type) = cell
    <3> HIDE DEF cell, source, target
    <3> QED
      BY <1>1, <1>2, <1>5, <2>1, SafeCastKeeps
  <2> HIDE DEF cell, source, target, cast
  <2> QED
    BY <2>1 DEF ApplyCast
<1>10. cell # Failed /\ (cell = Null => source.nullable \/ source.type = "Null")
  <2> HIDE DEF cell, source
  <2> QED
    BY <1>2, CellsApart DEF MayBeNull
<1>13. target.type = "Null" => source.type = "Null"
  <2> HIDE DEF source, target
  <2> QED
    BY <1>5 DEF Classify, SafeCasts, LossyCasts, RuntimeCheckedCasts, SignedWidening,
                UnsignedWidening, UnsignedIntoSigned, Numeric, Signed, Unsigned, Floats, Strings,
                SignedRank, UnsignedRank
<1> HIDE DEF value, source, target, cast, cell
<1>11. \/ value = Failed
       \/ value \in Cells(target.type) \union {Altered}
       \/ value = Null /\ (target.nullable \/ source.type = "Null" \/ engine = "rust")
  <2>1. CASE cell = Null
    BY <1>3, <1>4, <1>7, <1>10, <2>1
  <2>2. CASE cell # Null
    BY <1>2, <1>4, <1>6, <1>7, <2>2
  <2> QED
    BY <2>1, <2>2
<1>12. OnlySafely(request, target.name) =>
         /\ value = cell /\ value # Failed
         /\ value = Null => target.nullable \/ source.type = "Null"
  BY <1>3, <1>4, <1>8, <1>9, <1>10 DEF NoCast
<1> QED
  BY <1>11, <1>12, <1>13 DEF value, source, target, cell

(* The default a field is given is a value, or a null it may have, or the  *)
(* null of an array of type Null.                                          *)
LEMMA ConstantConforms ==
  ASSUME IsRequest(request), NEW source, NEW added, Fills(request, plan, source, added),
         NEW t \in added
  PROVE  LET value == Constant(Given(request, t))
         IN /\ value # Failed
            /\ \/ value = Altered
               \/ /\ value = Null
                  /\ request.requested[t].nullable \/ DefaultOf(request, t).type = "Null"
<1>1. Given(request, t) \in plan.additions
  BY DEF Fills, Accepted
<1>2. Given(request, t).null =>
        \/ request.requested[Given(request, t).target].nullable
        \/ DefaultOf(request, Given(request, t).target).type = "Null"
  BY <1>1, FilledTypes
<1>3. Given(request, t).target = t
  BY DEF Given
<1> QED
  BY <1>2, <1>3, CellsApart DEF Constant

(* A batch that is handed on has no column that failed and no null the     *)
(* Rust engine would refuse, and a value for every field.                  *)
LEMMA AppliedBatch ==
  ASSUME NEW row, ApplyBatch(row) # <<Failed>>
  PROVE  /\ \A column \in Columns(row) : column[2] # Failed
         /\ engine = "rust" =>
              \A column \in Columns(row) :
                column[2] = Null => MayBeNull(request.requested[column[1]])
         /\ ApplyBatch(row) = [t \in DOMAIN request.requested |->
                                 (CHOOSE column \in Columns(row) : column[1] = t)[2]]
BY DEF ApplyBatch, Refused, MayBeNull

(* What the planned stream hands on conforms to the requested schema: each *)
(* field has a value of its type, or one its cast altered, or null where   *)
(* the field allows it; only an array of type Null fills a required field  *)
(* with nulls, in Python, and in Rust only where the field is of type Null *)
(* as well.                                                                *)
THEOREM OutputHasTheSchema == Spec => []OutputConforms
<1>1. IInv => OutputConforms
  <2> SUFFICES ASSUME IInv, Emitted PROVE OutputConforms
    BY DEF OutputConforms
  <2>1. /\ IsRequest(request) /\ CellsModelled /\ engine \in {"rust", "python"}
        /\ plan.error = NoError /\ output # <<Failed>>
    BY DEF IInv, TypeOK, PlanInv, BatchInv, Emitted
  <2>2. PICK row \in Rows(request.provided) : output = ApplyBatch(row)
    BY DEF IInv, BatchInv, Emitted
  <2>3. PICK source, added : Fills(request, plan, source, added)
    BY <2>1, PlanIs
  <2> DEFINE columns == Columns(row)
  <2>4. /\ \A column \in columns : column[2] # Failed
        /\ engine = "rust" =>
             \A column \in columns : column[2] = Null => MayBeNull(request.requested[column[1]])
        /\ output = [t \in DOMAIN request.requested |->
                       (CHOOSE column \in columns : column[1] = t)[2]]
    BY <2>1, <2>2, AppliedBatch
  <2> HIDE DEF columns
  <2>5. DOMAIN output = DOMAIN request.requested
    BY <2>4
  <2>6. ASSUME NEW t \in DOMAIN output
        PROVE  \/ output[t] \in Cells(Type(request.requested, t)) \union {Altered}
               \/ output[t] = Null /\ request.requested[t].nullable
               \/ /\ output[t] = Null /\ NullsOnly(t)
                  /\ engine = "rust" => Type(request.requested, t) = "Null"
    <3>1. t \in DOMAIN source \/ t \in added
      BY <2>3, <2>5 DEF Fills
    <3> DEFINE chosen == CHOOSE column \in columns : column[1] = t
    <3>2. output[t] = chosen[2]
      BY <2>4, <2>5
    <3> HIDE DEF chosen
    <3>3. CASE t \in DOMAIN source
      <4> DEFINE value == Column(Carry(request, source[t], t), row)
      <4>1. chosen = <<t, value>> /\ <<t, value>> \in columns
        BY <2>3, <3>3, ColumnsOf DEF columns, chosen
      <4>2. Suits(request, source[t], t) /\ source[t] \in DOMAIN request.provided
        BY <2>3, <3>3 DEF Fills, Suits
      <4>3. \/ value = Failed
            \/ value \in Cells(request.requested[t].type) \union {Altered}
            \/ /\ value = Null
               /\ \/ request.requested[t].nullable
                  \/ request.provided[source[t]].type = "Null"
                  \/ engine = "rust"
        BY <2>1, <2>5, <4>2, ColumnConforms
      <4>6. request.requested[t].type = "Null" => request.provided[source[t]].type = "Null"
        BY <2>1, <2>5, <4>2, ColumnConforms
      <4>7. request.provided[source[t]].type = "Null" => NullsOnly(t)
        BY <2>3, <3>3, FilledWithNulls
      <4> HIDE DEF value
      <4>4. output[t] = value
        BY <3>2, <4>1
      <4>5. /\ value # Failed
            /\ engine = "rust" /\ value = Null => MayBeNull(request.requested[t])
        BY <2>4, <4>1
      <4> QED
        BY <4>3, <4>4, <4>5, <4>6, <4>7 DEF Type, MayBeNull
    <3>4. CASE t \in added
      <4> DEFINE value == Constant(Given(request, t))
      <4>1. chosen = <<t, value>> /\ <<t, value>> \in columns
        BY <2>3, <3>4, ColumnsOf DEF columns, chosen
      <4>2. \/ value = Altered
            \/ /\ value = Null
               /\ request.requested[t].nullable \/ DefaultOf(request, t).type = "Null"
        BY <2>1, <2>3, <3>4, ConstantConforms
      <4>4. DefaultOf(request, t).type = "Null" => NullsOnly(t)
        BY <2>3, <3>4, FilledWithNulls
      <4> HIDE DEF value
      <4>3. output[t] = value
        BY <3>2, <4>1
      <4>5. engine = "rust" /\ value = Null => MayBeNull(request.requested[t])
        BY <2>4, <4>1
      <4> QED
        BY <4>2, <4>3, <4>4, <4>5 DEF Type, MayBeNull
    <3> QED
      BY <3>1, <3>3, <3>4
  <2> QED
    BY <2>5, <2>6 DEF OutputConforms
<1> QED
  BY Inductive, <1>1, PTL

(* A field that may only be cast safely hands on its values as they are,   *)
(* whatever the other fields do; and a batch that is refused has a field   *)
(* of another kind, or a required one the Rust core should have filled     *)
(* from an array of type Null.                                             *)
THEOREM SafePlansKeep == Spec => []SafePlansKeepValues
<1>1. ASSUME IInv, Emitted, NEW mapping \in plan.mappings,
             Guarded(request.requested[mapping.target].name)
      PROVE  output[mapping.target] = input[mapping.source]
  <2>1. /\ IsRequest(request) /\ CellsModelled /\ engine \in {"rust", "python"}
        /\ plan.error = NoError /\ output # <<Failed>>
    BY <1>1 DEF IInv, TypeOK, PlanInv, BatchInv, Emitted
  <2>2. PICK row \in Rows(request.provided) : input = row /\ output = ApplyBatch(row)
    BY <1>1 DEF IInv, BatchInv, Emitted
  <2>3. PICK source, added : Fills(request, plan, source, added)
    BY <1>1, <2>1, PlanIs
  <2>4. PICK t \in DOMAIN source : mapping = Carry(request, source[t], t)
    BY <1>1, <2>3 DEF Fills, Accepted
  <2>5. mapping.target = t /\ mapping.source = source[t]
    BY <2>4 DEF Carry, Mapping
  <2>6. /\ Suits(request, source[t], t) /\ source[t] \in DOMAIN request.provided
        /\ t \in DOMAIN request.requested
    BY <2>3 DEF Fills, Suits
  <2>7. OnlySafely(request, request.requested[t].name)
    BY <1>1, <2>5 DEF Guarded, OnlySafely
  <2> DEFINE value == Column(Carry(request, source[t], t), row)
             columns == Columns(row)
  <2>8. value = row[source[t]]
    BY <2>1, <2>6, <2>7, ColumnConforms
  <2>9. (CHOOSE column \in columns : column[1] = t) = <<t, value>>
    BY <2>3, ColumnsOf
  <2>10. output = [u \in DOMAIN request.requested |->
                     (CHOOSE column \in columns : column[1] = u)[2]]
    BY <2>1, <2>2, AppliedBatch
  <2> HIDE DEF value, columns
  <2>11. output[t] = value
    BY <2>6, <2>9, <2>10
  <2> QED
    BY <2>2, <2>5, <2>8, <2>11
<1>2. ASSUME IInv, output = <<Failed>>, input # <<>>,
             \A t \in DOMAIN request.requested :
               /\ Guarded(request.requested[t].name)
               /\ engine = "rust" /\ NullsOnly(t) => request.requested[t].nullable
      PROVE  FALSE
  <2>1. output # <<>>
    BY <1>2
  <2>2. /\ IsRequest(request) /\ CellsModelled /\ engine \in {"rust", "python"}
        /\ plan.error = NoError
    BY <1>2, <2>1 DEF IInv, TypeOK, PlanInv, BatchInv
  <2>3. PICK row \in Rows(request.provided) : output = ApplyBatch(row)
    BY <1>2, <2>1 DEF IInv, BatchInv
  <2>4. PICK source, added : Fills(request, plan, source, added)
    BY <1>2, <2>2, PlanIs
  <2>5. ASSUME NEW t \in DOMAIN source
        PROVE  LET value == Column(Carry(request, source[t], t), row)
               IN /\ value # Failed
                  /\ engine = "rust" /\ value = Null => request.requested[t].nullable
    <3>1. /\ Suits(request, source[t], t) /\ source[t] \in DOMAIN request.provided
          /\ t \in DOMAIN request.requested
      BY <2>4 DEF Fills, Suits
    <3>2. OnlySafely(request, request.requested[t].name)
      BY <1>2, <3>1 DEF Guarded, OnlySafely
    <3> DEFINE value == Column(Carry(request, source[t], t), row)
    <3>3. /\ value # Failed
          /\ value = Null =>
               request.requested[t].nullable \/ request.provided[source[t]].type = "Null"
      BY <2>2, <3>1, <3>2, ColumnConforms
    <3>4. request.provided[source[t]].type = "Null" => NullsOnly(t)
      BY <2>4, FilledWithNulls
    <3> HIDE DEF value
    <3>5. value # Failed /\ (engine = "rust" /\ value = Null => request.requested[t].nullable)
      BY <1>2, <3>1, <3>3, <3>4
    <3> QED
      BY <3>5 DEF value
  <2>6. ASSUME NEW t \in added
        PROVE  LET value == Constant(Given(request, t))
               IN /\ value # Failed
                  /\ engine = "rust" /\ value = Null => request.requested[t].nullable
    <3> DEFINE value == Constant(Given(request, t))
    <3>1. /\ value # Failed
          /\ value = Null =>
               request.requested[t].nullable \/ DefaultOf(request, t).type = "Null"
      BY <2>2, <2>4, ConstantConforms, CellsApart
    <3>2. DefaultOf(request, t).type = "Null" => NullsOnly(t)
      BY <2>4, FilledWithNulls
    <3>3. t \in DOMAIN request.requested
      BY <2>4 DEF Fills
    <3> HIDE DEF value
    <3>4. value # Failed /\ (engine = "rust" /\ value = Null => request.requested[t].nullable)
      BY <1>2, <3>1, <3>2, <3>3
    <3> QED
      BY <3>4 DEF value
  <2> DEFINE columns == Columns(row)
             mapped(t) == <<t, Column(Carry(request, source[t], t), row)>>
             given(t)  == <<t, Constant(Given(request, t))>>
  <2>7. columns = {mapped(t) : t \in DOMAIN source} \union {given(t) : t \in added}
    BY <2>4, ColumnsOf
  <2>8. \A column \in columns :
          /\ column[2] # Failed
          /\ engine = "rust" /\ column[2] = Null => request.requested[column[1]].nullable
    <3> HIDE DEF columns
    <3> QED
      BY <2>5, <2>6, <2>7
  <2>9. output = [t \in DOMAIN request.requested |->
                    (CHOOSE column \in columns : column[1] = t)[2]]
    BY <2>3, <2>8 DEF ApplyBatch, Refused
  <2>10. 1 \in DOMAIN request.requested /\ output[1] = Failed
    BY <1>2, <2>9
  <2>11. \E column \in columns : column[2] = output[1]
    <3>1. 1 \in DOMAIN source \/ 1 \in added
      BY <2>4, <2>10 DEF Fills
    <3>2. ASSUME 1 \in DOMAIN source
          PROVE  (CHOOSE column \in columns : column[1] = 1) = mapped(1) /\ mapped(1) \in columns
      BY <2>4, <2>7, <3>2, ColumnsOf
    <3>3. ASSUME 1 \in added
          PROVE  (CHOOSE column \in columns : column[1] = 1) = given(1) /\ given(1) \in columns
      BY <2>4, <2>7, <3>3, ColumnsOf
    <3>4. output[1] = (CHOOSE column \in columns : column[1] = 1)[2]
      BY <2>9, <2>10
    <3> HIDE DEF columns, mapped, given
    <3> QED
      BY <3>1, <3>2, <3>3, <3>4
  <2> QED
    BY <2>8, <2>10, <2>11
<1>3. IInv => SafePlansKeepValues
  BY <1>1, <1>2 DEF SafePlansKeepValues
<1> QED
  BY Inductive, <1>3, PTL

-----------------------------------------------------------------------------
(* How plans for the same schemas compare.                                 *)

(* Names are unique when there are as many of them as there are fields.    *)
LEMMA UniqueMeansOnce ==
  ASSUME NEW schema \in Seq(Fields), UniqueNames(schema)
  PROVE  \A i, j \in DOMAIN schema : schema[i].name = schema[j].name => i = j
<1> DEFINE name == [i \in DOMAIN schema |-> schema[i].name]
<1>1. Len(schema) \in Nat /\ DOMAIN schema = 1 .. Len(schema)
  BY FieldsOf
<1>2. IsFiniteSet(DOMAIN schema) /\ Cardinality(DOMAIN schema) = Len(schema)
  BY <1>1, FS_Interval
<1>3. Cardinality(DOMAIN schema) = Cardinality(Names(schema))
  BY <1>2 DEF UniqueNames
<1>4. name \in Surjection(DOMAIN schema, Names(schema))
  BY DEF Surjection, Names
<1>5. name \in Injection(DOMAIN schema, Names(schema))
  <2> HIDE DEF name
  <2> QED
    BY <1>2, <1>3, <1>4, FS_SurjSameCardinalityImpliesInj
<1> QED
  BY <1>5 DEF Injection, IsInjective

(* What exact accepts, compatible and coerce accept and plan the same way, *)
(* as does projection where no name is twice; and coerce plans as          *)
(* compatible does what compatible accepts.                                *)
THEOREM PoliciesAreOrdered == Spec => []StricterPlansAgree
<1>1. IInv => StricterPlansAgree
  <2> SUFFICES ASSUME IInv PROVE StricterPlansAgree
    OBVIOUS
  <2>1. request.provided \in Seq(Fields) /\ request.requested \in Seq(Fields)
    BY DEF IInv, PlanInv, IsRequest
  <2>2. Accepts("exact") =>
          \A policy \in {"compatible", "coerce"} :
            Accepts(policy) /\ Mappings(policy) = Mappings("exact")
    BY <2>1, StricterInPlace DEF Accepts, Mappings
  <2>3. Accepts("compatible") =>
          Accepts("coerce") /\ Mappings("coerce") = Mappings("compatible")
    BY <2>1, StricterInPlace DEF Accepts, Mappings
  <2>4. Accepts("exact") /\ UniqueNames(request.provided) =>
          Accepts("projection") /\ Mappings("projection") = Mappings("exact")
    BY <2>1, ExactProjects, UniqueMeansOnce DEF Accepts, Mappings
  <2> QED
    BY <2>2, <2>3, <2>4 DEF StricterPlansAgree
<1> QED
  BY Inductive, <1>1, PTL

(* Renames of fields to their own name switch the planner from pairing by  *)
(* position to matching by name, and change nothing of what it plans.      *)
THEOREM MatchingAgrees == Spec => []ByNameAgreesWithPosition
<1>1. IInv => ByNameAgreesWithPosition
  <2> DEFINE shared == Names(request.provided) \intersect Names(request.requested)
             idle   == [NoOptions EXCEPT !.renames = [name \in shared |-> name]]
  <2> SUFFICES ASSUME IInv, request.policy # "exact", UniqueNames(request.provided),
                      Accepts(request.policy)
               PROVE  Plans([request EXCEPT !.options = idle])
                        = {PlanFields(request.provided, request.requested, request.policy)}
    BY DEF ByNameAgreesWithPosition
  <2>1. IsRequest(request) /\ request.provided \in Seq(Fields)
    BY DEF IInv, PlanInv, IsRequest
  <2>2. \A i, j \in DOMAIN request.provided :
          request.provided[i].name = request.provided[j].name => i = j
    BY <2>1, UniqueMeansOnce
  <2>3. \A name \in shared :
          /\ \E i \in DOMAIN request.provided : request.provided[i].name = name
          /\ \E t \in DOMAIN request.requested : request.requested[t].name = name
    BY DEF Names
  <2>4. PlanFields(request.provided, request.requested, request.policy).error = NoError
    BY DEF Accepts
  <2>5. idle = IdleOptions(shared)
    BY DEF IdleOptions
  <2> HIDE DEF shared, idle
  <2>6. Plans([request EXCEPT !.options = IdleOptions(shared)])
          = {PlanFields(request.provided, request.requested, request.policy)}
    BY <2>1, <2>2, <2>3, <2>4, IdlePlans
  <2> QED
    BY <2>5, <2>6
<1> QED
  BY Inductive, <1>1, PTL
=============================================================================
