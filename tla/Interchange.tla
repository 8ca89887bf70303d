---------------------------- MODULE Interchange ----------------------------
(***************************************************************************)
(* An interchange from its request to its output: planning, which sees the *)
(* two schemas and no data, then the planned stream, which applies the     *)
(* plan to every batch its decoder hands over, then the encoding of what   *)
(* convert() collected.                                                    *)
(*                                                                         *)
(* The `caller` either iterates over the planned stream itself or calls    *)
(* convert().                                                              *)
(* The plan is applied by apply_batch of the Rust core or by that of the   *)
(* Python package, which cast differently: `engine` says which.  A batch   *)
(* is one row, a sequence of cells: a cell is null, an integer of so many  *)
(* bits, a fraction, the digits of an integer, or some other word.         *)
(***************************************************************************)
EXTENDS Planner

CONSTANTS
  Families,     (* by name, sets of requests to plan:                      *)
                (* [provided, requested, policy, options]                  *)
  CellTypes,    (* the types whose cells are modelled, a bound             *)
  Magnitudes,   (* the bits an integer may need                            *)
  MaxBatches    (* bound: batches in one stream                            *)

ASSUME CellAssumption ==
  /\ CellTypes \subseteq Numeric \union Strings \union {"Null"}
  /\ Magnitudes \subseteq Nat
  /\ MaxBatches \in Nat

ASSUME RequestAssumption ==
  \A family \in DOMAIN Families : \A r \in Families[family] : IsRequest(r)

VARIABLES
  request,
  caller,       (* "iterates" or "converts", "nobody" before the plan      *)
  engine,       (* whose apply_batch: "rust" or "python", or "nobody"      *)
  plan,         (* what planning answered                                  *)
  phase,        (* "requested", "rejected", "streaming", "raised",         *)
                (* "converted"                                             *)
  input,        (* the last batch decoded                                  *)
  output,       (* what apply_batch made of it                             *)
  decoded,      (* batches decoded                                         *)
  planned,      (* batches the planned stream handed on                    *)
  encoded       (* batches in the bytes convert() returned                 *)

vars == <<request, caller, engine, plan, phase, input, output, decoded, planned, encoded>>

-----------------------------------------------------------------------------
Cell(kind, negative, bits) == [kind |-> kind, negative |-> negative, bits |-> bits]

Null     == Cell("null", FALSE, 0)
Fraction == Cell("fraction", FALSE, 1)
Word     == Cell("word", FALSE, 0)
Altered  == Cell("altered", FALSE, 0)   \* what a cast that lost the value left

Integers == {Cell("integer", negative, bits) : negative \in BOOLEAN, bits \in Magnitudes}

Fits(type, cell) ==
  IF cell.negative THEN cell.bits <= Below(type) ELSE cell.bits <= Above(type)

Digits(cell) == [cell EXCEPT !.kind = "digits"]
Parsed(cell) == [cell EXCEPT !.kind = "integer"]

(* The cells a column of the type can hold, null apart.                    *)
Cells(type) ==
  CASE type = "Null"    -> {}
    [] type \in Floats  -> {c \in Integers : Fits(type, c)} \union {Fraction}
    [] type \in Strings -> {Digits(c) : c \in Integers} \union {Word}
    [] OTHER            -> {c \in Integers : Fits(type, c)}

Failed == Cell("failed", FALSE, 0)

(* Arrow's cast of a value to a type, with `safe: false`: a value the type *)
(* cannot hold is an error, a number a float can only approximate is not,  *)
(* and a fraction loses its fractional part.                               *)
StrictCast(cell, type) ==
  CASE cell.kind = "null"  -> Null
    [] type \in Strings /\ cell.kind \in {"digits", "word"} -> cell
    [] type \in Strings /\ cell.kind = "integer"  -> Digits(cell)
    [] type \in Strings /\ cell.kind = "fraction" -> Word
    [] type \notin Strings /\ cell.kind = "word"  -> Failed
    [] type \in Floats /\ cell.kind = "fraction"  -> cell
    [] type \notin Strings \union Floats /\ cell.kind = "fraction" -> Altered
    [] type \in Numeric /\ cell.kind \in {"integer", "digits"} ->
         IF Fits(type, cell) THEN Parsed(cell)
         ELSE IF type \in Floats THEN Altered ELSE Failed

(* The Rust core casts every mapping that way.  The Python package asks    *)
(* pyarrow for a safe cast unless the plan calls it lossy; a lossy one     *)
(* wraps or truncates and never fails.                                     *)
ApplyCast(who, kind, cell, type) ==
  IF who = "python" /\ kind = "lossy" /\ StrictCast(cell, type) = Failed
    THEN Altered
    ELSE StrictCast(cell, type)

-----------------------------------------------------------------------------
(* apply_batch: the columns of one batch, or the error it returns.         *)

\* An array of type Null has no null buffer: the Rust core counts no nulls in it.
NullSeen(mapping, row) ==
  /\ row[mapping.source] = Null
  /\ engine = "rust" => request.provided[mapping.source].type # "Null"

\* Mutant: the null check of the plan is not made.
ColumnUnchecked(mapping, row) ==
  IF mapping.cast = NoCast THEN row[mapping.source]
  ELSE ApplyCast(engine, mapping.cast, row[mapping.source],
                 request.requested[mapping.target].type)

Column(mapping, row) ==
  IF mapping.checkNulls /\ NullSeen(mapping, row) THEN Failed
  ELSE IF mapping.cast = NoCast THEN row[mapping.source]
  ELSE ApplyCast(engine, mapping.cast, row[mapping.source],
                 request.requested[mapping.target].type)

Constant(addition) == IF addition.null THEN Null ELSE Altered

Columns(row) ==
  {<<m.target, Column(m, row)>> : m \in plan.mappings}
    \union {<<a.target, Constant(a)>> : a \in plan.additions}

(* RecordBatch::try_new refuses a required column with nulls, as far as    *)
(* they count, which those of type Null do not; pyarrow's from_arrays does *)
(* not look.                                                               *)
Refused(columns) ==
  /\ engine = "rust"
  /\ \E column \in columns :
       LET field == request.requested[column[1]]
       IN column[2] = Null /\ ~field.nullable /\ field.type # "Null"

ApplyBatch(row) ==
  LET columns == Columns(row) IN
  IF (\E column \in columns : column[2] = Failed) \/ Refused(columns)
    THEN <<Failed>>
    ELSE [t \in DOMAIN request.requested |->
            (CHOOSE column \in columns : column[1] = t)[2]]

MayBeNull(field) == field.nullable \/ field.type = "Null"

(* The rows a decoder of the provided schema can hand over.  A column of   *)
(* type Null holds nulls, be it declared as required or not.               *)
Rows(schema) ==
  {row \in [DOMAIN schema -> UNION {Cells(schema[i].type) \union {Null} : i \in DOMAIN schema}] :
     \A i \in DOMAIN schema :
       row[i] \in Cells(schema[i].type) \union (IF MayBeNull(schema[i]) THEN {Null} ELSE {})}

-----------------------------------------------------------------------------
Init ==
  /\ \E family \in DOMAIN Families : request \in Families[family]
  /\ engine = "nobody" /\ caller = "nobody"
  /\ plan = Rejected("NotPlanned")
  /\ phase = "requested"
  /\ input = <<>> /\ output = <<>>
  /\ decoded = 0 /\ planned = 0 /\ encoded = 0

(* Whoever has a plan chooses how to use it.                               *)
FollowPlan ==
  /\ phase' = "streaming"
  /\ engine' \in {"rust", "python"}
  /\ caller' \in {"iterates", "converts"}

\* Mutant: a plan that was refused is followed all the same.
PlanRequestUnchecked ==
  /\ phase = "requested"
  /\ plan' \in Plans(request)
  /\ FollowPlan
  /\ UNCHANGED <<request, input, output, decoded, planned, encoded>>

(* Planning answers before any data is read.                               *)
PlanRequest ==
  /\ phase = "requested"
  /\ plan' \in Plans(request)
  /\ IF plan'.error = NoError THEN FollowPlan
                              ELSE phase' = "rejected" /\ UNCHANGED <<caller, engine>>
  /\ UNCHANGED <<request, input, output, decoded, planned, encoded>>

CellsModelled ==
  \A schema \in {request.provided, request.requested} :
    {schema[i].type : i \in DOMAIN schema} \subseteq CellTypes

(* PlannedBatchStream.__next__ on a batch with the provided fields.        *)
NextBatch(row) ==
  /\ phase = "streaming" /\ decoded < MaxBatches
  /\ input' = row
  /\ output' = ApplyBatch(row)
  /\ decoded' = decoded + 1
  /\ IF output' = <<Failed>>
       THEN phase' = "raised" /\ UNCHANGED planned
       ELSE planned' = planned + 1 /\ UNCHANGED phase
  /\ UNCHANGED <<request, caller, engine, plan, encoded>>

(* A decoder that finds the schema in its data may hand over another one,  *)
(* which apply_batch refuses.                                              *)
NextForeignBatch ==
  /\ phase = "streaming" /\ decoded < MaxBatches
  /\ input' = <<>>
  /\ output' = <<Failed>>
  /\ decoded' = decoded + 1
  /\ phase' = "raised"
  /\ UNCHANGED <<request, caller, engine, plan, planned, encoded>>

\* Mutant: convert() skips a batch that cannot be applied.
ContinueAnyway ==
  /\ phase = "raised"
  /\ phase' = "streaming"
  /\ output' = <<>>
  /\ UNCHANGED <<request, caller, engine, plan, input, decoded, planned, encoded>>

(* Nothing in the planned stream remembers that it raised: who iterates    *)
(* over it may go on, and gets the batches after the one that failed.      *)
Continue ==
  /\ phase = "raised" /\ caller = "iterates"
  /\ phase' = "streaming"
  /\ output' = <<>>
  /\ UNCHANGED <<request, caller, engine, plan, input, decoded, planned, encoded>>

(* The source ends: InterchangePlan.convert has all batches in a tuple,    *)
(* which the first error would have ended, and encodes them.               *)
Convert ==
  /\ phase = "streaming" /\ caller = "converts"
  /\ phase' = "converted"
  /\ encoded' = planned
  /\ UNCHANGED <<request, caller, engine, plan, input, output, decoded, planned>>

Next ==
  \/ PlanRequest
  \/ CellsModelled /\ \E row \in Rows(request.provided) : NextBatch(row)
  \/ NextForeignBatch
  \/ Continue
  \/ Convert

Spec == Init /\ [][Next]_vars

-----------------------------------------------------------------------------
Type(schema, i) == schema[i].type

TypeOK ==
  /\ phase \in {"requested", "rejected", "streaming", "raised", "converted"}
  /\ IF phase \in {"requested", "rejected"}
       THEN caller = "nobody" /\ engine = "nobody"
       ELSE caller \in {"iterates", "converts"} /\ engine \in {"rust", "python"}
  /\ phase \in {"requested", "rejected"} <=> plan.error # NoError
  /\ plan.mappings \subseteq [source : DOMAIN request.provided, target : DOMAIN request.requested,
                             cast : CastKinds \union {NoCast}, checkNulls : BOOLEAN]
  /\ plan.additions \subseteq [target : DOMAIN request.requested, null : BOOLEAN]
  /\ decoded \in 0 .. MaxBatches /\ planned \in 0 .. decoded /\ encoded \in 0 .. planned

Planned == plan.error = NoError

(* A cast planned as safe keeps every number: the target type holds all    *)
(* the numbers of the source type (CastRegistry::classify).                *)
SafeCastsExact ==
  \A mapping \in plan.mappings :
    LET source == Type(request.provided, mapping.source)
        target == Type(request.requested, mapping.target)
    IN mapping.cast = "safe" /\ source \in Numeric => Represents(target, source)

(* Every requested field is filled, and filled once, so apply_batch never  *)
(* unwraps a column that is missing nor overwrites one.                    *)
EveryTargetOnce ==
  Planned =>
    \A t \in DOMAIN request.requested :
      Cardinality({mapping \in plan.mappings : mapping.target = t})
        + Cardinality({addition \in plan.additions : addition.target = t}) = 1

(* No provided data is left out in silence: except under projection, every *)
(* provided field is mapped or was dropped by name; and what fills a field *)
(* is the provided field that carries its name after the renames.          *)
NothingIgnored ==
  Planned =>
    /\ \A mapping \in plan.mappings :
         request.requested[mapping.target].name
           = Renamed(request.options, request.provided[mapping.source].name)
    /\ \A i \in DOMAIN request.provided :
         \/ request.policy = "projection"
         \/ request.provided[i].name \in request.options.drop
         \/ \E mapping \in plan.mappings : mapping.source = i

Names(schema) == {schema[i].name : i \in DOMAIN schema}
UniqueNames(schema) == Cardinality(Names(schema)) = Len(schema)

Accepts(policy) == PlanFields(request.provided, request.requested, policy).error = NoError

Mappings(policy) == PlanFields(request.provided, request.requested, policy).mappings

(* The policies are ordered: what exact accepts, the others accept and     *)
(* plan the same way (projection only when no name is twice), and coerce   *)
(* plans as compatible does what compatible accepts.                       *)
StricterPlansAgree ==
  phase = "requested" =>
    /\ Accepts("exact") =>
         \A policy \in {"compatible", "coerce"} :
           Accepts(policy) /\ Mappings(policy) = Mappings("exact")
    /\ Accepts("exact") /\ UniqueNames(request.provided) =>
         Accepts("projection") /\ Mappings("projection") = Mappings("exact")
    /\ Accepts("compatible") =>
         Accepts("coerce") /\ Mappings("coerce") = Mappings("compatible")

(* Field operations that say nothing, renames of fields to their own name, *)
(* switch from pairing by position to matching by name: a plan that was    *)
(* accepted stays accepted, and stays the same.                            *)
ByNameAgreesWithPosition ==
  LET shared == Names(request.provided) \intersect Names(request.requested)
      idle   == [NoOptions EXCEPT !.renames = [name \in shared |-> name]]
  IN phase = "requested" /\ request.policy # "exact" /\ UniqueNames(request.provided)
       /\ Accepts(request.policy)
     => Plans([request EXCEPT !.options = idle])
          = {PlanFields(request.provided, request.requested, request.policy)}

Emitted == phase \in {"streaming", "converted"} /\ output # <<>>

(* A field the plan fills from an array of type Null, be it a provided     *)
(* column or a default: it holds nothing but nulls.                        *)
NullsOnly(t) ==
  \/ \E mapping \in plan.mappings :
       mapping.target = t /\ Type(request.provided, mapping.source) = "Null"
  \/ \E addition \in plan.additions :
       /\ addition.target = t
       /\ request.options.defaults[request.requested[t].name].type = "Null"

(* A batch the planned stream hands on conforms to the requested schema:   *)
(* each field has a value of its type, or null where the field allows it.  *)
(* The only exception is there before any data is: a required field that   *)
(* is filled from an array of type Null gets its nulls in Python, and in   *)
(* Rust where it is of type Null itself.  No null of another column, and   *)
(* no default that has a type, ends up in a required field, whatever the   *)
(* policy, the casts and the engine.                                       *)
OutputConforms ==
  Emitted =>
    /\ DOMAIN output = DOMAIN request.requested
    /\ \A t \in DOMAIN output :
         \/ output[t] \in Cells(Type(request.requested, t)) \union {Altered}
         \/ output[t] = Null /\ request.requested[t].nullable
         \/ /\ output[t] = Null /\ NullsOnly(t)
            /\ engine = "rust" => Type(request.requested, t) = "Null"

(* Under any policy but coerce, a field that may be cast only safely, or   *)
(* not at all, hands its values on as they are, whatever the other fields  *)
(* do; and when all fields are of that kind the only batches refused are   *)
(* those the Rust core cannot build, for a required field that was planned *)
(* to hold nothing but nulls.                                              *)
Guarded(name) ==
  /\ request.policy # "coerce"
  /\ name \in DOMAIN request.options.casts => request.options.casts[name] = "safe"

SafePlansKeepValues ==
  /\ Emitted =>
       \A mapping \in plan.mappings :
         Guarded(request.requested[mapping.target].name)
           => output[mapping.target] = input[mapping.source]
  /\ output = <<Failed>> /\ input # <<>> =>
       \E t \in DOMAIN request.requested :
         \/ ~Guarded(request.requested[t].name)
         \/ engine = "rust" /\ NullsOnly(t) /\ ~request.requested[t].nullable

(* "`None` adds an all-null field, which must be nullable": no plan adds a *)
(* field of nulls to a schema that requires its values.                    *)
NullDefaultsNeedNullable ==
  \A addition \in plan.additions :
    addition.null => request.requested[addition.target].nullable

(* convert() is all or nothing: what it encodes is every batch decoded, in *)
(* spite of any error on the way.                                          *)
ConvertsAllOrNothing == phase = "converted" => encoded = decoded
=============================================================================
