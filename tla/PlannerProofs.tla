---------------------------- MODULE PlannerProofs ----------------------------
(***************************************************************************)
(* For schemas of any length, any field operations and every policy: when  *)
(* a plan is accepted, and what its mappings and additions then are.       *)
(***************************************************************************)
EXTENDS Planner, FiniteSetTheorems, WellFoundedInduction, TLAPS

(* A cast that is classified as safe keeps every number: whichever of the  *)
(* rules of CastRegistry::classify comes first.                            *)
LEMMA SafeCastsRepresent ==
  ASSUME NEW source \in Numeric, NEW target, Classify(source, target) = "safe"
  PROVE  Represents(target, source)
<1>1. source # target /\ <<source, target>> \in SafeCasts
  BY DEF Classify, NoCast
<1>2. source # "Null"
  BY DEF Numeric, Signed, Unsigned, Floats, SignedRank, UnsignedRank
<1>3. CASE <<source, target>> \in SignedWidening
  BY <1>3 DEF SignedWidening, Signed, SignedRank, Represents, Above, Below, Bits, Unsigned,
              UnsignedRank, Floats
<1>4. CASE <<source, target>> \in UnsignedWidening
  BY <1>4 DEF UnsignedWidening, Signed, SignedRank, Represents, Above, Below, Bits, Unsigned,
              UnsignedRank, Floats
<1>5. CASE <<source, target>> \in UnsignedIntoSigned
  BY <1>5 DEF UnsignedIntoSigned, Signed, SignedRank, Represents, Above, Below, Bits, Unsigned,
              UnsignedRank, Floats
<1>6. CASE <<source, target>> \in
             {<<"Float16", "Float32">>, <<"Float16", "Float64">>, <<"Float32", "Float64">>}
  BY <1>6 DEF Signed, SignedRank, Represents, Above, Below, Bits, Unsigned, UnsignedRank, Floats
<1>7. <<source, target>> \notin {<<"Utf8", "LargeUtf8">>, <<"Date32", "Date64">>}
  BY DEF Numeric, Signed, Unsigned, Floats, SignedRank, UnsignedRank
<1> QED
  BY <1>1, <1>2, <1>3, <1>4, <1>5, <1>6, <1>7 DEF SafeCasts

(* A set of numbers that is not empty has its smallest.                    *)
LEMMA MinExists ==
  ASSUME NEW S \in SUBSET Nat, S # {}
  PROVE  Min(S) \in S
<1> DEFINE less == {ss \in Nat \X Nat : ss[1] < ss[2]}
<1>1. IsWellFoundedOn(less, Nat)
  BY NatLessThanWellFounded DEF OpToRel
<1>2. \E n \in S : \A m \in S : <<m, n>> \notin less
  <2> HIDE DEF less
  <2> QED
    BY <1>1, WFMin
<1>3. PICK n \in S : \A m \in S : <<m, n>> \notin less
  BY <1>2
<1>4. ASSUME NEW m \in S PROVE n <= m
  <2>1. <<m, n>> \notin less /\ m \in Nat /\ n \in Nat
    BY <1>3
  <2>2. ~(m < n)
    BY <2>1
  <2> QED
    BY <2>1, <2>2
<1> QED
  BY <1>4 DEF Min

(* There is no error if and only if no check gives one.                    *)
LEMMA NoFirstError ==
  ASSUME NEW errors, Len(errors) \in Nat
  PROVE  FirstError(errors) = NoError <=> \A i \in 1 .. Len(errors) : errors[i] = NoError
<1> DEFINE wrong == {i \in 1 .. Len(errors) : errors[i] # NoError}
           first == SelectInSeq(errors, LAMBDA error : error # NoError)
<1>1. first = IF wrong # {} THEN Min(wrong) ELSE 0
  BY DEF SelectInSeq
<1>2. FirstError(errors) = IF first = 0 THEN NoError ELSE errors[first]
  BY DEF FirstError
<1> HIDE DEF first
<1>3. wrong # {} => Min(wrong) \in wrong
  <2>1. wrong \in SUBSET Nat
    OBVIOUS
  <2> QED
    BY <2>1, MinExists
<1> QED
  BY <1>1, <1>2, <1>3

(* Every element of a tuple of checks passes when none of them fails.      *)
LEMMA NoFailure ==
  ASSUME NEW condition, NEW error, error # NoError
  PROVE  FailsWith(condition, error) = NoError <=> ~condition
  BY DEF FailsWith

(* Fields have a name, a type and a nullability.                           *)
LEMMA FieldsOf ==
  ASSUME NEW schema \in Seq(Fields)
  PROVE  /\ Len(schema) \in Nat /\ DOMAIN schema = 1 .. Len(schema)
         /\ \A i \in DOMAIN schema :
              schema[i].type \in DataTypes /\ schema[i].nullable \in BOOLEAN
<1>1. ASSUME NEW i \in DOMAIN schema PROVE schema[i] \in Fields
  OBVIOUS
<1>2. ASSUME NEW field \in Fields
      PROVE  field.type \in DataTypes /\ field.nullable \in BOOLEAN
  BY Zenon DEF Fields
<1> QED
  BY <1>1, <1>2

-----------------------------------------------------------------------------
(* Pairing by position accepts schemas of the same length whose names      *)
(* agree, if there is nothing else wrong with a pair.                      *)
LEMMA PairAccepts ==
  ASSUME NEW provided \in Seq(Fields), NEW requested \in Seq(Fields), NEW mappings, NEW errors,
         NEW Errors, \A i \in DOMAIN requested : errors[i] \in Seq(Errors)
  PROVE  LET pair == Pair(provided, requested, errors, mappings) IN
         /\ pair.error = NoError <=>
              /\ Len(provided) = Len(requested)
              /\ \A i \in DOMAIN requested :
                   /\ provided[i].name = requested[i].name
                   /\ \A k \in 1 .. Len(errors[i]) : errors[i][k] = NoError
         /\ pair.error = NoError => pair = Accepted(mappings, {})
<1> DEFINE checks(i) ==
             <<FailsWith(provided[i].name # requested[i].name, "FieldName")>> \o errors[i]
           verdicts == [i \in DOMAIN requested |-> FirstError(checks(i))]
           pair == Pair(provided, requested, errors, mappings)
<1>1. Len(requested) \in Nat /\ DOMAIN requested = 1 .. Len(requested)
  BY FieldsOf
<1>2. ASSUME NEW i \in DOMAIN requested
      PROVE  FirstError(checks(i)) = NoError <=>
               /\ provided[i].name = requested[i].name
               /\ \A k \in 1 .. Len(errors[i]) : errors[i][k] = NoError
  <2> DEFINE name == FailsWith(provided[i].name # requested[i].name, "FieldName")
  <2>1. errors[i] \in Seq(Errors)
    OBVIOUS
  <2>2. <<name>> \in Seq(Errors \union {name}) /\ errors[i] \in Seq(Errors \union {name})
    <3> HIDE DEF name
    <3> QED
      BY <2>1
  <2>3. name = NoError <=> provided[i].name = requested[i].name
    BY DEF FailsWith, NoError
  <2>4. checks(i) = <<name>> \o errors[i]
    OBVIOUS
  <2> HIDE DEF name, checks
  <2>5. /\ Len(checks(i)) = Len(errors[i]) + 1 /\ checks(i)[1] = name
        /\ \A k \in 1 .. Len(errors[i]) : checks(i)[k + 1] = errors[i][k]
    BY <2>1, <2>2, <2>4
  <2>6. Len(errors[i]) \in Nat
    BY <2>1
  <2>7. FirstError(checks(i)) = NoError <=>
          \A k \in 1 .. Len(checks(i)) : checks(i)[k] = NoError
    BY <2>5, <2>6, NoFirstError
  <2>8. (\A k \in 1 .. Len(checks(i)) : checks(i)[k] = NoError) <=>
          name = NoError /\ \A k \in 1 .. Len(errors[i]) : errors[i][k] = NoError
    <3>1. ASSUME NEW k \in 1 .. Len(checks(i))
          PROVE  k = 1 \/ (k - 1 \in 1 .. Len(errors[i]) /\ checks(i)[k] = errors[i][k - 1])
      <4>1. k # 1 => k - 1 \in 1 .. Len(errors[i])
        BY <2>5, <2>6
      <4>2. k # 1 => checks(i)[(k - 1) + 1] = errors[i][k - 1]
        BY <2>5, <4>1
      <4> QED
        BY <4>1, <4>2
    <3>2. \A k \in 1 .. Len(errors[i]) : k + 1 \in 1 .. Len(checks(i))
      BY <2>5, <2>6
    <3>3. 1 \in 1 .. Len(checks(i))
      BY <2>5, <2>6
    <3> QED
      BY <2>5, <3>1, <3>2, <3>3
  <2> QED
    BY <2>3, <2>7, <2>8
<1>3. FirstError(verdicts) = NoError <=>
        \A i \in DOMAIN requested : FirstError(checks(i)) = NoError
  <2> HIDE DEF checks
  <2>1. Len(verdicts) = Len(requested)
    BY <1>1
  <2> QED
    BY <1>1, <2>1, NoFirstError
<1>4. pair = IF Len(provided) # Len(requested) THEN Rejected("FieldCount")
             ELSE IF FirstError(verdicts) # NoError THEN Rejected(FirstError(verdicts))
             ELSE Accepted(mappings, {})
  BY DEF Pair
<1> HIDE DEF checks, verdicts, pair
<1>5. pair.error = NoError <=> Len(provided) = Len(requested) /\ FirstError(verdicts) = NoError
  BY <1>4 DEF Rejected, Accepted, NoError
<1>6. pair.error = NoError => pair = Accepted(mappings, {})
  BY <1>4, <1>5
<1> QED
  BY <1>2, <1>3, <1>5, <1>6 DEF pair

(* The fields of the two schemas correspond by position.                   *)
Paired(provided, requested) ==
  /\ Len(provided) = Len(requested)
  /\ \A i \in DOMAIN requested : provided[i].name = requested[i].name

(* Three checks that are listed in two parts.                              *)
LEMMA ThreeChecks ==
  ASSUME NEW Errors, NEW a \in Errors, NEW b \in Errors, NEW c \in Errors
  PROVE  LET checks == <<a, b>> \o <<c>> IN
         /\ checks \in Seq(Errors)
         /\ (\A k \in 1 .. Len(checks) : checks[k] = NoError) <=>
              a = NoError /\ b = NoError /\ c = NoError
<1> DEFINE checks == <<a, b>> \o <<c>>
<1>1. <<a, b>> \in Seq(Errors) /\ <<c>> \in Seq(Errors)
  OBVIOUS
<1>2. Len(checks) = 3 /\ checks[1] = a /\ checks[2] = b /\ checks[3] = c
  BY <1>1
<1>3. checks \in Seq(Errors)
  BY <1>1
<1> HIDE DEF checks
<1> QED
  BY <1>2, <1>3 DEF checks

(* An exact plan is accepted for schemas that are equal but for the        *)
(* nullability no type of the fields shows, and maps without a cast.       *)
LEMMA ExactAccepts ==
  ASSUME NEW provided \in Seq(Fields), NEW requested \in Seq(Fields)
  PROVE  LET plan == PlanExact(provided, requested) IN
         /\ plan.error = NoError <=>
              /\ Paired(provided, requested)
              /\ \A i \in DOMAIN requested :
                   /\ provided[i].type = requested[i].type
                   /\ provided[i].nullable = requested[i].nullable
         /\ plan.error = NoError =>
              plan = Accepted({Mapping(i, i, NoCast, FALSE) : i \in DOMAIN requested}, {})
<1> DEFINE type(i)  == FailsWith(provided[i].type # requested[i].type, "TypeMismatch")
           null(i)  == FailsWith(provided[i].nullable /\ ~requested[i].nullable, "Nullability")
           exact(i) == FailsWith(provided[i].nullable # requested[i].nullable, "ExactNullability")
           errors   == [i \in DOMAIN requested |-> <<type(i), null(i)>> \o <<exact(i)>>]
           mappings == {Mapping(i, i, NoCast, FALSE) : i \in DOMAIN requested}
           Errors   == {NoError, "TypeMismatch", "Nullability", "ExactNullability"}
<1>1. PlanExact(provided, requested) = Pair(provided, requested, errors, mappings)
  BY DEF PlanExact, FieldErrors
<1>2. ASSUME NEW i \in DOMAIN requested
      PROVE  /\ errors[i] \in Seq(Errors)
             /\ (\A k \in 1 .. Len(errors[i]) : errors[i][k] = NoError) <=>
                  type(i) = NoError /\ null(i) = NoError /\ exact(i) = NoError
  <2>1. type(i) \in Errors /\ null(i) \in Errors /\ exact(i) \in Errors
    BY DEF FailsWith
  <2>2. errors[i] = <<type(i), null(i)>> \o <<exact(i)>>
    OBVIOUS
  <2> HIDE DEF type, null, exact, Errors, errors
  <2> QED
    BY <2>1, <2>2, ThreeChecks
<1>3. ASSUME NEW i \in DOMAIN requested
      PROVE  type(i) = NoError /\ null(i) = NoError /\ exact(i) = NoError <=>
               /\ provided[i].type = requested[i].type
               /\ provided[i].nullable = requested[i].nullable
  BY DEF FailsWith, NoError
<1> HIDE DEF type, null, exact, Errors, errors, mappings
<1>4. LET pair == Pair(provided, requested, errors, mappings) IN
      /\ pair.error = NoError <=>
           /\ Len(provided) = Len(requested)
           /\ \A i \in DOMAIN requested :
                /\ provided[i].name = requested[i].name
                /\ \A k \in 1 .. Len(errors[i]) : errors[i][k] = NoError
      /\ pair.error = NoError => pair = Accepted(mappings, {})
  BY <1>2, PairAccepts
<1> QED
  BY <1>1, <1>2, <1>3, <1>4 DEF Paired, mappings

(* A compatible plan is accepted when no required field is given from a    *)
(* nullable one and every type that changes changes by a safe cast.        *)
LEMMA CompatibleAccepts ==
  ASSUME NEW provided \in Seq(Fields), NEW requested \in Seq(Fields)
  PROVE  LET plan == PlanCompatible(provided, requested) IN
         /\ plan.error = NoError <=>
              /\ Paired(provided, requested)
              /\ \A i \in DOMAIN requested :
                   /\ ~(provided[i].nullable /\ ~requested[i].nullable)
                   /\ \/ provided[i].type = requested[i].type
                      \/ CastOf(provided[i], requested[i]) = "safe"
         /\ plan.error = NoError =>
              plan = Accepted({Mapping(i, i, CastOf(provided[i], requested[i]), FALSE) :
                                 i \in DOMAIN requested}, {})
<1> DEFINE null(i)  == FailsWith(provided[i].nullable /\ ~requested[i].nullable, "Nullability")
           cast(i)  == FailsWith(/\ provided[i].type # requested[i].type
                                 /\ CastOf(provided[i], requested[i]) # "safe", "UnsafeCast")
           errors   == [i \in DOMAIN requested |-> <<null(i), cast(i)>>]
           mappings == {Mapping(i, i, CastOf(provided[i], requested[i]), FALSE) :
                          i \in DOMAIN requested}
           Errors   == {NoError, "Nullability", "UnsafeCast"}
<1>1. PlanCompatible(provided, requested) = Pair(provided, requested, errors, mappings)
  BY DEF PlanCompatible
<1>2. ASSUME NEW i \in DOMAIN requested
      PROVE  /\ errors[i] \in Seq(Errors)
             /\ (\A k \in 1 .. Len(errors[i]) : errors[i][k] = NoError) <=>
                  null(i) = NoError /\ cast(i) = NoError
  <2>1. null(i) \in Errors /\ cast(i) \in Errors
    BY DEF FailsWith
  <2>2. errors[i] = <<null(i), cast(i)>>
    OBVIOUS
  <2> HIDE DEF null, cast, Errors, errors
  <2> QED
    BY <2>1, <2>2
<1>3. ASSUME NEW i \in DOMAIN requested
      PROVE  null(i) = NoError /\ cast(i) = NoError <=>
               /\ ~(provided[i].nullable /\ ~requested[i].nullable)
               /\ \/ provided[i].type = requested[i].type
                  \/ CastOf(provided[i], requested[i]) = "safe"
  BY DEF FailsWith, NoError
<1> HIDE DEF null, cast, Errors, errors, mappings
<1>4. LET pair == Pair(provided, requested, errors, mappings) IN
      /\ pair.error = NoError <=>
           /\ Len(provided) = Len(requested)
           /\ \A i \in DOMAIN requested :
                /\ provided[i].name = requested[i].name
                /\ \A k \in 1 .. Len(errors[i]) : errors[i][k] = NoError
      /\ pair.error = NoError => pair = Accepted(mappings, {})
  BY <1>2, PairAccepts
<1> QED
  BY <1>1, <1>2, <1>3, <1>4 DEF Paired, mappings

(* A coerce plan is accepted when every type that changes has a cast, and  *)
(* leaves it to execution to look for the nulls a field must not have.     *)
LEMMA CoerceAccepts ==
  ASSUME NEW provided \in Seq(Fields), NEW requested \in Seq(Fields)
  PROVE  LET plan == PlanCoerce(provided, requested) IN
         /\ plan.error = NoError <=>
              /\ Paired(provided, requested)
              /\ \A i \in DOMAIN requested :
                   \/ provided[i].type = requested[i].type
                   \/ CastOf(provided[i], requested[i]) # NoCast
         /\ plan.error = NoError =>
              plan = Accepted({Mapping(i, i, CastOf(provided[i], requested[i]),
                                       provided[i].nullable /\ ~requested[i].nullable) :
                                 i \in DOMAIN requested}, {})
<1> DEFINE cast(i)  == FailsWith(/\ provided[i].type # requested[i].type
                                 /\ CastOf(provided[i], requested[i]) = NoCast,
                                 "UnsupportedCast")
           errors   == [i \in DOMAIN requested |-> <<cast(i)>>]
           mappings == {Mapping(i, i, CastOf(provided[i], requested[i]),
                                provided[i].nullable /\ ~requested[i].nullable) :
                          i \in DOMAIN requested}
           Errors   == {NoError, "UnsupportedCast"}
<1>1. PlanCoerce(provided, requested) = Pair(provided, requested, errors, mappings)
  BY DEF PlanCoerce
<1>2. ASSUME NEW i \in DOMAIN requested
      PROVE  /\ errors[i] \in Seq(Errors)
             /\ (\A k \in 1 .. Len(errors[i]) : errors[i][k] = NoError) <=> cast(i) = NoError
  <2>1. cast(i) \in Errors
    BY DEF FailsWith
  <2>2. errors[i] = <<cast(i)>>
    OBVIOUS
  <2> HIDE DEF cast, Errors, errors
  <2> QED
    BY <2>1, <2>2
<1>3. ASSUME NEW i \in DOMAIN requested
      PROVE  cast(i) = NoError <=> \/ provided[i].type = requested[i].type
                                   \/ CastOf(provided[i], requested[i]) # NoCast
  BY DEF FailsWith, NoError
<1> HIDE DEF cast, Errors, errors, mappings
<1>4. LET pair == Pair(provided, requested, errors, mappings) IN
      /\ pair.error = NoError <=>
           /\ Len(provided) = Len(requested)
           /\ \A i \in DOMAIN requested :
                /\ provided[i].name = requested[i].name
                /\ \A k \in 1 .. Len(errors[i]) : errors[i][k] = NoError
      /\ pair.error = NoError => pair = Accepted(mappings, {})
  BY <1>2, PairAccepts
<1> QED
  BY <1>1, <1>2, <1>3, <1>4 DEF Paired, mappings

-----------------------------------------------------------------------------
(* Fields that are found by name.                                          *)

(* A set of positions in a schema is empty, or has one element, or more.   *)
LEMMA OneOrMore ==
  ASSUME NEW schema \in Seq(Fields), NEW S \in SUBSET DOMAIN schema
  PROVE  /\ IsFiniteSet(S) /\ Cardinality(S) \in Nat
         /\ Cardinality(S) = 0 <=> S = {}
         /\ Cardinality(S) = 1 <=> \E i \in DOMAIN schema : S = {i}
         /\ Cardinality(S) > 1 <=> S # {} /\ ~ \E i \in DOMAIN schema : S = {i}
<1>1. Len(schema) \in Nat /\ DOMAIN schema = 1 .. Len(schema)
  BY FieldsOf
<1>2. IsFiniteSet(DOMAIN schema)
  BY <1>1, FS_Interval
<1>3. IsFiniteSet(S)
  BY <1>2, FS_Subset
<1>4. Cardinality(S) \in Nat
  BY <1>3, FS_CardinalityType
<1>5. Cardinality(S) = 0 <=> S = {}
  BY <1>3, FS_EmptySet
<1>6. Cardinality(S) = 1 <=> \E i \in DOMAIN schema : S = {i}
  <2>1. Cardinality(S) = 1 <=> \E i : S = {i}
    BY <1>3, FS_Singleton
  <2> QED
    BY <2>1
<1> QED
  BY <1>3, <1>4, <1>5, <1>6

(* A projection is accepted when every requested field is found once, with *)
(* its type, and is not required while the provided one is nullable.       *)
LEMMA ProjectionAccepts ==
  ASSUME NEW provided \in Seq(Fields), NEW requested \in Seq(Fields)
  PROVE  LET plan == PlanProjection(provided, requested)
             sources(t) == {i \in DOMAIN provided : provided[i].name = requested[t].name}
         IN
         /\ plan.error = NoError <=>
              \A t \in DOMAIN requested :
                \E i \in DOMAIN provided :
                  /\ sources(t) = {i}
                  /\ provided[i].type = requested[t].type
                  /\ ~(provided[i].nullable /\ ~requested[t].nullable)
         /\ plan.error = NoError =>
              plan = Accepted({Mapping(CHOOSE i \in sources(t) : TRUE, t, NoCast, FALSE) :
                                 t \in DOMAIN requested}, {})
<1> DEFINE sources(t) == {i \in DOMAIN provided : provided[i].name = requested[t].name}
           source(t)  == CHOOSE i \in sources(t) : TRUE
           fieldErrors(t) == FieldErrors(provided[source(t)], requested[t])
           verdict(t) ==
             IF sources(t) = {} THEN "MissingField"
             ELSE IF Cardinality(sources(t)) > 1 THEN "AmbiguousField"
             ELSE FirstError(fieldErrors(t))
           verdicts == [t \in DOMAIN requested |-> verdict(t)]
           mappings == {Mapping(source(t), t, NoCast, FALSE) : t \in DOMAIN requested}
           plan == PlanProjection(provided, requested)
<1>1. plan = IF FirstError(verdicts) # NoError THEN Rejected(FirstError(verdicts))
             ELSE Accepted(mappings, {})
  BY DEF PlanProjection
<1>2. ASSUME NEW t \in DOMAIN requested
      PROVE  verdict(t) = NoError <=>
               \E i \in DOMAIN provided :
                 /\ sources(t) = {i}
                 /\ provided[i].type = requested[t].type
                 /\ ~(provided[i].nullable /\ ~requested[t].nullable)
  <2>1. Cardinality(sources(t)) > 1 <=>
          sources(t) # {} /\ ~ \E i \in DOMAIN provided : sources(t) = {i}
    BY OneOrMore
  <2>2. ASSUME NEW i \in DOMAIN provided, sources(t) = {i}
        PROVE  FirstError(fieldErrors(t)) = NoError <=>
                 /\ provided[i].type = requested[t].type
                 /\ ~(provided[i].nullable /\ ~requested[t].nullable)
    <3>1. source(t) = i
      BY <2>2
    <3> DEFINE type == FailsWith(provided[i].type # requested[t].type, "TypeMismatch")
               null == FailsWith(provided[i].nullable /\ ~requested[t].nullable, "Nullability")
    <3>2. fieldErrors(t) = <<type, null>>
      BY <3>1 DEF FieldErrors
    <3> HIDE DEF type, null, fieldErrors, source
    <3> DEFINE errors == fieldErrors(t)
    <3>3. Len(errors) = 2 /\ errors[1] = type /\ errors[2] = null
      BY <3>2
    <3> HIDE DEF errors
    <3>4. FirstError(errors) = NoError <=> type = NoError /\ null = NoError
      <4>1. FirstError(errors) = NoError <=> \A k \in 1 .. Len(errors) : errors[k] = NoError
        <5>1. Len(errors) \in Nat
          BY <3>3
        <5> QED
          BY <5>1, NoFirstError, Zenon
      <4>2. 1 .. Len(errors) = {1, 2}
        BY <3>3
      <4> QED
        BY <3>3, <4>1, <4>2, Zenon
    <3>5. FirstError(fieldErrors(t)) = FirstError(errors)
      BY DEF errors
    <3> QED
      BY <3>4, <3>5 DEF type, null, FailsWith, NoError
  <2> HIDE DEF sources, fieldErrors
  <2> QED
    BY <2>1, <2>2 DEF NoError
<1> HIDE DEF verdict, mappings, plan
<1>3. FirstError(verdicts) = NoError <=> \A t \in DOMAIN requested : verdict(t) = NoError
  <2>1. Len(requested) \in Nat /\ DOMAIN requested = 1 .. Len(requested)
    BY FieldsOf
  <2>2. Len(verdicts) = Len(requested)
    BY <2>1
  <2> QED
    BY <2>1, <2>2, NoFirstError
<1> HIDE DEF verdicts
<1>4. plan.error = NoError <=> FirstError(verdicts) = NoError
  BY <1>1 DEF Rejected, Accepted, NoError
<1>5. plan.error = NoError => plan = Accepted(mappings, {})
  BY <1>1, <1>4
<1> QED
  BY <1>2, <1>3, <1>4, <1>5 DEF plan, mappings

-----------------------------------------------------------------------------
(* Plans with field operations.                                            *)

(* A cast is of one of the kinds, and there is none between equal types.   *)
LEMMA CastsOf ==
  ASSUME NEW source, NEW target
  PROVE  /\ CastOf(source, target) \in CastKinds \union {NoCast}
         /\ source.type = target.type => CastOf(source, target) = NoCast
BY DEF CastOf, Classify, CastKinds, NoCast

(* A field may be mapped when its type is kept, or cast by a cast that is  *)
(* allowed, and no policy but coerce fills a required field from a         *)
(* nullable one.                                                           *)
LEMMA MappingAccepts ==
  ASSUME NEW source, NEW target, NEW policy, NEW allowed
  PROVE  MappingError(source, target, policy, allowed) = NoError <=>
           /\ \/ source.type = target.type
              \/ /\ allowed # NoCast
                 /\ CastOf(source, target) # NoCast
                 /\ ~(CastRank[CastOf(source, target)] > CastRank[allowed])
           /\ ~(source.nullable /\ ~target.nullable /\ policy # "coerce")
<1> DEFINE cast  == CastOf(source, target)
           type  == FailsWith(allowed = NoCast, "TypeMismatch")
           kind  == FailsWith(cast = NoCast, "UnsupportedCast")
           rank  == FailsWith(cast # NoCast /\ allowed # NoCast
                                /\ CastRank[cast] > CastRank[allowed], "CastNotAllowed")
           null  == FailsWith(source.nullable /\ ~target.nullable /\ policy # "coerce",
                              "Nullability")
           casts == CastErrors(source, target, allowed)
           errors == casts \o <<null>>
           Errors == {type, kind, rank, null}
<1>1. MappingError(source, target, policy, allowed) = FirstError(errors)
  BY DEF MappingError
<1>2. casts = IF source.type = target.type THEN <<>> ELSE <<type, kind, rank>>
  BY DEF CastErrors
<1>3. /\ type = NoError <=> allowed # NoCast
      /\ kind = NoError <=> cast # NoCast
      /\ rank = NoError <=> ~(cast # NoCast /\ allowed # NoCast
                                /\ CastRank[cast] > CastRank[allowed])
      /\ null = NoError <=> ~(source.nullable /\ ~target.nullable /\ policy # "coerce")
  BY DEF FailsWith, NoError
<1>4. CASE source.type = target.type
  <2>1. errors = <<>> \o <<null>>
    BY <1>2, <1>4
  <2> HIDE DEF null, errors, Errors
  <2>2. <<null>> \in Seq({null}) /\ <<>> \in Seq({null})
    OBVIOUS
  <2>3. Len(errors) = 1 /\ errors[1] = null
    BY <2>1, <2>2
  <2>4. FirstError(errors) = NoError <=> null = NoError
    BY <2>3, NoFirstError
  <2> QED
    BY <1>1, <1>3, <1>4, <2>4 DEF null
<1>5. CASE source.type # target.type
  <2>1. errors = <<type, kind, rank>> \o <<null>>
    BY <1>2, <1>5
  <2> HIDE DEF type, kind, rank, null, errors
  <2>2. <<type, kind, rank>> \in Seq(Errors) /\ <<null>> \in Seq(Errors)
    OBVIOUS
  <2> HIDE DEF Errors
  <2>3. /\ Len(errors) = 4 /\ errors[1] = type /\ errors[2] = kind
        /\ errors[3] = rank /\ errors[4] = null
    BY <2>1, <2>2
  <2>4. FirstError(errors) = NoError <=>
          type = NoError /\ kind = NoError /\ rank = NoError /\ null = NoError
    BY <2>3, NoFirstError
  <2> QED
    BY <1>1, <1>3, <1>5, <2>4
<1> QED
  BY <1>4, <1>5

(* What may fill a requested field: the one provided field that carries    *)
(* its name, if it has no default, or else its default.                    *)
LEMMA TargetAccepts ==
  ASSUME NEW provided \in Seq(Fields), NEW target, NEW policy, NEW options
  PROVE  LET sources    == Sources(provided, options, target.name)
             hasDefault == target.name \in DOMAIN options.defaults
         IN TargetError(provided, target, policy, options) = NoError <=>
              \/ /\ sources = {} /\ hasDefault
                 /\ AdditionError(target, options.defaults[target.name]) = NoError
              \/ /\ ~hasDefault
                 /\ \E i \in DOMAIN provided :
                      /\ sources = {i}
                      /\ MappingError(provided[i], target, policy,
                                      AllowedCast(policy, options, target.name)) = NoError
<1> DEFINE sources    == Sources(provided, options, target.name)
           hasDefault == target.name \in DOMAIN options.defaults
<1>1. sources \in SUBSET DOMAIN provided
  BY DEF Sources, Kept
<1>2. Cardinality(sources) > 1 <=> sources # {} /\ ~ \E i \in DOMAIN provided : sources = {i}
  BY <1>1, OneOrMore
<1> HIDE DEF sources
<1>3. \A i : sources = {i} => (CHOOSE j \in sources : TRUE) = i
  OBVIOUS
<1> QED
  BY <1>2, <1>3 DEF TargetError, NoError, sources

(* The default a requested field is given.                                 *)
DefaultOf(request, t) == request.options.defaults[request.requested[t].name]

(* The mapping that carries provided field i into requested field t, and   *)
(* the addition that gives requested field t its default.                  *)
Carry(request, i, t) ==
  Mapping(i, t, CastOf(request.provided[i], request.requested[t]),
          request.provided[i].nullable /\ ~request.requested[t].nullable)

Given(request, t) ==
  [target |-> t, null |-> request.options.defaults[request.requested[t].name].null]

(* The requested fields that a provided field has the name of, and those   *)
(* that have a default.                                                    *)
FieldSources(request, t) ==
  Sources(request.provided, request.options, request.requested[t].name)

Mapped(request) == {t \in DOMAIN request.requested : FieldSources(request, t) # {}}

Defaulted(request) ==
  {t \in DOMAIN request.requested :
     request.requested[t].name \in DOMAIN request.options.defaults}

From(request, t) == CHOOSE i \in FieldSources(request, t) : TRUE

Matches(request) ==
  PlanMatches(request.provided, request.requested, request.policy, request.options)

(* A plan that is accepted finds what fills every requested field, and     *)
(* leaves no kept field out unless it projects.                            *)
LEMMA MatchesAccepts ==
  ASSUME NEW request, request.requested \in Seq(Fields)
  PROVE  /\ Matches(request).error = NoError <=>
              /\ \A t \in DOMAIN request.requested :
                   TargetError(request.provided, request.requested[t], request.policy,
                               request.options) = NoError
              /\ Unmapped(request.provided, request.requested, request.policy,
                          request.options) = {}
         /\ Matches(request).error = NoError =>
              Matches(request) = Accepted({Carry(request, From(request, t), t) :
                                             t \in Mapped(request)},
                                          {Given(request, t) : t \in Defaulted(request)})
         /\ Matches(request).error # NoError =>
              Matches(request) = Rejected(Matches(request).error)
<1> DEFINE plan == Matches(request)
           provided == request.provided
           requested == request.requested
           options == request.options
           verdict(t) == TargetError(provided, requested[t], request.policy, options)
           verdicts == [t \in DOMAIN requested |-> verdict(t)]
           unmapped == Unmapped(provided, requested, request.policy, options)
           mapping(t) == LET i == From(request, t)
                         IN Mapping(i, t, CastOf(provided[i], requested[t]),
                                    provided[i].nullable /\ ~requested[t].nullable)
           addition(t) == [target |-> t, null |-> options.defaults[requested[t].name].null]
           mappings == {mapping(t) : t \in Mapped(request)}
           additions == {addition(t) : t \in Defaulted(request)}
<1>1. plan = IF FirstError(verdicts) # NoError THEN Rejected(FirstError(verdicts))
             ELSE IF unmapped # {} THEN Rejected("UnmappedField")
             ELSE Accepted(mappings, additions)
  BY DEF PlanMatches, Matches, Mapped, Defaulted, From, FieldSources
<1>2. mappings = {Carry(request, From(request, t), t) : t \in Mapped(request)}
  BY DEF Carry
<1>3. additions = {Given(request, t) : t \in Defaulted(request)}
  BY DEF Given
<1> HIDE DEF plan, verdict, unmapped, mappings, additions
<1>4. FirstError(verdicts) = NoError <=> \A t \in DOMAIN requested : verdict(t) = NoError
  <2>1. Len(requested) \in Nat /\ DOMAIN requested = 1 .. Len(requested)
    BY FieldsOf
  <2>2. Len(verdicts) = Len(requested)
    BY <2>1
  <2> QED
    BY <2>1, <2>2, NoFirstError
<1> HIDE DEF verdicts
<1>5. /\ plan.error = NoError <=> FirstError(verdicts) = NoError /\ unmapped = {}
      /\ plan.error # NoError => plan = Rejected(plan.error)
  BY <1>1 DEF Rejected, Accepted, NoError
<1>6. plan.error = NoError => plan = Accepted(mappings, additions)
  BY <1>1, <1>5
<1> QED
  BY <1>2, <1>3, <1>4, <1>5, <1>6 DEF plan, verdict, unmapped

-----------------------------------------------------------------------------
(* What every plan is like.                                                *)

(* A plan that is refused maps and adds nothing.                           *)
LEMMA RefusedIsEmpty ==
  ASSUME NEW request, IsRequest(request), NEW plan \in Plans(request), plan.error # NoError
  PROVE  plan = Rejected(plan.error)
<1> DEFINE provided == request.provided
           requested == request.requested
           policy == request.policy
           options == request.options
           errors == OperationErrors(provided, requested, policy, options)
<1>1. provided \in Seq(Fields) /\ requested \in Seq(Fields) /\ policy \in Policies
  BY DEF IsRequest
<1>2. ASSUME NEW wrong, NEW mappings
      PROVE  LET pair == Pair(provided, requested, wrong, mappings) IN
             pair.error # NoError => pair = Rejected(pair.error)
  <2> DEFINE error == FirstError([i \in DOMAIN requested |->
                        FirstError(<<FailsWith(provided[i].name # requested[i].name, "FieldName")>>
                                     \o wrong[i])])
             pair == Pair(provided, requested, wrong, mappings)
  <2>1. pair = IF Len(provided) # Len(requested) THEN Rejected("FieldCount")
               ELSE IF error # NoError THEN Rejected(error)
               ELSE Accepted(mappings, {})
    BY DEF Pair
  <2> HIDE DEF error, pair
  <2>2. pair.error # NoError => pair = Rejected(pair.error)
    BY <2>1 DEF Rejected, Accepted, NoError
  <2> QED
    BY <2>2 DEF pair
<1>3. PlanExact(provided, requested).error # NoError =>
        PlanExact(provided, requested) = Rejected(PlanExact(provided, requested).error)
  BY <1>2 DEF PlanExact
<1>4. PlanCompatible(provided, requested).error # NoError =>
        PlanCompatible(provided, requested) = Rejected(PlanCompatible(provided, requested).error)
  BY <1>2 DEF PlanCompatible
<1>5. PlanCoerce(provided, requested).error # NoError =>
        PlanCoerce(provided, requested) = Rejected(PlanCoerce(provided, requested).error)
  BY <1>2 DEF PlanCoerce
<1>6. PlanProjection(provided, requested).error # NoError =>
        PlanProjection(provided, requested) = Rejected(PlanProjection(provided, requested).error)
  <2> DEFINE projection == PlanProjection(provided, requested)
  <2>1. (\E error : projection = Rejected(error)) \/ (\E mappings : projection = Accepted(mappings, {}))
    BY Zenon DEF PlanProjection
  <2> HIDE DEF projection
  <2>2. projection.error # NoError => projection = Rejected(projection.error)
    BY <2>1 DEF Rejected, Accepted, NoError
  <2> QED
    BY <2>2 DEF projection
<1>7. CASE plan = PlanFields(provided, requested, policy)
  BY <1>1, <1>3, <1>4, <1>5, <1>6, <1>7 DEF PlanFields, Policies
<1>8. CASE plan = Matches(request)
  BY <1>1, <1>8, MatchesAccepts
<1>9. CASE \E error \in errors : plan = Rejected(error)
  BY <1>9 DEF Rejected
<1> HIDE DEF provided, requested, policy, options, errors
<1>10. \/ plan = PlanFields(provided, requested, policy)
       \/ plan = Matches(request)
       \/ \E error \in errors : plan = Rejected(error)
  <2> DEFINE fields == PlanFields(provided, requested, policy)
             matches == Matches(request)
  <2>1. Plans(request) = IF ~HasOptions(options) THEN {fields}
                         ELSE IF errors # {} THEN {Rejected(error) : error \in errors}
                         ELSE {matches}
    BY DEF Plans, Matches, provided, requested, policy, options, errors
  <2> HIDE DEF fields, matches
  <2>2. plan \in {fields} \/ plan \in {matches} \/ plan \in {Rejected(error) : error \in errors}
    BY <2>1
  <2> QED
    BY <2>2 DEF fields, matches
<1> QED
  BY <1>7, <1>8, <1>9, <1>10

(* The field may not be cast but safely: neither the policy nor the cast   *)
(* that is named for it allows more.                                       *)
OnlySafely(request, name) ==
  /\ request.policy # "coerce"
  /\ name \in DOMAIN request.options.casts => request.options.casts[name] = "safe"

(* Provided field i may fill requested field t.                            *)
Suits(request, i, t) ==
  LET source == request.provided[i]
      target == request.requested[t]
  IN /\ i \in DOMAIN request.provided
     /\ target.name = Renamed(request.options, source.name)
     /\ source.type = target.type \/ CastOf(source, target) # NoCast
     /\ request.policy = "projection" /\ target.name \notin DOMAIN request.options.casts =>
          source.type = target.type
     /\ OnlySafely(request, target.name) =>
          /\ CastOf(source, target) \in {NoCast, "safe"}
          /\ ~(source.nullable /\ ~target.nullable)

(* Every provided field is used, or may be left out.                       *)
Covers(request, used) ==
  \A i \in DOMAIN request.provided :
    \/ request.policy = "projection"
    \/ request.provided[i].name \in request.options.drop
    \/ i \in used

(* The plan fills each requested field either from source[t] or with its   *)
(* default, which `added` says.                                            *)
Fills(request, plan, source, added) ==
  /\ DOMAIN source \union added = DOMAIN request.requested
  /\ DOMAIN source \intersect added = {}
  /\ \A t \in DOMAIN source : Suits(request, source[t], t)
  /\ Covers(request, {source[t] : t \in DOMAIN source})
  /\ \A t \in added :
       /\ request.requested[t].name \in DOMAIN request.options.defaults
       /\ AdditionError(request.requested[t],
                        request.options.defaults[request.requested[t].name]) = NoError
  /\ plan = Accepted({Carry(request, source[t], t) : t \in DOMAIN source},
                     {Given(request, t) : t \in added})

(* Exact, compatible and coerce map each field to the one in the same      *)
(* place, all in the same way.                                             *)
InPlace(provided, requested, i) ==
  Mapping(i, i, CastOf(provided[i], requested[i]),
          provided[i].nullable /\ ~requested[i].nullable)

LEMMA PlacedPlans ==
  ASSUME NEW provided \in Seq(Fields), NEW requested \in Seq(Fields),
         NEW policy \in {"exact", "compatible", "coerce"},
         NEW plan, plan = PlanFields(provided, requested, policy), plan.error = NoError
  PROVE  /\ Paired(provided, requested)
         /\ \A i \in DOMAIN requested :
              /\ \/ provided[i].type = requested[i].type
                 \/ CastOf(provided[i], requested[i]) # NoCast
              /\ policy # "coerce" =>
                   /\ CastOf(provided[i], requested[i]) \in {NoCast, "safe"}
                   /\ ~(provided[i].nullable /\ ~requested[i].nullable)
         /\ plan = Accepted({InPlace(provided, requested, i) : i \in DOMAIN requested}, {})
<1>1. /\ Len(requested) \in Nat /\ DOMAIN requested = 1 .. Len(requested)
      /\ DOMAIN provided = 1 .. Len(provided)
      /\ \A i \in DOMAIN requested : requested[i].nullable \in BOOLEAN
      /\ \A i \in DOMAIN provided : provided[i].nullable \in BOOLEAN
  BY FieldsOf
<1>2. CASE policy = "exact"
  <2> DEFINE exact == PlanExact(provided, requested)
  <2>1. plan = exact
    BY <1>2 DEF PlanFields
  <2>2. /\ Paired(provided, requested)
        /\ \A i \in DOMAIN requested :
             /\ provided[i].type = requested[i].type
             /\ provided[i].nullable = requested[i].nullable
        /\ plan = Accepted({Mapping(i, i, NoCast, FALSE) : i \in DOMAIN requested}, {})
    BY <2>1, ExactAccepts
  <2>3. \A i \in DOMAIN requested : CastOf(provided[i], requested[i]) = NoCast
    BY <2>2, CastsOf
  <2>4. \A i \in DOMAIN requested : InPlace(provided, requested, i) = Mapping(i, i, NoCast, FALSE)
    BY <1>1, <2>2, <2>3 DEF InPlace, Mapping, Paired
  <2>5. {InPlace(provided, requested, i) : i \in DOMAIN requested}
          = {Mapping(i, i, NoCast, FALSE) : i \in DOMAIN requested}
    BY <2>4
  <2> QED
    BY <1>1, <1>2, <2>2, <2>3, <2>5 DEF Paired
<1>3. CASE policy = "compatible"
  <2>1. plan = PlanCompatible(provided, requested)
    BY <1>3 DEF PlanFields
  <2>2. /\ Paired(provided, requested)
        /\ \A i \in DOMAIN requested :
             /\ ~(provided[i].nullable /\ ~requested[i].nullable)
             /\ \/ provided[i].type = requested[i].type
                \/ CastOf(provided[i], requested[i]) = "safe"
        /\ plan = Accepted({Mapping(i, i, CastOf(provided[i], requested[i]), FALSE) :
                              i \in DOMAIN requested}, {})
    BY <2>1, CompatibleAccepts
  <2>3. \A i \in DOMAIN requested : CastOf(provided[i], requested[i]) \in {NoCast, "safe"}
    BY <2>2, CastsOf
  <2>4. \A i \in DOMAIN requested :
          InPlace(provided, requested, i) = Mapping(i, i, CastOf(provided[i], requested[i]), FALSE)
    BY <1>1, <2>2 DEF InPlace, Mapping, Paired
  <2>5. {InPlace(provided, requested, i) : i \in DOMAIN requested}
          = {Mapping(i, i, CastOf(provided[i], requested[i]), FALSE) : i \in DOMAIN requested}
    BY <2>4
  <2> QED
    BY <2>2, <2>3, <2>5 DEF NoCast
<1>4. CASE policy = "coerce"
  <2>1. plan = PlanCoerce(provided, requested)
    BY <1>4 DEF PlanFields
  <2>2. /\ Paired(provided, requested)
        /\ \A i \in DOMAIN requested :
             \/ provided[i].type = requested[i].type
             \/ CastOf(provided[i], requested[i]) # NoCast
        /\ plan = Accepted({Mapping(i, i, CastOf(provided[i], requested[i]),
                                    provided[i].nullable /\ ~requested[i].nullable) :
                              i \in DOMAIN requested}, {})
    BY <2>1, CoerceAccepts
  <2>3. {InPlace(provided, requested, i) : i \in DOMAIN requested}
          = {Mapping(i, i, CastOf(provided[i], requested[i]),
                     provided[i].nullable /\ ~requested[i].nullable) : i \in DOMAIN requested}
    BY DEF InPlace
  <2> QED
    BY <1>4, <2>2, <2>3
<1> QED
  BY <1>2, <1>3, <1>4

(* So each field is filled from the one in the same place.                 *)
LEMMA PositionPlans ==
  ASSUME NEW request, IsRequest(request), ~HasOptions(request.options),
         request.policy # "projection",
         NEW plan, plan = PlanFields(request.provided, request.requested, request.policy),
         plan.error = NoError
  PROVE  Fills(request, plan, [t \in DOMAIN request.requested |-> t], {})
<1> DEFINE provided  == request.provided
           requested == request.requested
           source == [t \in DOMAIN requested |-> t]
<1>1. provided \in Seq(Fields) /\ requested \in Seq(Fields) /\ request.policy \in Policies
  BY DEF IsRequest
<1>2. /\ Len(requested) \in Nat /\ DOMAIN requested = 1 .. Len(requested)
      /\ DOMAIN provided = 1 .. Len(provided)
      /\ \A i \in DOMAIN requested : requested[i].nullable \in BOOLEAN
      /\ \A i \in DOMAIN provided : provided[i].nullable \in BOOLEAN
  BY <1>1, FieldsOf
<1>3. \A name : Renamed(request.options, name) = name /\ name \notin DOMAIN request.options.casts
  BY DEF HasOptions, Renamed
<1> HIDE DEF provided, requested
<1>4. /\ Paired(provided, requested)
      /\ \A i \in DOMAIN requested :
           /\ \/ provided[i].type = requested[i].type
              \/ CastOf(provided[i], requested[i]) # NoCast
           /\ request.policy # "coerce" =>
                /\ CastOf(provided[i], requested[i]) \in {NoCast, "safe"}
                /\ ~(provided[i].nullable /\ ~requested[i].nullable)
      /\ plan = Accepted({InPlace(provided, requested, i) : i \in DOMAIN requested}, {})
  <2>1. request.policy \in {"exact", "compatible", "coerce"}
    BY <1>1 DEF Policies
  <2>2. plan = PlanFields(provided, requested, request.policy)
    BY DEF provided, requested
  <2> QED
    BY <1>1, <2>1, <2>2, PlacedPlans
<1>5. ASSUME NEW t \in DOMAIN source PROVE Suits(request, source[t], t)
  BY <1>2, <1>3, <1>4 DEF Suits, OnlySafely, Paired, provided, requested
<1>6. Covers(request, {source[t] : t \in DOMAIN source})
  BY <1>2, <1>4 DEF Covers, Paired, provided
<1>7. {Carry(request, source[t], t) : t \in DOMAIN source}
        = {InPlace(provided, requested, i) : i \in DOMAIN requested}
  BY DEF Carry, InPlace, provided, requested
<1> QED
  BY <1>4, <1>5, <1>6, <1>7 DEF Fills, requested

(* A projection fills each field from the one that has its name.           *)
LEMMA ProjectionPlans ==
  ASSUME NEW request, IsRequest(request), ~HasOptions(request.options),
         request.policy = "projection",
         NEW plan, plan = PlanFields(request.provided, request.requested, request.policy),
         plan.error = NoError
  PROVE  \E source : Fills(request, plan, source, {})
<1> DEFINE provided  == request.provided
           requested == request.requested
           sources(t) == {i \in DOMAIN provided : provided[i].name = requested[t].name}
           source == [t \in DOMAIN requested |-> CHOOSE i \in sources(t) : TRUE]
<1>1. provided \in Seq(Fields) /\ requested \in Seq(Fields)
  BY DEF IsRequest
<1>2. /\ \A i \in DOMAIN requested : requested[i].nullable \in BOOLEAN
      /\ \A i \in DOMAIN provided : provided[i].nullable \in BOOLEAN
  BY <1>1, FieldsOf
<1>3. \A name : Renamed(request.options, name) = name
  BY DEF HasOptions, Renamed
<1>4. plan = PlanProjection(provided, requested)
  BY DEF PlanFields
<1> HIDE DEF provided, requested
<1>5. /\ \A t \in DOMAIN requested :
           \E i \in DOMAIN provided :
             /\ sources(t) = {i}
             /\ provided[i].type = requested[t].type
             /\ ~(provided[i].nullable /\ ~requested[t].nullable)
      /\ plan = Accepted({Mapping(CHOOSE i \in sources(t) : TRUE, t, NoCast, FALSE) :
                            t \in DOMAIN requested}, {})
  BY <1>1, <1>4, ProjectionAccepts
<1>6. ASSUME NEW t \in DOMAIN requested
      PROVE  /\ source[t] \in DOMAIN provided
             /\ provided[source[t]].name = requested[t].name
             /\ provided[source[t]].type = requested[t].type
             /\ ~(provided[source[t]].nullable /\ ~requested[t].nullable)
             /\ CastOf(provided[source[t]], requested[t]) = NoCast
             /\ Carry(request, source[t], t)
                  = Mapping(CHOOSE i \in sources(t) : TRUE, t, NoCast, FALSE)
  <2>1. PICK i \in DOMAIN provided :
          /\ sources(t) = {i}
          /\ provided[i].type = requested[t].type
          /\ ~(provided[i].nullable /\ ~requested[t].nullable)
    BY <1>5
  <2>2. source[t] = i /\ provided[i].name = requested[t].name
    BY <2>1
  <2>3. source[t] = CHOOSE j \in sources(t) : TRUE
    OBVIOUS
  <2>4. CastOf(provided[i], requested[t]) = NoCast
    BY <2>1, CastsOf
  <2>5. (provided[i].nullable /\ ~requested[t].nullable) = FALSE
    BY <1>2, <2>1
  <2> HIDE DEF source, sources
  <2>6. Carry(request, i, t) = Mapping(i, t, NoCast, FALSE)
    BY <2>4, <2>5 DEF Carry, provided, requested
  <2> QED
    BY <2>1, <2>2, <2>3, <2>4, <2>6
<1>7. {Carry(request, source[t], t) : t \in DOMAIN source}
        = {Mapping(CHOOSE i \in sources(t) : TRUE, t, NoCast, FALSE) : t \in DOMAIN requested}
  <2>1. DOMAIN source = DOMAIN requested
    OBVIOUS
  <2> HIDE DEF source, sources
  <2> QED
    BY <1>6, <2>1
<1>8. DOMAIN source = DOMAIN requested
  OBVIOUS
<1> HIDE DEF source
<1>9. \A t \in DOMAIN source : Suits(request, source[t], t)
  BY <1>3, <1>6, <1>8 DEF Suits, provided, requested
<1>10. Covers(request, {source[t] : t \in DOMAIN source})
  BY DEF Covers
<1>11. plan = Accepted({Carry(request, source[t], t) : t \in DOMAIN source}, {})
  BY <1>5, <1>7
<1>12. Fills(request, plan, source, {})
  BY <1>8, <1>9, <1>10, <1>11 DEF Fills, requested
<1> QED
  BY <1>12

(* A cast that is no more permissive than a safe one is safe.              *)
LEMMA SafeIsLeast ==
  ASSUME NEW cast \in CastKinds, ~(CastRank[cast] > CastRank["safe"])
  PROVE  cast = "safe"
<1>1. CastRank["safe"] = 0 /\ CastRank["runtime_checked"] = 1 /\ CastRank["lossy"] = 2
  BY DEF CastRank
<1> QED
  BY <1>1 DEF CastKinds

(* With field operations each field is filled from the one that carries    *)
(* its name after the renames, or with its default.                        *)
LEMMA MatchPlans ==
  ASSUME NEW request, IsRequest(request), request.policy # "exact",
         Matches(request).error = NoError
  PROVE  Fills(request, Matches(request),
               [t \in Mapped(request) |-> From(request, t)], Defaulted(request))
<1> DEFINE provided  == request.provided
           requested == request.requested
           policy    == request.policy
           options   == request.options
           sources(t) == FieldSources(request, t)
           source == [t \in Mapped(request) |-> From(request, t)]
<1>1. /\ provided \in Seq(Fields) /\ requested \in Seq(Fields)
      /\ policy \in {"projection", "compatible", "coerce"}
      /\ \A name \in DOMAIN options.casts : options.casts[name] \in CastKinds
  BY DEF IsRequest, AreOptions, Policies
<1>2. /\ \A t \in DOMAIN requested :
           TargetError(provided, requested[t], policy, options) = NoError
      /\ Unmapped(provided, requested, policy, options) = {}
      /\ Matches(request) = Accepted({Carry(request, From(request, t), t) : t \in Mapped(request)},
                                     {Given(request, t) : t \in Defaulted(request)})
  BY <1>1, MatchesAccepts
<1>3. ASSUME NEW t \in DOMAIN requested
      PROVE  \/ /\ sources(t) = {} /\ requested[t].name \in DOMAIN options.defaults
                /\ AdditionError(requested[t], options.defaults[requested[t].name]) = NoError
             \/ /\ requested[t].name \notin DOMAIN options.defaults
                /\ \E i \in DOMAIN provided :
                     /\ sources(t) = {i}
                     /\ MappingError(provided[i], requested[t], policy,
                                     AllowedCast(policy, options, requested[t].name)) = NoError
  <2>1. TargetError(provided, requested[t], policy, options) = NoError
    BY <1>2
  <2> DEFINE carriers == Sources(provided, options, requested[t].name)
             hasDefault == requested[t].name \in DOMAIN options.defaults
             given == AdditionError(requested[t], options.defaults[requested[t].name])
             mapped(i) == MappingError(provided[i], requested[t], policy,
                                       AllowedCast(policy, options, requested[t].name))
  <2>2. sources(t) = carriers
    BY DEF FieldSources
  <2>3. provided \in Seq(Fields)
    BY <1>1
  <2>4. \/ carriers = {} /\ hasDefault /\ given = NoError
        \/ /\ ~hasDefault
           /\ \E i \in DOMAIN provided : carriers = {i} /\ mapped(i) = NoError
    <3> HIDE DEF provided, requested, policy, options
    <3> QED
      BY <2>1, <2>3, TargetAccepts, Zenon
  <2> HIDE DEF carriers, given, mapped, sources
  <2>5. \/ sources(t) = {} /\ hasDefault /\ given = NoError
        \/ /\ ~hasDefault
           /\ \E i \in DOMAIN provided : sources(t) = {i} /\ mapped(i) = NoError
    BY <2>2, <2>4
  <2> QED
    BY <2>5 DEF given, mapped
<1>4. ASSUME NEW t \in Mapped(request) PROVE Suits(request, From(request, t), t)
  <2>1. t \in DOMAIN requested /\ sources(t) # {}
    BY DEF Mapped
  <2>2. PICK i \in DOMAIN provided :
          /\ sources(t) = {i}
          /\ MappingError(provided[i], requested[t], policy,
                          AllowedCast(policy, options, requested[t].name)) = NoError
    BY <1>3, <2>1
  <2>3. From(request, t) = i /\ i \in sources(t)
    BY <2>2 DEF From
  <2>4. requested[t].name = Renamed(options, provided[i].name)
    BY <2>3 DEF FieldSources, Sources
  <2> DEFINE cast == CastOf(provided[i], requested[t])
             allowed == AllowedCast(policy, options, requested[t].name)
  <2>5. /\ \/ provided[i].type = requested[t].type
           \/ /\ allowed # NoCast
              /\ cast # NoCast
              /\ ~(CastRank[cast] > CastRank[allowed])
        /\ ~(provided[i].nullable /\ ~requested[t].nullable /\ policy # "coerce")
    <3> HIDE DEF provided, requested, policy, options
    <3> QED
      BY <2>2, MappingAccepts
  <2>6. /\ OnlySafely(request, requested[t].name) =>
             policy # "coerce" /\ allowed \in {"safe", NoCast}
        /\ policy = "projection" /\ requested[t].name \notin DOMAIN options.casts =>
             allowed = NoCast
    BY <1>1 DEF OnlySafely, AllowedCast
  <2>7. cast \in CastKinds \union {NoCast} /\ (provided[i].type = requested[t].type => cast = NoCast)
    BY CastsOf
  <2>8. OnlySafely(request, requested[t].name) => cast \in {NoCast, "safe"}
    <3> HIDE DEF cast, allowed
    <3> QED
      BY <2>5, <2>6, <2>7, SafeIsLeast
  <2> QED
    BY <2>2, <2>3, <2>4, <2>5, <2>6, <2>7, <2>8 DEF Suits
<1>5. DOMAIN source = Mapped(request) /\ \A t \in Mapped(request) : source[t] = From(request, t)
  OBVIOUS
<1> HIDE DEF source
<1>6. /\ DOMAIN source \union Defaulted(request) = DOMAIN requested
      /\ DOMAIN source \intersect Defaulted(request) = {}
  BY <1>3, <1>5 DEF Mapped, Defaulted
<1>7. Covers(request, {source[t] : t \in DOMAIN source})
  <2>1. SUFFICES ASSUME NEW i \in DOMAIN provided, policy # "projection",
                        provided[i].name \notin options.drop
                 PROVE  \E t \in DOMAIN source : source[t] = i
    BY DEF Covers
  <2>2. i \in Kept(provided, options)
    BY <2>1 DEF Kept
  <2>3. Kept(provided, options) \ UNION {sources(t) : t \in DOMAIN requested} = {}
    BY <1>2, <2>1 DEF Unmapped, FieldSources
  <2>4. PICK t \in DOMAIN requested : i \in sources(t)
    <3> HIDE DEF sources
    <3> QED
      BY <2>2, <2>3
  <2>5. \E j \in DOMAIN provided : sources(t) = {j}
    BY <1>3, <2>4
  <2>6. t \in Mapped(request) /\ From(request, t) = i
    BY <2>4, <2>5 DEF Mapped, From
  <2> QED
    BY <1>5, <2>6
<1>8. Matches(request) = Accepted({Carry(request, source[t], t) : t \in DOMAIN source},
                                  {Given(request, t) : t \in Defaulted(request)})
  <2>1. {Carry(request, source[t], t) : t \in DOMAIN source}
          = {Carry(request, From(request, t), t) : t \in Mapped(request)}
    BY <1>5
  <2> QED
    BY <1>2, <2>1
<1>9. \A t \in Defaulted(request) :
         /\ requested[t].name \in DOMAIN options.defaults
         /\ AdditionError(requested[t], options.defaults[requested[t].name]) = NoError
  BY <1>3 DEF Defaulted
<1>10. Fills(request, Matches(request), source, Defaulted(request))
  BY <1>4, <1>5, <1>6, <1>7, <1>8, <1>9 DEF Fills
<1> QED
  BY <1>10 DEF source

(* Whatever is requested, a plan is refused and empty, or says how each    *)
(* requested field is filled.                                              *)
THEOREM EveryPlan ==
  ASSUME NEW request, IsRequest(request), NEW plan \in Plans(request)
  PROVE  \/ plan.error # NoError /\ plan = Rejected(plan.error)
         \/ plan.error = NoError /\ \E source, added : Fills(request, plan, source, added)
<1> DEFINE fields == PlanFields(request.provided, request.requested, request.policy)
           errors == OperationErrors(request.provided, request.requested, request.policy,
                                     request.options)
<1>1. plan.error # NoError => plan = Rejected(plan.error)
  BY RefusedIsEmpty
<1>2. SUFFICES ASSUME plan.error = NoError
               PROVE  \E source, added : Fills(request, plan, source, added)
  BY <1>1
<1>3. CASE ~HasOptions(request.options)
  <2>1. plan = fields
    BY <1>3 DEF Plans
  <2>2. CASE request.policy = "projection"
    BY <1>2, <1>3, <2>1, <2>2, ProjectionPlans
  <2>3. CASE request.policy # "projection"
    BY <1>2, <1>3, <2>1, <2>3, PositionPlans
  <2> QED
    BY <2>2, <2>3
<1>4. CASE HasOptions(request.options) /\ errors # {}
  <2>1. plan \in {Rejected(error) : error \in errors}
    BY <1>4 DEF Plans
  <2>2. NoError \notin errors
    BY DEF OperationErrors, NameErrors, NoError
  <2> HIDE DEF errors
  <2>3. PICK error \in errors : plan = Rejected(error)
    BY <2>1
  <2>4. plan.error = error
    BY <2>3 DEF Rejected
  <2> QED
    BY <1>2, <2>2, <2>3, <2>4
<1>5. CASE HasOptions(request.options) /\ errors = {}
  <2>1. plan = Matches(request)
    BY <1>5 DEF Plans, Matches
  <2>2. request.policy # "exact"
    BY <1>5 DEF OperationErrors
  <2> QED
    BY <1>2, <2>1, <2>2, MatchPlans
<1> QED
  BY <1>3, <1>4, <1>5

(* What an accepted plan lists are mappings of the provided fields and     *)
(* defaults of the requested ones.                                         *)
LEMMA FilledTypes ==
  ASSUME NEW request, IsRequest(request), NEW plan, NEW source, NEW added,
         Fills(request, plan, source, added)
  PROVE  /\ plan.error = NoError
         /\ plan.mappings \subseteq
              [source : DOMAIN request.provided, target : DOMAIN request.requested,
               cast : CastKinds \union {NoCast}, checkNulls : BOOLEAN]
         /\ plan.additions \subseteq [target : DOMAIN request.requested, null : BOOLEAN]
         /\ \A mapping \in plan.mappings :
              /\ mapping = Carry(request, mapping.source, mapping.target)
              /\ Suits(request, mapping.source, mapping.target)
         /\ \A addition \in plan.additions :
              addition.null =>
                \/ request.requested[addition.target].nullable
                \/ DefaultOf(request, addition.target).type = "Null"
<1>1. /\ plan.error = NoError
      /\ plan.mappings = {Carry(request, source[t], t) : t \in DOMAIN source}
      /\ plan.additions = {Given(request, t) : t \in added}
  BY DEF Fills, Accepted
<1>2. ASSUME NEW mapping \in plan.mappings
      PROVE  /\ mapping \in [source : DOMAIN request.provided, target : DOMAIN request.requested,
                             cast : CastKinds \union {NoCast}, checkNulls : BOOLEAN]
             /\ mapping = Carry(request, mapping.source, mapping.target)
             /\ Suits(request, mapping.source, mapping.target)
  <2>1. PICK t \in DOMAIN source : mapping = Carry(request, source[t], t)
    BY <1>1
  <2>2. Suits(request, source[t], t) /\ t \in DOMAIN request.requested
    BY DEF Fills
  <2>3. source[t] \in DOMAIN request.provided
    BY <2>2 DEF Suits
  <2>4. mapping.source = source[t] /\ mapping.target = t
    BY <2>1 DEF Carry, Mapping
  <2>5. CastOf(request.provided[source[t]], request.requested[t]) \in CastKinds \union {NoCast}
    BY CastsOf
  <2>6. /\ request.provided[source[t]].nullable \in BOOLEAN
        /\ request.requested[t].nullable \in BOOLEAN
    BY <2>2, <2>3, FieldsOf DEF IsRequest
  <2>7. mapping \in [source : DOMAIN request.provided, target : DOMAIN request.requested,
                     cast : CastKinds \union {NoCast}, checkNulls : BOOLEAN]
    BY <2>1, <2>2, <2>3, <2>5, <2>6 DEF Carry, Mapping
  <2> QED
    BY <2>1, <2>2, <2>4, <2>7
<1>3. ASSUME NEW addition \in plan.additions
      PROVE  /\ addition \in [target : DOMAIN request.requested, null : BOOLEAN]
             /\ addition.null =>
                  \/ request.requested[addition.target].nullable
                  \/ DefaultOf(request, addition.target).type = "Null"
  <2>1. PICK t \in added : addition = Given(request, t)
    BY <1>1
  <2> DEFINE target == request.requested[t]
             default == request.options.defaults[target.name]
  <2>2. /\ t \in DOMAIN request.requested
        /\ target.name \in DOMAIN request.options.defaults
        /\ AdditionError(target, default) = NoError
    BY DEF Fills
  <2>3. default \in Defaults
    BY <2>2 DEF IsRequest, AreOptions
  <2>4. default.null \in BOOLEAN
    BY <2>3, Zenon DEF Defaults
  <2>5. ~(SeenNull(default) /\ ~target.nullable)
    <3> DEFINE length == FailsWith(default.length # 1, "DefaultLength")
               null   == FailsWith(SeenNull(default) /\ ~target.nullable, "NullDefault")
               fits   == FailsWith(~SeenNull(default) /\ target.type \notin default.fits,
                                   "DefaultCast")
               errors == <<length, null, fits>>
    <3>1. FirstError(errors) = NoError
      BY <2>2 DEF AdditionError
    <3> HIDE DEF length, null, fits, errors
    <3>2. Len(errors) = 3 /\ errors[2] = null
      BY DEF errors
    <3>3. null = NoError
      BY <3>1, <3>2, NoFirstError
    <3> QED
      BY <3>3 DEF null, FailsWith, NoError
  <2>6. addition = [target |-> t, null |-> default.null] /\ DefaultOf(request, t) = default
    BY <2>1 DEF Given, DefaultOf
  <2> HIDE DEF default
  <2> QED
    BY <2>2, <2>4, <2>5, <2>6 DEF SeenNull
<1> QED
  BY <1>1, <1>2, <1>3

(* An accepted plan fills every requested field once.                      *)
LEMMA FilledOnce ==
  ASSUME NEW request, NEW plan, NEW source, NEW added,
         Fills(request, plan, source, added), NEW t \in DOMAIN request.requested
  PROVE  Cardinality({mapping \in plan.mappings : mapping.target = t})
           + Cardinality({addition \in plan.additions : addition.target = t}) = 1
<1> DEFINE mappings == {mapping \in plan.mappings : mapping.target = t}
           additions == {addition \in plan.additions : addition.target = t}
<1>1. /\ plan.mappings = {Carry(request, source[u], u) : u \in DOMAIN source}
      /\ plan.additions = {Given(request, u) : u \in added}
  BY DEF Fills, Accepted
<1>2. \A u : Carry(request, source[u], u).target = u /\ Given(request, u).target = u
  BY DEF Carry, Mapping, Given
<1>3. CASE t \in DOMAIN source
  <2>1. t \notin added
    BY <1>3 DEF Fills
  <2>2. mappings = {Carry(request, source[t], t)} /\ additions = {}
    BY <1>1, <1>2, <1>3, <2>1
  <2> HIDE DEF mappings, additions
  <2>3. Cardinality(mappings) = 1 /\ Cardinality(additions) = 0
    BY <2>2, FS_Singleton, FS_EmptySet
  <2> QED
    BY <2>3 DEF mappings, additions
<1>4. CASE t \in added
  <2>1. t \notin DOMAIN source
    BY <1>4 DEF Fills
  <2>2. mappings = {} /\ additions = {Given(request, t)}
    BY <1>1, <1>2, <1>4, <2>1
  <2> HIDE DEF mappings, additions
  <2>3. Cardinality(mappings) = 0 /\ Cardinality(additions) = 1
    BY <2>2, FS_Singleton, FS_EmptySet
  <2> QED
    BY <2>3 DEF mappings, additions
<1> QED
  BY <1>3, <1>4 DEF Fills

-----------------------------------------------------------------------------
(* How the policies compare.                                               *)

(* What an exact plan accepts, compatible and coerce accept, and map in    *)
(* the same way; so does coerce what compatible accepts.                   *)
LEMMA StricterInPlace ==
  ASSUME NEW provided \in Seq(Fields), NEW requested \in Seq(Fields)
  PROVE  LET plan(policy) == PlanFields(provided, requested, policy)
         IN /\ plan("exact").error = NoError =>
                 \A policy \in {"compatible", "coerce"} :
                   /\ plan(policy).error = NoError
                   /\ plan(policy).mappings = plan("exact").mappings
            /\ plan("compatible").error = NoError =>
                 /\ plan("coerce").error = NoError
                 /\ plan("coerce").mappings = plan("compatible").mappings
<1> DEFINE plan(policy) == PlanFields(provided, requested, policy)
           placed == {InPlace(provided, requested, i) : i \in DOMAIN requested}
<1>1. \A policy \in {"exact", "compatible", "coerce"} :
        plan(policy).error = NoError => plan(policy).mappings = placed
  <2> SUFFICES ASSUME NEW policy \in {"exact", "compatible", "coerce"},
                      plan(policy).error = NoError
               PROVE  plan(policy).mappings = placed
    OBVIOUS
  <2>1. plan(policy) = Accepted(placed, {})
    <3> HIDE DEF placed
    <3> QED
      BY PlacedPlans DEF placed
  <2> QED
    BY <2>1 DEF Accepted
<1>2. /\ plan("exact") = PlanExact(provided, requested)
      /\ plan("compatible") = PlanCompatible(provided, requested)
      /\ plan("coerce") = PlanCoerce(provided, requested)
  BY DEF PlanFields
<1> HIDE DEF plan, placed
<1>3. plan("exact").error = NoError => plan("compatible").error = NoError
  <2> SUFFICES ASSUME plan("exact").error = NoError PROVE plan("compatible").error = NoError
    OBVIOUS
  <2>1. /\ Paired(provided, requested)
        /\ \A i \in DOMAIN requested :
             /\ provided[i].type = requested[i].type
             /\ provided[i].nullable = requested[i].nullable
    BY <1>2, ExactAccepts
  <2>2. PlanCompatible(provided, requested).error = NoError
    <3>1. \A i \in DOMAIN requested :
            /\ ~(provided[i].nullable /\ ~requested[i].nullable)
            /\ \/ provided[i].type = requested[i].type
               \/ CastOf(provided[i], requested[i]) = "safe"
      BY <2>1
    <3> QED
      BY <2>1, <3>1, CompatibleAccepts, Zenon
  <2> QED
    BY <1>2, <2>2
<1>4. plan("compatible").error = NoError => plan("coerce").error = NoError
  <2> SUFFICES ASSUME plan("compatible").error = NoError PROVE plan("coerce").error = NoError
    OBVIOUS
  <2>1. /\ Paired(provided, requested)
        /\ \A i \in DOMAIN requested :
             \/ provided[i].type = requested[i].type
             \/ CastOf(provided[i], requested[i]) = "safe"
    BY <1>2, CompatibleAccepts
  <2>2. PlanCoerce(provided, requested).error = NoError
    <3>1. \A i \in DOMAIN requested :
            \/ provided[i].type = requested[i].type
            \/ CastOf(provided[i], requested[i]) # NoCast
      BY <2>1 DEF NoCast
    <3> QED
      BY <2>1, <3>1, CoerceAccepts, Zenon
  <2> QED
    BY <1>2, <2>2
<1> QED
  BY <1>1, <1>3, <1>4 DEF plan

(* Where no two provided fields have the same name, projection finds each  *)
(* field of an exact plan in its place.                                    *)
LEMMA ExactProjects ==
  ASSUME NEW provided \in Seq(Fields), NEW requested \in Seq(Fields),
         \A i, j \in DOMAIN provided : provided[i].name = provided[j].name => i = j,
         PlanFields(provided, requested, "exact").error = NoError
  PROVE  /\ PlanFields(provided, requested, "projection").error = NoError
         /\ PlanFields(provided, requested, "projection").mappings
              = PlanFields(provided, requested, "exact").mappings
<1> DEFINE sources(t) == {i \in DOMAIN provided : provided[i].name = requested[t].name}
           exact == PlanExact(provided, requested)
           projection == PlanProjection(provided, requested)
<1>1. /\ PlanFields(provided, requested, "exact") = exact
      /\ PlanFields(provided, requested, "projection") = projection
  BY DEF PlanFields
<1>2. /\ Paired(provided, requested)
      /\ \A i \in DOMAIN requested :
           /\ provided[i].type = requested[i].type
           /\ provided[i].nullable = requested[i].nullable
      /\ exact = Accepted({Mapping(i, i, NoCast, FALSE) : i \in DOMAIN requested}, {})
  BY <1>1, ExactAccepts
<1>3. ASSUME NEW t \in DOMAIN requested PROVE sources(t) = {t} /\ t \in DOMAIN provided
  <2>1. t \in DOMAIN provided /\ provided[t].name = requested[t].name
    BY <1>2, FieldsOf DEF Paired
  <2> QED
    BY <2>1
<1> HIDE DEF exact, projection
<1>4. projection.error = NoError
  <2>1. ASSUME NEW t \in DOMAIN requested
        PROVE  \E i \in DOMAIN provided :
                 /\ sources(t) = {i}
                 /\ provided[i].type = requested[t].type
                 /\ ~(provided[i].nullable /\ ~requested[t].nullable)
    <3> HIDE DEF sources
    <3> QED
      BY <1>2, <1>3, FieldsOf
  <2> QED
    BY <2>1, ProjectionAccepts DEF projection
<1>5. projection = Accepted({Mapping(CHOOSE i \in sources(t) : TRUE, t, NoCast, FALSE) :
                               t \in DOMAIN requested}, {})
  BY <1>4, ProjectionAccepts, Zenon DEF projection
<1>6. {Mapping(CHOOSE i \in sources(t) : TRUE, t, NoCast, FALSE) : t \in DOMAIN requested}
        = {Mapping(i, i, NoCast, FALSE) : i \in DOMAIN requested}
  <2>1. \A t \in DOMAIN requested : (CHOOSE i \in sources(t) : TRUE) = t
    <3> HIDE DEF sources
    <3> QED
      BY <1>3
  <2> HIDE DEF sources
  <2> QED
    BY <2>1
<1>7. projection.mappings = exact.mappings
  BY <1>2, <1>5, <1>6 DEF Accepted
<1> QED
  BY <1>1, <1>4, <1>7

(* Renames of shared names to themselves: they make a plan by name.        *)
IdleOptions(names) == [NoOptions EXCEPT !.renames = [name \in names |-> name]]

(* Where no two provided fields have the same name, matching by name fills *)
(* each field as it is filled without operations.                          *)
LEMMA IdleMatches ==
  ASSUME NEW request, NEW idle, NEW r, NEW names,
         IsRequest(request), request.policy # "exact",
         \A i, j \in DOMAIN request.provided :
           request.provided[i].name = request.provided[j].name => i = j,
         idle = IdleOptions(names),
         r.provided = request.provided, r.requested = request.requested,
         r.policy = request.policy, r.options = idle,
         NEW plan, NEW source,
         NEW free, free.provided = request.provided, free.requested = request.requested,
         free.policy = request.policy, free.options = NoOptions,
         Fills(free, plan, source, {})
  PROVE  Matches(r) = plan
<1> DEFINE provided == request.provided
           requested == request.requested
           policy == request.policy
<1>1. /\ DOMAIN idle.renames = names /\ (\A name \in names : idle.renames[name] = name)
      /\ DOMAIN idle.defaults = {} /\ idle.drop = {} /\ DOMAIN idle.casts = {}
  BY DEF IdleOptions, NoOptions
<1>2. /\ NoOptions.drop = {} /\ DOMAIN NoOptions.casts = {} /\ DOMAIN NoOptions.renames = {}
  BY DEF NoOptions
<1>3. \A name : Renamed(idle, name) = name /\ Renamed(NoOptions, name) = name
  BY <1>1, <1>2 DEF Renamed
<1>4. provided \in Seq(Fields) /\ requested \in Seq(Fields)
      /\ policy \in {"projection", "compatible", "coerce"}
  BY DEF IsRequest, Policies
<1>5. /\ DOMAIN source = DOMAIN requested
      /\ \A t \in DOMAIN source : Suits(free, source[t], t)
      /\ Covers(free, {source[t] : t \in DOMAIN source})
      /\ plan = Accepted({Carry(free, source[t], t) : t \in DOMAIN source}, {})
  BY DEF Fills
<1> HIDE DEF provided, requested, policy
<1>6. ASSUME NEW t \in DOMAIN requested
      PROVE  /\ source[t] \in DOMAIN provided
             /\ FieldSources(r, t) = {source[t]}
             /\ From(r, t) = source[t]
             /\ TargetError(provided, requested[t], policy, idle) = NoError
  <2> DEFINE i == source[t]
             cast == CastOf(provided[i], requested[t])
             allowed == AllowedCast(policy, idle, requested[t].name)
  <2>1. Suits(free, i, t)
    BY <1>5
  <2>2. i \in DOMAIN provided /\ requested[t].name = provided[i].name
    BY <1>3, <2>1 DEF Suits, provided, requested
  <2> HIDE DEF i
  <2>3. Kept(provided, idle) = DOMAIN provided
    BY <1>1 DEF Kept
  <2>4. Sources(provided, idle, requested[t].name) = {i}
    BY <1>3, <2>2, <2>3 DEF Sources, provided
  <2>5. FieldSources(r, t) = {i}
    BY <2>4 DEF FieldSources, provided, requested
  <2>6. From(r, t) = i
    BY <2>5 DEF From
  <2>7. /\ \/ provided[i].type = requested[t].type
           \/ cast # NoCast
        /\ policy = "projection" => provided[i].type = requested[t].type
        /\ policy # "coerce" =>
             /\ cast \in {NoCast, "safe"}
             /\ ~(provided[i].nullable /\ ~requested[t].nullable)
    BY <1>2, <2>1 DEF Suits, OnlySafely, provided, requested, policy
  <2>8. /\ policy = "projection" => allowed = NoCast
        /\ policy = "compatible" => allowed = "safe"
        /\ policy = "coerce" => allowed = "lossy"
    BY <1>1 DEF AllowedCast
  <2>9. cast \in CastKinds \union {NoCast}
    BY CastsOf
  <2> HIDE DEF cast, allowed
  <2>10. CastRank["safe"] = 0 /\ CastRank["runtime_checked"] = 1 /\ CastRank["lossy"] = 2
    BY DEF CastRank
  <2>11. \/ provided[i].type = requested[t].type
         \/ /\ allowed # NoCast /\ cast # NoCast
            /\ ~(CastRank[cast] > CastRank[allowed])
    BY <1>4, <2>7, <2>8, <2>9, <2>10 DEF CastKinds, NoCast
  <2>12. ~(provided[i].nullable /\ ~requested[t].nullable /\ policy # "coerce")
    BY <2>7
  <2>13. MappingError(provided[i], requested[t], policy, allowed) = NoError
    BY <2>11, <2>12, MappingAccepts DEF cast
  <2>14. requested[t].name \notin DOMAIN idle.defaults
    BY <1>1
  <2>15. TargetError(provided, requested[t], policy, idle) = NoError
    BY <1>4, <2>2, <2>4, <2>13, <2>14, TargetAccepts DEF allowed
  <2> QED
    BY <2>2, <2>5, <2>6, <2>15 DEF i
<1>7. Unmapped(provided, requested, policy, idle) = {}
  <2>1. SUFFICES ASSUME policy # "projection", NEW i \in Kept(provided, idle)
                 PROVE  \E t \in DOMAIN requested :
                          i \in Sources(provided, idle, requested[t].name)
    BY DEF Unmapped
  <2>2. i \in DOMAIN provided
    BY DEF Kept
  <2>3. PICK t \in DOMAIN source : source[t] = i
    BY <1>2, <1>5, <2>1, <2>2 DEF Covers, provided, policy
  <2> QED
    BY <1>5, <1>6, <2>3 DEF FieldSources, provided, requested
<1>8. Mapped(r) = DOMAIN requested /\ Defaulted(r) = {}
  BY <1>1, <1>6 DEF Mapped, Defaulted, requested
<1>9. Matches(r) = Accepted({Carry(r, From(r, t), t) : t \in Mapped(r)},
                            {Given(r, t) : t \in Defaulted(r)})
  <2>1. r.requested \in Seq(Fields)
    BY <1>4 DEF requested
  <2>2. \A t \in DOMAIN r.requested :
          TargetError(r.provided, r.requested[t], r.policy, r.options) = NoError
    BY <1>6 DEF provided, requested, policy
  <2>3. Unmapped(r.provided, r.requested, r.policy, r.options) = {}
    BY <1>7 DEF provided, requested, policy
  <2>4. Matches(r).error = NoError
    BY Zenon, <2>1, <2>2, <2>3, MatchesAccepts
  <2> QED
    BY Zenon, <2>1, <2>4, MatchesAccepts
<1>10. {Carry(r, From(r, t), t) : t \in Mapped(r)} = {Carry(free, source[t], t) : t \in DOMAIN source}
  <2>1. \A t \in DOMAIN requested : Carry(r, From(r, t), t) = Carry(free, source[t], t)
    BY <1>6 DEF Carry
  <2> QED
    BY <1>5, <1>8, <2>1
<1>11. {Given(r, t) : t \in Defaulted(r)} = {}
  BY <1>8
<1> QED
  BY <1>5, <1>9, <1>10, <1>11

(* Renames of shared names to themselves pass every check of operations.   *)
LEMMA IdleIsAllowed ==
  ASSUME NEW provided \in Seq(Fields), NEW requested, NEW policy, policy # "exact", NEW names,
         \A i, j \in DOMAIN provided : provided[i].name = provided[j].name => i = j,
         \A name \in names :
           /\ \E i \in DOMAIN provided : provided[i].name = name
           /\ \E t \in DOMAIN requested : requested[t].name = name
  PROVE  OperationErrors(provided, requested, policy, IdleOptions(names)) = {}
<1> DEFINE idle == IdleOptions(names)
           holders(name) == {i \in DOMAIN provided : provided[i].name = name}
<1>1. /\ DOMAIN idle.renames = names /\ (\A name \in names : idle.renames[name] = name)
      /\ DOMAIN idle.defaults = {} /\ idle.drop = {} /\ DOMAIN idle.casts = {}
  BY DEF IdleOptions, NoOptions
<1> HIDE DEF idle
<1>2. ASSUME NEW name \in names PROVE Cardinality(holders(name)) = 1
  <2>1. PICK i \in DOMAIN provided : provided[i].name = name
    OBVIOUS
  <2>2. holders(name) = {i}
    BY <2>1
  <2> HIDE DEF holders
  <2> QED
    BY <2>2, FS_Singleton
<1>3. NameErrors(provided, DOMAIN idle.renames) = {}
  <2> DEFINE count(name) == Cardinality(holders(name))
             wrong == {name \in DOMAIN idle.renames : count(name) # 1}
  <2>1. NameErrors(provided, DOMAIN idle.renames)
          = {IF count(name) = 0 THEN "MissingProvidedField" ELSE "AmbiguousField" :
               name \in wrong}
    BY DEF NameErrors
  <2>2. \A name \in DOMAIN idle.renames : count(name) = 1
    BY <1>1, <1>2
  <2> HIDE DEF count
  <2>3. wrong = {}
    BY <2>2
  <2> QED
    BY <2>1, <2>3
<1>4. NameErrors(provided, idle.drop) = {}
  BY <1>1 DEF NameErrors
<1>5. Range(idle.renames) \subseteq {requested[t].name : t \in DOMAIN requested}
  BY <1>1 DEF Range
<1> QED
  BY <1>1, <1>3, <1>4, <1>5 DEF OperationErrors, idle

(* So field operations that say nothing change nothing.                    *)
LEMMA IdlePlans ==
  ASSUME NEW request, IsRequest(request), request.policy # "exact", NEW names,
         \A i, j \in DOMAIN request.provided :
           request.provided[i].name = request.provided[j].name => i = j,
         \A name \in names :
           /\ \E i \in DOMAIN request.provided : request.provided[i].name = name
           /\ \E t \in DOMAIN request.requested : request.requested[t].name = name,
         PlanFields(request.provided, request.requested, request.policy).error = NoError
  PROVE  Plans([request EXCEPT !.options = IdleOptions(names)])
           = {PlanFields(request.provided, request.requested, request.policy)}
<1> DEFINE r == [request EXCEPT !.options = IdleOptions(names)]
           free == [request EXCEPT !.options = NoOptions]
           plan == PlanFields(request.provided, request.requested, request.policy)
<1>1. /\ DOMAIN request = {"provided", "requested", "policy", "options"}
      /\ request.provided \in Seq(Fields)
  BY DEF IsRequest
<1>2. /\ r.provided = request.provided /\ r.requested = request.requested
      /\ r.policy = request.policy /\ r.options = IdleOptions(names)
      /\ free.provided = request.provided /\ free.requested = request.requested
      /\ free.policy = request.policy /\ free.options = NoOptions
      /\ DOMAIN free = DOMAIN request
  BY <1>1
<1> HIDE DEF r, free
<1>3. IsRequest(free)
  BY <1>1, <1>2 DEF IsRequest, AreOptions, NoOptions
<1>4. ~HasOptions(free.options)
  BY <1>2 DEF HasOptions, NoOptions
<1>5. plan = PlanFields(free.provided, free.requested, free.policy) /\ plan.error = NoError
  BY <1>2
<1> HIDE DEF plan
<1>6. PICK source : Fills(free, plan, source, {})
  BY <1>2, <1>3, <1>4, <1>5, PositionPlans, ProjectionPlans
<1>7. Matches(r) = plan
  BY <1>2, <1>6, IdleMatches
<1>8. OperationErrors(r.provided, r.requested, r.policy, r.options) = {}
  <2>1. OperationErrors(request.provided, request.requested, request.policy,
                        IdleOptions(names)) = {}
    BY <1>1, IdleIsAllowed
  <2> QED
    BY <1>2, <2>1
<1>9. PlanFields(r.provided, r.requested, r.policy) = plan
  BY <1>2 DEF plan
<1> QED
  BY <1>7, <1>8, <1>9 DEF Plans, Matches, r, plan
=============================================================================
