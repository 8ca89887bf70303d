------------------------------ MODULE Planner ------------------------------
(***************************************************************************)
(* How a plan is made from two schemas, a policy and field operations.     *)
(*                                                                         *)
(* A schema is a sequence of fields [name, type, nullable]; the operations *)
(* are functions from some of the names (`renames`, `defaults`, `casts`)   *)
(* and a set of names (`drop`).  A plan is a record: `error` is NoError    *)
(* and `mappings` and `additions` are what execution follows, or `error`   *)
(* names the InterchangeError and there is nothing to follow.  The code    *)
(* lists both in the order of the targets; nothing depends on it, and here *)
(* they are sets.                                                          *)
(***************************************************************************)
EXTENDS CastRegistry, Sequences, FiniteSets, SequencesExt

NoError == "NoError"

Policies == {"exact", "projection", "compatible", "coerce"}
Fields   == [name : STRING, type : DataTypes, nullable : BOOLEAN]
Defaults ==
  [length : Nat, type : DataTypes, null : BOOLEAN, fits : SUBSET DataTypes]

AreOptions(options) ==
  /\ \A name \in DOMAIN options.renames  : options.renames[name] \in STRING
  /\ \A name \in DOMAIN options.defaults : options.defaults[name] \in Defaults
  /\ \A name \in DOMAIN options.casts    : options.casts[name] \in CastKinds

IsRequest(request) ==
  /\ DOMAIN request = {"provided", "requested", "policy", "options"}
  /\ request.provided \in Seq(Fields) /\ request.requested \in Seq(Fields)
  /\ request.policy \in Policies /\ AreOptions(request.options)

Rejected(error) == [error |-> error, mappings |-> {}, additions |-> {}]

Accepted(mappings, additions) ==
  [error |-> NoError, mappings |-> mappings, additions |-> additions]

Mapping(source, target, cast, checkNulls) ==
  [source |-> source, target |-> target, cast |-> cast, checkNulls |-> checkNulls]

(* Checks are listed in the order of the code; the first that fails gives  *)
(* the error, as does the first field of an iterator that is collected.    *)
FailsWith(condition, error) == IF condition THEN error ELSE NoError

FirstError(errors) ==
  LET i == SelectInSeq(errors, LAMBDA error : error # NoError)
  IN IF i = 0 THEN NoError ELSE errors[i]

\* <<>> is the function with no arguments, so an empty map.
NoOptions == [renames |-> <<>>, defaults |-> <<>>, drop |-> {}, casts |-> <<>>]

HasOptions(options) ==
  \/ options.drop # {}
  \/ UNION {DOMAIN options.renames, DOMAIN options.defaults, DOMAIN options.casts} # {}

-----------------------------------------------------------------------------
(* Plans without field operations.                                         *)

\* Mutant: the types of the fields are not compared.
FieldErrorsUntyped(source, target) ==
  <<FailsWith(source.nullable /\ ~target.nullable, "Nullability")>>

FieldErrors(source, target) ==
  <<FailsWith(source.type # target.type, "TypeMismatch"),
    FailsWith(source.nullable /\ ~target.nullable, "Nullability")>>

(* Exact, compatible and coerce pair the fields by position: `errors` are  *)
(* what is wrong with each pair, once the names agree.                     *)
Pair(provided, requested, errors, mappings) ==
  LET error == FirstError([i \in DOMAIN requested |->
                 FirstError(<<FailsWith(provided[i].name # requested[i].name, "FieldName")>>
                              \o errors[i])])
  IN IF Len(provided) # Len(requested) THEN Rejected("FieldCount")
     ELSE IF error # NoError THEN Rejected(error)
     ELSE Accepted(mappings, {})

PlanExact(provided, requested) ==
  Pair(provided, requested,
       [i \in DOMAIN requested |->
          FieldErrors(provided[i], requested[i])
            \o <<FailsWith(provided[i].nullable # requested[i].nullable, "ExactNullability")>>],
       {Mapping(i, i, NoCast, FALSE) : i \in DOMAIN requested})

CastOf(source, target) == Classify(source.type, target.type)

PlanCompatible(provided, requested) ==
  Pair(provided, requested,
       [i \in DOMAIN requested |->
          LET source == provided[i]  target == requested[i] IN
          <<FailsWith(source.nullable /\ ~target.nullable, "Nullability"),
            FailsWith(source.type # target.type /\ CastOf(source, target) # "safe",
                      "UnsafeCast")>>],
       {Mapping(i, i, CastOf(provided[i], requested[i]), FALSE) : i \in DOMAIN requested})

PlanCoerce(provided, requested) ==
  Pair(provided, requested,
       [i \in DOMAIN requested |->
          LET source == provided[i]  target == requested[i] IN
          <<FailsWith(source.type # target.type /\ CastOf(source, target) = NoCast,
                      "UnsupportedCast")>>],
       {Mapping(i, i, CastOf(provided[i], requested[i]),
                provided[i].nullable /\ ~requested[i].nullable) : i \in DOMAIN requested})

(* Projection pairs them by name.                                          *)
PlanProjection(provided, requested) ==
  LET sources(t) == {i \in DOMAIN provided : provided[i].name = requested[t].name}
      source(t)  == CHOOSE i \in sources(t) : TRUE
      verdict(t) ==
        IF sources(t) = {} THEN "MissingField"
        ELSE IF Cardinality(sources(t)) > 1 THEN "AmbiguousField"
        ELSE FirstError(FieldErrors(provided[source(t)], requested[t]))
      error == FirstError([t \in DOMAIN requested |-> verdict(t)])
  IN IF error # NoError THEN Rejected(error)
     ELSE Accepted({Mapping(source(t), t, NoCast, FALSE) : t \in DOMAIN requested}, {})

PlanFields(provided, requested, policy) ==
  CASE policy = "exact"      -> PlanExact(provided, requested)
    [] policy = "projection" -> PlanProjection(provided, requested)
    [] policy = "compatible" -> PlanCompatible(provided, requested)
    [] policy = "coerce"     -> PlanCoerce(provided, requested)

-----------------------------------------------------------------------------
(* Plans with field operations: fields are matched by name after renames.  *)

\* Mutant: under coerce, a lossy cast has to be asked for.
AllowedCastChecked(policy, options, name) ==
  IF name \in DOMAIN options.casts THEN options.casts[name]
  ELSE CASE policy = "compatible" -> "safe"
         [] policy = "coerce"     -> "runtime_checked"
         [] policy = "projection" -> NoCast

(* The most permissive cast a field may need, NoCast for none at all.      *)
AllowedCast(policy, options, name) ==
  IF name \in DOMAIN options.casts THEN options.casts[name]
  ELSE CASE policy = "compatible" -> "safe"
         [] policy = "coerce"     -> "lossy"
         [] policy = "projection" -> NoCast

\* Mutant: how permissive the cast is goes unchecked.
CastErrorsUnranked(source, target, allowed) ==
  IF source.type = target.type THEN <<>>
  ELSE <<FailsWith(allowed = NoCast, "TypeMismatch"),
         FailsWith(CastOf(source, target) = NoCast, "UnsupportedCast")>>

CastErrors(source, target, allowed) ==
  LET cast == CastOf(source, target) IN
  IF source.type = target.type THEN <<>>
  ELSE <<FailsWith(allowed = NoCast, "TypeMismatch"),
         FailsWith(cast = NoCast, "UnsupportedCast"),
         FailsWith(cast # NoCast /\ allowed # NoCast
                     /\ CastRank[cast] > CastRank[allowed], "CastNotAllowed")>>

MappingError(source, target, policy, allowed) ==
  FirstError(CastErrors(source, target, allowed)
               \o <<FailsWith(source.nullable /\ ~target.nullable /\ policy # "coerce",
                              "Nullability")>>)

(* A default is an array of a type with `length` elements, the first of    *)
(* them null or a value, that can be cast to the types in `fits`.  is_null *)
(* looks for a null buffer, which an array of type Null has not: Python's  *)
(* None comes as such an array, and is cast like a value.                  *)
SeenNull(default) == default.null /\ default.type # "Null"

AdditionError(target, default) ==
  FirstError(<<FailsWith(default.length # 1, "DefaultLength"),
               FailsWith(SeenNull(default) /\ ~target.nullable, "NullDefault"),
               FailsWith(~SeenNull(default) /\ target.type \notin default.fits,
                         "DefaultCast")>>)

(* Renames and drops are looked at in the order their map iterates in, so  *)
(* of several wrong names any may be the one reported, a rename first.     *)
NameErrors(provided, names) ==
  LET holders(name) == Cardinality({i \in DOMAIN provided : provided[i].name = name})
  IN {IF holders(name) = 0 THEN "MissingProvidedField" ELSE "AmbiguousField" :
        name \in {n \in names : holders(n) # 1}}

OperationErrors(provided, requested, policy, options) ==
  LET names == {requested[t].name : t \in DOMAIN requested}
      badRenames == NameErrors(provided, DOMAIN options.renames)
      badDrops   == NameErrors(provided, options.drop)
  IN IF policy = "exact" THEN {"ExactOperations"}
     ELSE IF badRenames # {} THEN badRenames
     ELSE IF badDrops # {} THEN badDrops
     ELSE IF options.drop \intersect DOMAIN options.renames # {} THEN {"RenameDropConflict"}
     ELSE IF ~(Range(options.renames) \union DOMAIN options.defaults
                 \union DOMAIN options.casts \subseteq names)
       THEN {"UnknownRequestedField"}
     ELSE {}

Renamed(options, name) ==
  IF name \in DOMAIN options.renames THEN options.renames[name] ELSE name

Kept(provided, options) ==
  {i \in DOMAIN provided : provided[i].name \notin options.drop}

(* The provided fields that carry a requested name once renamed.           *)
Sources(provided, options, name) ==
  {i \in Kept(provided, options) : Renamed(options, provided[i].name) = name}

\* Mutant: a field that is provided and has a default is not refused.
TargetErrorBoth(provided, target, policy, options) ==
  LET sources    == Sources(provided, options, target.name)
      hasDefault == target.name \in DOMAIN options.defaults
  IN IF Cardinality(sources) > 1 THEN "AmbiguousField"
     ELSE IF sources = {} /\ ~hasDefault THEN "MissingField"
     ELSE IF sources = {} THEN AdditionError(target, options.defaults[target.name])
     ELSE MappingError(provided[CHOOSE i \in sources : TRUE], target, policy,
                       AllowedCast(policy, options, target.name))

TargetError(provided, target, policy, options) ==
  LET sources    == Sources(provided, options, target.name)
      hasDefault == target.name \in DOMAIN options.defaults
  IN IF Cardinality(sources) > 1 THEN "AmbiguousField"
     ELSE IF sources = {} /\ ~hasDefault THEN "MissingField"
     ELSE IF sources = {} THEN AdditionError(target, options.defaults[target.name])
     ELSE IF hasDefault THEN "DefaultConflict"
     ELSE MappingError(provided[CHOOSE i \in sources : TRUE], target, policy,
                       AllowedCast(policy, options, target.name))

\* Mutant: only a compatible plan refuses to lose a field.
UnmappedCompatible(provided, requested, policy, options) ==
  IF policy # "compatible" THEN {}
  ELSE Kept(provided, options)
         \ UNION {Sources(provided, options, requested[t].name) : t \in DOMAIN requested}

(* The kept fields nothing uses; only projection leaves fields out.        *)
Unmapped(provided, requested, policy, options) ==
  IF policy = "projection" THEN {}
  ELSE Kept(provided, options)
         \ UNION {Sources(provided, options, requested[t].name) : t \in DOMAIN requested}

PlanMatches(provided, requested, policy, options) ==
  LET sources(t) == Sources(provided, options, requested[t].name)
      mapped     == {t \in DOMAIN requested : sources(t) # {}}
      added      == {t \in DOMAIN requested : requested[t].name \in DOMAIN options.defaults}
      mapping(t) ==
        LET i == CHOOSE i \in sources(t) : TRUE
        IN Mapping(i, t, CastOf(provided[i], requested[t]),
                   provided[i].nullable /\ ~requested[t].nullable)
      addition(t) == [target |-> t, null |-> options.defaults[requested[t].name].null]
      error == FirstError([t \in DOMAIN requested |->
                 TargetError(provided, requested[t], policy, options)])
  IN IF error # NoError THEN Rejected(error)
     ELSE IF Unmapped(provided, requested, policy, options) # {} THEN Rejected("UnmappedField")
     ELSE Accepted({mapping(t) : t \in mapped}, {addition(t) : t \in added})

-----------------------------------------------------------------------------
(* plan_schema_with: the plans a request may be answered with.             *)
Plans(request) ==
  LET errors == OperationErrors(request.provided, request.requested, request.policy,
                                request.options)
  IN IF ~HasOptions(request.options)
       THEN {PlanFields(request.provided, request.requested, request.policy)}
     ELSE IF errors # {} THEN {Rejected(error) : error \in errors}
     ELSE {PlanMatches(request.provided, request.requested, request.policy,
                       request.options)}
=============================================================================
