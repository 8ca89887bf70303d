---------------------------- MODULE CastRegistry ----------------------------
(***************************************************************************)
(* Arrow types as the planner tells them apart, and the registry of casts. *)
(* A cast is "safe", "runtime_checked" or "lossy"; NoCast stands for None. *)
(***************************************************************************)
EXTENDS Integers

SignedRank   == [Int8 |-> 0, Int16 |-> 1, Int32 |-> 2, Int64 |-> 3]
UnsignedRank == [UInt8 |-> 0, UInt16 |-> 1, UInt32 |-> 2, UInt64 |-> 3]

Signed   == DOMAIN SignedRank
Unsigned == DOMAIN UnsignedRank
Floats   == {"Float16", "Float32", "Float64"}
Strings  == {"Utf8", "LargeUtf8"}
Numeric  == Signed \union Unsigned \union Floats

\* Nested stands for every type the registry does not mention.
DataTypes ==
  Numeric \union Strings \union {"Null", "Boolean", "Date32", "Date64", "Nested"}

NoCast    == "none"
CastKinds == {"safe", "runtime_checked", "lossy"}

(* CastKind::rank: the order of permissiveness.                            *)
CastRank == [safe |-> 0, runtime_checked |-> 1, lossy |-> 2]

-----------------------------------------------------------------------------
(* CastRegistry::classify, whose first rule that fits decides: equal types *)
(* need no cast, then come these sets in this order.                       *)

SignedWidening   == {p \in Signed \X Signed : SignedRank[p[1]] < SignedRank[p[2]]}
UnsignedWidening == {p \in Unsigned \X Unsigned : UnsignedRank[p[1]] < UnsignedRank[p[2]]}

\* Mutant: the signed type need not be the wider one.
UnsignedIntoAnySigned == {p \in Unsigned \X Signed : UnsignedRank[p[1]] <= SignedRank[p[2]]}

UnsignedIntoSigned == {p \in Unsigned \X Signed : UnsignedRank[p[1]] < SignedRank[p[2]]}

SafeCasts ==
  ({"Null"} \X DataTypes) \union SignedWidening \union UnsignedWidening
    \union UnsignedIntoSigned
    \union {<<"Float16", "Float32">>, <<"Float16", "Float64">>, <<"Float32", "Float64">>,
            <<"Utf8", "LargeUtf8">>, <<"Date32", "Date64">>}

LossyCasts == (Numeric \X Numeric) \union {<<"Date64", "Date32">>}

RuntimeCheckedCasts ==
  ((Numeric \union {"Boolean"}) \X Strings)
    \union (Strings \X (Numeric \union {"Boolean"}))
    \union {<<"LargeUtf8", "Utf8">>}

Classify(source, target) ==
  IF source = target THEN NoCast
  ELSE IF <<source, target>> \in SafeCasts THEN "safe"
  ELSE IF <<source, target>> \in LossyCasts THEN "lossy"
  ELSE IF <<source, target>> \in RuntimeCheckedCasts THEN "runtime_checked"
  ELSE NoCast

-----------------------------------------------------------------------------
(* The reference the registry is held to: which numbers a type represents. *)
(* A type holds the integers -2^Below .. 2^Above - 1, exactly; a float has *)
(* fractions besides.                                                      *)

Bits == [Int8  |-> 8, Int16  |-> 16, Int32  |-> 32, Int64  |-> 64,
         UInt8 |-> 8, UInt16 |-> 16, UInt32 |-> 32, UInt64 |-> 64,
         Float16 |-> 11, Float32 |-> 24, Float64 |-> 53]

Above(type) == IF type \in Signed THEN Bits[type] - 1 ELSE Bits[type]
Below(type) == IF type \in Unsigned THEN 0 ELSE Above(type)

Represents(target, source) ==
  /\ Above(source) <= Above(target)
  /\ Below(source) <= Below(target)
  /\ source \in Floats => target \in Floats
=============================================================================
