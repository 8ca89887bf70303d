---------------------------- MODULE MCInterchange ----------------------------
(***************************************************************************)
(* Two families of requests for TLC: every pair of types in schemas of one *)
(* field, and every arrangement of up to two fields under field operations.*)
(***************************************************************************)
EXTENDS Interchange

Field(name, type, nullable) == [name |-> name, type |-> type, nullable |-> nullable]
Request(provided, requested, policy, options) ==
  [provided |-> provided, requested |-> requested, policy |-> policy, options |-> options]

CastAll(kind) == [NoOptions EXCEPT !.casts = [name \in {"a"} |-> kind]]

SingleFields ==
  LET schemas == {<<Field("a", type, nullable)>> : type \in DataTypes, nullable \in BOOLEAN}
  IN {Request(provided, requested, policy, options) :
        provided \in schemas, requested \in schemas, policy \in Policies,
        options \in {NoOptions} \union {CastAll(kind) : kind \in CastKinds}}

(* Schemas of at most two fields, among them those with a name twice.      *)
Arranged(fields) == UNION {[1 .. n -> fields] : n \in 0 .. 2}

Default(length, type, null, fits) ==
  [length |-> length, type |-> type, null |-> null, fits |-> fits]
None == Default(1, "Null", TRUE, DataTypes)

FieldOperations ==
  LET renames == {("a" :> "b"), ("a" :> "b" @@ "b" :> "a"), ("b" :> "b"), ("a" :> "c"),
                  ("c" :> "a")}
      values  == {Default(1, "Int64", FALSE, {"Int8"}), Default(1, "Int64", TRUE, {}), None,
                  Default(2, "Int64", FALSE, {"Int8"})}
  IN {NoOptions}
       \union {[NoOptions EXCEPT !.renames = r] : r \in renames}
       \union {[NoOptions EXCEPT !.drop = d] : d \in {{"a"}, {"a", "b"}, {"c"}}}
       \union {[NoOptions EXCEPT !.defaults = "b" :> value] : value \in values}
       \union {[NoOptions EXCEPT !.casts = "a" :> kind] : kind \in {"safe", "lossy"}}
       \union {[NoOptions EXCEPT !.renames = "a" :> "b", !.drop = d] : d \in {{"a"}, {"b"}}}
       \union {[NoOptions EXCEPT !.renames = "a" :> "b", !.casts = "b" :> "lossy",
                                 !.defaults = "a" :> value] : value \in values}
       \union {[NoOptions EXCEPT !.drop = {"b"}, !.defaults = "b" :> value] : value \in values}

Arrangements ==
  {Request(provided, requested, policy, options) :
     provided  \in Arranged({Field("a", "Int8", FALSE), Field("a", "UInt8", TRUE),
                             Field("b", "Int8", FALSE), Field("b", "Int8", TRUE)}),
     requested \in Arranged({Field("a", "Int8", FALSE), Field("a", "Int8", TRUE),
                             Field("b", "Int8", TRUE), Field("b", "UInt8", FALSE)}),
     policy    \in Policies,
     options   \in FieldOperations}

AllFamilies == [single |-> SingleFields, arranged |-> Arrangements]
ArrangedFamily == [arranged |-> Arrangements]
=============================================================================
