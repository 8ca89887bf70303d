-------------------------- MODULE AvroValueDecoder --------------------------
(***************************************************************************)
(* Decoding Avro values one by one: AvroValueDecoder around arrow-avro's   *)
(* Decoder.  A framed value is a prefix, which names the schema it was     *)
(* written with, and a datum; an unframed one is a datum of the reader     *)
(* schema.  The Decoder holds rows of one writer schema at a time, and no  *)
(* more than batch_size of them: it stops in the middle of a value that    *)
(* needs another schema or more room, until push() has set its rows aside. *)
(*                                                                         *)
(* A value is a sequence of tokens, the k-th value pushed has the number   *)
(* k, and a row is the number of its value, the schema it was written with *)
(* and the schema it was read with.  The Decoder is external; what it does *)
(* at a token, and how it stops, is modelled as far as push() depends on   *)
(* it.  A value that ends inside a message leaves its mark: the Decoder    *)
(* still awaits the datum and takes the next value for it, and of half a   *)
(* datum some columns of a record may keep a value, which makes the next   *)
(* flush of that schema's rows fail.  (Of records with nested fields, what *)
(* the fields below the first level keep is left out.)                     *)
(***************************************************************************)
EXTENDS Integers, Sequences

CONSTANTS
  Schemas,      (* the writer schemas the decoder was given                *)
  Unknown,      (* a schema ID it was not given                            *)
  NoSchema,     (* no schema change is pending                             *)
  BatchSizes,   (* batch_size values a caller asks for                     *)
  MaxValues     (* bound: values pushed                                    *)

ASSUME SchemasAssumption ==
  /\ Unknown \notin Schemas /\ NoSchema \notin Schemas

ASSUME SizesAssumption == BatchSizes \subseteq Nat \ {0} /\ MaxValues \in Nat

VARIABLES
  framed, batchSize,
  active,       (* the schema the Decoder reads datums with                *)
  pending,      (* the one it changes to once its rows are flushed         *)
  capacity,     (* rows it still takes                                     *)
  awaiting,     (* it has read a prefix and not its datum                  *)
  torn,         (* the schemas of which it keeps a part of a datum         *)
  buffered,     (* the rows in it                                          *)
  decoded,      (* the rows set aside                                      *)
  pc,           (* "idle", in decode() of the Decoder "decoding", after it *)
                (* "checking"                                              *)
  rest,         (* what is left of the value                               *)
  (* History variables. *)
  pushed,       (* values pushed                                           *)
  owed,         (* the numbers of those that are one message               *)
  cutShort,     (* some value ended inside a message                       *)
  failed,       (* some push() or flush() returned an error                *)
  due,          (* what owed was at the last flush()                       *)
  delivered     (* rows flush() has returned                               *)

decoderVars == <<active, pending, capacity, awaiting, torn, buffered>>
history == <<pushed, owed, cutShort, failed, due, delivered>>
vars == <<framed, batchSize, decoderVars, decoded, pc, rest, history>>

-----------------------------------------------------------------------------
Token(token, schema, value) == [token |-> token, schema |-> schema, value |-> value]

Prefix(s)  == Token("prefix", s, 0)
Datum(s, k) == Token("datum", s, k)
Cut        == Token("cut", NoSchema, 0)     \* too few bytes for a prefix
Half       == Token("half", NoSchema, 0)    \* a datum that is cut short

\* The values that are what they must be.
Messages(k) ==
  IF framed THEN {<<Prefix(s), Datum(s, k)>> : s \in Schemas} ELSE {<<Datum(active, k)>>}

\* And others: nothing, a message with something after it or cut short, and among
\* framed ones a part of a prefix, a prefix alone, an unknown schema.
Malformed(k) ==
  {<<>>} \union {m \o <<Cut>> : m \in Messages(k)}
    \union {m \o n : m, n \in Messages(k)}
    \union IF framed
             THEN {<<Cut>>, <<Prefix(Unknown), Datum(Unknown, k)>>}
                    \union {<<Prefix(s)>> : s \in Schemas}
                    \union {<<Prefix(s), Half>> : s \in Schemas}
             ELSE {<<Half>>}

\* A value ends inside a message if its last token wants another.
EndsInside(value) == value # <<>> /\ value[Len(value)].token \in {"prefix", "half"}

\* Mutant: the builder keeps a batch size of its own.
InitDefaultSize ==
  /\ framed \in BOOLEAN
  /\ batchSize \in BatchSizes
  /\ active \in Schemas
  /\ pending = NoSchema
  /\ capacity = 1024
  /\ awaiting = FALSE /\ torn = {}
  /\ buffered = <<>> /\ decoded = <<>>
  /\ pc = "idle" /\ rest = <<>>
  /\ pushed = 0 /\ owed = {} /\ cutShort = FALSE /\ failed = FALSE
  /\ due = {} /\ delivered = <<>>

(* AvroValueDecoder::new.  Unframed, the active schema is the reader's;    *)
(* framed, it is any of the writers' until the first prefix.               *)
Init ==
  /\ framed \in BOOLEAN
  /\ batchSize \in BatchSizes
  /\ active \in Schemas
  /\ pending = NoSchema
  /\ capacity = batchSize
  /\ awaiting = FALSE /\ torn = {}
  /\ buffered = <<>> /\ decoded = <<>>
  /\ pc = "idle" /\ rest = <<>>
  /\ pushed = 0 /\ owed = {} /\ cutShort = FALSE /\ failed = FALSE
  /\ due = {} /\ delivered = <<>>

-----------------------------------------------------------------------------
\* The rows of a flush have a value in every column, or it fails.
FlushFails == active \in torn /\ capacity < batchSize

\* Flushing the Decoder empties it, if there can be rows in it, and makes the
\* pending schema the active one, even if it fails.
FlushDecoder ==
  /\ buffered' = <<>>
  /\ capacity' = IF FlushFails THEN capacity ELSE batchSize
  /\ torn' = IF capacity < batchSize THEN torn \ {active} ELSE torn
  /\ active' = IF pending = NoSchema THEN active ELSE pending
  /\ pending' = NoSchema
  /\ UNCHANGED awaiting

\* Mutant: the rows set aside are replaced.
SetAsideLast ==
  /\ ~FlushFails
  /\ FlushDecoder
  /\ decoded' = buffered

SetAside ==
  /\ ~FlushFails
  /\ FlushDecoder
  /\ decoded' = decoded \o buffered

\* The rows of a flush that fails are lost.
SetAsideFails ==
  /\ FlushFails
  /\ FlushDecoder
  /\ UNCHANGED decoded

Enter(value) ==
  /\ pc = "idle"
  /\ pushed < MaxValues
  /\ pushed' = pushed + 1
  /\ owed' = IF value \in Messages(pushed + 1) THEN owed \union {pushed + 1} ELSE owed
  /\ cutShort' = (cutShort \/ EndsInside(value))
  /\ UNCHANGED <<framed, batchSize, due, delivered>>

(* push() begins: a full Decoder is emptied first.                         *)
Push(value) ==
  /\ Enter(value)
  /\ IF capacity = 0 THEN SetAside ELSE UNCHANGED <<decoderVars, decoded>>
  /\ pc' = "decoding"
  /\ rest' = value
  /\ UNCHANGED failed

(* If that fails, the value is not looked at.                              *)
PushFails(value) ==
  /\ Enter(value)
  /\ capacity = 0 /\ SetAsideFails
  /\ failed' = TRUE
  /\ UNCHANGED <<pc, rest>>

-----------------------------------------------------------------------------
(* decode() of the Decoder, token by token.                                *)

Reads(token) ==
  /\ pc = "decoding" /\ capacity > 0 /\ rest # <<>>
  /\ Head(rest).token = token

(* The prefix of another schema waits for the rows in the Decoder.         *)
DecodePrefix ==
  /\ Reads("prefix") /\ ~awaiting
  /\ Head(rest).schema \in Schemas
  /\ awaiting' = TRUE
  /\ rest' = Tail(rest)
  /\ LET s == Head(rest).schema IN
     IF s = active \/ capacity = batchSize
       THEN active' = s /\ UNCHANGED <<pending, capacity>>
       ELSE pending' = s /\ capacity' = 0 /\ UNCHANGED active
  /\ UNCHANGED <<framed, batchSize, torn, buffered, decoded, pc, history>>

\* A row takes room and is what the Decoder awaited.
TakeRow(row) ==
  /\ buffered' = Append(buffered, row)
  /\ capacity' = capacity - 1
  /\ awaiting' = FALSE
  /\ UNCHANGED <<framed, batchSize, active, pending, torn, decoded, history>>

(* One datum, after which an unframed decoder stops.                       *)
DecodeDatum ==
  /\ Reads("datum")
  /\ TakeRow([value |-> Head(rest).value, writer |-> Head(rest).schema, reader |-> active])
  /\ rest' = Tail(rest)
  /\ pc' = IF framed THEN pc ELSE "checking"

\* A value pushed where the rest of a message is awaited.
Misplaced == awaiting /\ (Reads("prefix") \/ Reads("cut"))

(* Its bytes may be a datum, a row of no value, whatever is then left.     *)
DecodeMisread ==
  /\ Misplaced
  /\ TakeRow([value |-> 0, writer |-> NoSchema, reader |-> active])
  /\ rest' \in {<<>>, <<Cut>>} \union {<<Prefix(s)>> : s \in Schemas \union {Unknown}}
  /\ UNCHANGED pc

\* push() returns; what is left of the value is forgotten.
Return(error) ==
  /\ pc' = "idle"
  /\ rest' = <<>>
  /\ failed' = (failed \/ error)
  /\ UNCHANGED <<framed, batchSize, decoderVars, decoded, pushed, owed, cutShort, due, delivered>>

(* Or a part of one, like half a datum: the Decoder stops in it, or makes  *)
(* it an error, and may keep some of it.                                   *)
DecodePart ==
  /\ Misplaced \/ Reads("half")
  /\ torn' \in {torn, torn \union {active}}
  /\ \/ pc' = "checking" /\ UNCHANGED <<rest, failed>>
     \/ pc' = "idle" /\ rest' = <<>> /\ failed' = TRUE
  /\ UNCHANGED <<framed, batchSize, active, pending, capacity, awaiting, buffered, decoded>>
  /\ UNCHANGED <<pushed, owed, cutShort, due, delivered>>

DecodeStops ==
  /\ pc = "decoding"
  /\ rest # <<>> /\ capacity > 0 => Head(rest).token = "cut" /\ ~awaiting
  /\ pc' = "checking"
  /\ UNCHANGED <<framed, batchSize, decoderVars, decoded, rest, history>>

(* An unknown schema ID is an error of the Decoder.                        *)
DecodeUnknown ==
  /\ Reads("prefix") /\ ~awaiting
  /\ Head(rest).schema = Unknown
  /\ Return(TRUE)

-----------------------------------------------------------------------------
(* push() after decode(): while something is left of a framed value and    *)
(* there are rows to set aside, it sets them aside and decodes on.         *)

\* Mutant: whether there were any rows is not looked at.
GoOnAlways ==
  /\ pc = "checking" /\ framed /\ rest # <<>>
  /\ SetAside
  /\ pc' = "decoding"
  /\ UNCHANGED <<framed, batchSize, rest, history>>

GoOn ==
  /\ pc = "checking" /\ framed /\ rest # <<>>
  /\ capacity < batchSize
  /\ SetAside
  /\ pc' = "decoding"
  /\ UNCHANGED <<framed, batchSize, rest, history>>

GoOnFails ==
  /\ pc = "checking" /\ framed /\ rest # <<>>
  /\ SetAsideFails
  /\ pc' = "idle" /\ rest' = <<>> /\ failed' = TRUE
  /\ UNCHANGED <<framed, batchSize, pushed, owed, cutShort, due, delivered>>

(* Otherwise it returns, with an error if anything is left.                *)
PushReturns ==
  /\ pc = "checking"
  /\ rest = <<>> \/ ~framed \/ capacity = batchSize
  /\ Return(rest # <<>>)

(* flush() returns the rows set aside and those in the Decoder, as one     *)
(* batch.                                                                  *)
Flush ==
  /\ pc = "idle"
  /\ ~FlushFails
  /\ FlushDecoder
  /\ decoded' = <<>>
  /\ delivered' = delivered \o decoded \o buffered
  /\ due' = owed
  /\ UNCHANGED <<framed, batchSize, pc, rest, pushed, owed, cutShort, failed>>

(* If the Decoder fails, what was set aside waits for the next flush().    *)
FlushRaises ==
  /\ pc = "idle"
  /\ SetAsideFails
  /\ failed' = TRUE
  /\ UNCHANGED <<framed, batchSize, pc, rest, pushed, owed, cutShort, due, delivered>>

Advance ==
  \/ DecodePrefix \/ DecodeDatum \/ DecodeMisread \/ DecodePart \/ DecodeStops
  \/ DecodeUnknown \/ GoOn \/ GoOnFails \/ PushReturns

Next ==
  \/ \E value \in Messages(pushed + 1) \union Malformed(pushed + 1) :
       Push(value) \/ PushFails(value)
  \/ Advance
  \/ Flush \/ FlushRaises

Spec == Init /\ [][Next]_vars

(* push() runs to its end: it waits for nothing.                           *)
FairSpec == Spec /\ WF_vars(Advance)

-----------------------------------------------------------------------------
Rows == [value : 0 .. MaxValues, writer : Schemas \union {NoSchema}, reader : Schemas]

TypeOK ==
  /\ framed \in BOOLEAN /\ batchSize \in BatchSizes
  /\ active \in Schemas /\ pending \in Schemas \union {NoSchema}
  /\ awaiting \in BOOLEAN /\ torn \subseteq Schemas
  /\ capacity \in 0 .. batchSize /\ (pending # NoSchema => capacity = 0)
  /\ Len(buffered) + capacity <= batchSize
  /\ buffered \in Seq(Rows) /\ decoded \in Seq(Rows) /\ delivered \in Seq(Rows)
  /\ pc \in {"idle", "decoding", "checking"}
  /\ pc = "idle" => rest = <<>>
  /\ cutShort \in BOOLEAN /\ failed \in BOOLEAN

\* All rows there are, in the order flush() delivers them.
AllRows == delivered \o decoded \o buffered

Values(rows) == {rows[i].value : i \in DOMAIN rows}

(* As long as no value ended inside a message, every value that is one     *)
(* message of a known schema is taken and its row is in the next flush(),  *)
(* however schemas alternate, rows are set aside, and other values fail in *)
(* between.  Whatever was pushed, the row of a value comes once, in order, *)
(* and was read with the schema it was written with.                       *)
RowsOnceInOrder ==
  /\ ~cutShort => /\ Values(delivered) \intersect owed = due
                  /\ pc = "idle" => owed \subseteq Values(AllRows)
  /\ \A i, j \in DOMAIN AllRows :
       i < j /\ {AllRows[i].value, AllRows[j].value} \subseteq owed
         => AllRows[i].value < AllRows[j].value
  /\ \A i \in DOMAIN AllRows : AllRows[i].value # 0 => AllRows[i].reader = AllRows[i].writer

(* push() returns, whatever the value.                                     *)
PushEnds == pc # "idle" ~> pc = "idle"

(* "flush returns every row pushed since the last flush": if no call       *)
(* returned an error, no value that is one message is missing.             *)
NothingLostSilently ==
  pc = "idle" /\ ~failed => owed \subseteq Values(AllRows)
=============================================================================
