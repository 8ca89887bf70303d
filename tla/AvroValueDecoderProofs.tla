----------------------- MODULE AvroValueDecoderProofs -----------------------
(***************************************************************************)
(* Proofs about AvroValueDecoder, for any schemas, any batch sizes and any *)
(* number of values.                                                       *)
(*                                                                         *)
(* RowsOnceInOrder is not inductive: it says nothing of the value that is  *)
(* being decoded.  IInv adds that a datum is next only while the Decoder   *)
(* reads, or is about to read, with the datum's schema (RestInv), and that *)
(* an owed value has one datum and no row yet (OnceInv), whatever values   *)
(* came before.  As long as none ended inside a message, the Decoder       *)
(* awaits a datum only where one comes, and no flush fails (WholeInv); of  *)
(* a value that is owed, the row is there, or all that makes it is left    *)
(* and push() will not give up before it has read that (MessageInv).       *)
(***************************************************************************)
EXTENDS AvroValueDecoder, SequenceTheorems, TLAPS

Tokens == [token : {"prefix", "datum", "cut", "half"},
           schema : Schemas \union {Unknown, NoSchema}, value : Nat]

\* The schema the next datum will be read with.
Current == IF pending = NoSchema THEN active ELSE pending

CountInv ==
  /\ pushed \in 0 .. MaxValues
  /\ pc # "idle" => pushed > 0
  /\ owed \subseteq 1 .. pushed
  /\ rest \in Seq(Tokens)

FramingInv ==
  /\ pending # NoSchema => framed
  /\ awaiting => framed

Announced(i) ==
  IF ~framed THEN rest[i].schema = active
  ELSE IF i = 1 THEN rest[i].schema = Current
  ELSE rest[i - 1] = Prefix(rest[i].schema)

RestInv ==
  \A i \in DOMAIN rest :
    /\ rest[i].token = "datum" => rest[i].value = pushed /\ Announced(i)
    /\ rest[i].token = "prefix" => framed

(* A value that is one message has one datum, until that is read.          *)
OnceInv ==
  pushed \in owed =>
    \A i \in DOMAIN rest :
      rest[i].token = "datum" => i = Len(rest) /\ pushed \notin Values(AllRows)

(* Every prefix has its datum, and every datum is whole.                   *)
Whole(value) ==
  \A i \in DOMAIN value :
    /\ value[i].token # "half"
    /\ value[i].token = "prefix" =>
         i + 1 \in DOMAIN value /\ value[i + 1].token = "datum"

WholeInv ==
  ~cutShort =>
    /\ torn = {}
    /\ Whole(rest)
    /\ awaiting => /\ 1 \in DOMAIN rest /\ rest[1].token = "datum"
                   /\ pc = "checking" => capacity = 0

(* All that is left of the value is what makes its row, and push() goes on.*)
StillComes ==
  /\ \E s \in Schemas :
       \/ rest = <<Datum(s, pushed)>>
       \/ framed /\ rest = <<Prefix(s), Datum(s, pushed)>>
  /\ framed \/ (pc = "decoding" /\ capacity > 0)
  /\ pc = "checking" => capacity = 0

MessageInv ==
  ~cutShort /\ pc # "idle" /\ pushed \in owed =>
    pushed \in Values(AllRows) \/ StillComes

RowsInv ==
  /\ \A i \in DOMAIN AllRows : AllRows[i].value <= pushed
  /\ ~cutShort => \A k \in owed : k \in Values(AllRows) \/ (k = pushed /\ pc # "idle")

IInv ==
  /\ TypeOK /\ CountInv /\ FramingInv /\ RestInv /\ OnceInv /\ WholeInv /\ MessageInv
  /\ RowsInv /\ RowsOnceInOrder

-----------------------------------------------------------------------------
(* The rows, wherever they are, are a sequence of rows.                    *)
LEMMA AllRowsType ==
  ASSUME TypeOK
  PROVE  AllRows \in Seq(Rows)
BY DEF TypeOK, AllRows

(* A row more is a value more.                                             *)
LEMMA AppendedRow ==
  ASSUME NEW rows \in Seq(Rows), NEW row \in Rows
  PROVE  /\ Append(rows, row) \in Seq(Rows)
         /\ DOMAIN rows = 1 .. Len(rows) /\ Len(rows) \in Nat
         /\ DOMAIN Append(rows, row) = 1 .. Len(rows) + 1
         /\ \A i \in DOMAIN rows : Append(rows, row)[i] = rows[i] /\ rows[i] \in Rows
         /\ Append(rows, row)[Len(rows) + 1] = row
         /\ Values(Append(rows, row)) = Values(rows) \union {row.value}
<1>1. /\ Append(rows, row) \in Seq(Rows) /\ Len(rows) \in Nat
      /\ DOMAIN rows = 1 .. Len(rows)
      /\ DOMAIN Append(rows, row) = 1 .. Len(rows) + 1
      /\ \A i \in DOMAIN rows : Append(rows, row)[i] = rows[i] /\ rows[i] \in Rows
      /\ Append(rows, row)[Len(rows) + 1] = row
  BY AppendProperties
<1>2. DOMAIN Append(rows, row) = DOMAIN rows \union {Len(rows) + 1}
  BY <1>1
<1>3. Values(Append(rows, row)) = Values(rows) \union {row.value}
  BY <1>1, <1>2, Zenon DEF Values
<1> QED
  BY <1>1, <1>3

(* What was delivered is among all the rows.                               *)
LEMMA DeliveredRows ==
  ASSUME TypeOK
  PROVE  Values(delivered) \subseteq Values(AllRows)
<1>1. /\ delivered \in Seq(Rows) /\ decoded \o buffered \in Seq(Rows)
      /\ AllRows = delivered \o (decoded \o buffered)
  BY DEF TypeOK, AllRows
<1>2. /\ Len(delivered) \in Nat /\ Len(decoded \o buffered) \in Nat
      /\ DOMAIN delivered = 1 .. Len(delivered)
      /\ DOMAIN AllRows = 1 .. Len(delivered) + Len(decoded \o buffered)
      /\ \A i \in DOMAIN delivered : AllRows[i] = delivered[i]
  BY <1>1
<1>3. \A i \in DOMAIN delivered : i \in DOMAIN AllRows /\ AllRows[i] = delivered[i]
  BY <1>2
<1> QED
  BY <1>3 DEF Values

(* Flushing the Decoder, if it does not fail, makes room, and in any case  *)
(* the schema the next datum will be read with stays the same.             *)
LEMMA FlushedDecoder ==
  ASSUME TypeOK, FramingInv, FlushDecoder, UNCHANGED <<framed, batchSize>>
  PROVE  /\ buffered' = <<>> /\ pending' = NoSchema /\ capacity' \in 0 .. batchSize
         /\ ~FlushFails => capacity' = batchSize /\ capacity' > 0
         /\ active' = Current /\ active' \in Schemas /\ awaiting' = awaiting
         /\ Current' = Current /\ torn' \subseteq torn
         /\ FramingInv'
<1>1. Current \in Schemas
  BY DEF TypeOK, Current
<1>2. /\ buffered' = <<>> /\ pending' = NoSchema /\ active' = Current
      /\ awaiting' = awaiting /\ torn' \subseteq torn
  BY DEF FlushDecoder, Current
<1>3. capacity' = IF FlushFails THEN capacity ELSE batchSize
  BY DEF FlushDecoder
<1>4. batchSize \in Nat \ {0} /\ capacity \in 0 .. batchSize
  BY SizesAssumption DEF TypeOK
<1>5. capacity' \in 0 .. batchSize /\ (~FlushFails => capacity' = batchSize /\ capacity' > 0)
  BY <1>3, <1>4
<1>6. FramingInv'
  BY <1>2 DEF FramingInv
<1> QED
  BY <1>1, <1>2, <1>5, <1>6 DEF Current

(* And it keeps the types of the Decoder.                                  *)
LEMMA FlushedType ==
  ASSUME TypeOK, FramingInv, FlushDecoder, UNCHANGED <<framed, batchSize>>,
         decoded' \in Seq(Rows), delivered' \in Seq(Rows),
         pc' \in {"idle", "decoding", "checking"}, pc' = "idle" => rest' = <<>>,
         cutShort' \in BOOLEAN, failed' \in BOOLEAN
  PROVE  TypeOK'
<1>1. /\ buffered' = <<>> /\ pending' = NoSchema /\ capacity' \in 0 .. batchSize
      /\ active' \in Schemas /\ awaiting' = awaiting /\ torn' \subseteq torn
  BY FlushedDecoder
<1>2. batchSize \in Nat
  BY SizesAssumption DEF TypeOK
<1>3. buffered' \in Seq(Rows) /\ Len(buffered') = 0
  BY <1>1
<1>4. batchSize' = batchSize /\ capacity' \in Nat /\ capacity' <= batchSize
  BY <1>1, <1>2
<1>5. Len(buffered') + capacity' <= batchSize'
  BY <1>3, <1>4
<1> QED
  BY <1>1, <1>3, <1>5 DEF TypeOK

(* Setting rows aside moves them, and neither adds nor loses one.          *)
LEMMA SetAsideKeeps ==
  ASSUME TypeOK, SetAside, delivered' = delivered
  PROVE  AllRows' = AllRows /\ decoded' \in Seq(Rows)
<1>1. /\ delivered \in Seq(Rows) /\ decoded \in Seq(Rows) /\ buffered \in Seq(Rows)
  BY DEF TypeOK
<1>2. buffered' = <<>> /\ decoded' = decoded \o buffered
  BY DEF SetAside, FlushDecoder
<1>3. decoded \o buffered \in Seq(Rows)
  BY <1>1
<1>4. (delivered \o (decoded \o buffered)) \o <<>> = delivered \o (decoded \o buffered)
  BY <1>1, <1>3
<1>5. delivered \o (decoded \o buffered) = (delivered \o decoded) \o buffered
  BY <1>1
<1> QED
  BY <1>2, <1>3, <1>4, <1>5 DEF AllRows

(* If that fails, which takes a part of a datum, the last rows are gone.   *)
LEMMA SetAsideLoses ==
  ASSUME TypeOK, WholeInv, SetAsideFails, delivered' = delivered
  PROVE  /\ cutShort /\ decoded' \in Seq(Rows)
         /\ \A i \in DOMAIN AllRows' : i \in DOMAIN AllRows /\ AllRows'[i] = AllRows[i]
<1>1. /\ delivered \in Seq(Rows) /\ decoded \in Seq(Rows) /\ buffered \in Seq(Rows)
      /\ delivered \o decoded \in Seq(Rows)
  BY DEF TypeOK
<1>2. buffered' = <<>> /\ decoded' = decoded /\ torn # {}
  BY DEF SetAsideFails, FlushDecoder, FlushFails
<1>3. AllRows = (delivered \o decoded) \o buffered /\ AllRows' = delivered \o decoded
  <2>1. (delivered \o decoded) \o <<>> = delivered \o decoded
    BY <1>1
  <2> QED
    BY <1>2, <2>1 DEF AllRows
<1> DEFINE first == delivered \o decoded
<1>4. first \in Seq(Rows)
  BY <1>1
<1> HIDE DEF first
<1>5. \A i \in DOMAIN first : i \in DOMAIN (first \o buffered) /\ (first \o buffered)[i] = first[i]
  BY <1>1, <1>4
<1> QED
  BY <1>1, <1>2, <1>3, <1>5 DEF first, WholeInv

(* As long as the rows, what is owed and what was delivered stay, so does  *)
(* what is said of them, unless the call ends.                             *)
LEMMA RowsStay ==
  ASSUME RowsInv, RowsOnceInOrder, AllRows' = AllRows,
         UNCHANGED <<pushed, owed, cutShort, due, delivered>>,
         pc # "idle", pc' # "idle" \/ cutShort
  PROVE  RowsInv' /\ RowsOnceInOrder'
BY DEF RowsInv, RowsOnceInOrder, Values

(* With fewer rows, those that are left are in order.                      *)
LEMMA FewerRows ==
  ASSUME TypeOK, RowsInv, RowsOnceInOrder, cutShort', pushed \in Nat,
         \A i \in DOMAIN AllRows' : i \in DOMAIN AllRows /\ AllRows'[i] = AllRows[i],
         \/ UNCHANGED <<pushed, owed>>
         \/ pushed' = pushed + 1 /\ owed' \subseteq owed \union {pushed + 1}
  PROVE  RowsInv' /\ RowsOnceInOrder'
<1>1. \A i \in DOMAIN AllRows : AllRows[i].value \in Nat /\ AllRows[i].value <= pushed
  <2>1. \A i \in DOMAIN AllRows : AllRows[i] \in Rows
    BY AllRowsType
  <2> QED
    BY <2>1, SizesAssumption DEF RowsInv, Rows
<1>2. \A i \in DOMAIN AllRows : AllRows[i].value <= pushed'
  BY <1>1
<1>3. \A i \in DOMAIN AllRows : AllRows[i].value \in owed' => AllRows[i].value \in owed
  <2>1. \A i \in DOMAIN AllRows : AllRows[i].value # pushed + 1
    BY <1>1
  <2> QED
    BY <2>1
<1>4. RowsInv'
  BY <1>2 DEF RowsInv
<1>5. \A i, j \in DOMAIN AllRows' :
        i < j /\ {AllRows'[i].value, AllRows'[j].value} \subseteq owed'
          => AllRows'[i].value < AllRows'[j].value
  BY <1>3, Zenon DEF RowsOnceInOrder
<1>6. \A i \in DOMAIN AllRows' : AllRows'[i].value # 0 => AllRows'[i].reader = AllRows'[i].writer
  BY Zenon DEF RowsOnceInOrder
<1> QED
  BY <1>4, <1>5, <1>6 DEF RowsOnceInOrder

-----------------------------------------------------------------------------
(* A new decoder.                                                          *)
LEMMA InitIInv == Init => IInv
<1> SUFFICES ASSUME Init PROVE IInv
  OBVIOUS
<1>1. TypeOK
  <2>1. batchSize \in Nat /\ Len(buffered) = 0 /\ capacity \in 0 .. batchSize
    BY SizesAssumption DEF Init
  <2>2. buffered \in Seq(Rows) /\ decoded \in Seq(Rows) /\ delivered \in Seq(Rows)
    BY DEF Init
  <2>3. Len(buffered) + capacity <= batchSize
    BY <2>1
  <2> QED
    BY <2>1, <2>2, <2>3 DEF Init, TypeOK
<1>2. CountInv /\ FramingInv /\ RestInv /\ OnceInv /\ WholeInv
  BY SizesAssumption DEF Init, CountInv, FramingInv, RestInv, OnceInv, WholeInv, Whole
<1>3. AllRows = <<>> /\ Values(<<>>) = {}
  BY DEF Init, AllRows, Values
<1>4. MessageInv /\ RowsInv /\ RowsOnceInOrder
  BY <1>3 DEF Init, MessageInv, RowsInv, RowsOnceInOrder, AllRows
<1> QED
  BY <1>1, <1>2, <1>4 DEF IInv

-----------------------------------------------------------------------------
(* What a value is made of.                                                *)
Shaped(value, k) ==
  /\ value \in Seq(Tokens)
  /\ \A i \in DOMAIN value :
       /\ value[i].token = "datum" =>
            /\ value[i].value = k
            /\ IF framed THEN i > 1 /\ value[i - 1] = Prefix(value[i].schema)
               ELSE value[i].schema = active
       /\ value[i].token = "prefix" => framed

(* The tokens.                                                             *)
LEMMA TokenFacts ==
  ASSUME NEW k \in Nat, NEW s \in Schemas \union {Unknown}
  PROVE  /\ Cut \in Tokens /\ Cut.token = "cut"
         /\ Half \in Tokens /\ Half.token = "half"
         /\ Prefix(s) \in Tokens /\ Prefix(s).token = "prefix"
         /\ Datum(s, k) \in Tokens /\ Datum(s, k).token = "datum"
         /\ Datum(s, k).value = k /\ Datum(s, k).schema = s
BY DEF Cut, Half, Prefix, Datum, Token, Tokens

(* Two values in a row.                                                    *)
LEMMA Joined ==
  ASSUME NEW k \in Nat, NEW v, NEW w, Shaped(v, k), Shaped(w, k), Whole(v), Whole(w)
  PROVE  Shaped(v \o w, k) /\ Whole(v \o w)
<1>1. /\ v \o w \in Seq(Tokens) /\ Len(v) \in Nat /\ Len(w) \in Nat
      /\ DOMAIN v = 1 .. Len(v) /\ DOMAIN w = 1 .. Len(w)
      /\ DOMAIN (v \o w) = 1 .. Len(v) + Len(w)
      /\ \A i \in 1 .. Len(v) + Len(w) :
           (v \o w)[i] = IF i <= Len(v) THEN v[i] ELSE w[i - Len(v)]
  BY DEF Shaped
<1> DEFINE u == v \o w
<1> HIDE DEF u
<1>2. SUFFICES ASSUME NEW i \in 1 .. Len(v) + Len(w)
               PROVE  /\ u[i].token = "datum" =>
                           /\ u[i].value = k
                           /\ IF framed THEN i > 1 /\ u[i - 1] = Prefix(u[i].schema)
                              ELSE u[i].schema = active
                      /\ u[i].token = "prefix" => framed
                      /\ u[i].token # "half"
                      /\ u[i].token = "prefix" =>
                           i + 1 \in 1 .. Len(v) + Len(w) /\ u[i + 1].token = "datum"
  BY <1>1 DEF u, Shaped, Whole
<1>3. CASE i <= Len(v)
  <2>1. /\ u[i] = v[i] /\ i \in DOMAIN v /\ (i > 1 => u[i - 1] = v[i - 1])
        /\ i + 1 \in DOMAIN v => i + 1 \in 1 .. Len(v) + Len(w) /\ u[i + 1] = v[i + 1]
    BY <1>1, <1>3 DEF u
  <2> QED
    BY <2>1 DEF Shaped, Whole
<1>4. CASE i > Len(v)
  <2> DEFINE j == i - Len(v)
  <2>1. u[i] = w[j] /\ j \in DOMAIN w
    BY <1>1, <1>4 DEF u
  <2>2. j > 1 => u[i - 1] = w[j - 1] /\ i > 1
    BY <1>1, <1>4 DEF u
  <2>3. j + 1 \in DOMAIN w => i + 1 \in 1 .. Len(v) + Len(w) /\ u[i + 1] = w[j + 1]
    BY <1>1, <1>4 DEF u
  <2> HIDE DEF j
  <2> QED
    BY <2>1, <2>2, <2>3 DEF Shaped, Whole
<1> QED
  BY <1>1, <1>3, <1>4

(* A prefix and its datum.                                                 *)
LEMMA FramedShape ==
  ASSUME NEW k \in Nat, NEW s \in Schemas \union {Unknown}, framed
  PROVE  /\ Shaped(<<Prefix(s), Datum(s, k)>>, k) /\ Whole(<<Prefix(s), Datum(s, k)>>)
         /\ Shaped(<<Prefix(s)>>, k) /\ EndsInside(<<Prefix(s)>>)
         /\ Shaped(<<Prefix(s), Half>>, k) /\ EndsInside(<<Prefix(s), Half>>)
<1> DEFINE p == Prefix(s)  d == Datum(s, k)  h == Half
<1>1. /\ p \in Tokens /\ p.token = "prefix" /\ h \in Tokens /\ h.token = "half"
      /\ d \in Tokens /\ d.token = "datum" /\ d.value = k /\ p = Prefix(d.schema)
  BY TokenFacts
<1> HIDE DEF p, d, h
<1>2. Shaped(<<p, d>>, k) /\ Shaped(<<p>>, k) /\ Shaped(<<p, h>>, k)
  BY <1>1 DEF Shaped
<1>3. Whole(<<p, d>>)
  BY <1>1 DEF Whole
<1>4. EndsInside(<<p>>) /\ EndsInside(<<p, h>>)
  BY <1>1 DEF EndsInside
<1> QED
  BY <1>2, <1>3, <1>4 DEF p, d, h

(* A message, unframed or framed, has its datum at its end.                *)
LEMMA MessageShape ==
  ASSUME NEW k \in Nat, active \in Schemas, framed \in BOOLEAN, NEW m \in Messages(k)
  PROVE  /\ Shaped(m, k) /\ Whole(m)
         /\ \A i \in DOMAIN m : m[i].token = "datum" => i = Len(m)
<1>1. CASE framed
  <2>1. PICK s \in Schemas : m = <<Prefix(s), Datum(s, k)>>
    BY <1>1 DEF Messages
  <2> DEFINE p == Prefix(s)  d == Datum(s, k)
  <2>2. p.token = "prefix"
    BY TokenFacts
  <2>3. Shaped(<<p, d>>, k) /\ Whole(<<p, d>>)
    BY <1>1, FramedShape
  <2>4. m = <<p, d>>
    BY <2>1
  <2> HIDE DEF p, d
  <2>5. \A i \in DOMAIN m : m[i].token = "datum" => i = Len(m)
    BY <2>2, <2>4
  <2> QED
    BY <2>3, <2>4, <2>5
<1>2. CASE ~framed
  <2> DEFINE d == Datum(active, k)
  <2>1. d \in Tokens /\ d.token = "datum" /\ d.value = k /\ d.schema = active
    BY TokenFacts
  <2>2. m = <<d>>
    BY <1>2 DEF Messages
  <2> HIDE DEF d
  <2> QED
    BY <1>2, <2>1, <2>2 DEF Shaped, Whole
<1> QED
  BY <1>1, <1>2

(* And any value has the shape of messages, unless it ends inside one.     *)
LEMMA ValueShape ==
  ASSUME NEW k \in Nat, active \in Schemas, framed \in BOOLEAN,
         NEW value \in Messages(k) \union Malformed(k)
  PROVE  /\ Shaped(value, k)
         /\ Whole(value) \/ EndsInside(value)
<1> DEFINE Good(v) == Shaped(v, k) /\ (Whole(v) \/ EndsInside(v))
<1>1. Shaped(<<>>, k) /\ Whole(<<>>)
  BY DEF Shaped, Whole
<1>2. Shaped(<<Cut>>, k) /\ Whole(<<Cut>>)
  <2> DEFINE c == Cut
  <2>1. c \in Tokens /\ c.token = "cut"
    BY TokenFacts
  <2> HIDE DEF c
  <2>2. Shaped(<<c>>, k) /\ Whole(<<c>>)
    BY <2>1 DEF Shaped, Whole
  <2> QED
    BY <2>2 DEF c
<1>3. Shaped(<<Half>>, k) /\ EndsInside(<<Half>>)
  <2> DEFINE h == Half
  <2>1. h \in Tokens /\ h.token = "half"
    BY TokenFacts
  <2> HIDE DEF h
  <2>2. Shaped(<<h>>, k) /\ EndsInside(<<h>>)
    BY <2>1 DEF Shaped, EndsInside
  <2> QED
    BY <2>2 DEF h
<1>4. \A m \in Messages(k) : Shaped(m, k) /\ Whole(m)
  BY MessageShape
<1>5. \A m \in Messages(k) : Good(m \o <<Cut>>)
  BY <1>2, <1>4, Joined
<1>6. \A m, n \in Messages(k) : Good(m \o n)
  BY <1>4, Joined
<1>7. framed => /\ Good(<<Cut>>) /\ Good(<<Prefix(Unknown), Datum(Unknown, k)>>)
                /\ \A s \in Schemas : Good(<<Prefix(s)>>) /\ Good(<<Prefix(s), Half>>)
  BY <1>2, FramedShape
<1>8. Good(<<>>) /\ Good(<<Half>>) /\ \A m \in Messages(k) : Good(m)
  BY <1>1, <1>3, <1>4
<1> HIDE DEF Good
<1> DEFINE Longer == {m \o <<Cut>> : m \in Messages(k)}
           Double == {m \o n : m, n \in Messages(k)}
           Framed == {<<Cut>>, <<Prefix(Unknown), Datum(Unknown, k)>>}
                       \union {<<Prefix(s)>> : s \in Schemas}
                       \union {<<Prefix(s), Half>> : s \in Schemas}
<1>9. Malformed(k) = {<<>>} \union Longer \union Double
                        \union IF framed THEN Framed ELSE {<<Half>>}
  BY DEF Malformed
<1>10. Good(value)
  <2>1. CASE value \in Messages(k)
    BY <1>8, <2>1
  <2>2. CASE value \in Longer
    BY <1>5, <2>2
  <2>3. CASE value \in Double
    <3>1. PICK m \in Messages(k), n \in Messages(k) : value = m \o n
      BY <2>3
    <3> QED
      BY <1>6, <3>1
  <2>4. CASE framed /\ value \in Framed
    BY <1>7, <2>4
  <2>5. CASE value = <<>> \/ value = <<Half>>
    BY <1>8, <2>5
  <2> HIDE DEF Longer, Double, Framed
  <2> QED
    BY <1>9, <2>1, <2>2, <2>3, <2>4, <2>5
<1> QED
  BY <1>10 DEF Good

(* A value of its own begins: it has no row yet.                           *)
LEMMA EnterIInv ==
  ASSUME IInv, NEW value \in Messages(pushed + 1) \union Malformed(pushed + 1), Enter(value)
  PROVE  /\ pushed \in Nat /\ pushed' = pushed + 1 /\ pushed' \in 0 .. MaxValues
         /\ owed' \subseteq owed \union {pushed + 1} /\ owed' \subseteq 1 .. pushed'
         /\ cutShort' \in BOOLEAN /\ (cutShort => cutShort')
         /\ Shaped(value, pushed') /\ (~cutShort' => Whole(value))
         /\ pushed + 1 \notin owed /\ pushed + 1 \notin Values(AllRows)
         /\ pushed + 1 \notin Values(delivered)
<1>1. /\ TypeOK /\ CountInv /\ RowsInv /\ pushed \in Nat /\ pushed < MaxValues
      /\ MaxValues \in Nat /\ owed \subseteq 1 .. pushed
  BY SizesAssumption DEF IInv, CountInv, Enter
<1>2. /\ pushed' = pushed + 1 /\ pushed + 1 \in Nat
      /\ owed' = IF value \in Messages(pushed + 1) THEN owed \union {pushed + 1} ELSE owed
      /\ cutShort' = (cutShort \/ EndsInside(value))
  BY <1>1 DEF Enter
<1>3. Shaped(value, pushed + 1) /\ (Whole(value) \/ EndsInside(value))
  BY <1>1, <1>2, ValueShape DEF TypeOK
<1>4. cutShort' \in BOOLEAN /\ (cutShort => cutShort') /\ (~cutShort' => Whole(value))
  BY <1>1, <1>2, <1>3, Zenon DEF TypeOK, EndsInside
<1>5. owed' \subseteq 1 .. pushed' /\ pushed' \in 0 .. MaxValues /\ pushed + 1 \notin owed
  BY <1>1, <1>2
<1>6. pushed + 1 \notin Values(AllRows)
  BY <1>1 DEF RowsInv, Values
<1>7. pushed + 1 \notin Values(delivered)
  BY <1>1, <1>6, DeliveredRows
<1> QED
  BY <1>1, <1>2, <1>3, <1>4, <1>5, <1>6, <1>7

(* push() begins, if it has to with an empty Decoder.                      *)
LEMMA PushIInv ==
  ASSUME IInv, NEW value \in Messages(pushed + 1) \union Malformed(pushed + 1), Push(value)
  PROVE  IInv'
<1> DEFINE k == pushed + 1
<1>1. /\ TypeOK /\ CountInv /\ FramingInv /\ WholeInv /\ RowsInv /\ RowsOnceInOrder
  BY DEF IInv
<1>2. /\ pushed \in Nat /\ pushed' = k /\ pushed' \in 0 .. MaxValues
      /\ owed' \subseteq owed \union {k} /\ owed' \subseteq 1 .. pushed'
      /\ cutShort' \in BOOLEAN /\ (cutShort => cutShort')
      /\ Shaped(value, k) /\ (~cutShort' => Whole(value))
      /\ k \notin owed /\ k \notin Values(AllRows) /\ k \notin Values(delivered)
  BY EnterIInv DEF Push
<1>3. /\ rest' = value /\ pc = "idle" /\ pc' = "decoding"
      /\ owed' = IF value \in Messages(k) THEN owed \union {k} ELSE owed
      /\ UNCHANGED <<framed, batchSize, failed, due, delivered>>
  BY DEF Push, Enter
<1>4. /\ TypeOK' /\ FramingInv' /\ AllRows' = AllRows /\ capacity' > 0
      /\ (~framed => active' = active) /\ awaiting' = awaiting /\ torn' \subseteq torn
  <2>1. CASE capacity = 0
    <3>1. SetAside /\ FlushDecoder /\ ~FlushFails
      BY <2>1 DEF Push, SetAside
    <3>2. AllRows' = AllRows /\ decoded' \in Seq(Rows)
      BY <1>1, <1>3, <3>1, SetAsideKeeps
    <3>3. /\ capacity' > 0 /\ active' = Current /\ FramingInv'
          /\ awaiting' = awaiting /\ torn' \subseteq torn
      BY <1>1, <1>3, <3>1, FlushedDecoder
    <3>4. delivered' \in Seq(Rows) /\ failed' \in BOOLEAN
      BY <1>1, <1>3 DEF TypeOK
    <3>5. TypeOK'
      BY <1>1, <1>2, <1>3, <3>1, <3>2, <3>4, FlushedType
    <3> QED
      BY <1>1, <3>2, <3>3, <3>5 DEF Current, FramingInv
  <2>2. CASE capacity # 0
    <3>1. UNCHANGED <<active, pending, capacity, awaiting, torn, buffered, decoded>>
      BY <2>2 DEF Push, decoderVars
    <3>2. TypeOK'
      BY <1>1, <1>2, <1>3, <3>1 DEF TypeOK
    <3>3. capacity' > 0
      BY <1>1, <2>2, <3>1, SizesAssumption DEF TypeOK
    <3> QED
      BY <1>1, <1>3, <3>1, <3>2, <3>3 DEF FramingInv, AllRows
  <2> QED
    BY <2>1, <2>2
<1>5. CountInv'
  BY <1>2, <1>3 DEF CountInv, Shaped
<1>6. RestInv'
  BY <1>2, <1>3, <1>4 DEF RestInv, Announced, Shaped, Prefix, Token
<1>7. OnceInv'
  <2> SUFFICES ASSUME value \in Messages(k), NEW i \in DOMAIN value, value[i].token = "datum"
               PROVE  i = Len(value)
    BY <1>2, <1>3, <1>4 DEF OnceInv, Values
  <2> QED
    BY <1>1, <1>2, MessageShape DEF TypeOK
<1>8. WholeInv'
  <2>1. ~cutShort => rest = <<>> /\ ~awaiting
    BY <1>1, <1>3 DEF WholeInv, TypeOK
  <2> QED
    BY <1>1, <1>2, <1>3, <1>4, <2>1 DEF WholeInv, Whole
<1>9. MessageInv'
  <2> SUFFICES ASSUME value \in Messages(k)
               PROVE  StillComes'
    BY <1>2, <1>3 DEF MessageInv
  <2>1. \/ ~framed /\ value = <<Datum(active, k)>>
        \/ framed /\ \E s \in Schemas : value = <<Prefix(s), Datum(s, k)>>
    BY DEF Messages
  <2>2. active \in Schemas
    BY <1>1 DEF TypeOK
  <2> QED
    BY <1>2, <1>3, <1>4, <2>1, <2>2 DEF StillComes, Datum, Prefix, Token
<1>10. \A i \in DOMAIN AllRows : AllRows[i].value \in Nat /\ AllRows[i].value <= pushed
  <2>1. \A i \in DOMAIN AllRows : AllRows[i] \in Rows
    BY <1>1, AllRowsType
  <2> QED
    BY <1>1, <2>1, SizesAssumption DEF RowsInv, Rows
<1>11. RowsInv'
  <2>1. \A i \in DOMAIN AllRows : AllRows[i].value <= k
    BY <1>2, <1>10
  <2>2. ~cutShort' => \A n \in owed : n \in Values(AllRows)
    BY <1>1, <1>2, <1>3 DEF RowsInv
  <2>3. ~cutShort' => \A n \in owed' : n \in Values(AllRows') \/ n = k
    BY <1>2, <1>4, <2>2 DEF Values
  <2> QED
    BY <1>2, <1>3, <1>4, <2>1, <2>3 DEF RowsInv
<1>12. RowsOnceInOrder'
  <2>1. ~cutShort' => Values(delivered') \intersect owed' = due'
    BY <1>1, <1>2, <1>3 DEF RowsOnceInOrder, Values
  <2>2. \A i \in DOMAIN AllRows : AllRows[i].value # k
    BY <1>2 DEF Values
  <2>3. \A i, j \in DOMAIN AllRows :
          i < j /\ {AllRows[i].value, AllRows[j].value} \subseteq owed'
            => AllRows[i].value < AllRows[j].value
    BY <1>1, <1>2, <2>2 DEF RowsOnceInOrder
  <2>4. \A i \in DOMAIN AllRows : AllRows[i].value # 0 => AllRows[i].reader = AllRows[i].writer
    BY <1>1 DEF RowsOnceInOrder
  <2> QED
    BY <1>3, <1>4, <2>1, <2>3, <2>4 DEF RowsOnceInOrder
<1> QED
  BY <1>4, <1>5, <1>6, <1>7, <1>8, <1>9, <1>11, <1>12 DEF IInv

(* It may fail before it looks at the value, and then has lost rows.       *)
LEMMA PushFailsIInv ==
  ASSUME IInv, NEW value \in Messages(pushed + 1) \union Malformed(pushed + 1), PushFails(value)
  PROVE  IInv'
<1>1. /\ TypeOK /\ FramingInv /\ WholeInv /\ RowsInv /\ RowsOnceInOrder
  BY DEF IInv
<1>2. /\ pushed \in Nat /\ pushed' = pushed + 1 /\ pushed' \in 0 .. MaxValues
      /\ owed' \subseteq owed \union {pushed + 1} /\ owed' \subseteq 1 .. pushed'
      /\ cutShort' \in BOOLEAN /\ (cutShort => cutShort')
  BY EnterIInv DEF PushFails
<1>3. /\ pc' = "idle" /\ rest' = <<>> /\ failed' \in BOOLEAN
      /\ SetAsideFails /\ FlushDecoder
      /\ UNCHANGED <<framed, batchSize, due, delivered>>
  BY <1>1 DEF PushFails, Enter, SetAsideFails, TypeOK
<1>4. /\ cutShort' /\ decoded' \in Seq(Rows)
      /\ \A i \in DOMAIN AllRows' : i \in DOMAIN AllRows /\ AllRows'[i] = AllRows[i]
  BY <1>1, <1>2, <1>3, SetAsideLoses
<1>5. TypeOK' /\ FramingInv'
  <2>1. delivered' \in Seq(Rows)
    BY <1>1, <1>3 DEF TypeOK
  <2> QED
    BY <1>1, <1>2, <1>3, <1>4, <2>1, FlushedType, FlushedDecoder
<1>6. CountInv' /\ RestInv' /\ OnceInv' /\ WholeInv' /\ MessageInv'
  BY <1>2, <1>3, <1>4 DEF CountInv, RestInv, OnceInv, WholeInv, MessageInv
<1>7. RowsInv' /\ RowsOnceInOrder'
  BY <1>1, <1>2, <1>4, FewerRows
<1> QED
  BY <1>5, <1>6, <1>7 DEF IInv

(* What is left of a value after its first token, and where its tokens     *)
(* stood.                                                                  *)
LEMMA TokenRead ==
  ASSUME rest \in Seq(Tokens), rest # <<>>, rest' = Tail(rest)
  PROVE  /\ Head(rest) = rest[1] /\ 1 \in DOMAIN rest /\ Head(rest) \in Tokens
         /\ rest' \in Seq(Tokens)
         /\ \A i \in DOMAIN rest' :
              i \in Nat /\ i >= 1 /\ i + 1 \in DOMAIN rest /\ rest'[i] = rest[i + 1]
         /\ Len(rest) \in Nat /\ Len(rest') = Len(rest) - 1
         /\ DOMAIN rest = 1 .. Len(rest) /\ DOMAIN rest' = 1 .. Len(rest')
<1>1. /\ Len(rest) \in Nat /\ Len(rest) > 0 /\ DOMAIN rest = 1 .. Len(rest)
      /\ rest' \in Seq(Tokens) /\ Len(rest') = Len(rest) - 1
      /\ DOMAIN rest' = 1 .. Len(rest')
      /\ \A i \in 1 .. Len(rest) - 1 : rest'[i] = rest[i + 1]
      /\ Head(rest) = rest[1]
  OBVIOUS
<1> QED
  BY <1>1

(* It is announced as the whole was, if the token was a prefix whose       *)
(* schema is now the current one, or no prefix.                            *)
LEMMA RestAnnounced ==
  ASSUME RestInv, rest \in Seq(Tokens), rest # <<>>, rest' = Tail(rest),
         UNCHANGED <<framed, pushed>>, ~framed => active' = active,
         Head(rest).token = "prefix" => Current' = Head(rest).schema
  PROVE  RestInv'
<1>1. /\ Head(rest) = rest[1]
      /\ \A i \in DOMAIN rest' :
           i \in Nat /\ i >= 1 /\ i + 1 \in DOMAIN rest /\ rest'[i] = rest[i + 1]
      /\ Len(rest) \in Nat /\ Len(rest') = Len(rest) - 1
      /\ DOMAIN rest = 1 .. Len(rest) /\ DOMAIN rest' = 1 .. Len(rest')
  BY TokenRead
<1> SUFFICES ASSUME NEW i \in DOMAIN rest'
             PROVE  /\ rest'[i].token = "datum" =>
                         /\ rest'[i].value = pushed
                         /\ IF ~framed THEN rest'[i].schema = active
                            ELSE IF i = 1 THEN rest'[i].schema = Current'
                            ELSE rest'[i - 1] = Prefix(rest'[i].schema)
                    /\ rest'[i].token = "prefix" => framed
  BY DEF RestInv, Announced, Prefix, Token
<1>2. i \in Nat /\ i >= 1 /\ i + 1 \in DOMAIN rest /\ rest'[i] = rest[i + 1]
  BY <1>1
<1>3. /\ rest'[i].token = "datum" =>
           /\ rest'[i].value = pushed
           /\ IF ~framed THEN rest'[i].schema = active
              ELSE rest[i] = Prefix(rest'[i].schema)
      /\ rest'[i].token = "prefix" => framed
  BY <1>2 DEF RestInv, Announced
<1>4. CASE i = 1
  BY <1>1, <1>3, <1>4 DEF Prefix, Token
<1>5. CASE i # 1
  <2>1. i - 1 \in DOMAIN rest' /\ rest'[i - 1] = rest[i]
    BY <1>1, <1>2, <1>5
  <2> QED
    BY <1>3, <1>5, <2>1
<1> QED
  BY <1>4, <1>5

(* And whole, as it was; after a prefix its datum is next.                 *)
LEMMA RestWhole ==
  ASSUME Whole(rest), rest \in Seq(Tokens), rest # <<>>, rest' = Tail(rest)
  PROVE  /\ Whole(rest')
         /\ Head(rest).token = "prefix" => 1 \in DOMAIN rest' /\ rest'[1].token = "datum"
<1>1. /\ Head(rest) = rest[1] /\ 1 \in DOMAIN rest
      /\ \A i \in DOMAIN rest' :
           i \in Nat /\ i >= 1 /\ i + 1 \in DOMAIN rest /\ rest'[i] = rest[i + 1]
      /\ Len(rest) \in Nat /\ Len(rest') = Len(rest) - 1
      /\ DOMAIN rest = 1 .. Len(rest) /\ DOMAIN rest' = 1 .. Len(rest')
  BY TokenRead
<1>2. ASSUME NEW i \in DOMAIN rest, rest[i].token = "prefix"
      PROVE  i \in DOMAIN rest' /\ rest'[i].token = "datum"
  <2>1. i + 1 \in DOMAIN rest /\ rest[i + 1].token = "datum"
    BY <1>2 DEF Whole
  <2>2. i \in DOMAIN rest'
    BY <1>1, <2>1
  <2> QED
    BY <1>1, <2>1, <2>2
<1>3. ASSUME NEW i \in DOMAIN rest'
      PROVE  /\ rest'[i].token # "half"
             /\ rest'[i].token = "prefix" =>
                  i + 1 \in DOMAIN rest' /\ rest'[i + 1].token = "datum"
  <2>1. i + 1 \in DOMAIN rest /\ rest'[i] = rest[i + 1]
    BY <1>1
  <2> QED
    BY <1>2, <2>1 DEF Whole
<1> QED
  BY <1>1, <1>2, <1>3 DEF Whole

(* The prefix of a known schema: the next datum will be read with it, at   *)
(* once or as soon as the rows of another schema are out.                  *)
LEMMA DecodePrefixIInv ==
  ASSUME IInv, DecodePrefix
  PROVE  IInv'
<1> DEFINE s == Head(rest).schema
<1>1. /\ TypeOK /\ CountInv /\ FramingInv /\ RestInv /\ OnceInv /\ WholeInv
      /\ MessageInv /\ RowsInv /\ RowsOnceInOrder
  BY DEF IInv
<1>2. /\ rest # <<>> /\ rest' = Tail(rest) /\ Head(rest).token = "prefix"
      /\ pc = "decoding" /\ capacity > 0 /\ s \in Schemas /\ awaiting' = TRUE
      /\ UNCHANGED <<framed, batchSize, torn, buffered, decoded, pc, pushed, owed,
                     cutShort, failed, due, delivered>>
  BY DEF DecodePrefix, Reads, history
<1>3. \/ active' = s /\ UNCHANGED <<pending, capacity>>
      \/ pending' = s /\ capacity' = 0 /\ UNCHANGED active
  BY DEF DecodePrefix
<1>4. /\ Head(rest) = rest[1] /\ 1 \in DOMAIN rest /\ rest' \in Seq(Tokens)
      /\ \A i \in DOMAIN rest' :
           i \in Nat /\ i >= 1 /\ i + 1 \in DOMAIN rest /\ rest'[i] = rest[i + 1]
      /\ Len(rest) \in Nat /\ Len(rest') = Len(rest) - 1
      /\ DOMAIN rest = 1 .. Len(rest) /\ DOMAIN rest' = 1 .. Len(rest')
  BY <1>1, <1>2, TokenRead DEF CountInv
<1>5. framed /\ pending = NoSchema /\ s # NoSchema
  <2>1. framed /\ s # NoSchema
    BY <1>1, <1>2, <1>4, SchemasAssumption DEF RestInv
  <2>2. pending = NoSchema
    BY <1>1, <1>2 DEF TypeOK
  <2> QED
    BY <2>1, <2>2
<1>6. Current' = s
  BY <1>3, <1>5 DEF Current
<1>7. RestInv'
  BY <1>1, <1>2, <1>5, <1>6, RestAnnounced DEF CountInv
<1> HIDE DEF s
<1>8. AllRows' = AllRows
  BY <1>2 DEF AllRows
<1>9. TypeOK'
  <2>1. /\ buffered \in Seq(Rows) /\ Len(buffered) \in Nat /\ batchSize \in Nat
        /\ capacity \in 0 .. batchSize /\ Len(buffered) + capacity <= batchSize
    BY <1>1, SizesAssumption DEF TypeOK
  <2>2. capacity' \in 0 .. batchSize /\ Len(buffered) + capacity' <= batchSize
    BY <1>3, <2>1
  <2> QED
    BY <1>1, <1>2, <1>3, <1>5, <2>2 DEF TypeOK
<1>10. CountInv' /\ FramingInv'
  BY <1>1, <1>2, <1>4, <1>5 DEF CountInv, FramingInv
<1>11. OnceInv'
  BY <1>1, <1>2, <1>4, <1>8 DEF OnceInv, Values
<1>12. WholeInv'
  <2> SUFFICES ASSUME ~cutShort
               PROVE  Whole(rest)' /\ 1 \in DOMAIN rest' /\ rest'[1].token = "datum"
    BY <1>1, <1>2 DEF WholeInv
  <2>1. Whole(rest') /\ 1 \in DOMAIN rest' /\ rest'[1].token = "datum"
    BY <1>1, <1>2, RestWhole DEF WholeInv, CountInv
  <2> QED
    BY <2>1 DEF Whole
<1>13. MessageInv'
  <2> SUFFICES ASSUME ~cutShort, pushed \in owed, pushed \notin Values(AllRows)
               PROVE  StillComes'
    BY <1>2, <1>8 DEF MessageInv, Values
  <2>1. StillComes
    BY <1>1, <1>2 DEF MessageInv
  <2>2. PICK z \in Schemas : rest = <<Prefix(z), Datum(z, pushed)>>
    BY <1>2, <2>1 DEF StillComes, Datum, Token
  <2>3. rest' = <<Datum(z, pushed)>>
    BY <1>2, <2>2
  <2> QED
    BY <1>2, <1>5, <2>1, <2>3 DEF StillComes, Datum, Token
<1>14. RowsInv' /\ RowsOnceInOrder'
  BY <1>1, <1>2, <1>8, RowsStay
<1> QED
  BY <1>7, <1>9, <1>10, <1>11, <1>12, <1>13, <1>14 DEF IInv

(* A row more: it is the last, of the value that is being decoded or of    *)
(* none that is owed.                                                      *)
LEMMA RowTaken ==
  ASSUME TypeOK, RowsInv, RowsOnceInOrder, pushed \in Nat,
         NEW row \in Rows, TakeRow(row), capacity > 0, pc' \in {"decoding", "checking"},
         row.value <= pushed, row.value # 0 => row.reader = row.writer,
         row.value \in owed => row.value = pushed /\ pushed \notin Values(AllRows)
  PROVE  /\ TypeOK' /\ RowsInv' /\ RowsOnceInOrder'
         /\ Values(AllRows)' = Values(AllRows) \union {row.value}
<1> DEFINE n == Len(AllRows)
<1>1. /\ buffered' = Append(buffered, row) /\ capacity' = capacity - 1 /\ awaiting' = FALSE
      /\ UNCHANGED <<framed, batchSize, active, pending, torn, decoded, pushed, owed,
                     cutShort, failed, due, delivered>>
  BY DEF TakeRow, history
<1>2. pending = NoSchema
  BY DEF TypeOK
<1>3. AllRows' = Append(AllRows, row)
  <2>1. /\ delivered \o decoded \in Seq(Rows) /\ buffered \in Seq(Rows)
    BY DEF TypeOK
  <2>2. (delivered \o decoded) \o Append(buffered, row)
          = Append((delivered \o decoded) \o buffered, row)
    BY <2>1
  <2> QED
    BY <1>1, <2>2 DEF AllRows
<1>4. /\ AllRows \in Seq(Rows)
      /\ DOMAIN AllRows = 1 .. n /\ n \in Nat
      /\ DOMAIN AllRows' = 1 .. n + 1
      /\ \A i \in DOMAIN AllRows : AllRows'[i] = AllRows[i] /\ AllRows[i] \in Rows
      /\ AllRows'[n + 1] = row
      /\ Values(Append(AllRows, row)) = Values(AllRows) \union {row.value}
  BY <1>3, AllRowsType, AppendedRow
<1>5. Values(AllRows)' = Values(AllRows) \union {row.value}
  BY <1>3, <1>4 DEF Values
<1> HIDE DEF n
<1>6. TypeOK'
  <2>1. /\ buffered \in Seq(Rows) /\ batchSize \in Nat /\ Len(buffered) \in Nat
        /\ capacity \in 0 .. batchSize /\ Len(buffered) + capacity <= batchSize
    BY SizesAssumption DEF TypeOK
  <2>2. buffered' \in Seq(Rows) /\ Len(buffered') = Len(buffered) + 1
    BY <1>1, <2>1
  <2>3. capacity' \in 0 .. batchSize' /\ Len(buffered') + capacity' <= batchSize'
    BY <1>1, <2>1, <2>2
  <2> QED
    BY <1>1, <1>2, <2>2, <2>3 DEF TypeOK
<1>7. RowsInv'
  <2>1. \A i \in DOMAIN AllRows' : AllRows'[i].value <= pushed'
    BY <1>1, <1>4 DEF RowsInv
  <2>2. ~cutShort' => \A m \in owed' : m \in Values(AllRows)' \/ (m = pushed' /\ pc' # "idle")
    BY <1>1, <1>5 DEF RowsInv
  <2> QED
    BY <2>1, <2>2 DEF RowsInv
<1>8. \A i \in DOMAIN AllRows : AllRows[i].value \in Nat /\ AllRows[i].value <= pushed
  BY <1>4, SizesAssumption DEF RowsInv, Rows
<1>9. RowsOnceInOrder'
  <2>1. ~cutShort' => Values(delivered)' \intersect owed' = due'
    BY <1>1 DEF RowsOnceInOrder, Values
  <2>2. ASSUME NEW i \in DOMAIN AllRows', NEW j \in DOMAIN AllRows', i < j,
               AllRows'[i].value \in owed, AllRows'[j].value \in owed
        PROVE  AllRows'[i].value < AllRows'[j].value
    <3>1. i \in DOMAIN AllRows /\ AllRows'[i] = AllRows[i]
      BY <1>4, <2>2
    <3>2. CASE j \in DOMAIN AllRows
      BY <1>4, <2>2, <3>1, <3>2 DEF RowsOnceInOrder
    <3>3. CASE j \notin DOMAIN AllRows
      <4>1. AllRows'[j] = row
        BY <1>4, <3>3
      <4>2. row.value = pushed /\ AllRows[i].value # pushed
        BY <2>2, <3>1, <4>1 DEF Values
      <4> QED
        BY <1>8, <3>1, <4>1, <4>2
    <3> QED
      BY <3>2, <3>3
  <2>3. \A i \in DOMAIN AllRows' :
          AllRows'[i].value # 0 => AllRows'[i].reader = AllRows'[i].writer
    BY <1>4 DEF RowsOnceInOrder
  <2> QED
    BY <1>1, <2>1, <2>2, <2>3 DEF RowsOnceInOrder
<1> QED
  BY <1>5, <1>6, <1>7, <1>9

(* A datum: it is read with the schema it was written with.                *)
LEMMA DecodeDatumIInv ==
  ASSUME IInv, DecodeDatum
  PROVE  IInv'
<1> DEFINE row == [value |-> pushed, writer |-> active, reader |-> active]
<1>1. /\ TypeOK /\ CountInv /\ FramingInv /\ RestInv /\ OnceInv /\ WholeInv
      /\ MessageInv /\ RowsInv /\ RowsOnceInOrder
  BY DEF IInv
<1>2. /\ rest # <<>> /\ rest' = Tail(rest) /\ Head(rest).token = "datum"
      /\ pc = "decoding" /\ capacity > 0 /\ awaiting' = FALSE
      /\ pc' = (IF framed THEN pc ELSE "checking") /\ pc' \in {"decoding", "checking"}
      /\ UNCHANGED <<framed, batchSize, active, pending, torn, decoded, pushed, owed,
                     cutShort, failed, due, delivered>>
  BY DEF DecodeDatum, Reads, TakeRow, history
<1>3. /\ Head(rest) = rest[1] /\ 1 \in DOMAIN rest /\ rest' \in Seq(Tokens)
      /\ Len(rest) \in Nat /\ Len(rest') = Len(rest) - 1
      /\ DOMAIN rest = 1 .. Len(rest)
  BY <1>1, <1>2, TokenRead DEF CountInv
<1>4. pending = NoSchema /\ Current = active /\ Current' = Current /\ active \in Schemas
  BY <1>1, <1>2 DEF TypeOK, Current
<1>5. rest[1].value = pushed /\ rest[1].schema = active
  BY <1>1, <1>2, <1>3, <1>4 DEF RestInv, Announced
<1>6. row \in Rows /\ pushed \in Nat
  BY <1>1, <1>2, <1>4, SizesAssumption DEF CountInv, Rows
<1>7. TakeRow(row)
  BY <1>2, <1>3, <1>5 DEF DecodeDatum
<1>8. /\ row.value = pushed /\ row.writer = active /\ row.reader = active
  OBVIOUS
<1> HIDE DEF row
<1>9. pushed \in owed => pushed \notin Values(AllRows) /\ rest' = <<>>
  <2> SUFFICES ASSUME pushed \in owed
               PROVE  pushed \notin Values(AllRows) /\ rest' = <<>>
    OBVIOUS
  <2>1. 1 = Len(rest) /\ pushed \notin Values(AllRows)
    BY <1>1, <1>2, <1>3 DEF OnceInv
  <2>2. Len(rest') = 0 /\ rest' \in Seq(Tokens)
    <3>1. Len(rest) - 1 = 0
      BY <2>1
    <3> QED
      BY <1>3, <3>1, Zenon
  <2> QED
    BY <2>1, <2>2, EmptySeq
<1>10. /\ TypeOK' /\ RowsInv' /\ RowsOnceInOrder'
       /\ Values(AllRows)' = Values(AllRows) \union {pushed}
  BY <1>1, <1>2, <1>6, <1>7, <1>8, <1>9, RowTaken
<1>11. CountInv' /\ FramingInv'
  BY <1>1, <1>2, <1>3, <1>4 DEF CountInv, FramingInv
<1>12. RestInv'
  BY <1>1, <1>2, RestAnnounced DEF CountInv
<1>13. OnceInv'
  BY <1>2, <1>9 DEF OnceInv
<1>14. WholeInv'
  <2>1. ~cutShort => Whole(rest')
    BY <1>1, <1>2, RestWhole DEF WholeInv, CountInv
  <2> QED
    BY <1>1, <1>2, <2>1 DEF WholeInv, Whole
<1>15. MessageInv'
  BY <1>2, <1>10 DEF MessageInv
<1> QED
  BY <1>10, <1>11, <1>12, <1>13, <1>14, <1>15 DEF IInv

(* Where the Decoder awaits a datum that does not come, or a half one      *)
(* does, a value has ended inside a message.                               *)
LEMMA MisplacedCutShort ==
  ASSUME CountInv, WholeInv, Misplaced \/ Reads("half")
  PROVE  cutShort
<1>1. /\ rest # <<>> /\ 1 \in DOMAIN rest
      /\ \/ awaiting /\ rest[1].token # "datum"
         \/ rest[1].token = "half"
  BY DEF CountInv, Misplaced, Reads
<1> QED
  BY <1>1 DEF WholeInv, Whole

(* What the Decoder makes of it is a row of no value.                      *)
LEMMA DecodeMisreadIInv ==
  ASSUME IInv, DecodeMisread
  PROVE  IInv'
<1> DEFINE row == [value |-> 0, writer |-> NoSchema, reader |-> active]
<1>1. /\ TypeOK /\ CountInv /\ FramingInv /\ RestInv /\ OnceInv /\ WholeInv
      /\ MessageInv /\ RowsInv /\ RowsOnceInOrder
  BY DEF IInv
<1>2. /\ pc = "decoding" /\ capacity > 0 /\ awaiting /\ awaiting' = FALSE
      /\ rest' \in {<<>>, <<Cut>>} \union {<<Prefix(s)>> : s \in Schemas \union {Unknown}}
      /\ UNCHANGED <<framed, batchSize, active, pending, torn, decoded, pc, pushed, owed,
                     cutShort, failed, due, delivered>>
  BY DEF DecodeMisread, Misplaced, Reads, TakeRow, history
<1>3. cutShort
  BY <1>1, MisplacedCutShort DEF DecodeMisread
<1>4. row \in Rows /\ pushed \in Nat /\ 0 \notin owed
  BY <1>1, SizesAssumption DEF CountInv, Rows, TypeOK
<1>5. TakeRow(row)
  BY DEF DecodeMisread
<1>6. row.value = 0
  OBVIOUS
<1> HIDE DEF row
<1>7. TypeOK' /\ RowsInv' /\ RowsOnceInOrder'
  <2>1. row.value <= pushed
    BY <1>4, <1>6
  <2> QED
    BY <1>1, <1>2, <1>4, <1>5, <1>6, <2>1, RowTaken
<1>8. /\ rest' \in Seq(Tokens)
      /\ \A i \in DOMAIN rest' : rest'[i].token # "datum"
  <2>1. PICK t \in {Cut} \union {Prefix(s) : s \in Schemas \union {Unknown}} :
          rest' = <<>> \/ rest' = <<t>>
    BY <1>2
  <2>2. t \in Tokens /\ t.token # "datum"
    BY <1>4, <2>1, TokenFacts
  <2>3. /\ <<t>> \in Seq(Tokens) /\ \A i \in DOMAIN <<t>> : <<t>>[i].token # "datum"
        /\ <<>> \in Seq(Tokens) /\ \A i \in DOMAIN <<>> : <<>>[i].token # "datum"
    BY <2>2
  <2> QED
    BY <2>1, <2>3, Zenon
<1>9. framed
  BY <1>1, <1>2 DEF FramingInv
<1>10. CountInv' /\ FramingInv' /\ RestInv' /\ OnceInv'
  BY <1>1, <1>2, <1>8, <1>9 DEF CountInv, FramingInv, RestInv, OnceInv
<1>11. WholeInv' /\ MessageInv'
  BY <1>2, <1>3 DEF WholeInv, MessageInv
<1> QED
  BY <1>7, <1>10, <1>11 DEF IInv

(* Or a part of a row, with which it stops or fails.                       *)
LEMMA DecodePartIInv ==
  ASSUME IInv, DecodePart
  PROVE  IInv'
<1>1. /\ TypeOK /\ CountInv /\ FramingInv /\ RestInv /\ OnceInv /\ WholeInv
      /\ MessageInv /\ RowsInv /\ RowsOnceInOrder
  BY DEF IInv
<1>2. /\ pc = "decoding" /\ torn' \in {torn, torn \union {active}}
      /\ \/ pc' = "checking" /\ UNCHANGED <<rest, failed>>
         \/ pc' = "idle" /\ rest' = <<>> /\ failed' = TRUE
      /\ UNCHANGED <<framed, batchSize, active, pending, capacity, awaiting, buffered,
                     decoded, pushed, owed, cutShort, due, delivered>>
  BY DEF DecodePart, Misplaced, Reads
<1>3. cutShort
  BY <1>1, MisplacedCutShort DEF DecodePart
<1>4. AllRows' = AllRows
  BY <1>2 DEF AllRows
<1>5. TypeOK'
  BY <1>1, <1>2 DEF TypeOK
<1>6. CountInv' /\ FramingInv' /\ WholeInv' /\ MessageInv'
  <2>1. rest' \in Seq(Tokens)
    <3>1. rest \in Seq(Tokens) /\ <<>> \in Seq(Tokens)
      BY <1>1 DEF CountInv
    <3>2. rest' = rest \/ rest' = <<>>
      BY <1>2
    <3> QED
      BY <3>1, <3>2, Zenon
  <2> QED
    BY <1>1, <1>2, <1>3, <2>1 DEF CountInv, FramingInv, WholeInv, MessageInv
<1>7. RestInv' /\ OnceInv'
  <2>1. CASE rest' = rest
    BY <1>1, <1>2, <1>4, <2>1 DEF RestInv, OnceInv, Announced, Current, Prefix, Token, Values
  <2>2. CASE rest' = <<>>
    BY <2>2 DEF RestInv, OnceInv
  <2> QED
    BY <1>2, <2>1, <2>2
<1>8. RowsInv' /\ RowsOnceInOrder'
  BY <1>1, <1>2, <1>3, <1>4, RowsStay
<1> QED
  BY <1>5, <1>6, <1>7, <1>8 DEF IInv

(* The Decoder stops: push() looks at what is left.                        *)
LEMMA DecodeStopsIInv ==
  ASSUME IInv, DecodeStops
  PROVE  IInv'
<1>1. /\ TypeOK /\ CountInv /\ FramingInv /\ RestInv /\ OnceInv /\ WholeInv
      /\ MessageInv /\ RowsInv /\ RowsOnceInOrder
  BY DEF IInv
<1>2. /\ pc = "decoding" /\ pc' = "checking"
      /\ rest # <<>> /\ capacity > 0 => Head(rest).token = "cut" /\ ~awaiting
      /\ UNCHANGED <<framed, batchSize, active, pending, capacity, awaiting, torn, buffered,
                     decoded, rest, pushed, owed, cutShort, failed, due, delivered>>
  BY DEF DecodeStops, decoderVars, history
<1>3. AllRows' = AllRows
  BY <1>2 DEF AllRows
<1>4. TypeOK' /\ CountInv' /\ FramingInv' /\ RestInv' /\ OnceInv'
  BY <1>1, <1>2, <1>3 DEF TypeOK, CountInv, FramingInv, RestInv, OnceInv, Announced, Current,
                          Prefix, Token, Values
<1>5. ~(capacity > 0) => capacity = 0
  BY <1>1, SizesAssumption DEF TypeOK
<1>6. WholeInv'
  <2>1. ~cutShort /\ awaiting => rest # <<>>
    BY <1>1 DEF WholeInv
  <2> QED
    BY <1>1, <1>2, <1>5, <2>1 DEF WholeInv, Whole
<1>7. MessageInv'
  <2> SUFFICES ASSUME ~cutShort, pushed \in owed, pushed \notin Values(AllRows)
               PROVE  StillComes'
    BY <1>1, <1>2, <1>3 DEF MessageInv, Values
  <2>1. StillComes
    BY <1>1, <1>2 DEF MessageInv
  <2>2. PICK z \in Schemas :
          \/ rest = <<Datum(z, pushed)>>
          \/ framed /\ rest = <<Prefix(z), Datum(z, pushed)>>
    BY <2>1 DEF StillComes
  <2>3. rest # <<>> /\ Head(rest).token # "cut"
    BY <2>2 DEF Datum, Prefix, Token
  <2>4. capacity = 0 /\ framed
    BY <1>2, <1>5, <2>1, <2>3 DEF StillComes
  <2> QED
    BY <1>2, <2>2, <2>4 DEF StillComes, Datum, Prefix, Token
<1>8. RowsInv' /\ RowsOnceInOrder'
  BY <1>1, <1>2, <1>3, RowsStay
<1> QED
  BY <1>4, <1>6, <1>7, <1>8 DEF IInv

(* push() sets the rows aside and decodes on.                              *)
LEMMA GoOnIInv ==
  ASSUME IInv, GoOn
  PROVE  IInv'
<1>1. /\ TypeOK /\ CountInv /\ FramingInv /\ RestInv /\ OnceInv /\ WholeInv
      /\ MessageInv /\ RowsInv /\ RowsOnceInOrder
  BY DEF IInv
<1>2. /\ pc = "checking" /\ framed /\ SetAside /\ pc' = "decoding"
      /\ UNCHANGED <<framed, batchSize, rest, pushed, owed, cutShort, failed, due, delivered>>
      /\ FlushDecoder
  BY DEF GoOn, history, SetAside
<1>3. AllRows' = AllRows /\ decoded' \in Seq(Rows)
  BY <1>1, <1>2, SetAsideKeeps
<1>4. FramingInv' /\ Current' = Current /\ awaiting' = awaiting /\ torn' \subseteq torn
  BY <1>1, <1>2, FlushedDecoder
<1>5. TypeOK'
  <2>1. delivered' \in Seq(Rows) /\ cutShort' \in BOOLEAN /\ failed' \in BOOLEAN
    BY <1>1, <1>2 DEF TypeOK
  <2> QED
    BY <1>1, <1>2, <1>3, <2>1, FlushedType
<1>6. CountInv' /\ RestInv' /\ OnceInv'
  BY <1>1, <1>2, <1>3, <1>4 DEF CountInv, RestInv, OnceInv, Announced, Prefix, Token, Values
<1>7. WholeInv'
  BY <1>1, <1>2, <1>4 DEF WholeInv, Whole
<1>8. MessageInv'
  BY <1>1, <1>2, <1>3 DEF MessageInv, Values, StillComes, Datum, Prefix, Token
<1>9. RowsInv' /\ RowsOnceInOrder'
  BY <1>1, <1>2, <1>3, RowsStay
<1> QED
  BY <1>4, <1>5, <1>6, <1>7, <1>8, <1>9 DEF IInv

(* If rows cannot be set aside, push() or flush() ends with an error.      *)
LEMMA FailsIInv ==
  ASSUME IInv, GoOnFails \/ FlushRaises
  PROVE  IInv'
<1>1. /\ TypeOK /\ CountInv /\ FramingInv /\ WholeInv /\ RowsInv /\ RowsOnceInOrder
  BY DEF IInv
<1>2. /\ SetAsideFails /\ FlushDecoder /\ pc' = "idle" /\ rest' = <<>> /\ failed' = TRUE
      /\ UNCHANGED <<framed, batchSize, pushed, owed, cutShort, due, delivered>>
  BY <1>1 DEF GoOnFails, FlushRaises, SetAsideFails, TypeOK
<1>3. /\ cutShort /\ decoded' \in Seq(Rows)
      /\ \A i \in DOMAIN AllRows' : i \in DOMAIN AllRows /\ AllRows'[i] = AllRows[i]
  BY <1>1, <1>2, SetAsideLoses
<1>4. TypeOK' /\ FramingInv'
  <2>1. delivered' \in Seq(Rows) /\ cutShort' \in BOOLEAN
    BY <1>1, <1>2 DEF TypeOK
  <2> QED
    BY <1>1, <1>2, <1>3, <2>1, FlushedType, FlushedDecoder
<1>5. CountInv' /\ RestInv' /\ OnceInv' /\ WholeInv' /\ MessageInv'
  BY <1>1, <1>2, <1>3 DEF CountInv, RestInv, OnceInv, WholeInv, MessageInv
<1>6. RowsInv' /\ RowsOnceInOrder'
  <2>1. pushed \in Nat /\ cutShort'
    BY <1>1, <1>2, <1>3, SizesAssumption DEF CountInv
  <2> QED
    BY <1>1, <1>2, <1>3, <2>1, FewerRows
<1> QED
  BY <1>4, <1>5, <1>6 DEF IInv

(* push() returns only when the row of a value that is owed is there, and  *)
(* the Decoder awaits nothing, unless a value ended inside a message.      *)
LEMMA ReturnIInv ==
  ASSUME IInv, DecodeUnknown \/ PushReturns
  PROVE  IInv'
<1>1. /\ TypeOK /\ CountInv /\ FramingInv /\ RestInv /\ OnceInv /\ WholeInv
      /\ MessageInv /\ RowsInv /\ RowsOnceInOrder
  BY DEF IInv
<1>2. /\ pc # "idle" /\ pc' = "idle" /\ rest' = <<>> /\ failed' \in BOOLEAN
      /\ UNCHANGED <<framed, batchSize, active, pending, capacity, awaiting, torn, buffered,
                     decoded, pushed, owed, cutShort, due, delivered>>
  BY <1>1 DEF DecodeUnknown, PushReturns, Reads, Return, decoderVars, TypeOK
<1>3. AllRows' = AllRows
  BY <1>2 DEF AllRows
<1>4. TypeOK' /\ CountInv' /\ FramingInv'
  BY <1>1, <1>2 DEF TypeOK, CountInv, FramingInv
<1>5. RestInv' /\ OnceInv' /\ MessageInv'
  BY <1>2 DEF RestInv, OnceInv, MessageInv
<1>6. batchSize # 0
  BY <1>1, SizesAssumption DEF TypeOK
<1>7. WholeInv'
  <2>1. ~cutShort => ~awaiting
    <3> SUFFICES ASSUME ~cutShort, awaiting PROVE FALSE
      OBVIOUS
    <3>1. /\ 1 \in DOMAIN rest /\ rest # <<>> /\ (pc = "checking" => capacity = 0)
      BY <1>1 DEF WholeInv
    <3>2. PushReturns
      BY DEF DecodeUnknown
    <3> QED
      BY <1>1, <1>6, <3>1, <3>2 DEF PushReturns, FramingInv
  <2>2. ~cutShort => torn = {}
    BY <1>1 DEF WholeInv
  <2> QED
    BY <1>2, <2>1, <2>2 DEF WholeInv, Whole
<1>8. ~cutShort /\ pushed \in owed => pushed \in Values(AllRows)
  <2> SUFFICES ASSUME StillComes PROVE FALSE
    BY <1>1, <1>2 DEF MessageInv
  <2>1. PICK z \in Schemas :
          \/ rest = <<Datum(z, pushed)>>
          \/ framed /\ rest = <<Prefix(z), Datum(z, pushed)>>
    BY DEF StillComes
  <2>2. rest # <<>> /\ ~(Head(rest).token = "prefix" /\ Head(rest).schema = Unknown)
    BY <2>1, SchemasAssumption DEF Datum, Prefix, Token
  <2>3. PushReturns
    BY <2>2 DEF DecodeUnknown, Reads
  <2> QED
    BY <1>6, <2>2, <2>3 DEF PushReturns, StillComes
<1>9. ~cutShort => owed \subseteq Values(AllRows)
  BY <1>1, <1>8 DEF RowsInv
<1>10. RowsInv' /\ RowsOnceInOrder'
  BY <1>1, <1>2, <1>3, <1>9 DEF RowsInv, RowsOnceInOrder, Values
<1> QED
  BY <1>4, <1>5, <1>7, <1>10 DEF IInv

(* flush() delivers all the rows there are.                                *)
LEMMA FlushIInv ==
  ASSUME IInv, Flush
  PROVE  IInv'
<1>1. /\ TypeOK /\ CountInv /\ FramingInv /\ RestInv /\ OnceInv /\ WholeInv
      /\ RowsInv /\ RowsOnceInOrder
  BY DEF IInv
<1>2. /\ pc = "idle" /\ FlushDecoder /\ decoded' = <<>> /\ due' = owed
      /\ delivered' = AllRows
      /\ UNCHANGED <<framed, batchSize, pc, rest, pushed, owed, cutShort, failed>>
  BY DEF Flush, AllRows
<1>3. /\ buffered' = <<>> /\ awaiting' = awaiting /\ torn' \subseteq torn /\ FramingInv'
  BY <1>1, <1>2, FlushedDecoder
<1>4. AllRows \in Seq(Rows)
  BY <1>1, AllRowsType
<1>5. AllRows' = AllRows
  <2>1. (AllRows \o <<>>) \o <<>> = AllRows
    BY <1>4
  <2> QED
    BY <1>2, <1>3, <2>1 DEF AllRows
<1>6. TypeOK'
  <2>1. /\ decoded' \in Seq(Rows) /\ delivered' \in Seq(Rows)
        /\ cutShort' \in BOOLEAN /\ failed' \in BOOLEAN
        /\ pc' \in {"idle", "decoding", "checking"} /\ (pc' = "idle" => rest' = <<>>)
    BY <1>1, <1>2, <1>4 DEF TypeOK
  <2> QED
    BY <1>1, <1>2, <2>1, FlushedType
<1>7. CountInv'
  BY <1>1, <1>2 DEF CountInv
<1>8. rest' = <<>> /\ rest = <<>>
  BY <1>1, <1>2 DEF TypeOK
<1>9. RestInv' /\ OnceInv' /\ MessageInv'
  BY <1>2, <1>8 DEF RestInv, OnceInv, MessageInv
<1>10. WholeInv'
  BY <1>1, <1>2, <1>3, <1>8 DEF WholeInv, Whole
<1>11. RowsInv' /\ RowsOnceInOrder'
  <2>1. ~cutShort => owed \subseteq Values(AllRows)
    BY <1>1, <1>2 DEF RowsOnceInOrder
  <2>2. ~cutShort' => Values(delivered)' \intersect owed' = due'
    BY <1>2, <2>1 DEF Values
  <2> QED
    BY <1>1, <1>2, <1>5, <2>1, <2>2 DEF RowsInv, RowsOnceInOrder, Values
<1> QED
  BY <1>3, <1>6, <1>7, <1>9, <1>10, <1>11 DEF IInv

(* Every step keeps the invariant.                                         *)
LEMMA NextIInv == IInv /\ [Next]_vars => IInv'
<1> SUFFICES ASSUME IInv, [Next]_vars
             PROVE  IInv'
  OBVIOUS
<1>1. CASE \E value \in Messages(pushed + 1) \union Malformed(pushed + 1) :
             Push(value) \/ PushFails(value)
  BY <1>1, PushIInv, PushFailsIInv
<1>2. CASE DecodePrefix
  BY <1>2, DecodePrefixIInv
<1>3. CASE DecodeDatum
  BY <1>3, DecodeDatumIInv
<1>4. CASE DecodeMisread
  BY <1>4, DecodeMisreadIInv
<1>5. CASE DecodePart
  BY <1>5, DecodePartIInv
<1>6. CASE DecodeStops
  BY <1>6, DecodeStopsIInv
<1>7. CASE DecodeUnknown \/ PushReturns
  BY <1>7, ReturnIInv
<1>8. CASE GoOn
  BY <1>8, GoOnIInv
<1>9. CASE GoOnFails \/ FlushRaises
  BY <1>9, FailsIInv
<1>10. CASE Flush
  BY <1>10, FlushIInv
<1>11. CASE UNCHANGED vars
  <2>1. UNCHANGED <<framed, batchSize, active, pending, capacity, awaiting, torn, buffered,
                    decoded, pc, rest, pushed, owed, cutShort, failed, due, delivered>>
    BY <1>11 DEF vars, decoderVars, history
  <2>2. AllRows' = AllRows
    BY <2>1 DEF AllRows
  <2>3. TypeOK' /\ CountInv' /\ FramingInv' /\ RestInv' /\ OnceInv' /\ WholeInv'
    BY <2>1, <2>2 DEF IInv, TypeOK, CountInv, FramingInv, RestInv, OnceInv, WholeInv, Whole,
                      Announced, Current, Prefix, Token, Values
  <2>4. MessageInv' /\ RowsInv' /\ RowsOnceInOrder'
    BY <2>1, <2>2 DEF IInv, MessageInv, RowsInv, RowsOnceInOrder, Values, StillComes, Datum,
                      Prefix, Token
  <2> QED
    BY <2>3, <2>4 DEF IInv
<1> QED
  BY <1>1, <1>2, <1>3, <1>4, <1>5, <1>6, <1>7, <1>8, <1>9, <1>10, <1>11 DEF Next, Advance

-----------------------------------------------------------------------------
(* The invariant from which the rest follows, for any schemas, batch sizes *)
(* and number of values.                                                   *)
THEOREM Inductive == Spec => []IInv
<1> QED
  BY InitIInv, NextIInv, PTL DEF Spec

(* The Decoder never holds more rows than its batch size, and a schema     *)
(* change waits only while it has no room.                                 *)
THEOREM TypeCorrect == Spec => []TypeOK
<1>1. IInv => TypeOK
  BY DEF IInv
<1> QED
  BY Inductive, <1>1, PTL

(* The row of a value comes once, in order, and was read with the schema   *)
(* it was written with, whatever other values were pushed; and as long as  *)
(* none of them ended inside a message, flush() returns every row that was *)
(* pushed.                                                                 *)
THEOREM FlushReturnsEveryRow == Spec => []RowsOnceInOrder
<1>1. IInv => RowsOnceInOrder
  BY DEF IInv
<1> QED
  BY Inductive, <1>1, PTL

=============================================================================
