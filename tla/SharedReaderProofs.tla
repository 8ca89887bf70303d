------------------------- MODULE SharedReaderProofs -------------------------
(***************************************************************************)
(* For any number of readers, any file and any sizes of requests: the      *)
(* readers of one file keep to their types, and each gets what it would    *)
(* get of a file of its own.                                               *)
(***************************************************************************)
EXTENDS SharedReader, TLAPS

(* What a reader knows of itself, whoever holds the lock.                  *)
SeenInv(r) ==
  /\ start[r] = -1 <=> pc[r] = "none"
  /\ pc[r] = "none" => length[r] = 0 /\ seen[r] = <<>>
  /\ IsRange(r) /\ pc[r] # "done" => seen[r] = <<>>
  /\ ~IsRange(r) /\ pc[r] # "none" =>
       /\ position[r] = start[r] + Len(seen[r])
       /\ seen[r] = Bytes(start[r], Len(seen[r]))

(* What holds while it has the lock: once it has sought, the cursor stands *)
(* where the bytes it has end.                                             *)
CallInv(r) ==
  /\ pc[r] \in {"locked", "sought"} =>
       /\ wanted[r] >= 1
       /\ IsRange(r) => wanted[r] = length[r]
  /\ pc[r] = "locked" => got[r] = <<>>
  /\ pc[r] = "sought" =>
       IF IsRange(r)
         THEN /\ Len(got[r]) < wanted[r]
              /\ got[r] = Bytes(start[r], Len(got[r]))
              /\ cursor = start[r] + Len(got[r])
         ELSE got[r] = <<>> /\ cursor = position[r]

IInv ==
  /\ TypeOK
  /\ \A r \in Readers : SeenInv(r) /\ CallInv(r)

-----------------------------------------------------------------------------
(* A piece of the file is a sequence of its bytes.                         *)
LEMMA BytesType ==
  ASSUME NEW p \in Nat, NEW n \in Nat, p + n <= FileLength
  PROVE  /\ Bytes(p, n) \in Seq(0 .. FileLength)
         /\ Len(Bytes(p, n)) = n
  BY LengthAssumption DEF Bytes

(* Two pieces that follow each other are one.                              *)
LEMMA BytesAppend ==
  ASSUME NEW p \in Nat, NEW n \in Nat, NEW m \in Nat
  PROVE  Bytes(p, n) \o Bytes(p + n, m) = Bytes(p, n + m)
  BY DEF Bytes

(* No byte at all is the empty sequence.                                   *)
LEMMA BytesEmpty ==
  ASSUME NEW p \in Nat
  PROVE  Bytes(p, 0) = <<>>
  BY DEF Bytes

-----------------------------------------------------------------------------
(* Nobody has asked for anything yet.                                      *)
LEMMA InitIInv == Init => IInv
<1> SUFFICES ASSUME Init PROVE IInv
  OBVIOUS
<1>1. TypeOK
  <2>1. got \in [Readers -> Seq(0 .. FileLength)] /\ seen \in [Readers -> Seq(0 .. FileLength)]
    <3>1. <<>> \in Seq(0 .. FileLength)
      OBVIOUS
    <3> QED
      BY <3>1 DEF Init
  <2>2. start \in [Readers -> -1 .. FileLength]
    BY LengthAssumption DEF Init
  <2>3. /\ cursor \in 0 .. FileLength
        /\ length \in [Readers -> 0 .. FileLength]
        /\ position \in [Readers -> 0 .. FileLength]
        /\ wanted \in [Readers -> 0 .. FileLength + MaxRequest]
    BY LengthAssumption DEF Init
  <2>4. \A r \in Readers : owner = r <=> pc[r] \in {"locked", "sought"}
    BY ReadersAssumption DEF Init
  <2> QED
    BY <2>1, <2>2, <2>3, <2>4 DEF Init, TypeOK
<1>2. \A r \in Readers : SeenInv(r) /\ CallInv(r)
  BY DEF Init, SeenInv, CallInv, IsRange
<1> QED
  BY <1>1, <1>2 DEF IInv

(* A step that leaves what SeenInv and CallInv read of a reader alone      *)
(* keeps them: every other reader's, as it does not hold the lock.         *)
LEMMA Others ==
  ASSUME IInv,
         NEW q \in Readers,
         pc'[q] = pc[q], start'[q] = start[q], length'[q] = length[q],
         position'[q] = position[q], wanted'[q] = wanted[q], got'[q] = got[q],
         seen'[q] = seen[q], pc[q] # "sought" \/ cursor' = cursor
  PROVE  SeenInv(q)' /\ CallInv(q)'
<1>1. SeenInv(q) /\ CallInv(q)
  BY DEF IInv
<1>2. SeenInv(q)'
  BY <1>1 DEF SeenInv, IsRange, Bytes
<1>3. CallInv(q)'
  BY <1>1 DEF CallInv, IsRange, Bytes
<1> QED
  BY <1>2, <1>3

(* Of the readers only the holder of the lock has sought.                  *)
LEMMA OnlyOwner ==
  ASSUME IInv, NEW r \in Readers, NEW q \in Readers, q # r,
         owner \in {r, NoReader}
  PROVE  pc[q] \notin {"locked", "sought"}
  BY ReadersAssumption DEF IInv, TypeOK

(* A SharedReader starts with nothing seen.                                *)
LEMMA GetReadIInv ==
  ASSUME IInv, NEW r \in Readers, NEW p \in 0 .. FileLength, GetRead(r, p)
  PROVE  IInv'
<1>1. TypeOK'
  BY LengthAssumption DEF IInv, TypeOK, GetRead, callVars
<1>2. \A q \in Readers \ {r} : SeenInv(q)' /\ CallInv(q)'
  BY Others DEF IInv, TypeOK, GetRead, callVars
<1>3. SeenInv(r)' /\ CallInv(r)'
  <2>1. /\ pc'[r] = "idle" /\ start'[r] = p /\ position'[r] = p
        /\ length'[r] = 0 /\ seen'[r] = <<>>
    BY DEF IInv, TypeOK, SeenInv, GetRead, callVars
  <2>2. Bytes(p, 0) = <<>>
    BY BytesEmpty, LengthAssumption
  <2> QED
    BY <2>1, <2>2, LengthAssumption DEF SeenInv, CallInv, IsRange, Bytes
<1> QED
  BY <1>1, <1>2, <1>3 DEF IInv

(* So does a range.                                                        *)
LEMMA GetBytesIInv ==
  ASSUME IInv, NEW r \in Readers, NEW p \in 0 .. FileLength, NEW n \in 1 .. FileLength,
         GetBytes(r, p, n)
  PROVE  IInv'
<1>1. TypeOK'
  <2>1. start' \in [Readers -> -1 .. FileLength] /\ length' \in [Readers -> 0 .. FileLength]
    BY LengthAssumption DEF IInv, TypeOK, GetBytes
  <2>2. \A q \in Readers : owner' = q <=> pc'[q] \in {"locked", "sought"}
    BY DEF IInv, TypeOK, GetBytes
  <2> QED
    BY <2>1, <2>2 DEF IInv, TypeOK, GetBytes, callVars
<1>2. \A q \in Readers \ {r} : SeenInv(q)' /\ CallInv(q)'
  BY Others DEF IInv, TypeOK, GetBytes, callVars
<1>3. SeenInv(r)' /\ CallInv(r)'
  <2>1. /\ pc'[r] = "idle" /\ start'[r] = p
        /\ length'[r] = n /\ seen'[r] = <<>>
    BY DEF IInv, TypeOK, SeenInv, GetBytes, callVars
  <2> QED
    BY <2>1, LengthAssumption DEF SeenInv, CallInv, IsRange
<1> QED
  BY <1>1, <1>2, <1>3 DEF IInv

(* The holder of the lock has no bytes yet.                                *)
LEMMA TakeLockIInv ==
  ASSUME IInv, NEW r \in Readers, NEW n \in 1 .. FileLength + MaxRequest, TakeLock(r, n)
  PROVE  IInv'
<1>1. TypeOK'
  <2>1. got' \in [Readers -> Seq(0 .. FileLength)]
    <3>1. <<>> \in Seq(0 .. FileLength)
      OBVIOUS
    <3> QED
      BY <3>1 DEF IInv, TypeOK, TakeLock
  <2>2. wanted' \in [Readers -> 0 .. FileLength + MaxRequest]
    BY LengthAssumption DEF IInv, TypeOK, TakeLock
  <2>3. \A q \in Readers : owner' = q <=> pc'[q] \in {"locked", "sought"}
    BY ReadersAssumption DEF IInv, TypeOK, TakeLock
  <2> QED
    BY <2>1, <2>2, <2>3 DEF IInv, TypeOK, TakeLock, readerVars
<1>2. \A q \in Readers \ {r} : SeenInv(q)' /\ CallInv(q)'
  BY Others DEF IInv, TypeOK, TakeLock, readerVars
<1>3. SeenInv(r)' /\ CallInv(r)'
  <2>1. /\ pc[r] = "idle" /\ pc'[r] = "locked" /\ wanted'[r] = n /\ got'[r] = <<>>
        /\ start'[r] = start[r] /\ length'[r] = length[r]
        /\ position'[r] = position[r] /\ seen'[r] = seen[r]
        /\ IsRange(r) => n = length[r]
    BY DEF IInv, TypeOK, TakeLock, readerVars
  <2>2. SeenInv(r)
    BY DEF IInv
  <2>3. SeenInv(r)'
    BY <2>1, <2>2 DEF SeenInv, IsRange, Bytes
  <2>4. CallInv(r)'
    BY <2>1, LengthAssumption DEF CallInv, IsRange
  <2> QED
    BY <2>3, <2>4
<1> QED
  BY <1>1, <1>2, <1>3 DEF IInv

(* Having sought, the holder of the lock finds the cursor where it wants   *)
(* it, wherever it was.                                                    *)
LEMMA SeekToIInv ==
  ASSUME IInv, NEW r \in Readers, SeekTo(r)
  PROVE  IInv'
<1>1. owner = r /\ pc[r] = "locked" /\ pc'[r] = "sought"
  BY DEF IInv, TypeOK, SeekTo
<1>2. SeenInv(r) /\ CallInv(r)
  BY DEF IInv
<1>3. cursor' \in 0 .. FileLength
  BY <1>1, <1>2, LengthAssumption DEF IInv, TypeOK, SeekTo, SeenInv, IsRange
<1>4. TypeOK'
  BY <1>1, <1>3 DEF IInv, TypeOK, SeekTo, readerVars, callVars
<1>5. \A q \in Readers \ {r} : SeenInv(q)' /\ CallInv(q)'
  BY <1>1, OnlyOwner, Others DEF IInv, TypeOK, SeekTo, readerVars, callVars
<1>6. SeenInv(r)'
  BY <1>1, <1>2 DEF SeekTo, SeenInv, IsRange, Bytes, readerVars, callVars
<1>7. CallInv(r)'
  <2>1. start[r] \in Nat
    BY <1>1, <1>2, LengthAssumption DEF IInv, TypeOK, SeenInv
  <2>2. Bytes(start[r], 0) = <<>>
    BY <2>1, BytesEmpty
  <2>3. /\ start' = start /\ length' = length /\ position' = position
        /\ wanted' = wanted /\ got' = got
    BY DEF SeekTo, readerVars, callVars
  <2>4. got[r] = <<>> /\ wanted[r] >= 1 /\ Len(got[r]) < wanted[r]
    BY <1>1, <1>2, LengthAssumption DEF CallInv, IInv, TypeOK
  <2>5. IsRange(r) => wanted[r] = length[r]
    BY <1>1, <1>2 DEF CallInv
  <2>6. cursor' = IF IsRange(r) THEN start[r] + Len(got[r]) ELSE position[r]
    BY <2>1, <2>4 DEF SeekTo
  <2>7. got[r] = Bytes(start[r], Len(got[r]))
    BY <2>2, <2>4
  <2> QED
    BY <1>1, <2>3, <2>4, <2>5, <2>6, <2>7 DEF CallInv, IsRange, Bytes
<1> QED
  BY <1>4, <1>5, <1>6, <1>7 DEF IInv

-----------------------------------------------------------------------------
(* What an answer of the file can be: the bytes from where the reader      *)
(* stands, and no more than it asked for.                                  *)
LEMMA AnswerBytes ==
  ASSUME IInv, NEW r \in Readers, NEW n \in 0 .. FileLength, Answer(r, n)
  PROVE  /\ owner = r /\ pc[r] = "sought"
         /\ n \in Nat /\ cursor \in Nat /\ cursor + n <= FileLength
         /\ cursor' = cursor + n /\ cursor' \in 0 .. FileLength
         /\ start[r] \in Nat
         /\ Len(got[r]) \in Nat /\ Len(got[r]) + n <= wanted[r]
<1>1. owner = r /\ pc[r] = "sought"
  BY DEF IInv, TypeOK, Answer
<1>2. cursor \in Nat /\ cursor' \in 0 .. FileLength /\ n \in Nat
  BY LengthAssumption DEF IInv, TypeOK, Answer
<1>3. start[r] \in Nat
  BY <1>1, LengthAssumption DEF IInv, TypeOK, SeenInv
<1>4. Len(got[r]) \in Nat /\ wanted[r] \in Nat
  BY LengthAssumption DEF IInv, TypeOK
<1> QED
  BY <1>1, <1>2, <1>3, <1>4 DEF Answer

(* A read adds to what its reader has seen the bytes that follow.          *)
LEMMA ReadIInv ==
  ASSUME IInv, NEW r \in Readers, NEW n \in 0 .. FileLength, Read(r, n)
  PROVE  IInv'
<1>1. /\ owner = r /\ pc[r] = "sought"
      /\ n \in Nat /\ cursor \in Nat /\ cursor + n <= FileLength
      /\ cursor' \in 0 .. FileLength
      /\ start[r] \in Nat
  BY AnswerBytes DEF Read
<1>2. SeenInv(r) /\ CallInv(r) /\ ~IsRange(r) /\ seen[r] \in Seq(0 .. FileLength)
  BY DEF IInv, TypeOK, Read
<1>3. cursor = position[r] /\ cursor = start[r] + Len(seen[r])
      /\ seen[r] = Bytes(start[r], Len(seen[r]))
  BY <1>1, <1>2 DEF SeenInv, CallInv
<1>4. /\ pc' = [pc EXCEPT ![r] = "idle"] /\ owner' = NoReader
      /\ position' = [position EXCEPT ![r] = cursor + n]
      /\ seen' = [seen EXCEPT ![r] = seen[r] \o Bytes(cursor, n)]
      /\ start' = start /\ length' = length /\ wanted' = wanted /\ got' = got
      /\ poisoned' = poisoned
  BY <1>2, <1>3 DEF Read, Return, callVars, IInv, TypeOK
<1>5. Bytes(cursor, n) \in Seq(0 .. FileLength) /\ Len(Bytes(cursor, n)) = n
  BY <1>1, BytesType
<1>6. TypeOK'
  <2>1. seen' \in [Readers -> Seq(0 .. FileLength)]
    <3>1. seen[r] \o Bytes(cursor, n) \in Seq(0 .. FileLength)
      BY <1>2, <1>5
    <3> QED
      BY <1>4, <3>1 DEF IInv, TypeOK
  <2>2. position' \in [Readers -> 0 .. FileLength]
    BY <1>1, <1>4, LengthAssumption DEF IInv, TypeOK
  <2>3. \A q \in Readers : owner' = q <=> pc'[q] \in {"locked", "sought"}
    BY <1>1, <1>4, ReadersAssumption DEF IInv, TypeOK
  <2>4. pc' \in [Readers -> {"none", "idle", "locked", "sought", "done"}]
    BY <1>4 DEF IInv, TypeOK
  <2> QED
    BY <1>1, <1>4, <2>1, <2>2, <2>3, <2>4 DEF IInv, TypeOK
<1>7. \A q \in Readers \ {r} : SeenInv(q)' /\ CallInv(q)'
  BY <1>1, <1>4, OnlyOwner, Others DEF IInv, TypeOK
<1>8. SeenInv(r)'
  <2> DEFINE s == seen[r] \o Bytes(cursor, n)
  <2>1. s = Bytes(start[r], Len(s)) /\ Len(s) = Len(seen[r]) + n
    <3>1. PICK k \in Nat : k = Len(seen[r])
      BY <1>2
    <3>2. seen[r] = Bytes(start[r], k) /\ cursor = start[r] + k
      BY <1>3, <3>1
    <3>3. Bytes(start[r], k) \o Bytes(start[r] + k, n) = Bytes(start[r], k + n)
      BY <1>1, BytesAppend
    <3>4. s = Bytes(start[r], k + n)
      BY <3>2, <3>3
    <3>5. Len(s) = k + n
      BY <1>1, <3>2, <3>4, BytesType
    <3> QED
      BY <3>1, <3>4, <3>5
  <2>2. /\ pc'[r] = "idle" /\ seen'[r] = s /\ start'[r] = start[r]
        /\ length'[r] = 0 /\ position'[r] = cursor + n
    BY <1>2, <1>4 DEF IInv, TypeOK, IsRange
  <2>3. Len(seen[r]) \in Nat
    BY <1>2
  <2> HIDE DEF s
  <2>4. position'[r] = start[r] + Len(s)
    BY <1>1, <1>3, <2>1, <2>2, <2>3
  <2>5. start'[r] # -1
    BY <1>1, <2>2
  <2>6. seen'[r] = Bytes(start'[r], Len(seen'[r])) /\ position'[r] = start'[r] + Len(seen'[r])
    BY <2>1, <2>2, <2>4
  <2> QED
    BY <2>2, <2>5, <2>6 DEF SeenInv, IsRange, Bytes
<1>9. CallInv(r)'
  <2>1. pc'[r] = "idle"
    BY <1>4 DEF IInv, TypeOK
  <2> QED
    BY <2>1 DEF CallInv
<1> QED
  BY <1>6, <1>7, <1>8, <1>9 DEF IInv

(* A call that ends without an answer leaves its reader as it was.         *)
LEMMA ReturnIInv ==
  ASSUME IInv, NEW r \in Readers, pc[r] \in {"locked", "sought"},
         Return(r), cursor' \in 0 .. FileLength, poisoned' \in BOOLEAN,
         UNCHANGED <<readerVars, callVars, seen>>
  PROVE  IInv'
<1>1. owner = r
  BY DEF IInv, TypeOK
<1>2. /\ owner' = NoReader
      /\ pc' = [pc EXCEPT ![r] = IF IsRange(r) THEN "done" ELSE "idle"]
      /\ start' = start /\ length' = length /\ position' = position
      /\ wanted' = wanted /\ got' = got /\ seen' = seen
  BY DEF Return, readerVars, callVars
<1>3. pc'[r] = IF IsRange(r) THEN "done" ELSE "idle"
  BY <1>2 DEF IInv, TypeOK
<1>4. TypeOK'
  <2>1. \A q \in Readers : owner' = q <=> pc'[q] \in {"locked", "sought"}
    BY <1>1, <1>2, ReadersAssumption DEF IInv, TypeOK
  <2>2. pc' \in [Readers -> {"none", "idle", "locked", "sought", "done"}]
    BY <1>2 DEF IInv, TypeOK
  <2> QED
    BY <1>2, <2>1, <2>2 DEF IInv, TypeOK
<1>5. \A q \in Readers \ {r} : SeenInv(q)' /\ CallInv(q)'
  BY <1>1, <1>2, OnlyOwner, Others DEF IInv, TypeOK
<1>6. SeenInv(r)' /\ CallInv(r)'
  <2>1. SeenInv(r)
    BY DEF IInv
  <2> QED
    BY <1>2, <1>3, <2>1 DEF SeenInv, CallInv, IsRange, Bytes
<1> QED
  BY <1>4, <1>5, <1>6 DEF IInv

(* The owner moves the cursor only while nobody has sought.                *)
LEMMA OwnerMovesIInv ==
  ASSUME IInv, OwnerMoves
  PROVE  IInv'
<1>1. TypeOK'
  BY DEF IInv, TypeOK, OwnerMoves, readerVars, callVars
<1>2. \A q \in Readers : SeenInv(q)' /\ CallInv(q)'
  <2>1. \A q \in Readers : pc[q] # "sought"
    BY ReadersAssumption DEF IInv, TypeOK, OwnerMoves
  <2> QED
    BY <2>1, Others DEF OwnerMoves, readerVars, callVars
<1> QED
  BY <1>1, <1>2 DEF IInv

(* What a range has after one more read of the file.                       *)
LEMMA RangeBytes ==
  ASSUME IInv, NEW r \in Readers, NEW n \in 0 .. FileLength, ReadRange(r, n)
  PROVE  /\ n \in Nat /\ n > 0
         /\ got[r] \o Bytes(cursor, n) = Bytes(start[r], Len(got[r]) + n)
         /\ got[r] \o Bytes(cursor, n) \in Seq(0 .. FileLength)
         /\ Len(got[r] \o Bytes(cursor, n)) = Len(got[r]) + n
         /\ cursor' = start[r] + (Len(got[r]) + n)
<1>1. /\ pc[r] = "sought"
      /\ n \in Nat /\ cursor \in Nat /\ cursor + n <= FileLength
      /\ cursor' = cursor + n
      /\ start[r] \in Nat
  BY AnswerBytes DEF ReadRange
<1>2. CallInv(r) /\ IsRange(r) /\ n > 0 /\ got[r] \in Seq(0 .. FileLength)
  BY DEF IInv, TypeOK, ReadRange
<1>3. cursor = start[r] + Len(got[r]) /\ got[r] = Bytes(start[r], Len(got[r]))
  BY <1>1, <1>2 DEF CallInv
<1>4. PICK k \in Nat : k = Len(got[r])
  BY <1>2
<1>5. got[r] = Bytes(start[r], k) /\ cursor = start[r] + k
  BY <1>3, <1>4
<1>6. Bytes(start[r], k) \o Bytes(start[r] + k, n) = Bytes(start[r], k + n)
  BY <1>1, BytesAppend
<1>7. got[r] \o Bytes(cursor, n) = Bytes(start[r], k + n)
  BY <1>5, <1>6
<1>8. Bytes(start[r], k + n) \in Seq(0 .. FileLength) /\ Len(Bytes(start[r], k + n)) = k + n
  BY <1>1, <1>5, BytesType
<1>9. cursor' = start[r] + (k + n)
  BY <1>1, <1>5
<1> QED
  BY <1>1, <1>2, <1>4, <1>7, <1>8, <1>9

(* A range has a start of its bytes until it has them all.                 *)
LEMMA ReadRangeIInv ==
  ASSUME IInv, NEW r \in Readers, NEW n \in 0 .. FileLength, ReadRange(r, n)
  PROVE  IInv'
<1> DEFINE bytes == got[r] \o Bytes(cursor, n)
<1>1. /\ owner = r /\ pc[r] = "sought" /\ cursor' \in 0 .. FileLength /\ start[r] \in Nat
      /\ Len(got[r]) \in Nat /\ Len(got[r]) + n <= wanted[r]
  BY AnswerBytes DEF ReadRange
<1>2. /\ n \in Nat
      /\ bytes = Bytes(start[r], Len(bytes))
      /\ bytes \in Seq(0 .. FileLength)
      /\ Len(bytes) = Len(got[r]) + n
      /\ cursor' = start[r] + Len(bytes)
  BY RangeBytes
<1>3. SeenInv(r) /\ CallInv(r) /\ IsRange(r)
  BY DEF IInv, ReadRange
<1>4. /\ poisoned' = poisoned /\ start' = start /\ length' = length
      /\ position' = position /\ wanted' = wanted
  BY DEF ReadRange, readerVars
<1>5. CASE Len(bytes) = wanted[r]
  <2>1. /\ seen' = [seen EXCEPT ![r] = bytes] /\ got' = got
        /\ owner' = NoReader /\ pc' = [pc EXCEPT ![r] = "done"]
    BY <1>3, <1>5 DEF ReadRange, Return
  <2> HIDE DEF bytes
  <2>2. TypeOK'
    <3>1. seen' \in [Readers -> Seq(0 .. FileLength)]
      BY <1>2, <2>1 DEF IInv, TypeOK
    <3>2. \A q \in Readers : owner' = q <=> pc'[q] \in {"locked", "sought"}
      BY <1>1, <2>1, ReadersAssumption DEF IInv, TypeOK
    <3>3. pc' \in [Readers -> {"none", "idle", "locked", "sought", "done"}]
      BY <2>1 DEF IInv, TypeOK
    <3> QED
      BY <1>1, <1>4, <2>1, <3>1, <3>2, <3>3 DEF IInv, TypeOK
  <2>3. \A q \in Readers \ {r} : SeenInv(q)' /\ CallInv(q)'
    BY <1>1, <1>4, <2>1, OnlyOwner, Others DEF IInv, TypeOK
  <2>4. SeenInv(r)' /\ CallInv(r)'
    <3>1. pc'[r] = "done"
      BY <2>1 DEF IInv, TypeOK
    <3> QED
      BY <1>1, <1>3, <1>4, <3>1 DEF SeenInv, CallInv, IsRange
  <2> QED
    BY <2>2, <2>3, <2>4 DEF IInv
<1>6. CASE Len(bytes) # wanted[r]
  <2>1. /\ got' = [got EXCEPT ![r] = bytes]
        /\ seen' = seen /\ owner' = owner /\ pc' = pc
    BY <1>6 DEF ReadRange
  <2> HIDE DEF bytes
  <2>2. Len(bytes) < wanted[r]
    <3>1. wanted[r] \in Nat
      BY LengthAssumption DEF IInv, TypeOK
    <3> QED
      BY <1>1, <1>2, <1>6, <3>1
  <2>3. TypeOK'
    <3>1. got' \in [Readers -> Seq(0 .. FileLength)]
      BY <1>2, <2>1 DEF IInv, TypeOK
    <3> QED
      BY <1>1, <1>4, <2>1, <3>1 DEF IInv, TypeOK
  <2>4. \A q \in Readers \ {r} : SeenInv(q)' /\ CallInv(q)'
    BY <1>1, <1>4, <2>1, OnlyOwner, Others DEF IInv, TypeOK
  <2>5. SeenInv(r)'
    BY <1>3, <1>4, <2>1 DEF SeenInv, IsRange, Bytes
  <2>6. CallInv(r)'
    <3>1. got'[r] = bytes /\ pc'[r] = "sought" /\ length'[r] # 0
      BY <1>1, <1>3, <1>4, <2>1 DEF IInv, TypeOK, IsRange
    <3>2. wanted'[r] >= 1 /\ wanted'[r] = length'[r]
      BY <1>1, <1>3, <1>4 DEF CallInv
    <3>3. /\ Len(got'[r]) < wanted'[r]
          /\ got'[r] = Bytes(start'[r], Len(got'[r]))
          /\ cursor' = start'[r] + Len(got'[r])
      BY <1>2, <1>4, <2>2, <3>1
    <3> QED
      BY <3>1, <3>2, <3>3 DEF CallInv, IsRange, Bytes
  <2> QED
    BY <2>3, <2>4, <2>5, <2>6 DEF IInv
<1> QED
  BY <1>5, <1>6

-----------------------------------------------------------------------------
(* Every step keeps the invariant.                                         *)
LEMMA NextIInv == IInv /\ [Next]_vars => IInv'
<1> SUFFICES ASSUME IInv, [Next]_vars PROVE IInv'
  OBVIOUS
<1>1. ASSUME NEW r \in Readers, NEW p \in 0 .. FileLength, GetRead(r, p) PROVE IInv'
  BY <1>1, GetReadIInv
<1>2. ASSUME NEW r \in Readers, NEW p \in 0 .. FileLength, NEW n \in 1 .. FileLength,
             GetBytes(r, p, n)
      PROVE  IInv'
  BY <1>2, GetBytesIInv
<1>3. ASSUME NEW r \in Readers, NEW n \in 1 .. FileLength + MaxRequest, TakeLock(r, n)
      PROVE  IInv'
  BY <1>3, TakeLockIInv
<1>4. ASSUME NEW r \in Readers, SeekTo(r) PROVE IInv'
  BY <1>4, SeekToIInv
<1>5. ASSUME NEW r \in Readers, NEW n \in 0 .. FileLength, Read(r, n) PROVE IInv'
  BY <1>5, ReadIInv
<1>6. ASSUME NEW r \in Readers, NEW n \in 0 .. FileLength, ReadRange(r, n) PROVE IInv'
  BY <1>6, ReadRangeIInv
<1>7. ASSUME NEW r \in Readers, RangeEnds(r) PROVE IInv'
  <2>1. 0 \in 0 .. FileLength
    BY LengthAssumption
  <2>2. pc[r] = "sought" /\ cursor' \in 0 .. FileLength
    BY <1>7, <2>1, AnswerBytes DEF RangeEnds
  <2>3. Return(r) /\ poisoned' \in BOOLEAN /\ UNCHANGED <<readerVars, callVars, seen>>
    BY <1>7 DEF RangeEnds, IInv, TypeOK
  <2> QED
    BY <2>2, <2>3, ReturnIInv
<1>8. ASSUME NEW r \in Readers, FileFails(r) PROVE IInv'
  BY <1>8, ReturnIInv DEF FileFails, IInv, TypeOK
<1>9. ASSUME NEW r \in Readers, FilePanics(r) PROVE IInv'
  BY <1>9, ReturnIInv DEF FilePanics
<1>10. CASE OwnerMoves
  BY <1>10, OwnerMovesIInv
<1>11. CASE UNCHANGED vars
  <2>1. /\ cursor' = cursor /\ owner' = owner /\ poisoned' = poisoned /\ pc' = pc
        /\ start' = start /\ length' = length /\ position' = position
        /\ wanted' = wanted /\ got' = got /\ seen' = seen
    BY <1>11 DEF vars, readerVars, callVars
  <2>2. TypeOK'
    BY <2>1 DEF IInv, TypeOK
  <2>3. \A q \in Readers : SeenInv(q)' /\ CallInv(q)'
    BY <2>1, Others
  <2> QED
    BY <2>2, <2>3 DEF IInv
<1> QED
  BY <1>1, <1>2, <1>3, <1>4, <1>5, <1>6, <1>7, <1>8, <1>9, <1>10, <1>11 DEF Next, Progress

(* The inductive invariant holds in every reachable state.                 *)
THEOREM Inductive == Spec => []IInv
<1> QED
  BY InitIInv, NextIInv, PTL DEF Spec

(* Cursor, positions and bytes stay in the file, whatever is read from     *)
(* where, and the lock belongs to the one call that is inside.             *)
THEOREM TypeCorrect == Spec => []TypeOK
<1>1. IInv => TypeOK
  BY DEF IInv
<1> QED
  BY Inductive, <1>1, PTL

-----------------------------------------------------------------------------
(* Asking for a reader or a range is asking for one with its own file.     *)
LEMMA AskStep ==
  ASSUME IInv, NEW r \in Readers, NEW p \in 0 .. FileLength, NEW n \in 0 .. FileLength,
         pc[r] = "none", start' = [start EXCEPT ![r] = p],
         length' = [length EXCEPT ![r] = n], seen' = seen
  PROVE  Private!Next
<1>1. start[r] = -1
  BY DEF IInv, SeenInv
<1>2. Private!Ask(r)
  BY <1>1 DEF Private!Ask
<1> QED
  BY <1>2 DEF Private!Next

(* So is an answer with some bytes.                                        *)
LEMMA ReadStep ==
  ASSUME IInv, NEW r \in Readers, NEW n \in 0 .. FileLength, Read(r, n)
  PROVE  [Private!Next]_Private!vars
<1>1. /\ pc[r] = "sought" /\ n \in Nat /\ cursor \in Nat /\ cursor + n <= FileLength
      /\ start[r] \in Nat
  BY AnswerBytes DEF Read
<1>2. SeenInv(r) /\ CallInv(r) /\ length[r] = 0 /\ seen[r] \in Seq(0 .. FileLength)
  BY DEF IInv, TypeOK, Read, IsRange
<1>3. cursor = start[r] + Len(seen[r])
  BY <1>1, <1>2 DEF SeenInv, CallInv, IsRange
<1>4. /\ start' = start /\ length' = length
      /\ seen' = [seen EXCEPT ![r] = seen[r] \o Bytes(cursor, n)]
  BY DEF Read
<1>5. CASE n = 0
  <2>1. seen[r] \o Bytes(cursor, n) = seen[r]
    <3>1. Bytes(cursor, n) = <<>>
      BY <1>1, <1>5, BytesEmpty
    <3> QED
      BY <1>2, <3>1
  <2>2. seen' = seen
    BY <1>4, <2>1 DEF IInv, TypeOK
  <2> QED
    BY <1>4, <2>2 DEF Private!vars
<1>6. CASE n # 0
  <2>1. n \in 1 .. FileLength - cursor
    BY <1>1, <1>6, LengthAssumption
  <2>2. Bytes(cursor, n) = Private!Bytes(cursor, n)
    BY DEF Bytes, Private!Bytes
  <2>3. Private!Give(r)
    <3>1. start[r] # -1
      BY <1>1
    <3>2. \E m \in 1 .. FileLength - (start[r] + Len(seen[r])) :
            /\ length[r] # 0 => seen[r] = <<>> /\ m = length[r]
            /\ seen' = [seen EXCEPT ![r] = seen[r] \o
                                           Private!Bytes(start[r] + Len(seen[r]), m)]
      <4> DEFINE p == start[r] + Len(seen[r])
      <4>1. p = cursor
        BY <1>3
      <4> HIDE DEF p
      <4>2. n \in 1 .. FileLength - p /\ Bytes(cursor, n) = Private!Bytes(p, n)
        BY <2>1, <2>2, <4>1
      <4>3. seen' = [seen EXCEPT ![r] = seen[r] \o Private!Bytes(p, n)]
        BY <1>4, <4>2
      <4> QED
        BY <1>2, <4>2, <4>3 DEF p
    <3> QED
      BY <1>4, <3>1, <3>2 DEF Private!Give
  <2> QED
    BY <2>3 DEF Private!Next
<1> QED
  BY <1>5, <1>6

(* A range is given when its last bytes arrive.                            *)
LEMMA ReadRangeStep ==
  ASSUME IInv, NEW r \in Readers, NEW n \in 0 .. FileLength, ReadRange(r, n)
  PROVE  [Private!Next]_Private!vars
<1> DEFINE bytes == got[r] \o Bytes(cursor, n)
<1>1. start' = start /\ length' = length
  BY DEF ReadRange, readerVars
<1>2. CASE Len(bytes) # wanted[r]
  BY <1>1, <1>2 DEF ReadRange, Private!vars
<1>3. CASE Len(bytes) = wanted[r]
  <2>1. pc[r] = "sought" /\ start[r] \in Nat /\ cursor' \in 0 .. FileLength
    BY AnswerBytes DEF ReadRange
  <2>2. /\ bytes = Bytes(start[r], Len(bytes)) /\ Len(bytes) \in Nat
        /\ cursor' = start[r] + Len(bytes)
    BY RangeBytes
  <2>3. SeenInv(r) /\ CallInv(r) /\ IsRange(r)
    BY DEF IInv, ReadRange
  <2>4. seen' = [seen EXCEPT ![r] = bytes]
    BY <1>3 DEF ReadRange
  <2> HIDE DEF bytes
  <2>5. seen[r] = <<>> /\ wanted[r] = length[r] /\ wanted[r] >= 1 /\ length[r] # 0
    BY <2>1, <2>3 DEF SeenInv, CallInv, IsRange
  <2>6. start[r] + Len(seen[r]) = start[r]
    BY <2>1, <2>5
  <2>7. length[r] \in 1 .. FileLength - start[r]
    BY <1>3, <2>1, <2>2, <2>5, LengthAssumption
  <2>8. seen[r] \o Private!Bytes(start[r], length[r]) = bytes
    <3>1. Private!Bytes(start[r], length[r]) = Bytes(start[r], length[r])
      BY DEF Bytes, Private!Bytes
    <3>2. Bytes(start[r], length[r]) \in Seq(0 .. FileLength)
      BY <2>1, <2>7, BytesType, LengthAssumption
    <3>3. Bytes(start[r], length[r]) = bytes
      BY <1>3, <2>2, <2>5
    <3> QED
      BY <2>5, <3>1, <3>2, <3>3
  <2>9. Private!Give(r)
    <3>1. start[r] # -1
      BY <2>1
    <3>2. \E m \in 1 .. FileLength - (start[r] + Len(seen[r])) :
            /\ length[r] # 0 => seen[r] = <<>> /\ m = length[r]
            /\ seen' = [seen EXCEPT ![r] = seen[r] \o
                                           Private!Bytes(start[r] + Len(seen[r]), m)]
      <4> DEFINE p == start[r] + Len(seen[r])
      <4> HIDE DEF p
      <4>1. p = start[r]
        BY <2>6 DEF p
      <4>2. seen' = [seen EXCEPT ![r] = seen[r] \o Private!Bytes(p, length[r])]
        BY <2>4, <2>8, <4>1
      <4> QED
        BY <2>5, <2>7, <4>1, <4>2 DEF p
    <3> QED
      BY <1>1, <3>1, <3>2 DEF Private!Give
  <2> QED
    BY <2>9 DEF Private!Next
<1> QED
  BY <1>2, <1>3

(* Readers that share the file get what readers with a file each would     *)
(* get: every other step leaves that alone.                                *)
THEOREM Refinement == Spec => ImplementsRangeReads
<1>1. Init => Private!Init
  BY DEF Init, Private!Init
<1>2. IInv /\ [Next]_vars => [Private!Next]_Private!vars
  <2> SUFFICES ASSUME IInv, [Next]_vars PROVE [Private!Next]_Private!vars
    OBVIOUS
  <2>1. ASSUME NEW r \in Readers, NEW p \in 0 .. FileLength, GetRead(r, p)
        PROVE  Private!Next
    <3>1. length' = [length EXCEPT ![r] = 0]
      BY <2>1 DEF IInv, TypeOK, SeenInv, GetRead
    <3>2. 0 \in 0 .. FileLength
      BY LengthAssumption
    <3> QED
      BY <2>1, <3>1, <3>2, AskStep DEF GetRead
  <2>2. ASSUME NEW r \in Readers, NEW p \in 0 .. FileLength, NEW n \in 1 .. FileLength,
               GetBytes(r, p, n)
        PROVE  Private!Next
    <3>1. n \in 0 .. FileLength
      BY LengthAssumption
    <3> QED
      BY <2>2, <3>1, AskStep DEF GetBytes
  <2>3. ASSUME NEW r \in Readers, NEW n \in 0 .. FileLength, Read(r, n) \/ ReadRange(r, n)
        PROVE  [Private!Next]_Private!vars
    BY <2>3, ReadStep, ReadRangeStep
  <2>4. ASSUME NEW r \in Readers,
               \/ \E n \in 1 .. FileLength + MaxRequest : TakeLock(r, n)
               \/ SeekTo(r) \/ RangeEnds(r) \/ FileFails(r) \/ FilePanics(r)
        PROVE  UNCHANGED Private!vars
    BY <2>4 DEF TakeLock, SeekTo, RangeEnds, FileFails, FilePanics, readerVars, Private!vars
  <2>5. CASE OwnerMoves
    BY <2>5 DEF OwnerMoves, readerVars, Private!vars
  <2>6. CASE UNCHANGED vars
    BY <2>6 DEF vars, readerVars, Private!vars
  <2> QED
    BY <2>1, <2>2, <2>3, <2>4, <2>5, <2>6 DEF Next, Progress
<1> QED
  BY Inductive, <1>1, <1>2, PTL DEF Spec, Private!Spec, ImplementsRangeReads
=============================================================================
