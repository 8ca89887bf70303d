---------------------------- MODULE SharedReader ----------------------------
(***************************************************************************)
(* The range reads of one Parquet file.  A SeekableChunkReader keeps the   *)
(* file behind a mutex and hands out SharedReaders, which read on from a   *)
(* position of their own, and answers get_bytes with a range at once.  All *)
(* of them move the one cursor of the file, each between taking the lock   *)
(* and giving it back, when another thread may be waiting.                 *)
(*                                                                         *)
(* The file is a Python object (PythonReader) or any other CodecReader.    *)
(* It may answer with fewer bytes than it was asked for, with too many,    *)
(* raise, or panic.  Whoever gave it to the decoder still has it, and may  *)
(* move its cursor between two reads.  Byte k of the file is the number k. *)
(***************************************************************************)
EXTENDS Integers, Sequences

CONSTANTS
  Readers,      (* SharedReaders and calls of get_bytes                    *)
  NoReader,     (* nobody holds the lock                                   *)
  FileLength,   (* SeekableChunkReader.len                                 *)
  MaxRequest    (* bound: bytes asked for at once                          *)

ASSUME ReadersAssumption == NoReader \notin Readers

ASSUME LengthAssumption == FileLength \in Nat /\ MaxRequest \in Nat

VARIABLES
  cursor,       (* where the file stands                                   *)
  owner,        (* who holds the lock, NoReader if nobody                  *)
  poisoned,     (* a holder of the lock has panicked                       *)
  pc,           (* by reader: "none" before it is asked for, "idle",       *)
                (* "locked", "sought", "done" for a range                  *)
  start,        (* by reader, the position it was asked for, -1 before     *)
  length,       (* by reader, the length of a range, 0 for a SharedReader  *)
  position,     (* by reader, the position field of a SharedReader         *)
  wanted,       (* by reader, bytes the call in progress asked for         *)
  got,          (* by reader, bytes a get_bytes in progress has            *)
  seen          (* by reader, bytes answered (a history variable)          *)

readerVars == <<start, length, position>>
callVars   == <<wanted, got>>
vars == <<cursor, owner, poisoned, pc, readerVars, callVars, seen>>

Bytes(p, n) == [i \in 1 .. n |-> p + i - 1]

IsRange(r) == length[r] # 0

-----------------------------------------------------------------------------
(* SeekableChunkReader::new measures the file and rewinds it.              *)
Init ==
  /\ cursor = 0
  /\ owner = NoReader /\ poisoned = FALSE
  /\ pc = [r \in Readers |-> "none"]
  /\ start = [r \in Readers |-> -1]
  /\ length = [r \in Readers |-> 0]
  /\ position = [r \in Readers |-> 0]
  /\ wanted = [r \in Readers |-> 0]
  /\ got = [r \in Readers |-> <<>>]
  /\ seen = [r \in Readers |-> <<>>]

(* get_read(p) of a SeekableChunkReader.                                   *)
GetRead(r, p) ==
  /\ pc[r] = "none"
  /\ pc' = [pc EXCEPT ![r] = "idle"]
  /\ start' = [start EXCEPT ![r] = p]
  /\ position' = [position EXCEPT ![r] = p]
  /\ UNCHANGED <<cursor, owner, poisoned, length, callVars, seen>>

(* get_bytes(p, n) is called, and waits for the lock.  No caller asks for  *)
(* an empty range.                                                         *)
GetBytes(r, p, n) ==
  /\ pc[r] = "none"
  /\ pc' = [pc EXCEPT ![r] = "idle"]
  /\ start' = [start EXCEPT ![r] = p]
  /\ length' = [length EXCEPT ![r] = n]
  /\ UNCHANGED <<cursor, owner, poisoned, position, callVars, seen>>

(* read(n) of a SharedReader, or get_bytes, takes the lock; one that was   *)
(* poisoned is refused, which changes nothing.                             *)
TakeLock(r, n) ==
  /\ pc[r] = "idle"
  /\ owner = NoReader /\ ~poisoned
  /\ IF IsRange(r) THEN n = length[r] ELSE n <= MaxRequest
  /\ owner' = r
  /\ pc' = [pc EXCEPT ![r] = "locked"]
  /\ wanted' = [wanted EXCEPT ![r] = n]
  /\ got' = [got EXCEPT ![r] = <<>>]
  /\ UNCHANGED <<cursor, poisoned, readerVars, seen>>

\* Mutant: after its first read, a reader finds the file where it left it.
SeekOnlyFirst(r) ==
  /\ pc[r] = "locked"
  /\ cursor' = IF IsRange(r) \/ position[r] = start[r] THEN start[r] ELSE cursor
  /\ pc' = [pc EXCEPT ![r] = "sought"]
  /\ UNCHANGED <<owner, poisoned, readerVars, callVars, seen>>

SeekTo(r) ==
  /\ pc[r] = "locked"
  /\ cursor' = IF IsRange(r) THEN start[r] ELSE position[r]
  /\ pc' = [pc EXCEPT ![r] = "sought"]
  /\ UNCHANGED <<owner, poisoned, readerVars, callVars, seen>>

\* The call of r returns and its guard is dropped: a range is done with, a
\* SharedReader can be read again.
Return(r) ==
  /\ owner' = NoReader
  /\ pc' = [pc EXCEPT ![r] = IF IsRange(r) THEN "done" ELSE "idle"]

(* A read of the file answers with n of the bytes that were asked for; it  *)
(* answers with none at the end of the file only.                          *)
Answer(r, n) ==
  LET room == wanted[r] - Len(got[r]) IN
  /\ pc[r] = "sought"
  /\ n \in 0 .. room
  /\ cursor + n <= FileLength
  /\ n = 0 => cursor = FileLength
  /\ cursor' = cursor + n

\* Mutant: the position moves by what was asked for.
ReadCountsBuffer(r, n) ==
  /\ ~IsRange(r)
  /\ Answer(r, n)
  /\ position' = [position EXCEPT ![r] = @ + wanted[r]]
  /\ seen' = [seen EXCEPT ![r] = @ \o Bytes(cursor, n)]
  /\ Return(r)
  /\ UNCHANGED <<poisoned, start, length, callVars>>

(* SharedReader::read returns what it got, and moves its position by it.   *)
Read(r, n) ==
  /\ ~IsRange(r)
  /\ Answer(r, n)
  /\ position' = [position EXCEPT ![r] = @ + n]
  /\ seen' = [seen EXCEPT ![r] = @ \o Bytes(cursor, n)]
  /\ Return(r)
  /\ UNCHANGED <<poisoned, start, length, callVars>>

(* read_exact of get_bytes goes on until it has the range.                 *)
ReadRange(r, n) ==
  LET bytes == got[r] \o Bytes(cursor, n) IN
  /\ IsRange(r)
  /\ n > 0
  /\ Answer(r, n)
  /\ IF Len(bytes) = wanted[r]
       THEN /\ seen' = [seen EXCEPT ![r] = bytes]
            /\ Return(r)
            /\ UNCHANGED got
       ELSE /\ got' = [got EXCEPT ![r] = bytes]
            /\ UNCHANGED <<seen, owner, pc>>
  /\ UNCHANGED <<poisoned, readerVars, wanted>>

\* Mutant: get_bytes reads until it has the range.
RangeRetries(r) ==
  /\ IsRange(r)
  /\ Answer(r, 0)
  /\ UNCHANGED <<owner, pc, poisoned, readerVars, callVars, seen>>

(* The file ends before the range does: UnexpectedEof.                     *)
RangeEnds(r) ==
  /\ IsRange(r)
  /\ Answer(r, 0)
  /\ Return(r)
  /\ UNCHANGED <<poisoned, readerVars, callVars, seen>>

(* The file raises when it is sought or read, does not answer with bytes,  *)
(* or answers with more of them than were asked for.  Its cursor may be    *)
(* anywhere; the position of the reader has not moved.                     *)
FileFails(r) ==
  /\ pc[r] \in {"locked", "sought"}
  /\ cursor' \in 0 .. FileLength
  /\ Return(r)
  /\ UNCHANGED <<poisoned, readerVars, callVars, seen>>

(* A panic drops the guard as well, and poisons the lock.                  *)
FilePanics(r) ==
  /\ pc[r] \in {"locked", "sought"}
  /\ cursor' \in 0 .. FileLength
  /\ poisoned' = TRUE
  /\ Return(r)
  /\ UNCHANGED <<readerVars, callVars, seen>>

(* The file's owner uses it between two reads.                             *)
OwnerMoves ==
  /\ owner = NoReader
  /\ cursor' \in 0 .. FileLength
  /\ UNCHANGED <<owner, poisoned, pc, readerVars, callVars, seen>>

(* What a call that holds the lock does when nothing fails.                *)
Progress(r) ==
  \/ SeekTo(r)
  \/ \E n \in 0 .. FileLength : Read(r, n) \/ ReadRange(r, n)
  \/ RangeEnds(r)

Next ==
  \/ \E r \in Readers :
       \/ \E p \in 0 .. FileLength : GetRead(r, p)
       \/ \E p \in 0 .. FileLength, n \in 1 .. FileLength : GetBytes(r, p, n)
       \/ \E n \in 1 .. FileLength + MaxRequest : TakeLock(r, n)
       \/ Progress(r) \/ FileFails(r) \/ FilePanics(r)
  \/ OwnerMoves

Spec == Init /\ [][Next]_vars

(* A call in progress goes on, the file need not fail for it: it waits for *)
(* nobody but the file, which answers.                                     *)
Fairness == \A r \in Readers : WF_vars(Progress(r))

FairSpec == Spec /\ Fairness

-----------------------------------------------------------------------------
TypeOK ==
  /\ cursor \in 0 .. FileLength
  /\ owner \in Readers \union {NoReader}
  /\ poisoned \in BOOLEAN
  /\ pc \in [Readers -> {"none", "idle", "locked", "sought", "done"}]
  /\ start \in [Readers -> -1 .. FileLength]
  /\ length \in [Readers -> 0 .. FileLength]
  /\ position \in [Readers -> 0 .. FileLength]
  /\ wanted \in [Readers -> 0 .. FileLength + MaxRequest]
  /\ got \in [Readers -> Seq(0 .. FileLength)]
  /\ seen \in [Readers -> Seq(0 .. FileLength)]
  /\ \A r \in Readers : owner = r <=> pc[r] \in {"locked", "sought"}

Private == INSTANCE RangeReads

(* Whatever the others read in between, wherever the owner or a failed     *)
(* call left the file, and however little a read answers, every reader and *)
(* range gets the bytes it would get of a file of its own.                 *)
ImplementsRangeReads == Private!Spec

(* Whoever has the lock gives it back: no call, however it fails, keeps    *)
(* the others waiting for ever.                                            *)
LockIsReleased == \A r \in Readers : owner = r ~> owner # r
=============================================================================
