----------------------------- MODULE RangeReads -----------------------------
(***************************************************************************)
(* What the Parquet reader is promised of the range reads it asks for:     *)
(* each behaves as if it had a file of its own.  A sequential reader gets  *)
(* the bytes from its start on, any number at a time; a range is answered  *)
(* once, with all its bytes.  Byte k of the file is the number k.          *)
(***************************************************************************)
EXTENDS Integers, Sequences

CONSTANTS
  Readers,      (* the readers and ranges asked for                        *)
  FileLength    (* bytes in the file                                       *)

VARIABLES
  start,        (* by reader, where it starts in the file, -1 before it is *)
                (* asked for                                               *)
  length,       (* by reader, the length of a range, 0 for a sequential    *)
                (* reader                                                  *)
  seen          (* by reader, the bytes it was given                       *)

vars == <<start, length, seen>>

\* n bytes of the file from position p on.
Bytes(p, n) == [i \in 1 .. n |-> p + i - 1]

Init ==
  /\ start = [r \in Readers |-> -1]
  /\ length = [r \in Readers |-> 0]
  /\ seen = [r \in Readers |-> <<>>]

Ask(r) ==
  /\ start[r] = -1
  /\ \E p \in 0 .. FileLength, n \in 0 .. FileLength :
       /\ start' = [start EXCEPT ![r] = p]
       /\ length' = [length EXCEPT ![r] = n]
  /\ UNCHANGED seen

Give(r) ==
  LET p == start[r] + Len(seen[r]) IN
  /\ start[r] # -1
  /\ \E n \in 1 .. FileLength - p :
       /\ length[r] # 0 => seen[r] = <<>> /\ n = length[r]
       /\ seen' = [seen EXCEPT ![r] = seen[r] \o Bytes(p, n)]
  /\ UNCHANGED <<start, length>>

Next == \E r \in Readers : Ask(r) \/ Give(r)

Spec == Init /\ [][Next]_vars
=============================================================================
