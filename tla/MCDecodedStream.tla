-------------------------- MODULE MCDecodedStream --------------------------
(***************************************************************************)
(* DecodedStream with source batches of up to four rows of two bytes, cut  *)
(* by one or two rows.  UsizeMax is one above the byte limit, so that the  *)
(* byte counter saturates as soon as the limit is passed.                  *)
(***************************************************************************)
EXTENDS DecodedStream

MCBatchSizes == {0, 1, 2}
MCRowLimits == {NoLimit, 0, 3}
MCByteLimits == {NoLimit, 8}
MCBatchRows == {0, 1, 3, 4}
MCMemory == [rows \in MCBatchRows |-> 2 * rows]

MCUsizeMax == 9
MCMaxSourceRows == 7
=============================================================================
