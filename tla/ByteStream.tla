----------------------------- MODULE ByteStream -----------------------------
(***************************************************************************)
(* What a device that is emulated on a bus promises to the program that    *)
(* uses it: a file is a stream of bytes in each direction.  Bytes are      *)
(* numbered in the order in which they should arrive, so a byte that is    *)
(* lost, repeated or swapped shows.  The file that is read has Length      *)
(* bytes, and the end is signalled with the last of them.                  *)
(***************************************************************************)
EXTENDS Naturals, Sequences

CONSTANT Length   \* a natural number

VARIABLES
  stored,     \* what the device has of the bytes that were written
  sent,       \* how many bytes the program knows to be with the device
  received,   \* the bytes the program has read
  ended       \* the last byte that was read carried the end signal

vars == <<stored, sent, received, ended>>

Fresh == stored = <<>> /\ sent = 0 /\ received = <<>> /\ ended = FALSE

Init == Fresh

(* The file is opened anew, or the program forgets it.                     *)
Open == Fresh'

(* The device takes the next byte, which the program learns by and by.     *)
Put ==
  /\ stored' = Append(stored, Len(stored) + 1)
  /\ Len(stored) = sent
  /\ UNCHANGED <<sent, received, ended>>

Acknowledge ==
  /\ sent < Len(stored)
  /\ sent' = sent + 1
  /\ UNCHANGED <<stored, received, ended>>

(* The program gets the next byte, and the end signal with the last one.   *)
Get ==
  /\ Len(received) < Length
  /\ received' = Append(received, Len(received) + 1)
  /\ ended' = (Len(received) + 1 = Length)
  /\ UNCHANGED <<stored, sent>>

Next == Open \/ Put \/ Acknowledge \/ Get

Spec == Init /\ [][Next]_vars
=============================================================================
