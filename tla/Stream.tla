------------------------------- MODULE Stream ------------------------------
(***************************************************************************)
(* What TCP promises for one direction of a connection: bytes arrive in    *)
(* the order they were written, each of them once, until one side ends it. *)
(* Bytes are numbered, so that no two of them are equal.                   *)
(***************************************************************************)
EXTENDS Naturals, Sequences

VARIABLES written,      \* how many bytes the writer has handed over
          read,         \* bytes the reader has, in the order it got them
          ended         \* does the reader know that no more will come?

Init == written \in Nat /\ read = <<>> /\ ended = FALSE

Write == written' \in Nat /\ written' >= written /\ UNCHANGED <<read, ended>>

Read ==
    /\ \E n \in 1 .. written - Len(read) :
           read' = read \o [i \in 1 .. n |-> Len(read) + i]
    /\ UNCHANGED <<written, ended>>

(* The end is seen behind the last byte, never before it. *)
End == Len(read) = written /\ ended' = TRUE /\ UNCHANGED <<written, read>>

ReadAndEnd ==
    /\ read' = read \o [i \in 1 .. written - Len(read) |-> Len(read) + i]
    /\ ended' = TRUE /\ UNCHANGED written

Next == ~ended /\ (Write \/ Read \/ End \/ ReadAndEnd)
Spec == Init /\ [][Next]_<<written, read, ended>>
-----------------------------------------------------------------------------
(* What was read is the beginning of what was written, and all of it once  *)
(* the end was seen.                                                       *)
InOrder ==
    /\ Len(read) <= written /\ \A i \in 1 .. Len(read) : read[i] = i
    /\ ended => Len(read) = written
=============================================================================
