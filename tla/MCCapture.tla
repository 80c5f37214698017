----------------------------- MODULE MCCapture -----------------------------
(* Instance of Capture for TLC: two samples a buffer behind a one-unit header,
   so that a packet can be accepted in up to three pieces. *)
EXTENDS Capture

\* no blanking, one blank buffer, enough of them for the data to be fresh, and
\* the negative value that SET CHANNEL DELAY=-1 stores
MCDelays == {-1, 0, 1, 2}
=============================================================================
