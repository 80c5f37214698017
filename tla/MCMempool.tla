----------------------------- MODULE MCMempool -----------------------------
(* Mempool for TLC. *)
EXTENDS Mempool
=============================================================================
