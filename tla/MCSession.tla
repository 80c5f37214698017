----------------------------- MODULE MCSession -----------------------------
(* Session for TLC: two servers, four descriptors. *)
EXTENDS Session

\* main's server_s before the first hello: any descriptor, or outside the table
AnyDescriptor == -1 .. MaxSock
=============================================================================
