------------------------------- MODULE MCDhcp -------------------------------
(* Dhcp for TLC: the timeouts in the order they have in fnet_dhcp.c, leases on
   either side of the bounds the client clamps them to. *)
EXTENDS Dhcp

MCGrants ==
    {[lease |-> 2, t1 |-> 1, t2 |-> 2],          \* shorter than LeaseMin
     [lease |-> 4, t1 |-> 0, t2 |-> 0],          \* T1 and T2 left to the client
     [lease |-> 6, t1 |-> 6, t2 |-> 6],
     [lease |-> 8, t1 |-> 3, t2 |-> 5],          \* longer than LeaseMax
     [lease |-> Infinity, t1 |-> 0, t2 |-> 0]}
=============================================================================
