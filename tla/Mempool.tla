------------------------------ MODULE Mempool ------------------------------
(***************************************************************************)
(* FNET's heap (fnet_mempool.c), of which sockets, control blocks, timers  *)
(* and network buffers are made. Memory is counted in units, the size of a *)
(* block header; a block is named by the place of its header. Free blocks  *)
(* are linked into a ring in the order of their addresses; unlike the      *)
(* allocator of K&R's book it comes from, the ring has no base block of    *)
(* size zero.                                                              *)
(*                                                                         *)
(* Both operations hold fnet_isr_lock throughout, so they exclude each     *)
(* other; a turn of one of their loops is a step, as a loop over a damaged *)
(* ring need not end.                                                      *)
(***************************************************************************)
EXTENDS Integers, FiniteSets

CONSTANTS
    Pool,       \* units of the heap
    Requests    \* nunits of the requests: header, and the bytes rounded up

ASSUME MempoolAssumption == Pool \in Nat \ {0} /\ Requests \subseteq Nat \ {0}

VARIABLES
    size, next,       \* the headers: size and ptr
    free_ptr,
    held,             \* blocks their callers hold
    pc,               \* where the operation that runs is
    arg,              \* nunits of malloc, bp of free
    p, prevp,         \* free block looked at, and the one before it
    best, bestPrev    \* best_p and best_p_prev

headers == <<size, next>>
locals == <<arg, p, prevp, best, bestPrev>>
vars == <<headers, free_ptr, held, pc, locals>>

Addr == 0 .. Pool - 1
None == -1

NoLocals == arg' = None /\ p' = None /\ prevp' = None /\ best' = None /\ bestPrev' = None

\* fnet_mempool_init: one free block
Init ==
    /\ size = [a \in Addr |-> IF a = 0 THEN Pool ELSE 0]
    /\ next = [a \in Addr |-> 0]
    /\ free_ptr = 0
    /\ held = {}
    /\ pc = "idle"
    /\ arg = None /\ p = None /\ prevp = None /\ best = None /\ bestPrev = None

-----------------------------------------------------------------------------
(* fnet_mempool_malloc: the smallest free block that is large enough *)

MallocCall(n) ==
    /\ pc = "idle" /\ pc' = "scan"
    /\ arg' = n
    /\ prevp' = free_ptr /\ bestPrev' = free_ptr
    /\ p' = next[free_ptr]
    /\ best' = None
    /\ UNCHANGED <<headers, free_ptr, held>>

LastOne == next[p] = free_ptr    \* slip: the block free_ptr is at is left out
LastLooked == p = free_ptr
Better == size[p] >= arg /\ (best = None \/ size[best] > size[p])

MallocScan ==
    /\ pc = "scan"
    /\ IF Better
       THEN best' = p /\ bestPrev' = prevp
       ELSE UNCHANGED <<best, bestPrev>>
    /\ IF LastLooked
       THEN pc' = "take" /\ UNCHANGED <<p, prevp>>
       ELSE prevp' = p /\ p' = next[p] /\ UNCHANGED pc
    /\ UNCHANGED <<headers, free_ptr, held, arg>>

\* no block is large enough: the result is 0
MallocFail ==
    /\ pc = "take" /\ best = None
    /\ pc' = "idle" /\ NoLocals
    /\ UNCHANGED <<headers, free_ptr, held>>

TakeWhole ==
    /\ pc = "take" /\ best # None /\ size[best] = arg
    /\ next' = [next EXCEPT ![bestPrev] = next[best]]
    /\ held' = held \cup {best}
    /\ free_ptr' = bestPrev
    /\ pc' = "idle" /\ NoLocals
    /\ UNCHANGED size

\* the caller gets the top of the block
RestAsItWas(b) == size[b]    \* slip: best_p->size -= nunits forgotten
Rest(b) == size[b] - arg
TakeTop ==
    /\ pc = "take" /\ best # None /\ size[best] # arg
    /\ LET top == best + (size[best] - arg) IN
          /\ size' = [size EXCEPT ![best] = Rest(best), ![top] = arg]
          /\ held' = held \cup {top}
    /\ free_ptr' = bestPrev
    /\ pc' = "idle" /\ NoLocals
    /\ UNCHANGED next

-----------------------------------------------------------------------------
(* fnet_mempool_free: put back between its neighbours, and joined with them *)

FreeCall(b) ==
    /\ pc = "idle" /\ pc' = "seek"
    /\ b \in held /\ held' = held \ {b}
    /\ arg' = b /\ p' = free_ptr
    /\ UNCHANGED <<headers, free_ptr, prevp, best, bestPrev>>

Between == arg > p /\ arg < next[p]
NeverAtEnd == FALSE    \* slip: the test for the ends of the arena forgotten
AtEnd == p >= next[p] /\ (arg > p \/ arg < next[p])

FreeSeek ==
    /\ pc = "seek" /\ ~Between /\ ~AtEnd
    /\ p' = next[p]
    /\ UNCHANGED <<headers, free_ptr, held, pc, arg, prevp, best, bestPrev>>

\* the freed block's header, joined with the next free block where they touch
NeverAbove == FALSE    \* slip: the block is linked only
TouchesNext == arg + size[arg] = next[p]
JoinedSize == IF TouchesNext THEN size[arg] + size[next[p]] ELSE size[arg]
JoinedNext == IF TouchesNext THEN next[next[p]] ELSE next[p]

FreeLink ==
    /\ pc = "seek" /\ (Between \/ AtEnd)
    /\ IF p + size[p] = arg
       THEN /\ size' = [size EXCEPT ![arg] = JoinedSize, ![p] = size[p] + JoinedSize]
            /\ next' = [next EXCEPT ![arg] = JoinedNext, ![p] = JoinedNext]
       ELSE /\ size' = [size EXCEPT ![arg] = JoinedSize]
            /\ next' = [next EXCEPT ![arg] = JoinedNext, ![p] = arg]
    /\ free_ptr' = p
    /\ pc' = "idle" /\ NoLocals
    /\ UNCHANGED held

-----------------------------------------------------------------------------
Work == MallocScan \/ MallocFail \/ TakeWhole \/ TakeTop \/ FreeSeek \/ FreeLink

Next ==
    \/ \E n \in Requests : MallocCall(n)
    \/ \E b \in Addr : FreeCall(b)
    \/ Work

Spec == Init /\ [][Next]_vars

\* An operation that runs goes on: it is a loop of the one thread there is.
FairSpec == Spec /\ WF_vars(Work)

-----------------------------------------------------------------------------
(* Properties *)

TypeOK ==
    /\ size \in [Addr -> 0 .. Pool] /\ next \in [Addr -> Addr]
    /\ free_ptr \in Addr /\ held \subseteq Addr
    /\ pc \in {"idle", "scan", "take", "seek"}
    /\ arg \in Nat \cup {None}
    /\ {p, prevp, best, bestPrev} \subseteq Addr \cup {None}

\* what is linked from free_ptr on
Nth[i \in 0 .. Pool] == IF i = 0 THEN free_ptr ELSE next[Nth[i - 1]]
FreeList == {Nth[i] : i \in 0 .. Pool}

Units(b) == b .. b + size[b] - 1

\* Between two calls every unit of the heap belongs to exactly one block, on the free
\* list or with a caller: nothing is lost, handed out twice or freed under its holder.
Tiled ==
    /\ TypeOK
    /\ pc = "idle" =>
        /\ FreeList \cap held = {}
        /\ \A u \in Addr : \E b \in FreeList \cup held :
              /\ u \in Units(b)
              /\ \A c \in (FreeList \cup held) \ {b} : u \notin Units(c)

\* Free blocks never touch: frees in any order leave no more fragments than there are
\* gaps between held blocks, so that a heap whose blocks all came back is one block.
Coalesced == pc = "idle" => \A b, c \in FreeList : b + size[b] # c

\* malloc fails only when no free block is large enough, and takes the smallest one.
BestFit ==
    [][pc = "take" =>
          /\ best = None => \A b \in FreeList : size[b] < arg
          /\ best # None => best \in FreeList /\ \A b \in FreeList : size[b] >= arg => size[b] >= size[best]]_vars

\* A call returns, wherever in the ring free_ptr was left by the call before it.
CallsReturn == pc # "idle" ~> pc = "idle"
=============================================================================
