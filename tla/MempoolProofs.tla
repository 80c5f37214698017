---------------------------- MODULE MempoolProofs --------------------------
(***************************************************************************)
(* Proofs about Mempool, for a heap of any size and requests of any size:  *)
(* as long as the lowest block is never taken whole, blocks tile the heap, *)
(* free ones never touch, and malloc takes the best fit.  Without a base   *)
(* block it is the lowest free one that holds the ring together.           *)
(*                                                                         *)
(* The free list is what can be reached through next; first it is shown to *)
(* be the set of free blocks wherever next leads from each to the one that *)
(* follows it.  What the operations do to the heap then comes down to four *)
(* steps: unlink and link, merge and split.                                *)
(***************************************************************************)
EXTENDS Mempool, Loops

KeepsLowest == [][TakeWhole => best # 0]_vars

-----------------------------------------------------------------------------
(* The ring: free blocks in the order of their addresses, back to the      *)
(* lowest one, which is that at 0.                                         *)

IsNext(F, b, n) ==
    \/ b < n /\ \A c \in F : ~(b < c /\ c < n)
    \/ n = 0 /\ \A c \in F : c <= b

Ring(F, fp, nx) ==
    /\ F \subseteq Addr /\ 0 \in F /\ fp \in F /\ nx \in [Addr -> Addr]
    /\ \A b \in F : nx[b] \in F /\ IsNext(F, b, nx[b])

(* Blocks, of sizes sz, that cover the heap without overlapping *)
Tiles(B, sz) ==
    /\ B \subseteq Addr /\ 0 \in B /\ sz \in [Addr -> 0 .. Pool]
    /\ \A b \in B : sz[b] >= 1 /\ b + sz[b] \in B \cup {Pool}
    /\ \A b, c \in B : c <= b \/ b + sz[b] <= c

Apart(F, sz) == \A b, c \in F : b + sz[b] # c

(* When the walk that begins after fp comes to a block; at fp itself, last *)
Turn(fp, b) == IF b > fp THEN b - fp ELSE b - fp + Pool
Passed(F, fp, q) == {b \in F : Turn(fp, b) < Turn(fp, q)}

Out == held \cup IF pc = "seek" THEN {arg} ELSE {}

Blocks == FreeList \cup Out

(* Of the free blocks in S, b is the smallest with n units, after q. *)
Chosen(S, F, sz, nx, n, b, q) ==
    /\ b = None => \A c \in S : sz[c] < n
    /\ b # None => /\ b \in F /\ q \in F /\ nx[q] = b
                   /\ sz[b] >= n /\ \A c \in S : sz[c] >= n => sz[c] >= sz[b]

MallocInv ==
    pc \in {"scan", "take"} =>
        /\ arg \in Requests
        /\ Chosen(IF pc = "take" THEN FreeList ELSE Passed(FreeList, free_ptr, p),
                  FreeList, size, next, arg, best, bestPrev)
        /\ p \in FreeList /\ prevp \in FreeList /\ (pc = "scan" => next[prevp] = p)
        /\ bestPrev \in Addr

SeekInv == pc = "seek" => arg \in Addr /\ p \in FreeList

HeapInv ==
    /\ Ring(FreeList, free_ptr, next) /\ Tiles(Blocks, size) /\ Apart(FreeList, size)
    /\ FreeList \cap Out = {} /\ (pc = "seek" => arg \notin held)

IInv == TypeOK /\ HeapInv /\ MallocInv /\ SeekInv

-----------------------------------------------------------------------------
(* The ring is what the list reaches. *)

LEMMA Greatest ==
    ASSUME NEW n \in Nat, NEW S, S \subseteq 0 .. n, S # {}
    PROVE  \E m \in S : \A k \in S : k <= m
<1> DEFINE T == {k \in 0 .. n : n - k \in S}
<1>1. \A k \in S : k \in 0 .. n
    OBVIOUS
<1>2. \A k \in S : n - k \in T
    <2> TAKE k \in S
    <2>1. n - k \in 0 .. n /\ n - (n - k) = k
        BY <1>1
    <2> QED BY <2>1
<1>3. \A k \in T : k \in 0 .. n /\ n - k \in S
    OBVIOUS
<1> HIDE DEF T
<1>4. PICK m \in T : \A k \in T : m <= k
    <2>1. T # {} /\ T \subseteq Nat
        <3>1. PICK k \in S : TRUE
            OBVIOUS
        <3>2. n - k \in T
            BY <1>2, <3>1
        <3>3. \A j \in T : j \in Nat
            BY <1>3
        <3> QED BY <3>2, <3>3
    <2>2. \E m \in T : \A k \in T : m <= k
        BY <2>1, Smallest, Zenon
    <2> QED BY <2>2
<1>5. ASSUME NEW k \in S PROVE k <= n - m
    <2>1. k \in 0 .. n /\ m \in 0 .. n /\ n - k \in T
        BY <1>1, <1>2, <1>3
    <2>2. m <= n - k
        BY <1>4, <2>1
    <2> QED BY <2>1, <2>2
<1>6. n - m \in S
    BY <1>3
<1> QED BY <1>5, <1>6

(* The n-th block from fp on, and all of them *)
NthOf(fp, nx) == CHOOSE f : f = [i \in 0 .. Pool |-> IF i = 0 THEN fp ELSE nx[f[i - 1]]]
ListOf(fp, nx) == {NthOf(fp, nx)[i] : i \in 0 .. Pool}

LEMMA FreeListDef == FreeList = ListOf(free_ptr, next)
BY DEF FreeList, ListOf, Nth, NthOf

LEMMA NthDef ==
    ASSUME NEW fp \in Addr, NEW nx \in [Addr -> Addr]
    PROVE  /\ NthOf(fp, nx) \in [0 .. Pool -> Addr]
           /\ NthOf(fp, nx)[0] = fp
           /\ \A i \in 1 .. Pool : NthOf(fp, nx)[i] = nx[NthOf(fp, nx)[i - 1]]
<1> USE MempoolAssumption
<1> DEFINE g == [i \in 1 .. Pool |-> nx]
<1> HIDE DEF Addr
<1>1. PICK f \in [0 .. Pool -> Addr] : Follows(f, fp, g, Pool)
    <2>1. g \in [1 .. Pool -> [Addr -> Addr]]
        OBVIOUS
    <2> HIDE DEF g
    <2> QED BY <2>1, Recursion
<1>2. f[0] = fp /\ \A i \in 1 .. Pool : f[i] = nx[f[i - 1]]
    BY <1>1 DEF Follows
<1>3. f = [i \in 0 .. Pool |-> IF i = 0 THEN fp ELSE nx[f[i - 1]]]
    <2>1. ASSUME NEW i \in 0 .. Pool PROVE f[i] = IF i = 0 THEN fp ELSE nx[f[i - 1]]
        BY <1>2
    <2> QED BY <2>1
<1>4. NthOf(fp, nx) = [i \in 0 .. Pool |-> IF i = 0 THEN fp ELSE nx[NthOf(fp, nx)[i - 1]]]
    BY <1>3, Zenon DEF NthOf
<1> DEFINE h == NthOf(fp, nx)
<1>5. h[0] = fp /\ \A i \in 1 .. Pool : h[i] = nx[h[i - 1]]
    BY <1>4
<1>6. DOMAIN h = 0 .. Pool /\ h = [i \in 0 .. Pool |-> h[i]]
    BY <1>4
<1>7. \A i \in 0 .. Pool : h[i] \in Addr
    <2> DEFINE S == {i \in 0 .. Pool : h[i] \in Addr}
    <2> HIDE DEF h
    <2>1. 0 \in S
        BY <1>5
    <2>2. \A i \in 0 .. Pool - 1 : i \in S => i + 1 \in S
        BY <1>5
    <2> HIDE DEF S
    <2>3. \A i \in 0 .. Pool : i \in S
        BY <2>1, <2>2, InductionUpto
    <2> QED BY <2>3 DEF S
<1>8. h \in [0 .. Pool -> Addr]
    <2> HIDE DEF h
    <2> QED BY <1>6, <1>7
<1> QED BY <1>5, <1>8

(* Each block but fp comes after another, which the walk comes to earlier. *)
Dist(fp, b) == IF b >= fp THEN b - fp ELSE b - fp + Pool

LEMMA Before ==
    ASSUME NEW F, NEW fp, NEW nx, Ring(F, fp, nx), NEW b \in F, b # fp
    PROVE  \E a \in F : nx[a] = b /\ Dist(fp, a) < Dist(fp, b)
<1> USE MempoolAssumption
<1>1. F \subseteq 0 .. Pool - 1 /\ Pool - 1 \in Nat /\ \A c \in F : c \in 0 .. Pool - 1
    <2>1. F \subseteq Addr
        BY DEF Ring
    <2>2. Pool - 1 \in Nat
        OBVIOUS
    <2> QED BY <2>1, <2>2, Zenon DEF Addr
<1>2. CASE b # 0
    <2> DEFINE S == {c \in F : c < b}
    <2>1. S \subseteq 0 .. Pool - 1 /\ 0 \in S
        <3>1. 0 \in F /\ 0 < b
            BY <1>1, <1>2 DEF Ring
        <3> QED BY <1>1, <3>1
    <2> HIDE DEF S
    <2>2. PICK a \in S : \A c \in S : c <= a
        BY <1>1, <2>1, Greatest
    <2>3. a \in F /\ a < b /\ \A c \in F : c < b => c <= a
        BY <2>2 DEF S
    <2>4. nx[a] \in F /\ IsNext(F, a, nx[a])
        BY <2>3 DEF Ring
    <2>5. nx[a] = b
        <3>1. a \in 0 .. Pool - 1 /\ b \in 0 .. Pool - 1 /\ nx[a] \in 0 .. Pool - 1
            BY <1>1, <2>3, <2>4
        <3>2. CASE nx[a] = 0 /\ \A c \in F : c <= a
            BY <3>1, <3>2, <2>3
        <3>3. CASE a < nx[a] /\ \A c \in F : ~(a < c /\ c < nx[a])
            <4>1. ~(b < nx[a])
                BY <3>3, <2>3
            <4>2. ~(nx[a] < b)
                <5>1. nx[a] < b => nx[a] <= a
                    BY <2>3, <2>4
                <5> QED BY <3>1, <3>3, <5>1
            <4> QED BY <3>1, <4>1, <4>2
        <3> QED BY <2>4, <3>2, <3>3 DEF IsNext
    <2>6. fp \in F
        BY DEF Ring
    <2>7. Dist(fp, a) < Dist(fp, b)
        BY <1>1, <2>3, <2>6 DEF Dist
    <2> QED BY <2>3, <2>5, <2>7
<1>3. CASE b = 0
    <2>1. PICK a \in F : \A c \in F : c <= a
        BY <1>1, Greatest
    <2>2. nx[a] \in F /\ IsNext(F, a, nx[a])
        BY DEF Ring
    <2>3. nx[a] = b
        <3>1. a \in 0 .. Pool - 1 /\ nx[a] \in 0 .. Pool - 1 /\ nx[a] <= a
            BY <1>1, <2>1, <2>2
        <3>2. nx[a] = 0
            BY <2>2, <3>1 DEF IsNext
        <3> QED BY <1>3, <3>2
    <2>4. fp \in F
        BY DEF Ring
    <2>5. Dist(fp, a) < Dist(fp, b)
        BY <1>1, <1>3, <2>1, <2>4 DEF Dist
    <2> QED BY <2>3, <2>5
<1> QED BY <1>2, <1>3

LEMMA RingIsList ==
    ASSUME NEW F, NEW fp, NEW nx, Ring(F, fp, nx)
    PROVE  ListOf(fp, nx) = F
<1> USE MempoolAssumption
<1> DEFINE h == NthOf(fp, nx)
<1>1. fp \in Addr /\ nx \in [Addr -> Addr] /\ F \subseteq Addr /\ fp \in F /\ \A b \in F : nx[b] \in F
    BY DEF Ring
<1>2. h \in [0 .. Pool -> Addr] /\ h[0] = fp /\ \A i \in 1 .. Pool : h[i] = nx[h[i - 1]]
    BY <1>1, NthDef
<1>3. ListOf(fp, nx) = {h[i] : i \in 0 .. Pool}
    BY DEF ListOf
<1> HIDE DEF h
<1>4. \A i \in 0 .. Pool : h[i] \in F
    <2> DEFINE S == {i \in 0 .. Pool : h[i] \in F}
    <2>1. 0 \in S
        BY <1>1, <1>2
    <2>2. \A i \in 0 .. Pool - 1 : i \in S => i + 1 \in S
        BY <1>1, <1>2
    <2> HIDE DEF S
    <2>3. \A i \in 0 .. Pool : i \in S
        BY <2>1, <2>2, InductionUpto
    <2> QED BY <2>3 DEF S
<1>5. \A b \in F : Dist(fp, b) \in 0 .. Pool - 1
    <2> TAKE b \in F
    <2>1. b \in 0 .. Pool - 1 /\ fp \in 0 .. Pool - 1
        BY <1>1 DEF Addr
    <2> QED BY <2>1 DEF Dist
<1>6. \A k \in 0 .. Pool - 1 : \A b \in F : Dist(fp, b) <= k => \E i \in 0 .. k : h[i] = b
    <2> DEFINE S == {k \in 0 .. Pool - 1 : \A b \in F : Dist(fp, b) <= k => \E i \in 0 .. k : h[i] = b}
    <2>1. 0 \in S
        <3> SUFFICES ASSUME NEW b \in F, Dist(fp, b) <= 0 PROVE \E i \in 0 .. 0 : h[i] = b
            OBVIOUS
        <3>1. b = fp
            BY <1>1 DEF Dist, Addr
        <3> QED BY <3>1, <1>2
    <2>2. ASSUME NEW k \in 0 .. (Pool - 1) - 1, k \in S PROVE k + 1 \in S
        <3> SUFFICES ASSUME NEW b \in F, Dist(fp, b) <= k + 1 PROVE \E i \in 0 .. k + 1 : h[i] = b
            OBVIOUS
        <3>1. CASE b = fp
            BY <3>1, <1>2
        <3>2. CASE b # fp
            <4>1. PICK a \in F : nx[a] = b /\ Dist(fp, a) < Dist(fp, b)
                BY <3>2, Before
            <4>2. Dist(fp, a) \in Int /\ Dist(fp, b) \in Int
                BY <1>5
            <4>3. Dist(fp, a) <= k
                BY <4>1, <4>2
            <4>4. PICK i \in 0 .. k : h[i] = a
                BY <4>3, <2>2
            <4>5. i + 1 \in 1 .. Pool /\ (i + 1) - 1 = i /\ i + 1 \in 0 .. k + 1
                OBVIOUS
            <4>6. h[i + 1] = b
                BY <4>1, <4>4, <4>5, <1>2
            <4> QED BY <4>5, <4>6
        <3> QED BY <3>1, <3>2
    <2> HIDE DEF S
    <2>3. \A k \in 0 .. Pool - 1 : k \in S
        <3>1. Pool - 1 \in Nat
            OBVIOUS
        <3> QED BY <3>1, <2>1, <2>2, InductionUpto
    <2> QED BY <2>3 DEF S
<1>7. ASSUME NEW b \in F PROVE \E i \in 0 .. Pool : h[i] = b
    <2>1. Dist(fp, b) \in 0 .. Pool - 1 /\ Dist(fp, b) <= Dist(fp, b)
        BY <1>5
    <2>2. PICK i \in 0 .. Dist(fp, b) : h[i] = b
        BY <2>1, <1>6
    <2> QED BY <2>1, <2>2
<1> QED BY <1>3, <1>4, <1>7
-----------------------------------------------------------------------------
(* The walk comes to the blocks of the ring one after the other. *)

LEMMA WalkBegins ==
    ASSUME NEW F, NEW fp, NEW nx, Ring(F, fp, nx)
    PROVE  Passed(F, fp, nx[fp]) = {}
<1>1. MempoolAssumption /\ F \subseteq Addr /\ fp \in F /\ nx[fp] \in F /\ IsNext(F, fp, nx[fp])
    BY MempoolAssumption DEF Ring
<1>2. ASSUME NEW b \in F PROVE ~(Turn(fp, b) < Turn(fp, nx[fp]))
    <2>1. b \in 0 .. Pool - 1 /\ fp \in 0 .. Pool - 1 /\ nx[fp] \in 0 .. Pool - 1 /\ Pool \in Nat
        BY <1>1 DEF Addr, MempoolAssumption
    <2>2. CASE fp < nx[fp] /\ \A c \in F : ~(fp < c /\ c < nx[fp])
        BY <2>1, <2>2 DEF Turn
    <2>3. CASE nx[fp] = 0 /\ \A c \in F : c <= fp
        BY <2>1, <2>3 DEF Turn
    <2> QED BY <1>1, <2>2, <2>3 DEF IsNext
<1> QED BY <1>2 DEF Passed

LEMMA WalkGoesOn ==
    ASSUME NEW F, NEW fp, NEW nx, Ring(F, fp, nx), NEW q \in F, q # fp
    PROVE  Passed(F, fp, nx[q]) = Passed(F, fp, q) \cup {q}
<1>1. MempoolAssumption /\ F \subseteq Addr /\ fp \in F /\ nx[q] \in F /\ IsNext(F, q, nx[q])
    BY MempoolAssumption DEF Ring
<1>2. ASSUME NEW b \in F PROVE Turn(fp, b) < Turn(fp, nx[q]) <=> Turn(fp, b) < Turn(fp, q) \/ b = q
    <2>1. /\ b \in 0 .. Pool - 1 /\ fp \in 0 .. Pool - 1 /\ nx[q] \in 0 .. Pool - 1 /\ q \in 0 .. Pool - 1
          /\ Pool \in Nat
        BY <1>1 DEF Addr, MempoolAssumption
    <2>2. CASE q < nx[q] /\ \A c \in F : ~(q < c /\ c < nx[q])
        <3>1. ~(q < b /\ b < nx[q]) /\ ~(q < fp /\ fp < nx[q])
            BY <1>1, <2>2
        <3> QED BY <2>1, <2>2, <3>1 DEF Turn
    <2>3. CASE nx[q] = 0 /\ \A c \in F : c <= q
        <3>1. b <= q /\ fp <= q
            BY <1>1, <2>3
        <3> QED BY <2>1, <2>3, <3>1 DEF Turn
    <2> QED BY <1>1, <2>2, <2>3 DEF IsNext
<1> QED BY <1>2 DEF Passed

LEMMA WalkEnds ==
    ASSUME NEW F, NEW fp, NEW nx, Ring(F, fp, nx)
    PROVE  Passed(F, fp, fp) \cup {fp} = F
<1>1. MempoolAssumption /\ F \subseteq Addr /\ fp \in F
    BY MempoolAssumption DEF Ring
<1>2. ASSUME NEW b \in F, b # fp PROVE Turn(fp, b) < Turn(fp, fp)
    BY <1>1, <1>2 DEF Turn, Addr, MempoolAssumption
<1> QED BY <1>1, <1>2 DEF Passed

-----------------------------------------------------------------------------
(* What the operations do to the ring and to the blocks *)

LEMMA AnyPlace ==
    ASSUME NEW F, NEW fp, NEW nx, Ring(F, fp, nx), NEW q \in F
    PROVE  Ring(F, q, nx)
BY DEF Ring

(* A block that is not the lowest is taken out after the one before it. *)
LEMMA Unlink ==
    ASSUME NEW F, NEW fp, NEW nx, Ring(F, fp, nx), NEW q \in F, nx[q] # 0
    PROVE  Ring(F \ {nx[q]}, q, [nx EXCEPT ![q] = nx[nx[q]]])
<1> DEFINE b == nx[q]
           E == F \ {b}
           m == [nx EXCEPT ![q] = nx[b]]
<1>1. /\ F \subseteq Addr /\ 0 \in F /\ nx \in [Addr -> Addr] /\ b \in F /\ nx[b] \in F
      /\ \A c \in F : c \in Int /\ c >= 0
      /\ \A c \in F : nx[c] \in F /\ IsNext(F, c, nx[c])
    <2>1. /\ F \subseteq Addr /\ 0 \in F /\ nx \in [Addr -> Addr]
          /\ \A c \in F : nx[c] \in F /\ IsNext(F, c, nx[c])
        BY DEF Ring
    <2>2. \A c \in Addr : c \in Int /\ c >= 0
        BY MempoolAssumption DEF Addr
    <2> QED BY <2>1, <2>2
<1>2. b # 0 /\ q < b /\ \A c \in F : ~(q < c /\ c < b)
    BY <1>1 DEF IsNext
<1>3. b # nx[b] /\ q # b
    BY <1>1, <1>2 DEF IsNext
<1>4. m[q] = nx[b] /\ (\A c \in E : c # q => m[c] = nx[c]) /\ m \in [Addr -> Addr]
    BY <1>1
<1>5. E \subseteq Addr /\ 0 \in E /\ q \in E /\ \A c \in E : c \in F /\ c # b
    BY <1>1, <1>2, <1>3
<1> HIDE DEF m, b, E
<1>6. ASSUME NEW c \in E, c # q PROVE m[c] \in E /\ IsNext(E, c, m[c])
    <2>1. c \in F /\ nx[c] \in F /\ IsNext(F, c, nx[c]) /\ m[c] = nx[c]
        BY <1>1, <1>4, <1>5, <1>6
    <2>2. nx[c] # b
        <3> SUFFICES ASSUME nx[c] = b PROVE FALSE
            OBVIOUS
        <3>1. c < b /\ ~(c < q /\ q < b)
            BY <1>2, <2>1 DEF IsNext
        <3>2. ~(q < c /\ c < b)
            BY <1>2, <2>1
        <3> QED BY <1>1, <1>2, <1>6, <2>1, <3>1, <3>2
    <2> QED BY <1>5, <2>1, <2>2 DEF IsNext, E
<1>7. m[q] \in E /\ IsNext(E, q, m[q])
    <2>1. nx[b] \in E
        BY <1>1, <1>3 DEF E
    <2>2. IsNext(E, q, nx[b])
        <3>1. CASE b < nx[b] /\ \A c \in F : ~(b < c /\ c < nx[b])
            <4>1. ASSUME NEW c \in E PROVE ~(q < c /\ c < nx[b])
                <5>1. c \in F /\ c # b /\ ~(q < c /\ c < b) /\ ~(b < c /\ c < nx[b])
                    BY <1>2, <1>5, <3>1
                <5> QED BY <1>1, <5>1
            <4>2. q < nx[b]
                BY <1>1, <1>2, <3>1
            <4> QED BY <4>1, <4>2 DEF IsNext
        <3>2. CASE nx[b] = 0 /\ \A c \in F : c <= b
            <4>1. ASSUME NEW c \in E PROVE c <= q
                <5>1. c \in F /\ c # b /\ ~(q < c /\ c < b) /\ c <= b
                    BY <1>2, <1>5, <3>2
                <5> QED BY <1>1, <5>1
            <4> QED BY <3>2, <4>1 DEF IsNext
        <3> QED BY <1>1, <3>1, <3>2 DEF IsNext
    <2> QED BY <1>4, <2>1, <2>2
<1>8. Ring(E, q, m)
    BY <1>4, <1>5, <1>6, <1>7 DEF Ring
<1> QED BY <1>8 DEF b, E, m

(* A block is linked where its address belongs. *)
Place(F, a, q, n) ==
    /\ q < a
    /\ \/ a < n /\ \A c \in F : ~(q < c /\ c < n)
       \/ n = 0 /\ \A c \in F : c <= q

LEMMA Link ==
    ASSUME NEW F, NEW fp, NEW nx, Ring(F, fp, nx), NEW q \in F, NEW a \in Addr, a \notin F, Place(F, a, q, nx[q])
    PROVE  Ring(F \cup {a}, q, [nx EXCEPT ![a] = nx[q], ![q] = a])
<1> DEFINE n == nx[q]
           E == F \cup {a}
           m == [nx EXCEPT ![a] = n, ![q] = a]
<1>1. /\ F \subseteq Addr /\ 0 \in F /\ nx \in [Addr -> Addr] /\ n \in F
      /\ \A c \in E : c \in Int /\ c >= 0
      /\ \A c \in F : nx[c] \in F /\ IsNext(F, c, nx[c])
    <2>1. /\ F \subseteq Addr /\ 0 \in F /\ nx \in [Addr -> Addr]
          /\ \A c \in F : nx[c] \in F /\ IsNext(F, c, nx[c])
        BY DEF Ring
    <2>2. \A c \in Addr : c \in Int /\ c >= 0
        BY MempoolAssumption DEF Addr
    <2> QED BY <2>1, <2>2
<1>2. m[q] = a /\ m[a] = n /\ (\A c \in F : c # q => m[c] = nx[c]) /\ m \in [Addr -> Addr]
    <2>1. q # a /\ q \in Addr
        BY <1>1
    <2> QED BY <1>1, <2>1
<1>3. E \subseteq Addr /\ 0 \in E /\ q \in E /\ a \in E /\ n \in E /\ \A c \in E : c \in F \/ c = a
    BY <1>1
<1>4. Place(F, a, q, n)
    OBVIOUS
<1> HIDE DEF m, n, E
<1>5. ASSUME NEW c \in F, c # q PROVE m[c] \in E /\ IsNext(E, c, m[c])
    <2>1. nx[c] \in F /\ IsNext(F, c, nx[c]) /\ m[c] = nx[c]
        BY <1>1, <1>2, <1>5
    <2>2. c \in Int /\ q \in Int /\ a \in Int /\ n \in Int /\ nx[c] \in Int /\ q < a
        BY <1>1, <1>3, <2>1 DEF Place, E
    <2>3. CASE c < nx[c] /\ \A d \in F : ~(c < d /\ d < nx[c])
        <3>1. ~(c < a /\ a < nx[c])
            <4>1. ~(c < q /\ q < nx[c])
                BY <2>3
            <4>2. CASE a < n /\ \A d \in F : ~(q < d /\ d < n)
                <5>1. ~(q < c /\ c < n)
                    BY <4>2
                <5> QED BY <1>5, <2>2, <4>1, <4>2, <5>1
            <4>3. CASE n = 0 /\ \A d \in F : d <= q
                <5>1. c <= q /\ nx[c] <= q
                    BY <2>1, <4>3
                <5> QED BY <2>2, <5>1
            <4> QED BY <1>4, <4>2, <4>3 DEF Place
        <3>2. \A d \in E : ~(c < d /\ d < nx[c])
            BY <1>3, <2>3, <3>1
        <3> QED BY <2>1, <2>3, <3>2 DEF IsNext, E
    <2>4. CASE nx[c] = 0 /\ \A d \in F : d <= c
        <3>1. a <= c
            <4>1. q <= c
                BY <2>4
            <4>2. CASE a < n /\ \A d \in F : ~(q < d /\ d < n)
                <5>1. ~(q < c /\ c < n)
                    BY <4>2
                <5> QED BY <1>5, <2>2, <4>1, <4>2, <5>1
            <4>3. CASE n = 0 /\ \A d \in F : d <= q
                <5>1. c <= q
                    BY <4>3
                <5> QED BY <1>5, <2>2, <4>1, <5>1
            <4> QED BY <1>4, <4>2, <4>3 DEF Place
        <3>2. \A d \in E : d <= c
            BY <1>3, <2>4, <3>1
        <3> QED BY <1>3, <2>1, <2>4, <3>2 DEF IsNext
    <2> QED BY <2>1, <2>3, <2>4 DEF IsNext
<1>6. IsNext(E, q, a)
    <2>1. ASSUME NEW c \in E PROVE ~(q < c /\ c < a)
        <3>1. c \in Int /\ q \in Int /\ a \in Int /\ n \in Int
            BY <1>1, <1>3
        <3>2. CASE a < n /\ \A d \in F : ~(q < d /\ d < n)
            BY <1>3, <3>1, <3>2
        <3>3. CASE n = 0 /\ \A d \in F : d <= q
            BY <1>3, <3>1, <3>3
        <3> QED BY <1>4, <3>2, <3>3 DEF Place
    <2> QED BY <1>4, <2>1 DEF IsNext, Place
<1>7. IsNext(E, a, n)
    <2>1. q \in Int /\ a \in Int /\ n \in Int /\ q < a
        BY <1>1, <1>3, <1>4 DEF Place
    <2>2. CASE a < n /\ \A d \in F : ~(q < d /\ d < n)
        <3>1. ASSUME NEW c \in E PROVE ~(a < c /\ c < n)
            BY <1>1, <1>3, <2>1, <2>2
        <3> QED BY <2>2, <3>1 DEF IsNext
    <2>3. CASE n = 0 /\ \A d \in F : d <= q
        <3>1. ASSUME NEW c \in E PROVE c <= a
            BY <1>1, <1>3, <2>1, <2>3
        <3> QED BY <2>3, <3>1 DEF IsNext
    <2> QED BY <1>4, <2>2, <2>3 DEF Place
<1>8. Ring(E, q, m)
    <2>1. ASSUME NEW c \in E PROVE m[c] \in E /\ IsNext(E, c, m[c])
        <3>1. c \in F \/ c = a
            BY <1>3
        <3> QED BY <1>2, <1>3, <1>5, <1>6, <1>7, <3>1
    <2> QED BY <1>2, <1>3, <2>1 DEF Ring
<1> QED BY <1>8 DEF n, E, m

(* Two blocks that touch become one. *)
LEMMA Merge ==
    ASSUME NEW B, NEW sz, Tiles(B, sz), NEW b \in B, NEW c \in B, b + sz[b] = c
    PROVE  Tiles(B \ {c}, [sz EXCEPT ![b] = sz[b] + sz[c]])
<1> DEFINE E == B \ {c}
           m == [sz EXCEPT ![b] = sz[b] + sz[c]]
<1>1. /\ B \subseteq Addr /\ 0 \in B /\ sz \in [Addr -> 0 .. Pool] /\ Pool \in Nat
      /\ \A d \in B : d \in 0 .. Pool - 1 /\ sz[d] \in 0 .. Pool /\ sz[d] >= 1 /\ d + sz[d] \in B \cup {Pool}
      /\ \A d, e \in B : e <= d \/ d + sz[d] <= e
    BY MempoolAssumption DEF Tiles, Addr
<1>2. c # b /\ c # 0 /\ c > b /\ sz[b] + sz[c] \in 0 .. Pool
    <2>1. c + sz[c] <= Pool
        BY <1>1
    <2> QED BY <1>1, <2>1
<1>3. m[b] = sz[b] + sz[c] /\ (\A d \in B : d # b => m[d] = sz[d]) /\ m \in [Addr -> 0 .. Pool]
    BY <1>1, <1>2
<1>4. E \subseteq Addr /\ 0 \in E /\ b \in E /\ \A d \in E : d \in B /\ d # c
    BY <1>1, <1>2
<1> HIDE DEF m
<1>5. ASSUME NEW d \in E PROVE m[d] >= 1 /\ d + m[d] \in E \cup {Pool}
    <2>1. CASE d = b
        <3>1. b + m[b] = c + sz[c] /\ c + sz[c] \in B \cup {Pool} /\ c + sz[c] # c /\ m[b] >= 1
            BY <1>1, <1>3
        <3> QED BY <2>1, <3>1
    <2>2. CASE d # b
        <3>1. m[d] = sz[d] /\ m[d] >= 1 /\ d + m[d] \in B \cup {Pool}
            BY <1>1, <1>3, <1>4, <2>2
        <3>2. d + sz[d] # c
            <4>1. d \in B /\ (b <= d \/ d + sz[d] <= b) /\ (d <= b \/ b + sz[b] <= d) /\ d # c
                BY <1>1, <1>4
            <4> QED BY <1>1, <1>2, <2>2, <4>1
        <3> QED BY <3>1, <3>2
    <2> QED BY <2>1, <2>2
<1>6. ASSUME NEW d \in E, NEW e \in E PROVE e <= d \/ d + m[d] <= e
    <2>1. d \in B /\ e \in B /\ e # c
        BY <1>4
    <2>2. CASE d = b
        <3>1. b + m[b] = c + sz[c] /\ (e <= b \/ b + sz[b] <= e) /\ (e <= c \/ c + sz[c] <= e)
            BY <1>1, <1>3, <2>1
        <3> QED BY <1>1, <2>1, <2>2, <3>1
    <2>3. CASE d # b
        BY <1>1, <1>3, <2>1, <2>3
    <2> QED BY <2>2, <2>3
<1>7. Tiles(E, m)
    BY <1>3, <1>4, <1>5, <1>6 DEF Tiles
<1> QED BY <1>7 DEF m

(* A block gives its top away. *)
LEMMA Split ==
    ASSUME NEW B, NEW sz, Tiles(B, sz), NEW b \in B, NEW n \in Nat, 1 <= n, n < sz[b]
    PROVE  LET t == b + (sz[b] - n)
           IN  /\ t \in Addr /\ t \notin B
               /\ Tiles(B \cup {t}, [sz EXCEPT ![b] = sz[b] - n, ![t] = n])
<1> DEFINE t == b + (sz[b] - n)
           E == B \cup {t}
           m == [sz EXCEPT ![b] = sz[b] - n, ![t] = n]
<1>1. /\ B \subseteq Addr /\ 0 \in B /\ sz \in [Addr -> 0 .. Pool] /\ Pool \in Nat
      /\ \A d \in B : d \in 0 .. Pool - 1 /\ sz[d] \in 0 .. Pool /\ sz[d] >= 1 /\ d + sz[d] \in B \cup {Pool}
      /\ \A d, e \in B : e <= d \/ d + sz[d] <= e
    BY MempoolAssumption DEF Tiles, Addr
<1>2. t \in Int /\ b < t /\ t < b + sz[b] /\ b + sz[b] <= Pool /\ t + n = b + sz[b]
    BY <1>1
<1>3. t \in Addr
    BY <1>1, <1>2 DEF Addr
<1>4. t \notin B
    <2> HIDE DEF t
    <2> QED BY <1>1, <1>2
<1>5. n \in 0 .. Pool /\ sz[b] - n \in 0 .. Pool
    BY <1>1
<1>6. /\ m[b] = sz[b] - n /\ m[t] = n /\ (\A d \in B : d # b => m[d] = sz[d]) /\ m \in [Addr -> 0 .. Pool]
      /\ b + m[b] = t
    <2>1. t # b /\ b \in Addr
        BY <1>1, <1>2
    <2>2. b + (sz[b] - n) = t
        OBVIOUS
    <2> HIDE DEF t
    <2> QED BY <1>1, <1>3, <1>4, <1>5, <2>1, <2>2
<1> HIDE DEF t, m
<1>7. ASSUME NEW d \in E PROVE m[d] >= 1 /\ d + m[d] \in E \cup {Pool}
    <2>1. CASE d = b
        BY <1>1, <1>6, <2>1
    <2>2. CASE d = t
        BY <1>1, <1>2, <1>6, <2>2
    <2>3. CASE d \in B /\ d # b
        BY <1>1, <1>6, <2>3
    <2> QED BY <2>1, <2>2, <2>3
<1>8. ASSUME NEW d \in E, NEW e \in E PROVE e <= d \/ d + m[d] <= e
    <2>1. CASE d = b
        <3>1. CASE e = t
            BY <1>2, <1>6, <2>1, <3>1
        <3>2. CASE e \in B
            <4>1. e <= b \/ b + sz[b] <= e
                BY <1>1, <3>2
            <4> QED BY <1>1, <1>2, <1>6, <2>1, <3>2, <4>1
        <3> QED BY <3>1, <3>2
    <2>2. CASE d = t
        <3>1. CASE e = t
            BY <1>2, <2>2, <3>1
        <3>2. CASE e \in B
            <4>1. e <= b \/ b + sz[b] <= e
                BY <1>1, <3>2
            <4> QED BY <1>1, <1>2, <1>6, <2>2, <3>2, <4>1
        <3> QED BY <3>1, <3>2
    <2>3. CASE d \in B /\ d # b
        <3>1. CASE e = t
            <4>1. (b <= d \/ d + sz[d] <= b) /\ (d <= b \/ b + sz[b] <= d)
                BY <1>1, <2>3
            <4> QED BY <1>1, <1>2, <1>6, <2>3, <3>1, <4>1
        <3>2. CASE e \in B
            BY <1>1, <1>6, <2>3, <3>2
        <3> QED BY <3>1, <3>2
    <2> QED BY <2>1, <2>2, <2>3
<1>9. Tiles(E, m)
    <2>1. E \subseteq Addr /\ 0 \in E
        BY <1>1, <1>3
    <2> HIDE DEF E
    <2> QED BY <1>6, <1>7, <1>8, <2>1 DEF Tiles
<1> QED BY <1>3, <1>4, <1>9 DEF t, m
-----------------------------------------------------------------------------
(* Every step keeps the invariant. *)

\* The list after a step, when it is known what the ring is
LEMMA NewList ==
    ASSUME NEW F, Ring(F, free_ptr', next')
    PROVE  FreeList' = F
<1>1. FreeList' = ListOf(free_ptr', next')
    BY DEF FreeList, ListOf, Nth, NthOf
<1> QED BY <1>1, RingIsList

LEMMA SameList == ASSUME UNCHANGED <<free_ptr, next>> PROVE FreeList' = FreeList
BY DEF FreeList, Nth

LEMMA InitInv == Init => IInv
<1> SUFFICES ASSUME Init PROVE IInv
    OBVIOUS
<1> DEFINE F == {0}
<1>1. Pool \in Nat /\ Pool >= 1 /\ 0 \in Addr
    BY MempoolAssumption DEF Addr
<1>2. /\ size = [a \in Addr |-> IF a = 0 THEN Pool ELSE 0] /\ next = [a \in Addr |-> 0]
      /\ free_ptr = 0 /\ held = {} /\ pc = "idle"
      /\ arg = None /\ p = None /\ prevp = None /\ best = None /\ bestPrev = None
    BY DEF Init
<1>3. next \in [Addr -> Addr] /\ next[0] = 0 /\ size \in [Addr -> 0 .. Pool] /\ size[0] = Pool
    BY <1>1, <1>2
<1>4. Ring(F, free_ptr, next)
    BY <1>1, <1>2, <1>3 DEF Ring, IsNext
<1>5. FreeList = F
    BY <1>4, FreeListDef, RingIsList
<1>6. Out = {}
    BY <1>2 DEF Out
<1>7. Tiles(F, size) /\ Apart(F, size)
    BY <1>1, <1>3 DEF Tiles, Apart
<1>8. TypeOK
    BY <1>1, <1>2, <1>3 DEF TypeOK
<1> HIDE DEF F
<1>9. F \cup {} = F
    OBVIOUS
<1> QED BY <1>2, <1>4, <1>5, <1>6, <1>7, <1>8, <1>9 DEF IInv, HeapInv, Blocks, MallocInv, SeekInv

\* A step that leaves the heap alone
LEMMA HeapStays ==
    ASSUME HeapInv, UNCHANGED <<headers, free_ptr>>, Out' = Out, pc' = "seek" => arg' \notin held'
    PROVE  HeapInv' /\ FreeList' = FreeList
<1>1. size' = size /\ next' = next /\ free_ptr' = free_ptr
    BY DEF headers
<1>2. FreeList' = FreeList
    BY <1>1, SameList
<1>3. /\ Ring(FreeList', free_ptr', next') /\ Tiles(Blocks', size') /\ Apart(FreeList', size')
      /\ FreeList' \cap Out' = {}
    BY <1>1, <1>2 DEF HeapInv, Blocks
<1> QED BY <1>2, <1>3 DEF HeapInv, Blocks

LEMMA MallocCallInv == ASSUME IInv, NEW n \in Requests, MallocCall(n) PROVE IInv' /\ Blocks' \subseteq Blocks
<1>1. /\ pc = "idle" /\ pc' = "scan" /\ arg' = n /\ prevp' = free_ptr /\ bestPrev' = free_ptr
      /\ p' = next[free_ptr] /\ best' = None /\ UNCHANGED <<headers, free_ptr, held>>
      /\ size' = size /\ next' = next /\ free_ptr' = free_ptr /\ held' = held
    BY DEF MallocCall, headers
<1>2. Out' = Out
    BY <1>1 DEF Out
<1>3. HeapInv' /\ FreeList' = FreeList
    BY <1>1, <1>2, HeapStays DEF IInv
<1>4. Ring(FreeList, free_ptr, next) /\ free_ptr \in FreeList /\ next[free_ptr] \in FreeList /\ FreeList \subseteq Addr
    BY DEF IInv, HeapInv, Ring
<1>5. Passed(FreeList', free_ptr', p') = {}
    BY <1>1, <1>3, <1>4, WalkBegins
<1>6. Chosen(Passed(FreeList', free_ptr', p'), FreeList', size', next', arg', best', bestPrev')
    BY <1>1, <1>5 DEF Chosen
<1>7. MallocInv'
    BY <1>1, <1>3, <1>4, <1>6 DEF MallocInv
<1>8. TypeOK'
    BY <1>1, <1>4, MempoolAssumption DEF IInv, TypeOK
<1> QED BY <1>1, <1>2, <1>3, <1>7, <1>8 DEF IInv, SeekInv, Blocks

LEMMA MallocScanInv == ASSUME IInv, MallocScan PROVE IInv' /\ Blocks' \subseteq Blocks
<1> DEFINE F == FreeList
           S == Passed(F, free_ptr, p)
<1>1. /\ pc = "scan" /\ UNCHANGED <<headers, free_ptr, held, arg>>
      /\ size' = size /\ next' = next /\ free_ptr' = free_ptr /\ held' = held /\ arg' = arg
      /\ pc' \in {"scan", "take"}
    BY DEF MallocScan, headers
<1>2. Out' = Out
    BY <1>1 DEF Out
<1>3. HeapInv' /\ FreeList' = F
    BY <1>1, <1>2, HeapStays DEF IInv
<1>4. Ring(F, free_ptr, next) /\ F \subseteq Addr /\ free_ptr \in F /\ \A b \in F : next[b] \in F
    BY DEF IInv, HeapInv, Ring
<1>5. /\ arg \in Requests /\ p \in F /\ prevp \in F /\ next[prevp] = p /\ bestPrev \in Addr
      /\ Chosen(S, F, size, next, arg, best, bestPrev)
    BY <1>1 DEF IInv, MallocInv
<1>6. (\A b \in F : size[b] \in Int) /\ arg \in Int /\ None \notin Addr /\ S \subseteq F
    BY <1>4, <1>5, MempoolAssumption DEF IInv, TypeOK, None, Addr, Passed
<1> HIDE DEF F, S
<1>7. Chosen(S \cup {p}, F, size, next, arg, best', bestPrev') /\ bestPrev' \in Addr /\ best' \in Addr \cup {None}
    <2>1. CASE Better /\ best' = p /\ bestPrev' = prevp
        <3>1. size[p] >= arg /\ (best = None \/ size[best] > size[p])
            BY <2>1 DEF Better
        <3>2. ASSUME NEW b \in S \cup {p}, size[b] >= arg PROVE size[b] >= size[p]
            <4>1. CASE b = p
                BY <4>1, <1>5, <1>6
            <4>2. CASE b \in S /\ best = None
                BY <4>2, <3>2, <1>5, <1>6 DEF Chosen
            <4>3. CASE b \in S /\ best # None
                <5>1. size[b] >= size[best] /\ best \in F /\ size[best] > size[p]
                    BY <4>3, <3>1, <3>2, <1>5 DEF Chosen
                <5> QED BY <5>1, <1>5, <1>6, <4>3
            <4> QED BY <4>1, <4>2, <4>3
        <3>3. p # None
            BY <1>4, <1>5, <1>6
        <3> QED BY <2>1, <3>1, <3>2, <3>3, <1>4, <1>5 DEF Chosen
    <2>2. CASE ~Better /\ UNCHANGED <<best, bestPrev>>
        <3>1. size[p] \in Int /\ (best # None => best \in F /\ size[best] \in Int)
            BY <1>5, <1>6 DEF Chosen
        <3>2. size[p] < arg \/ (best # None /\ size[best] <= size[p])
            BY <2>2, <3>1, <1>6 DEF Better
        <3>3. Chosen(S \cup {p}, F, size, next, arg, best, bestPrev)
            <4>1. CASE best = None
                BY <4>1, <3>2, <1>5 DEF Chosen
            <4>2. CASE best # None
                BY <4>2, <3>1, <3>2, <1>5, <1>6 DEF Chosen
            <4> QED BY <4>1, <4>2
        <3> QED BY <2>2, <3>1, <3>3, <1>4, <1>5
    <2> QED BY <2>1, <2>2 DEF MallocScan
<1>8. MallocInv' /\ prevp' \in Addr /\ p' \in Addr
    <2>1. CASE p = free_ptr
        <3>1. pc' = "take" /\ p' = p /\ prevp' = prevp
            BY <2>1 DEF MallocScan, LastLooked
        <3>2. S \cup {p} = F
            BY <2>1, <1>4, WalkEnds DEF S
        <3>3. Chosen(FreeList', FreeList', size', next', arg', best', bestPrev')
            BY <3>2, <1>1, <1>3, <1>7
        <3> QED BY <3>1, <3>3, <1>1, <1>3, <1>4, <1>5, <1>7 DEF MallocInv
    <2>2. CASE p # free_ptr
        <3>1. pc' = "scan" /\ p' = next[p] /\ prevp' = p
            BY <2>2, <1>1 DEF MallocScan, LastLooked
        <3>2. S \cup {p} = Passed(FreeList', free_ptr', p')
            BY <2>2, <3>1, <1>1, <1>3, <1>4, <1>5, WalkGoesOn DEF S
        <3>3. Chosen(Passed(FreeList', free_ptr', p'), FreeList', size', next', arg', best', bestPrev')
            BY <3>2, <1>1, <1>3, <1>7
        <3> QED BY <3>1, <3>3, <1>1, <1>3, <1>4, <1>5, <1>7 DEF MallocInv
    <2> QED BY <2>1, <2>2
<1>9. TypeOK'
    BY <1>1, <1>7, <1>8 DEF IInv, TypeOK
<1> QED BY <1>1, <1>2, <1>3, <1>8, <1>9 DEF IInv, SeekInv, Blocks, F

\* A call that ends
LEMMA Ended == ASSUME pc' = "idle", NoLocals PROVE MallocInv' /\ SeekInv' /\ Out' = held'
BY DEF MallocInv, SeekInv, Out

LEMMA TypesKept ==
    ASSUME size' \in [Addr -> 0 .. Pool], next' \in [Addr -> Addr], free_ptr' \in Addr, held' \subseteq Addr,
           pc' = "idle", NoLocals
    PROVE  TypeOK'
BY DEF TypeOK, NoLocals

LEMMA MallocFailInv == ASSUME IInv, MallocFail PROVE IInv' /\ Blocks' \subseteq Blocks
<1>1. /\ pc = "take" /\ pc' = "idle" /\ NoLocals /\ UNCHANGED <<headers, free_ptr, held>>
      /\ size' = size /\ next' = next /\ free_ptr' = free_ptr /\ held' = held
    BY DEF MallocFail, headers
<1>2. Out' = Out
    BY <1>1 DEF Out
<1>3. HeapInv' /\ FreeList' = FreeList
    BY <1>1, <1>2, HeapStays DEF IInv
<1>4. TypeOK'
    BY <1>1, TypesKept DEF IInv, TypeOK
<1> QED BY <1>1, <1>2, <1>3, <1>4, Ended DEF IInv, Blocks

\* What is known when malloc has chosen
LEMMA Choice ==
    ASSUME IInv, pc = "take", best # None
    PROVE  /\ Ring(FreeList, free_ptr, next) /\ Tiles(FreeList \cup held, size) /\ Apart(FreeList, size)
           /\ FreeList \cap held = {} /\ FreeList \subseteq Addr /\ held \subseteq Addr
           /\ best \in FreeList /\ bestPrev \in FreeList /\ next[bestPrev] = best
           /\ arg \in Nat /\ arg >= 1 /\ size[best] >= arg /\ size[best] \in Nat
           /\ next \in [Addr -> Addr] /\ size \in [Addr -> 0 .. Pool] /\ Pool \in Nat
<1>1. Out = held
    BY DEF Out
<1>2. /\ Ring(FreeList, free_ptr, next) /\ Tiles(FreeList \cup held, size) /\ Apart(FreeList, size)
      /\ FreeList \cap held = {} /\ FreeList \subseteq Addr /\ held \subseteq Addr
      /\ next \in [Addr -> Addr] /\ size \in [Addr -> 0 .. Pool] /\ Pool \in Nat
    BY <1>1, MempoolAssumption DEF IInv, HeapInv, Blocks, TypeOK, Ring
<1>3. /\ best \in FreeList /\ bestPrev \in FreeList /\ next[bestPrev] = best /\ arg \in Requests /\ size[best] >= arg
    BY DEF IInv, MallocInv, Chosen
<1>4. arg \in Nat /\ arg >= 1
    BY <1>3, MempoolAssumption
<1>5. size[best] \in Nat
    BY <1>2, <1>3
<1> QED BY <1>2, <1>3, <1>4, <1>5

LEMMA TakeWholeInv == ASSUME IInv, TakeWhole, best # 0 PROVE IInv' /\ Blocks' \subseteq Blocks
<1> DEFINE F == FreeList
           E == F \ {best}
<1>1. /\ pc = "take" /\ best # None /\ next' = [next EXCEPT ![bestPrev] = next[best]]
      /\ held' = held \cup {best} /\ free_ptr' = bestPrev /\ pc' = "idle" /\ NoLocals /\ size' = size
    BY DEF TakeWhole
<1>2. /\ Ring(F, free_ptr, next) /\ Tiles(F \cup held, size) /\ Apart(F, size)
      /\ F \cap held = {} /\ F \subseteq Addr /\ held \subseteq Addr
      /\ best \in F /\ bestPrev \in F /\ next[bestPrev] = best /\ size \in [Addr -> 0 .. Pool]
    BY <1>1, Choice
<1> HIDE DEF F
<1>3. Ring(E, free_ptr', next')
    BY <1>1, <1>2, Unlink
<1>4. FreeList' = E
    BY <1>3, NewList
<1>5. Out' = held' /\ MallocInv' /\ SeekInv'
    BY <1>1, Ended
<1>6. E \cup held' = F \cup held /\ E \cap held' = {}
    BY <1>1, <1>2
<1>7. Apart(E, size)
    BY <1>2 DEF Apart
<1>8. HeapInv'
    <2>1. Ring(FreeList', free_ptr', next') /\ Tiles(Blocks', size') /\ Apart(FreeList', size')
          /\ FreeList' \cap Out' = {}
        BY <1>1, <1>2, <1>3, <1>4, <1>5, <1>6, <1>7 DEF Blocks
    <2> QED BY <1>1, <2>1 DEF HeapInv, Blocks
<1>9. TypeOK'
    <2>1. next' \in [Addr -> Addr] /\ free_ptr' \in Addr
        BY <1>3 DEF Ring
    <2> QED BY <1>1, <1>2, <2>1, TypesKept
<1>10. Blocks' = Blocks
    BY <1>1, <1>4, <1>5, <1>6 DEF Blocks, Out, F
<1> QED BY <1>5, <1>8, <1>9, <1>10 DEF IInv

LEMMA TakeTopInv == ASSUME IInv, TakeTop PROVE IInv' /\ Blocks' = Blocks \cup {best + (size[best] - arg)}
<1> DEFINE F == FreeList
           top == best + (size[best] - arg)
<1>1. /\ pc = "take" /\ best # None /\ size[best] # arg
      /\ size' = [size EXCEPT ![best] = size[best] - arg, ![top] = arg]
      /\ held' = held \cup {top} /\ free_ptr' = bestPrev /\ pc' = "idle" /\ NoLocals /\ next' = next
    BY DEF TakeTop, Rest
<1>2. /\ Ring(F, free_ptr, next) /\ Tiles(F \cup held, size) /\ Apart(F, size)
      /\ F \cap held = {} /\ F \subseteq Addr /\ held \subseteq Addr
      /\ best \in F /\ bestPrev \in F /\ next[bestPrev] = best /\ next \in [Addr -> Addr]
      /\ size \in [Addr -> 0 .. Pool] /\ arg \in Nat /\ arg >= 1 /\ size[best] >= arg /\ size[best] \in Nat
    BY <1>1, Choice
<1> HIDE DEF F
<1>3. top \in Addr /\ top \notin F \cup held /\ Tiles((F \cup held) \cup {top}, size')
    <2>1. 1 <= arg /\ arg < size[best] /\ best \in F \cup held
        BY <1>1, <1>2
    <2> QED BY <1>1, <1>2, <2>1, Split
<1>4. best + (size[best] - arg) = top
    OBVIOUS
<1>5. Apart(F, size')
    <2>1. ASSUME NEW b \in F, NEW c \in F PROVE b + size'[b] # c
        <3>1. CASE b = best
            <4>1. size'[best] = size[best] - arg
                <5>1. best \in Addr /\ best # top
                    BY <1>2, <1>3
                <5> HIDE DEF top
                <5> QED BY <1>1, <1>2, <1>3, <5>1
            <4> QED BY <1>3, <3>1, <4>1
        <3>2. CASE b # best
            <4>1. b \in Addr /\ b # top
                BY <1>2, <1>3
            <4>2. size'[b] = size[b]
                <5> HIDE DEF top
                <5> QED BY <1>1, <1>2, <3>2, <4>1
            <4> QED BY <1>2, <4>2 DEF Apart
        <3> QED BY <3>1, <3>2
    <2> QED BY <2>1 DEF Apart
<1> HIDE DEF top
<1>6. Ring(F, free_ptr', next')
    BY <1>1, <1>2, AnyPlace
<1>7. FreeList' = F
    BY <1>6, NewList
<1>8. Out' = held' /\ MallocInv' /\ SeekInv'
    BY <1>1, Ended
<1>9. HeapInv'
    <2>1. (F \cup held) \cup {top} = F \cup held' /\ F \cap held' = {}
        BY <1>1, <1>2, <1>3
    <2>2. Ring(FreeList', free_ptr', next') /\ Tiles(Blocks', size') /\ Apart(FreeList', size')
          /\ FreeList' \cap Out' = {}
        BY <1>3, <1>5, <1>6, <1>7, <1>8, <2>1 DEF Blocks
    <2> QED BY <1>1, <2>2 DEF HeapInv, Blocks
<1>10. TypeOK'
    <2>1. size' \in [Addr -> 0 .. Pool]
        BY <1>3 DEF Tiles
    <2> QED BY <1>1, <1>2, <1>3, <2>1, TypesKept
<1>11. Blocks' = Blocks \cup {top}
    BY <1>1, <1>7, <1>8 DEF Blocks, Out, F
<1> QED BY <1>8, <1>9, <1>10, <1>11 DEF IInv, top

LEMMA FreeCallInv == ASSUME IInv, NEW b \in Addr, FreeCall(b) PROVE IInv' /\ Blocks' \subseteq Blocks
<1>1. /\ pc = "idle" /\ pc' = "seek" /\ b \in held /\ held' = held \ {b} /\ arg' = b /\ p' = free_ptr
      /\ UNCHANGED <<headers, free_ptr, prevp, best, bestPrev>>
      /\ size' = size /\ next' = next /\ free_ptr' = free_ptr
    BY DEF FreeCall, headers
<1>2. Out' = Out
    BY <1>1 DEF Out
<1>3. HeapInv' /\ FreeList' = FreeList
    BY <1>1, <1>2, HeapStays DEF IInv
<1>4. free_ptr \in FreeList
    BY DEF IInv, HeapInv, Ring
<1>5. SeekInv' /\ MallocInv'
    BY <1>1, <1>3, <1>4 DEF SeekInv, MallocInv
<1>6. TypeOK'
    <2>1. b \in Nat
        BY MempoolAssumption DEF Addr
    <2> QED BY <1>1, <2>1 DEF IInv, TypeOK
<1> QED BY <1>2, <1>3, <1>5, <1>6 DEF IInv, Blocks

LEMMA FreeSeekInv == ASSUME IInv, FreeSeek PROVE IInv' /\ Blocks' \subseteq Blocks
<1>1. /\ pc = "seek" /\ p' = next[p] /\ UNCHANGED <<headers, free_ptr, held, pc, arg, prevp, best, bestPrev>>
      /\ size' = size /\ next' = next /\ free_ptr' = free_ptr /\ held' = held /\ pc' = pc /\ arg' = arg
    BY DEF FreeSeek, headers
<1>2. Out' = Out
    BY <1>1 DEF Out
<1>3. HeapInv' /\ FreeList' = FreeList
    BY <1>1, <1>2, HeapStays DEF IInv, HeapInv
<1>4. next[p] \in FreeList /\ FreeList \subseteq Addr
    BY <1>1 DEF IInv, HeapInv, SeekInv, Ring
<1>5. SeekInv' /\ MallocInv'
    BY <1>1, <1>3, <1>4 DEF SeekInv, MallocInv, IInv
<1>6. TypeOK'
    BY <1>1, <1>4 DEF IInv, TypeOK
<1> QED BY <1>2, <1>3, <1>5, <1>6 DEF IInv, Blocks

\* The block is linked after p, then the next one is joined to it, then it to p.
LEMMA FreeLinkInv == ASSUME IInv, FreeLink PROVE IInv' /\ Blocks' \subseteq Blocks
<1> DEFINE F == FreeList
           n == next[p]
           B == F \cup (held \cup {arg})
           F1 == F \cup {arg}
           F2 == IF TouchesNext THEN F1 \ {n} ELSE F1
           F3 == IF p + size[p] = arg THEN F2 \ {arg} ELSE F2
           next1 == [next EXCEPT ![arg] = n, ![p] = arg]
           next2 == [next EXCEPT ![arg] = JoinedNext, ![p] = arg]
           size2 == [size EXCEPT ![arg] = JoinedSize]
<1>1. /\ pc = "seek" /\ (Between \/ AtEnd) /\ free_ptr' = p /\ pc' = "idle" /\ NoLocals /\ held' = held
    BY DEF FreeLink
<1>2. /\ p + size[p] = arg => /\ size' = [size EXCEPT ![arg] = JoinedSize, ![p] = size[p] + JoinedSize]
                              /\ next' = [next EXCEPT ![arg] = JoinedNext, ![p] = JoinedNext]
      /\ p + size[p] # arg => size' = size2 /\ next' = next2
    BY DEF FreeLink
<1>3. /\ Ring(F, free_ptr, next) /\ Tiles(B, size) /\ Apart(F, size)
      /\ F \cap (held \cup {arg}) = {} /\ arg \notin held /\ arg \in Addr /\ p \in F
      /\ held \subseteq Addr /\ size \in [Addr -> 0 .. Pool] /\ Pool \in Nat
    <2>1. Out = held \cup {arg}
        BY <1>1 DEF Out
    <2> QED BY <1>1, <2>1, MempoolAssumption DEF IInv, HeapInv, Blocks, SeekInv, TypeOK
<1>4. /\ F \subseteq Addr /\ 0 \in F /\ next \in [Addr -> Addr] /\ n \in F /\ IsNext(F, p, n)
      /\ \A b \in F : next[b] \in F
    BY <1>3 DEF Ring
<1>5. /\ \A b \in B : b \in 0 .. Pool - 1 /\ size[b] \in 0 .. Pool /\ size[b] >= 1
      /\ \A b, c \in B : c <= b \/ b + size[b] <= c
    BY <1>3 DEF Tiles, Addr
<1> HIDE DEF F, n
<1>6. Place(F, arg, p, n)
    <2>1. p \in Int /\ n \in Int /\ arg \in Int /\ arg >= 0
        BY <1>3, <1>4, <1>5
    <2>2. CASE Between
        <3>1. arg > p /\ arg < n
            BY <2>2 DEF Between, n
        <3> QED BY <1>4, <2>1, <3>1 DEF IsNext, Place
    <2>3. CASE AtEnd
        <3>1. p >= n /\ (arg > p \/ arg < n)
            BY <2>3 DEF AtEnd, n
        <3> QED BY <1>4, <2>1, <3>1 DEF IsNext, Place
    <2> QED BY <1>1, <2>2, <2>3
<1>7. p < arg /\ p # arg /\ n # arg /\ p \in Int /\ arg \in Int /\ arg # 0
    <2>1. p < arg /\ p \in Nat /\ arg \in Nat
        BY <1>3, <1>5, <1>6 DEF Place
    <2> QED BY <1>3, <1>4, <2>1
<1>8. TouchesNext <=> arg + size[arg] = n
    BY DEF TouchesNext, n
<1>9. ASSUME TouchesNext PROVE n # 0 /\ n # p /\ arg < n
    BY <1>3, <1>5, <1>7, <1>8, <1>9
<1>10. /\ JoinedNext = IF TouchesNext THEN next[n] ELSE n
       /\ JoinedSize = IF TouchesNext THEN size[arg] + size[n] ELSE size[arg]
    BY DEF JoinedNext, JoinedSize, n
<1>11. Ring(F1, p, next1)
    BY <1>3, <1>6, Link DEF n
<1>12. Ring(F2, arg, next2)
    <2>1. Ring(F1, arg, next1)
        BY <1>11, AnyPlace
    <2>2. CASE TouchesNext
        <3>1. next1[arg] = n /\ next1[n] = next[n]
            BY <1>3, <1>4, <1>7, <1>9, <2>2
        <3>2. [next1 EXCEPT ![arg] = next[n]] = next2
            BY <1>3, <1>4, <1>7, <1>10, <2>2
        <3>3. n # 0
            BY <1>9, <2>2
        <3> HIDE DEF next1, next2, F1
        <3>4. arg \in F1
            BY DEF F1
        <3>5. Ring(F1 \ {next1[arg]}, arg, [next1 EXCEPT ![arg] = next1[next1[arg]]])
            BY <2>1, <3>1, <3>3, <3>4, Unlink
        <3> QED BY <2>2, <3>1, <3>2, <3>5
    <2>3. CASE ~TouchesNext
        BY <1>10, <2>1, <2>3
    <2> QED BY <2>2, <2>3
<1>13. p \in F2 /\ arg \in F2
    BY <1>3, <1>7, <1>9
<1>14. Ring(F3, p, next')
    <2>1. Ring(F2, p, next2)
        BY <1>12, <1>13, AnyPlace
    <2>2. CASE p + size[p] = arg
        <3>1. next2[p] = arg /\ next2[arg] = JoinedNext
            BY <1>3, <1>4, <1>7
        <3>2. [next2 EXCEPT ![p] = JoinedNext] = next'
            BY <1>2, <1>3, <1>4, <1>7, <2>2
        <3> HIDE DEF next2, F2
        <3>3. Ring(F2 \ {next2[p]}, p, [next2 EXCEPT ![p] = next2[next2[p]]])
            BY <1>7, <1>13, <2>1, <3>1, Unlink
        <3> QED BY <2>2, <3>1, <3>2, <3>3
    <2>3. CASE p + size[p] # arg
        BY <1>2, <2>1, <2>3
    <2> QED BY <2>2, <2>3
<1>15. FreeList' = F3
    BY <1>1, <1>14, NewList
<1>16. Tiles(F2 \cup held, size2) /\ size2[p] = size[p] /\ size2[arg] = JoinedSize
    <2>1. size2[p] = size[p] /\ size2[arg] = JoinedSize
        BY <1>3, <1>4, <1>7
    <2>2. CASE TouchesNext
        <3>1. arg + size[arg] = n /\ JoinedSize = size[arg] + size[n]
            BY <1>8, <1>10, <2>2
        <3>2. arg \in B /\ n \in B
            BY <1>4
        <3>3. Tiles(B \ {n}, size2)
            <4> HIDE DEF B
            <4> QED BY <1>3, <3>1, <3>2, Merge
        <3>4. B \ {n} = F2 \cup held
            BY <1>3, <1>4, <2>2
        <3> QED BY <2>1, <3>3, <3>4
    <2>3. CASE ~TouchesNext
        <3>1. size2 = size
            BY <1>3, <1>10, <2>3
        <3>2. F2 \cup held = B
            BY <2>3
        <3> QED BY <1>3, <2>1, <3>1, <3>2
    <2> QED BY <2>2, <2>3
<1>17. Tiles(F3 \cup held, size')
    <2>1. CASE p + size[p] = arg
        <3>1. size' = [size2 EXCEPT ![p] = size[p] + JoinedSize]
            BY <1>2, <1>3, <1>7, <2>1
        <3>2. (F2 \cup held) \ {arg} = F3 \cup held
            BY <1>3, <2>1
        <3>3. Tiles((F2 \cup held) \ {arg}, size')
            <4> HIDE DEF F2, size2
            <4> QED BY <1>13, <1>16, <2>1, <3>1, Merge
        <3> QED BY <3>2, <3>3
    <2>2. CASE p + size[p] # arg
        BY <1>2, <1>16, <2>2
    <2> QED BY <2>1, <2>2
<1>18. ASSUME NEW b \in F, b + size[b] = arg PROVE b = p
    <2>1. b < arg /\ b \in Int /\ p \in Int /\ arg \in Int /\ size[b] >= 1
        BY <1>3, <1>5, <1>18
    <2>2. b <= p
        <3>1. \/ arg < n /\ ~(p < b /\ b < n)
              \/ b <= p
            BY <1>6 DEF Place
        <3> QED BY <1>4, <1>5, <2>1, <3>1
    <2>3. p <= b \/ b + size[b] <= p
        BY <1>3, <1>5
    <2> QED BY <1>7, <1>18, <2>1, <2>2, <2>3
<1>19. arg + JoinedSize \notin F1 /\ JoinedSize \in Int
    <2>1. CASE TouchesNext
        <3>1. arg + JoinedSize = n + size[n] /\ JoinedSize \in Int /\ JoinedSize >= 1
            BY <1>4, <1>5, <1>8, <1>10, <2>1
        <3>2. n + size[n] \notin F
            BY <1>3, <1>4 DEF Apart
        <3> QED BY <1>7, <3>1, <3>2
    <2>2. CASE ~TouchesNext
        <3>1. JoinedSize = size[arg] /\ size[arg] >= 1 /\ size[arg] \in Int
            BY <1>5, <1>10, <2>2
        <3>2. ASSUME NEW c \in F, arg + size[arg] = c PROVE FALSE
            <4>1. c \in Int /\ c > arg
                BY <1>7, <3>1, <3>2
            <4>2. arg < n /\ ~(p < c /\ c < n)
                BY <1>3, <1>5, <1>6, <1>7, <4>1 DEF Place
            <4>3. n <= arg \/ arg + size[arg] <= n
                BY <1>4, <1>5
            <4> QED BY <1>4, <1>5, <1>7, <1>8, <2>2, <3>2, <4>1, <4>2, <4>3
        <3> QED BY <1>7, <3>1, <3>2
    <2> QED BY <2>1, <2>2
<1>20. Apart(F3, size')
    <2>0. \A b \in F : b \in Addr /\ b # arg /\ b + size[b] \notin F
        BY <1>3, <1>4 DEF Apart
    <2>1. CASE p + size[p] = arg
        <3>1. F3 \subseteq F
            BY <2>1
        <3>2. size'[p] = size[p] + JoinedSize /\ \A b \in F : b # p => size'[b] = size[b]
            BY <1>2, <1>3, <1>7, <2>0, <2>1
        <3>3. p + size'[p] = arg + JoinedSize
            <4>1. size[p] \in Int
                BY <1>3, <1>5
            <4> QED BY <1>7, <1>19, <2>1, <3>2, <4>1
        <3> HIDE DEF F3
        <3> QED BY <1>19, <2>0, <3>1, <3>2, <3>3 DEF Apart
    <2>2. CASE p + size[p] # arg
        <3>1. F3 \subseteq F1
            BY <2>2
        <3>2. size'[arg] = JoinedSize /\ \A b \in F : size'[b] = size[b]
            BY <1>2, <1>3, <2>0, <2>2
        <3>3. \A b \in F : b + size[b] # arg
            BY <1>18, <2>2
        <3>4. \A b \in F1 : b + size'[b] \notin F1
            BY <1>19, <2>0, <3>2, <3>3
        <3> HIDE DEF F3
        <3> QED BY <3>1, <3>4 DEF Apart
    <2> QED BY <2>1, <2>2
<1>21. Out' = held' /\ MallocInv' /\ SeekInv'
    BY <1>1, Ended
<1>22. HeapInv'
    <2>1. F3 \cap held = {}
        BY <1>3
    <2> HIDE DEF F3
    <2>2. Ring(FreeList', free_ptr', next') /\ Tiles(Blocks', size') /\ Apart(FreeList', size')
          /\ FreeList' \cap Out' = {}
        BY <1>1, <1>14, <1>15, <1>17, <1>20, <1>21, <2>1 DEF Blocks
    <2> QED BY <1>1, <2>2 DEF HeapInv, Blocks
<1>23. TypeOK'
    <2>1. next' \in [Addr -> Addr] /\ size' \in [Addr -> 0 .. Pool]
        BY <1>14, <1>17 DEF Ring, Tiles
    <2>2. free_ptr' \in Addr /\ held' \subseteq Addr
        BY <1>1, <1>3, <1>4
    <2> QED BY <1>1, <2>1, <2>2, TypesKept
<1>24. Blocks' \subseteq Blocks
    <2>1. Blocks' = F3 \cup held /\ Blocks = F \cup (held \cup {arg})
        BY <1>1, <1>15, <1>21 DEF Blocks, Out, F
    <2> QED BY <2>1
<1> QED BY <1>21, <1>22, <1>23, <1>24 DEF IInv

LEMMA StutterInv == ASSUME IInv, UNCHANGED vars PROVE IInv' /\ Blocks' = Blocks
<1>1. /\ size' = size /\ next' = next /\ free_ptr' = free_ptr /\ held' = held /\ pc' = pc /\ arg' = arg
      /\ p' = p /\ prevp' = prevp /\ best' = best /\ bestPrev' = bestPrev
    BY DEF vars, headers, locals
<1>2. FreeList' = FreeList /\ Out' = Out
    BY <1>1, SameList DEF Out
<1>3. HeapInv'
    BY <1>1, <1>2 DEF IInv, HeapInv, Blocks
<1>4. MallocInv' /\ SeekInv'
    BY <1>1, <1>2 DEF IInv, MallocInv, SeekInv
<1>5. TypeOK'
    BY <1>1 DEF IInv, TypeOK
<1> QED BY <1>2, <1>3, <1>4, <1>5 DEF IInv, Blocks

LEMMA StepInv == ASSUME IInv, [Next]_vars, [TakeWhole => best # 0]_vars PROVE IInv'
<1>1. CASE UNCHANGED vars
    BY <1>1, StutterInv
<1>2. CASE Next /\ (TakeWhole => best # 0)
    <2>1. CASE \E n \in Requests : MallocCall(n)
        BY <2>1, MallocCallInv
    <2>2. CASE \E b \in Addr : FreeCall(b)
        BY <2>2, FreeCallInv
    <2>3. CASE Work
        BY <1>2, <2>3, MallocScanInv, MallocFailInv, TakeWholeInv, TakeTopInv, FreeSeekInv, FreeLinkInv DEF Work
    <2> QED BY <1>2, <2>1, <2>2, <2>3 DEF Next
<1> QED BY <1>1, <1>2

(* What fnet_mempool_malloc and fnet_mempool_free rely on and keep, at     *)
(* every turn of their loops                                               *)
THEOREM MempoolInv == Spec /\ KeepsLowest => []IInv
BY InitInv, StepInv, PTL DEF Spec, KeepsLowest

-----------------------------------------------------------------------------
(* Between two calls every unit of the heap belongs to exactly one block,  *)
(* on the free list or with a caller, whatever was asked for and given     *)
(* back and in whatever order.                                             *)
THEOREM TiledAlways == Spec /\ KeepsLowest => []Tiled
<1>1. IInv => Tiled
    <2> SUFFICES ASSUME IInv, pc = "idle"
                 PROVE  /\ FreeList \cap held = {}
                        /\ \A u \in Addr : \E b \in FreeList \cup held :
                              /\ u \in Units(b)
                              /\ \A c \in (FreeList \cup held) \ {b} : u \notin Units(c)
        BY DEF Tiled, IInv
    <2> DEFINE B == FreeList \cup held
    <2>1. Out = held /\ FreeList \cap held = {} /\ Tiles(B, size) /\ Pool \in Nat
        BY MempoolAssumption DEF IInv, HeapInv, Blocks, Out
    <2> HIDE DEF B
    <2>2. /\ B \subseteq 0 .. Pool - 1 /\ 0 \in B
          /\ \A b \in B : b \in 0 .. Pool - 1 /\ size[b] \in Nat /\ size[b] >= 1 /\ b + size[b] \in B \cup {Pool}
          /\ \A b, c \in B : c <= b \/ b + size[b] <= c
        BY <2>1 DEF Tiles, Addr
    <2>3. ASSUME NEW u \in Addr
          PROVE  \E b \in B : u \in Units(b) /\ \A c \in B \ {b} : u \notin Units(c)
        <3> DEFINE S == {b \in B : b <= u}
        <3>1. u \in 0 .. Pool - 1 /\ Pool - 1 \in Nat
            BY <2>1 DEF Addr
        <3>2. S \subseteq 0 .. Pool - 1 /\ 0 \in S
            <4>1. 0 <= u
                BY <3>1
            <4> QED BY <2>2, <4>1
        <3> HIDE DEF S
        <3>3. PICK b \in S : \A c \in S : c <= b
            BY <3>1, <3>2, Greatest
        <3>4. b \in B /\ b <= u /\ \A c \in B : c <= u => c <= b
            BY <3>3 DEF S
        <3>5. u < b + size[b]
            BY <2>2, <3>1, <3>4
        <3>6. u \in Units(b)
            BY <2>2, <3>1, <3>4, <3>5 DEF Units
        <3>7. ASSUME NEW c \in B, c # b PROVE u \notin Units(c)
            <4>1. (c <= b \/ b + size[b] <= c) /\ (b <= c \/ c + size[c] <= b)
                BY <2>2, <3>4
            <4> QED BY <2>2, <3>1, <3>4, <3>5, <3>7, <4>1 DEF Units
        <3> QED BY <3>4, <3>6, <3>7
    <2> QED BY <2>1, <2>3 DEF B
<1> QED BY <1>1, MempoolInv, PTL

(* Free blocks never touch: fnet_mempool_free joins what is freed with     *)
(* both neighbours.                                                        *)
THEOREM CoalescedAlways == Spec /\ KeepsLowest => []Coalesced
<1>1. IInv => Coalesced
    BY DEF IInv, HeapInv, Apart, Coalesced
<1> QED BY <1>1, MempoolInv, PTL

(* fnet_mempool_malloc fails only when no free block is large enough, and  *)
(* takes the smallest one that is, wherever free_ptr was left.             *)
THEOREM BestFitAlways == Spec /\ KeepsLowest => BestFit
<1>1. ASSUME IInv, pc = "take"
      PROVE  /\ best = None => \A b \in FreeList : size[b] < arg
             /\ best # None => best \in FreeList /\ \A b \in FreeList : size[b] >= arg => size[b] >= size[best]
    BY <1>1 DEF IInv, MallocInv, Chosen
<1> QED BY <1>1, MempoolInv, PTL DEF BestFit

-----------------------------------------------------------------------------
(* Where no requests add up to the heap: S has their sums, and not Pool. *)
NeverFull(S) == 0 \in S /\ (\A s \in S : \A n \in Requests : s + n \in S) /\ Pool \notin S

Sums(S) == \A b \in Blocks : b = 0 \/ Pool - b \in S

\* To take the lowest block whole, requests must have taken all the rest.
LEMMA NotTheLowest ==
    ASSUME NEW S, NeverFull(S), IInv, Sums(S), TakeWhole
    PROVE  best # 0
<1> SUFFICES ASSUME best = 0 PROVE FALSE
    OBVIOUS
<1>1. pc = "take" /\ best # None /\ size[0] = arg
    BY DEF TakeWhole
<1>2. arg \in Requests /\ arg \in Nat /\ arg >= 1 /\ Pool \in Nat
    <2>1. arg \in Requests
        BY <1>1 DEF IInv, MallocInv
    <2> QED BY <2>1, MempoolAssumption
<1>3. 0 + size[0] \in Blocks \cup {Pool}
    BY DEF IInv, HeapInv, Tiles
<1>4. Pool - arg \in S
    <2>1. arg \in Blocks \cup {Pool} /\ arg # 0 /\ Pool - Pool = 0
        BY <1>1, <1>2, <1>3
    <2> QED BY <2>1 DEF NeverFull, Sums
<1>5. (Pool - arg) + arg \in S
    BY <1>2, <1>4 DEF NeverFull
<1>6. (Pool - arg) + arg = Pool
    BY <1>2
<1> QED BY <1>5, <1>6 DEF NeverFull

LEMMA TopIsASum ==
    ASSUME NEW S, NeverFull(S), IInv, Sums(S), TakeTop
    PROVE  Pool - (best + (size[best] - arg)) \in S
<1>1. pc = "take" /\ best # None
    BY DEF TakeTop
<1>2. arg \in Requests
    BY <1>1 DEF IInv, MallocInv
<1>3. /\ best \in Blocks /\ best \in Nat /\ size[best] \in Nat /\ arg \in Nat /\ arg >= 1 /\ size[best] >= arg
      /\ Pool \in Nat /\ Tiles(Blocks, size)
    <2>1. /\ best \in FreeList /\ FreeList \subseteq Addr /\ size[best] \in Nat /\ arg \in Nat /\ arg >= 1
          /\ size[best] >= arg
        BY <1>1, Choice
    <2>2. \A b \in Addr : b \in Nat
        BY MempoolAssumption DEF Addr
    <2>3. Pool \in Nat /\ Tiles(Blocks, size)
        BY MempoolAssumption DEF IInv, HeapInv
    <2> QED BY <2>1, <2>2, <2>3 DEF Blocks
<1> DEFINE e == best + size[best]
<1>4. e \in Blocks \cup {Pool} /\ e # 0 /\ e \in Int
    BY <1>3 DEF Tiles
<1>5. Pool - e \in S
    <2>1. Pool - Pool = 0
        BY <1>3
    <2> QED BY <1>4, <2>1 DEF NeverFull, Sums
<1>6. (Pool - e) + arg \in S
    BY <1>2, <1>5 DEF NeverFull
<1>7. (Pool - e) + arg = Pool - (best + (size[best] - arg))
    BY <1>3
<1> QED BY <1>6, <1>7

(* A heap that no requests add up to keeps its lowest block: what is said  *)
(* above of the behaviours that keep it holds of all its behaviours.       *)
THEOREM LowestIsKept ==
    ASSUME NEW CONSTANT S, NeverFull(S)
    PROVE  Spec => KeepsLowest
<1>1. Init => IInv /\ Sums(S)
    <2> SUFFICES ASSUME Init PROVE IInv /\ Sums(S)
        OBVIOUS
    <2>1. IInv
        BY InitInv
    <2>2. Blocks = {0}
        <3>1. held = {} /\ pc = "idle" /\ free_ptr = 0 /\ next = [a \in Addr |-> 0]
            BY DEF Init
        <3>2. Out = {} /\ 0 \in Addr /\ Pool \in Nat
            BY <3>1, MempoolAssumption DEF Out, Addr
        <3>3. Ring({0}, free_ptr, next)
            BY <3>1, <3>2 DEF Ring, IsNext
        <3>4. FreeList = {0}
            BY <3>3, FreeListDef, RingIsList
        <3> QED BY <3>2, <3>4 DEF Blocks
    <2> QED BY <2>1, <2>2 DEF Sums
<1>2. ASSUME IInv, Sums(S), [Next]_vars PROVE (IInv /\ Sums(S))' /\ [TakeWhole => best # 0]_vars
    <2>1. TakeWhole => best # 0
        BY <1>2, NotTheLowest
    <2>2. IInv'
        BY <1>2, <2>1, StepInv
    <2>3. \A b \in Blocks' : b \in Blocks \/ b = 0 \/ Pool - b \in S
        <3>1. CASE UNCHANGED vars
            BY <1>2, <3>1, StutterInv
        <3>2. CASE \E n \in Requests : MallocCall(n)
            BY <1>2, <3>2, MallocCallInv
        <3>3. CASE \E b \in Addr : FreeCall(b)
            BY <1>2, <3>3, FreeCallInv
        <3>4. CASE TakeTop
            BY <1>2, <3>4, TakeTopInv, TopIsASum
        <3>5. CASE MallocScan \/ MallocFail \/ TakeWhole \/ FreeSeek \/ FreeLink
            BY <1>2, <2>1, <3>5, MallocScanInv, MallocFailInv, TakeWholeInv, FreeSeekInv, FreeLinkInv
        <3> QED BY <1>2, <3>1, <3>2, <3>3, <3>4, <3>5 DEF Next, Work
    <2>4. Sums(S)'
        BY <1>2, <2>3 DEF Sums
    <2> QED BY <2>1, <2>2, <2>4
<1> QED BY <1>1, <1>2, PTL DEF Spec, KeepsLowest
=============================================================================
