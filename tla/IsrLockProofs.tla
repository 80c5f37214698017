--------------------------- MODULE IsrLockProofs ---------------------------
(***************************************************************************)
(* Proofs about IsrLock, for any depth of main's critical sections and any *)
(* nesting of the interrupts: Balanced, Exclusion and WorkIsRemembered.    *)
(*                                                                         *)
(* The invariant, Coherent, is about the call stack alone, and every step  *)
(* replaces, pushes or pops its top: lemmas Replaced, Pushed and Popped    *)
(* say what these do to a stack, the lemma of each action which of them it *)
(* is. The level of a stack is the cardinality of its open sections, which *)
(* grows by what each routine has open (LevelStep).                        *)
(***************************************************************************)
EXTENDS IsrLock, FiniteSetTheorems, SequenceTheorems, TLAPS

Ops == {"lock", "serve", "output", "unlock"}
Running == Entries \cup {"main"}

\* What a frame of each kind can be.
Shape(f) ==
    /\ f \in Frames /\ f.at >= 1
    /\ f.run = "script" => f.of \in Running /\ f.at \in 1 .. Len(Script(f.of)) + 1
    /\ f.run = "isr" => f.of \in Vectors
    /\ f.run = "unlock" => f.of = "none"

-----------------------------------------------------------------------------
LEMMA FrameUpdate ==
    ASSUME NEW f \in Frames
    PROVE  /\ \A n \in Nat : /\ Moved(f, n) \in Frames
                             /\ Moved(f, n).run = f.run /\ Moved(f, n).of = f.of
                             /\ Moved(f, n).at = n /\ Moved(f, n).reg = NoReg
           /\ \A r \in Int : LET g == [f EXCEPT !.reg = r] IN
                             /\ g \in Frames /\ g.run = f.run /\ g.of = f.of
                             /\ g.at = f.at /\ g.reg = r
<1>1. NoReg \in Int
  BY DEF NoReg
<1>2. ASSUME NEW n \in Nat
      PROVE  /\ Moved(f, n) \in Frames
             /\ Moved(f, n).run = f.run /\ Moved(f, n).of = f.of
             /\ Moved(f, n).at = n /\ Moved(f, n).reg = NoReg
  BY <1>1 DEF Frames, Moved
<1>3. ASSUME NEW r \in Int
      PROVE  LET g == [f EXCEPT !.reg = r] IN
             g \in Frames /\ g.run = f.run /\ g.of = f.of /\ g.at = f.at /\ g.reg = r
  BY DEF Frames
<1> QED
  BY <1>2, <1>3

\* Every script is a sequence of operations.
LEMMA ScriptType ==
    \A e \in Running : /\ Script(e) \in Seq(Ops)
                       /\ Len(Script(e)) \in Nat
                       /\ DOMAIN Script(e) = 1 .. Len(Script(e))
<1>1. Sections \in Seq(Ops)
  <2>1. Sections \in [1 .. 2 * Depth -> Ops]
    BY DepthAssumption DEF Sections, Ops
  <2>2. 2 * Depth \in Nat
    BY DepthAssumption
  <2> QED
    BY <2>1, <2>2
<1>2. /\ EthBottom \in Seq(Ops) /\ IpBottom \in Seq(Ops)
      /\ ArpBottom \in Seq(Ops) /\ TimerBottom \in Seq(Ops)
  BY DEF EthBottom, IpBottom, ArpBottom, TimerBottom, Ops
<1>3. Notify \o Sections \in Seq(Ops)
  BY <1>1, ConcatProperties DEF Notify, Ops
<1>4. \A e \in Running : Script(e) \in Seq(Ops)
  BY <1>2, <1>3 DEF Running, Entries, Script
<1> QED
  BY <1>4, LenProperties

LEMMA MainScript ==
    /\ Len(Script("main")) = 2 * Depth + 1 /\ DOMAIN Script("main") = 1 .. 2 * Depth + 1
    /\ \A k \in 1 .. 2 * Depth + 1 :
           Script("main")[k] = IF k = 1 THEN "output" ELSE IF k <= Depth + 1 THEN "lock" ELSE "unlock"
<1> DEFINE M == Notify \o Sections
<1>1. Script("main") = M
  BY DEF Script
<1>2. Sections \in Seq(Ops) /\ Len(Sections) = 2 * Depth
  <2>1. Sections \in [1 .. 2 * Depth -> Ops] /\ 2 * Depth \in Nat
    BY DepthAssumption DEF Sections, Ops
  <2> QED
    BY <2>1
<1>3. Notify \in Seq(Ops) /\ Len(Notify) = 1 /\ Notify[1] = "output"
  BY DEF Notify, Ops
<1>4. /\ M \in Seq(Ops) /\ Len(M) = Len(Notify) + Len(Sections)
      /\ \A k \in 1 .. Len(Notify) + Len(Sections) :
             M[k] = IF k <= Len(Notify) THEN Notify[k] ELSE Sections[k - Len(Notify)]
  BY <1>2, <1>3, ConcatProperties
<1> HIDE DEF M
<1>5. Len(M) = 2 * Depth + 1 /\ DOMAIN M = 1 .. 2 * Depth + 1
  <2>1. Len(M) = 2 * Depth + 1
    BY <1>2, <1>3, <1>4, DepthAssumption
  <2> QED
    BY <1>4, <2>1, LenProperties
<1>6. ASSUME NEW k \in 1 .. 2 * Depth + 1
      PROVE  M[k] = IF k = 1 THEN "output" ELSE IF k <= Depth + 1 THEN "lock" ELSE "unlock"
  <2>1. M[k] = IF k <= 1 THEN Notify[k] ELSE Sections[k - 1]
    BY <1>2, <1>3, <1>4, DepthAssumption
  <2>2. CASE k = 1
    BY <2>1, <2>2, <1>3
  <2>3. CASE k # 1
    <3>1. k - 1 \in 1 .. 2 * Depth /\ (k - 1 <= Depth <=> k <= Depth + 1)
      BY <2>3, DepthAssumption
    <3>2. Sections[k - 1] = IF k - 1 <= Depth THEN "lock" ELSE "unlock"
      BY <3>1 DEF Sections
    <3> QED
      BY <2>1, <2>3, <3>1, <3>2
  <2> QED
    BY <2>2, <2>3
<1> QED
  BY <1>1, <1>5, <1>6

LEMMA CountStart ==
    ASSUME NEW s, NEW op, s \in Seq(Ops)
    PROVE  Count(s, op, 1) = 0
<1>1. {k \in DOMAIN s : k < 1 /\ s[k] = op} = {}
  BY LenProperties
<1> QED
  BY <1>1, FS_EmptySet DEF Count

\* One operation further, one more of its kind.
LEMMA CountStep ==
    ASSUME NEW s \in Seq(Ops), NEW op, NEW n \in 1 .. Len(s)
    PROVE  /\ Count(s, op, n) \in Nat
           /\ Count(s, op, n + 1) = Count(s, op, n) + (IF s[n] = op THEN 1 ELSE 0)
<1> DEFINE C(m) == {k \in DOMAIN s : k < m /\ s[k] = op}
<1>1. Len(s) \in Nat /\ DOMAIN s = 1 .. Len(s)
  BY LenProperties
<1>2. IsFiniteSet(1 .. Len(s))
  BY <1>1, FS_Interval
<1>3. C(n) \subseteq 1 .. Len(s)
  BY <1>1
<1>4. IsFiniteSet(C(n)) /\ Cardinality(C(n)) \in Nat
  BY <1>2, <1>3, FS_Subset, FS_CardinalityType
<1>5. C(n + 1) = IF s[n] = op THEN C(n) \cup {n} ELSE C(n)
  BY <1>1
<1>6. n \notin C(n)
  OBVIOUS
<1>7. Cardinality(C(n + 1)) = Cardinality(C(n)) + (IF s[n] = op THEN 1 ELSE 0)
  <2>1. CASE s[n] = op
    <3>1. Cardinality(C(n) \cup {n}) = Cardinality(C(n)) + 1
      BY <1>4, <1>6, FS_AddElement
    <3> QED
      BY <2>1, <3>1, <1>5
  <2>2. CASE s[n] # op
    <3>1. C(n + 1) = C(n)
      BY <2>2, <1>5
    <3> HIDE DEF C
    <3> QED
      BY <2>2, <3>1, <1>4
  <2> QED
    BY <2>1, <2>2
<1> QED
  BY <1>4, <1>7 DEF Count

\* Main's script closes what it opens, level by level.
LEMMA SectionsCount ==
    \A n \in 1 .. 2 * Depth + 2 :
        /\ Count(Script("main"), "lock", n) =
               IF n = 1 THEN 0 ELSE IF n <= Depth + 1 THEN n - 2 ELSE Depth
        /\ Count(Script("main"), "unlock", n) = IF n <= Depth + 2 THEN 0 ELSE n - Depth - 2
<1> DEFINE M == Script("main")
<1> SUFFICES ASSUME NEW n \in 1 .. 2 * Depth + 2
             PROVE  /\ Count(M, "lock", n) = IF n = 1 THEN 0 ELSE IF n <= Depth + 1 THEN n - 2 ELSE Depth
                    /\ Count(M, "unlock", n) = IF n <= Depth + 2 THEN 0 ELSE n - Depth - 2
  OBVIOUS
<1> USE DepthAssumption
<1>1. /\ DOMAIN M = 1 .. 2 * Depth + 1
      /\ \A k \in 1 .. 2 * Depth + 1 :
             M[k] = IF k = 1 THEN "output" ELSE IF k <= Depth + 1 THEN "lock" ELSE "unlock"
  BY MainScript
<1> HIDE DEF M
<1> DEFINE upper == IF n = 1 THEN 1 ELSE IF n <= Depth + 1 THEN n - 1 ELSE Depth + 1
<1>2. {k \in DOMAIN M : k < n /\ M[k] = "lock"} = 2 .. upper
  BY <1>1
<1>3. {k \in DOMAIN M : k < n /\ M[k] = "unlock"} = Depth + 2 .. n - 1
  BY <1>1
<1>4. Cardinality(2 .. upper) = IF n = 1 THEN 0 ELSE IF n <= Depth + 1 THEN n - 2 ELSE Depth
  <2>1. upper \in Int /\ upper >= 1
    OBVIOUS
  <2>2. Cardinality(2 .. upper) = IF 2 > upper THEN 0 ELSE upper - 2 + 1
    BY <2>1, FS_Interval
  <2> QED
    BY <2>2
<1>5. Cardinality(Depth + 2 .. n - 1) = IF n <= Depth + 2 THEN 0 ELSE n - Depth - 2
  <2>1. Depth + 2 \in Int /\ n - 1 \in Int
    OBVIOUS
  <2>2. Cardinality(Depth + 2 .. n - 1) =
            IF Depth + 2 > n - 1 THEN 0 ELSE (n - 1) - (Depth + 2) + 1
    BY <2>1, FS_Interval
  <2> QED
    BY <2>2
<1> HIDE DEF upper
<1> QED
  BY <1>2, <1>3, <1>4, <1>5 DEF Count

Levels(s, n) == Count(s, "lock", n) - Count(s, "unlock", n)

\* An operation that a script holds once is counted from there on.
LEMMA CountOne ==
    ASSUME NEW s \in Seq(Ops), NEW op, NEW p \in DOMAIN s,
           \A k \in DOMAIN s : s[k] = op <=> k = p
    PROVE  \A n \in Nat : Count(s, op, n) = IF p < n THEN 1 ELSE 0
<1> SUFFICES ASSUME NEW n \in Nat PROVE Count(s, op, n) = IF p < n THEN 1 ELSE 0
  OBVIOUS
<1>1. {k \in DOMAIN s : k < n /\ s[k] = op} = IF p < n THEN {p} ELSE {}
  OBVIOUS
<1>2. Cardinality({p}) = 1 /\ Cardinality({}) = 0
  BY FS_Singleton, FS_EmptySet
<1> QED
  BY <1>1, <1>2 DEF Count

LEMMA CountNone ==
    ASSUME NEW s \in Seq(Ops), NEW op, \A k \in DOMAIN s : s[k] # op
    PROVE  \A n \in Nat : Count(s, op, n) = 0
<1>1. \A n \in Nat : {k \in DOMAIN s : k < n /\ s[k] = op} = {}
  OBVIOUS
<1> QED
  BY <1>1, FS_EmptySet DEF Count

\* So do the scripts of the bottom halves, and they are one level deep at most.
LEMMA BottomLevels ==
    \A e \in Entries : /\ \A n \in 1 .. Len(Script(e)) + 1 : Levels(Script(e), n) \in {0, 1}
                       /\ Levels(Script(e), Len(Script(e)) + 1) = 0
<1> DEFINE Good(s) == /\ \A n \in 1 .. Len(s) + 1 : Levels(s, n) \in {0, 1}
                      /\ Levels(s, Len(s) + 1) = 0
<1>1. ASSUME NEW s \in Seq(Ops), NEW p \in DOMAIN s, NEW q \in DOMAIN s, p < q,
             \A k \in DOMAIN s : (s[k] = "lock" <=> k = p) /\ (s[k] = "unlock" <=> k = q)
      PROVE  Good(s)
  <2>1. Len(s) \in Nat /\ p \in Nat /\ q \in Nat /\ q <= Len(s)
    BY LenProperties
  <2>2. \A n \in Nat : /\ Count(s, "lock", n) = IF p < n THEN 1 ELSE 0
                       /\ Count(s, "unlock", n) = IF q < n THEN 1 ELSE 0
    BY <1>1, CountOne
  <2> QED
    BY <1>1, <2>1, <2>2 DEF Levels
<1>2. ASSUME NEW s \in Seq(Ops), \A k \in DOMAIN s : s[k] # "lock" /\ s[k] # "unlock"
      PROVE  Good(s)
  <2>1. \A n \in Nat : Count(s, "lock", n) = 0 /\ Count(s, "unlock", n) = 0
    BY <1>2, CountNone
  <2>2. Len(s) \in Nat
    BY LenProperties
  <2> QED
    BY <2>1, <2>2 DEF Levels
<1> HIDE DEF Good
<1>3. Good(EthBottom)
  <2>1. EthBottom \in Seq(Ops) /\ DOMAIN EthBottom = 1 .. 3
    BY DEF EthBottom, Ops
  <2>2. \A k \in 1 .. 3 : (EthBottom[k] = "lock" <=> k = 1) /\ (EthBottom[k] = "unlock" <=> k = 3)
    BY DEF EthBottom
  <2>3. 1 \in DOMAIN EthBottom /\ 3 \in DOMAIN EthBottom /\ 1 < 3
    BY <2>1
  <2>4. \A k \in DOMAIN EthBottom : (EthBottom[k] = "lock" <=> k = 1) /\ (EthBottom[k] = "unlock" <=> k = 3)
    BY <2>1, <2>2
  <2> QED
    BY <2>1, <2>3, <2>4, <1>1
<1>4. Good(IpBottom)
  <2>1. IpBottom \in Seq(Ops) /\ DOMAIN IpBottom = 1 .. 4
    BY DEF IpBottom, Ops
  <2>2. \A k \in 1 .. 4 : (IpBottom[k] = "lock" <=> k = 1) /\ (IpBottom[k] = "unlock" <=> k = 4)
    BY DEF IpBottom
  <2>3. 1 \in DOMAIN IpBottom /\ 4 \in DOMAIN IpBottom /\ 1 < 4
    BY <2>1
  <2>4. \A k \in DOMAIN IpBottom : (IpBottom[k] = "lock" <=> k = 1) /\ (IpBottom[k] = "unlock" <=> k = 4)
    BY <2>1, <2>2
  <2> QED
    BY <2>1, <2>3, <2>4, <1>1
<1>5. Good(TimerBottom)
  <2>1. TimerBottom \in Seq(Ops) /\ DOMAIN TimerBottom = 1 .. 4
    BY DEF TimerBottom, Ops
  <2>2. \A k \in 1 .. 4 : (TimerBottom[k] = "lock" <=> k = 1) /\ (TimerBottom[k] = "unlock" <=> k = 3)
    BY DEF TimerBottom
  <2>3. 1 \in DOMAIN TimerBottom /\ 3 \in DOMAIN TimerBottom /\ 1 < 3
    BY <2>1
  <2>4. \A k \in DOMAIN TimerBottom : (TimerBottom[k] = "lock" <=> k = 1) /\ (TimerBottom[k] = "unlock" <=> k = 3)
    BY <2>1, <2>2
  <2> QED
    BY <2>1, <2>3, <2>4, <1>1
<1>6. Good(ArpBottom)
  <2>1. ArpBottom \in Seq(Ops) /\ DOMAIN ArpBottom = 1 .. 2
    BY DEF ArpBottom, Ops
  <2>2. \A k \in 1 .. 2 : ArpBottom[k] # "lock" /\ ArpBottom[k] # "unlock"
    BY DEF ArpBottom
  <2> QED
    BY <2>1, <2>2, <1>2
<1>7. \A e \in Entries : Script(e) \in {EthBottom, IpBottom, ArpBottom, TimerBottom}
  BY DEF Script, Entries
<1> QED
  BY <1>3, <1>4, <1>5, <1>6, <1>7 DEF Good

\* A routine has between none and Depth sections open.
LEMMA HeldBounds == \A f : Shape(f) => Held(f) \in 0 .. Depth
<1> SUFFICES ASSUME NEW f, Shape(f) PROVE Held(f) \in 0 .. Depth
  OBVIOUS
<1>1. f.run \in {"script", "isr", "unlock"}
  BY DEF Shape, Frames
<1>2. CASE f.run = "isr"
  BY <1>2, DepthAssumption DEF Held
<1>3. CASE f.run = "unlock"
  BY <1>3, DepthAssumption DEF Held
<1>4. CASE f.run = "script" /\ f.of \in Entries
  <2>1. Held(f) = Levels(Script(f.of), f.at)
    BY <1>4 DEF Held, Levels
  <2>2. f.at \in 1 .. Len(Script(f.of)) + 1
    BY <1>4 DEF Shape
  <2> QED
    BY <2>1, <2>2, <1>4, BottomLevels, DepthAssumption
<1>5. CASE f.run = "script" /\ f.of = "main"
  <2>1. Held(f) = Levels(Script("main"), f.at)
    BY <1>5 DEF Held, Levels
  <2>2. f.at \in 1 .. 2 * Depth + 2
    BY <1>5, MainScript, DepthAssumption DEF Shape
  <2> QED
    BY <2>1, <2>2, SectionsCount, DepthAssumption DEF Levels
<1> QED
  BY <1>1, <1>2, <1>3, <1>4, <1>5 DEF Shape, Running

\* It has none where it starts and where it ends, one more after a lock and one less
\* after an unlock.
LEMMA HeldMoves ==
    ASSUME NEW f, Shape(f), f.run = "script"
    PROVE  /\ f.at = 1 => Held(f) = 0
           /\ f.at > Len(Script(f.of)) => Held(f) = 0
           /\ f.at <= Len(Script(f.of)) =>
                  LET g == Moved(f, f.at + 1)
                      op == Script(f.of)[f.at]
                  IN  /\ Shape(g)
                      /\ op \in Ops
                      /\ op = "lock"   => Held(g) = Held(f) + 1
                      /\ op = "unlock" => Held(g) = Held(f) - 1
                      /\ op \in {"serve", "output"} => Held(g) = Held(f)
<1>1. /\ f.of \in Running /\ f.at \in 1 .. Len(Script(f.of)) + 1
      /\ Script(f.of) \in Seq(Ops) /\ Len(Script(f.of)) \in Nat
  BY ScriptType DEF Shape
<1>2. Held(f) = Levels(Script(f.of), f.at)
  BY DEF Held, Levels
<1>3. ASSUME f.at = 1 PROVE Held(f) = 0
  BY <1>1, <1>2, <1>3, CountStart DEF Levels
<1>4. ASSUME f.at > Len(Script(f.of)) PROVE Held(f) = 0
  <2>1. f.at = Len(Script(f.of)) + 1
    BY <1>1, <1>4
  <2>2. CASE f.of \in Entries
    BY <1>2, <2>1, <2>2, BottomLevels
  <2>3. CASE f.of = "main"
    <3>1. f.at = 2 * Depth + 2 /\ f.at \in 1 .. 2 * Depth + 2
      BY <2>1, <2>3, MainScript, DepthAssumption
    <3>2. Held(f) = Depth - Depth
      BY <2>3, <3>1, <1>2, SectionsCount, DepthAssumption DEF Levels
    <3> QED
      BY <3>2, DepthAssumption
  <2> QED
    BY <1>1, <2>2, <2>3 DEF Running
<1>5. ASSUME f.at <= Len(Script(f.of))
      PROVE  LET g == Moved(f, f.at + 1)
                 op == Script(f.of)[f.at]
             IN  /\ Shape(g)
                 /\ op \in Ops
                 /\ op = "lock"   => Held(g) = Held(f) + 1
                 /\ op = "unlock" => Held(g) = Held(f) - 1
                 /\ op \in {"serve", "output"} => Held(g) = Held(f)
  <2> DEFINE g == Moved(f, f.at + 1)
  <2> DEFINE op == Script(f.of)[f.at]
  <2>1. /\ g \in Frames /\ g.run = "script" /\ g.of = f.of /\ g.at = f.at + 1
    BY <1>1, FrameUpdate DEF Shape
  <2> HIDE DEF g
  <2>2. Shape(g)
    BY <2>1, <1>1, <1>5 DEF Shape
  <2>3. Held(g) = Levels(Script(f.of), f.at + 1)
    BY <2>1 DEF Held, Levels
  <2>4. f.at \in 1 .. Len(Script(f.of))
    BY <1>1, <1>5
  <2>5. op \in Ops
    BY <1>1, <2>4, ElementOfSeq
  <2>6. \A x \in Ops : /\ Count(Script(f.of), x, f.at) \in Nat
                       /\ Count(Script(f.of), x, f.at + 1) =
                             Count(Script(f.of), x, f.at) + (IF op = x THEN 1 ELSE 0)
    BY <1>1, <2>4, CountStep
  <2> HIDE DEF op
  <2>7. /\ op = "lock"   => Held(g) = Held(f) + 1
        /\ op = "unlock" => Held(g) = Held(f) - 1
        /\ op \in {"serve", "output"} => Held(g) = Held(f)
    BY <1>2, <2>3, <2>6 DEF Levels, Ops
  <2> QED
    BY <2>2, <2>5, <2>7 DEF g, op
<1> QED
  BY <1>3, <1>4, <1>5
-----------------------------------------------------------------------------
\* The level the first n routines of s hold the lock at.
Level(s, n) == Cardinality(Open(s, n))

LEMMA LevelStart == \A s : Level(s, 0) = 0
<1>1. \A s : Open(s, 0) = {}
  BY DEF Open
<1> QED
  BY <1>1, FS_EmptySet DEF Level

\* It depends on these routines alone.
LEMMA LevelSame ==
    ASSUME NEW s, NEW t, NEW n \in Nat, \A i \in 1 .. n : s[i] = t[i]
    PROVE  Level(s, n) = Level(t, n)
<1>1. Open(s, n) = Open(t, n)
  BY DEF Open
<1> QED
  BY <1>1 DEF Level

\* One routine more adds the sections it has open.
LEMMA LevelStep ==
    ASSUME NEW s, NEW n \in Nat, \A i \in 1 .. n + 1 : Held(s[i]) \in 0 .. Depth
    PROVE  /\ Level(s, n) \in Nat
           /\ Level(s, n + 1) = Level(s, n) + Held(s[n + 1])
<1> USE DepthAssumption
<1> DEFINE new == {n + 1} \X (1 .. Held(s[n + 1]))
<1>1. /\ IsFiniteSet(1 .. n) /\ IsFiniteSet(1 .. Depth)
  BY FS_Interval
<1>2. IsFiniteSet((1 .. n) \X (1 .. Depth))
  BY <1>1, FS_Product
<1>3. Open(s, n) \subseteq (1 .. n) \X (1 .. Depth)
  BY DEF Open
<1>4. IsFiniteSet(Open(s, n)) /\ Level(s, n) \in Nat
  BY <1>2, <1>3, FS_Subset, FS_CardinalityType DEF Level
<1>5. Held(s[n + 1]) \in Nat
  OBVIOUS
<1>6. IsFiniteSet(new) /\ Cardinality(new) = Held(s[n + 1])
  <2>1. IsFiniteSet({n + 1}) /\ Cardinality({n + 1}) = 1
    BY FS_Singleton
  <2>2. IsFiniteSet(1 .. Held(s[n + 1])) /\ Cardinality(1 .. Held(s[n + 1])) = Held(s[n + 1])
    BY <1>5, FS_Interval
  <2>3. Cardinality(new) = 1 * Held(s[n + 1]) /\ IsFiniteSet(new)
    BY <2>1, <2>2, FS_Product, SMTT(30)
  <2> QED
    BY <2>3, <1>5
<1>7. Open(s, n + 1) = Open(s, n) \cup new
  BY DEF Open
<1>8. Open(s, n) \cap new = {}
  BY DEF Open
<1>9. Cardinality(Open(s, n) \cup new) = Cardinality(Open(s, n)) + Cardinality(new)
  <2> HIDE DEF new
  <2>1. Cardinality(Open(s, n) \cup new) =
           Cardinality(Open(s, n)) + Cardinality(new) - Cardinality(Open(s, n) \cap new)
    BY <1>4, <1>6, FS_Union
  <2>2. Cardinality(Open(s, n) \cap new) = 0
    BY <1>8, FS_EmptySet
  <2> QED
    BY <2>1, <2>2, <1>4, <1>5, <1>6 DEF Level
<1> HIDE DEF new
<1>10. Level(s, n + 1) = Level(s, n) + Held(s[n + 1])
  BY <1>6, <1>7, <1>9 DEF Level
<1> QED
  BY <1>4, <1>10

\* At level 0 no routine has a section open.
LEMMA LevelZero ==
    ASSUME NEW s, NEW n \in Nat, \A i \in 1 .. n : Held(s[i]) \in 0 .. Depth,
           Level(s, n) = 0
    PROVE  \A i \in 1 .. n : Held(s[i]) = 0
<1> USE DepthAssumption
<1>1. IsFiniteSet((1 .. n) \X (1 .. Depth))
  <2>1. IsFiniteSet(1 .. n) /\ IsFiniteSet(1 .. Depth)
    BY FS_Interval
  <2> QED
    BY <2>1, FS_Product
<1>2. Open(s, n) \subseteq (1 .. n) \X (1 .. Depth)
  BY DEF Open
<1>3. Open(s, n) = {}
  BY <1>1, <1>2, FS_Subset, FS_EmptySet DEF Level
<1>4. ASSUME NEW i \in 1 .. n, Held(s[i]) # 0 PROVE FALSE
  <2>1. <<i, 1>> \in Open(s, n)
    BY <1>4 DEF Open
  <2> QED
    BY <2>1, <1>3
<1> QED
  BY <1>4
-----------------------------------------------------------------------------
MainFrame(f) == f.run = "script" /\ f.of = "main"
Calls(f, g) == f.run = "unlock" \/ (f.run = "isr" /\ f.at = 2 /\ f.of = g.of)

\* Main is at the bottom, and only there.
StackInv(s) ==
    /\ s \in Seq(Frames) /\ Len(s) >= 1
    /\ \A i \in 1 .. Len(s) : Shape(s[i]) /\ (MainFrame(s[i]) <=> i = 1)

\* A bottom half was called by an unlock or by its own handler.
CallInv(s) == \A i \in 2 .. Len(s) : s[i].run = "script" => Calls(s[i - 1], s[i])

\* A handler has interrupted only handlers of less urgent vectors.
PriorityInv(s) ==
    \A i, j \in 1 .. Len(s) :
        i < j /\ s[i].run = "isr" /\ s[j].run = "isr" =>
            NvicLevel(s[j].of) < NvicLevel(s[i].of)

\* The counter is the level of the whole stack; a routine that was interrupted between
\* the load and the store will find it as it has loaded it.
LevelInv(s, l) ==
    /\ l = Level(s, Len(s))
    /\ \A i \in 1 .. Len(s) : s[i].reg # NoReg => s[i].reg = Level(s, i)

\* A handler called its bottom half at level 0, and what it interrupts has not moved.
QuietInv(s) ==
    \A j \in 1 .. Len(s) : s[j].run = "isr" /\ s[j].at = 2 =>
        \A i \in 1 .. j - 1 : Held(s[i]) = 0

Coherent(s, l) ==
    StackInv(s) /\ CallInv(s) /\ PriorityInv(s) /\ LevelInv(s, l) /\ QuietInv(s)

\* Sequences as stacks.
LEMMA PopPush ==
    ASSUME NEW s \in Seq(Frames), Len(s) >= 1
    PROVE  /\ Last(s) = s[Len(s)] /\ Len(s) \in Nat \ {0}
           /\ Front(s) \in Seq(Frames) /\ Len(Front(s)) = Len(s) - 1
           /\ \A i \in 1 .. Len(s) - 1 : Front(s)[i] = s[i]
           /\ \A f \in Frames : LET t == Append(Front(s), f) IN
                 /\ t \in Seq(Frames) /\ Len(t) = Len(s) /\ t[Len(s)] = f
                 /\ \A i \in 1 .. Len(s) - 1 : t[i] = s[i]
           /\ \A f \in Frames : LET t == Append(s, f) IN
                 /\ t \in Seq(Frames) /\ Len(t) = Len(s) + 1 /\ t[Len(t)] = f
                 /\ \A i \in 1 .. Len(s) : t[i] = s[i]
<1>1. Len(s) \in Nat \ {0} /\ \A i \in 1 .. Len(s) : s[i] \in Frames
  BY LenProperties, ElementOfSeq
<1>2. Front(s) \in Seq(Frames) /\ Len(Front(s)) = Len(s) - 1
      /\ \A i \in 1 .. Len(s) - 1 : Front(s)[i] = s[i]
  <2>1. Front(s) = SubSeq(s, 1, Len(s) - 1)
    BY DEF Front
  <2>2. \A i \in 1 .. Len(s) - 1 : s[i] \in Frames
    BY <1>1
  <2>3. Len(s) - 1 \in Int
    BY <1>1
  <2> DEFINE n == Len(s) - 1
  <2>4. n \in Nat /\ n - 1 + 1 = n
    BY <1>1
  <2>5. /\ SubSeq(s, 1, n) \in Seq(Frames)
        /\ Len(SubSeq(s, 1, n)) = IF 1 <= n THEN n - 1 + 1 ELSE 0
        /\ \A i \in 1 .. n - 1 + 1 : SubSeq(s, 1, n)[i] = s[1 + i - 1]
    BY <2>2, <2>3, SubSeqProperties
  <2> HIDE DEF n
  <2>6. \A i \in 1 .. n : 1 + i - 1 = i
    BY <2>4
  <2> DEFINE t == SubSeq(s, 1, n)
  <2>7. t \in Seq(Frames) /\ Len(t) = (IF 1 <= n THEN n - 1 + 1 ELSE 0)
        /\ \A i \in 1 .. n - 1 + 1 : t[i] = s[1 + i - 1]
    BY <2>5
  <2> HIDE DEF t
  <2>8. t \in Seq(Frames) /\ Len(t) = n /\ \A i \in 1 .. n : t[i] = s[i]
    BY <2>4, <2>6, <2>7
  <2> QED
    BY <2>1, <2>8 DEF t, n
<1>3. Last(s) = s[Len(s)]
  BY DEF Last
<1>4. \A f \in Frames : LET t == Append(Front(s), f) IN
          /\ t \in Seq(Frames) /\ Len(t) = Len(s) /\ t[Len(s)] = f
          /\ \A i \in 1 .. Len(s) - 1 : t[i] = s[i]
  BY <1>1, <1>2, AppendProperties
<1>5. \A f \in Frames : LET t == Append(s, f) IN
          /\ t \in Seq(Frames) /\ Len(t) = Len(s) + 1 /\ t[Len(t)] = f
          /\ \A i \in 1 .. Len(s) : t[i] = s[i]
  BY <1>1, AppendProperties
<1> QED
  BY <1>1, <1>2, <1>3, <1>4, <1>5

\* The level of a stack is that below its top plus what the top has open.
LEMMA TopLevel ==
    ASSUME NEW s, StackInv(s)
    PROVE  /\ Level(s, Len(s)) = Level(s, Len(s) - 1) + Held(s[Len(s)])
           /\ Level(s, Len(s)) \in Nat /\ Level(s, Len(s) - 1) \in Nat
           /\ Held(s[Len(s)]) \in Nat
<1>1. Len(s) - 1 \in Nat /\ \A i \in 1 .. (Len(s) - 1) + 1 : Held(s[i]) \in 0 .. Depth
  BY HeldBounds, LenProperties DEF StackInv
<1>2. /\ Level(s, Len(s) - 1) \in Nat
      /\ Level(s, (Len(s) - 1) + 1) = Level(s, Len(s) - 1) + Held(s[(Len(s) - 1) + 1])
  BY <1>1, LevelStep
<1>3. (Len(s) - 1) + 1 = Len(s)
  BY LenProperties DEF StackInv
<1>4. Held(s[Len(s)]) \in Nat
  BY <1>1, <1>3, DepthAssumption
<1> QED
  BY <1>2, <1>3, <1>4

LEMMA Popped ==
    ASSUME NEW s, NEW l, Coherent(s, l), ~MainFrame(Last(s))
    PROVE  Coherent(Front(s), l - Held(Last(s)))
<1> DEFINE n == Len(s)
<1> DEFINE t == Front(s)
<1>1. s \in Seq(Frames) /\ n >= 1 /\ StackInv(s)
  BY DEF Coherent, StackInv
<1>2. /\ Last(s) = s[n] /\ n \in Nat \ {0}
      /\ t \in Seq(Frames) /\ Len(t) = n - 1 /\ \A i \in 1 .. n - 1 : t[i] = s[i]
  BY <1>1, PopPush
<1>3. n >= 2
  BY <1>1, <1>2 DEF StackInv
<1> HIDE DEF n, t
<1>4. \A i \in 0 .. n - 1 : Level(t, i) = Level(s, i)
  BY <1>2, LevelSame
<1>5. StackInv(t)
  BY <1>1, <1>2, <1>3 DEF StackInv, n
<1>6. CallInv(t)
  BY <1>2 DEF CallInv, Coherent, n
<1>7. PriorityInv(t)
  BY <1>2 DEF PriorityInv, Coherent, n
<1>8. QuietInv(t)
  BY <1>2, SMTT(30) DEF QuietInv, Coherent, n
<1>9. l - Held(Last(s)) = Level(t, n - 1)
  BY <1>1, <1>2, <1>4, TopLevel DEF Coherent, LevelInv, n
<1>10. LevelInv(t, l - Held(Last(s)))
  BY <1>2, <1>4, <1>9 DEF LevelInv, Coherent, n
<1> QED
  BY <1>5, <1>6, <1>7, <1>8, <1>10 DEF Coherent, t

LEMMA Pushed ==
    ASSUME NEW s, NEW l, Coherent(s, l), NEW f, Shape(f), ~MainFrame(f), f.reg = NoReg,
           f.run = "script" => Calls(Last(s), f),
           f.run = "isr" => /\ f.at # 2
                            /\ \A i \in 1 .. Len(s) : s[i].run = "isr" =>
                                   NvicLevel(f.of) < NvicLevel(s[i].of)
    PROVE  Coherent(Append(s, f), l + Held(f))
<1> DEFINE n == Len(s)
<1> DEFINE t == Append(s, f)
<1>1. s \in Seq(Frames) /\ n >= 1 /\ StackInv(s) /\ f \in Frames
  BY DEF Coherent, StackInv, Shape
<1>2. /\ Last(s) = s[n] /\ n \in Nat \ {0}
      /\ t \in Seq(Frames) /\ Len(t) = n + 1 /\ t[n + 1] = f /\ \A i \in 1 .. n : t[i] = s[i]
  BY <1>1, PopPush
<1> HIDE DEF n, t
<1>3. \A i \in 0 .. n : Level(t, i) = Level(s, i)
  BY <1>2, LevelSame
<1>4. StackInv(t)
  BY <1>1, <1>2 DEF StackInv, n
<1>5. CallInv(t)
  <2> SUFFICES ASSUME NEW i \in 2 .. n + 1, t[i].run = "script" PROVE Calls(t[i - 1], t[i])
    BY <1>2 DEF CallInv
  <2>1. CASE i = n + 1
    BY <2>1, <1>2
  <2>2. CASE i # n + 1
    <3>1. i \in 2 .. n /\ t[i] = s[i] /\ t[i - 1] = s[i - 1]
      BY <2>2, <1>2
    <3> QED
      BY <3>1 DEF CallInv, Coherent, n
  <2> QED
    BY <2>1, <2>2
<1>6. PriorityInv(t)
  BY <1>2 DEF PriorityInv, Coherent, n
<1>7. QuietInv(t)
  BY <1>2 DEF QuietInv, Coherent, n
<1>8. l + Held(f) = Level(t, n + 1)
  <2>1. Level(t, n + 1) = Level(t, n) + Held(f)
    BY <1>2, <1>4, TopLevel
  <2> QED
    BY <2>1, <1>2, <1>3 DEF Coherent, LevelInv, n
<1>9. LevelInv(t, l + Held(f))
  BY <1>2, <1>3, <1>8 DEF LevelInv, Coherent, n
<1> QED
  BY <1>4, <1>5, <1>6, <1>7, <1>9 DEF Coherent, t

LEMMA Replaced ==
    ASSUME NEW s, NEW l, Coherent(s, l), NEW g, Shape(g),
           g.run = Last(s).run, g.of = Last(s).of,
           g.run = "isr" => l = 0,
           g.reg # NoReg => g.reg = l - Held(Last(s)) + Held(g)
    PROVE  Coherent(Append(Front(s), g), l - Held(Last(s)) + Held(g))
<1> DEFINE n == Len(s)
<1> DEFINE t == Append(Front(s), g)
<1> DEFINE m == l - Held(Last(s)) + Held(g)
<1>1. s \in Seq(Frames) /\ n >= 1 /\ StackInv(s) /\ g \in Frames
  BY DEF Coherent, StackInv, Shape
<1>2. /\ Last(s) = s[n] /\ n \in Nat \ {0}
      /\ t \in Seq(Frames) /\ Len(t) = n /\ t[n] = g /\ \A i \in 1 .. n - 1 : t[i] = s[i]
  BY <1>1, PopPush
<1> HIDE DEF n, t
<1>3. \A i \in 0 .. n - 1 : Level(t, i) = Level(s, i)
  BY <1>2, LevelSame
<1>4. StackInv(t)
  BY <1>1, <1>2 DEF StackInv, n, MainFrame
<1>5. CallInv(t)
  <2> SUFFICES ASSUME NEW i \in 2 .. n, t[i].run = "script" PROVE Calls(t[i - 1], t[i])
    BY <1>2 DEF CallInv
  <2>1. t[i].run = s[i].run /\ t[i].of = s[i].of /\ t[i - 1] = s[i - 1]
    BY <1>2
  <2>2. Calls(s[i - 1], s[i])
    BY <2>1 DEF CallInv, Coherent, n
  <2> QED
    BY <2>1, <2>2 DEF Calls
<1>6. PriorityInv(t)
  <2>1. \A i \in 1 .. n : t[i].run = s[i].run /\ t[i].of = s[i].of
    BY <1>2
  <2> QED
    BY <2>1, <1>2 DEF PriorityInv, Coherent, n
<1>7. QuietInv(t)
  <2> SUFFICES ASSUME NEW j \in 1 .. n, t[j].run = "isr", t[j].at = 2, NEW i \in 1 .. j - 1
               PROVE  Held(t[i]) = 0
    BY <1>2 DEF QuietInv
  <2>1. t[i] = s[i]
    BY <1>2
  <2>2. CASE j = n
    <3>1. \A k \in 1 .. n : Held(s[k]) \in 0 .. Depth
      BY <1>1, HeldBounds DEF StackInv, n
    <3>2. Level(s, n) = 0
      BY <2>2, <1>2 DEF Coherent, LevelInv, n
    <3>3. Held(s[i]) = 0
      BY <3>1, <3>2, <1>2, <2>2, LevelZero
    <3> QED
      BY <2>1, <3>3
  <2>3. CASE j # n
    BY <2>3, <2>1, <1>2 DEF QuietInv, Coherent, n
  <2> QED
    BY <2>2, <2>3
<1>8. m = Level(t, n)
  <2>1. Level(t, n) = Level(t, n - 1) + Held(g)
    BY <1>2, <1>4, TopLevel
  <2>2. Level(s, n) = Level(s, n - 1) + Held(Last(s)) /\ Level(s, n - 1) \in Nat
        /\ Held(Last(s)) \in Nat
    BY <1>1, <1>2, TopLevel DEF n
  <2>3. l = Level(s, n) /\ Level(t, n - 1) = Level(s, n - 1)
    BY <1>2, <1>3 DEF Coherent, LevelInv, n
  <2> QED
    BY <2>1, <2>2, <2>3
<1>9. LevelInv(t, m)
  <2> HIDE DEF m
  <2>1. \A i \in 1 .. n - 1 : t[i].reg # NoReg => t[i].reg = Level(t, i)
    BY <1>2, <1>3 DEF Coherent, LevelInv, n
  <2>2. g.reg # NoReg => g.reg = Level(t, n)
    BY <1>8 DEF m
  <2> QED
    BY <2>1, <2>2, <1>2, <1>8 DEF LevelInv
<1> QED
  BY <1>4, <1>5, <1>6, <1>7, <1>9 DEF Coherent, t
-----------------------------------------------------------------------------
IInv ==
    /\ pended \in [Entries -> BOOLEAN]
    /\ work \in [Entries -> BOOLEAN]
    /\ Coherent(stack, fnet_locked)

\* What the top of a coherent stack can be.
LEMMA TopFacts ==
    ASSUME IInv
    PROVE  /\ Shape(Top) /\ Top \in Frames /\ fnet_locked \in Nat
           /\ Held(Top) \in Nat
           /\ Top.reg # NoReg => Top.reg = fnet_locked
           /\ Top.run = "unlock" => Held(Top) = 1
           /\ Top.run = "isr" => Held(Top) = 0
<1>1. StackInv(stack) /\ LevelInv(stack, fnet_locked)
  BY DEF IInv, Coherent
<1>2. Top = stack[Len(stack)] /\ Len(stack) \in Nat \ {0}
  BY <1>1, PopPush DEF StackInv, Top
<1>3. Shape(Top) /\ Top \in Frames
  BY <1>1, <1>2 DEF StackInv, Shape
<1>4. fnet_locked \in Nat /\ Held(Top) \in Nat
  BY <1>1, <1>2, TopLevel DEF LevelInv
<1>5. Top.reg # NoReg => Top.reg = fnet_locked
  BY <1>1, <1>2 DEF LevelInv
<1> QED
  BY <1>3, <1>4, <1>5 DEF Held

\* A step that only moves the routine that runs.
LEMMA GotoStep ==
    ASSUME IInv, NEW k \in Nat, Shape(Moved(Top, k)), Top.run # "isr"
    PROVE  Coherent(Goto(k), fnet_locked - Held(Top) + Held(Moved(Top, k)))
<1>1. Coherent(stack, fnet_locked)
  BY DEF IInv
<1>2. /\ Moved(Top, k).run = Top.run /\ Moved(Top, k).of = Top.of
      /\ Moved(Top, k).reg = NoReg
  BY TopFacts, FrameUpdate
<1>3. Coherent(Append(Front(stack), Moved(Top, k)),
               fnet_locked - Held(Top) + Held(Moved(Top, k)))
  BY <1>1, <1>2, Replaced DEF Top
<1> QED
  BY <1>3 DEF Goto, Below

LEMMA PopStep ==
    ASSUME IInv, ~MainFrame(Top)
    PROVE  Coherent(Below, fnet_locked - Held(Top))
BY Popped DEF IInv, Top, Below

LEMMA InterruptStep ==
    ASSUME IInv, NEW v \in Vectors, Interrupt(v)
    PROVE  Coherent(stack', fnet_locked')
<1> DEFINE f == Frame("isr", v, 1)
<1>1. /\ f \in Frames /\ f.run = "isr" /\ f.of = v /\ f.at = 1 /\ f.reg = NoReg
  BY DEF Frame, Frames, NoReg, Vectors, Entries
<1> HIDE DEF f
<1>2. Shape(f) /\ ~MainFrame(f) /\ Held(f) = 0
  BY <1>1 DEF Shape, MainFrame, Held
<1>3. \A i \in 1 .. Len(stack) : stack[i].run = "isr" => NvicLevel(f.of) < NvicLevel(stack[i].of)
  <2>1. DOMAIN stack = 1 .. Len(stack)
    BY LenProperties DEF IInv, Coherent, StackInv
  <2> QED
    BY <1>1, <2>1 DEF Interrupt, Preempts
<1>4. Coherent(Append(stack, f), fnet_locked + Held(f))
  BY <1>1, <1>2, <1>3, Pushed DEF IInv
<1> QED
  BY <1>2, <1>4, TopFacts DEF Interrupt, Push, f

LEMMA HandlerStep ==
    ASSUME IInv, Pend \/ IsrReturn
    PROVE  Coherent(stack', fnet_locked')
<1>1. Top.run = "isr" /\ stack' = Below /\ fnet_locked' = fnet_locked
  BY DEF Pend, IsrReturn
<1>2. ~MainFrame(Top)
  BY <1>1 DEF MainFrame
<1> QED
  BY <1>1, <1>2, PopStep, TopFacts

LEMMA CallBottomStep ==
    ASSUME IInv, CallBottom
    PROVE  Coherent(stack', fnet_locked')
<1> DEFINE g == Moved(Top, 2)
<1> DEFINE f == Frame("script", Top.of, 1)
<1>1. Top.run = "isr" /\ Top.of \in Vectors /\ fnet_locked = 0 /\ Held(Top) = 0
  BY TopFacts DEF CallBottom, Shape
<1>2. g \in Frames /\ g.run = "isr" /\ g.of = Top.of /\ g.at = 2 /\ g.reg = NoReg
  BY <1>1, TopFacts, FrameUpdate
<1>3. f \in Frames /\ f.run = "script" /\ f.of = Top.of /\ f.at = 1 /\ f.reg = NoReg
  BY <1>1 DEF Frame, Frames, NoReg, Vectors, Entries
<1>4. stack' = Append(Append(Front(stack), g), f) /\ fnet_locked' = fnet_locked
  BY DEF CallBottom, Goto, Below
<1> HIDE DEF g, f
<1>5. Shape(g) /\ Held(g) = 0
  BY <1>1, <1>2 DEF Shape, Held
<1>6. Coherent(Append(Front(stack), g), 0)
  <2>1. Coherent(Append(Front(stack), g), fnet_locked - Held(Last(stack)) + Held(g))
    BY <1>1, <1>2, <1>5, Replaced DEF IInv, Top
  <2> QED
    BY <2>1, <1>1, <1>5 DEF Top
<1>7. Last(Append(Front(stack), g)) = g
  <2>1. stack \in Seq(Frames) /\ Len(stack) >= 1
    BY DEF IInv, Coherent, StackInv
  <2>2. LET t == Append(Front(stack), g) IN
           t \in Seq(Frames) /\ Len(t) = Len(stack) /\ t[Len(stack)] = g
    BY <1>2, <2>1, PopPush
  <2> QED
    BY <2>1, <2>2, PopPush
<1>8. Shape(f) /\ ~MainFrame(f) /\ Held(f) = 0
  <2>1. f.of \in Running /\ f.of # "main"
    BY <1>1, <1>3 DEF Vectors, Entries, Running
  <2>2. Shape(f)
    BY <1>3, <2>1, ScriptType DEF Shape
  <2> QED
    BY <1>3, <2>1, <2>2, HeldMoves DEF MainFrame
<1>9. Calls(g, f)
  BY <1>2, <1>3 DEF Calls
<1>10. Coherent(Append(Append(Front(stack), g), f), 0 + Held(f))
  BY <1>3, <1>6, <1>7, <1>8, <1>9, Pushed
<1> QED
  BY <1>1, <1>4, <1>8, <1>10

LEMMA LoadStep ==
    ASSUME IInv, Load
    PROVE  Coherent(stack', fnet_locked')
<1> DEFINE g == [Top EXCEPT !.reg = fnet_locked]
<1>1. g \in Frames /\ g.run = Top.run /\ g.of = Top.of /\ g.at = Top.at /\ g.reg = fnet_locked
  BY TopFacts, FrameUpdate
<1>2. stack' = Append(Front(stack), g) /\ fnet_locked' = fnet_locked
  BY DEF Load, Below
<1>3. Top.run # "isr"
  BY DEF Load, AtOp
<1> HIDE DEF g
<1>4. Shape(g) /\ Held(g) = Held(Top)
  BY <1>1, TopFacts DEF Shape, Held
<1>5. Coherent(Append(Front(stack), g), fnet_locked - Held(Last(stack)) + Held(g))
  BY <1>1, <1>3, <1>4, TopFacts, Replaced DEF IInv, Top
<1> QED
  BY <1>2, <1>4, <1>5, TopFacts DEF Top

\* The steps of a script: what HeldMoves says of the operation is what the step does
\* to the counter.
LEMMA ScriptStep ==
    ASSUME IInv, NEW op, AtOp(op)
    PROVE  /\ Top.at + 1 \in Nat /\ Shape(Moved(Top, Top.at + 1))
           /\ op \in Ops
           /\ op = "lock"   => Held(Moved(Top, Top.at + 1)) = Held(Top) + 1
           /\ op = "unlock" => Held(Moved(Top, Top.at + 1)) = Held(Top) - 1
           /\ op \in {"serve", "output"} => Held(Moved(Top, Top.at + 1)) = Held(Top)
<1>1. Shape(Top) /\ Top.run = "script" /\ Top.at <= Len(Script(Top.of))
      /\ op = Script(Top.of)[Top.at]
  BY TopFacts DEF AtOp
<1>2. Top.at \in Nat
  BY <1>1 DEF Shape, Frames
<1> QED
  BY <1>1, <1>2, HeldMoves

LEMMA LockStep ==
    ASSUME IInv, Lock
    PROVE  Coherent(stack', fnet_locked')
<1>1. AtOp("lock") /\ Top.run # "isr"
  BY DEF Lock, AtOp
<1>2. Coherent(Goto(Top.at + 1), fnet_locked - Held(Top) + Held(Moved(Top, Top.at + 1)))
  BY <1>1, ScriptStep, GotoStep
<1>3. Held(Moved(Top, Top.at + 1)) = Held(Top) + 1 /\ Held(Top) \in Nat
  BY <1>1, ScriptStep, TopFacts
<1>4. fnet_locked' = fnet_locked + 1 /\ fnet_locked \in Nat /\ stack' = Goto(Top.at + 1)
  BY TopFacts DEF Lock
<1> QED
  BY <1>2, <1>3, <1>4

LEMMA ServeStep ==
    ASSUME IInv, Serve \/ Output
    PROVE  Coherent(stack', fnet_locked')
<1>1. PICK op \in {"serve", "output"} : AtOp(op)
  BY DEF Serve, Output
<1>4. Top.run # "isr" /\ stack' = Goto(Top.at + 1) /\ fnet_locked' = fnet_locked
  BY DEF Serve, Output, AtOp
<1>2. Coherent(Goto(Top.at + 1), fnet_locked - Held(Top) + Held(Moved(Top, Top.at + 1)))
  BY <1>1, <1>4, ScriptStep, GotoStep
<1>3. Held(Moved(Top, Top.at + 1)) = Held(Top)
  BY <1>1, ScriptStep
<1> QED
  BY <1>2, <1>3, <1>4, TopFacts

LEMMA FinishStep ==
    ASSUME IInv, Finish
    PROVE  Coherent(stack', fnet_locked')
<1>1. Top.run = "script" /\ Shape(Top) /\ Held(Top) = 0 /\ fnet_locked' = fnet_locked
  BY TopFacts, HeldMoves DEF Finish
<1>2. CASE Top.of = "main"
  <2> DEFINE g == Moved(Top, 1)
  <2>1. g \in Frames /\ g.run = "script" /\ g.of = "main" /\ g.at = 1
    BY <1>1, <1>2, FrameUpdate DEF Shape
  <2> HIDE DEF g
  <2>2. Shape(g) /\ Held(g) = 0
    <3>1. Shape(g)
      BY <2>1, ScriptType DEF Shape, Running
    <3> QED
      BY <2>1, <3>1, HeldMoves
  <2>3. Coherent(Goto(1), fnet_locked - Held(Top) + Held(g))
    BY <1>1, <2>2, GotoStep DEF g
  <2>4. stack' = Goto(1)
    BY <1>2 DEF Finish
  <2> QED
    BY <1>1, <2>2, <2>3, <2>4, TopFacts
<1>3. CASE Top.of # "main"
  <2>1. ~MainFrame(Top) /\ stack' = Below
    BY <1>3 DEF MainFrame, Finish
  <2> QED
    BY <1>1, <2>1, PopStep, TopFacts
<1> QED
  BY <1>2, <1>3

LEMMA LastOfGoto ==
    ASSUME IInv, NEW k \in Nat
    PROVE  Last(Goto(k)) = Moved(Top, k)
<1>1. stack \in Seq(Frames) /\ Len(stack) >= 1
  BY DEF IInv, Coherent, StackInv
<1>2. Moved(Top, k) \in Frames
  BY TopFacts, FrameUpdate
<1>3. /\ Goto(k) \in Seq(Frames) /\ Len(Goto(k)) = Len(stack)
      /\ Goto(k)[Len(stack)] = Moved(Top, k)
  BY <1>1, <1>2, PopPush DEF Goto, Below
<1> QED
  BY <1>1, <1>3, PopPush

\* fnet_isr_unlock takes the section over from its caller.
LEMMA UnlockStep ==
    ASSUME IInv, Unlock
    PROVE  Coherent(stack', fnet_locked')
<1> DEFINE g == Moved(Top, Top.at + 1)
<1> DEFINE f == Frame("unlock", "none", IF Topmost THEN 1 ELSE Len(Table) + 1)
<1>1. AtOp("unlock") /\ Top.run # "isr" /\ stack' = Append(Goto(Top.at + 1), f)
      /\ fnet_locked' = fnet_locked
  BY DEF Unlock, AtOp
<1>2. Coherent(Goto(Top.at + 1), fnet_locked - Held(Top) + Held(g))
  BY <1>1, ScriptStep, GotoStep
<1>3. Held(g) = Held(Top) - 1
  BY <1>1, ScriptStep
<1>4. f \in Frames /\ f.run = "unlock" /\ f.of = "none" /\ f.at >= 1 /\ f.reg = NoReg
  BY DEF Frame, Frames, NoReg, Table
<1> HIDE DEF f, g
<1>5. Shape(f) /\ ~MainFrame(f) /\ Held(f) = 1
  BY <1>4 DEF Shape, MainFrame, Held
<1>6. Coherent(Goto(Top.at + 1), fnet_locked - 1)
  BY <1>2, <1>3, TopFacts
<1>7. Coherent(Append(Goto(Top.at + 1), f), fnet_locked - 1 + Held(f))
  BY <1>4, <1>5, <1>6, Pushed
<1> QED
  BY <1>1, <1>5, <1>7, TopFacts

LEMMA ScanShape ==
    ASSUME IInv, Scan
    PROVE  /\ Top.at + 1 \in Nat /\ Shape(Moved(Top, Top.at + 1))
           /\ Held(Moved(Top, Top.at + 1)) = 1 /\ Held(Top) = 1
           /\ Moved(Top, Top.at + 1).run = "unlock"
<1> DEFINE g == Moved(Top, Top.at + 1)
<1>1. Top.run = "unlock" /\ Shape(Top) /\ Top \in Frames /\ Held(Top) = 1
  BY TopFacts DEF Scan
<1>2. Top.at + 1 \in Nat /\ Top.at + 1 >= 1
  BY <1>1 DEF Frames
<1>3. g \in Frames /\ g.run = "unlock" /\ g.of = Top.of /\ g.at = Top.at + 1
  BY <1>1, <1>2, FrameUpdate
<1> HIDE DEF g
<1>4. Shape(g) /\ Held(g) = 1
  BY <1>1, <1>2, <1>3 DEF Shape, Held
<1> QED
  BY <1>1, <1>2, <1>3, <1>4 DEF g

LEMMA SkipEntryStep ==
    ASSUME IInv, SkipEntry
    PROVE  Coherent(stack', fnet_locked')
<1>1. Scan /\ Top.run # "isr" /\ stack' = Goto(Top.at + 1) /\ fnet_locked' = fnet_locked
  BY DEF SkipEntry, Scan
<1>2. Coherent(Goto(Top.at + 1), fnet_locked - Held(Top) + Held(Moved(Top, Top.at + 1)))
  BY <1>1, ScanShape, GotoStep
<1> QED
  BY <1>1, <1>2, ScanShape, TopFacts

LEMMA TableEntries == \A i \in 1 .. Len(Table) : Table[i] \in Entries
BY DEF Table, Entries

LEMMA ScanEntry ==
    ASSUME IInv, Scan
    PROVE  Table[Top.at] \in Entries
<1>1. Top.at \in Nat /\ Top.at >= 1
  BY TopFacts DEF Frames, Shape
<1> QED
  BY <1>1, TableEntries DEF Scan

LEMMA RunPendedStep ==
    ASSUME IInv, RunPended
    PROVE  Coherent(stack', fnet_locked')
<1> DEFINE g == Moved(Top, Top.at + 1)
<1> DEFINE e == Table[Top.at]
<1> DEFINE f == Frame("script", e, 1)
<1>1. Scan /\ Top.run # "isr" /\ stack' = Append(Goto(Top.at + 1), f)
      /\ fnet_locked' = fnet_locked
  BY DEF RunPended, Scan
<1>2. Coherent(Goto(Top.at + 1), fnet_locked)
  <2>1. Coherent(Goto(Top.at + 1), fnet_locked - Held(Top) + Held(g))
    BY <1>1, ScanShape, GotoStep
  <2> QED
    BY <1>1, <2>1, ScanShape, TopFacts
<1>3. e \in Entries
  BY <1>1, ScanEntry
<1> HIDE DEF e
<1>4. f \in Frames /\ f.run = "script" /\ f.of = e /\ f.at = 1 /\ f.reg = NoReg
  BY <1>3 DEF Frame, Frames, NoReg
<1>5. Last(Goto(Top.at + 1)) = g /\ g.run = "unlock"
  BY <1>1, ScanShape, LastOfGoto
<1> HIDE DEF f, g
<1>6. Shape(f) /\ ~MainFrame(f) /\ Held(f) = 0
  <2>1. f.of \in Running /\ f.of # "main"
    BY <1>3, <1>4 DEF Entries, Running
  <2>2. Shape(f)
    BY <1>4, <2>1, ScriptType DEF Shape
  <2> QED
    BY <1>4, <2>1, <2>2, HeldMoves DEF MainFrame
<1>7. Calls(g, f)
  BY <1>5 DEF Calls
<1>8. Coherent(Append(Goto(Top.at + 1), f), fnet_locked + Held(f))
  BY <1>2, <1>4, <1>5, <1>6, <1>7, Pushed
<1> QED
  BY <1>1, <1>6, <1>8, TopFacts

LEMMA ReleaseStep ==
    ASSUME IInv, Release
    PROVE  Coherent(stack', fnet_locked')
<1>1. Top.run = "unlock" /\ Held(Top) = 1 /\ Top.reg = fnet_locked
      /\ fnet_locked' = Top.reg - 1 /\ stack' = Below
  BY TopFacts DEF Release, Decrement
<1>2. ~MainFrame(Top)
  BY <1>1 DEF MainFrame
<1> QED
  BY <1>1, <1>2, PopStep

LEMMA Initially == Init => IInv
<1> SUFFICES ASSUME Init PROVE IInv
  OBVIOUS
<1> DEFINE f == Frame("script", "main", 1)
<1>1. f \in Frames /\ f.run = "script" /\ f.of = "main" /\ f.at = 1 /\ f.reg = NoReg
  BY DEF Frame, Frames, NoReg
<1>2. stack = <<f>> /\ fnet_locked = 0
  BY DEF Init
<1> HIDE DEF f
<1>3. stack \in Seq(Frames) /\ Len(stack) = 1 /\ stack[1] = f
  BY <1>1, <1>2
<1>4. Shape(f) /\ MainFrame(f)
  BY <1>1, ScriptType DEF Shape, MainFrame, Running
<1>5. Held(f) = 0
  BY <1>1, <1>4, HeldMoves
<1>6. StackInv(stack)
  BY <1>3, <1>4 DEF StackInv
<1>7. Level(stack, 1) = 0
  <2>1. Level(stack, 0) = 0
    BY LevelStart
  <2>2. Level(stack, Len(stack)) = Level(stack, Len(stack) - 1) + Held(stack[Len(stack)])
    BY <1>6, TopLevel
  <2> QED
    BY <2>1, <2>2, <1>3, <1>5
<1>8. CallInv(stack) /\ PriorityInv(stack) /\ QuietInv(stack) /\ LevelInv(stack, fnet_locked)
  BY <1>1, <1>2, <1>3, <1>7 DEF CallInv, PriorityInv, QuietInv, LevelInv
<1>9. pended \in [Entries -> BOOLEAN] /\ work \in [Entries -> BOOLEAN]
  BY DEF Init
<1> QED
  BY <1>6, <1>8, <1>9 DEF IInv, Coherent

LEMMA FlagsType ==
    ASSUME IInv, [Next]_vars
    PROVE  pended' \in [Entries -> BOOLEAN] /\ work' \in [Entries -> BOOLEAN]
<1> USE DEF IInv
<1>1. ASSUME NEW v \in Vectors, Interrupt(v)
      PROVE  pended' \in [Entries -> BOOLEAN] /\ work' \in [Entries -> BOOLEAN]
  BY <1>1 DEF Interrupt
<1>2. CASE Pend \/ CallBottom
  BY <1>2 DEF Pend, CallBottom
<1>3. CASE IsrReturn \/ Load \/ Unlock \/ SkipEntry \/ Lock \/ Output \/ Release
  BY <1>3 DEF IsrReturn, Load, Unlock, SkipEntry, Lock, Output, Release
<1>4. CASE RunPended
  BY <1>4 DEF RunPended
<1>5. CASE Serve
  BY <1>5 DEF Serve
<1>6. CASE Finish
  BY <1>6 DEF Finish, AfterBottom
<1>7. CASE UNCHANGED vars
  BY <1>7 DEF vars
<1> QED
  BY <1>1, <1>2, <1>3, <1>4, <1>5, <1>6, <1>7 DEF Next, Step

LEMMA Inductive == IInv /\ [Next]_vars => IInv'
<1> SUFFICES ASSUME IInv, [Next]_vars PROVE IInv'
  OBVIOUS
<1>1. pended' \in [Entries -> BOOLEAN] /\ work' \in [Entries -> BOOLEAN]
  BY FlagsType
<1>2. Coherent(stack', fnet_locked')
  <2>1. CASE Step
    BY <2>1, HandlerStep, CallBottomStep, LoadStep, LockStep, ServeStep, FinishStep,
       UnlockStep, SkipEntryStep, RunPendedStep, ReleaseStep DEF Step
  <2>2. CASE \E v \in Vectors : Interrupt(v)
    BY <2>2, InterruptStep
  <2>3. CASE UNCHANGED vars
    BY <2>3 DEF vars, IInv
  <2> QED
    BY <2>1, <2>2, <2>3 DEF Next
<1> QED
  BY <1>1, <1>2 DEF IInv

LEMMA Invariance == Spec => []IInv
BY Initially, Inductive, PTL DEF Spec
-----------------------------------------------------------------------------
\* The counter is the number of open sections at any depth of nesting, wherever the
\* interrupts strike between the load and the store of fnet_locked.
THEOREM BalancedAlways == Spec => []Balanced
<1>1. IInv => Balanced
  BY TopFacts DEF IInv, Coherent, StackInv, LevelInv, Level, Balanced, TypeOK
<1> QED
  BY <1>1, Invariance, PTL

\* A bottom half that an interrupt runs has interrupted no critical section of main and
\* no bottom half at its work, whatever main's nesting. (It may interrupt main's output,
\* which is in no section: OutputIsNotReentered is false of the code.)
THEOREM ExclusionAlways == Spec => []Exclusion
<1>1. ASSUME IInv PROVE Exclusion
  <2> SUFFICES ASSUME NEW i \in DOMAIN stack, NEW j \in DOMAIN stack, i < j,
                      stack[j].run = "isr", stack[j].at = 2, InSection(stack[i])
               PROVE  FALSE
    BY DEF Exclusion
  <2>1. /\ StackInv(stack) /\ CallInv(stack) /\ PriorityInv(stack) /\ QuietInv(stack)
        /\ DOMAIN stack = 1 .. Len(stack) /\ Len(stack) \in Nat
    BY <1>1, LenProperties DEF IInv, Coherent, StackInv
  <2>2. \A k \in 1 .. j - 1 : Held(stack[k]) = 0
    BY <2>1 DEF QuietInv
  <2>3. stack[i].run = "script" /\ stack[i].of \in {"timer", "arp"}
    BY <2>1, <2>2 DEF InSection
  <2>4. i \in 2 .. Len(stack)
    BY <2>1, <2>3 DEF StackInv, MainFrame
  <2>5. Calls(stack[i - 1], stack[i])
    BY <2>1, <2>3, <2>4 DEF CallInv
  <2>6. stack[i - 1].run # "unlock"
    <3>1. i - 1 \in 1 .. j - 1
      BY <2>1, <2>4
    <3> QED
      BY <2>2, <3>1 DEF Held
  <2>7. stack[i - 1].run = "isr" /\ stack[i - 1].of = stack[i].of /\ i - 1 \in 1 .. Len(stack)
    BY <2>1, <2>4, <2>5, <2>6 DEF Calls
  <2>8. NvicLevel(stack[j].of) < NvicLevel(stack[i].of)
    BY <2>1, <2>7 DEF PriorityInv
  <2>9. stack[i].of \in Vectors /\ stack[j].of \in Vectors
    BY <2>1, <2>7 DEF StackInv, Shape
  <2> QED
    BY <2>3, <2>8, <2>9 DEF Vectors, NvicLevel, Configured
<1> QED
  BY <1>1, Invariance, PTL
-----------------------------------------------------------------------------
\* A routine that is about to run, or runs, the bottom half of its entry.
Serves(f) ==
    \/ f.run = "isr" /\ f.at = 1
    \/ /\ f.run = "script"
       /\ \E k \in f.at .. Len(Script(f.of)) : Script(f.of)[k] = "serve"

Served(f) == IF Serves(f) THEN {f.of} ELSE {}

\* The entries whose bottom half a routine of s has yet to run.
Holders(s) == {s[i].of : i \in {j \in DOMAIN s : Serves(s[j])}}

Remembered(w, p, s) == \A e \in Entries : w[e] => p[e] \/ e \in Holders(s)

LEMMA HoldersPop ==
    ASSUME NEW s \in Seq(Frames), Len(s) >= 1
    PROVE  Holders(s) \subseteq Holders(Front(s)) \cup Served(Last(s))
<1>1. DOMAIN s = 1 .. Len(s) /\ DOMAIN Front(s) = 1 .. Len(s) - 1
  BY PopPush, LenProperties
<1>2. /\ Last(s) = s[Len(s)] /\ Len(s) \in Nat
      /\ \A i \in 1 .. Len(s) - 1 : Front(s)[i] = s[i]
  BY PopPush
<1>3. ASSUME NEW i \in DOMAIN s, Serves(s[i])
      PROVE  s[i].of \in Holders(Front(s)) \cup Served(Last(s))
  <2>1. CASE i = Len(s)
    BY <2>1, <1>2, <1>3 DEF Served
  <2>2. CASE i # Len(s)
    <3>1. i \in DOMAIN Front(s) /\ Front(s)[i] = s[i]
      BY <2>2, <1>1, <1>2
    <3> QED
      BY <3>1, <1>3 DEF Holders
  <2> QED
    BY <2>1, <2>2
<1> QED
  BY <1>3 DEF Holders

LEMMA HoldersPush ==
    ASSUME NEW s \in Seq(Frames), NEW f \in Frames
    PROVE  Holders(s) \cup Served(f) \subseteq Holders(Append(s, f))
<1> DEFINE t == Append(s, f)
<1>1. /\ DOMAIN s = 1 .. Len(s) /\ DOMAIN t = 1 .. Len(s) + 1 /\ Len(s) \in Nat
      /\ t[Len(s) + 1] = f /\ \A i \in 1 .. Len(s) : t[i] = s[i]
  BY AppendProperties, LenProperties
<1> HIDE DEF t
<1>2. Served(f) \subseteq Holders(t)
  BY <1>1 DEF Served, Holders
<1>3. ASSUME NEW i \in DOMAIN s, Serves(s[i]) PROVE s[i].of \in Holders(t)
  <2>1. i \in DOMAIN t /\ t[i] = s[i]
    BY <1>1
  <2> QED
    BY <2>1, <1>3 DEF Holders
<1>4. Holders(s) \subseteq Holders(t)
  BY <1>3 DEF Holders
<1> QED
  BY <1>2, <1>4 DEF t

LEMMA ServesAtStart ==
    ASSUME NEW e \in Entries
    PROVE  Serves(Frame("script", e, 1)) /\ Frame("script", e, 1).of = e
<1>1. \E k \in 1 .. Len(Script(e)) : Script(e)[k] = "serve"
  <2>1. \A s \in {EthBottom, IpBottom, ArpBottom, TimerBottom} :
            \E k \in 1 .. Len(s) : s[k] = "serve"
    <3>1. /\ Len(EthBottom) = 3 /\ EthBottom[2] = "serve"
          /\ Len(IpBottom) = 4 /\ IpBottom[2] = "serve"
          /\ Len(ArpBottom) = 2 /\ ArpBottom[1] = "serve"
          /\ Len(TimerBottom) = 4 /\ TimerBottom[4] = "serve"
      BY DEF EthBottom, IpBottom, ArpBottom, TimerBottom
    <3>2. 1 \in 1 .. 2 /\ 2 \in 1 .. 3 /\ 2 \in 1 .. 4 /\ 4 \in 1 .. 4
      OBVIOUS
    <3> QED
      BY <3>1, <3>2
  <2>2. Script(e) \in {EthBottom, IpBottom, ArpBottom, TimerBottom}
    BY DEF Script, Entries
  <2> QED
    BY <2>1, <2>2
<1> QED
  BY <1>1 DEF Serves, Frame

\* What a move of the routine that runs keeps: past an operation other than "serve"
\* it has the same to do.
LEMMA HoldersGoto ==
    ASSUME IInv, NEW k \in Nat
    PROVE  /\ Goto(k) \in Seq(Frames) /\ Below \in Seq(Frames)
           /\ Holders(stack) \subseteq Holders(Goto(k)) \cup Served(Top)
           /\ Served(Moved(Top, k)) \subseteq Holders(Goto(k))
           /\ Holders(stack) \subseteq Holders(Below) \cup Served(Top)
<1>1. stack \in Seq(Frames) /\ Len(stack) >= 1
  BY DEF IInv, Coherent, StackInv
<1>2. Moved(Top, k) \in Frames
  BY TopFacts, FrameUpdate
<1>3. Below \in Seq(Frames) /\ Goto(k) \in Seq(Frames)
  BY <1>1, <1>2, PopPush DEF Below, Goto
<1>4. Holders(stack) \subseteq Holders(Below) \cup Served(Top)
  BY <1>1, HoldersPop DEF Below, Top
<1>5. Holders(Below) \cup Served(Moved(Top, k)) \subseteq Holders(Goto(k))
  BY <1>2, <1>3, HoldersPush DEF Goto
<1> QED
  BY <1>3, <1>4, <1>5

LEMMA ServesOn ==
    ASSUME IInv, NEW op, AtOp(op), op # "serve"
    PROVE  Served(Top) \subseteq Served(Moved(Top, Top.at + 1))
<1> DEFINE g == Moved(Top, Top.at + 1)
<1>1. Top.run = "script" /\ Script(Top.of)[Top.at] = op /\ Top.at \in Nat
      /\ Top.at + 1 \in Nat /\ Len(Script(Top.of)) \in Nat
  BY TopFacts, ScriptType DEF AtOp, Frames, Shape
<1>2. g.run = Top.run /\ g.of = Top.of /\ g.at = Top.at + 1
  BY <1>1, TopFacts, FrameUpdate
<1> HIDE DEF g
<1>3. ASSUME Serves(Top) PROVE Serves(g)
  <2>1. PICK k \in Top.at .. Len(Script(Top.of)) : Script(Top.of)[k] = "serve"
    BY <1>1, <1>3 DEF Serves
  <2>2. k # Top.at
    BY <1>1, <2>1
  <2>3. k \in g.at .. Len(Script(g.of))
    BY <1>1, <1>2, <2>1, <2>2
  <2> QED
    BY <1>1, <1>2, <2>1, <2>3 DEF Serves
<1> QED
  BY <1>2, <1>3 DEF Served, g

LEMMA RememberedStep ==
    ASSUME IInv, Remembered(work, pended, stack), [Next]_vars
    PROVE  Remembered(work', pended', stack')
<1> USE DEF Remembered
<1>1. stack \in Seq(Frames) /\ Len(stack) >= 1 /\ Shape(Top) /\ Top \in Frames
      /\ pended \in [Entries -> BOOLEAN] /\ work \in [Entries -> BOOLEAN]
  BY TopFacts DEF IInv, Coherent, StackInv
<1>2. ASSUME NEW v \in Vectors, Interrupt(v)
      PROVE  Remembered(work', pended', stack')
  <2> DEFINE f == Frame("isr", v, 1)
  <2>1. f \in Frames /\ Serves(f) /\ f.of = v
    BY DEF Frame, Frames, NoReg, Vectors, Entries, Serves
  <2>2. stack' = Append(stack, f) /\ work' = [work EXCEPT ![v] = TRUE] /\ pended' = pended
    BY <1>2 DEF Interrupt, Push
  <2> HIDE DEF f
  <2>3. Holders(stack) \cup {v} \subseteq Holders(stack')
    BY <1>1, <2>1, <2>2, HoldersPush DEF Served
  <2> QED
    BY <1>1, <2>2, <2>3
<1>3. CASE Pend
  <2>1. Top.of \in Entries /\ stack' = Below /\ pended' = [pended EXCEPT ![Top.of] = TRUE]
        /\ work' = work
    BY <1>1, <1>3 DEF Pend, Shape, Vectors, Entries
  <2>2. Holders(stack) \subseteq Holders(stack') \cup {Top.of}
    BY <1>1, <2>1, HoldersGoto DEF Served
  <2> QED
    BY <1>1, <2>1, <2>2
<1>4. CASE CallBottom
  <2> DEFINE f == Frame("script", Top.of, 1)
  <2>1. Top.of \in Entries /\ stack' = Append(Goto(2), f)
        /\ pended' = [pended EXCEPT ![Top.of] = FALSE] /\ work' = work
    BY <1>1, <1>4 DEF CallBottom, Shape, Vectors, Entries
  <2>2. f \in Frames /\ Serves(f) /\ f.of = Top.of
    BY <2>1, ServesAtStart DEF Frame, Frames, NoReg
  <2> HIDE DEF f
  <2>3. Holders(stack) \subseteq Holders(Goto(2)) \cup {Top.of}
    BY HoldersGoto DEF Served
  <2>4. Holders(Goto(2)) \cup {Top.of} \subseteq Holders(stack')
    BY <2>1, <2>2, HoldersGoto, HoldersPush DEF Served
  <2>5. \A e \in Entries : pended'[e] \/ ~pended[e] \/ e = Top.of
    BY <1>1, <2>1
  <2> QED
    BY <2>1, <2>3, <2>4, <2>5
<1>5. CASE IsrReturn \/ Release
  <2>1. stack' = Below /\ UNCHANGED <<pended, work>> /\ ~Serves(Top)
    BY <1>5 DEF IsrReturn, Release, Serves
  <2>2. Holders(stack) \subseteq Holders(stack')
    BY <1>1, <2>1, HoldersGoto DEF Served
  <2> QED
    BY <2>1, <2>2
<1>6. CASE Load
  <2> DEFINE g == [Top EXCEPT !.reg = fnet_locked]
  <2>1. g \in Frames /\ g.run = Top.run /\ g.of = Top.of /\ g.at = Top.at
    BY TopFacts, FrameUpdate
  <2>2. stack' = Append(Below, g) /\ UNCHANGED <<pended, work>>
    BY <1>6 DEF Load
  <2> HIDE DEF g
  <2>3. Served(g) = Served(Top)
    BY <2>1 DEF Served, Serves
  <2>4. Holders(stack) \subseteq Holders(Below) \cup Served(Top) /\ Below \in Seq(Frames)
    BY <1>1, HoldersGoto
  <2>5. Holders(stack) \subseteq Holders(stack')
    BY <2>1, <2>2, <2>3, <2>4, HoldersPush
  <2> QED
    BY <2>2, <2>5
<1>7. CASE Lock \/ Output
  <2>1. /\ AtOp("lock") \/ AtOp("output")
        /\ stack' = Goto(Top.at + 1) /\ UNCHANGED <<pended, work>>
    BY <1>7 DEF Lock, Output
  <2>2. Holders(stack) \subseteq Holders(stack')
    BY <2>1, ScriptStep, ServesOn, HoldersGoto
  <2> QED
    BY <2>1, <2>2
<1>8. CASE Serve
  <2>1. AtOp("serve") /\ stack' = Goto(Top.at + 1)
    BY <1>8 DEF Serve
  <2>2. PICK R \in SUBSET Raises(Top.of) :
           /\ pended' = [e \in Entries |-> e \in R \/ pended[e]]
           /\ work' = [e \in Entries |-> e \in R \/ (e # Top.of /\ work[e])]
    BY <1>8 DEF Serve
  <2>3. Holders(stack) \subseteq Holders(stack') \cup {Top.of}
    BY <2>1, ScriptStep, HoldersGoto DEF Served
  <2> QED
    BY <1>1, <2>2, <2>3
<1>9. CASE Finish
  <2>1. UNCHANGED <<pended, work>> /\ (stack' = Below \/ stack' = Goto(1))
    BY <1>9 DEF Finish, AfterBottom
  <2>2. ~Serves(Top)
    BY <1>1, <1>9, ScriptType DEF Finish, Serves, Shape, Frames
  <2>3. Holders(stack) \subseteq Holders(Below) /\ Holders(stack) \subseteq Holders(Goto(1))
    BY <2>2, HoldersGoto DEF Served
  <2> QED
    BY <2>1, <2>3
<1>10. CASE Unlock
  <2> DEFINE f == Frame("unlock", "none", IF Topmost THEN 1 ELSE Len(Table) + 1)
  <2>1. AtOp("unlock") /\ stack' = Append(Goto(Top.at + 1), f) /\ UNCHANGED <<pended, work>>
    BY <1>10 DEF Unlock
  <2>2. f \in Frames
    BY DEF Frame, Frames, NoReg, Table
  <2> HIDE DEF f
  <2>3. Holders(stack) \subseteq Holders(Goto(Top.at + 1)) /\ Goto(Top.at + 1) \in Seq(Frames)
    BY <2>1, ScriptStep, ServesOn, HoldersGoto
  <2>4. Holders(stack) \subseteq Holders(stack')
    BY <2>1, <2>2, <2>3, HoldersPush
  <2> QED
    BY <2>1, <2>4
<1>11. CASE SkipEntry
  <2>1. stack' = Goto(Top.at + 1) /\ UNCHANGED <<pended, work>> /\ Scan
    BY <1>11 DEF SkipEntry
  <2>2. ~Serves(Top) /\ Top.at + 1 \in Nat
    BY <2>1, ScanShape DEF Scan, Serves
  <2>3. Holders(stack) \subseteq Holders(stack')
    BY <2>1, <2>2, HoldersGoto DEF Served
  <2> QED
    BY <2>1, <2>3
<1>12. CASE RunPended
  <2> DEFINE x == Table[Top.at]
  <2> DEFINE f == Frame("script", x, 1)
  <2>1. /\ Scan /\ stack' = Append(Goto(Top.at + 1), f) /\ work' = work
        /\ pended' = [pended EXCEPT ![x] = FALSE]
    BY <1>12 DEF RunPended
  <2>2. x \in Entries
    BY <2>1, ScanEntry
  <2> HIDE DEF x
  <2>3. f \in Frames /\ Serves(f) /\ f.of = x
    BY <2>2, ServesAtStart DEF Frame, Frames, NoReg
  <2> HIDE DEF f
  <2>4. ~Serves(Top) /\ Top.at + 1 \in Nat
    BY <2>1, ScanShape DEF Scan, Serves
  <2>5. Holders(stack) \subseteq Holders(Goto(Top.at + 1)) /\ Goto(Top.at + 1) \in Seq(Frames)
    BY <2>4, HoldersGoto DEF Served
  <2>6. Holders(stack) \cup {x} \subseteq Holders(stack')
    BY <2>1, <2>3, <2>5, HoldersPush DEF Served
  <2>7. \A e \in Entries : pended'[e] \/ ~pended[e] \/ e = x
    BY <1>1, <2>1
  <2> QED
    BY <2>1, <2>6, <2>7
<1>13. CASE UNCHANGED vars
  BY <1>13 DEF vars
<1> QED
  BY <1>2, <1>3, <1>4, <1>5, <1>6, <1>7, <1>8, <1>9, <1>10, <1>11, <1>12, <1>13
     DEF Next, Step

\* No work is forgotten between an unlock and an interrupt.
THEOREM WorkIsRememberedAlways == Spec => []WorkIsRemembered
<1>1. Init => Remembered(work, pended, stack)
  BY DEF Init, Remembered
<1>2. IInv /\ Remembered(work, pended, stack) /\ [Next]_vars
          => Remembered(work, pended, stack)'
  BY RememberedStep DEF Remembered
<1>3. Remembered(work, pended, stack) => WorkIsRemembered
  BY DEF Remembered, Holders, Serves, WorkIsRemembered
<1> QED
  BY <1>1, <1>2, <1>3, Invariance, PTL DEF Spec
=============================================================================
