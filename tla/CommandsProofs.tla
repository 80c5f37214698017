--------------------------- MODULE CommandsProofs --------------------------
(***************************************************************************)
(* Proofs about Commands, for any lines, any longer words, any width of    *)
(* the tokens and any size of the buffer: whatever arrives, in whatever    *)
(* pieces, the board does what its lines mean, answers each with its own   *)
(* reply, and keeps its table sound.                                       *)
(***************************************************************************)
EXTENDS Commands, Loops, SequenceTheorems

-----------------------------------------------------------------------------
(* The recursive functions of the model *)

Words == Tokens \cup {EOL}
Texts == Seq(Words)

(* The widths of a sequence of tokens add up to a number. *)
LEMMA WidthsAreNumbers ==
    ASSUME NEW s \in Seq(Tokens)
    PROVE  /\ Widths(s) \in [0 .. Len(s) -> Nat] /\ Widths(s)[0] = 0
           /\ strlen(s) \in Nat
<1> DEFINE n == Len(s)
           W == Widths(s)
           Def(f) == f = [k \in 0 .. n |-> IF k = 0 THEN 0 ELSE f[k - 1] + Width[s[k]]]
           g == [k \in 1 .. n |-> [x \in Nat |-> x + Width[s[k]]]]
           S == {k \in Nat : W[k] \in Nat}
<1>1. n \in Nat /\ \A k \in 1 .. n : Width[s[k]] \in Nat
    <2>1. Width \in [Tokens -> Nat]
        BY CommandsAssumption
    <2> QED BY <2>1
<1>2. g \in [1 .. n -> [Nat -> Nat]]
    BY <1>1
<1>3. PICK f \in [0 .. n -> Nat] : Follows(f, 0, g, n)
    <2> HIDE DEF g, n
    <2> QED BY <1>1, <1>2, Recursion
<1>4. Def(f)
    <2>1. ASSUME NEW k \in 1 .. n PROVE f[k] = f[k - 1] + Width[s[k]]
        <3>1. k - 1 \in 0 .. n
            BY <1>1
        <3> QED BY <1>1, <1>3, <3>1 DEF Follows
    <2>2. \A k \in 0 .. n : f[k] = IF k = 0 THEN 0 ELSE f[k - 1] + Width[s[k]]
        BY <1>1, <1>3, <2>1 DEF Follows
    <2>3. f = [k \in 0 .. n |-> f[k]]
        OBVIOUS
    <2> QED BY <2>2, <2>3
<1>5. Def(W)
    <2>1. W = CHOOSE h : Def(h)
        BY DEF Widths
    <2> HIDE DEF Def, W
    <2> QED BY <1>4, <2>1
<1> HIDE DEF W
<1>6. 0 \in S /\ \A k \in 0 .. n - 1 : k \in S => k + 1 \in S
    BY <1>1, <1>5
<1>7. \A k \in 0 .. n : k \in S
    <2> HIDE DEF S, n
    <2> QED BY <1>1, <1>6, InductionUpto
<1>8. W[0] = 0 /\ W = [k \in 0 .. n |-> W[k]]
    BY <1>1, <1>5
<1>9. W \in [0 .. n -> Nat] /\ W[0] = 0 /\ W[n] \in Nat
    <2>1. \A k \in 0 .. n : W[k] \in Nat
        BY <1>7
    <2> HIDE DEF n
    <2> QED BY <1>1, <1>8, <2>1
<1> QED BY <1>9 DEF W, strlen

(* What a word begins with, up to the first token that is no digit: digits. *)
LEMMA LeadingDigits ==
    ASSUME NEW v \in Seq(Words)
    PROVE  Len(Leading(v)) \in Nat /\ \A k \in 1 .. Len(Leading(v)) : Leading(v)[k] \in Digits
<1> DEFINE ends == {k \in 1 .. Len(v) : v[k] \notin Digits} \cup {Len(v) + 1}
<1>1. ends \subseteq Nat /\ ends # {} /\ Len(v) + 1 \in ends
    OBVIOUS
<1>2. PICK m \in ends : \A k \in ends : m <= k
    <2> HIDE DEF ends
    <2> QED BY <1>1, Smallest
<1>3. Min(ends) \in ends /\ \A k \in ends : Min(ends) <= k
    <2> HIDE DEF ends
    <2> QED BY <1>2 DEF Min
<1> DEFINE m0 == Min(ends)
<1>4. m0 \in 1 .. Len(v) + 1 /\ \A k \in 1 .. m0 - 1 : v[k] \in Digits
    <2> HIDE DEF m0
    <2>1. m0 \in ends /\ \A k \in ends : m0 <= k
        BY <1>3 DEF m0
    <2>2. m0 \in 1 .. Len(v) + 1
        BY <2>1
    <2>3. ASSUME NEW k \in 1 .. m0 - 1 PROVE v[k] \in Digits
        <3>1. k \in 1 .. Len(v) /\ ~(m0 <= k)
            BY <2>2
        <3> QED BY <2>1, <3>1
    <2> QED BY <2>2, <2>3
<1>5. Leading(v) = SubSeq(v, 1, m0 - 1)
    BY DEF Leading
<1> HIDE DEF m0, ends
<1>6. Len(Leading(v)) = m0 - 1 /\ \A k \in 1 .. m0 - 1 : Leading(v)[k] = v[k]
    BY <1>4, <1>5 DEF m0
<1> QED BY <1>4, <1>6 DEF m0

(* What strtol() makes of a word is a number. *)
LEMMA NumbersAreNumbers ==
    ASSUME NEW v \in Seq(Words)
    PROVE  Natural(v) \in Nat
<1> DEFINE ds == Figures(v)
           n == Len(ds)
           W == Upto(ds, Base(v))
           Def(f) == f = [k \in 0 .. n |-> IF k = 0 THEN 0 ELSE Base(v) * f[k - 1] + DigitOf[ds[k]]]
           g == [k \in 1 .. n |-> [x \in Nat |-> Base(v) * x + DigitOf[ds[k]]]]
           S == {k \in Nat : W[k] \in Nat}
<1>1. n \in Nat /\ \A k \in 1 .. n : ds[k] \in Digits
    <2> DEFINE u == SubSeq(v, 3, Len(v))
    <2>1. Len(v) \in Int /\ \A k \in 3 .. Len(v) : v[k] \in Words
        BY LenProperties, ElementOfSeq
    <2>2. u \in Seq(Words)
        BY <2>1, SubSeqProperties
    <2> HIDE DEF u
    <2>3. \A x \in Seq(Words) : Len(Leading(x)) \in Nat /\ \A k \in 1 .. Len(Leading(x)) : Leading(x)[k] \in Digits
        BY LeadingDigits
    <2>4. ds = Leading(u) \/ ds = Leading(v)
        BY DEF Figures, u
    <2> QED BY <2>2, <2>3, <2>4
<1>2. Base(v) \in {8, 10, 16} /\ \A k \in 1 .. n : DigitOf[ds[k]] \in Nat
    <2>1. Base(v) \in {8, 10, 16}
        BY DEF Base
    <2>2. \A d \in Digits : DigitOf[d] \in Nat
        BY DEF DigitOf, Digits
    <2> HIDE DEF ds
    <2> QED BY <1>1, <2>1, <2>2
<1> HIDE DEF ds
<1>3. ASSUME NEW x \in Nat, NEW k \in 1 .. n PROVE Base(v) * x + DigitOf[ds[k]] \in Nat
    <2>1. Base(v) * x = 8 * x \/ Base(v) * x = 10 * x \/ Base(v) * x = 16 * x
        BY <1>2
    <2> QED BY <1>2, <2>1
<1>10. g \in [1 .. n -> [Nat -> Nat]]
    BY <1>1, <1>3
<1>4. PICK f \in [0 .. n -> Nat] : Follows(f, 0, g, n)
    <2> HIDE DEF g, n
    <2> QED BY <1>1, <1>10, Recursion
<1>5. Def(f)
    <2>1. ASSUME NEW k \in 1 .. n PROVE f[k] = Base(v) * f[k - 1] + DigitOf[ds[k]]
        <3>1. k - 1 \in 0 .. n
            BY <1>1
        <3> QED BY <1>1, <1>4, <3>1 DEF Follows
    <2>2. ASSUME NEW k \in 0 .. n PROVE f[k] = IF k = 0 THEN 0 ELSE Base(v) * f[k - 1] + DigitOf[ds[k]]
        <3>1. CASE k = 0
            BY <1>4, <3>1 DEF Follows
        <3>2. CASE k # 0
            <4>1. k \in 1 .. n
                BY <1>1, <3>2
            <4> QED BY <2>1, <3>2, <4>1
        <3> QED BY <3>1, <3>2
    <2>3. f = [k \in 0 .. n |-> f[k]]
        OBVIOUS
    <2> QED BY <2>2, <2>3
<1>6. Def(W)
    <2>1. W = CHOOSE h : Def(h)
        BY DEF Upto
    <2> HIDE DEF Def, W
    <2> QED BY <1>5, <2>1
<1> HIDE DEF W
<1>7. 0 \in S /\ \A k \in 0 .. n - 1 : k \in S => k + 1 \in S
    <2>1. W[0] = 0 /\ \A k \in 1 .. n : W[k] = Base(v) * W[k - 1] + DigitOf[ds[k]]
        <3> HIDE DEF n
        <3> QED BY <1>1, <1>6
    <2>2. ASSUME NEW k \in 0 .. n - 1, W[k] \in Nat PROVE W[k + 1] \in Nat
        <3>1. k + 1 \in 1 .. n /\ (k + 1) - 1 = k
            BY <1>1
        <3>2. W[k + 1] = Base(v) * W[k] + DigitOf[ds[k + 1]]
            BY <2>1, <3>1
        <3> QED BY <1>3, <2>2, <3>1, <3>2
    <2> QED BY <1>1, <2>1, <2>2
<1>8. \A k \in 0 .. n : k \in S
    <2> HIDE DEF S, n
    <2> QED BY <1>1, <1>7, InductionUpto
<1>9. W[n] \in Nat
    BY <1>1, <1>8
<1> QED BY <1>9 DEF W, Natural, ds


(* A token leaves lines lines; it begins one unless it is an end of line.  *)
LEMMA TokenMakesLines ==
    ASSUME NEW x \in Seq(Texts), NEW last, NEW t \in Words
    PROVE  /\ Token(x, last, t) \in Seq(Texts)
           /\ (x = <<>> => last = EOL) /\ t # EOL => Token(x, last, t) # <<>>
<1>1. CASE t = EOL
    BY <1>1 DEF Token
<1>2. CASE t # EOL /\ last = EOL
    <2>1. <<t>> \in Texts
        BY DEF Texts
    <2>2. Append(x, <<t>>) \in Seq(Texts) /\ Append(x, <<t>>) # <<>>
        BY <2>1, AppendProperties
    <2> QED BY <1>2, <2>2 DEF Token
<1>3. CASE t # EOL /\ last # EOL
    <2> DEFINE n == Len(x)
               y == [x EXCEPT ![n] = Append(@, t)]
    <2>1. Token(x, last, t) = y
        BY <1>3 DEF Token
    <2>2. CASE x = <<>>
        <3>1. y = x
            BY <2>2
        <3> QED BY <1>3, <2>1, <2>2, <3>1
    <2>3. CASE x # <<>>
        <3>1. n \in 1 .. n /\ x[n] \in Texts
            BY <2>3, EmptySeq, ElementOfSeq
        <3>2. Append(x[n], t) \in Texts
            BY <3>1 DEF Texts
        <3> DEFINE v == Append(x[n], t)
        <3>3. y = [x EXCEPT ![n] = v]
            OBVIOUS
        <3> HIDE DEF v, y
        <3>4. y \in Seq(Texts) /\ Len(y) = n
            BY <3>1, <3>2, <3>3, ExceptSeq DEF v
        <3>5. y # <<>>
            BY <3>1, <3>4
        <3> QED BY <2>1, <3>4, <3>5
    <2> QED BY <2>2, <2>3
<1> QED BY <1>1, <1>2, <1>3

(* What a piece of the stream is cut into, after each of its tokens *)
LEMMA ScanDef ==
    ASSUME NEW s \in Seq(Words)
    PROVE  /\ Scan(s) \in [0 .. Len(s) -> Seq(Texts)] /\ Scan(s)[0] = <<>>
           /\ \A k \in 1 .. Len(s) :
                 Scan(s)[k] = Token(Scan(s)[k - 1], IF k = 1 THEN EOL ELSE s[k - 1], s[k])
<1> DEFINE n == Len(s)
           L == Seq(Texts)
           W == Scan(s)
           T(x, k) == Token(x, IF k = 1 THEN EOL ELSE s[k - 1], s[k])
           Def(f) == f = [k \in 0 .. n |-> IF k = 0 THEN <<>> ELSE T(f[k - 1], k)]
           g == [k \in 1 .. n |-> [x \in L |-> T(x, k)]]
           S == {k \in Nat : W[k] \in L}
<1>1. n \in Nat /\ <<>> \in L
    OBVIOUS
<1>2. ASSUME NEW x \in L, NEW k \in 1 .. n PROVE T(x, k) \in L
    <2>1. s[k] \in Words
        OBVIOUS
    <2> QED BY <2>1, TokenMakesLines
<1>3. g \in [1 .. n -> [L -> L]]
    <2> HIDE DEF T, n, L
    <2> QED BY <1>2
<1>4. PICK f \in [0 .. n -> L] : Follows(f, <<>>, g, n)
    <2> HIDE DEF g, n, L
    <2> QED BY <1>1, <1>3, Recursion
<1>5. Def(f)
    <2> HIDE DEF T, L
    <2>1. ASSUME NEW k \in 1 .. n PROVE f[k] = T(f[k - 1], k)
        <3>1. k - 1 \in 0 .. n
            BY <1>1
        <3> QED BY <1>1, <1>4, <3>1 DEF Follows
    <2>2. \A k \in 0 .. n : f[k] = IF k = 0 THEN <<>> ELSE T(f[k - 1], k)
        BY <1>1, <1>4, <2>1 DEF Follows
    <2>3. f = [k \in 0 .. n |-> f[k]]
        OBVIOUS
    <2> QED BY <2>2, <2>3
<1>6. Def(W)
    <2>1. W = CHOOSE h : Def(h)
        BY DEF Scan
    <2> HIDE DEF Def, W
    <2> QED BY <1>5, <2>1
<1> HIDE DEF W, T, L
<1>7. W[0] = <<>> /\ \A k \in 1 .. n : W[k] = T(W[k - 1], k)
    BY <1>1, <1>6
<1>8. 0 \in S /\ \A k \in 0 .. n - 1 : k \in S => k + 1 \in S
    BY <1>1, <1>2, <1>7
<1>9. \A k \in 0 .. n : k \in S
    <2> HIDE DEF S, n
    <2> QED BY <1>1, <1>8, InductionUpto
<1>10. W \in [0 .. n -> L]
    BY <1>1, <1>6, <1>9
<1> QED BY <1>7, <1>10 DEF W, T, L

(* A token goes to the last line, or to a new one: lines before stay. *)
LEMMA TokenBehind ==
    ASSUME NEW a \in Seq(Texts), NEW x \in Seq(Texts), NEW last, NEW t \in Words,
           x = <<>> => last = EOL \/ t = EOL
    PROVE  Token(a \o x, last, t) = a \o Token(x, last, t)
<1>1. CASE t = EOL
    BY <1>1 DEF Token
<1>2. CASE t # EOL /\ last = EOL
    <2>1. <<t>> \in Texts
        BY DEF Texts
    <2>2. Append(a \o x, <<t>>) = a \o Append(x, <<t>>)
        <3>1. Append(a \o x, <<t>>) = (a \o x) \o <<<<t>>>>
            BY <2>1, AppendIsConcat, ConcatProperties
        <3>2. Append(x, <<t>>) = x \o <<<<t>>>> /\ <<<<t>>>> \in Seq(Texts)
            BY <2>1, AppendIsConcat
        <3> QED BY <3>1, <3>2, ConcatAssociative
    <2> QED BY <1>2, <2>2 DEF Token
<1>3. CASE t # EOL /\ last # EOL
    <2> DEFINE m == Len(a)
               n == Len(x)
               v == Append(x[n], t)
               y == [x EXCEPT ![n] = v]
               z == [a \o x EXCEPT ![m + n] = v]
    <2>1. n \in 1 .. n /\ m \in Nat /\ x[n] \in Texts
        BY <1>3, EmptySeq, ElementOfSeq, LenProperties
    <2>2. v \in Texts
        BY <2>1 DEF Texts
    <2>3. /\ a \o x \in Seq(Texts) /\ Len(a \o x) = m + n
          /\ \A i \in 1 .. m + n : (a \o x)[i] = IF i <= m THEN a[i] ELSE x[i - m]
        BY ConcatProperties
    <2>4. (a \o x)[m + n] = x[n] /\ m + n \in 1 .. m + n
        <3> HIDE DEF m, n
        <3> QED BY <2>1, <2>3
    <2>5. Token(x, last, t) = y
        BY <1>3 DEF Token
    <2>6. Token(a \o x, last, t) = z
        BY <1>3, <2>3, <2>4 DEF Token
    <2> DEFINE ax == a \o x
    <2> HIDE DEF v
    <2>7. y \in Seq(Texts) /\ Len(y) = n /\ \A k \in 1 .. n : y[k] = IF k = n THEN v ELSE x[k]
        BY <2>1, <2>2, ExceptSeq
    <2>8. /\ z \in Seq(Texts) /\ Len(z) = m + n
          /\ \A k \in 1 .. m + n : z[k] = IF k = m + n THEN v ELSE (a \o x)[k]
        <3> HIDE DEF m, n
        <3> DEFINE i == m + n
        <3>1. ax \in Seq(Texts) /\ i \in 1 .. Len(ax) /\ Len(ax) = i
            BY <2>3, <2>4
        <3>2. z = [ax EXCEPT ![i] = v]
            OBVIOUS
        <3> HIDE DEF ax, i, z
        <3>3. z \in Seq(Texts) /\ Len(z) = Len(ax) /\ \A k \in 1 .. Len(ax) : z[k] = IF k = i THEN v ELSE ax[k]
            BY <2>2, <3>1, <3>2, ExceptSeq
        <3> QED BY <3>1, <3>3 DEF i, ax
    <2> HIDE DEF y, z
    <2>9. /\ a \o y \in Seq(Texts) /\ Len(a \o y) = m + n
          /\ \A i \in 1 .. m + n : (a \o y)[i] = IF i <= m THEN a[i] ELSE y[i - m]
        <3>1. y \in Seq(Texts)
            BY <2>7
        <3>2. /\ a \o y \in Seq(Texts) /\ Len(a \o y) = Len(a) + Len(y)
              /\ \A i \in 1 .. Len(a) + Len(y) : (a \o y)[i] = IF i <= Len(a) THEN a[i] ELSE y[i - Len(a)]
            BY <3>1, ConcatProperties
        <3> QED BY <2>7, <3>2
    <2>10. ASSUME NEW k \in 1 .. m + n PROVE z[k] = (a \o y)[k]
        <3> HIDE DEF m, n
        <3>1. CASE k <= m
            BY <2>1, <2>3, <2>8, <2>9, <3>1
        <3>2. CASE k > m
            <4>1. k - m \in 1 .. n /\ ~(k <= m) /\ (k - m = n <=> k = m + n)
                BY <2>1, <3>2
            <4>2. (a \o y)[k] = y[k - m] /\ (a \o x)[k] = x[k - m]
                BY <2>3, <2>9, <4>1
            <4>3. y[k - m] = IF k - m = n THEN v ELSE x[k - m]
                BY <2>7, <4>1
            <4> QED BY <2>8, <4>1, <4>2, <4>3
        <3>3. k <= m \/ k > m
            BY <2>1, <2>4
        <3> QED BY <3>1, <3>2, <3>3
    <2>11. z = a \o y
        BY <2>8, <2>9, <2>10, SeqEqual
    <2> QED BY <2>5, <2>6, <2>11
<1> QED BY <1>1, <1>2, <1>3

(* Two pieces, between which no line is cut, are cut into the lines of the *)
(* one and then those of the other.                                        *)
LEMMA Pieces ==
    ASSUME NEW s \in Seq(Words), NEW t \in Seq(Words),
           s = <<>> \/ t = <<>> \/ s[Len(s)] = EOL \/ t[1] = EOL
    PROVE  strtok(s \o t) = strtok(s) \o strtok(t)
<1> DEFINE m == Len(s)
           n == Len(t)
           u == s \o t
           S == {k \in Nat : Scan(u)[k] = Scan(s)[k]}
           Goes(k) == Scan(u)[m + k] = Scan(s)[m] \o Scan(t)[k]
           Begun(k) == k > 0 /\ t[k] # EOL => Scan(t)[k] # <<>>
           T == {k \in Nat : Goes(k) /\ Begun(k)}
<1>1. m \in Nat /\ n \in Nat /\ u \in Seq(Words) /\ Len(u) = m + n
    OBVIOUS
<1>2. (\A k \in 1 .. m : u[k] = s[k]) /\ \A k \in 1 .. n : u[m + k] = t[k]
    OBVIOUS
<1> HIDE DEF u
<1>3. /\ Scan(s) \in [0 .. m -> Seq(Texts)] /\ Scan(s)[0] = <<>>
      /\ \A k \in 1 .. m : Scan(s)[k] = Token(Scan(s)[k - 1], IF k = 1 THEN EOL ELSE s[k - 1], s[k])
    BY ScanDef
<1>4. /\ Scan(t) \in [0 .. n -> Seq(Texts)] /\ Scan(t)[0] = <<>>
      /\ \A k \in 1 .. n : Scan(t)[k] = Token(Scan(t)[k - 1], IF k = 1 THEN EOL ELSE t[k - 1], t[k])
    BY ScanDef
<1>5. /\ Scan(u)[0] = <<>>
      /\ \A k \in 1 .. m + n : Scan(u)[k] = Token(Scan(u)[k - 1], IF k = 1 THEN EOL ELSE u[k - 1], u[k])
    BY <1>1, ScanDef
<1>6. \A k \in 0 .. m : k \in S
    <2>1. 0 \in S
        BY <1>3, <1>5
    <2>2. ASSUME NEW k \in 0 .. m - 1, k \in S PROVE k + 1 \in S
        <3>1. k + 1 \in 1 .. m /\ k + 1 \in 1 .. m + n /\ (k + 1) - 1 = k /\ (k + 1 # 1 => k \in 1 .. m)
            BY <1>1
        <3>2. u[k + 1] = s[k + 1] /\ (k + 1 # 1 => u[k] = s[k])
            BY <1>2, <3>1
        <3>3. Scan(u)[k + 1] = Token(Scan(u)[k], IF k + 1 = 1 THEN EOL ELSE u[k], u[k + 1])
            BY <1>5, <3>1
        <3>4. Scan(s)[k + 1] = Token(Scan(s)[k], IF k + 1 = 1 THEN EOL ELSE s[k], s[k + 1])
            BY <1>3, <3>1
        <3>5. Scan(u)[k] = Scan(s)[k]
            BY <2>2
        <3>6. Scan(u)[k + 1] = Scan(s)[k + 1]
            <4>1. CASE k + 1 = 1
                BY <4>1, <3>2, <3>3, <3>4, <3>5
            <4>2. CASE k + 1 # 1
                BY <4>2, <3>2, <3>3, <3>4, <3>5
            <4> QED BY <4>1, <4>2
        <3> QED BY <3>6
    <2> HIDE DEF S, m
    <2> QED BY <1>1, <2>1, <2>2, InductionUpto
<1>7. \A k \in 0 .. n : k \in T
    <2>1. 0 \in T
        <3>1. Scan(s)[m] \in Seq(Texts) /\ Scan(u)[m] = Scan(s)[m]
            BY <1>1, <1>3, <1>6
        <3>2. Scan(s)[m] \o Scan(t)[0] = Scan(s)[m]
            BY <1>4, <3>1, ConcatEmptySeq
        <3>3. m + 0 = m
            BY <1>1
        <3>4. Goes(0)
            BY <3>1, <3>2, <3>3
        <3>5. Begun(0)
            OBVIOUS
        <3> HIDE DEF Goes, Begun
        <3> QED BY <3>4, <3>5
    <2>2. ASSUME NEW k \in 0 .. n - 1, k \in T PROVE k + 1 \in T
        <3> DEFINE x == Scan(t)[k]
                   a == Scan(s)[m]
                   last == IF k = 0 THEN EOL ELSE t[k]
                   prev == IF m + k = 0 THEN EOL ELSE u[m + k]
        <3>1. x \in Seq(Texts) /\ a \in Seq(Texts) /\ t[k + 1] \in Words
            <4>1. k \in 0 .. n /\ k + 1 \in 1 .. n /\ m \in 0 .. m
                BY <1>1
            <4>2. t[k + 1] \in Words
                BY <4>1, ElementOfSeq
            <4> HIDE DEF m, n
            <4> QED BY <1>3, <1>4, <4>1, <4>2
        <3>2. Scan(t)[k + 1] = Token(x, last, t[k + 1])
            <4>1. k + 1 \in 1 .. n /\ (k + 1) - 1 = k /\ (k + 1 = 1 <=> k = 0)
                BY <1>1
            <4> QED BY <1>4, <4>1
        <3>3. Scan(u)[m + (k + 1)] = Token(Scan(u)[m + k], prev, t[k + 1])
            <4>1. m + k + 1 \in 1 .. m + n /\ (m + k + 1) - 1 = m + k /\ (m + k + 1 = 1 <=> m + k = 0) /\ m + (k + 1) = m + k + 1
                BY <1>1
            <4>2. u[m + k + 1] = t[k + 1]
                BY <1>1, <1>2, <4>1
            <4>3. Scan(u)[m + k + 1] = Token(Scan(u)[m + k], prev, u[m + k + 1])
                BY <1>5, <4>1
            <4> QED BY <4>1, <4>2, <4>3
        <3>4. Scan(u)[m + k] = a \o x /\ (k > 0 /\ t[k] # EOL => x # <<>>)
            BY <2>2
        <3>5. t[k + 1] = EOL \/ prev = last
            <4>1. CASE k > 0
                <5>1. u[m + k] = t[k] /\ m + k # 0
                    BY <1>1, <1>2, <4>1
                <5> QED BY <4>1, <5>1
            <4>2. CASE k = 0 /\ m = 0
                BY <4>2
            <4>3. CASE k = 0 /\ m # 0
                <5>1. m \in 1 .. m /\ s # <<>> /\ t # <<>>
                    BY <1>1, <4>3
                <5>2. prev = s[m] /\ t[k + 1] = t[1]
                    BY <1>1, <1>2, <4>3, <5>1
                <5> QED BY <4>3, <5>1, <5>2
            <4> QED BY <1>1, <4>1, <4>2, <4>3
        <3>6. x = <<>> => last = EOL \/ t[k + 1] = EOL
            BY <3>4
        <3>7. Token(a \o x, prev, t[k + 1]) = Token(a \o x, last, t[k + 1])
            <4> HIDE DEF prev, last
            <4> QED BY <3>5 DEF Token
        <3> HIDE DEF x, a, last, prev
        <3>8. Token(a \o x, last, t[k + 1]) = a \o Token(x, last, t[k + 1])
            BY <3>1, <3>6, TokenBehind
        <3>9. t[k + 1] # EOL => Token(x, last, t[k + 1]) # <<>>
            BY <3>1, <3>6, TokenMakesLines
        <3>10. Goes(k + 1)
            BY <3>2, <3>3, <3>4, <3>7, <3>8 DEF a
        <3>11. Begun(k + 1)
            BY <3>2, <3>9
        <3> HIDE DEF Goes, Begun
        <3> QED BY <3>10, <3>11
    <2> HIDE DEF T, n
    <2> QED BY <1>1, <2>1, <2>2, InductionUpto
<1>8. Goes(n)
    <2> HIDE DEF Goes, Begun, n
    <2> QED BY <1>1, <1>7
<1> QED BY <1>1, <1>8 DEF strtok, u

(* A line and its end are cut into that line. *)
LEMMA WholeLine ==
    ASSUME NEW l \in Seq(Words), l # <<>>, \A k \in 1 .. Len(l) : l[k] # EOL
    PROVE  strtok(Append(l, EOL)) = <<l>>
<1> DEFINE n == Len(l)
           u == Append(l, EOL)
           P(k) == SubSeq(l, 1, k)
           Goes(k) == k > 0 => Scan(u)[k] = <<P(k)>>
           S == {k \in Nat : Goes(k)}
<1>1. n \in Nat \ {0} /\ n \in 1 .. n
    BY EmptySeq
<1>2. EOL \in Words
    BY DEF Words
<1>3. u \in Seq(Words) /\ Len(u) = n + 1 /\ u[n + 1] = EOL /\ \A k \in 1 .. n : u[k] = l[k]
    BY <1>2, AppendProperties
<1> HIDE DEF u
<1>4. /\ Scan(u)[0] = <<>>
      /\ \A k \in 1 .. n + 1 : Scan(u)[k] = Token(Scan(u)[k - 1], IF k = 1 THEN EOL ELSE u[k - 1], u[k])
    BY <1>3, ScanDef
<1>5. ASSUME NEW k \in 0 .. n - 1, Goes(k) PROVE Goes(k + 1)
    <2>1. k + 1 \in 1 .. n /\ k + 1 \in 1 .. n + 1 /\ (k + 1) - 1 = k /\ u[k + 1] = l[k + 1] /\ l[k + 1] # EOL
        BY <1>1, <1>3
    <2>2. l[k + 1] \in Words
        BY <2>1, ElementOfSeq
    <2>3. CASE k = 0
        <3>1. Scan(u)[k + 1] = Token(<<>>, EOL, l[k + 1])
            BY <1>4, <2>1, <2>3
        <3>2. Token(<<>>, EOL, l[k + 1]) = <<<<l[k + 1]>>>>
            BY <2>1 DEF Token
        <3>3. P(k + 1) = <<l[k + 1]>>
            <4>1. P(1) = P(0) \o <<l[1]>> /\ P(0) = <<>>
                BY <1>1, SubSeqRecursiveSecond, SubSeqEmpty
            <4>2. <<l[1]>> \in Seq(Words)
                BY <2>2, <2>3
            <4>3. <<>> \o <<l[1]>> = <<l[1]>>
                BY <4>2, ConcatEmptySeq
            <4>4. P(1) = <<l[1]>>
                BY <4>1, <4>3
            <4> QED BY <2>3, <4>4
        <3> QED BY <3>1, <3>2, <3>3
    <2>4. CASE k > 0
        <3>1. k \in 1 .. n /\ u[k] = l[k] /\ l[k] # EOL /\ k + 1 # 1
            BY <1>1, <1>3, <2>4
        <3>2. Scan(u)[k + 1] = Token(Scan(u)[k], u[k], u[k + 1])
            BY <1>4, <2>1, <3>1
        <3>3. Scan(u)[k] = <<P(k)>>
            BY <1>5, <2>4
        <3>4. P(k) \in Seq(Words)
            BY <3>1, SubSeqProperties
        <3>5. P(k + 1) = Append(P(k), l[k + 1])
            <4>1. P(k + 1) = P(k) \o <<l[k + 1]>>
                BY <1>1, <2>1, SubSeqRecursiveSecond
            <4> HIDE DEF P
            <4> QED BY <2>2, <3>4, <4>1, AppendIsConcat
        <3> HIDE DEF P
        <3>6. Token(<<P(k)>>, u[k], u[k + 1]) = [<<P(k)>> EXCEPT ![1] = Append(@, l[k + 1])]
            BY <2>1, <3>1 DEF Token
        <3>7. [<<P(k)>> EXCEPT ![1] = Append(@, l[k + 1])] = <<Append(P(k), l[k + 1])>>
            OBVIOUS
        <3> QED BY <3>2, <3>3, <3>5, <3>6, <3>7
    <2> QED BY <2>3, <2>4
<1>6. Goes(0)
    OBVIOUS
<1> HIDE DEF Goes
<1>7. \A k \in 0 .. n : k \in S
    <2>1. 0 \in S /\ \A k \in 0 .. n - 1 : k \in S => k + 1 \in S
        BY <1>1, <1>5, <1>6
    <2> HIDE DEF S, n
    <2> QED BY <1>1, <2>1, InductionUpto
<1>8. Goes(n)
    BY <1>1, <1>7
<1>9. Scan(u)[n] = <<l>>
    BY <1>1, <1>8, SubSeqFull DEF Goes
<1>10. Scan(u)[n + 1] = Scan(u)[n]
    <2>1. n + 1 \in 1 .. n + 1 /\ (n + 1) - 1 = n /\ u[n + 1] = EOL
        BY <1>1, <1>3
    <2> QED BY <1>4, <2>1 DEF Token
<1> QED BY <1>3, <1>9, <1>10 DEF strtok, u

(* l is a piece of the first k tokens of s, and of one of its lines. *)
Unbroken(s, i, j) == \A k \in i .. j : s[k] # EOL
Inside(l, s, k)   == \E i \in 1 .. k : \E j \in i .. k : Unbroken(s, i, j) /\ l = SubSeq(s, i, j)

(* What is cut into lines is cut into pieces of its lines. *)
LEMMA LinesAreInside ==
    ASSUME NEW s \in Seq(Words)
    PROVE  /\ strtok(s) \in Seq(Texts)
           /\ \A q \in 1 .. Len(strtok(s)) : Inside(strtok(s)[q], s, Len(s))
<1> DEFINE n == Len(s)
           W(k) == Scan(s)[k]
           AllIn(k) == \A q \in 1 .. Len(W(k)) : Inside(W(k)[q], s, k)
           LastIn(k) == k > 0 /\ s[k] # EOL =>
                          /\ W(k) # <<>>
                          /\ \E i \in 1 .. k : Unbroken(s, i, k) /\ W(k)[Len(W(k))] = SubSeq(s, i, k)
           S == {k \in Nat : AllIn(k) /\ LastIn(k)}
<1>1. n \in Nat
    OBVIOUS
<1>2. /\ \A k \in 0 .. n : W(k) \in Seq(Texts)
      /\ W(0) = <<>>
      /\ \A k \in 1 .. n : W(k) = Token(W(k - 1), IF k = 1 THEN EOL ELSE s[k - 1], s[k])
    BY ScanDef
<1> HIDE DEF W
<1>3. AllIn(0) /\ LastIn(0)
    BY <1>2
<1>4. ASSUME NEW k \in 0 .. n - 1, AllIn(k), LastIn(k) PROVE AllIn(k + 1) /\ LastIn(k + 1)
    <2> DEFINE t == s[k + 1]
               last == IF k + 1 = 1 THEN EOL ELSE s[k]
               x == W(k)
               y == W(k + 1)
    <2>1. k \in Nat /\ k + 1 \in 1 .. n /\ (k + 1) - 1 = k /\ k \in 0 .. n
        BY <1>1
    <2>2. x \in Seq(Texts) /\ t \in Words /\ y = Token(x, last, t)
        <3>1. t \in Words
            BY <2>1, ElementOfSeq
        <3> QED BY <1>2, <2>1, <3>1
    <2>3. \A q \in 1 .. Len(x) : Inside(x[q], s, k + 1)
        BY <1>4, <2>1 DEF Inside
    <2>4. CASE t = EOL
        <3>1. y = x
            BY <2>2, <2>4 DEF Token
        <3> HIDE DEF x, y
        <3>2. AllIn(k + 1)
            BY <2>3, <3>1 DEF x, y
        <3>3. LastIn(k + 1)
            BY <2>4
        <3> QED BY <3>2, <3>3
    <2>5. CASE t # EOL /\ last = EOL
        <3> DEFINE e == <<t>>
        <3>1. y = Append(x, e)
            BY <2>2, <2>5 DEF Token
        <3>2. e \in Texts
            BY <2>2 DEF Texts
        <3>3. e = SubSeq(s, k + 1, k + 1) /\ Unbroken(s, k + 1, k + 1)
            <4>1. SubSeq(s, k + 1, k + 1) = SubSeq(s, k + 1, (k + 1) - 1) \o <<s[k + 1]>>
                BY <2>1, SubSeqRecursiveSecond
            <4>2. SubSeq(s, k + 1, (k + 1) - 1) = <<>>
                BY <2>1, SubSeqEmpty
            <4> QED BY <2>1, <2>5, <4>1, <4>2 DEF Unbroken
        <3> HIDE DEF x, y, e
        <3>4. /\ y \in Seq(Texts) /\ y # <<>> /\ Len(y) = Len(x) + 1
              /\ (\A q \in 1 .. Len(x) : y[q] = x[q]) /\ y[Len(x) + 1] = e
            <4>1. x \in Seq(Texts)
                BY <2>2
            <4> HIDE <2>2
            <4>2. /\ Append(x, e) \in Seq(Texts) /\ Append(x, e) # <<>> /\ Len(Append(x, e)) = Len(x) + 1
                  /\ (\A q \in 1 .. Len(x) : Append(x, e)[q] = x[q]) /\ Append(x, e)[Len(x) + 1] = e
                BY <4>1, <3>2, AppendProperties
            <4> QED BY <3>1, <4>2
        <3>5. k + 1 \in 1 .. k + 1 /\ k + 1 \in k + 1 .. k + 1
            BY <2>1
        <3>6. Inside(e, s, k + 1)
            BY <3>3, <3>5 DEF Inside
        <3>7. Len(x) \in Nat
            BY <2>2
        <3>8. ASSUME NEW q \in 1 .. Len(y) PROVE Inside(y[q], s, k + 1)
            BY <2>3, <3>4, <3>6, <3>7
        <3>9. AllIn(k + 1)
            BY <3>8 DEF y
        <3>10. LastIn(k + 1)
            BY <3>3, <3>4, <3>5 DEF y
        <3> QED BY <3>9, <3>10
    <2>6. CASE t # EOL /\ last # EOL
        <3>1. k > 0 /\ s[k] # EOL /\ k \in 1 .. k /\ k \in 1 .. n
            BY <2>1, <2>6
        <3>2. x # <<>> /\ \E i \in 1 .. k : Unbroken(s, i, k) /\ x[Len(x)] = SubSeq(s, i, k)
            BY <1>4, <3>1
        <3>3. PICK i \in 1 .. k : Unbroken(s, i, k) /\ x[Len(x)] = SubSeq(s, i, k)
            BY <3>2
        <3>4. Len(x) \in 1 .. Len(x) /\ x[Len(x)] \in Texts
            <4>1. x \in Seq(Texts)
                BY <2>2
            <4> HIDE DEF x
            <4>2. Len(x) \in 1 .. Len(x)
                BY <3>2, <4>1, EmptySeq
            <4> QED BY <4>1, <4>2, ElementOfSeq
        <3> DEFINE e == SubSeq(s, i, k + 1)
        <3>5. e = Append(x[Len(x)], t) /\ e \in Texts
            <4>1. e = SubSeq(s, i, (k + 1) - 1) \o <<t>>
                BY <2>1, SubSeqRecursiveSecond
            <4>2. e = x[Len(x)] \o <<t>>
                BY <2>1, <3>3, <4>1
            <4> HIDE DEF e
            <4>3. e = Append(x[Len(x)], t)
                BY <2>2, <3>4, <4>2, AppendIsConcat DEF Texts
            <4> QED BY <2>2, <3>4, <4>3, AppendProperties DEF Texts
        <3>6. Unbroken(s, i, k + 1)
            BY <2>1, <2>6, <3>3 DEF Unbroken
        <3>7. y = [x EXCEPT ![Len(x)] = e]
            BY <2>2, <2>6, <3>5 DEF Token
        <3> HIDE DEF x, y, e
        <3>8. /\ y \in Seq(Texts) /\ Len(y) = Len(x)
              /\ \A q \in 1 .. Len(x) : y[q] = IF q = Len(x) THEN e ELSE x[q]
            <4>1. x \in Seq(Texts)
                BY <2>2
            <4> QED BY <3>4, <3>5, <3>7, <4>1, ExceptSeq
        <3>9. i \in 1 .. k + 1 /\ k + 1 \in i .. k + 1
            BY <2>1
        <3>10. Inside(e, s, k + 1)
            BY <3>6, <3>9 DEF Inside, e
        <3>11. ASSUME NEW q \in 1 .. Len(y) PROVE Inside(y[q], s, k + 1)
            BY <2>3, <3>8, <3>10
        <3>12. AllIn(k + 1)
            BY <3>11 DEF y
        <3>13. y # <<>> /\ y[Len(y)] = e
            BY <3>4, <3>8
        <3>14. LastIn(k + 1)
            BY <3>6, <3>9, <3>13 DEF y, e
        <3> QED BY <3>12, <3>14
    <2> QED BY <2>4, <2>5, <2>6
<1> HIDE DEF AllIn, LastIn
<1>5. \A k \in 0 .. n : k \in S
    <2>1. 0 \in S /\ \A k \in 0 .. n - 1 : k \in S => k + 1 \in S
        BY <1>1, <1>3, <1>4
    <2> HIDE DEF S, n
    <2> QED BY <1>1, <2>1, InductionUpto
<1>6. AllIn(n) /\ W(n) \in Seq(Texts)
    BY <1>1, <1>2, <1>5
<1> QED BY <1>6 DEF AllIn, W, strtok
-----------------------------------------------------------------------------
(* What comes in: the lines the board has yet to handle are those the      *)
(* server sent, in order, as long as none was cut.                         *)

Ends(s) == s = <<>> \/ s[Len(s)] = EOL

Arrived ==
    /\ stream \in Seq(Words) /\ Ends(stream)
    /\ todo \in Seq(Seq(Tokens)) /\ pending \in Seq(Lines) /\ asked \subseteq Lines
    /\ cut \in BOOLEAN /\ failed \in BOOLEAN
    /\ todo = <<>> => out = Closed
    /\ failed => todo = <<>>

Framed == ~cut /\ ~failed => todo \o strtok(stream) = pending

\* A line of todo was handled.
Handled(reply) == todo # <<>> /\ Sent(reply)

\* A step sends, receives, ends the connection, or handles a line.
LEMMA Steps ==
    ASSUME [Next]_vars
    PROVE  \/ ServerSends \/ Receive \/ Disconnect \/ UNCHANGED vars
           \/ \E reply : Handled(reply)
<1>1. CASE Set
    BY <1>1 DEF Set, Handled
<1>2. CASE Get
    BY <1>2 DEF Get, Handled
<1>3. CASE Reset
    BY <1>3 DEF Reset, Handled
<1>4. CASE Start
    BY <1>4 DEF Start, Handled
<1>5. CASE Stop
    BY <1>5 DEF Stop, Handled
<1>6. CASE Ping
    BY <1>6 DEF Ping, Handled
<1>7. CASE Unknown
    BY <1>7 DEF Unknown, Handled
<1> QED BY <1>1, <1>2, <1>3, <1>4, <1>5, <1>6, <1>7 DEF Next

LEMMA Nothing == strtok(<<>>) = <<>>
<1>1. <<>> \in Seq(Words) /\ Len(<<>>) = 0
    BY EmptySeq
<1> QED BY <1>1, ScanDef DEF strtok

LEMMA LinesAreTexts ==
    ASSUME NEW l \in Lines
    PROVE  /\ l \in Seq(Tokens) /\ l \in Texts /\ l # <<>> /\ l # Hangup
           /\ \A k \in 1 .. Len(l) : l[k] # EOL
           /\ Append(l, EOL) \in Seq(Words) /\ strtok(Append(l, EOL)) = <<l>>
<1>1. l \in Seq(Tokens) /\ l # <<>> /\ l # Hangup /\ EOL \notin Tokens
    BY CommandsAssumption
<1>2. l \in Seq(Words)
    <2>1. Tokens \subseteq Words
        BY DEF Words
    <2> QED BY <1>1, <2>1, SeqMonotonic
<1>3. \A k \in 1 .. Len(l) : l[k] # EOL
    BY <1>1, ElementOfSeq
<1>4. Append(l, EOL) \in Seq(Words)
    <2>1. EOL \in Words
        BY DEF Words
    <2> QED BY <1>2, <2>1, AppendProperties
<1> QED BY <1>1, <1>2, <1>3, <1>4, WholeLine DEF Texts

\* Cut lines are sequences of tokens.
LEMMA PiecesAreTokens ==
    ASSUME NEW s \in Seq(Words)
    PROVE  strtok(s) \in Seq(Seq(Tokens))
<1>1. strtok(s) \in Seq(Texts) /\ Len(s) \in Nat
    BY LinesAreInside
<1>2. ASSUME NEW q \in 1 .. Len(strtok(s)) PROVE strtok(s)[q] \in Seq(Tokens)
    <2>1. Inside(strtok(s)[q], s, Len(s))
        BY LinesAreInside
    <2>5. PICK i \in 1 .. Len(s) : \E j \in i .. Len(s) : Unbroken(s, i, j) /\ strtok(s)[q] = SubSeq(s, i, j)
        BY <2>1 DEF Inside
    <2>2. PICK j \in i .. Len(s) : Unbroken(s, i, j) /\ strtok(s)[q] = SubSeq(s, i, j)
        BY <2>5
    <2>3. \A k \in i .. j : s[k] \in Tokens
        <3> TAKE k \in i .. j
        <3>1. k \in 1 .. Len(s) /\ s[k] # EOL
            BY <1>1, <2>2 DEF Unbroken
        <3> QED BY <3>1, ElementOfSeq DEF Words
    <2>4. SubSeq(s, i, j) \in Seq(Tokens)
        BY <1>1, <2>3, SubSeqProperties
    <2> QED BY <2>2, <2>4
<1> DEFINE r == strtok(s)
<1> HIDE DEF r
<1>3. r \in Seq(Texts) /\ \A q \in 1 .. Len(r) : r[q] \in Seq(Tokens)
    BY <1>1, <1>2 DEF r
<1>4. r \in [1 .. Len(r) -> Seq(Tokens)] /\ Len(r) \in Nat
    BY <1>3, LenProperties
<1> QED BY <1>4 DEF r

\* Of lines that are not cut the next one is the first that is pending.
LEMMA NextLine ==
    ASSUME Arrived, Framed, ~cut, todo # <<>>
    PROVE  /\ Line \in Lines /\ Tail(pending) \in Seq(Lines)
           /\ Tail(pending) = Tail(todo) \o strtok(stream)
<1>1. ~failed /\ pending = todo \o strtok(stream)
    BY DEF Arrived, Framed
<1> DEFINE r == strtok(stream)
           T == Seq(Tokens)
<1>2. todo \in Seq(T) /\ r \in Seq(T)
    BY PiecesAreTokens DEF Arrived
<1> HIDE DEF r, T
<1>3. /\ todo \o r \in Seq(T) /\ Len(todo \o r) = Len(todo) + Len(r)
      /\ \A i \in 1 .. Len(todo) + Len(r) : (todo \o r)[i] = IF i <= Len(todo) THEN todo[i] ELSE r[i - Len(todo)]
    BY <1>2, ConcatProperties
<1>4. Len(todo) \in Nat \ {0} /\ Len(r) \in Nat
    BY <1>2, EmptySeq, LenProperties
<1>5. pending # <<>> /\ pending[1] = Line /\ pending \in Seq(Lines)
    <2>1. Len(pending) # 0 /\ pending[1] = todo[1]
        BY <1>1, <1>3, <1>4 DEF r
    <2> QED BY <2>1, EmptySeq DEF Line, Arrived
<1>6. Line \in Lines /\ Tail(pending) \in Seq(Lines)
    <2>1. Head(pending) \in Lines /\ Head(pending) = pending[1]
        BY <1>5, HeadTailProperties
    <2> QED BY <1>5, <2>1, HeadTailProperties
<1>7. Tail(todo \o r) = Tail(todo) \o r
    <2>1. /\ Tail(todo) \in Seq(T) /\ Len(Tail(todo)) = Len(todo) - 1
          /\ \A i \in 1 .. Len(todo) - 1 : Tail(todo)[i] = todo[i + 1]
        BY <1>2, HeadTailProperties
    <2>2. todo \o r # <<>>
        BY <1>3, <1>4, EmptySeq
    <2>3. /\ Tail(todo \o r) \in Seq(T) /\ Len(Tail(todo \o r)) = Len(todo) + Len(r) - 1
          /\ \A i \in 1 .. Len(todo) + Len(r) - 1 : Tail(todo \o r)[i] = (todo \o r)[i + 1]
        BY <1>3, <2>2, HeadTailProperties
    <2>4. /\ Tail(todo) \o r \in Seq(T) /\ Len(Tail(todo) \o r) = Len(todo) - 1 + Len(r)
          /\ \A i \in 1 .. Len(todo) - 1 + Len(r) :
                (Tail(todo) \o r)[i] = IF i <= Len(todo) - 1 THEN Tail(todo)[i] ELSE r[i - (Len(todo) - 1)]
        BY <1>2, <2>1, ConcatProperties
    <2>5. ASSUME NEW i \in 1 .. Len(todo) + Len(r) - 1 PROVE Tail(todo \o r)[i] = (Tail(todo) \o r)[i]
        BY <1>3, <1>4, <2>1, <2>3, <2>4
    <2> QED BY <1>4, <2>3, <2>4, <2>5, SeqEqual
<1> QED BY <1>1, <1>6, <1>7 DEF r

LEMMA ArrivedStep ==
    ASSUME Arrived, Framed, [Next]_vars
    PROVE  Arrived'
<1>1. CASE ServerSends
    <2>1. PICK l \in Lines : /\ stream' = stream \o Append(l, EOL)
                             /\ pending' = Append(pending, l) /\ asked' = asked \cup {l}
                             /\ UNCHANGED <<todo, out, failed, device, log, answers, cut>>
        BY <1>1 DEF ServerSends
    <2> DEFINE e == Append(l, EOL)
    <2>2. e \in Seq(Words) /\ Len(e) = Len(l) + 1 /\ e[Len(l) + 1] = EOL /\ Len(l) \in Nat
        <3>1. l \in Seq(Words) /\ EOL \in Words
            BY LinesAreTexts DEF Words, Texts
        <3> QED BY <3>1, AppendProperties, LenProperties, LinesAreTexts
    <2> HIDE DEF e
    <2>3. stream' \in Seq(Words) /\ Ends(stream')
        <3>1. stream' = stream \o e
            BY <2>1 DEF e
        <3>2. /\ stream \o e \in Seq(Words) /\ Len(stream \o e) = Len(stream) + Len(e) /\ Len(stream) \in Nat
              /\ \A i \in 1 .. Len(stream) + Len(e) : (stream \o e)[i] = IF i <= Len(stream) THEN stream[i] ELSE e[i - Len(stream)]
            BY <2>2, ConcatProperties, LenProperties DEF Arrived
        <3>3. (stream \o e)[Len(stream) + Len(e)] = e[Len(e)]
            BY <2>2, <3>2
        <3> QED BY <2>2, <3>1, <3>2, <3>3 DEF Ends
    <2>4. pending' \in Seq(Lines)
        BY <2>1, AppendProperties DEF Arrived
    <2> QED BY <2>1, <2>3, <2>4 DEF Arrived
<1>2. CASE Receive
    <2>1. PICK n \in 1 .. Len(stream) : /\ todo' = strtok(SubSeq(stream, 1, n))
                                        /\ stream' = SubSeq(stream, n + 1, Len(stream))
                                        /\ cut' = (cut \/ CutsLine(n))
        BY <1>2 DEF Receive
    <2>2. Len(stream) \in Nat /\ stream \in Seq(Words)
        BY DEF Arrived
    <2>3. \A i \in 1 .. Len(stream) : stream[i] \in Words
        BY <2>2, ElementOfSeq
    <2>4. SubSeq(stream, 1, n) \in Seq(Words)
        BY <2>2, <2>3, SubSeqProperties
    <2>5. /\ stream' \in Seq(Words)
          /\ Len(stream') = IF n + 1 <= Len(stream) THEN Len(stream) - n ELSE 0
          /\ \A i \in 1 .. Len(stream) - n : stream'[i] = stream[n + i]
        <3>1. \A i \in n + 1 .. Len(stream) : stream[i] \in Words
            BY <2>2, <2>3
        <3>2. n + 1 \in Int /\ Len(stream) \in Int /\ Len(stream) - (n + 1) + 1 = Len(stream) - n /\ \A i \in Nat : (n + 1) + i - 1 = n + i
            BY <2>2
        <3>3. /\ SubSeq(stream, n + 1, Len(stream)) \in Seq(Words)
              /\ Len(SubSeq(stream, n + 1, Len(stream))) = IF n + 1 <= Len(stream) THEN Len(stream) - (n + 1) + 1 ELSE 0
              /\ \A i \in 1 .. Len(stream) - (n + 1) + 1 : SubSeq(stream, n + 1, Len(stream))[i] = stream[(n + 1) + i - 1]
            BY <3>1, <3>2, SubSeqProperties
        <3> QED BY <2>1, <3>2, <3>3
    <2>6. Ends(stream')
        <3>1. CASE n = Len(stream)
            BY <2>5, <3>1, EmptySeq DEF Ends
        <3>2. CASE n # Len(stream)
            <4>1. Len(stream') = Len(stream) - n /\ Len(stream) - n \in 1 .. Len(stream) - n
                BY <2>2, <2>5, <3>2
            <4>2. stream'[Len(stream')] = stream[Len(stream)]
                BY <2>2, <2>5, <4>1
            <4>3. stream[Len(stream)] = EOL
                BY <2>2 DEF Arrived, Ends
            <4> QED BY <4>2, <4>3 DEF Ends
        <3> QED BY <3>1, <3>2
    <2>7. todo' \in Seq(Seq(Tokens))
        BY <2>1, <2>4, PiecesAreTokens
    <2>8. cut' \in BOOLEAN
        BY <2>1 DEF Arrived, CutsLine
    <2> QED BY <1>2, <2>5, <2>6, <2>7, <2>8 DEF Receive, Arrived
<1>3. CASE Disconnect
    BY <1>3, EmptySeq DEF Disconnect, Arrived, Ends
<1>4. ASSUME NEW reply, Handled(reply) PROVE Arrived'
    <2>1. todo # <<>> /\ UNCHANGED <<stream, asked, cut>> /\ failed' \in BOOLEAN
        BY <1>4 DEF Handled, Sent
    <2>2. todo' = IF failed' THEN <<>> ELSE Tail(todo)
        BY <1>4 DEF Handled, Sent, LinesLeft
    <2>3. todo' \in Seq(Seq(Tokens)) /\ (failed' => todo' = <<>>)
        BY <2>1, <2>2, EmptySeq, HeadTailProperties DEF Arrived
    <2>4. todo' = <<>> => out' = Closed
        BY <1>4 DEF Handled, Sent
    <2>5. pending' \in Seq(Lines)
        <3>1. CASE cut
            BY <1>4, <3>1 DEF Handled, Sent, Logged, Arrived
        <3>2. CASE ~cut
            <4>1. pending' = Tail(pending)
                BY <1>4, <3>2 DEF Handled, Sent, Logged
            <4> QED BY <2>1, <3>2, <4>1, NextLine DEF Arrived
        <3> QED BY <3>1, <3>2
    <2> QED BY <2>1, <2>3, <2>4, <2>5 DEF Arrived
<1>5. CASE UNCHANGED vars
    BY <1>5 DEF vars, Arrived, history
<1> QED BY <1>1, <1>2, <1>3, <1>4, <1>5, Steps

LEMMA FramedStep ==
    ASSUME Arrived, Framed, [Next]_vars
    PROVE  Framed'
<1> DEFINE T == Seq(Tokens)
           r == strtok(stream)
<1>0. /\ stream \in Seq(Words) /\ Len(stream) \in Nat /\ Ends(stream) /\ todo \in Seq(T) /\ r \in Seq(T)
      /\ <<>> \in Seq(T)
    BY PiecesAreTokens, LenProperties, EmptySeq DEF Arrived
<1>1. CASE ServerSends
    <2>1. PICK l \in Lines : /\ stream' = stream \o Append(l, EOL)
                             /\ pending' = Append(pending, l)
                             /\ UNCHANGED <<todo, failed, cut>>
        BY <1>1 DEF ServerSends
    <2> DEFINE e == Append(l, EOL)
    <2>2. l \in T /\ e \in Seq(Words) /\ strtok(e) = <<l>> /\ <<l>> \in Seq(T)
        <3>1. l \in T /\ e \in Seq(Words) /\ strtok(e) = <<l>>
            BY LinesAreTexts
        <3> HIDE DEF T
        <3> QED BY <3>1
    <2> HIDE DEF e
    <2>3. strtok(stream') = r \o <<l>>
        <3>1. strtok(stream \o e) = strtok(stream) \o strtok(e)
            BY <1>0, <2>2, Pieces DEF Ends
        <3> QED BY <2>1, <2>2, <3>1 DEF e
    <2> SUFFICES ASSUME ~cut, ~failed PROVE todo' \o strtok(stream') = pending'
        BY <2>1 DEF Framed
    <2>4. todo \o r = pending
        BY DEF Framed
    <2> HIDE DEF r, T
    <2>5. todo \o (r \o <<l>>) = (todo \o r) \o <<l>>
        BY <1>0, <2>2, ConcatAssociative
    <2>6. Append(pending, l) = pending \o <<l>>
        BY AppendIsConcat DEF Arrived
    <2> QED BY <2>1, <2>3, <2>4, <2>5, <2>6
<1>2. CASE Receive
    <2>1. PICK n \in 1 .. Len(stream) : /\ todo' = strtok(SubSeq(stream, 1, n))
                                        /\ stream' = SubSeq(stream, n + 1, Len(stream))
                                        /\ cut' = (cut \/ CutsLine(n))
        BY <1>2 DEF Receive
    <2> SUFFICES ASSUME ~cut', ~failed' PROVE todo' \o strtok(stream') = pending'
        BY DEF Framed
    <2>2. ~cut /\ ~failed /\ todo = <<>> /\ pending' = pending /\ ~CutsLine(n)
        BY <1>2, <2>1 DEF Receive, Arrived
    <2>3. pending = r
        <3>1. todo \o r = pending
            BY <2>2 DEF Framed
        <3>2. <<>> \o r = r
            <4> HIDE DEF r, T
            <4> QED BY <1>0, ConcatEmptySeq
        <3> QED BY <2>2, <3>1, <3>2
    <2> DEFINE a == SubSeq(stream, 1, n)
               b == SubSeq(stream, n + 1, Len(stream))
    <2>4. n \in Nat /\ n >= 1 /\ n <= Len(stream) /\ \A i \in 1 .. Len(stream) : stream[i] \in Words
        BY <1>0, ElementOfSeq
    <2>5. a \in Seq(Words) /\ Len(a) = n /\ \A i \in 1 .. n : a[i] = stream[i]
        <3>1. \A i \in 1 .. n : stream[i] \in Words
            BY <1>0, <2>4
        <3>2. /\ SubSeq(stream, 1, n) \in Seq(Words)
              /\ Len(SubSeq(stream, 1, n)) = IF 1 <= n THEN n - 1 + 1 ELSE 0
              /\ \A i \in 1 .. n - 1 + 1 : SubSeq(stream, 1, n)[i] = stream[1 + i - 1]
            BY <2>4, <3>1, SubSeqProperties
        <3>3. n - 1 + 1 = n /\ \A i \in 1 .. n : 1 + i - 1 = i
            BY <2>4
        <3> HIDE DEF a
        <3> QED BY <2>4, <3>2, <3>3 DEF a
    <2>6. b \in Seq(Words) /\ (n < Len(stream) => b[1] = stream[n + 1]) /\ (n = Len(stream) => b = <<>>)
        <3>1. \A i \in n + 1 .. Len(stream) : stream[i] \in Words
            BY <1>0, <2>4
        <3>2. n + 1 \in Int /\ Len(stream) \in Int /\ Len(stream) - (n + 1) + 1 = Len(stream) - n /\ (n + 1) + 1 - 1 = n + 1
            BY <1>0, <2>4
        <3>3. /\ SubSeq(stream, n + 1, Len(stream)) \in Seq(Words)
              /\ Len(SubSeq(stream, n + 1, Len(stream))) = IF n + 1 <= Len(stream) THEN Len(stream) - (n + 1) + 1 ELSE 0
              /\ \A i \in 1 .. Len(stream) - (n + 1) + 1 : SubSeq(stream, n + 1, Len(stream))[i] = stream[(n + 1) + i - 1]
            BY <3>1, <3>2, SubSeqProperties
        <3>4. n < Len(stream) => 1 \in 1 .. Len(stream) - (n + 1) + 1
            BY <1>0, <2>4
        <3>5. n = Len(stream) => Len(b) = 0
            BY <1>0, <2>4, <3>3
        <3>6. b \in Seq(Words)
            BY <3>3
        <3>7. n < Len(stream) => b[1] = stream[n + 1]
            BY <3>2, <3>3, <3>4
        <3> HIDE DEF b
        <3> QED BY <3>5, <3>6, <3>7, EmptySeq
    <2>7. a[Len(a)] = EOL \/ b = <<>> \/ b[1] = EOL
        <3>1. n \in 1 .. n
            BY <2>4
        <3> HIDE DEF a, b
        <3> QED BY <1>0, <2>2, <2>4, <2>5, <2>6, <3>1 DEF CutsLine
    <2>8. a \o b = stream
        BY <1>0, <2>4, ConcatAdjacentSubSeq, SubSeqFull
    <2> HIDE DEF a, b
    <2>9. strtok(a \o b) = strtok(a) \o strtok(b)
        BY <2>5, <2>6, <2>7, Pieces
    <2> QED BY <2>1, <2>2, <2>3, <2>8, <2>9 DEF a, b
<1>3. CASE Disconnect
    <2>1. todo' = <<>> /\ stream' = <<>> /\ pending' = <<>>
        BY <1>3 DEF Disconnect
    <2>2. <<>> \o <<>> = <<>>
        <3> HIDE DEF T
        <3> QED BY <1>0, ConcatEmptySeq
    <2> QED BY <2>1, <2>2, Nothing DEF Framed
<1>4. ASSUME NEW reply, Handled(reply) PROVE Framed'
    <2> SUFFICES ASSUME ~cut', ~failed' PROVE todo' \o strtok(stream') = pending'
        BY DEF Framed
    <2>1. todo # <<>> /\ ~cut /\ stream' = stream /\ todo' = Tail(todo) /\ pending' = Tail(pending)
        BY <1>4 DEF Handled, Sent, LinesLeft, Logged
    <2> QED BY <2>1, NextLine
<1>5. CASE UNCHANGED vars
    BY <1>5 DEF vars, Framed, history
<1> QED BY <1>1, <1>2, <1>3, <1>4, <1>5, Steps

LEMMA ArrivedAlways == Spec => [](Arrived /\ Framed)
<1>1. Init => Arrived /\ Framed
    <2> SUFFICES ASSUME Init PROVE Arrived /\ Framed
        OBVIOUS
    <2>1. <<>> \in Seq(Seq(Tokens)) /\ <<>> \in Seq(Words) /\ <<>> \in Seq(Lines) /\ <<>> \o <<>> = <<>>
        <3> DEFINE T == Seq(Tokens)
        <3> HIDE DEF T
        <3>1. <<>> \in Seq(T)
            BY EmptySeq
        <3> QED BY <3>1, EmptySeq, ConcatEmptySeq DEF T
    <2> QED BY <2>1, Nothing DEF Init, Arrived, Framed, Ends
<1>2. Arrived /\ Framed /\ [Next]_vars => (Arrived /\ Framed)'
    BY ArrivedStep, FramedStep
<1> QED BY <1>1, <1>2, PTL DEF Spec
-----------------------------------------------------------------------------
(* The table of parameters *)

Table == [NAME : Seq(Tokens), DELAY : Int, TYPE : {BoardType}]

Kept ==
    /\ params \in Table /\ NameFits
    /\ lost \in BOOLEAN /\ running \in BOOLEAN /\ latched \in Int

Logs ==
    /\ log \in Seq(Lines \cup {Hangup}) /\ Len(answers) = Len(log)
    /\ \E S : answers \in Seq(S)

\* The least of some numbers
LEMMA MinIsLeast ==
    ASSUME NEW S, S \subseteq Nat, S # {}
    PROVE  Min(S) \in S /\ \A k \in S : Min(S) <= k
<1>1. PICK m \in S : \A k \in S : m <= k
    BY Smallest
<1> QED BY <1>1 DEF Min

LEMMA TailIsSeq ==
    ASSUME NEW S, NEW s \in Seq(S)
    PROVE  Tail(s) \in Seq(S)
<1>1. CASE s = <<>>
    BY <1>1, EmptySeq
<1>2. CASE s # <<>>
    BY <1>2, HeadTailProperties
<1> QED BY <1>1, <1>2

\* What follows a command's name, or its "=", is made of tokens.
LEMMA ArgumentsAreTokens ==
    ASSUME NEW l \in Seq(Tokens)
    PROVE  Arguments(l) \in Seq(Tokens)
<1> DEFINE args == IF l[1] \in Verbs THEN Tail(l) ELSE l
           w == Word(args, 1)
<1>1. args \in Seq(Tokens)
    BY TailIsSeq
<1>2. ASSUME w \in DOMAIN Longer PROVE <<Longer[w]>> \o args \in Seq(Tokens)
    <2> HIDE DEF w
    <2>1. Longer[w] \in Tokens
        BY <1>2 DEF Tokens, Range
    <2>2. <<Longer[w]>> \in Seq(Tokens)
        BY <2>1
    <2> HIDE DEF args
    <2> QED BY <1>1, <2>2, ConcatProperties
<1> QED BY <1>1, <1>2 DEF Arguments

LEMMA ValuesAreTokens ==
    ASSUME NEW args \in Seq(Tokens)
    PROVE  /\ ValueOf(args) \in Seq(Tokens) /\ ValueOf(args) \in Seq(Words)
           /\ Len(ValueOf(args)) = IF 4 <= Len(args) THEN Len(args) - 3 ELSE 0
           /\ \A k \in 1 .. Len(args) - 3 : ValueOf(args)[k] = args[k + 3]
<1>1. Len(args) \in Nat /\ \A i \in 1 .. Len(args) : args[i] \in Tokens
    BY LenProperties, ElementOfSeq
<1>2. \A i \in 4 .. Len(args) : args[i] \in Tokens
    BY <1>1
<1>3. /\ SubSeq(args, 4, Len(args)) \in Seq(Tokens)
      /\ Len(SubSeq(args, 4, Len(args))) = IF 4 <= Len(args) THEN Len(args) - 4 + 1 ELSE 0
      /\ \A i \in 1 .. Len(args) - 4 + 1 : SubSeq(args, 4, Len(args))[i] = args[4 + i - 1]
    BY <1>1, <1>2, SubSeqProperties
<1>4. Tokens \subseteq Words
    BY DEF Words
<1>5. \A k \in 1 .. Len(args) - 3 : k \in 1 .. Len(args) - 4 + 1 /\ 4 + k - 1 = k + 3
    BY <1>1
<1>6. Len(args) - 4 + 1 = Len(args) - 3
    BY <1>1
<1> DEFINE v == SubSeq(args, 4, Len(args))
<1>7. v \in Seq(Words)
    <2> HIDE DEF v
    <2> QED BY <1>3, <1>4, SeqMonotonic DEF v
<1> QED BY <1>3, <1>5, <1>6, <1>7 DEF ValueOf

\* Where the text of a value ends
EndOf(v) == Min(Closing(v) \cup {Len(v) + 1})

LEMMA ContentEnds ==
    ASSUME NEW v \in Seq(Tokens)
    PROVE  /\ EndOf(v) \in Closing(v) \cup {Len(v) + 1}
           /\ \A k \in Closing(v) \cup {Len(v) + 1} : EndOf(v) <= k
           /\ Content(v) = SubSeq(v, 2, EndOf(v) - 1) /\ Content(v) \in Seq(Tokens)
<1> DEFINE S == Closing(v) \cup {Len(v) + 1}
<1>1. Len(v) \in Nat /\ \A i \in 1 .. Len(v) : v[i] \in Tokens
    BY LenProperties, ElementOfSeq
<1>2. S \subseteq Nat /\ S # {} /\ \A k \in S : k <= Len(v) + 1
    BY <1>1 DEF Closing
<1>3. EndOf(v) \in S /\ \A k \in S : EndOf(v) <= k
    <2> HIDE DEF S
    <2>1. Min(S) \in S /\ \A k \in S : Min(S) <= k
        BY <1>2, MinIsLeast
    <2> QED BY <2>1 DEF EndOf, S
<1>4. EndOf(v) \in Nat /\ EndOf(v) - 1 <= Len(v)
    BY <1>1, <1>2, <1>3
<1>5. \A i \in 2 .. EndOf(v) - 1 : v[i] \in Tokens
    BY <1>1, <1>4
<1>6. SubSeq(v, 2, EndOf(v) - 1) \in Seq(Tokens)
    BY <1>4, <1>5, SubSeqProperties
<1> QED BY <1>3, <1>6 DEF Content, EndOf

\* strtol() of a word that begins as a number is a number.
LEMMA NumbersAreInts ==
    ASSUME NEW v \in Seq(Words), IsNumber(v)
    PROVE  strtol(v) \in Int
<1>1. v # <<>>
    <2> SUFFICES ASSUME v = <<>> PROVE FALSE
        OBVIOUS
    <2>1. Word(v, 1) = ""
        BY DEF Word
    <2> QED BY <2>1 DEF IsNumber, Signs, Digits
<1>2. Natural(v) \in Nat /\ Natural(Tail(v)) \in Nat
    BY TailIsSeq, NumbersAreNumbers
<1>3. strtol(v) \in {-Natural(Tail(v)), Natural(Tail(v)), Natural(v)}
    BY DEF strtol
<1> QED BY <1>2, <1>3

\* An assignment that SET accepts is of a name that fits, or of a number.
LEMMA Accepted ==
    ASSUME NEW args \in Seq(Tokens), NEW objects \in SUBSET DOMAIN Attrs, SetReply(args, objects) = "+OK"
    PROVE  /\ ObjectOf(args) = "CHANNEL" /\ "CHANNEL" \in objects
           /\ IsAssignment(args) /\ SameType(ValueOf(args), AttrOf(args))
           /\ AttrOf(args) \in {"NAME", "DELAY"}
           /\ AttrOf(args) = "NAME" => /\ ~IsNumber(ValueOf(args)) /\ IsString(ValueOf(args))
                                       /\ Value(args) = Content(ValueOf(args))
                                       /\ Value(args) \in Seq(Tokens) /\ ~TooLong(Value(args))
           /\ AttrOf(args) = "DELAY" => /\ IsNumber(ValueOf(args)) /\ Value(args) = strtol(ValueOf(args))
                                        /\ Value(args) \in Int
<1> DEFINE v == ValueOf(args)
           o == ObjectOf(args)
           a == AttrOf(args)
<1>1. /\ o \in objects /\ IsAssignment(args) /\ HasAttr(o, a) /\ ~IsReadOnly(a) /\ SameType(v, a)
      /\ ~(IsString(v) /\ TooLong(Content(v)))
    BY DEF SetReply
<1>2. o \in {"CHANNEL", "BOARD"} /\ a \in Attrs[o] /\ a # "TYPE"
    BY <1>1 DEF HasAttr, IsReadOnly, Attrs
<1>3. o = "CHANNEL" /\ a \in {"NAME", "DELAY"}
    BY <1>2 DEF Attrs
<1>4. IsNumber(v) <=> a = "DELAY"
    BY <1>1 DEF SameType, IsInt
<1>5. v \in Seq(Tokens) /\ v \in Seq(Words)
    BY ValuesAreTokens
<1>6. CASE a = "NAME"
    <2>1. ~IsNumber(v) /\ IsString(v)
        BY <1>1, <1>4, <1>6 DEF IsAssignment
    <2>2. Value(args) = Content(v)
        BY <2>1 DEF Value
    <2> QED BY <1>1, <1>3, <1>5, <1>6, <2>1, <2>2, ContentEnds
<1>7. CASE a = "DELAY"
    <2>1. IsNumber(v) /\ Value(args) = strtol(v)
        BY <1>4, <1>7 DEF Value
    <2> QED BY <1>1, <1>3, <1>5, <1>7, <2>1, NumbersAreInts
<1> QED BY <1>3, <1>6, <1>7

LEMMA LineIsTokens ==
    ASSUME Arrived, todo # <<>>
    PROVE  Line \in Seq(Tokens) /\ Arguments(Line) \in Seq(Tokens) /\ Objects \in SUBSET DOMAIN Attrs
<1> DEFINE T == Seq(Tokens)
<1>1. todo \in Seq(T)
    BY DEF Arrived
<1> HIDE DEF T
<1>2. 1 \in 1 .. Len(todo)
    BY <1>1, EmptySeq, LenProperties
<1>3. Line \in T
    BY <1>1, <1>2, ElementOfSeq DEF Line
<1> QED BY <1>3, ArgumentsAreTokens DEF T, Objects

LEMMA DefaultsAreKept == Defaults \in Table /\ strlen(Defaults.NAME) + 1 <= StrValSize
<1>1. <<>> \in Seq(Tokens) /\ Len(<<>>) = 0
    BY EmptySeq
<1>2. strlen(<<>>) = 0
    BY <1>1, WidthsAreNumbers DEF strlen
<1>3. DefaultDelay \in Int /\ StrValSize \in Nat \ {0}
    BY CommandsAssumption
<1> QED BY <1>1, <1>2, <1>3 DEF Defaults, Table

\* A step changes the table as SET's assignment, as RESET, or not at all.
LEMMA KeptStep ==
    ASSUME Arrived, Kept, [Next]_vars
    PROVE  Kept'
<1>0. StrValSize \in Nat /\ DefaultDelay \in Int
    BY CommandsAssumption
<1>1. CASE Set
    <2> DEFINE args == Arguments(Line)
    <2>1. args \in Seq(Tokens) /\ Objects \in SUBSET DOMAIN Attrs
        BY <1>1, LineIsTokens DEF Set
    <2>2. /\ params' = IF SetReply(args, Objects) = "+OK" THEN [params EXCEPT ![AttrOf(args)] = Value(args)]
                                                          ELSE params
          /\ UNCHANGED <<lost, running, latched>>
        BY <1>1 DEF Set
    <2> HIDE DEF args
    <2>3. CASE SetReply(args, Objects) # "+OK"
        BY <2>2, <2>3 DEF Kept, NameFits
    <2>4. CASE SetReply(args, Objects) = "+OK" /\ AttrOf(args) = "NAME"
        <3>1. Value(args) \in Seq(Tokens) /\ ~TooLong(Value(args))
            BY <2>1, <2>4, Accepted
        <3>2. strlen(Value(args)) + 1 <= StrValSize
            BY <1>0, <3>1, WidthsAreNumbers DEF TooLong
        <3>3. params' = [params EXCEPT !.NAME = Value(args)]
            BY <2>2, <2>4
        <3>4. params' \in Table /\ params'.NAME = Value(args)
            BY <3>1, <3>3 DEF Kept, Table
        <3> QED BY <2>2, <3>2, <3>4 DEF Kept, NameFits
    <2>5. CASE SetReply(args, Objects) = "+OK" /\ AttrOf(args) = "DELAY"
        <3>1. Value(args) \in Int
            BY <2>1, <2>5, Accepted
        <3>2. params' = [params EXCEPT !.DELAY = Value(args)]
            BY <2>2, <2>5
        <3>3. params' \in Table /\ params'.NAME = params.NAME
            BY <3>1, <3>2 DEF Kept, Table
        <3> QED BY <2>2, <3>3 DEF Kept, NameFits
    <2> QED BY <2>1, <2>3, <2>4, <2>5, Accepted
<1>2. CASE Reset
    <2>1. /\ params' = [params EXCEPT !.NAME = Defaults.NAME, !.DELAY = Defaults.DELAY]
          /\ lost' \in {lost, TRUE} /\ UNCHANGED <<running, latched>>
        BY <1>2 DEF Reset
    <2>2. params' \in Table /\ params'.NAME = Defaults.NAME
        BY <2>1, DefaultsAreKept DEF Kept, Table
    <2> QED BY <2>1, <2>2, DefaultsAreKept DEF Kept, NameFits
<1>3. CASE Start
    BY <1>3 DEF Start, Kept, Table, NameFits
<1>4. CASE Stop
    BY <1>4 DEF Stop, Kept, NameFits
<1>5. CASE Disconnect
    BY <1>5 DEF Disconnect, Kept, NameFits
<1>6. CASE UNCHANGED device
    BY <1>6 DEF Kept, NameFits, device
<1>7. ServerSends \/ Receive \/ Get \/ Ping \/ Unknown \/ UNCHANGED vars => UNCHANGED device
    BY DEF ServerSends, Receive, Get, Ping, Unknown, vars
<1> QED BY <1>1, <1>2, <1>3, <1>4, <1>5, <1>6, <1>7 DEF Next

LEMMA LogsStep ==
    ASSUME Arrived, Framed, Logs, [Next]_vars
    PROVE  Logs'
<1>0. PICK S : answers \in Seq(S)
    BY DEF Logs
<1>1. ASSUME NEW e \in Lines \cup {Hangup}, NEW a, log' = Append(log, e), answers' = Append(answers, a)
      PROVE  Logs'
    <2> DEFINE L == Lines \cup {Hangup}
               Q == S \cup {a}
    <2>1. log \in Seq(L) /\ e \in L /\ Len(answers) = Len(log)
        BY DEF Logs
    <2>2. answers \in Seq(Q) /\ a \in Q
        <3>1. S \subseteq Q /\ a \in Q
            OBVIOUS
        <3> HIDE DEF Q
        <3> QED BY <1>0, <3>1, SeqMonotonic
    <2> HIDE DEF L, Q
    <2>3. /\ log' \in Seq(L) /\ Len(log') = Len(log) + 1
          /\ answers' \in Seq(Q) /\ Len(answers') = Len(answers) + 1
        BY <1>1, <2>1, <2>2, AppendProperties
    <2>4. Len(answers') = Len(log')
        BY <2>1, <2>3
    <2> QED BY <2>3, <2>4 DEF Logs, L
<1>2. CASE UNCHANGED <<log, answers>>
    BY <1>2 DEF Logs
<1>3. CASE Disconnect
    BY <1>1, <1>3 DEF Disconnect
<1>4. ASSUME NEW reply, Handled(reply) PROVE Logs'
    <2>1. CASE cut
        BY <1>2, <1>4, <2>1 DEF Handled, Sent, Logged
    <2>2. CASE ~cut
        <3>1. Line \in Lines
            BY <1>4, <2>2, NextLine DEF Handled
        <3>2. log' = Append(log, Line) /\ (answers' = Append(answers, reply) \/ answers' = Append(answers, Truncated))
            BY <1>4, <2>2 DEF Handled, Sent, Logged
        <3> QED BY <1>1, <3>1, <3>2
    <2> QED BY <2>1, <2>2
<1>5. ServerSends \/ Receive \/ UNCHANGED vars => UNCHANGED <<log, answers>>
    BY DEF ServerSends, Receive, vars, history
<1> QED BY <1>2, <1>3, <1>4, <1>5, Steps

LEMMA KeptAlways == Spec => [](Arrived /\ Framed /\ Kept /\ Logs)
<1>1. Init => Kept /\ Logs
    <2> SUFFICES ASSUME Init PROVE Kept /\ Logs
        OBVIOUS
    <2>1. Kept
        <3>1. params = Defaults /\ lost = FALSE /\ running = FALSE /\ latched = 0
            BY DEF Init
        <3>2. params \in Table /\ NameFits
            BY <3>1, DefaultsAreKept DEF NameFits
        <3>3. latched \in Int
            BY <3>1
        <3>4. lost \in BOOLEAN /\ running \in BOOLEAN
            BY <3>1, Zenon
        <3> QED BY <3>2, <3>3, <3>4 DEF Kept
    <2>2. <<>> \in Seq(Lines \cup {Hangup}) /\ <<>> \in Seq({})
        BY EmptySeq
    <2> QED BY <2>1, <2>2 DEF Init, Logs
<1>2. Arrived /\ Framed /\ Kept /\ Logs /\ [Next]_vars => (Kept /\ Logs)'
    BY KeptStep, LogsStep
<1> QED BY <1>1, <1>2, ArrivedAlways, PTL DEF Spec

(* The variables have their types whatever arrives, a connection that      *)
(* failed has no line left, and outstr is gone where no line is left       *)
(* (netprot_get_commands).                                                 *)
THEOREM TypeAlways == Spec => []TypeOK
<1>1. Arrived /\ Kept /\ Logs => TypeOK
    BY DEF Arrived, Kept, Logs, TypeOK, Table
<1> QED BY <1>1, KeptAlways, PTL

(* Whatever lines arrive and wherever they are cut, BOARD's TYPE is the    *)
(* configured one (FLAG_RO in netprot_cmd_set, the defaults of RESET).     *)
THEOREM ReadOnly == Spec => []ReadOnlyKept
<1>1. Kept => ReadOnlyKept
    BY DEF Kept, Table, ReadOnlyKept
<1> QED BY <1>1, KeptAlways, PTL

(* And the name in the table leaves room for its terminator in strval, of  *)
(* any size (netprot_cmd_set, netprot_cmd_reset).                          *)
THEOREM TableAlwaysSound == Spec => []TableIsSound
<1>1. Kept => NameFits
    BY DEF Kept
<1> QED BY <1>1, KeptAlways, ReadOnly, PTL DEF TableIsSound
-----------------------------------------------------------------------------
(* What the lines mean.  Meaning is the server's own table; the theorems   *)
(* below hold for a server that reads each of its lines, taken alone and   *)
(* whole, as the commands do.                                              *)

Devices == [params : Table, running : BOOLEAN, latched : Int]
Device  == [params |-> params, running |-> running, latched |-> latched]
Events  == Lines \cup {Hangup}

Assigns(l) == Command(l) = "SET" /\ SetReply(Arguments(l), DOMAIN Attrs) = "+OK"
Blank == ""       \* no attribute, or no reply
Reading(do, a, x, r) == [do |-> do, attr |-> a, to |-> x, reply |-> r]

\* What the commands make of a line, with the whole table at hand
Sense(l) ==
    LET args == Arguments(l)
        all  == DOMAIN Attrs
    IN  CASE Command(l) = "SET" /\ Assigns(l)  -> Reading("assign", AttrOf(args), Value(args), "+OK")
          [] Command(l) = "SET" /\ ~Assigns(l) -> Reading("none", Blank, 0, SetReply(args, all))
          [] Command(l) = "GET" /\ Shows(args, all)  -> Reading("show", AttrOf(args), 0, Blank)
          [] Command(l) = "GET" /\ ~Shows(args, all) -> Reading("none", Blank, 0, GetText(args, all))
          [] Command(l) = "RESET" -> Reading("reset", Blank, 0, "+OK")
          [] Command(l) = "START" -> Reading("start", Blank, 0, Blank)
          [] Command(l) = "STOP"  -> Reading("stop", Blank, 0, "+OK")
          [] Command(l) = "PING"  -> Reading("none", Blank, 0, "+PONG")
          [] OTHER                -> Reading("none", Blank, 0, Blank)

Understood == \A l \in Lines : Meaning[l] = Sense(l)

LEMMA Fields ==
    ASSUME NEW do, NEW a, NEW x, NEW r
    PROVE  /\ Reading(do, a, x, r).do = do /\ Reading(do, a, x, r).attr = a
           /\ Reading(do, a, x, r).to = x /\ Reading(do, a, x, r).reply = r
BY DEF Reading

\* Whether BOARD is found does not matter to what SET accepts.
LEMMA SameAssignments ==
    ASSUME NEW args \in Seq(Tokens)
    PROVE  SetReply(args, Objects) = "+OK" <=> SetReply(args, DOMAIN Attrs) = "+OK"
<1>1. Objects \in SUBSET DOMAIN Attrs /\ DOMAIN Attrs \in SUBSET DOMAIN Attrs
    BY DEF Objects
<1>2. "CHANNEL" \in Objects /\ "CHANNEL" \in DOMAIN Attrs
    BY DEF Objects, Attrs
<1>3. ASSUME NEW objects \in SUBSET DOMAIN Attrs, NEW others \in SUBSET DOMAIN Attrs, "CHANNEL" \in others,
             SetReply(args, objects) = "+OK"
      PROVE  SetReply(args, others) = "+OK"
    <2>1. ObjectOf(args) \in objects /\ ObjectOf(args) \in others
        BY <1>3, Accepted
    <2>2. SetReply(args, others) = SetReply(args, objects)
        BY <2>1 DEF SetReply
    <2> QED BY <1>3, <2>2
<1> QED BY <1>1, <1>2, <1>3

\* What a line that is understood does to the board
LEMMA EffectOfLine ==
    ASSUME Understood, NEW s \in Devices, NEW l \in Lines
    PROVE  LET args == Arguments(l)
           IN  /\ Assigns(l) => Effect(s, l) = [s EXCEPT !.params = [s.params EXCEPT ![AttrOf(args)] = Value(args)]]
               /\ Command(l) = "RESET" => Effect(s, l) = [s EXCEPT !.params = Defaults]
               /\ Command(l) = "START" => Effect(s, l) = [s EXCEPT !.running = TRUE, !.latched = s.params.DELAY]
               /\ Command(l) = "STOP" => Effect(s, l) = [s EXCEPT !.running = FALSE]
               /\ Command(l) \notin {"RESET", "START", "STOP"} /\ ~Assigns(l) => Effect(s, l) = s
<1> DEFINE args == Arguments(l)
           c == Command(l)
           m == Meaning[l]
<1>1. l # Hangup /\ m = Sense(l)
    BY LinesAreTexts DEF Understood
<1>2. Effect(s, l) = CASE m.do = "assign" -> [s EXCEPT !.params = [s.params EXCEPT ![m.attr] = m.to]]
                       [] m.do = "reset"  -> [s EXCEPT !.params = Defaults]
                       [] m.do = "start"  -> [s EXCEPT !.running = TRUE, !.latched = s.params.DELAY]
                       [] m.do = "stop"   -> [s EXCEPT !.running = FALSE]
                       [] OTHER           -> s
    BY <1>1 DEF Effect
<1>3. CASE Assigns(l)
    <2>1. c = "SET" /\ m = Reading("assign", AttrOf(args), Value(args), "+OK")
        BY <1>1, <1>3 DEF Sense, Assigns
    <2>2. m.do = "assign" /\ m.attr = AttrOf(args) /\ m.to = Value(args)
        BY <2>1, Fields
    <2> QED BY <1>2, <1>3, <2>1, <2>2
<1>4. CASE c = "RESET"
    <2>1. ~Assigns(l)
        BY <1>4 DEF Assigns
    <2>2. m = Reading("reset", Blank, 0, "+OK")
        BY <1>1, <1>4, <2>1 DEF Sense
    <2>3. m.do = "reset"
        BY <2>2, Fields
    <2> QED BY <1>2, <1>4, <2>1, <2>3
<1>5. CASE c = "START"
    <2>1. ~Assigns(l)
        BY <1>5 DEF Assigns
    <2>2. m = Reading("start", Blank, 0, Blank)
        BY <1>1, <1>5, <2>1 DEF Sense
    <2>3. m.do = "start"
        BY <2>2, Fields
    <2> QED BY <1>2, <1>5, <2>1, <2>3
<1>6. CASE c = "STOP"
    <2>1. ~Assigns(l)
        BY <1>6 DEF Assigns
    <2>2. m = Reading("stop", Blank, 0, "+OK")
        BY <1>1, <1>6, <2>1 DEF Sense
    <2>3. m.do = "stop"
        BY <2>2, Fields
    <2> QED BY <1>2, <1>6, <2>1, <2>3
<1>7. CASE c \notin {"RESET", "START", "STOP"} /\ ~Assigns(l)
    <2>1. \E a, r : m = Reading("none", a, 0, r) \/ m = Reading("show", a, 0, r)
        BY <1>1, <1>7 DEF Sense
    <2>2. m.do \in {"none", "show"}
        BY <2>1, Fields
    <2> QED BY <1>2, <1>7, <2>2
<1> QED BY <1>3, <1>4, <1>5, <1>6, <1>7

LEMMA EffectIsDevice ==
    ASSUME Understood, NEW s \in Devices, NEW e \in Events
    PROVE  Effect(s, e) \in Devices
<1>1. CASE e = Hangup
    <2>1. Effect(s, e) = [s EXCEPT !.running = FALSE]
        BY <1>1 DEF Effect
    <2> QED BY <2>1 DEF Devices
<1>2. CASE e \in Lines /\ Assigns(e)
    <2> DEFINE args == Arguments(e)
               p == [s.params EXCEPT ![AttrOf(args)] = Value(args)]
    <2>1. args \in Seq(Tokens) /\ DOMAIN Attrs \in SUBSET DOMAIN Attrs
        BY <1>2, LinesAreTexts, ArgumentsAreTokens
    <2>2. /\ AttrOf(args) \in {"NAME", "DELAY"}
          /\ AttrOf(args) = "NAME" => Value(args) \in Seq(Tokens)
          /\ AttrOf(args) = "DELAY" => Value(args) \in Int
        <3> HIDE DEF args
        <3> QED BY <1>2, <2>1, Accepted DEF Assigns, args
    <2>3. Effect(s, e) = [s EXCEPT !.params = p]
        BY <1>2, EffectOfLine
    <2>4. s.params \in Table
        BY DEF Devices
    <2> HIDE DEF args
    <2>5. p \in Table
        <3>1. CASE AttrOf(args) = "NAME"
            BY <2>2, <2>4, <3>1 DEF Table
        <3>2. CASE AttrOf(args) = "DELAY"
            BY <2>2, <2>4, <3>2 DEF Table
        <3> QED BY <2>2, <3>1, <3>2
    <2> QED BY <2>3, <2>5 DEF Devices
<1>3. CASE e \in Lines /\ ~Assigns(e)
    <2>1. \/ Effect(s, e) = [s EXCEPT !.params = Defaults]
          \/ Effect(s, e) = [s EXCEPT !.running = TRUE, !.latched = s.params.DELAY]
          \/ Effect(s, e) = [s EXCEPT !.running = FALSE]
          \/ Effect(s, e) = s
        BY <1>3, EffectOfLine
    <2>2. s.params.DELAY \in Int
        BY DEF Devices, Table
    <2> QED BY <2>1, <2>2, DefaultsAreKept DEF Devices
<1> QED BY <1>1, <1>2, <1>3 DEF Events

\* What some lines lead to, one after the other
LEMMA AfterDef ==
    ASSUME Understood, NEW es \in Seq(Events)
    PROVE  /\ After(es) \in [0 .. Len(es) -> Devices] /\ After(es)[0] = Start0
           /\ \A k \in 1 .. Len(es) : After(es)[k] = Effect(After(es)[k - 1], es[k])
<1> DEFINE n == Len(es)
           W == After(es)
           Def(f) == f = [k \in 0 .. n |-> IF k = 0 THEN Start0 ELSE Effect(f[k - 1], es[k])]
           g == [k \in 1 .. n |-> [x \in Devices |-> Effect(x, es[k])]]
           S == {k \in Nat : W[k] \in Devices}
<1>1. n \in Nat /\ Start0 \in Devices
    <2>1. FALSE \in BOOLEAN
        OBVIOUS
    <2> QED BY <2>1, DefaultsAreKept, LenProperties DEF Start0, Devices
<1>2. ASSUME NEW x \in Devices, NEW k \in 1 .. n PROVE Effect(x, es[k]) \in Devices
    <2>1. es[k] \in Events
        BY ElementOfSeq
    <2> QED BY <2>1, EffectIsDevice
<1>3. g \in [1 .. n -> [Devices -> Devices]]
    <2> HIDE DEF n
    <2> QED BY <1>2
<1>4. PICK f \in [0 .. n -> Devices] : Follows(f, Start0, g, n)
    <2> HIDE DEF g, n
    <2> QED BY <1>1, <1>3, Recursion
<1>5. Def(f)
    <2> HIDE DEF n
    <2>1. ASSUME NEW k \in 1 .. n PROVE f[k] = Effect(f[k - 1], es[k])
        <3>1. k - 1 \in 0 .. n
            BY <1>1
        <3> QED BY <1>1, <1>4, <3>1 DEF Follows
    <2>2. \A k \in 0 .. n : f[k] = IF k = 0 THEN Start0 ELSE Effect(f[k - 1], es[k])
        BY <1>1, <1>4, <2>1 DEF Follows
    <2>3. f = [k \in 0 .. n |-> f[k]]
        OBVIOUS
    <2> QED BY <2>2, <2>3
<1>6. Def(W)
    <2>1. W = CHOOSE h : Def(h)
        BY DEF After
    <2> HIDE DEF Def, W
    <2> QED BY <1>5, <2>1
<1> HIDE DEF W, n
<1>7. W[0] = Start0 /\ \A k \in 1 .. n : W[k] = Effect(W[k - 1], es[k])
    BY <1>1, <1>6
<1>8. 0 \in S /\ \A k \in 0 .. n - 1 : k \in S => k + 1 \in S
    BY <1>1, <1>2, <1>7
<1>9. \A k \in 0 .. n : k \in S
    <2> HIDE DEF S
    <2> QED BY <1>1, <1>8, InductionUpto
<1>10. W \in [0 .. n -> Devices]
    BY <1>1, <1>6, <1>9
<1> QED BY <1>7, <1>10 DEF W, n

\* One more leaves what the others led to, and has its own effect.
LEMMA AfterAppend ==
    ASSUME Understood, NEW es \in Seq(Events), NEW e \in Events
    PROVE  /\ \A k \in 0 .. Len(es) : After(Append(es, e))[k] = After(es)[k]
           /\ After(Append(es, e))[Len(es) + 1] = Effect(After(es)[Len(es)], e)
<1> DEFINE n == Len(es)
           u == Append(es, e)
           S == {k \in Nat : After(u)[k] = After(es)[k]}
<1>1. n \in Nat /\ u \in Seq(Events) /\ Len(u) = n + 1 /\ u[n + 1] = e /\ \A k \in 1 .. n : u[k] = es[k]
    BY AppendProperties, LenProperties
<1> HIDE DEF u
<1>2. /\ After(es)[0] = Start0
      /\ \A k \in 1 .. n : After(es)[k] = Effect(After(es)[k - 1], es[k])
    BY AfterDef
<1>3. /\ After(u)[0] = Start0
      /\ \A k \in 1 .. n + 1 : After(u)[k] = Effect(After(u)[k - 1], u[k])
    BY <1>1, AfterDef
<1>4. ASSUME NEW k \in 0 .. n - 1, k \in S PROVE k + 1 \in S
    <2>1. k + 1 \in 1 .. n /\ k + 1 \in 1 .. n + 1 /\ (k + 1) - 1 = k /\ k + 1 \in Nat
        BY <1>1
    <2>2. After(es)[k + 1] = Effect(After(es)[k], es[k + 1]) /\ After(u)[k + 1] = Effect(After(u)[k], es[k + 1])
        BY <1>1, <1>2, <1>3, <2>1
    <2> QED BY <1>4, <2>1, <2>2
<1>5. \A k \in 0 .. n : k \in S
    <2>1. 0 \in S
        BY <1>2, <1>3
    <2> HIDE DEF S, n
    <2> QED BY <1>1, <1>4, <2>1, InductionUpto
<1>6. After(u)[n + 1] = Effect(After(u)[n], e) /\ After(u)[n] = After(es)[n]
    <2>1. n + 1 \in 1 .. n + 1 /\ (n + 1) - 1 = n /\ n \in 0 .. n
        BY <1>1
    <2> QED BY <1>1, <1>3, <1>5, <2>1
<1> QED BY <1>5, <1>6 DEF u

LEMMA DeviceIsTyped ==
    ASSUME Kept
    PROVE  Device \in Devices
BY DEF Kept, Device, Devices

\* A line handled that was not cut changes the board by its effect.
LEMMA LineHasItsEffect ==
    ASSUME Understood, Arrived, Framed, Kept, ~cut, todo # <<>>,
           Set \/ Get \/ Reset \/ Start \/ Stop \/ Ping \/ Unknown
    PROVE  Device' = Effect(Device, Line)
<1>1. /\ Line \in Lines /\ Device \in Devices
      /\ Arguments(Line) \in Seq(Tokens)
    BY NextLine, LineIsTokens, DeviceIsTyped
<1> DEFINE l == Line
           c == Command(l)
<1>2. /\ Device.params = params /\ Device.running = running /\ Device.latched = latched
      /\ Device' = [params |-> params', running |-> running', latched |-> latched']
    BY DEF Device
<1>3. CASE Set
    <2> DEFINE args == Arguments(l)
    <2>1. SetReply(args, Objects) = "+OK" <=> Assigns(l)
        <3>1. SetReply(args, Objects) = "+OK" <=> SetReply(args, DOMAIN Attrs) = "+OK"
            BY <1>1, SameAssignments
        <3> QED BY <1>3, <3>1 DEF Set, Assigns
    <2>2. /\ params' = IF SetReply(args, Objects) = "+OK" THEN [params EXCEPT ![AttrOf(args)] = Value(args)]
                                                          ELSE params
          /\ UNCHANGED <<running, latched>> /\ c = "SET"
        BY <1>3 DEF Set
    <2>3. CASE Assigns(l)
        <3>1. Effect(Device, l) = [Device EXCEPT !.params = [Device.params EXCEPT ![AttrOf(args)] = Value(args)]]
            BY <1>1, <2>3, EffectOfLine
        <3> HIDE DEF args, l, c
        <3>2. params' = [params EXCEPT ![AttrOf(args)] = Value(args)]
            BY <2>1, <2>2, <2>3
        <3>3. Effect(Device, l) = [Device EXCEPT !.params = params']
            BY <1>2, <3>1, <3>2
        <3>4. [Device EXCEPT !.params = params'] = [params |-> params', running |-> running, latched |-> latched]
            BY DEF Device
        <3> QED BY <1>2, <2>2, <3>3, <3>4 DEF l
    <2>4. CASE ~Assigns(l)
        <3>1. Effect(Device, l) = Device
            BY <1>1, <2>2, <2>4, EffectOfLine
        <3> QED BY <2>1, <2>2, <2>4, <3>1 DEF Device
    <2> QED BY <2>3, <2>4
<1>4. CASE Reset
    <2>1. Effect(Device, l) = [Device EXCEPT !.params = Defaults]
        BY <1>1, <1>4, EffectOfLine DEF Reset
    <2>2. /\ params' = [params EXCEPT !.NAME = Defaults.NAME, !.DELAY = Defaults.DELAY]
          /\ UNCHANGED <<running, latched>>
        BY <1>4 DEF Reset
    <2>3. params' = Defaults
        BY <2>2 DEF Kept, Table, Defaults
    <2> HIDE DEF l, c
    <2> QED BY <2>1, <2>2, <2>3 DEF Device, l
<1>5. CASE Start
    <2>1. Effect(Device, l) = [Device EXCEPT !.running = TRUE, !.latched = Device.params.DELAY]
        BY <1>1, <1>5, EffectOfLine DEF Start
    <2>2. running' = TRUE /\ latched' = params.DELAY /\ UNCHANGED params
        BY <1>5 DEF Start
    <2> HIDE DEF l, c
    <2> QED BY <1>2, <2>1, <2>2 DEF Device, l
<1>6. CASE Stop
    <2>1. Effect(Device, l) = [Device EXCEPT !.running = FALSE]
        BY <1>1, <1>6, EffectOfLine DEF Stop
    <2>2. running' = FALSE /\ UNCHANGED <<params, latched>>
        BY <1>6 DEF Stop
    <2> HIDE DEF l, c
    <2> QED BY <2>1, <2>2 DEF Device, l
<1>7. CASE Get \/ Ping \/ Unknown
    <2>1. UNCHANGED device
        BY <1>7 DEF Get, Ping, Unknown
    <2>2. c \notin {"RESET", "START", "STOP", "SET"}
        BY <1>7 DEF Get, Ping, Unknown, Known, Verbs
    <2>3. Effect(Device, l) = Device
        BY <1>1, <2>2, EffectOfLine DEF Assigns
    <2> QED BY <2>1, <2>3 DEF Device, device
<1> QED BY <1>3, <1>4, <1>5, <1>6, <1>7

LEMMA ObeyedStep ==
    ASSUME Understood, Arrived, Framed, Kept, Logs, DoesWhatWasMeant, [Next]_vars
    PROVE  DoesWhatWasMeant'
<1> SUFFICES ASSUME ~cut' PROVE Device' = After(log')[Len(log')]
    BY DEF DoesWhatWasMeant, Device
<1>0. log \in Seq(Events)
    BY DEF Logs, Events
<1>1. ASSUME ~cut, UNCHANGED <<params, running, latched, log>> PROVE Device' = After(log')[Len(log')]
    BY <1>1 DEF DoesWhatWasMeant, Device
<1>2. ASSUME ~cut, NEW e \in Events, log' = Append(log, e), Device' = Effect(Device, e)
      PROVE  Device' = After(log')[Len(log')]
    <2>1. Len(log') = Len(log) + 1
        BY <1>0, <1>2, AppendProperties
    <2>2. After(log')[Len(log) + 1] = Effect(After(log)[Len(log)], e)
        BY <1>0, <1>2, AfterAppend
    <2>3. After(log)[Len(log)] = Device
        BY <1>2 DEF DoesWhatWasMeant, Device
    <2> QED BY <1>2, <2>1, <2>2, <2>3
<1>3. CASE ServerSends \/ Receive \/ UNCHANGED vars
    <2>1. ~cut /\ UNCHANGED <<params, running, latched, log>>
        BY <1>3 DEF ServerSends, Receive, vars, device, history, Arrived
    <2> QED BY <1>1, <2>1
<1>4. CASE Disconnect
    <2>1. ~cut /\ log' = Append(log, Hangup) /\ UNCHANGED <<params, latched>> /\ running' = FALSE
        BY <1>4 DEF Disconnect
    <2>2. Effect(Device, Hangup) = [Device EXCEPT !.running = FALSE]
        BY DEF Effect
    <2>3. Device' = Effect(Device, Hangup)
        BY <2>1, <2>2 DEF Device
    <2> QED BY <1>2, <2>1, <2>3 DEF Events
<1>5. CASE Set \/ Get \/ Reset \/ Start \/ Stop \/ Ping \/ Unknown
    <2>1. \E reply : Handled(reply)
        BY <1>5 DEF Set, Get, Reset, Start, Stop, Ping, Unknown, Handled
    <2>2. ~cut /\ todo # <<>> /\ log' = Append(log, Line)
        BY <2>1 DEF Handled, Sent, Logged
    <2>3. Line \in Events
        BY <2>2, NextLine DEF Events
    <2>4. Device' = Effect(Device, Line)
        BY <1>5, <2>2, LineHasItsEffect
    <2> QED BY <1>2, <2>2, <2>3, <2>4
<1> QED BY <1>3, <1>4, <1>5 DEF Next

(* Whatever the pieces and whatever becomes of the replies, the parameters *)
(* and the trigger are as the lines handled so far leave them, each with   *)
(* its own meaning (netprot_get_commands and the commands).                *)
THEOREM DoesWhatWasMeantAlways ==
    ASSUME Understood
    PROVE  Spec => []DoesWhatWasMeant
<1>1. Init => DoesWhatWasMeant
    <2> SUFFICES ASSUME Init PROVE DoesWhatWasMeant
        OBVIOUS
    <2>1. log = <<>> /\ Device = Start0
        BY DEF Init, Device, Start0
    <2>2. <<>> \in Seq(Events) /\ Len(<<>>) = 0
        BY EmptySeq
    <2>3. After(log)[Len(log)] = Start0
        BY <2>1, <2>2, AfterDef
    <2> QED BY <2>1, <2>3 DEF DoesWhatWasMeant, Device
<1>2. Arrived /\ Framed /\ Kept /\ Logs /\ DoesWhatWasMeant /\ [Next]_vars => DoesWhatWasMeant'
    BY ObeyedStep
<1> QED BY <1>1, <1>2, KeptAlways, PTL DEF Spec

\* What the server expects for a line that is understood
LEMMA ExpectedOfLine ==
    ASSUME Understood, NEW s, NEW l \in Lines
    PROVE  LET args == Arguments(l)
               all  == DOMAIN Attrs
           IN  /\ Command(l) = "SET" => Expected(s, l) = Text(SetReply(args, all))
               /\ Command(l) = "GET" => Expected(s, l) = GetReply(args, all, s.params)
               /\ Command(l) \in {"RESET", "STOP"} => Expected(s, l) = Text("+OK")
               /\ Command(l) = "PING" => Expected(s, l) = Text("+PONG")
               /\ Command(l) \in {"START", "+OK"} => Expected(s, l) = Empty
<1> DEFINE args == Arguments(l)
           all == DOMAIN Attrs
           c == Command(l)
           m == Meaning[l]
<1>1. m = Sense(l)
    BY DEF Understood
<1>2. ASSUME NEW do, do # "show", NEW a, NEW x, NEW r, m = Reading(do, a, x, r)
      PROVE  Expected(s, l) = Text(r)
    <2>1. m.do = do /\ m.reply = r
        BY <1>2, Fields
    <2> QED BY <1>2, <2>1 DEF Expected
<1>3. CASE c = "SET" /\ Assigns(l)
    <2>1. m = Reading("assign", AttrOf(args), Value(args), "+OK")
        BY <1>1, <1>3 DEF Sense
    <2>2. Expected(s, l) = Text("+OK")
        BY <1>2, <2>1
    <2>3. SetReply(args, all) = "+OK"
        BY <1>3 DEF Assigns
    <2> QED BY <1>3, <2>2, <2>3
<1>4. CASE c = "SET" /\ ~Assigns(l)
    <2>1. m = Reading("none", Blank, 0, SetReply(args, all))
        BY <1>1, <1>4 DEF Sense
    <2>2. Expected(s, l) = Text(SetReply(args, all))
        BY <1>2, <2>1
    <2> QED BY <1>4, <2>2
<1>5. CASE c = "GET" /\ Shows(args, all)
    <2>1. m = Reading("show", AttrOf(args), 0, Blank)
        BY <1>1, <1>5 DEF Sense
    <2>2. m.do = "show" /\ m.attr = AttrOf(args)
        BY <2>1, Fields
    <2>3. Expected(s, l) = Shown(AttrOf(args), s.params)
        BY <2>2 DEF Expected, Shown
    <2> QED BY <1>5, <2>3 DEF GetReply
<1>6. CASE c = "GET" /\ ~Shows(args, all)
    <2>1. m = Reading("none", Blank, 0, GetText(args, all))
        BY <1>1, <1>6 DEF Sense
    <2>2. Expected(s, l) = Text(GetText(args, all))
        BY <1>2, <2>1
    <2> QED BY <1>6, <2>2 DEF GetReply
<1>7. CASE c \in {"RESET", "STOP"}
    <2>1. m = Reading("reset", Blank, 0, "+OK") \/ m = Reading("stop", Blank, 0, "+OK")
        BY <1>1, <1>7 DEF Sense
    <2>2. Expected(s, l) = Text("+OK")
        BY <1>2, <2>1
    <2> QED BY <1>7, <2>2
<1>8. CASE c = "PING"
    <2>1. m = Reading("none", Blank, 0, "+PONG")
        BY <1>1, <1>8 DEF Sense
    <2>2. Expected(s, l) = Text("+PONG")
        BY <1>2, <2>1
    <2> QED BY <1>8, <2>2
<1>9. CASE c \in {"START", "+OK"}
    <2>1. m = Reading("start", Blank, 0, Blank) \/ m = Reading("none", Blank, 0, Blank)
        BY <1>1, <1>9 DEF Sense
    <2>2. Expected(s, l) = Text(Blank)
        BY <1>2, <2>1
    <2>3. Text(Blank) = Empty
        BY DEF Blank, Empty
    <2> QED BY <1>9, <2>2, <2>3
<1> QED BY <1>3, <1>4, <1>5, <1>6, <1>7, <1>8, <1>9

\* A line is answered as expected, if it is in the table of commands.
LEMMA ReplyIsExpected ==
    ASSUME Understood, Arrived, Framed, Kept, ~cut, ~lost, todo # <<>>,
           Set \/ Get \/ Reset \/ Start \/ Stop \/ Ping \/ Unknown
    PROVE  \E reply : Handled(reply) /\ (Known(Line) => reply = Expected(Device, Line))
<1>1. Line \in Lines
    BY NextLine
<1>2. Objects = DOMAIN Attrs
    BY DEF Objects
<1>3. Device.params = params
    BY DEF Device
<1> DEFINE l == Line
<1>4. CASE Set
    <2>1. Handled(Text(SetReply(Arguments(l), Objects))) /\ Command(l) = "SET"
        BY <1>4 DEF Set, Handled
    <2>2. Expected(Device, l) = Text(SetReply(Arguments(l), DOMAIN Attrs))
        BY <1>1, <2>1, ExpectedOfLine
    <2> QED BY <1>2, <2>1, <2>2
<1>5. CASE Get
    <2>1. Handled(GetReply(Arguments(l), Objects, params)) /\ Command(l) = "GET"
        BY <1>5 DEF Get, Handled
    <2>2. Expected(Device, l) = GetReply(Arguments(l), DOMAIN Attrs, Device.params)
        BY <1>1, <2>1, ExpectedOfLine
    <2> QED BY <1>2, <1>3, <2>1, <2>2
<1>6. CASE Reset \/ Stop
    <2>1. Handled(Text("+OK")) /\ Command(l) \in {"RESET", "STOP"}
        BY <1>6 DEF Reset, Stop, Handled
    <2>2. Expected(Device, l) = Text("+OK")
        BY <1>1, <2>1, ExpectedOfLine
    <2> QED BY <2>1, <2>2
<1>7. CASE Start
    <2>1. Handled(Empty) /\ Command(l) = "START"
        BY <1>7 DEF Start, StartReply, Handled
    <2>2. Expected(Device, l) = Empty
        BY <1>1, <2>1, ExpectedOfLine
    <2> QED BY <2>1, <2>2
<1>8. CASE Ping
    <2>1. \/ Command(l) = "PING" /\ Handled(Text("+PONG"))
          \/ Command(l) = "+OK" /\ Handled(Empty)
        BY <1>8 DEF Ping, Handled
    <2>2. /\ Command(l) = "PING" => Expected(Device, l) = Text("+PONG")
          /\ Command(l) = "+OK" => Expected(Device, l) = Empty
        BY <1>1, ExpectedOfLine
    <2> QED BY <2>1, <2>2
<1>9. CASE Unknown
    BY <1>9 DEF Unknown, Handled
<1> QED BY <1>4, <1>5, <1>6, <1>7, <1>8, <1>9

LEMMA OwnStep ==
    ASSUME Understood, Arrived, Framed, Kept, Logs, DoesWhatWasMeant, AnswersAreOwn, [Next]_vars
    PROVE  AnswersAreOwn'
<1> DEFINE Own(es, as, i) == es[i] # Hangup /\ Known(es[i]) =>
                                as[i] \in {Expected(After(es)[i - 1], es[i]), Truncated}
<1> SUFFICES ASSUME ~cut', ~lost' PROVE \A i \in 1 .. Len(log') : Own(log', answers', i)
    BY DEF AnswersAreOwn
<1>0. log \in Seq(Events) /\ Len(answers) = Len(log) /\ Len(log) \in Nat
    BY LenProperties DEF Logs, Events
<1>00. PICK S : answers \in Seq(S)
    BY DEF Logs
<1>1. ASSUME ~cut, ~lost PROVE \A i \in 1 .. Len(log) : Own(log, answers, i)
    BY <1>1 DEF AnswersAreOwn
<1>2. ASSUME ~cut, ~lost, UNCHANGED <<log, answers>> PROVE \A i \in 1 .. Len(log') : Own(log', answers', i)
    BY <1>1, <1>2
<1>3. ASSUME ~cut, ~lost, NEW e \in Events, NEW a, log' = Append(log, e), answers' = Append(answers, a),
             e # Hangup /\ Known(e) => a \in {Expected(Device, e), Truncated}
      PROVE  \A i \in 1 .. Len(log') : Own(log', answers', i)
    <2>1. /\ Len(log') = Len(log) + 1 /\ log'[Len(log) + 1] = e
          /\ \A i \in 1 .. Len(log) : log'[i] = log[i]
        BY <1>0, <1>3, AppendProperties
    <2>2. answers'[Len(log) + 1] = a /\ \A i \in 1 .. Len(log) : answers'[i] = answers[i]
        <3> DEFINE Q == S \cup {a}
        <3>1. answers \in Seq(Q) /\ a \in Q
            <4>1. S \subseteq Q /\ a \in Q
                OBVIOUS
            <4> HIDE DEF Q
            <4> QED BY <1>00, <4>1, SeqMonotonic
        <3> HIDE DEF Q
        <3> QED BY <1>0, <1>3, <3>1, AppendProperties
    <2>3. \A k \in 0 .. Len(log) : After(log')[k] = After(log)[k]
        BY <1>0, <1>3, AfterAppend
    <2>4. ASSUME NEW i \in 1 .. Len(log) PROVE Own(log', answers', i)
        <3>1. log'[i] = log[i] /\ answers'[i] = answers[i] /\ After(log')[i - 1] = After(log)[i - 1]
            <4>1. i - 1 \in 0 .. Len(log)
                BY <1>0
            <4> QED BY <2>1, <2>2, <2>3, <4>1
        <3>2. Own(log, answers, i)
            BY <1>1, <1>3
        <3> QED BY <3>1, <3>2
    <2>5. Own(log', answers', Len(log) + 1)
        <3>1. After(log')[(Len(log) + 1) - 1] = Device
            <4>1. (Len(log) + 1) - 1 = Len(log) /\ Len(log) \in 0 .. Len(log)
                BY <1>0
            <4>2. After(log)[Len(log)] = Device
                BY <1>3 DEF DoesWhatWasMeant, Device
            <4> QED BY <2>3, <4>1, <4>2
        <3> QED BY <1>3, <2>1, <2>2, <3>1
    <2> HIDE DEF Own
    <2> QED BY <1>0, <2>1, <2>4, <2>5
<1> HIDE DEF Own
<1>4. CASE ServerSends \/ Receive \/ UNCHANGED vars
    <2>1. ~cut /\ ~lost /\ UNCHANGED <<log, answers>>
        BY <1>4 DEF ServerSends, Receive, vars, device, history, Arrived
    <2> QED BY <1>2, <2>1
<1>5. CASE Disconnect
    <2>1. ~cut /\ ~lost /\ log' = Append(log, Hangup) /\ answers' = Append(answers, Closed)
        BY <1>5 DEF Disconnect
    <2> QED BY <1>3, <2>1 DEF Events
<1>6. CASE Set \/ Get \/ Reset \/ Start \/ Stop \/ Ping \/ Unknown
    <2>1. todo # <<>> /\ ~cut /\ ~lost
        <3>1. \E reply : Handled(reply)
            BY <1>6 DEF Set, Get, Reset, Start, Stop, Ping, Unknown, Handled
        <3>2. todo # <<>> /\ ~cut
            BY <3>1 DEF Handled, Sent
        <3>3. lost' = lost \/ lost' = TRUE
            BY <1>6 DEF Set, Get, Reset, Start, Stop, Ping, Unknown, device
        <3>4. ~lost
            BY <3>3, Zenon DEF Kept
        <3> QED BY <3>2, <3>4
    <2>2. PICK reply : Handled(reply) /\ (Known(Line) => reply = Expected(Device, Line))
        BY <1>6, <2>1, ReplyIsExpected
    <2>3. PICK a \in {reply, Truncated} : log' = Append(log, Line) /\ answers' = Append(answers, a)
        BY <2>1, <2>2 DEF Handled, Sent, Logged
    <2>4. Line \in Events
        BY <2>1, NextLine DEF Events
    <2> QED BY <1>3, <2>1, <2>2, <2>3, <2>4
<1> QED BY <1>4, <1>5, <1>6 DEF Next

(* A reply the server gets whole is that of its line, with the value of    *)
(* that moment, however many lines wait and whatever became of the replies *)
(* before it (outstr in netprot_get_commands).                             *)
THEOREM AnswersAreOwnAlways ==
    ASSUME Understood
    PROVE  Spec => []AnswersAreOwn
<1>1. Init => AnswersAreOwn
    <2> SUFFICES ASSUME Init PROVE AnswersAreOwn
        OBVIOUS
    <2>1. Len(log) = 0
        BY EmptySeq DEF Init
    <2> QED BY <2>1 DEF AnswersAreOwn
<1>2. Arrived /\ Framed /\ Kept /\ Logs /\ DoesWhatWasMeant /\ AnswersAreOwn /\ [Next]_vars => AnswersAreOwn'
    BY OwnStep
<1> QED BY <1>1, <1>2, KeptAlways, DoesWhatWasMeantAlways, PTL DEF Spec
-----------------------------------------------------------------------------
(* Cut lines.  What is handled is always a stretch of a line that was      *)
(* sent.  The theorem is for lines of which only the beginning can be an   *)
(* assignment: one inside a name would be as good as any.                  *)

NoneInside == \A l \in Lines : \A i \in 2 .. Len(l) : \A j \in i .. Len(l) : ~Assigns(SubSeq(l, i, j))

PartOf(l, ms) == \E m \in ms : \E i \in 1 .. Len(m) : \E j \in i .. Len(m) : l = SubSeq(m, i, j)

Parts ==
    /\ \A k \in 1 .. Len(todo) : PartOf(todo[k], asked)
    /\ \A i \in 1 .. Len(stream) : \A j \in i .. Len(stream) :
          Unbroken(stream, i, j) => PartOf(SubSeq(stream, i, j), asked)

\* Two sequences that agree on a stretch, here and d further on there
LEMMA SameStretch ==
    ASSUME NEW S, NEW s \in Seq(S), NEW t \in Seq(S), NEW i \in Int, NEW j \in Int, NEW d \in Int,
           \A k \in i .. j : k \in 1 .. Len(s) /\ k + d \in 1 .. Len(t) /\ s[k] = t[k + d]
    PROVE  SubSeq(s, i, j) = SubSeq(t, i + d, j + d)
<1>1. (\A k \in 1 .. Len(s) : s[k] \in S) /\ (\A k \in 1 .. Len(t) : t[k] \in S)
    BY ElementOfSeq
<1>2. \A k \in i .. j : s[k] \in S
    BY <1>1
<1>3. \A k \in i + d .. j + d : t[k] \in S
    <2> TAKE k \in i + d .. j + d
    <2>1. k - d \in i .. j /\ (k - d) + d = k
        OBVIOUS
    <2> QED BY <1>1, <2>1
<1> DEFINE a == SubSeq(s, i, j)
           b == SubSeq(t, i + d, j + d)
<1>4. /\ a \in Seq(S) /\ Len(a) = IF i <= j THEN j - i + 1 ELSE 0
      /\ \A k \in 1 .. j - i + 1 : a[k] = s[i + k - 1]
    BY <1>2, SubSeqProperties
<1>5. /\ b \in Seq(S) /\ Len(b) = IF i + d <= j + d THEN (j + d) - (i + d) + 1 ELSE 0
      /\ \A k \in 1 .. (j + d) - (i + d) + 1 : b[k] = t[(i + d) + k - 1]
    BY <1>3, SubSeqProperties
<1> HIDE DEF a, b
<1>6. Len(a) = Len(b)
    BY <1>4, <1>5
<1>7. ASSUME NEW k \in 1 .. Len(a) PROVE a[k] = b[k]
    <2>1. k \in 1 .. j - i + 1 /\ (j + d) - (i + d) + 1 = j - i + 1
        BY <1>4
    <2>2. i + k - 1 \in i .. j /\ (i + k - 1) + d = (i + d) + k - 1
        BY <2>1
    <2>3. a[k] = s[i + k - 1]
        BY <1>4, <2>1
    <2>4. b[k] = t[(i + d) + k - 1]
        BY <1>5, <2>1
    <2> QED BY <2>2, <2>3, <2>4
<1>8. a = b
    BY <1>4, <1>5, <1>6, <1>7, SeqEqual
<1> QED BY <1>8 DEF a, b

LEMMA PartsStay ==
    ASSUME NEW l, NEW ms, NEW more, ms \subseteq more, PartOf(l, ms)
    PROVE  PartOf(l, more)
BY DEF PartOf

LEMMA PartsStep ==
    ASSUME Arrived, Parts, [Next]_vars
    PROVE  Parts'
<1>0. stream \in Seq(Words) /\ Len(stream) \in Nat /\ Ends(stream) /\ asked \subseteq Lines
    BY LenProperties DEF Arrived
<1> DEFINE m == Len(stream)
<1>1. CASE ServerSends
    <2>1. PICK l \in Lines : /\ stream' = stream \o Append(l, EOL)
                             /\ asked' = asked \cup {l} /\ UNCHANGED todo
        BY <1>1 DEF ServerSends
    <2> DEFINE e == Append(l, EOL)
               n == Len(l)
    <2>2. l \in Seq(Words) /\ e \in Seq(Words) /\ n \in Nat
        BY LinesAreTexts, LenProperties DEF Texts
    <2>3. Len(e) = n + 1 /\ e[n + 1] = EOL /\ \A k \in 1 .. n : e[k] = l[k]
        <3>1. EOL \in Words
            BY DEF Words
        <3> QED BY <2>2, <3>1, AppendProperties
    <2> HIDE DEF e, n
    <2>4. /\ stream' \in Seq(Words) /\ Len(stream') = m + (n + 1)
          /\ \A k \in 1 .. m + (n + 1) : stream'[k] = IF k <= m THEN stream[k] ELSE e[k - m]
        <3>1. stream' = stream \o e
            BY <2>1 DEF e
        <3>2. /\ stream \o e \in Seq(Words) /\ Len(stream \o e) = m + Len(e)
              /\ \A k \in 1 .. m + Len(e) : (stream \o e)[k] = IF k <= m THEN stream[k] ELSE e[k - m]
            BY <1>0, <2>2, ConcatProperties
        <3> QED BY <2>3, <3>1, <3>2
    <2>5. ASSUME NEW i \in 1 .. Len(stream'), NEW j \in i .. Len(stream'), Unbroken(stream', i, j)
          PROVE  PartOf(SubSeq(stream', i, j), asked')
        <3>1. i \in Nat /\ j \in Nat /\ 1 <= i /\ i <= j /\ j <= m + (n + 1)
            BY <1>0, <2>2, <2>4
        <3>2. CASE j <= m
            <4>1. i \in 1 .. m /\ j \in i .. m
                BY <1>0, <3>1, <3>2
            <4>2. \A k \in i .. j : k \in 1 .. Len(stream') /\ k + 0 \in 1 .. m /\ stream'[k] = stream[k + 0]
                BY <1>0, <2>2, <2>4, <3>1, <3>2
            <4>3. SubSeq(stream', i, j) = SubSeq(stream, i + 0, j + 0)
                BY <1>0, <2>4, <3>1, <4>2, SameStretch
            <4>4. i + 0 = i /\ j + 0 = j
                BY <3>1
            <4>5. Unbroken(stream, i, j)
                BY <2>5, <4>2, <3>1 DEF Unbroken
            <4>6. PartOf(SubSeq(stream, i, j), asked)
                BY <4>1, <4>5 DEF Parts
            <4> QED BY <2>1, <4>3, <4>4, <4>6, PartsStay
        <3>3. CASE j > m
            <4>1. i > m
                <5> SUFFICES ASSUME i <= m PROVE FALSE
                    BY <1>0, <3>1
                <5>1. m \in i .. j /\ m \in 1 .. m + (n + 1) /\ m # 0
                    BY <1>0, <2>2, <3>1, <3>3
                <5>2. stream[m] = EOL
                    BY <1>0, <5>1, EmptySeq DEF Ends
                <5>3. stream'[m] = EOL
                    BY <1>0, <2>4, <5>1, <5>2
                <5> QED BY <2>5, <5>1, <5>3 DEF Unbroken
            <4>2. j <= m + n
                <5> SUFFICES ASSUME j = m + (n + 1) PROVE FALSE
                    BY <1>0, <2>2, <3>1
                <5>1. j \in i .. j /\ j \in 1 .. m + (n + 1) /\ ~(j <= m) /\ j - m = n + 1
                    BY <1>0, <2>2, <3>1, <3>3
                <5>2. stream'[j] = EOL
                    BY <2>3, <2>4, <5>1
                <5> QED BY <2>5, <5>1, <5>2 DEF Unbroken
            <4>3. ASSUME NEW k \in i .. j PROVE k \in 1 .. Len(stream') /\ k + (-m) \in 1 .. n /\ stream'[k] = l[k + (-m)]
                <5>1. k \in 1 .. m + (n + 1) /\ ~(k <= m) /\ k - m = k + (-m) /\ k - m \in 1 .. n
                    BY <1>0, <2>2, <3>1, <4>1, <4>2
                <5> QED BY <2>3, <2>4, <5>1
            <4>4. SubSeq(stream', i, j) = SubSeq(l, i + (-m), j + (-m))
                <5>1. i \in Int /\ j \in Int /\ -m \in Int
                    BY <1>0, <3>1
                <5> QED BY <2>2, <2>4, <4>3, <5>1, SameStretch DEF n
            <4>5. i + (-m) \in 1 .. n /\ j + (-m) \in i + (-m) .. n
                BY <1>0, <2>2, <3>1, <4>1, <4>2
            <4>6. l \in asked'
                BY <2>1
            <4> QED BY <4>4, <4>5, <4>6 DEF PartOf, n
        <3> QED BY <1>0, <3>1, <3>2, <3>3
    <2>6. ASSUME NEW k \in 1 .. Len(todo') PROVE PartOf(todo'[k], asked')
        <3>1. PartOf(todo[k], asked) /\ todo' = todo
            BY <2>1 DEF Parts
        <3> QED BY <2>1, <3>1, PartsStay
    <2> QED BY <2>5, <2>6 DEF Parts
<1>2. CASE Receive
    <2>1. PICK n \in 1 .. m : /\ todo' = strtok(SubSeq(stream, 1, n))
                              /\ stream' = SubSeq(stream, n + 1, m)
        BY <1>2 DEF Receive
    <2>2. asked' = asked
        BY <1>2 DEF Receive
    <2> DEFINE a == SubSeq(stream, 1, n)
               b == SubSeq(stream, n + 1, m)
    <2>3. n \in Nat /\ 1 <= n /\ n <= m /\ \A k \in 1 .. m : stream[k] \in Words
        BY <1>0, ElementOfSeq
    <2>4. a \in Seq(Words) /\ Len(a) = n /\ \A k \in 1 .. n : a[k] = stream[k]
        <3>1. \A k \in 1 .. n : stream[k] \in Words
            BY <1>0, <2>3
        <3>2. /\ SubSeq(stream, 1, n) \in Seq(Words)
              /\ Len(SubSeq(stream, 1, n)) = IF 1 <= n THEN n - 1 + 1 ELSE 0
              /\ \A k \in 1 .. n - 1 + 1 : SubSeq(stream, 1, n)[k] = stream[1 + k - 1]
            BY <2>3, <3>1, SubSeqProperties
        <3>3. n - 1 + 1 = n /\ \A k \in 1 .. n : 1 + k - 1 = k
            BY <2>3
        <3> HIDE DEF a
        <3> QED BY <2>3, <3>2, <3>3 DEF a
    <2>5. b \in Seq(Words) /\ Len(b) = m - n /\ \A k \in 1 .. m - n : b[k] = stream[k + n]
        <3>1. \A k \in n + 1 .. m : stream[k] \in Words
            BY <1>0, <2>3
        <3>2. n + 1 \in Int /\ m \in Int /\ m - (n + 1) + 1 = m - n /\ \A k \in Nat : (n + 1) + k - 1 = k + n
            BY <1>0, <2>3
        <3>3. /\ SubSeq(stream, n + 1, m) \in Seq(Words)
              /\ Len(SubSeq(stream, n + 1, m)) = IF n + 1 <= m THEN m - (n + 1) + 1 ELSE 0
              /\ \A k \in 1 .. m - (n + 1) + 1 : SubSeq(stream, n + 1, m)[k] = stream[(n + 1) + k - 1]
            BY <3>1, <3>2, SubSeqProperties
        <3>4. Len(b) = m - n
            BY <1>0, <2>3, <3>3
        <3> HIDE DEF b
        <3>5. ASSUME NEW k \in 1 .. m - n PROVE b[k] = stream[k + n]
            <4>1. k \in 1 .. m - (n + 1) + 1 /\ (n + 1) + k - 1 = k + n
                BY <1>0, <2>3, <3>2
            <4> QED BY <3>3, <4>1 DEF b
        <3> QED BY <3>3, <3>4, <3>5 DEF b
    <2> HIDE DEF a, b
    <2>6. ASSUME NEW q \in 1 .. Len(todo') PROVE PartOf(todo'[q], asked')
        <3>1. todo' = strtok(a)
            BY <2>1 DEF a
        <3>2. Inside(todo'[q], a, n)
            BY <2>4, <3>1, LinesAreInside
        <3>3. PICK i \in 1 .. n : \E j \in i .. n : Unbroken(a, i, j) /\ todo'[q] = SubSeq(a, i, j)
            BY <3>2 DEF Inside
        <3>4. PICK j \in i .. n : Unbroken(a, i, j) /\ todo'[q] = SubSeq(a, i, j)
            BY <3>3
        <3>5. i \in Int /\ j \in Int /\ i + 0 = i /\ j + 0 = j /\ i \in 1 .. m /\ j \in i .. m
            BY <1>0, <2>3
        <3>6. \A k \in i .. j : k \in 1 .. Len(a) /\ k + 0 \in 1 .. m /\ a[k] = stream[k + 0]
            BY <1>0, <2>3, <2>4
        <3>7. SubSeq(a, i, j) = SubSeq(stream, i, j)
            BY <1>0, <2>4, <3>5, <3>6, SameStretch
        <3>8. Unbroken(stream, i, j)
            <4> SUFFICES ASSUME NEW k \in i .. j PROVE stream[k] # EOL
                BY DEF Unbroken
            <4>1. k + 0 = k /\ a[k] # EOL
                BY <3>4, <3>5 DEF Unbroken
            <4> QED BY <3>6, <4>1
        <3> QED BY <2>2, <3>4, <3>5, <3>7, <3>8 DEF Parts
    <2>7. ASSUME NEW i \in 1 .. Len(stream'), NEW j \in i .. Len(stream'), Unbroken(stream', i, j)
          PROVE  PartOf(SubSeq(stream', i, j), asked')
        <3>0. stream' = b
            BY <2>1 DEF b
        <3>1. i \in Int /\ j \in Int /\ n \in Int /\ i + n \in 1 .. m /\ j + n \in i + n .. m
            BY <1>0, <2>3, <2>5, <3>0
        <3>2. \A k \in i .. j : k \in 1 .. Len(b) /\ k + n \in 1 .. m /\ b[k] = stream[k + n]
            BY <1>0, <2>3, <2>5, <3>0
        <3>3. SubSeq(b, i, j) = SubSeq(stream, i + n, j + n)
            <4>1. b \in Seq(Words) /\ stream \in Seq(Words) /\ m = Len(stream)
                BY <1>0, <2>5
            <4>2. \A k \in i .. j : k \in 1 .. Len(b) /\ k + n \in 1 .. Len(stream) /\ b[k] = stream[k + n]
                BY <3>2, <4>1
            <4> QED BY <3>1, <4>1, <4>2, SameStretch
        <3>4. Unbroken(stream, i + n, j + n)
            <4> SUFFICES ASSUME NEW k \in i + n .. j + n PROVE stream[k] # EOL
                BY DEF Unbroken
            <4>1. k - n \in i .. j /\ (k - n) + n = k
                BY <2>3, <3>1
            <4> QED BY <2>7, <3>0, <3>2, <4>1 DEF Unbroken
        <3>5. PartOf(SubSeq(stream, i + n, j + n), asked)
            BY <3>1, <3>4 DEF Parts
        <3> QED BY <2>2, <3>0, <3>3, <3>5
    <2> QED BY <2>6, <2>7 DEF Parts
<1>3. CASE Disconnect
    <2>1. Len(todo') = 0 /\ Len(stream') = 0
        BY <1>3, EmptySeq DEF Disconnect
    <2> QED BY <2>1 DEF Parts
<1>4. ASSUME NEW reply, Handled(reply) PROVE Parts'
    <2>1. todo # <<>> /\ UNCHANGED <<stream, asked>> /\ (todo' = <<>> \/ todo' = Tail(todo))
        BY <1>4 DEF Handled, Sent, LinesLeft
    <2> DEFINE T == Seq(Tokens)
    <2>2. todo \in Seq(T)
        BY DEF Arrived
    <2> HIDE DEF T
    <2>3. /\ Len(Tail(todo)) = Len(todo) - 1 /\ Len(todo) \in Nat
          /\ \A k \in 1 .. Len(todo) - 1 : Tail(todo)[k] = todo[k + 1]
        BY <2>1, <2>2, HeadTailProperties, LenProperties
    <2>4. ASSUME NEW k \in 1 .. Len(todo') PROVE PartOf(todo'[k], asked')
        <3>1. todo' = Tail(todo)
            BY <2>1, EmptySeq
        <3>2. k + 1 \in 1 .. Len(todo) /\ todo'[k] = todo[k + 1]
            BY <2>3, <3>1
        <3> QED BY <2>1, <3>2 DEF Parts
    <2> QED BY <2>1, <2>4 DEF Parts
<1>5. CASE UNCHANGED vars
    BY <1>5 DEF vars, history, Parts
<1> QED BY <1>1, <1>2, <1>3, <1>4, <1>5, Steps

\* The arguments of SET, if it accepts them, are the words behind it.
LEMMA SetIsOneWord ==
    ASSUME NEW l \in Seq(Tokens), l # <<>>, Command(l) = "SET", ObjectOf(Arguments(l)) = "CHANNEL",
           AttrOf(Arguments(l)) \in {"NAME", "DELAY"}
    PROVE  l[1] \in Verbs /\ Word(Tail(l), 1) \notin DOMAIN Longer /\ Arguments(l) = Tail(l)
<1> DEFINE args == IF l[1] \in Verbs THEN Tail(l) ELSE l
           w == Word(args, 1)
<1>1. args \in Seq(Tokens)
    BY TailIsSeq
<1>2. ASSUME w \in DOMAIN Longer PROVE FALSE
    <2>1. args # <<>>
        <3>1. w # ""
            <4> HIDE DEF w
            <4>1. "" \notin DOMAIN Longer
                BY CommandsAssumption
            <4> QED BY <1>2, <4>1
        <3>2. ASSUME args = <<>> PROVE FALSE
            <4> HIDE DEF args
            <4>1. 1 \notin 1 .. Len(args)
                BY <3>2, EmptySeq
            <4>2. w = ""
                BY <4>1 DEF Word
            <4> QED BY <3>1, <4>2
        <3> QED BY <3>2
    <2> DEFINE x == <<Longer[w]>> \o args
    <2>2. Arguments(l) = x
        BY <1>2 DEF Arguments
    <2>3. Longer[w] \in Tokens
        <3> HIDE DEF w
        <3> QED BY <1>2 DEF Tokens, Range
    <2>4. /\ x \in Seq(Tokens) /\ Len(x) = 1 + Len(args) /\ x[1] = Longer[w]
          /\ Len(args) >= 1 => x[2] = args[1]
        <3> HIDE DEF args, w
        <3>1. <<Longer[w]>> \in Seq(Tokens) /\ Len(<<Longer[w]>>) = 1 /\ <<Longer[w]>>[1] = Longer[w]
            BY <2>3
        <3> QED BY <1>1, <3>1, ConcatProperties
    <2>5. Len(args) >= 1 /\ w = args[1]
        <3> HIDE DEF args
        <3>1. Len(args) >= 1
            BY <1>1, <2>1, EmptySeq, LenProperties
        <3> QED BY <1>1, <3>1 DEF Word
    <2> HIDE DEF args, w, x
    <2>6. Word(x, 1) = Longer[w] /\ Word(x, 2) = w
        <3>1. Len(args) \in Nat
            BY <1>1, LenProperties
        <3>2. 1 \in 1 .. Len(x) /\ 2 \in 1 .. Len(x)
            BY <2>4, <2>5, <3>1
        <3> QED BY <2>4, <2>5, <3>2 DEF Word
    <2>7. ObjectOf(x) = Longer[w] /\ AttrOf(x) = Longer[w]
        BY <1>2, <2>6 DEF ObjectOf, AttrOf, NameIn
    <2> QED BY <2>2, <2>7
<1>3. Arguments(l) = args /\ w \notin DOMAIN Longer
    BY <1>2 DEF Arguments
<1>4. CASE l[1] \in Verbs
    BY <1>3, <1>4
<1>5. CASE l[1] \notin Verbs
    <2>1. Word(l, 1) = "CHANNEL"
        BY <1>3, <1>5 DEF ObjectOf
    <2>2. 1 \in 1 .. Len(l)
        BY LenProperties, EmptySeq
    <2>3. l[1] = "CHANNEL"
        BY <2>1, <2>2 DEF Word
    <2>4. "CHANNEL" \notin DOMAIN Longer
        BY CommandsAssumption DEF Attrs
    <2>5. Command(l) = "CHANNEL"
        BY <2>3, <2>4 DEF Command, NameIn
    <2> QED BY <2>5
<1> QED BY <1>4, <1>5

(* The beginning of a line, if it is an assignment, makes the whole line   *)
(* one: of the same text, or of a number that begins like it.              *)
LEMMA BeginningAssigns ==
    ASSUME NEW l \in Seq(Tokens), NEW j \in 1 .. Len(l), Assigns(SubSeq(l, 1, j))
    PROVE  LET p == SubSeq(l, 1, j)
               a == AttrOf(Arguments(p))
           IN  /\ Assigns(l) /\ AttrOf(Arguments(l)) = a /\ a \in {"NAME", "DELAY"}
               /\ a = "NAME" => Value(Arguments(l)) = Value(Arguments(p))
               /\ a = "DELAY" => j \in 5 .. Len(l) /\ Value(Arguments(p)) = strtol(SubSeq(l, 5, j))
<1> DEFINE p == SubSeq(l, 1, j)
           n == Len(l)
<1>1. n \in Nat /\ j \in Nat /\ 1 <= j /\ j <= n
    BY LenProperties
<1>2. p \in Seq(Tokens) /\ Len(p) = j /\ \A k \in 1 .. j : p[k] = l[k]
    <2>1. \A k \in 1 .. j : l[k] \in Tokens
        BY <1>1, ElementOfSeq
    <2>2. /\ p \in Seq(Tokens) /\ Len(p) = IF 1 <= j THEN j - 1 + 1 ELSE 0
          /\ \A k \in 1 .. j - 1 + 1 : p[k] = l[1 + k - 1]
        BY <1>1, <2>1, SubSeqProperties
    <2> QED BY <1>1, <2>2
<1> HIDE DEF p
<1>3. p # <<>> /\ l # <<>> /\ p[1] = l[1] /\ Command(l) = Command(p)
    BY <1>1, <1>2, EmptySeq DEF Command
<1> DEFINE pa == Arguments(p)
           la == Arguments(l)
           a == AttrOf(pa)
           v == ValueOf(pa)
           w == ValueOf(la)
           all == DOMAIN Attrs
<1>4. Command(p) = "SET" /\ SetReply(pa, all) = "+OK" /\ all \in SUBSET DOMAIN Attrs
    BY DEF Assigns, p
<1>5. pa \in Seq(Tokens)
    BY <1>2, ArgumentsAreTokens
<1>6. /\ ObjectOf(pa) = "CHANNEL" /\ "CHANNEL" \in all
      /\ IsAssignment(pa) /\ SameType(v, a) /\ a \in {"NAME", "DELAY"}
      /\ a = "NAME" => /\ ~IsNumber(v) /\ IsString(v) /\ Value(pa) = Content(v) /\ ~TooLong(Value(pa))
      /\ a = "DELAY" => IsNumber(v) /\ Value(pa) = strtol(v)
    BY <1>4, <1>5, Accepted
<1>7. pa = Tail(p) /\ la = Tail(l)
    <2>1. p[1] \in Verbs /\ Word(Tail(p), 1) \notin DOMAIN Longer /\ Arguments(p) = Tail(p)
        BY <1>2, <1>3, <1>4, <1>6, SetIsOneWord
    <2>2. Word(Tail(p), 1) = "CHANNEL"
        BY <1>6, <2>1 DEF ObjectOf
    <2>3. 1 \in 1 .. Len(Tail(p))
        BY <2>2 DEF Word
    <2>4. /\ Len(Tail(p)) = j - 1 /\ Tail(p)[1] = p[2]
          /\ Len(Tail(l)) = Len(l) - 1 /\ Tail(l)[1] = l[2]
        <3>1. /\ Len(Tail(p)) = Len(p) - 1 /\ \A k \in 1 .. Len(p) - 1 : Tail(p)[k] = p[k + 1]
            BY <1>2, <1>3, HeadTailProperties
        <3>2. /\ Len(Tail(l)) = Len(l) - 1 /\ \A k \in 1 .. Len(l) - 1 : Tail(l)[k] = l[k + 1]
            BY <1>3, HeadTailProperties
        <3>3. 1 \in 1 .. Len(p) - 1 /\ 1 \in 1 .. Len(l) - 1 /\ 1 + 1 = 2
            BY <1>1, <1>2, <2>3, <3>1
        <3> QED BY <1>2, <3>1, <3>2, <3>3
    <2>5. Word(Tail(l), 1) = Word(Tail(p), 1)
        <3>1. 1 \in 1 .. Len(Tail(l)) /\ p[2] = l[2]
            BY <1>1, <1>2, <2>3, <2>4
        <3> QED BY <2>3, <2>4, <3>1 DEF Word
    <2> QED BY <1>3, <2>1, <2>5 DEF Arguments
<1> HIDE DEF pa, la, n
<1>8. /\ la \in Seq(Tokens) /\ Len(pa) = j - 1 /\ Len(la) = n - 1
      /\ (\A k \in 1 .. j - 1 : pa[k] = l[k + 1]) /\ (\A k \in 1 .. n - 1 : la[k] = l[k + 1])
    <2>1. /\ Len(Tail(p)) = Len(p) - 1 /\ \A k \in 1 .. Len(p) - 1 : Tail(p)[k] = p[k + 1]
        BY <1>2, <1>3, HeadTailProperties
    <2>2. /\ Tail(l) \in Seq(Tokens) /\ Len(Tail(l)) = Len(l) - 1
          /\ \A k \in 1 .. Len(l) - 1 : Tail(l)[k] = l[k + 1]
        BY <1>3, HeadTailProperties
    <2>3. \A k \in 1 .. j - 1 : k + 1 \in 1 .. j
        BY <1>1
    <2> QED BY <1>2, <1>7, <2>1, <2>2, <2>3 DEF n
<1>9. /\ v \in Seq(Tokens) /\ w \in Seq(Tokens)
      /\ Len(v) = (IF 4 <= j - 1 THEN j - 4 ELSE 0) /\ Len(w) = (IF 4 <= n - 1 THEN n - 4 ELSE 0)
      /\ (\A k \in 1 .. j - 4 : v[k] = l[k + 4]) /\ (\A k \in 1 .. n - 4 : w[k] = l[k + 4])
    <2>1. /\ v \in Seq(Tokens) /\ Len(v) = IF 4 <= Len(pa) THEN Len(pa) - 3 ELSE 0
          /\ \A k \in 1 .. Len(pa) - 3 : v[k] = pa[k + 3]
        BY <1>5, ValuesAreTokens DEF pa
    <2>2. /\ w \in Seq(Tokens) /\ Len(w) = IF 4 <= Len(la) THEN Len(la) - 3 ELSE 0
          /\ \A k \in 1 .. Len(la) - 3 : w[k] = la[k + 3]
        BY <1>8, ValuesAreTokens
    <2>3. (\A k \in 1 .. j - 4 : k + 3 \in 1 .. j - 1) /\ (\A k \in 1 .. n - 4 : k + 3 \in 1 .. n - 1)
        BY <1>1
    <2>4. ASSUME NEW k \in 1 .. j - 4 PROVE v[k] = l[k + 4]
        <3> HIDE DEF v
        <3>1. (k + 3) + 1 = k + 4 /\ k \in 1 .. Len(pa) - 3 /\ k + 3 \in 1 .. j - 1
            BY <1>1, <1>8, <2>3
        <3> QED BY <1>8, <2>1, <3>1
    <2>5. ASSUME NEW k \in 1 .. n - 4 PROVE w[k] = l[k + 4]
        <3> HIDE DEF w
        <3>1. (k + 3) + 1 = k + 4 /\ k \in 1 .. Len(la) - 3 /\ k + 3 \in 1 .. n - 1
            BY <1>1, <1>8, <2>3
        <3> QED BY <1>8, <2>2, <3>1
    <2> HIDE DEF v, w
    <2>6. /\ Len(v) = (IF 4 <= j - 1 THEN j - 4 ELSE 0)
          /\ Len(w) = (IF 4 <= n - 1 THEN n - 4 ELSE 0)
        BY <1>1, <1>8, <2>1, <2>2
    <2> QED BY <2>1, <2>2, <2>4, <2>5, <2>6
<1> HIDE DEF v, w
<1>10. j >= 5 /\ Len(v) = j - 4 /\ Len(w) = n - 4
    <2>1. IsNumber(v) \/ IsString(v)
        BY <1>6
    <2>2. Word(v, 1) # ""
        BY <2>1 DEF IsNumber, IsString, Signs, Digits, Quote
    <2>3. 1 \in 1 .. Len(v)
        BY <2>2 DEF Word
    <2> QED BY <1>1, <1>9, <2>3
<1>11. /\ Word(la, 1) = Word(pa, 1) /\ Word(la, 2) = Word(pa, 2) /\ Word(la, 3) = Word(pa, 3)
       /\ Word(w, 1) = Word(v, 1)
    <2>1. \A k \in 1 .. 3 : Word(la, k) = Word(pa, k)
        <3> TAKE k \in 1 .. 3
        <3>1. k \in 1 .. j - 1 /\ k \in 1 .. n - 1
            BY <1>1, <1>10
        <3> QED BY <1>8, <3>1 DEF Word
    <2>2. 1 \in 1 .. j - 4 /\ 1 \in 1 .. n - 4
        BY <1>1, <1>10
    <2>3. Word(w, 1) = Word(v, 1)
        <3>1. w[1] = v[1]
            BY <1>9, <2>2
        <3>2. 1 \in 1 .. Len(v) /\ 1 \in 1 .. Len(w)
            BY <1>10, <2>2
        <3> QED BY <3>1, <3>2 DEF Word
    <2>4. 1 \in 1 .. 3 /\ 2 \in 1 .. 3 /\ 3 \in 1 .. 3
        OBVIOUS
    <2> QED BY <2>1, <2>3, <2>4
<1>12. /\ ObjectOf(la) = "CHANNEL" /\ AttrOf(la) = a /\ Word(la, 3) = "="
       /\ (IsNumber(w) <=> IsNumber(v))
    BY <1>6, <1>11 DEF ObjectOf, AttrOf, IsAssignment, IsNumber, pa
<1>13. /\ HasAttr(ObjectOf(la), AttrOf(la)) /\ ~IsReadOnly(AttrOf(la)) /\ SameType(w, AttrOf(la))
    BY <1>6, <1>12 DEF HasAttr, Attrs, IsReadOnly, SameType
<1> HIDE DEF a
<1>14. CASE a = "DELAY"
    <2>1. IsNumber(w) /\ ~IsString(w)
        <3>1. IsNumber(w)
            BY <1>6, <1>12, <1>14
        <3> QED BY <3>1 DEF IsNumber, IsString, Signs, Digits, Quote
    <2>2. IsAssignment(la)
        BY <1>12, <2>1 DEF IsAssignment, w
    <2>3. SetReply(la, all) = "+OK"
        BY <1>6, <1>12, <1>13, <2>1, <2>2 DEF SetReply, w
    <2>4. Assigns(l)
        BY <1>3, <1>4, <2>3 DEF Assigns, la
    <2>5. v = SubSeq(l, 5, j)
        <3> DEFINE q == SubSeq(l, 5, j)
        <3>1. \A k \in 5 .. j : l[k] \in Tokens
            BY <1>1, ElementOfSeq DEF n
        <3>2. /\ q \in Seq(Tokens) /\ Len(q) = (IF 5 <= j THEN j - 5 + 1 ELSE 0)
              /\ \A k \in 1 .. j - 5 + 1 : q[k] = l[5 + k - 1]
            BY <1>1, <3>1, SubSeqProperties
        <3> HIDE DEF q
        <3>3. Len(q) = Len(v)
            BY <1>1, <1>10, <3>2
        <3>4. ASSUME NEW k \in 1 .. Len(v) PROVE v[k] = q[k]
            <4>1. k \in 1 .. j - 4 /\ k \in 1 .. j - 5 + 1 /\ 5 + k - 1 = k + 4
                BY <1>1, <1>10
            <4> QED BY <1>9, <3>2, <4>1
        <3>5. v = q
            BY <1>9, <3>2, <3>3, <3>4, SeqEqual
        <3> QED BY <3>5 DEF q
    <2>6. j \in 5 .. n
        BY <1>1, <1>10
    <2> QED BY <1>6, <1>12, <1>14, <2>4, <2>5, <2>6 DEF p, pa, la, n, a
<1>15. CASE a = "NAME"
    <2>1. ~IsNumber(v) /\ IsString(v) /\ Value(pa) = Content(v) /\ ~TooLong(Content(v)) /\ ~IsNumber(w)
        BY <1>6, <1>12, <1>15
    <2>2. /\ EndOf(v) \in Closing(v) \cup {Len(v) + 1} /\ \A k \in Closing(v) \cup {Len(v) + 1} : EndOf(v) <= k
          /\ Content(v) = SubSeq(v, 2, EndOf(v) - 1) /\ Content(v) \in Seq(Tokens)
        BY <1>9, ContentEnds
    <2>3. /\ EndOf(w) \in Closing(w) \cup {Len(w) + 1} /\ \A k \in Closing(w) \cup {Len(w) + 1} : EndOf(w) <= k
          /\ Content(w) = SubSeq(w, 2, EndOf(w) - 1)
        BY <1>9, ContentEnds
    <2>4. \A k \in 1 .. Len(v) : k \in 1 .. Len(w) /\ w[k] = v[k] /\ k \in 1 .. j - 4
        <3> TAKE k \in 1 .. Len(v)
        <3>1. k \in 1 .. j - 4 /\ k \in 1 .. n - 4
            BY <1>1, <1>10
        <3> QED BY <1>9, <1>10, <3>1
    <2>5. EndOf(v) \in 3 .. Len(v) /\ v[EndOf(v)] = Quote
        <3>1. PICK k \in Closing(v) : k \in 3 .. Len(v)
            BY <2>1 DEF IsString, Closing
        <3>2. k \in Closing(v) /\ EndOf(v) <= k
            BY <2>2, <3>1
        <3>3. EndOf(v) \in Nat
            BY <1>1, <1>10, <2>2 DEF Closing
        <3>4. EndOf(v) # Len(v) + 1
            BY <1>1, <1>10, <3>1, <3>2, <3>3
        <3> QED BY <2>2, <3>4 DEF Closing
    <2>6. \A k \in 3 .. Len(v) : k \in Closing(w) <=> k \in Closing(v)
        <3> TAKE k \in 3 .. Len(v)
        <3>1. k \in 3 .. Len(w) /\ w[k] = v[k]
            BY <1>1, <1>10, <2>4
        <3>2. \A i \in 2 .. k - 1 : w[i] = v[i]
            <4> TAKE i \in 2 .. k - 1
            <4>1. i \in 1 .. Len(v)
                BY <1>1, <1>10
            <4> QED BY <2>4, <4>1
        <3> QED BY <3>1, <3>2 DEF Closing
    <2>7. EndOf(w) = EndOf(v)
        <3>1. EndOf(v) \in Closing(w) /\ EndOf(w) <= EndOf(v)
            <4>1. EndOf(v) \in Closing(v)
                BY <1>1, <1>10, <2>2, <2>5
            <4>2. EndOf(v) \in Closing(w)
                BY <2>5, <2>6, <4>1
            <4> QED BY <2>3, <4>2
        <3>2. EndOf(w) \in 3 .. Len(v)
            BY <1>1, <1>10, <2>3, <2>5, <3>1 DEF Closing
        <3>4. EndOf(w) \in Closing(v)
            <4>1. EndOf(w) # Len(w) + 1
                BY <1>1, <1>10, <3>2
            <4> QED BY <2>3, <2>6, <3>2, <4>1
        <3>5. EndOf(v) <= EndOf(w)
            BY <2>2, <3>4
        <3> QED BY <3>1, <3>2, <3>5, <2>5
    <2>8. IsString(w)
        <3>1. EndOf(v) \in Closing(w)
            <4>1. EndOf(v) \in Closing(v)
                BY <1>1, <1>10, <2>2, <2>5
            <4> QED BY <2>5, <2>6, <4>1
        <3> QED BY <1>11, <2>1, <3>1 DEF IsString
    <2>9. Content(w) = Content(v)
        <3> DEFINE d == EndOf(v) - 1
        <3>1. \A k \in 2 .. d : k \in 1 .. Len(v) /\ k + 0 \in 1 .. Len(w) /\ v[k] = w[k + 0]
            <4> TAKE k \in 2 .. d
            <4>1. k \in 1 .. Len(v) /\ k + 0 = k
                BY <1>1, <1>10, <2>5
            <4> QED BY <2>4, <4>1
        <3>2. d \in Int /\ d + 0 = d /\ 2 + 0 = 2
            BY <2>5
        <3> HIDE DEF d
        <3>3. SubSeq(v, 2, d) = SubSeq(w, 2 + 0, d + 0)
            BY <1>9, <3>1, <3>2, SameStretch
        <3> QED BY <2>2, <2>3, <2>7, <3>2, <3>3 DEF d
    <2>10. IsAssignment(la)
        BY <1>12, <2>8 DEF IsAssignment, w
    <2>11. SetReply(la, all) = "+OK"
        BY <1>6, <1>12, <1>13, <2>1, <2>9, <2>10 DEF SetReply, w
    <2>12. Assigns(l)
        BY <1>3, <1>4, <2>11 DEF Assigns, la
    <2>13. Value(la) = Content(w)
        BY <2>1 DEF Value, w
    <2> QED BY <1>12, <1>15, <2>1, <2>9, <2>12, <2>13 DEF p, pa, la, a
<1> QED BY <1>6, <1>14, <1>15 DEF a

LEMMA InventedStep ==
    ASSUME Understood, NoneInside, Arrived, Kept, Parts, NothingInvented, [Next]_vars
    PROVE  NothingInvented'
<1> DEFINE NameBy(x, l) == Meaning[l].do = "assign" /\ Meaning[l].attr = "NAME" /\ Meaning[l].to = x
           DelayBy(x, l) == /\ Meaning[l].do = "assign" /\ Meaning[l].attr = "DELAY"
                            /\ \E k \in 4 .. Len(l) - 1 : x = strtol(SubSeq(l, 5, k + 1))
           NameOk(x, ls) == x = <<>> \/ \E l \in ls : NameBy(x, l)
           DelayOk(x, ls) == x = DefaultDelay \/ \E l \in ls : DelayBy(x, l)
<1>1. NameOk(params.NAME, asked) /\ DelayOk(params.DELAY, asked)
    BY DEF NothingInvented
<1> SUFFICES NameOk(params'.NAME, asked') /\ DelayOk(params'.DELAY, asked')
    BY DEF NothingInvented
<1>2. asked \subseteq asked'
    <2>1. asked' = asked \/ \E l : asked' = asked \cup {l}
        BY DEF Next, ServerSends, Receive, Disconnect, Set, Get, Reset, Start, Stop, Ping, Unknown, Sent, vars, history
    <2> QED BY <2>1
<1>3. NameOk(params.NAME, asked') /\ DelayOk(params.DELAY, asked')
    <2> HIDE DEF NameBy, DelayBy
    <2> QED BY <1>1, <1>2
<1> HIDE DEF NameOk, DelayOk
<1>4. CASE UNCHANGED params
    BY <1>3, <1>4
<1>5. CASE Reset
    <2>1. params' = [params EXCEPT !.NAME = Defaults.NAME, !.DELAY = Defaults.DELAY]
        BY <1>5 DEF Reset
    <2>2. params'.NAME = <<>> /\ params'.DELAY = DefaultDelay
        BY <2>1 DEF Kept, Table, Defaults
    <2> QED BY <2>2 DEF NameOk, DelayOk
<1>6. CASE Set
    <2> DEFINE args == Arguments(Line)
    <2>0. Line \in Seq(Tokens) /\ args \in Seq(Tokens) /\ todo # <<>> /\ Command(Line) = "SET"
        BY <1>6, LineIsTokens DEF Set
    <2>1. CASE SetReply(args, Objects) # "+OK"
        <3>1. params' = params
            BY <1>6, <2>1 DEF Set
        <3> QED BY <1>4, <3>1
    <2>2. CASE SetReply(args, Objects) = "+OK"
        <3>1. params' = [params EXCEPT ![AttrOf(args)] = Value(args)] /\ asked' = asked
            BY <1>6, <2>2 DEF Set, Sent
        <3>2. Assigns(Line)
            BY <2>0, <2>2, SameAssignments DEF Assigns
        <3>3. PartOf(Line, asked)
            <4>1. todo \in Seq(Seq(Tokens))
                BY DEF Arrived
            <4> DEFINE T == Seq(Tokens)
            <4> HIDE DEF T
            <4>2. 1 \in 1 .. Len(todo)
                BY <2>0, <4>1, EmptySeq, LenProperties DEF T
            <4> QED BY <4>2 DEF Parts, Line
        <3>4. PICK m \in asked : \E i \in 1 .. Len(m) : \E j \in i .. Len(m) : Line = SubSeq(m, i, j)
            BY <3>3 DEF PartOf
        <3>5. PICK i \in 1 .. Len(m) : \E j \in i .. Len(m) : Line = SubSeq(m, i, j)
            BY <3>4
        <3>6. PICK j \in i .. Len(m) : Line = SubSeq(m, i, j)
            BY <3>5
        <3>7. m \in Lines /\ m \in Seq(Tokens) /\ Len(m) \in Nat
            BY LinesAreTexts, LenProperties DEF Arrived
        <3>8. i = 1 /\ j \in 1 .. Len(m)
            BY <3>2, <3>6, <3>7 DEF NoneInside
        <3> DEFINE p == SubSeq(m, 1, j)
                   a == AttrOf(args)
        <3>9. p = Line
            BY <3>6, <3>8
        <3>10. /\ Assigns(m) /\ AttrOf(Arguments(m)) = a /\ a \in {"NAME", "DELAY"}
               /\ a = "NAME" => Value(Arguments(m)) = Value(args)
               /\ a = "DELAY" => j \in 5 .. Len(m) /\ Value(args) = strtol(SubSeq(m, 5, j))
            <4> HIDE DEF p
            <4>1. Assigns(SubSeq(m, 1, j)) /\ SubSeq(m, 1, j) = Line
                BY <3>2, <3>9 DEF p
            <4> QED BY <3>7, <3>8, <4>1, BeginningAssigns
        <3>11. Meaning[m] = Reading("assign", AttrOf(Arguments(m)), Value(Arguments(m)), "+OK")
            BY <3>7, <3>10 DEF Understood, Sense, Assigns
        <3>12. Meaning[m].do = "assign" /\ Meaning[m].attr = a /\ Meaning[m].to = Value(Arguments(m))
            BY <3>10, <3>11, Fields
        <3> HIDE DEF args, a, p
        <3>13. CASE a = "NAME"
            <4>1. params'.NAME = Value(args) /\ params'.DELAY = params.DELAY
                BY <3>1, <3>13 DEF Kept, Table, a
            <4>2. NameBy(Value(args), m)
                BY <3>10, <3>12, <3>13
            <4> HIDE DEF NameBy
            <4>3. NameOk(Value(args), asked')
                BY <3>1, <3>4, <4>2 DEF NameOk
            <4> QED BY <1>3, <4>1, <4>3
        <3>14. CASE a = "DELAY"
            <4>1. params'.DELAY = Value(args) /\ params'.NAME = params.NAME
                BY <3>1, <3>14 DEF Kept, Table, a
            <4>2. DelayBy(Value(args), m)
                <5>1. j - 1 \in 4 .. Len(m) - 1 /\ (j - 1) + 1 = j
                    BY <3>7, <3>8, <3>10, <3>14
                <5> QED BY <3>10, <3>12, <3>14, <5>1
            <4> HIDE DEF DelayBy
            <4>3. DelayOk(Value(args), asked')
                BY <3>1, <3>4, <4>2 DEF DelayOk
            <4> QED BY <1>3, <4>1, <4>3
        <3> QED BY <3>10, <3>13, <3>14 DEF a
    <2> QED BY <2>1, <2>2
<1>7. ServerSends \/ Receive \/ Disconnect \/ Get \/ Start \/ Stop \/ Ping \/ Unknown \/ UNCHANGED vars => UNCHANGED params
    BY DEF ServerSends, Receive, Disconnect, Get, Start, Stop, Ping, Unknown, vars, device
<1> QED BY <1>4, <1>5, <1>6, <1>7 DEF Next

(* Wherever the pieces end and whatever is left of a cut line, the name is *)
(* one that was sent, never a part of it, and the delay is the beginning   *)
(* of a number that was (parse_assignment, strtol).                        *)
THEOREM NothingInventedAlways ==
    ASSUME Understood, NoneInside
    PROVE  Spec => []NothingInvented
<1>1. Init => Parts /\ NothingInvented
    <2> SUFFICES ASSUME Init PROVE Parts /\ NothingInvented
        OBVIOUS
    <2>1. Len(todo) = 0 /\ Len(stream) = 0
        BY EmptySeq DEF Init
    <2>2. params.NAME = <<>> /\ params.DELAY = DefaultDelay
        BY DEF Init, Defaults
    <2> QED BY <2>1, <2>2 DEF Parts, NothingInvented
<1>2. Arrived /\ Kept /\ Parts /\ NothingInvented /\ [Next]_vars => (Parts /\ NothingInvented)'
    BY PartsStep, InventedStep
<1> QED BY <1>1, <1>2, KeptAlways, PTL DEF Spec
=============================================================================
